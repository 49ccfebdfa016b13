\* One mountain with one field; no routes, gallery or images; two edits at once.
CONSTANTS
    Mountains = {m1}
    Objects = {}
    Photos = {}
    Keys = {}
    Fields = {name}
    Values = {v1, v2}
    NoKey = NoKey
    MaxRevisions = 3
    MaxLog = 0
    Handlers = {p1, p2}
SPECIFICATION Spec
PROPERTIES ReplacedRowIsRevised
