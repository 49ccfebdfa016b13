\* One mountain with one field of one value, one route, one gallery row, one
\* image (so two covers, with none); up to two revisions and three log
\* entries; two requests at a time.
CONSTANTS
    Mountains = {m1}
    Objects = {o1}
    Photos = {g1}
    Keys = {k1}
    Fields = {name}
    Values = {v1}
    NoKey = NoKey
    MaxRevisions = 2
    MaxLog = 3
    Handlers = {p1, p2}
SPECIFICATION Spec
SYMMETRY Symmetry
INVARIANTS TypeOK CoverFollowsLog LostImageIsLogged TrailMatchesObjects
