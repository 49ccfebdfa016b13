------------------------------- MODULE ProcessBoot -------------------------------
(***************************************************************************)
(* The start of the API process: read the settings, open the pool, apply   *)
(* the schema migrations, then the seed migrations, wire the services and  *)
(* serve until a signal.  Each start runs all of it again over the database*)
(* that earlier ones left.                                                 *)
(*                                                                         *)
(* The migration runner is goose, modelled from how Migrate uses it.  Both *)
(* directories share one version table.  Up reads it once, refuses a       *)
(* directory that lacks a version below the newest one applied, and applies*)
(* the others in order, each in a transaction with its version row.        *)
(*                                                                         *)
(* Abstracted: what a migration contains, the settings other than those a  *)
(* service treats specially, and the blob store, which may be missing: then*)
(* the handlers run in their placeholder modes.  One process at a time, the*)
(* single-node deployment the code is written for.                         *)
(***************************************************************************)
EXTENDS Integers

CONSTANTS
    Schema,         \* versions of the migrations in migrations/
    Seed            \* versions of the migrations in migrations/seed/

(* The files are numbered up to 9, and from 11 to 14.                      *)
ASSUME SeedsComeAfterSchema ==
    /\ Schema \subseteq Nat /\ Seed \subseteq Nat
    /\ \A v \in Schema, w \in Seed : v < w

VARIABLES
    phase,          \* how far the process has come
    config,         \* the settings loaded, as the services will use them
    dir,            \* the directory being migrated
    plan,           \* versions Up has still to apply
    applied         \* table goose_db_version

bootVars == <<phase, config, dir, plan, applied>>

-----------------------------------------------------------------------------
(* Settings.                                                               *)

(* A number in the environment.                                            *)
Numeric == {"unset", "malformed", "nonpositive", "positive"}

Environment == [secret: BOOLEAN, lifetime: Numeric, ttl: Numeric]

(* Mutant of GetInt: what does not parse is passed on.                     *)
GetIntRaw(v) == IF v = "unset" THEN "positive" ELSE v

(* The defaults are positive.                                              *)
GetInt(v) == IF v \in {"unset", "malformed"} THEN "positive" ELSE v

Config == [lifetime: {"nonpositive", "positive"}, ttl: {"nonpositive", "positive"}]

NoConfig == [lifetime |-> "unset", ttl |-> "unset"]

-----------------------------------------------------------------------------

Versions(d) == IF d = "schema" THEN Schema ELSE Seed

(* Up refuses a directory with one of these: not applied, though a later   *)
(* version is.                                                             *)
Missing(d) == {v \in Versions(d) \ applied : \E w \in applied : v < w}

Up == phase \in {"serving", "draining"}

BootTypeOK ==
    /\ phase \in {"down", "opening", "listing", "applying", "wiring", "serving",
                  "draining", "refused"}
    /\ config \in Config \cup {NoConfig}
    /\ dir \in {"schema", "seed"}
    /\ plan \subseteq Schema \cup Seed
    /\ applied \subseteq Schema \cup Seed

BootInit ==
    /\ phase = "down"
    /\ config = NoConfig
    /\ dir = "schema"
    /\ plan = {}
    /\ applied = {}

(* config.Load: without a session secret the process exits at once.        *)
Load(e) ==
    /\ phase \in {"down", "refused"}
    /\ e.secret
    /\ config' = [lifetime |-> GetInt(e.lifetime), ttl |-> GetInt(e.ttl)]
    /\ phase' = "opening"
    /\ UNCHANGED <<dir, plan, applied>>

(* db.Open: create the pool and ping.                                      *)
Open ==
    /\ phase = "opening"
    /\ phase' = "listing"
    /\ UNCHANGED <<config, dir, plan, applied>>

(* Up, before it applies anything.  A refusal ends the process.            *)
List ==
    /\ phase = "listing"
    /\ IF Missing(dir) = {}
       THEN /\ phase' = "applying" /\ plan' = Versions(dir) \ applied
            /\ UNCHANGED <<config, dir>>
       ELSE /\ phase' = "refused" /\ plan' = {}
            /\ config' = NoConfig /\ dir' = "schema"
    /\ UNCHANGED applied

(* Mutant of Apply: in no particular order.                                *)
ApplyAny ==
    /\ phase = "applying"
    /\ \E v \in plan :
          /\ applied' = applied \cup {v}
          /\ plan' = plan \ {v}
    /\ UNCHANGED <<phase, config, dir>>

(* One migration and its version row, in one transaction.                  *)
Apply ==
    /\ phase = "applying"
    /\ \E v \in plan :
          /\ \A w \in plan : v <= w
          /\ applied' = applied \cup {v}
          /\ plan' = plan \ {v}
    /\ UNCHANGED <<phase, config, dir>>

(* Mutant of Migrated: the seeds are forgotten.                            *)
MigratedSchema ==
    /\ phase = "applying" /\ plan = {}
    /\ phase' = "wiring" /\ dir' = "schema"
    /\ UNCHANGED <<config, plan, applied>>

(* The second call of Migrate is for the seeds.                            *)
Migrated ==
    /\ phase = "applying" /\ plan = {}
    /\ IF dir = "schema"
       THEN phase' = "listing" /\ dir' = "seed"
       ELSE phase' = "wiring" /\ dir' = "schema"
    /\ UNCHANGED <<config, plan, applied>>

(* A service replaces a lifetime that is not positive by its default.      *)
OrDefault(v) == IF v = "nonpositive" THEN "positive" ELSE v

Wire ==
    /\ phase = "wiring"
    /\ config' = [lifetime |-> OrDefault(config.lifetime), ttl |-> OrDefault(config.ttl)]
    /\ phase' = "serving"
    /\ UNCHANGED <<dir, plan, applied>>

(* Run waits ten seconds after the signal; the listener stays open.        *)
Signal ==
    /\ phase = "serving"
    /\ phase' = "draining"
    /\ UNCHANGED <<config, dir, plan, applied>>

(* The process ends, from an error of any step, a crash, or the end of the *)
(* ten seconds.  The database stays.                                       *)
Die ==
    /\ phase \notin {"down", "refused"}
    /\ phase' = "down"
    /\ config' = NoConfig /\ dir' = "schema" /\ plan' = {}
    /\ UNCHANGED applied

BootStep ==
    \/ \E e \in Environment : Load(e)
    \/ Open \/ List \/ Apply \/ Migrated \/ Wire \/ Signal

BootNext == BootStep \/ Die

BootSpec == BootInit /\ [][BootNext]_bootVars

-----------------------------------------------------------------------------
(* Properties.                                                             *)

(* Wherever earlier starts were cut off, Up accepts the database they left:*)
(* the migrations of Migrate's two calls never leave a gap that would keep *)
(* every later start from serving.                                         *)
BootAccepted == phase # "refused"

(* A request is served only over the complete schema and seed, and no      *)
(* service runs with a session lifetime or forecast lifetime of zero or    *)
(* less, whatever the environment and however the earlier starts ended.    *)
ServingMeansReady ==
    Up => /\ applied = Schema \cup Seed
          /\ config = [lifetime |-> "positive", ttl |-> "positive"]

=============================================================================
