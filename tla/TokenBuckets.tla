------------------------------ MODULE TokenBuckets ------------------------------
(***************************************************************************)
(* What RateLimiter promises: every client address has one bucket, full at *)
(* the start of the process, that fills by a token every Cost ticks up to  *)
(* Burst tokens, and an admitted request takes one token.  Nothing forgets *)
(* a bucket but the end of the process.                                    *)
(*                                                                         *)
(* Levels are counted in ticks of the clock, so that a token is Cost of    *)
(* them and no fraction of a token needs a number of its own.              *)
(***************************************************************************)
EXTENDS Integers

CONSTANTS
    Addresses,      \* client IPs
    Burst,          \* tokens in a full bucket
    Cost,           \* ticks in which one token is refilled
    MaxTime,        \* bounds the clock
    MaxRestarts     \* bounds the restarts of the process

VARIABLES
    clock,
    level,          \* level[a]: what the bucket of a holds now, in ticks
    spent,          \* spent[a]: what admitted requests of a have cost so far
    restarts        \* how often the process has been started again

vars == <<clock, level, spent, restarts>>

Full == Burst * Cost

Least(x, y) == IF x <= y THEN x ELSE y

Init ==
    /\ clock = 0
    /\ level = [a \in Addresses |-> Full]
    /\ spent = [a \in Addresses |-> 0]
    /\ restarts = 0

Tick ==
    /\ clock < MaxTime
    /\ clock' = clock + 1
    /\ level' = [a \in Addresses |-> Least(Full, level[a] + 1)]
    /\ UNCHANGED <<spent, restarts>>

Admit(a) ==
    /\ level[a] >= Cost
    /\ level' = [level EXCEPT ![a] = @ - Cost]
    /\ spent' = [spent EXCEPT ![a] = @ + Cost]
    /\ UNCHANGED <<clock, restarts>>

Restart ==
    /\ restarts < MaxRestarts
    /\ restarts' = restarts + 1
    /\ level' = [a \in Addresses |-> Full]
    /\ UNCHANGED <<clock, spent>>

Next == Tick \/ Restart \/ \E a \in Addresses : Admit(a)

Spec == Init /\ [][Next]_vars

=============================================================================
