------------------------------- MODULE RateLimiter -------------------------------
(***************************************************************************)
(* The per-address rate limiter in front of the sensitive routes: a map    *)
(* from client IP to token bucket in process memory, behind a mutex, from  *)
(* which a sweep drops the entries idle for longer than Idle.              *)
(*                                                                         *)
(* The routes use it with (rate, burst) = (0.1, 5), (0.2, 5) and (0.5, 10),*)
(* which in ticks of one second are Cost = 10, 5, 2 with those bursts, and *)
(* Idle = 3600.                                                            *)
(*                                                                         *)
(* The bucket itself is golang.org/x/time/rate, modelled from how it is    *)
(* used.  A request finds its bucket under the mutex and takes its token   *)
(* right after it; the two are one step here, because in between only a    *)
(* sweep could matter, and only to a goroutine not scheduled for longer    *)
(* than Idle.  The sweep runs once a minute; here it may run at any time.  *)
(***************************************************************************)
EXTENDS Integers

CONSTANTS
    Addresses,      \* client IPs
    Burst,          \* tokens in a full bucket
    Cost,           \* ticks in which one token is refilled
    Idle,           \* ticks after which an unused entry may be dropped
    MaxTime,        \* bounds the clock
    MaxRestarts     \* bounds the restarts of the process

(* A bucket is full again before its entry may be dropped.  It holds of    *)
(* every limiter the routes create: 50, 25 and 20 ticks against 3600.      *)
ASSUME LimiterParameters ==
    /\ Burst \in Nat \ {0} /\ Cost \in Nat \ {0} /\ Idle \in Nat
    /\ Burst * Cost <= Idle
    /\ MaxTime \in Nat /\ MaxRestarts \in Nat

VARIABLES
    clock,
    limiters,       \* the map; NoEntry for an address that is not in it
    spent,          \* history: what admitted requests of an address have cost
    restarts        \* history: how often the process has been started again

limiterVars == <<clock, limiters, spent, restarts>>

-----------------------------------------------------------------------------

Full == Burst * Cost

NoEntry == [level |-> -1]

(* level is what the bucket held at the time last, seen the time of the    *)
(* latest request, admitted or not.                                        *)
Limiter == [level: 0..Full, last: Nat, seen: Nat]

Least(x, y) == IF x <= y THEN x ELSE y

LimiterTypeOK ==
    /\ clock \in Nat
    /\ limiters \in [Addresses -> Limiter \cup {NoEntry}]
    /\ spent \in [Addresses -> Nat]
    /\ restarts \in Nat

LimiterInit ==
    /\ clock = 0
    /\ limiters = [a \in Addresses |-> NoEntry]
    /\ spent = [a \in Addresses |-> 0]
    /\ restarts = 0

(* The entry that a request of a finds, or makes.                          *)
Entry(a) ==
    IF limiters[a] = NoEntry
    THEN [level |-> Full, last |-> clock, seen |-> clock] ELSE limiters[a]

(* The bucket refills with the time since it was last taken from.          *)
Available(l) == Least(Full, l.level + (clock - l.last))

-----------------------------------------------------------------------------

Tick ==
    /\ clock < MaxTime
    /\ clock' = clock + 1
    /\ UNCHANGED <<limiters, spent, restarts>>

(* Mutant of Allow: the token is not taken.                                *)
AllowForFree(a) ==
    /\ Available(Entry(a)) >= Cost
    /\ limiters' = [limiters EXCEPT ![a] = [Entry(a) EXCEPT !.seen = clock]]
    /\ spent' = [spent EXCEPT ![a] = @ + Cost]
    /\ UNCHANGED <<clock, restarts>>

Allow(a) ==
    /\ Available(Entry(a)) >= Cost
    /\ limiters' = [limiters EXCEPT
          ![a] = [level |-> Available(Entry(a)) - Cost, last |-> clock, seen |-> clock]]
    /\ spent' = [spent EXCEPT ![a] = @ + Cost]
    /\ UNCHANGED <<clock, restarts>>

(* 429: the entry is seen all the same, and the token is not taken.        *)
Refuse(a) ==
    /\ Available(Entry(a)) < Cost
    /\ limiters' = [limiters EXCEPT ![a] = [Entry(a) EXCEPT !.seen = clock]]
    /\ UNCHANGED <<clock, spent, restarts>>

(* Mutant of Stale: an entry may go as soon as it was not used this tick.  *)
StaleAtOnce(a) == limiters[a] # NoEntry /\ clock - limiters[a].seen > 0

Stale(a) == limiters[a] # NoEntry /\ clock - limiters[a].seen > Idle

Sweep ==
    /\ \E a \in Addresses : Stale(a)
    /\ limiters' = [a \in Addresses |-> IF Stale(a) THEN NoEntry ELSE limiters[a]]
    /\ UNCHANGED <<clock, spent, restarts>>

(* The map is process memory.                                              *)
ForgetAll ==
    /\ restarts < MaxRestarts
    /\ restarts' = restarts + 1
    /\ limiters' = [a \in Addresses |-> NoEntry]
    /\ UNCHANGED <<clock, spent>>

LimiterNext ==
    \/ Tick \/ Sweep \/ ForgetAll
    \/ \E a \in Addresses : Allow(a) \/ Refuse(a)

LimiterSpec == LimiterInit /\ [][LimiterNext]_limiterVars

-----------------------------------------------------------------------------
(* Properties.                                                             *)

Buckets == INSTANCE TokenBuckets
    WITH level <- [a \in Addresses |-> Available(Entry(a))]

(* Dropping idle entries is invisible: the limiter behaves as one that     *)
(* keeps a bucket for every address for ever (the sweep of RateLimiter     *)
(* hands out no burst that waiting would not have given).                  *)
SweepIsInvisible == Buckets!Spec

(* However requests, sweeps and restarts fall, an address has been let     *)
(* through at most a burst for every time the process was started, and the *)
(* rate times the time that has passed.                                    *)
BudgetHolds == \A a \in Addresses : spent[a] <= Full * (restarts + 1) + clock

=============================================================================
