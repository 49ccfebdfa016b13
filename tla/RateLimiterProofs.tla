--------------------------- MODULE RateLimiterProofs ---------------------------
(***************************************************************************)
(* RateLimiter for any addresses, rates, bursts and idle times that satisfy*)
(* LimiterParameters: it implements TokenBuckets, and admits no more than  *)
(* the budget.                                                             *)
(***************************************************************************)
EXTENDS RateLimiter, TLAPS

(* No entry is from the future, and it was seen no earlier than last used. *)
EntriesDated ==
    \A a \in Addresses :
        limiters[a] # NoEntry =>
            limiters[a].last <= limiters[a].seen /\ limiters[a].seen <= clock

LimiterInv == LimiterTypeOK /\ EntriesDated

(* A full bucket is a positive number of ticks, and holds a token.         *)
LEMMA FullHoldsAToken == Full \in Nat /\ Cost \in Nat \ {0} /\ Cost <= Full
<1>1. Burst \in Nat \ {0} /\ Cost \in Nat \ {0}
  BY LimiterParameters
<1>2. \E b \in Nat : Burst = b + 1
  <2>1. Burst - 1 \in Nat /\ Burst = (Burst - 1) + 1
    BY <1>1, SMT
  <2> QED
    BY <2>1
<1>3. PICK b \in Nat : Burst = b + 1
  BY <1>2
<1>4. Burst * Cost = b * Cost + Cost /\ b * Cost \in Nat
  BY <1>1, <1>3, SMT
<1> QED
  BY <1>1, <1>4 DEF Full

(* What a request can count on: an entry within its bounds.                *)
LEMMA EntryType ==
    ASSUME LimiterInv, NEW a \in Addresses
    PROVE  /\ Entry(a) \in Limiter
           /\ Entry(a).last <= Entry(a).seen /\ Entry(a).seen <= clock
           /\ Available(Entry(a)) \in 0..Full
<1>1. CASE limiters[a] = NoEntry
  <2>1. Entry(a) = [level |-> Full, last |-> clock, seen |-> clock]
    BY <1>1 DEF Entry
  <2> QED
    BY <2>1, FullHoldsAToken DEF LimiterInv, LimiterTypeOK, Limiter, Available, Least
<1>2. CASE limiters[a] # NoEntry
  <2>1. Entry(a) = limiters[a] /\ limiters[a] \in Limiter
    BY <1>2 DEF Entry, LimiterInv, LimiterTypeOK
  <2>2. Entry(a).last <= Entry(a).seen /\ Entry(a).seen <= clock
    BY <1>2, <2>1 DEF LimiterInv, EntriesDated
  <2> QED
    BY <2>1, <2>2, FullHoldsAToken DEF LimiterInv, LimiterTypeOK, Limiter, Available, Least
<1> QED
  BY <1>1, <1>2

(* No entry in the map is the value that stands for its absence.           *)
LEMMA EntriesAreThere == \A l \in Limiter : l # NoEntry
BY FullHoldsAToken DEF Limiter, NoEntry

(* The initial state satisfies the invariant.                              *)
LEMMA InvInit == LimiterInit => LimiterInv
BY FullHoldsAToken, LimiterParameters
   DEF LimiterInit, LimiterInv, LimiterTypeOK, EntriesDated

(* Every step keeps the invariant.                                         *)
LEMMA InvStep == LimiterInv /\ [LimiterNext]_limiterVars => LimiterInv'
<1> SUFFICES ASSUME LimiterInv, [LimiterNext]_limiterVars
             PROVE  LimiterInv'
  OBVIOUS
<1> USE FullHoldsAToken
<1>1. CASE Tick
  BY <1>1 DEF Tick, LimiterInv, LimiterTypeOK, EntriesDated, Limiter
<1>2. ASSUME NEW a \in Addresses, Allow(a)
      PROVE  LimiterInv'
  <2> DEFINE taken == [level |-> Available(Entry(a)) - Cost, last |-> clock, seen |-> clock]
  <2>1. Available(Entry(a)) \in 0..Full /\ Available(Entry(a)) >= Cost
    BY <1>2, EntryType DEF Allow
  <2>2. taken \in Limiter
    BY <2>1 DEF Limiter, LimiterInv, LimiterTypeOK
  <2>3. limiters' = [limiters EXCEPT ![a] = taken] /\ clock' = clock
        /\ spent' = [spent EXCEPT ![a] = @ + Cost] /\ restarts' = restarts
    BY <1>2 DEF Allow
  <2>4. LimiterTypeOK'
    BY <2>2, <2>3 DEF LimiterInv, LimiterTypeOK
  <2>5. EntriesDated'
    BY <2>3 DEF LimiterInv, LimiterTypeOK, EntriesDated
  <2> QED
    BY <2>4, <2>5 DEF LimiterInv
<1>3. ASSUME NEW a \in Addresses, Refuse(a)
      PROVE  LimiterInv'
  <2> DEFINE seen == [Entry(a) EXCEPT !.seen = clock]
  <2>1. Entry(a) \in Limiter /\ Entry(a).last <= Entry(a).seen /\ Entry(a).seen <= clock
    BY EntryType
  <2>2. seen \in Limiter /\ seen.last <= seen.seen /\ seen.seen = clock
    BY <2>1 DEF Limiter, LimiterInv, LimiterTypeOK
  <2>3. limiters' = [limiters EXCEPT ![a] = seen] /\ clock' = clock
        /\ spent' = spent /\ restarts' = restarts
    BY <1>3 DEF Refuse
  <2>4. LimiterTypeOK'
    BY <2>2, <2>3 DEF LimiterInv, LimiterTypeOK
  <2>5. EntriesDated'
    BY <2>2, <2>3 DEF LimiterInv, LimiterTypeOK, EntriesDated
  <2> QED
    BY <2>4, <2>5 DEF LimiterInv
<1>4. CASE Sweep
  BY <1>4 DEF Sweep, LimiterInv, LimiterTypeOK, EntriesDated
<1>5. CASE ForgetAll
  BY <1>5 DEF ForgetAll, LimiterInv, LimiterTypeOK, EntriesDated
<1>6. CASE UNCHANGED limiterVars
  BY <1>6 DEF limiterVars, LimiterInv, LimiterTypeOK, EntriesDated
<1> QED
  BY <1>1, <1>2, <1>3, <1>4, <1>5, <1>6 DEF LimiterNext

(* The invariant holds throughout.                                         *)
LEMMA Invariance == LimiterSpec => []LimiterInv
<1> QED
  BY InvInit, InvStep, PTL DEF LimiterSpec

(* Every field of every entry keeps its type (RateLimiter's map).          *)
THEOREM LimiterTypeCorrect == LimiterSpec => []LimiterTypeOK
<1>1. LimiterInv => LimiterTypeOK
  BY DEF LimiterInv
<1> QED
  BY <1>1, Invariance, PTL

-----------------------------------------------------------------------------
(* The refinement.                                                         *)

Level == [a \in Addresses |-> Available(Entry(a))]

(* An entry that the sweep may drop stands for a full bucket: it has not   *)
(* been taken from for longer than a bucket takes to fill.                 *)
LEMMA StaleIsFull ==
    ASSUME LimiterInv, NEW a \in Addresses, Stale(a)
    PROVE  Available(Entry(a)) = Full
<1>1. limiters[a] # NoEntry /\ clock - limiters[a].seen > Idle
  BY DEF Stale
<1>2. Entry(a) = limiters[a] /\ limiters[a] \in Limiter
  BY <1>1 DEF Entry, LimiterInv, LimiterTypeOK
<1>3. limiters[a].last <= limiters[a].seen
  BY <1>1 DEF LimiterInv, EntriesDated
<1>4. Full <= Idle /\ Idle \in Nat /\ Full \in Nat /\ clock \in Nat
  BY LimiterParameters, FullHoldsAToken DEF Full, LimiterInv, LimiterTypeOK
<1> QED
  BY <1>1, <1>2, <1>3, <1>4 DEF Available, Least, Limiter

(* An address without an entry has a full bucket.                          *)
LEMMA NoEntryIsFull ==
    ASSUME NEW a \in Addresses, limiters[a] = NoEntry, clock \in Nat
    PROVE  Available(Entry(a)) = Full
<1>1. Entry(a).level = Full /\ Entry(a).last = clock
  BY DEF Entry
<1> QED
  BY <1>1, FullHoldsAToken DEF Available, Least

(* Time fills the buckets.                                                 *)
LEMMA TickRefines ==
    ASSUME LimiterInv, Tick
    PROVE  Buckets!Tick
<1>1. clock < MaxTime /\ clock' = clock + 1 /\ limiters' = limiters
      /\ spent' = spent /\ restarts' = restarts /\ clock \in Nat
  BY DEF Tick, LimiterInv, LimiterTypeOK
<1>2. ASSUME NEW a \in Addresses
      PROVE  Available(Entry(a))' = Least(Full, Available(Entry(a)) + 1)
  <2>1. CASE limiters[a] = NoEntry
    <3>1. Available(Entry(a)) = Full
      BY <1>1, <2>1, NoEntryIsFull
    <3>2. Entry(a)'.level = Full /\ Entry(a)'.last = clock'
      BY <1>1, <2>1 DEF Entry
    <3>3. Available(Entry(a))' = Full
      BY <1>1, <3>2, FullHoldsAToken DEF Available, Least, Full
    <3> QED
      BY <3>1, <3>3, FullHoldsAToken DEF Least
  <2>2. CASE limiters[a] # NoEntry
    <3>1. Entry(a)' = limiters[a] /\ Entry(a) = limiters[a] /\ limiters[a] \in Limiter
      BY <1>1, <2>2 DEF Entry, LimiterInv, LimiterTypeOK
    <3>2. Available(Entry(a))' = Least(Full, limiters[a].level + (clock' - limiters[a].last))
      BY <3>1 DEF Available, Least, Full
    <3>3. Available(Entry(a)) = Least(Full, limiters[a].level + (clock - limiters[a].last))
      BY <3>1 DEF Available
    <3>4. limiters[a].level \in 0..Full /\ limiters[a].last \in Nat
      BY <3>1 DEF Limiter
    <3> QED
      BY <1>1, <3>2, <3>3, <3>4, FullHoldsAToken DEF Least
  <2> QED
    BY <2>1, <2>2
<1>3. Level' = [a \in Addresses |-> Least(Full, Level[a] + 1)]
  BY <1>2 DEF Level
<1> QED
  BY <1>1, <1>3 DEF Buckets!Tick, Buckets!Full, Buckets!Least, Level, Full, Least

(* An admitted request takes its token.                                    *)
LEMMA AllowRefines ==
    ASSUME LimiterInv, NEW a \in Addresses, Allow(a)
    PROVE  Buckets!Admit(a)
<1> DEFINE taken == [level |-> Available(Entry(a)) - Cost, last |-> clock, seen |-> clock]
<1>1. Available(Entry(a)) \in 0..Full /\ Available(Entry(a)) >= Cost /\ clock \in Nat
  BY EntryType DEF Allow, LimiterInv, LimiterTypeOK
<1>2. limiters' = [limiters EXCEPT ![a] = taken] /\ clock' = clock
      /\ spent' = [spent EXCEPT ![a] = @ + Cost] /\ restarts' = restarts
  BY DEF Allow
<1>3. limiters \in [Addresses -> Limiter \cup {NoEntry}]
  BY DEF LimiterInv, LimiterTypeOK
<1>4. Available(Entry(a))' = Available(Entry(a)) - Cost
  <2>1. taken \in Limiter
    BY <1>1, FullHoldsAToken DEF Limiter
  <2>2. Entry(a)' = taken
    BY <1>2, <1>3, <2>1, EntriesAreThere DEF Entry
  <2> QED
    BY <1>1, <1>2, <2>2, FullHoldsAToken DEF Available, Least, Full
<1>5. ASSUME NEW b \in Addresses, b # a
      PROVE  Available(Entry(b))' = Available(Entry(b))
  BY <1>2, <1>3, <1>5 DEF Entry, Available, Least, Full
<1>6. Level' = [Level EXCEPT ![a] = @ - Cost]
  BY <1>4, <1>5 DEF Level
<1>7. Level[a] >= Cost
  BY <1>1 DEF Level
<1> QED
  BY <1>2, <1>6, <1>7 DEF Buckets!Admit, Level

(* A refusal leaves the levels as they are.                                *)
LEMMA RefuseStutters ==
    ASSUME LimiterInv, NEW a \in Addresses, Refuse(a)
    PROVE  UNCHANGED <<clock, Level, spent, restarts>>
<1>1. limiters' = [limiters EXCEPT ![a] = [Entry(a) EXCEPT !.seen = clock]]
      /\ clock' = clock /\ spent' = spent /\ restarts' = restarts
  BY DEF Refuse
<1>2. limiters \in [Addresses -> Limiter \cup {NoEntry}] /\ Entry(a) \in Limiter
      /\ clock \in Nat
  BY EntryType DEF LimiterInv, LimiterTypeOK
<1>3. [Entry(a) EXCEPT !.seen = clock] \in Limiter
  BY <1>2 DEF Limiter
<1>4. Entry(a)' = [Entry(a) EXCEPT !.seen = clock]
  BY <1>1, <1>2, <1>3, EntriesAreThere DEF Entry
<1>5. Available(Entry(a))' = Available(Entry(a))
  BY <1>1, <1>2, <1>4 DEF Available, Least, Full, Limiter
<1>6. ASSUME NEW b \in Addresses, b # a
      PROVE  Available(Entry(b))' = Available(Entry(b))
  BY <1>1, <1>2, <1>6 DEF Entry, Available, Least, Full
<1> QED
  BY <1>1, <1>5, <1>6 DEF Level

(* A swept bucket was full.                                                *)
LEMMA SweepStutters ==
    ASSUME LimiterInv, Sweep
    PROVE  UNCHANGED <<clock, Level, spent, restarts>>
<1>1. clock' = clock /\ spent' = spent /\ restarts' = restarts /\ clock \in Nat
      /\ limiters' = [a \in Addresses |-> IF Stale(a) THEN NoEntry ELSE limiters[a]]
  BY DEF Sweep, LimiterInv, LimiterTypeOK
<1>2. ASSUME NEW a \in Addresses
      PROVE  Available(Entry(a))' = Available(Entry(a))
  <2>1. CASE Stale(a)
    <3>1. limiters'[a] = NoEntry /\ clock' \in Nat
      BY <1>1, <2>1
    <3>2. Entry(a)'.level = Full /\ Entry(a)'.last = clock'
      BY <3>1 DEF Entry
    <3>3. Available(Entry(a))' = Full
      BY <3>1, <3>2, FullHoldsAToken DEF Available, Least, Full
    <3> QED
      BY <2>1, <3>3, StaleIsFull
  <2>2. CASE ~ Stale(a)
    <3>1. limiters'[a] = limiters[a]
      BY <1>1, <2>2
    <3> QED
      BY <1>1, <3>1 DEF Entry, Available, Least, Full
  <2> QED
    BY <2>1, <2>2
<1> QED
  BY <1>1, <1>2 DEF Level

(* The end of the process fills every bucket.                              *)
LEMMA ForgetRefines ==
    ASSUME LimiterInv, ForgetAll
    PROVE  Buckets!Restart
<1>1. restarts < MaxRestarts /\ restarts' = restarts + 1 /\ clock' = clock
      /\ spent' = spent /\ limiters' = [a \in Addresses |-> NoEntry] /\ clock' \in Nat
  BY DEF ForgetAll, LimiterInv, LimiterTypeOK
<1>2. ASSUME NEW a \in Addresses
      PROVE  Available(Entry(a))' = Full
  <2>1. Entry(a)'.level = Full /\ Entry(a)'.last = clock'
    BY <1>1 DEF Entry
  <2> QED
    BY <1>1, <2>1, FullHoldsAToken DEF Available, Least, Full
<1>3. Level' = [a \in Addresses |-> Full]
  BY <1>2 DEF Level
<1> QED
  BY <1>1, <1>3 DEF Buckets!Restart, Buckets!Full, Full, Level

(* The limiter with its sweep implements one bucket per address that       *)
(* nothing but the end of the process forgets: every admitted request is   *)
(* one that TokenBuckets admits, and refusals and sweeps are invisible.    *)
THEOREM ImplementsTokenBuckets == LimiterSpec => SweepIsInvisible
<1>1. LimiterInit => Buckets!Init
  <2> SUFFICES ASSUME LimiterInit
               PROVE  Buckets!Init
    OBVIOUS
  <2>2. ASSUME NEW a \in Addresses
        PROVE  Available(Entry(a)) = Full
    <3>1. limiters[a] = NoEntry /\ clock \in Nat
      BY DEF LimiterInit
    <3> QED
      BY <3>1, NoEntryIsFull
  <2> QED
    BY <2>2 DEF LimiterInit, Buckets!Init, Buckets!Full, Full
<1>2. LimiterInv /\ [LimiterNext]_limiterVars => [Buckets!Next]_(Buckets!vars)
  <2> SUFFICES ASSUME LimiterInv, [LimiterNext]_limiterVars
               PROVE  [Buckets!Next]_(Buckets!vars)
    OBVIOUS
  <2>1. CASE Tick
    BY <2>1, TickRefines DEF Buckets!Next
  <2>2. ASSUME NEW a \in Addresses, Allow(a)
        PROVE  Buckets!Next
    BY <2>2, AllowRefines DEF Buckets!Next
  <2>3. ASSUME NEW a \in Addresses, Refuse(a)
        PROVE  UNCHANGED Buckets!vars
    BY <2>3, RefuseStutters DEF Buckets!vars, Level
  <2>4. CASE Sweep
    BY <2>4, SweepStutters DEF Buckets!vars, Level
  <2>5. CASE ForgetAll
    BY <2>5, ForgetRefines DEF Buckets!Next
  <2>6. CASE UNCHANGED limiterVars
    BY <2>6 DEF limiterVars, Buckets!vars, Entry, Available, Least, Full
  <2> QED
    BY <2>1, <2>2, <2>3, <2>4, <2>5, <2>6 DEF LimiterNext
<1> QED
  BY <1>1, <1>2, Invariance, PTL DEF LimiterSpec, SweepIsInvisible, Buckets!Spec

-----------------------------------------------------------------------------
(* The budget.                                                             *)

(* What an address has spent and what its bucket holds come to no more     *)
(* than what the bucket was ever given.                                    *)
Account ==
    \A a \in Addresses :
        spent[a] + Level[a] <= Full * (restarts + 1) + clock

(* No step lets an address exceed its budget.                              *)
LEMMA AccountStep ==
    ASSUME LimiterInv, Account, [LimiterNext]_limiterVars
    PROVE  Account'
<1>1. /\ \A a \in Addresses : spent[a] \in Nat /\ Level[a] \in 0..Full
      /\ restarts \in Nat /\ clock \in Nat
      /\ DOMAIN spent = Addresses
  BY EntryType DEF LimiterInv, LimiterTypeOK, Level
<1>2. Full \in Nat /\ Cost \in Nat \ {0} /\ Cost <= Full
  BY FullHoldsAToken
<1>3. Full * (restarts + 1) \in Nat
  BY <1>1, <1>2, SMT
<1>4. CASE Tick
  <2>1. Level' = [a \in Addresses |-> Least(Full, Level[a] + 1)] /\ clock' = clock + 1
        /\ spent' = spent /\ restarts' = restarts
    BY <1>4, TickRefines DEF Buckets!Tick, Buckets!Full, Buckets!Least, Level, Full, Least
  <2> QED
    BY <1>1, <1>2, <1>3, <2>1 DEF Account, Least, Full
<1>5. ASSUME NEW a \in Addresses, Allow(a)
      PROVE  Account'
  <2>1. Level' = [Level EXCEPT ![a] = @ - Cost] /\ spent' = [spent EXCEPT ![a] = @ + Cost]
        /\ clock' = clock /\ restarts' = restarts
    BY <1>5, AllowRefines DEF Buckets!Admit, Level
  <2>2. DOMAIN Level = Addresses
    BY DEF Level
  <2>3. ASSUME NEW b \in Addresses
        PROVE  spent'[b] + Level'[b] = spent[b] + Level[b]
    BY <1>1, <1>2, <2>1, <2>2
  <2> QED
    BY <2>1, <2>3 DEF Account, Full
<1>6. ASSUME UNCHANGED <<clock, Level, spent, restarts>>
      PROVE  Account'
  BY <1>6 DEF Account, Full
<1>7. ASSUME NEW a \in Addresses, Refuse(a)
      PROVE  Account'
  BY <1>6, <1>7, RefuseStutters
<1>8. CASE Sweep
  BY <1>6, <1>8, SweepStutters
<1>9. CASE ForgetAll
  <2>1. Level' = [a \in Addresses |-> Full] /\ restarts' = restarts + 1
        /\ spent' = spent /\ clock' = clock
    BY <1>9, ForgetRefines DEF Buckets!Restart, Buckets!Full, Full, Level
  <2>2. Full * (restarts' + 1) = Full * (restarts + 1) + Full
    BY <1>1, <1>2, <2>1, SMT
  <2>3. ASSUME NEW a \in Addresses
        PROVE  spent'[a] + Level'[a] <= Full * (restarts' + 1) + clock'
    <3>1. spent[a] + Level[a] <= Full * (restarts + 1) + clock
      BY DEF Account
    <3> QED
      BY <1>1, <1>2, <1>3, <2>1, <2>2, <3>1
  <2> QED
    BY <2>3 DEF Account, Full
<1>10. CASE UNCHANGED limiterVars
  <2>1. UNCHANGED <<clock, Level, spent, restarts>>
    BY <1>10 DEF limiterVars, Level, Entry, Available, Least, Full
  <2> QED
    BY <1>6, <2>1
<1> QED
  BY <1>4, <1>5, <1>7, <1>8, <1>9, <1>10 DEF LimiterNext

(* However requests, sweeps and restarts fall, an address is let through   *)
(* no more than a burst per start of the process and the rate times the    *)
(* time passed.                                                            *)
THEOREM BudgetIsKept == LimiterSpec => []BudgetHolds
<1>1. LimiterInit => Account
  <2> SUFFICES ASSUME LimiterInit, NEW a \in Addresses
               PROVE  spent[a] + Level[a] <= Full * (restarts + 1) + clock
    BY DEF Account
  <2>1. spent[a] = 0 /\ restarts = 0 /\ clock = 0 /\ limiters[a] = NoEntry
    BY DEF LimiterInit
  <2>2. Level[a] = Full
    BY <2>1, NoEntryIsFull DEF Level
  <2> QED
    BY <2>1, <2>2, FullHoldsAToken
<1>2. LimiterInv /\ Account => BudgetHolds
  <2> SUFFICES ASSUME LimiterInv, Account, NEW a \in Addresses
               PROVE  spent[a] <= Full * (restarts + 1) + clock
    BY DEF BudgetHolds
  <2>1. spent[a] \in Nat /\ Level[a] \in 0..Full /\ restarts \in Nat /\ clock \in Nat
    BY EntryType DEF LimiterInv, LimiterTypeOK, Level
  <2>2. Full * (restarts + 1) \in Nat
    BY <2>1, FullHoldsAToken, SMT
  <2>3. spent[a] + Level[a] <= Full * (restarts + 1) + clock
    BY DEF Account
  <2> QED
    BY <2>1, <2>2, <2>3, FullHoldsAToken
<1> QED
  BY <1>1, <1>2, AccountStep, Invariance, PTL DEF LimiterSpec

=============================================================================
