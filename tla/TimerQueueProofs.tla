--------------------------- MODULE TimerQueueProofs ---------------------------
(***************************************************************************)
(* Theorems about TimerQueue, for any clock, intervals and number of       *)
(* timers.                                                                 *)
(*                                                                         *)
(* A timer is in one place at a time: in a queued insertion, in timers_,   *)
(* in handleRead's vector, or cancelled.  That makes cancel() final for    *)
(* the timers it finds.  A timer that has run and may run again carries    *)
(* the time it last ran in its expiration, and whatever handleRead runs    *)
(* expired before its snapshot: hence at most one run an interval.         *)
(***************************************************************************)
EXTENDS TimerQueue, SequenceTheorems, WellFoundedInduction, TLAPS

------------------------------------------------------------------------------
(* The earliest timer and the delay until it expires.                       *)

(* A set of numbers has a least one.                                        *)
LEMMA MinFacts ==
  ASSUME NEW S \in SUBSET Nat, S # {}
  PROVE  Min(S) \in S /\ \A n \in S : Min(S) <= n
<1> DEFINE R == {p \in Nat \X Nat : p[1] < p[2]}
<1>1. OpToRel(<, Nat) = R
  BY Zenon DEF OpToRel
<1>2. IsWellFoundedOn(R, Nat)
  BY <1>1, NatLessThanWellFounded, Zenon
<1>3. PICK m \in S : \A n \in S : <<n, m>> \notin R
  BY <1>2, WFMin, Zenon
<1>4. ASSUME NEW n \in Nat, NEW k \in Nat, n < k
      PROVE  <<n, k>> \in R
  BY <1>4
<1>5. ASSUME NEW n \in S, ~(m <= n) PROVE FALSE
  <2>1. n \in Nat /\ m \in Nat /\ n < m
    BY <1>5
  <2>2. <<n, m>> \in R
    BY <2>1, <1>4, Zenon
  <2>3. QED
    BY <2>2, <1>3, Zenon
<1>6. QED
  BY <1>5 DEF Min

(* howMuchTimeFromNow: truncated to microseconds, never later than asked    *)
(* for unless MinDelay makes it so.                                         *)
LEMMA DelayFacts ==
  ASSUME NEW when \in Nat, now \in Nat
  PROVE  LET d == HowMuchTimeFromNow(when)
         IN  d \in Nat /\ (d <= MinDelay \/ now + d <= when)
<1>1. ASSUME NEW x \in Nat, NEW m \in Nat \ {0}
      PROVE (x \div m) * m \in Nat /\ (x \div m) * m <= x
  OBVIOUS
<1> DEFINE t == ((when - now) \div Micro) * Micro
<1>2. CASE when < now
  BY <1>2, ConstantsAssumption DEF HowMuchTimeFromNow
<1>3. CASE ~(when < now)
  <2>1. t \in Nat /\ t <= when - now
    BY <1>3, <1>1, ConstantsAssumption
  <2> HIDE DEF t
  <2>2. HowMuchTimeFromNow(when) = IF when < now \/ t < MinDelay THEN MinDelay ELSE t
    BY DEF HowMuchTimeFromNow, t
  <2>3. QED
    BY <2>1, <2>2, <1>3, ConstantsAssumption
<1>4. QED
  BY <1>2, <1>3

(* timers_.begin(): the set is ordered by expiration.                       *)
LEMMA EarliestFacts ==
  ASSUME NEW ids \in SUBSET Ids, ids # {}, NEW time \in [Ids -> Nat]
  PROVE  /\ \E id \in ids : Earliest(ids, time) = time[id]
         /\ \A id \in ids : Earliest(ids, time) <= time[id]
<1>1. {time[id] : id \in ids} \in SUBSET Nat /\ {time[id] : id \in ids} # {}
  OBVIOUS
<1> DEFINE S == {time[id] : id \in ids}
<1>2. Min(S) \in S /\ \A n \in S : Min(S) <= n
  <2> HIDE DEF S
  <2>1. S \in SUBSET Nat /\ S # {}
    BY <1>1 DEF S
  <2>2. QED
    BY <2>1, MinFacts
<1>3. QED
  BY <1>2 DEF Earliest

------------------------------------------------------------------------------
(* The invariant.                                                           *)

Queued == {insertions[i] : i \in 1..Len(insertions)}

(* The timers there are, and where: each in one place at most.              *)
Places ==
  /\ timers \cup batch \cup Queued \cup cancelled \subseteq 1..created
  /\ \A i, j \in 1..Len(insertions) : insertions[i] = insertions[j] => i = j
  /\ timers \cap (batch \cup Queued \cup cancelled) = {}
  /\ batch \cap (Queued \cup cancelled) = {}
  /\ Queued \cap cancelled = {}

(* What the history says of them.                                           *)
Runs ==
  /\ \A id \in Ids : lastRun[id] # -1 => id <= created /\ id \notin Queued
  /\ \A id \in timers \cup expired :
       lastRun[id] # -1 => interval[id] > 0 /\ expiration[id] = lastRun[id] + interval[id]
  /\ \A id \in batch \ expired : lastRun[id] = snapshot

Handling ==
  /\ phase = "loop" => batch = {}
  /\ \A id \in batch : expiration[id] < snapshot

Armed ==
  phase = "loop" =>
    \A id \in timers : /\ armed # Disarmed
                       /\ armed <= now + MinDelay \/ armed <= expiration[id]
Inv == TypeOK /\ Places /\ Runs /\ Handling /\ Armed

(* A one-shot timer has the interval 0.                                     *)
LEMMA IntervalsAreNat == \A every \in Intervals \cup {0} : every \in Nat
BY ConstantsAssumption

(* No timers yet.                                                           *)
LEMMA InitInv == Init => Inv
<1> SUFFICES ASSUME Init PROVE Inv
  OBVIOUS
<1>1. insertions = <<>> /\ insertions \in Seq(Ids) /\ Len(insertions) = 0
  BY DEF Init
<1>2. Queued = {}
  BY <1>1 DEF Queued
<1>3. TypeOK
  BY <1>1, ConstantsAssumption DEF Init, TypeOK
<1>4. Places
  BY <1>1, <1>2 DEF Init, Places
<1>5. Runs /\ Handling /\ Armed
  BY DEF Init, Runs, Handling, Armed
<1>6. QED
  BY <1>3, <1>4, <1>5 DEF Inv

(* The clock.                                                               *)
LEMMA TickInv == Inv /\ Tick => Inv'
<1> SUFFICES ASSUME Inv, Tick PROVE Inv'
  OBVIOUS
<1>1. TypeOK'
  BY ConstantsAssumption DEF Inv, Tick, TypeOK, handlerVars
<1>2. Places' /\ Runs' /\ Handling'
  BY DEF Inv, Tick, Places, Queued, Runs, Handling, handlerVars
<1>3. Armed'
  BY ConstantsAssumption DEF Inv, Tick, Armed, TypeOK, handlerVars
<1>4. QED
  BY <1>1, <1>2, <1>3 DEF Inv

(* addTimer(): the number is new.                                           *)
LEMMA AddTimerInv ==
  ASSUME Inv, NEW when \in Nat, NEW every \in Intervals \cup {0}, AddTimer(when, every)
  PROVE  Inv'
<1> DEFINE n == created + 1
<1>1. /\ created \in Nat /\ n \in Ids /\ n \notin 1..created
      /\ insertions \in Seq(Ids) /\ Len(insertions) \in Nat
  BY ConstantsAssumption, LenProperties DEF Inv, TypeOK, AddTimer, Ids
<1>2. /\ insertions' = Append(insertions, n) /\ created' = n
      /\ expiration' = [expiration EXCEPT ![n] = when]
      /\ interval' = [interval EXCEPT ![n] = every]
      /\ UNCHANGED <<now, timers, armed, phase, expired, batch, snapshot, lastRun, cancelled>>
  BY DEF AddTimer, Sequence, handlerVars
<1>3. /\ insertions' \in Seq(Ids) /\ Len(insertions') = Len(insertions) + 1
      /\ insertions'[Len(insertions) + 1] = n
      /\ \A i \in 1..Len(insertions) : insertions'[i] = insertions[i]
  BY <1>1, <1>2, AppendProperties
<1> HIDE DEF n
<1>4. Queued' = Queued \cup {n}
  BY <1>1, <1>3 DEF Queued
<1>5. n \notin timers \cup batch \cup Queued \cup cancelled /\ 1..created \subseteq 1..n
  BY <1>1 DEF Inv, Places, n
<1>6. TypeOK'
  <2>1. expiration' \in [Ids -> Nat] /\ interval' \in [Ids -> Intervals \cup {0}]
    BY <1>1, <1>2 DEF Inv, TypeOK
  <2>2. created' \in 0..MaxTimers
    BY <1>1, <1>2, ConstantsAssumption DEF Ids
  <2>3. QED
    BY <1>2, <1>3, <2>1, <2>2 DEF Inv, TypeOK
<1>7. Places'
  <2>1. timers \cup batch \cup (Queued \cup {n}) \cup cancelled \subseteq 1..n
    BY <1>1, <1>5 DEF Inv, Places, n
  <2>2. \A i, j \in 1..Len(insertions') : insertions'[i] = insertions'[j] => i = j
    BY <1>1, <1>3, <1>5 DEF Inv, Places, Queued
  <2>3. QED
    BY <1>2, <1>4, <1>5, <2>1, <2>2 DEF Inv, Places
<1>8. Runs'
  <2>1. \A id \in Ids : lastRun[id] # -1 => id <= n /\ id # n
    BY <1>1 DEF Inv, Runs, Ids, n
  <2>2. QED
    BY <1>1, <1>2, <1>4, <1>5, <2>1 DEF Inv, Runs, TypeOK
<1>9. Handling' /\ Armed'
  BY <1>1, <1>2, <1>5 DEF Inv, Handling, Armed, TypeOK
<1>10. QED
  BY <1>6, <1>7, <1>8, <1>9 DEF Inv

(* cancel(): the timers that are left may be later than armed.              *)
LEMMA CancelInv == ASSUME Inv, NEW id \in Ids, Cancel(id) PROVE Inv'
<1>1. /\ timers' = timers \ {id} /\ cancelled' = cancelled \cup ({id} \cap timers)
      /\ UNCHANGED <<now, created, expiration, interval, insertions, armed, phase, expired,
                     batch, snapshot, lastRun>>
  BY DEF Cancel, handlerVars
<1>2. TypeOK'
  BY <1>1 DEF Inv, TypeOK
<1>3. Places'
  BY <1>1 DEF Inv, Places, Queued
<1>4. Runs' /\ Handling' /\ Armed'
  BY <1>1 DEF Inv, Runs, Queued, Handling, Armed
<1>5. QED
  BY <1>2, <1>3, <1>4 DEF Inv

(* insert(): the first of the queue leaves it.                              *)
LEMMA InsertInv == Inv /\ Insert => Inv'
<1> SUFFICES ASSUME Inv, Insert PROVE Inv'
  OBVIOUS
<1> DEFINE id == Head(insertions)
<1>1. /\ insertions \in Seq(Ids) /\ insertions # <<>> /\ Len(insertions) \in Nat
      /\ timers \in SUBSET Ids /\ expiration \in [Ids -> Nat] /\ now \in Nat /\ now <= MaxTime
  BY LenProperties, ConstantsAssumption DEF Inv, TypeOK, Insert
<1>2. /\ insertions' \in Seq(Ids) /\ Len(insertions) >= 1
      /\ Len(insertions') = Len(insertions) - 1
      /\ \A i \in 1..(Len(insertions) - 1) : insertions'[i] = insertions[i + 1]
      /\ id = insertions[1]
  BY <1>1, HeadTailProperties, EmptySeq DEF Insert
<1>3. /\ timers' = timers \cup {id} /\ phase = "loop"
      /\ UNCHANGED <<now, created, expiration, interval, phase, expired, batch, snapshot,
                     lastRun, cancelled>>
  BY DEF Insert, handlerVars
<1> HIDE DEF id
<1>4. id \in Queued /\ id \in Ids
  BY <1>1, <1>2 DEF Queued
<1>5. id \notin Queued' /\ Queued' \subseteq Queued
  BY <1>1, <1>2 DEF Queued, Inv, Places
<1>6. armed' \in Nat \cup {Disarmed} /\ Armed'
  <2>1. CASE EarliestChanged(expiration[id]) /\ ResetTimerfd(expiration[id])
    <3>1. HowMuchTimeFromNow(expiration[id]) \in Nat
      BY <1>1, <1>4, DelayFacts
    <3>2. \/ HowMuchTimeFromNow(expiration[id]) <= MinDelay
          \/ now + HowMuchTimeFromNow(expiration[id]) <= expiration[id]
      BY <1>1, <1>4, DelayFacts
    <3>3. armed' \in Nat /\ (armed' <= now + MinDelay \/ armed' <= expiration[id])
      BY <1>1, <1>4, <2>1, <3>1, <3>2, ConstantsAssumption DEF ResetTimerfd
    <3>4. \A t \in timers : expiration[id] <= expiration[t]
      <4>1. CASE timers = {}
        BY <4>1
      <4>2. CASE timers # {}
        <5>1. /\ \E t \in timers : Earliest(timers, expiration) = expiration[t]
              /\ \A t \in timers : Earliest(timers, expiration) <= expiration[t]
          BY <1>1, <4>2, EarliestFacts
        <5>2. expiration[id] < Earliest(timers, expiration)
          BY <2>1, <4>2 DEF EarliestChanged
        <5>3. Earliest(timers, expiration) \in Nat /\ expiration[id] \in Nat
          BY <1>1, <1>4, <5>1
        <5>4. QED
          BY <1>1, <5>1, <5>2, <5>3
      <4>3. QED
        BY <4>1, <4>2
    <3>5. QED
      BY <1>1, <1>3, <1>4, <3>3, <3>4, ConstantsAssumption DEF Armed, Disarmed
  <2>2. CASE ~EarliestChanged(expiration[id]) /\ UNCHANGED armed
    <3>1. PICK t \in timers : Earliest(timers, expiration) = expiration[t]
      BY <1>1, <2>2, EarliestFacts DEF EarliestChanged
    <3>2. expiration[t] <= expiration[id]
      BY <1>1, <1>4, <2>2, <3>1 DEF EarliestChanged
    <3>3. QED
      BY <1>1, <1>3, <1>4, <2>2, <3>1, <3>2, ConstantsAssumption DEF Inv, TypeOK, Armed, Disarmed
  <2>3. QED
    BY <2>1, <2>2 DEF Insert, id
<1>7. TypeOK'
  BY <1>2, <1>3, <1>4, <1>6 DEF Inv, TypeOK
<1>8. Places'
  <2>1. \A i, j \in 1..Len(insertions') : insertions'[i] = insertions'[j] => i = j
    <3> SUFFICES ASSUME NEW i \in 1..Len(insertions'), NEW j \in 1..Len(insertions'),
                        insertions'[i] = insertions'[j]
                 PROVE  i = j
      OBVIOUS
    <3>1. /\ i \in 1..(Len(insertions) - 1) /\ j \in 1..(Len(insertions) - 1)
          /\ i + 1 \in 1..Len(insertions) /\ j + 1 \in 1..Len(insertions)
      BY <1>1, <1>2
    <3>2. insertions[i + 1] = insertions[j + 1]
      BY <1>2, <3>1
    <3>3. i + 1 = j + 1
      BY <3>1, <3>2 DEF Inv, Places
    <3>4. QED
      BY <3>1, <3>3
  <2>2. QED
    BY <1>3, <1>4, <1>5, <2>1 DEF Inv, Places
<1>9. Runs' /\ Handling'
  BY <1>3, <1>4, <1>5 DEF Inv, Runs, Handling
<1>10. QED
  BY <1>6, <1>7, <1>8, <1>9 DEF Inv

(* getExpired(): the expired timers leave timers_.                          *)
LEMMA HandleReadInv == Inv /\ HandleRead => Inv'
<1> SUFFICES ASSUME Inv, HandleRead PROVE Inv'
  OBVIOUS
<1>1. /\ batch' \subseteq timers /\ timers' = timers \ batch' /\ expired' = batch'
      /\ \A id \in batch' : expiration[id] < now
      /\ snapshot' = now /\ armed' = Disarmed /\ phase' = "expired"
      /\ UNCHANGED <<now, created, expiration, interval, insertions, lastRun, cancelled>>
  BY DEF HandleRead, TakenOut
<1>2. TypeOK'
  BY <1>1 DEF Inv, TypeOK
<1>3. Places' /\ Runs' /\ Handling' /\ Armed'
  BY <1>1 DEF Inv, Places, Queued, Runs, Handling, Armed
<1>4. QED
  BY <1>2, <1>3 DEF Inv

(* A callback: its timer has been inserted, and expired before the snapshot.*)
LEMMA RunInv == ASSUME Inv, NEW id \in Ids, Run(id) PROVE Inv'
<1>1. /\ id \in expired /\ id \in batch /\ expired' = expired \ {id}
      /\ lastRun' = [lastRun EXCEPT ![id] = snapshot] /\ phase' = "callback"
      /\ UNCHANGED <<now, created, expiration, interval, insertions, timers, armed, batch,
                     snapshot, cancelled>>
  BY DEF Run, Inv, TypeOK
<1>2. TypeOK'
  BY <1>1, ConstantsAssumption DEF Inv, TypeOK
<1>3. Places' /\ Handling' /\ Armed'
  BY <1>1 DEF Inv, Places, Queued, Handling, Armed
<1>4. id \notin timers /\ id \notin Queued /\ id <= created
  BY <1>1 DEF Inv, Places, TypeOK, Ids
<1>5. Runs'
  BY <1>1, <1>4 DEF Inv, Runs, Queued, TypeOK
<1>6. QED
  BY <1>2, <1>3, <1>5 DEF Inv

(* reset(): what is inserted again ran with this snapshot.                  *)
LEMMA ResetInv == Inv /\ Reset => Inv'
<1> SUFFICES ASSUME Inv, Reset PROVE Inv'
  OBVIOUS
<1> DEFINE repeating == {id \in batch : interval[id] > 0}
<1>1. /\ expired = {} /\ timers' = timers \cup repeating /\ phase' = "loop" /\ batch' = {}
      /\ expiration' = [id \in Ids |-> IF id \in repeating THEN snapshot + interval[id]
                                       ELSE expiration[id]]
      /\ IF timers \cup repeating # {} THEN ResetTimerfd(Earliest(timers', expiration'))
                                       ELSE UNCHANGED armed
      /\ UNCHANGED <<now, created, interval, insertions, expired, snapshot, lastRun, cancelled>>
  BY DEF Reset, Restarted, ArmsAgain
<1>2. /\ repeating \subseteq batch /\ batch \subseteq Ids
      /\ \A id \in repeating : interval[id] > 0
  BY DEF Inv, TypeOK
<1> HIDE DEF repeating
<1>3. /\ snapshot \in Nat /\ now \in Nat /\ now <= MaxTime
      /\ \A id \in Ids : interval[id] \in Nat
  <2>1. snapshot \in 0..MaxTime /\ now \in 0..MaxTime
    BY DEF Inv, TypeOK
  <2>2. \A id \in Ids : interval[id] \in Intervals \cup {0}
    BY DEF Inv, TypeOK
  <2>3. QED
    <3>1. \A id \in Ids : interval[id] \in Nat
      BY <2>2, IntervalsAreNat, Zenon
    <3>2. QED
      BY <2>1, <3>1, ConstantsAssumption
<1>4. expiration' \in [Ids -> Nat] /\ timers' \in SUBSET Ids
  <2>1. \A id \in Ids : snapshot + interval[id] \in Nat
    BY <1>3
  <2>2. \A id \in Ids : expiration[id] \in Nat
    BY DEF Inv, TypeOK
  <2>3. timers \subseteq Ids
    BY DEF Inv, TypeOK
  <2>4. QED
    BY <1>1, <1>2, <2>1, <2>2, <2>3
<1>5. armed' \in Nat \cup {Disarmed} /\ Armed'
  <2>1. CASE timers' # {} /\ ResetTimerfd(Earliest(timers', expiration'))
    <3> DEFINE e == Earliest(timers', expiration')
    <3>1. e \in Nat /\ \A id \in timers' : e <= expiration'[id]
      BY <1>4, <2>1, EarliestFacts
    <3>2. armed' = now + HowMuchTimeFromNow(e)
      BY <2>1 DEF ResetTimerfd
    <3> HIDE DEF e
    <3>3. /\ HowMuchTimeFromNow(e) \in Nat
          /\ HowMuchTimeFromNow(e) <= MinDelay \/ now + HowMuchTimeFromNow(e) <= e
      BY <1>3, <3>1, DelayFacts
    <3>4. armed' \in Nat /\ (armed' <= now + MinDelay \/ armed' <= e)
      BY <1>3, <3>2, <3>3, ConstantsAssumption
    <3>5. QED
      <4>1. armed' # Disarmed
        BY <3>4 DEF Disarmed
      <4>2. \A id \in timers' : armed' <= now + MinDelay \/ armed' <= expiration'[id]
        <5>1. ASSUME NEW id \in timers'
              PROVE  armed' <= now + MinDelay \/ armed' <= expiration'[id]
          <6>1. e <= expiration'[id] /\ expiration'[id] \in Nat
            BY <1>4, <3>1
          <6>2. QED
            BY <3>1, <3>4, <6>1
        <5>2. QED
          BY <5>1
      <4>3. QED
        BY <1>1, <3>4, <4>1, <4>2 DEF Armed
  <2>2. CASE timers' = {} /\ UNCHANGED armed
    BY <2>2 DEF Inv, TypeOK, Armed
  <2>3. QED
    BY <1>1, <2>1, <2>2
<1>6. TypeOK'
  BY <1>1, <1>4, <1>5 DEF Inv, TypeOK
<1>7. Places' /\ Handling'
  BY <1>1, <1>2 DEF Inv, Places, Queued, Handling
<1>8. Runs'
  <2>1. \A id \in repeating : lastRun[id] = snapshot
    BY <1>1, <1>2 DEF Inv, Runs
  <2>2. \A id \in timers' \cup expired' : lastRun'[id] # -1 =>
           interval'[id] > 0 /\ expiration'[id] = lastRun'[id] + interval'[id]
    BY <1>1, <1>2, <1>4, <2>1 DEF Inv, Runs
  <2>3. QED
    BY <1>1, <2>2 DEF Inv, Runs, Queued
<1>9. QED
  BY <1>5, <1>6, <1>7, <1>8 DEF Inv

(* Every step keeps it.                                                     *)
LEMMA StepInv == Inv /\ [Next]_vars => Inv'
<1> SUFFICES ASSUME Inv, [Next]_vars PROVE Inv'
  OBVIOUS
<1>1. CASE LoopStep
  BY <1>1, InsertInv, HandleReadInv, ResetInv, RunInv DEF LoopStep
<1>2. CASE UserStep
  <2>1. ASSUME NEW when \in 0..MaxTime, RunAt(when) PROVE Inv'
    BY <2>1, AddTimerInv, ConstantsAssumption DEF RunAt
  <2>2. ASSUME NEW every \in Intervals, RunEvery(every) PROVE Inv'
    <3>1. now + every \in Nat
      BY ConstantsAssumption DEF Inv, TypeOK
    <3>2. QED
      BY <2>2, <3>1, AddTimerInv DEF RunEvery
  <2>3. QED
    BY <1>2, <2>1, <2>2, CancelInv DEF UserStep
<1>3. CASE UNCHANGED vars
  BY <1>3 DEF vars, Inv, TypeOK, Places, Queued, Runs, Handling, Armed
<1>4. QED
  BY <1>1, <1>2, <1>3, TickInv DEF Next

------------------------------------------------------------------------------
(* The theorems.                                                            *)

(* Each timer is in one place, its history agrees with its expiration, and  *)
(* the timerfd is armed early enough: the inductive invariant.              *)
THEOREM InductiveInvariant == Spec => []Inv
BY InitInv, StepInv, PTL DEF Spec

(* Timers, the clock and the timerfd have the values their types say.       *)
THEOREM TypeCorrect == Spec => []TypeOK
BY InductiveInvariant, PTL DEF Inv

(* insert() and reset(): no scheduled timer is without an alarm.            *)
THEOREM TimerfdIsArmed == Spec => []EarliestIsArmed
<1>1. Inv => EarliestIsArmed
  <2> SUFFICES ASSUME Inv, phase = "loop", timers # {}
               PROVE  /\ armed # Disarmed
                      /\ armed <= now + MinDelay \/ armed <= Earliest(timers, expiration)
    BY DEF EarliestIsArmed
  <2>1. PICK id \in timers : Earliest(timers, expiration) = expiration[id]
    BY EarliestFacts DEF Inv, TypeOK
  <2>2. QED
    BY <2>1 DEF Inv, Armed
<1>2. QED
  BY <1>1, InductiveInvariant, PTL

(* handleRead() and restart(): after its expiration, once, or at most once  *)
(* an interval.                                                             *)
THEOREM TimersRunWhenDue == Spec => RunsWhenDue
<1>1. ASSUME Inv, [Next]_vars, NEW t \in Ids, lastRun'[t] # lastRun[t]
      PROVE  /\ expiration[t] < lastRun'[t]
             /\ lastRun[t] # -1 => interval[t] > 0 /\ lastRun'[t] > lastRun[t] + interval[t]
  <2>1. PICK id \in Ids : Run(id)
    BY <1>1 DEF Next, LoopStep, UserStep, Tick, Insert, HandleRead, Reset, RunAt, RunEvery,
                AddTimer, Cancel, handlerVars, vars
  <2>2. /\ lastRun' = [lastRun EXCEPT ![id] = snapshot] /\ id \in expired /\ id \in batch
        /\ lastRun \in [Ids -> -1..MaxTime] /\ interval[id] \in Nat /\ snapshot \in Nat
    <3>1. expired \subseteq batch /\ snapshot \in Nat /\ lastRun \in [Ids -> -1..MaxTime]
      BY <1>1, ConstantsAssumption DEF Inv, TypeOK
    <3>2. interval[id] \in Nat
      <4>1. interval[id] \in Intervals \cup {0}
        BY <1>1 DEF Inv, TypeOK
      <4>2. QED
        BY <4>1, IntervalsAreNat, Zenon
    <3>3. QED
      BY <2>1, <3>1, <3>2 DEF Run
  <2>3. id = t /\ lastRun'[t] = snapshot
    BY <1>1, <2>2
  <2>4. expiration[t] < snapshot
    BY <1>1, <2>2, <2>3 DEF Inv, Handling
  <2>5. lastRun[t] # -1 => interval[t] > 0 /\ expiration[t] = lastRun[t] + interval[t]
    BY <1>1, <2>2, <2>3 DEF Inv, Runs
  <2>6. QED
    BY <2>2, <2>3, <2>4, <2>5, ConstantsAssumption
<1>2. Inv /\ [Next]_vars =>
        [\A id \in Ids : lastRun'[id] # lastRun[id] =>
           /\ expiration[id] < lastRun'[id]
           /\ lastRun[id] # -1 => /\ interval[id] > 0
                                  /\ lastRun'[id] > lastRun[id] + interval[id]]_vars
  BY <1>1
<1>3. QED
  BY <1>2, InductiveInvariant, PTL DEF Spec, RunsWhenDue

(* cancel(): what it finds in timers_ never comes back.                     *)
THEOREM CancelledStaysCancelled == Spec => CancelIsFinal
<1>1. ASSUME Inv, [Next]_vars, NEW t \in cancelled
      PROVE  lastRun'[t] = lastRun[t] /\ t \notin timers'
  <2>1. t \notin timers /\ t \notin batch /\ t \notin Queued /\ t \notin expired
    BY <1>1 DEF Inv, Places, TypeOK
  <2>2. CASE Insert
    <3>1. insertions # <<>> => Head(insertions) \in Queued
      BY <1>1, HeadTailProperties, LenProperties, EmptySeq DEF Queued, Inv, TypeOK
    <3>2. QED
      BY <2>1, <2>2, <3>1 DEF Insert, handlerVars
  <2>3. CASE HandleRead
    BY <2>1, <2>3 DEF HandleRead, TakenOut
  <2>4. CASE Reset
    BY <2>1, <2>4 DEF Reset
  <2>5. ASSUME NEW id \in Ids, Run(id) PROVE lastRun'[t] = lastRun[t] /\ t \notin timers'
    BY <1>1, <2>1, <2>5 DEF Run, Inv, TypeOK
  <2>6. CASE Tick \/ UserStep \/ UNCHANGED vars
    BY <2>1, <2>6 DEF Tick, UserStep, RunAt, RunEvery, AddTimer, Cancel, handlerVars, vars
  <2>7. QED
    BY <1>1, <2>2, <2>3, <2>4, <2>5, <2>6 DEF Next, LoopStep
<1>2. Inv /\ [Next]_vars =>
        [\A id \in cancelled : lastRun'[id] = lastRun[id] /\ id \notin timers']_vars
  BY <1>1
<1>3. QED
  BY <1>2, InductiveInvariant, PTL DEF Spec, CancelIsFinal
==============================================================================
