------------------------------ MODULE TimerQueue ------------------------------
(***************************************************************************)
(* TimerQueue.cpp and Timer.h: the timers of one loop, kept in a set       *)
(* ordered by expiration and driven by one timerfd armed for the earliest. *)
(*                                                                         *)
(* Time is counted in ticks; Micro ticks make the microsecond to which     *)
(* howMuchTimeFromNow truncates.  The timerfd fires when the clock reaches *)
(* `armed`, and is readable from then until it is read or armed again.     *)
(*                                                                         *)
(* Any thread may add a timer: the insertion is a functor of the loop      *)
(* (module EventLoop).  cancel() runs where it is called; the model lets   *)
(* the loop's thread call it, from a timer's callback or any other.        *)
(***************************************************************************)
EXTENDS Integers, Sequences, FiniteSetsExt

CONSTANTS Micro,      \* ticks in a microsecond
          MinDelay,   \* ticks in the shortest delay, 100 microseconds
          Intervals,  \* the intervals of repeating timers
          MaxTimers,  \* bound: timers ever created
          MaxTime     \* bound: the clock stops here

ASSUME ConstantsAssumption ==
  /\ Micro \in Nat \ {0}
  /\ MinDelay \in Nat \ {0}
  /\ Intervals \subseteq Nat \ {0}
  /\ MaxTimers \in Nat
  /\ MaxTime \in Nat

Ids == 1..MaxTimers      \* sequence_, which numbers the timers from 1
Disarmed == -1           \* no value of the clock

VARIABLES
  now,          \* steady_clock
  created,      \* s_numCreated_
  expiration,   \* of each timer: expiration_
  interval,     \* of each timer: interval_, 0 if it does not repeat
  insertions,   \* functors of addTimer in the loop's queue
  timers,       \* timers_, the timers in it
  armed,        \* when the timerfd fires
  phase,        \* "loop", or where handleRead stands
  expired,      \* the part of handleRead's vector not yet run
  batch,        \* handleRead's vector
  snapshot,     \* handleRead's `now`
  lastRun,      \* history: the snapshot with which a timer last ran, -1 if never
  cancelled     \* history: timers that cancel() took out of timers_

vars == <<now, created, expiration, interval, insertions, timers, armed, phase,
          expired, batch, snapshot, lastRun, cancelled>>

handlerVars == <<phase, expired, batch, snapshot, lastRun>>

TypeOK ==
  /\ now \in 0..MaxTime
  /\ created \in 0..MaxTimers
  /\ expiration \in [Ids -> Nat]
  /\ interval \in [Ids -> Intervals \cup {0}]
  /\ insertions \in Seq(Ids)
  /\ timers \subseteq Ids
  /\ armed \in Nat \cup {Disarmed}
  /\ phase \in {"loop", "expired", "callback"}
  /\ batch \subseteq Ids
  /\ expired \subseteq batch
  /\ snapshot \in 0..MaxTime
  /\ lastRun \in [Ids -> -1..MaxTime]
  /\ cancelled \subseteq Ids

Init ==
  /\ now = 0
  /\ created = 0
  /\ expiration = [id \in Ids |-> 0]
  /\ interval = [id \in Ids |-> 0]
  /\ insertions = <<>>
  /\ timers = {}
  /\ armed = Disarmed
  /\ phase = "loop"
  /\ expired = {}
  /\ batch = {}
  /\ snapshot = 0
  /\ lastRun = [id \in Ids |-> -1]
  /\ cancelled = {}

------------------------------------------------------------------------------
(* The clock and the timerfd.                                               *)

Tick ==
  /\ now < MaxTime
  /\ now' = now + 1
  /\ UNCHANGED <<created, expiration, interval, insertions, timers, armed,
                 handlerVars, cancelled>>

Readable == armed # Disarmed /\ armed <= now

(* The delay until `when`, in whole microseconds and not below MinDelay.    *)
HowMuchTimeFromNow(when) ==
  LET truncated == ((when - now) \div Micro) * Micro
  IN  IF when < now \/ truncated < MinDelay THEN MinDelay ELSE truncated

ResetTimerfd(when) == armed' = now + HowMuchTimeFromNow(when)

Earliest(ids, time) == Min({time[id] : id \in ids})

------------------------------------------------------------------------------
(* Operations.                                                              *)

(* Mutation: sequence_(s_numCreated_++).                                    *)
SequenceFromZero == created

Sequence == created + 1

(* addTimer: the timer is numbered at once and inserted by the loop.        *)
AddTimer(when, repeatEvery) ==
  /\ created < MaxTimers
  /\ created' = created + 1
  /\ expiration' = [expiration EXCEPT ![Sequence] = when]
  /\ interval' = [interval EXCEPT ![Sequence] = repeatEvery]
  /\ insertions' = Append(insertions, Sequence)
  /\ UNCHANGED <<now, timers, armed, handlerVars, cancelled>>

(* EventLoop::runAt; runAfter(delay) is runAt(now + delay).                 *)
RunAt(when) == AddTimer(when, 0)

RunEvery(every) == AddTimer(now + every, every)

(* cancel(): only timers_ is searched, and the timerfd stays as it is.      *)
Cancel(id) ==
  /\ phase \in {"loop", "callback"}
  /\ id <= created
  /\ timers' = timers \ {id}
  /\ cancelled' = cancelled \cup ({id} \cap timers)
  /\ UNCHANGED <<now, created, expiration, interval, insertions, armed, handlerVars>>

------------------------------------------------------------------------------
(* The loop's own steps.                                                    *)

(* Mutation: an empty set does not count as a new earliest timer.           *)
EarliestChangedIfAny(when) == timers # {} /\ when < Earliest(timers, expiration)

EarliestChanged(when) == timers = {} \/ when < Earliest(timers, expiration)

(* The functor that addTimer queued: insert().                              *)
Insert ==
  /\ phase = "loop"
  /\ insertions # <<>>
  /\ insertions' = Tail(insertions)
  /\ LET id == Head(insertions)
         when == expiration[id]
     IN  /\ timers' = timers \cup {id}
         /\ IF EarliestChanged(when) THEN ResetTimerfd(when) ELSE UNCHANGED armed
  /\ UNCHANGED <<now, created, expiration, interval, handlerVars, cancelled>>

(* Mutation: the expired timers stay in timers_.                            *)
TakenOutNone(ids) == timers

TakenOut(ids) == timers \ ids

(* handleRead() up to the callbacks: the clock is read once, the timerfd is *)
(* read, and getExpired takes the timers before that instant.               *)
HandleRead ==
  /\ phase = "loop"
  /\ Readable
  /\ armed' = Disarmed
  /\ snapshot' = now
  /\ batch' = {id \in timers : expiration[id] < now}
  /\ expired' = batch'
  /\ timers' = TakenOut(batch')
  /\ phase' = "expired"
  /\ UNCHANGED <<now, created, expiration, interval, insertions, lastRun, cancelled>>

(* One callback, in order of expiration; it lasts until the next step of    *)
(* handleRead.                                                              *)
Run(id) ==
  /\ phase \in {"expired", "callback"}
  /\ id \in expired
  /\ expiration[id] = Earliest(expired, expiration)
  /\ expired' = expired \ {id}
  /\ phase' = "callback"
  /\ lastRun' = [lastRun EXCEPT ![id] = snapshot]
  /\ UNCHANGED <<now, created, expiration, interval, insertions, timers, armed,
                 batch, snapshot, cancelled>>

(* Mutation: the next expiration is counted from the last one.              *)
RestartedFromExpiration(id) == expiration[id] + interval[id]

Restarted(id) == snapshot + interval[id]

(* Mutation: the timerfd is armed again only if a timer was restarted.      *)
ArmsAgainIfRestarted(repeating) == repeating # {}

ArmsAgain(repeating) == timers \cup repeating # {}

(* reset(): repeating timers are inserted again, counted from the snapshot, *)
(* and the timerfd is armed for the earliest of all.                        *)
Reset ==
  LET repeating == {id \in batch : interval[id] > 0}
  IN  /\ phase \in {"expired", "callback"}
      /\ expired = {}
      /\ expiration' = [id \in Ids |-> IF id \in repeating THEN Restarted(id)
                                       ELSE expiration[id]]
      /\ timers' = timers \cup repeating
      /\ IF ArmsAgain(repeating) THEN ResetTimerfd(Earliest(timers', expiration'))
                              ELSE UNCHANGED armed
      /\ phase' = "loop"
      /\ batch' = {}
      /\ UNCHANGED <<now, created, interval, insertions, expired, snapshot, lastRun,
                     cancelled>>

------------------------------------------------------------------------------
LoopStep == Insert \/ HandleRead \/ Reset \/ \E id \in Ids : Run(id)

UserStep ==
  \/ \E when \in 0..MaxTime : RunAt(when)
  \/ \E every \in Intervals : RunEvery(every)
  \/ \E id \in Ids : Cancel(id)

Next == Tick \/ LoopStep \/ UserStep

Spec == Init /\ [][Next]_vars

(* Time passes, and the loop keeps running (module EventLoop).              *)
Fairness == WF_vars(Tick) /\ WF_vars(LoopStep)

FairSpec == Spec /\ Fairness

------------------------------------------------------------------------------
(* Properties.                                                              *)

(* insert() and reset() keep the timerfd armed for the earliest timer, or a *)
(* moment after now: no scheduled timer is forgotten.                       *)
EarliestIsArmed ==
  phase = "loop" /\ timers # {} =>
    /\ armed # Disarmed
    /\ \/ armed <= now + MinDelay
       \/ armed <= Earliest(timers, expiration)

(* handleRead() and restart(): a timer runs after its expiration, a         *)
(* one-shot timer once, and a repeating one at most once per interval, even *)
(* if the loop fell behind by several.                                      *)
RunsWhenDue ==
  [][\A id \in Ids : lastRun'[id] # lastRun[id] =>
       /\ expiration[id] < lastRun'[id]
       /\ lastRun[id] # -1 => /\ interval[id] > 0
                              /\ lastRun'[id] > lastRun[id] + interval[id]]_vars

(* cancel() of a timer that is in timers_ is final.                         *)
CancelIsFinal ==
  [][\A id \in cancelled : lastRun'[id] = lastRun[id] /\ id \notin timers']_vars

(* A timer in timers_ runs, unless it is cancelled or the modelled time     *)
(* ends before the timerfd fires.                                           *)
ScheduledTimerRuns ==
  \A id \in Ids :
    id \in timers ~> id \in expired \/ id \in cancelled \/ armed > MaxTime
==============================================================================
