----------------------------- MODULE Scheduler ------------------------------
(***************************************************************************)
(* The timers of cc::Scheduler (cocos/base/Scheduler.cpp).                 *)
(*                                                                         *)
(* update visits the targets in the order of a hash map, and the timers of *)
(* a target in the order they were scheduled.  The call-back of a timer may*)
(* schedule and unschedule any timer, its own included, and pause or       *)
(* resume any target, while update iterates over the same containers.      *)
(***************************************************************************)
EXTENDS Integers, Sequences, FiniteSets, SequencesExt, FiniteSetsExt

CONSTANTS
  Targets, Keys,
  NoTarget,       \* a null entry
  Uses,           \* bound: the <<target, key, [interval, repeat, delay]>> asked for
  Steps,          \* the lengths of a frame
  Ids             \* bound: timers that exist at a time, reused like memory

ASSUME SchedulerAssumption ==
  /\ NoTarget \notin Targets /\ Keys # {}
  /\ Uses \subseteq
       Targets \X Keys \X [interval : Nat, repeat : Nat \cup {-1}, delay : Nat]
  /\ Steps \subseteq Nat \ {0} /\ Ids \subseteq Nat \ {0} /\ IsFiniteSet(Ids)

None == 0
Forever == -1                     \* CC_REPEAT_FOREVER

VARIABLES
  order,          \* the targets of _hashForTimers in its iteration order
  timers,         \* the timers of each target
  most,           \* the most entries it has ever held: it grows beyond them
  isPaused,       \* FALSE for a target that is not in the map
  timer,          \* the fields of each timer
  refs,           \* its reference count, 0 when it is freed
  pos,            \* update's iterator
  pc, dt, interval,
  currentTarget, targetSalvaged,
  timerIndex, currentTimer, timerSalvaged,
  updated,        \* history: the timers updated in this frame
  due,            \* history: those scheduled and not paused all along it, and
                  \* not yet updated
  skipped,        \* history: the targets that the iterator passed over
  again           \* history: those it has visited and has before it again

tables == <<order, most, timers, isPaused, timer, refs>>
walk == <<pos, dt, interval>>
current == <<currentTarget, targetSalvaged, timerIndex, currentTimer, timerSalvaged>>
missed == <<skipped, again>>
history == <<updated, due, missed>>
vars == <<tables, walk, pc, current, history>>

(* What is left of a timer that is freed, which nobody may look at.        *)
Freed == [key |-> CHOOSE k \in Keys : TRUE, times |-> 0, elapsed |-> -1,
          interval |-> 0, repeat |-> 0, delay |-> 0]
Living(count) == [t \in Ids |-> IF count[t] = 0 THEN Freed ELSE timer[t]]

Init ==
  /\ order = <<>> /\ most = 0 /\ timers = [g \in Targets |-> <<>>]
  /\ isPaused = [g \in Targets |-> FALSE]
  /\ timer = [t \in Ids |-> Freed]
  /\ refs = [t \in Ids |-> 0]
  /\ pos = 1 /\ pc = "idle" /\ dt = 0 /\ interval = 0
  /\ currentTarget = NoTarget /\ targetSalvaged = FALSE
  /\ timerIndex = 1 /\ currentTimer = None /\ timerSalvaged = FALSE
  /\ updated = {} /\ due = {} /\ skipped = {} /\ again = {}

-----------------------------------------------------------------------------
(* What the game may call, between frames or from a call-back.             *)
CanCall == pc \in {"idle", "delayed", "callback"}

Keyed(g, k) == {i \in 1..Len(timers[g]) : timer[timers[g][i]].key = k}

(* removeHashElement of an entry that update is not visiting.              *)
RemoveEntry(g) ==
  LET i == CHOOSE j \in 1..Len(order) : order[j] = g
  IN  /\ order' = RemoveAt(order, i)
      /\ pos' = IF i < pos THEN pos - 1 ELSE pos
      /\ isPaused' = [isPaused EXCEPT ![g] = FALSE]

(* An entry that has lost its last timer goes, unless it is visited; in the*)
(* faulty form even then.                                                  *)
EmptiedAtOnce(g) == RemoveEntry(g) /\ UNCHANGED targetSalvaged

Emptied(g) ==
  IF g = currentTarget
  THEN targetSalvaged' = TRUE /\ UNCHANGED <<order, pos, isPaused>>
  ELSE RemoveEntry(g) /\ UNCHANGED targetSalvaged

(* A new target goes anywhere in the map, and when the map has to grow,    *)
(* which it does for more entries than it ever held and not for each of    *)
(* these, every other entry may change its place.  The iterator stays at   *)
(* its entry, as it does in the libraries the engine is built with, whose  *)
(* iterators point to the entry itself; the C++ standard says no more of it*)
(* after a rehash.  The entries before it and beyond it are others then.   *)
Before(o, p) == {o[j] : j \in 1..p - 1}
Beyond(o, p) == {o[j] : j \in p + 1..Len(o)}

InsertEntry(g) ==
  /\ order' \in SetToSeqs(ToSet(order) \cup {g})
  /\ most' = Max({most, Len(order) + 1})
  /\ most' = most => \E i \in 1..Len(order) + 1 : order' = InsertAt(order, i, g)
  /\ IF pc = "idle"
     THEN UNCHANGED <<pos, missed>>
     ELSE /\ pos' = CHOOSE i \in 1..Len(order') : order'[i] = currentTarget
          /\ skipped' = skipped \cup (Beyond(order, pos) \cap Before(order', pos'))
          /\ again' = again \cup (Before(order, pos) \cap Beyond(order', pos'))
  /\ UNCHANGED isPaused

(* A new timer goes to the end of its target's.  One that exists has only  *)
(* its interval changed.                                                   *)
NewTimer(g, k, timing) ==
  LET t == Min({i \in Ids : refs[i] = 0})
  IN  /\ \E i \in Ids : refs[i] = 0
      /\ timer' = [timer EXCEPT ![t] = [key |-> k, times |-> 0, elapsed |-> -1,
           interval |-> timing.interval, repeat |-> timing.repeat, delay |-> timing.delay]]
      /\ refs' = [refs EXCEPT ![t] = 1]
      /\ timers' = [timers EXCEPT ![g] = Append(@, t)]

Schedule(g, k, timing) ==
  /\ CanCall
  /\ IF g \in ToSet(order)
     THEN UNCHANGED <<order, most, pos, isPaused, missed>>
     ELSE InsertEntry(g)
  /\ IF Keyed(g, k) = {}
     THEN NewTimer(g, k, timing)
     ELSE /\ timer' = [timer EXCEPT ![timers[g][Min(Keyed(g, k))]].interval = timing.interval]
          /\ UNCHANGED <<timers, refs>>
  /\ UNCHANGED <<dt, interval, pc, current, updated, due>>

(* unschedule takes the timer from the list and steps the index back; if   *)
(* it is the one being updated, update keeps it until it has returned.  The*)
(* faulty forms do not keep it, do not step back, and always step back.    *)
TakeOut(g, i, salvage, index) ==
  LET t == timers[g][i]
      last == Len(timers[g]) = 1
  IN  /\ refs' = [refs EXCEPT ![t] = IF salvage THEN @ ELSE @ - 1]
      /\ timerSalvaged' = (timerSalvaged \/ salvage)
      /\ timers' = [timers EXCEPT ![g] = RemoveAt(@, i)]
      /\ timerIndex' = index
      /\ updated' = updated \ {t} /\ due' = due \ {t}
      /\ IF last THEN Emptied(g) ELSE UNCHANGED <<order, pos, isPaused, targetSalvaged>>

IsRunning(g, i) == g = currentTarget /\ timers[g][i] = currentTimer /\ ~timerSalvaged
SteppedBackAlways(g, i) == IF g = currentTarget THEN timerIndex - 1 ELSE timerIndex
SteppedBack(g, i) == IF g = currentTarget /\ timerIndex >= i THEN timerIndex - 1 ELSE timerIndex

RemoveUnsalvaged(g, i) == TakeOut(g, i, FALSE, SteppedBack(g, i))
RemoveInPlace(g, i) == TakeOut(g, i, IsRunning(g, i), timerIndex)
RemoveTimer(g, i) == TakeOut(g, i, IsRunning(g, i), SteppedBack(g, i))

Unschedule(g, k) ==
  /\ CanCall
  /\ \E i \in Keyed(g, k) : RemoveTimer(g, i)
  /\ timer' = Living(refs')
  /\ UNCHANGED <<most, dt, interval, pc, currentTarget, currentTimer, missed>>

(* unscheduleAllForTarget leaves the index where it is.                    *)
UnscheduleAllForTarget(g) ==
  LET all == ToSet(timers[g])
      salvage == g = currentTarget /\ currentTimer \in all /\ ~timerSalvaged
  IN  /\ CanCall /\ g \in ToSet(order)
      /\ timerSalvaged' = (timerSalvaged \/ salvage)
      /\ refs' = [t \in Ids |-> IF t \in all /\ ~(salvage /\ t = currentTimer)
                                THEN refs[t] - 1 ELSE refs[t]]
      /\ timers' = [timers EXCEPT ![g] = <<>>]
      /\ updated' = updated \ all /\ due' = due \ all
      /\ Emptied(g)
      /\ timer' = Living(refs')
      /\ UNCHANGED <<most, dt, interval, pc, currentTarget, timerIndex,
                     currentTimer, missed>>

PauseTarget(g) ==
  /\ CanCall /\ g \in ToSet(order) /\ ~isPaused[g]
  /\ isPaused' = [isPaused EXCEPT ![g] = TRUE]
  /\ due' = due \ ToSet(timers[g])
  /\ UNCHANGED <<order, most, timers, timer, refs, walk, pc, current, updated, missed>>

ResumeTarget(g) ==
  /\ CanCall /\ g \in ToSet(order) /\ isPaused[g]
  /\ isPaused' = [isPaused EXCEPT ![g] = FALSE]
  /\ UNCHANGED <<order, most, timers, timer, refs, walk, pc, current, history>>

-----------------------------------------------------------------------------
(* Scheduler::update.                                                      *)

Update(d) ==
  /\ pc = "idle"
  /\ dt' = d /\ pos' = 1
  /\ pc' = "target"
  /\ due' = UNION {ToSet(timers[g]) : g \in {h \in Targets : ~isPaused[h]}}
  /\ UNCHANGED <<tables, interval, current, updated, missed>>

VisitTarget ==
  /\ pc = "target" /\ pos <= Len(order)
  /\ currentTarget' = order[pos] /\ targetSalvaged' = FALSE
  /\ timerIndex' = 1
  /\ pc' = IF isPaused[order[pos]] THEN "leave" ELSE "timer"
  /\ UNCHANGED <<tables, walk, currentTimer, timerSalvaged, history>>

UpdateEnd ==
  /\ pc = "target" /\ pos > Len(order)
  /\ pc' = "idle" /\ pos' = 1
  /\ dt' = 0 /\ interval' = 0
  /\ updated' = {} /\ due' = {} /\ skipped' = {} /\ again' = {}
  /\ UNCHANGED <<tables, current>>

(* Timer::update: the first one only starts the clock (the faulty form     *)
(* goes on), ...                                                           *)
StartTimer(t, elapsed) ==
  /\ currentTimer' = t /\ timerSalvaged' = FALSE
  /\ updated' = updated \cup {t} /\ due' = due \ {t}
  /\ timer' = [timer EXCEPT ![t].elapsed = elapsed]

VisitTimerAtOnce ==
  /\ pc = "timer" /\ timerIndex <= Len(timers[currentTarget])
  /\ StartTimer(timers[currentTarget][timerIndex], dt)
  /\ pc' = "while"
  /\ UNCHANGED <<order, most, timers, isPaused, refs, walk, currentTarget, targetSalvaged,
                 timerIndex, missed>>

VisitTimer ==
  LET t == timers[currentTarget][timerIndex]
      elapsed == timer[t].elapsed + dt
  IN  /\ pc = "timer" /\ timerIndex <= Len(timers[currentTarget])
      /\ \/ /\ timer[t].elapsed = -1
            /\ StartTimer(t, 0) /\ pc' = "after"
         \/ /\ timer[t].elapsed # -1
            /\ StartTimer(t, elapsed)
            /\ pc' = IF timer[t].delay = 0 THEN "while"
                     ELSE IF elapsed < timer[t].delay THEN "after" ELSE "delayed"
      /\ UNCHANGED <<order, most, timers, isPaused, refs, walk, currentTarget, targetSalvaged,
                     timerIndex, missed>>

(* cancel unschedules by key: the timer itself, or one that its call-back  *)
(* has scheduled in its place.                                             *)
Cancel ==
  LET mine == Keyed(currentTarget, timer[currentTimer].key)
  IN  IF mine = {}
      THEN UNCHANGED <<order, isPaused, timers, refs, pos, targetSalvaged, timerIndex,
                       timerSalvaged, updated, due>>
      ELSE \E i \in mine : RemoveTimer(currentTarget, i)

(* Counts a call that has returned; times is not kept for endless timers.  *)
Returned(spent, delay) ==
  LET c == timer[currentTimer]
  IN  timer' = [timer EXCEPT ![currentTimer].elapsed = @ - spent,
                             ![currentTimer].delay = delay,
                             ![currentTimer].times = IF c.repeat = Forever THEN @ ELSE @ + 1]

Exhausted ==
  timer[currentTimer].repeat # Forever /\ timer[currentTimer].times >= timer[currentTimer].repeat

(* What follows a call: an exhausted timer is cancelled.                   *)
CancelOr(next) ==
  \/ Exhausted /\ pc' = "after" /\ Cancel
  \/ ~Exhausted /\ pc' = next
     /\ UNCHANGED <<order, isPaused, timers, refs, pos, targetSalvaged, timerIndex,
                    timerSalvaged, updated, due>>

(* ... the call that was delayed returns, ...                              *)
DelayedReturn ==
  /\ pc = "delayed"
  /\ Returned(timer[currentTimer].delay, 0)
  /\ CancelOr("while")
  /\ UNCHANGED <<most, dt, interval, currentTarget, currentTimer, missed>>

(* ... and each interval that has elapsed is a call, until the timer is    *)
(* exhausted or its target has no timer left.                              *)
WhileElapsed ==
  LET c == timer[currentTimer]
      step == IF c.interval > 0 THEN c.interval ELSE c.elapsed
  IN  /\ pc = "while"
      /\ interval' = step
      /\ pc' = IF c.elapsed >= step THEN "callback" ELSE "after"
      /\ UNCHANGED <<tables, pos, dt, current, history>>

CallbackReturn ==
  LET elapsed == timer[currentTimer].elapsed - interval
  IN  /\ pc = "callback"
      /\ Returned(interval, timer[currentTimer].delay)
      /\ CancelOr(IF elapsed > 0 /\ ~targetSalvaged /\ elapsed >= interval
                  THEN "callback" ELSE "after")
      /\ UNCHANGED <<most, dt, interval, currentTarget, currentTimer, missed>>

(* A timer that was kept is released now.                                  *)
NextTimer ==
  /\ pc = "after"
  /\ refs' = IF timerSalvaged THEN [refs EXCEPT ![currentTimer] = @ - 1] ELSE refs
  /\ currentTimer' = None /\ timerSalvaged' = FALSE
  /\ timerIndex' = timerIndex + 1
  /\ timer' = Living(refs') /\ interval' = 0
  /\ pc' = "timer"
  /\ UNCHANGED <<order, most, timers, isPaused, pos, dt, currentTarget, targetSalvaged, history>>

LastTimer ==
  /\ pc = "timer" /\ timerIndex > Len(timers[currentTarget])
  /\ pc' = "leave"
  /\ UNCHANGED <<tables, walk, current, history>>

(* A target that is still empty is removed, and the iterator, which removal*)
(* has moved to the next target, is moved past that one too.               *)
LeaveTarget ==
  LET rest == RemoveAt(order, pos)
  IN  /\ pc = "leave"
      /\ IF targetSalvaged /\ timers[currentTarget] = <<>>
         THEN /\ order' = rest
              /\ pos' = Min({pos + 1, Len(rest) + 1})
              /\ skipped' = skipped \cup {rest[i] : i \in {pos} \cap 1..Len(rest)}
              /\ isPaused' = [isPaused EXCEPT ![currentTarget] = FALSE]
         ELSE pos' = pos + 1 /\ UNCHANGED <<order, isPaused, skipped>>
      /\ currentTarget' = NoTarget /\ targetSalvaged' = FALSE /\ timerIndex' = 1
      /\ pc' = "target"
      /\ UNCHANGED <<most, timers, timer, refs, dt, interval, currentTimer, timerSalvaged,
                     updated, due, again>>

-----------------------------------------------------------------------------
InUpdate ==
  \/ VisitTarget \/ VisitTimer \/ DelayedReturn \/ WhileElapsed \/ CallbackReturn
  \/ NextTimer \/ LastTimer \/ LeaveTarget \/ UpdateEnd

Next ==
  \/ InUpdate
  \/ \E d \in Steps : Update(d)
  \/ \E use \in Uses : Schedule(use[1], use[2], use[3])
  \/ \E g \in Targets, k \in Keys : Unschedule(g, k)
  \/ \E g \in Targets : UnscheduleAllForTarget(g) \/ PauseTarget(g) \/ ResumeTarget(g)

Spec == Init /\ [][Next]_vars

(* A frame goes on, and call-backs return.                                 *)
FairSpec == Spec /\ WF_vars(InUpdate)

-----------------------------------------------------------------------------
(* Properties.                                                             *)

(* Every variable has its type.                                            *)
TypeOK ==
  /\ order \in Seq(Targets) /\ IsInjective(order) /\ most \in Nat
  /\ timers \in [Targets -> Seq(Ids)] /\ isPaused \in [Targets -> BOOLEAN]
  /\ refs \in [Ids -> 0..2] /\ pos \in 1..Len(order) + 1
  /\ \A t \in Ids : timer[t].elapsed >= -1 /\ timer[t].key \in Keys
  /\ pc \in {"idle", "target", "timer", "delayed", "while", "callback", "after", "leave"}
  /\ dt \in Steps \cup {0} /\ interval \in Nat
  /\ currentTarget \in Targets \cup {NoTarget} /\ targetSalvaged \in BOOLEAN
  /\ timerIndex \in 0..Cardinality(Ids) + 1
  /\ currentTimer \in Ids \cup {None} /\ timerSalvaged \in BOOLEAN
  /\ updated \subseteq Ids /\ due \subseteq Ids
  /\ skipped \subseteq Targets /\ again \subseteq Targets

(* A timer is alive as long as a target or the running update uses it, and *)
(* freed after that, whatever its call-back unschedules and schedules.     *)
TimersAlive ==
  \A t \in Ids :
    refs[t] = Cardinality({g \in Targets : t \in ToSet(timers[g])})
                + (IF t = currentTimer /\ timerSalvaged THEN 1 ELSE 0)
RunningAlive == currentTimer # None => refs[currentTimer] > 0

(* The entry that update's iterator points to is not erased while its      *)
(* target is visited, and every target with timers is in the map, whatever *)
(* call-backs insert and remove.                                           *)
IteratorValid ==
  /\ currentTarget # NoTarget => pos <= Len(order) /\ order[pos] = currentTarget
  /\ \A g \in Targets : timers[g] # <<>> => g \in ToSet(order)
  /\ \A g \in ToSet(order) : timers[g] = <<>> => g = currentTarget /\ targetSalvaged

(* A timer that is scheduled and not paused during the whole of a frame is *)
(* updated in it, unless the target before its own has emptied itself or a *)
(* rehash has moved its target behind the iterator.                        *)
FrameUpdatesAll ==
  pc = "target" /\ pos > Len(order) =>
    \A t \in due : \E g \in skipped : t \in ToSet(timers[g])

(* A timer is not updated twice in a frame, unless a rehash has moved its  *)
(* target ahead of the iterator again.                                     *)
UpdatedOnce ==
  [][currentTimer = None /\ currentTimer' # None =>
       currentTimer' \notin updated \/ currentTarget \in again]_vars

(* What Scheduler.h says of them without exception: a timer that is        *)
(* scheduled and not paused during the whole of a frame is updated in it.  *)
UpdatedEveryFrame == pc = "target" /\ pos > Len(order) => due = {}

(* A timer is not called more than repeat + 1 times, and a limited one is  *)
(* gone after that.                                                        *)
RepeatKept ==
  \A g \in Targets, t \in Ids :
    t \in ToSet(timers[g]) /\ timer[t].repeat # Forever => timer[t].times <= timer[t].repeat

(* The lives and the counts of timers are right.                           *)
TimersInv == TypeOK /\ TimersAlive /\ RunningAlive /\ RepeatKept

(* A frame ends, whatever its call-backs schedule.                         *)
FrameEnds == pc # "idle" ~> pc = "idle"
=============================================================================
