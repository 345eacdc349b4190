------------------------------- MODULE Events -------------------------------
(***************************************************************************)
(* The events of the framework (af-event.c, af-event-host.c) and the sleep *)
(* of a sleepy host (af-main-host.c).  An event holds a time in one of     *)
(* three units, each a short count that wraps; the main loop runs those    *)
(* that are due, and a host with nothing due has the NCP wake it in time   *)
(* for the next one.                                                       *)
(*                                                                         *)
(* Time is counted in milliseconds.  `left` is what remains of the delay   *)
(* the program asked for; it, `waited' and `removed' are not in the code,  *)
(* and the properties compare the code's counts with them.  Other code     *)
(* runs where the main loop calls it and may take time, but two readings   *)
(* of the clock to run events are never more than MaxGap apart, sleep not  *)
(* counted: cryptographic operations, which hold events back, and slow     *)
(* handlers are in that bound.                                             *)
(***************************************************************************)
EXTENDS Integers, FiniteSetsExt

CONSTANTS
  NumEvents,      \* events, in the order of the two tables
  Word,           \* a count of 16 bits has this many values
  Quarter,        \* milliseconds in a quarter second (256)
  MinuteTicks,    \* MILLISECOND_TICKS_PER_MINUTE (61440), where a minute is a Word
  MaxSleepUnits,  \* MAX_SLEEP_UNITS (0x3FFF)
  MaxTimerUnits,  \* MAX_TIMER_UNITS_HOST (0x7fff)
  NapDuration,    \* emberAfNapDuration, in quarter seconds
  WakeTimeout,    \* EMBER_AF_WAKE_TIMEOUT, in milliseconds
  HoldingEvents,  \* the cluster ticks scheduled with EMBER_AF_OK_TO_NAP
  TimedTasks,     \* the tasks in EMBER_AF_WAKE_TIMEOUT_MASK
  Builds,         \* programs, and for each of them
  AppEvents,      \*   how many of its events are in the application's table,
  Delays,         \*   the delays it asks for, in milliseconds, and
  Tasks,          \*   the tasks it waits for
  MaxGap          \* bound: milliseconds between two runs of the events

Events == 1 .. NumEvents
Half == Word \div 2

ASSUME EventsAssumption ==
  /\ NumEvents \in Nat \ {0}
  /\ Word \in Nat \ {0, 1} /\ Quarter \in 1 .. Word /\ MinuteTicks \in Quarter .. Word
  /\ Word % Quarter = 0                    \* the clock wraps at a whole quarter second
  /\ MaxSleepUnits \in 1 .. Half /\ MaxTimerUnits \in 1 .. Half - 1
  /\ MaxSleepUnits <= MaxTimerUnits + 1    \* a sleep in minutes has only events in minutes
  /\ NapDuration \in Nat \ {0} /\ WakeTimeout \in 0 .. Word - 2
  /\ HoldingEvents \subseteq Events /\ MaxGap \in Nat
  /\ \A b \in Builds : AppEvents[b] \in Nat /\ Delays[b] \subseteq Nat
  (* no delay comes to half the count while handlers run, nor does what an   *)
  (* event is late by before it is looked at: the table it is in may be read *)
  (* MaxGap after the round begins                                           *)
  /\ \A b \in Builds : \A ms \in Delays[b] :
       ms < MaxSleepUnits => ms + MaxGap < Half /\ 2 * MaxGap <= Half
  /\ MaxGap <= Quarter * (Half - MaxSleepUnits)
  /\ 2 * MaxGap + Quarter <= Quarter * Half

VARIABLES
  build,    \* the program
  clock,    \* the milliseconds since the start, 32 bits
  control,  \* per event, its EmberEventControl
  pc,       \* the main loop is in its handlers, asleep, awake again, running events
  next,     \* the event it is about to look at
  now,      \* the clock it read for the table that event is in
  timer,    \* asleep: the longest until the NCP wakes it
  slept,    \* the unit of the last sleep, until events are run
  tasks,    \* emAfCurrentAppTasks
  lastTask, \* emAfLastAppTaskScheduleTime
  left,     \* per event, what is left of the delay asked for
  waited,   \* how long since a timed task was added, until there is none
  removed,  \* a task was removed since one was added last
  gap       \* milliseconds awake since the clock was read to run events

taskVars == <<tasks, lastTask, waited, removed>>
vars == <<build, clock, control, pc, next, now, timer, slept, taskVars, left, gap>>

-----------------------------------------------------------------------------
(* Counts of time.                                                         *)

Units == {"ms", "qs", "minute"}
Ticks == [ms |-> 1, qs |-> Quarter, minute |-> Word]              \* what they last
AfTicks == [ms |-> 1, qs |-> Quarter, minute |-> MinuteTicks]     \* what af.h says

Count(unit, time) == (time \div Ticks[unit]) % Word
Elapsed(old, new) == (new - old) % Word

Inactive == [status |-> "inactive", time |-> 0]
ZeroDelay == [status |-> "zero", time |-> 0]
Active(e) == control[e].status # "inactive"

(* emberRunEvents: has the time of an event come?                          *)
Due_NoWrap(event, time) ==                  \* mutant: compares the counts themselves
  \/ event.status = "zero"
  \/ event.status \in Units /\ event.time <= Count(event.status, time)
Due(event, time) ==
  \/ event.status = "zero"
  \/ /\ event.status \in Units
     /\ Elapsed(event.time, Count(event.status, time)) <= Half

(* emberAfEventControlSetDelay: the finest unit the delay fits in.         *)
Fits(unit, ms) == ms \div AfTicks[unit] < MaxSleepUnits
DelayUnit(ms) == IF Fits("ms", ms) THEN "ms" ELSE IF Fits("qs", ms) THEN "qs" ELSE "minute"
SetDelay(ms) ==
  LET unit == DelayUnit(ms) IN
  [status |-> unit, time |-> (Count(unit, clock) + ms \div AfTicks[unit]) % Word]

(* emberMsToNextEvent.                                                     *)
WaitOf_Whole(event) ==                      \* mutant: counts it whole
  IF Due(event, clock) THEN 0
  ELSE Ticks[event.status] * Elapsed(Count(event.status, clock), event.time)
WaitOf(event) ==
  IF Due(event, clock) THEN 0
  ELSE Ticks[event.status] * Elapsed(Count(event.status, clock), event.time)
       - (clock % Ticks[event.status])                     \* the unit under way
MsToNextEvent(max) == Min({max} \cup {WaitOf(control[e]) : e \in {x \in Events : Active(x)}})

(* emAfGetTimerDurationAndUnitFromMS: the NCP's timer for a sleep.         *)
TimerUnit(ms) ==
  IF ms <= MaxTimerUnits THEN "ms"
  ELSE IF ms \div AfTicks["qs"] <= MaxTimerUnits THEN "qs" ELSE "minute"
TimerDuration(ms) == Min({ms \div AfTicks[TimerUnit(ms)], MaxTimerUnits})

-----------------------------------------------------------------------------
Init ==
  /\ clock \in 0 .. Word * Word - 1
  /\ control = [e \in Events |-> Inactive]
  /\ pc = "handlers" /\ next = 1 /\ now = 0
  /\ timer = 0 /\ slept = "ms"
  /\ build \in Builds /\ tasks = {} /\ lastTask = 0
  /\ left = [e \in Events |-> 0] /\ waited = 0 /\ removed = FALSE /\ gap = 0

(* A millisecond goes by.                                                  *)
ClockTick ==
  /\ clock' = (clock + 1) % (Word * Word)
  /\ left' = [e \in Events |-> IF Active(e) THEN left[e] - 1 ELSE 0]
  /\ waited' = IF tasks \cap TimedTasks = {} THEN 0 ELSE Min({waited + 1, WakeTimeout + 1})
  /\ UNCHANGED <<build, control, next, now, slept, tasks, lastTask, removed, pc>>

Tick == pc # "asleep" /\ gap < MaxGap /\ gap' = gap + 1 /\ ClockTick /\ UNCHANGED timer

TickAsleep == pc = "asleep" /\ timer > 0 /\ timer' = timer - 1 /\ ClockTick /\ UNCHANGED gap

(* What may be asked of an event: emberAfEventControlSetDelay, which       *)
(* refuses a delay that fits no unit and leaves the event alone then, or,  *)
(* for no delay, emberEventControlSetActive.                               *)
Asked == [delay : {0}, event : {ZeroDelay}]
         \cup {[delay |-> ms, event |-> SetDelay(ms)] : ms \in {0} \cup Delays[build]}
Accepted == {a \in Asked : /\ a.delay \in Delays[build]
                           /\ a.event = ZeroDelay \/ Fits(DelayUnit(a.delay), a.delay)}

\* Of the events in `from' those in the domain of `asked' are scheduled.
Schedule(asked, from) ==
  /\ control' = [e \in Events |-> IF e \in DOMAIN asked THEN asked[e].event ELSE from[e]]
  /\ left' = [e \in Events |-> IF e \in DOMAIN asked THEN asked[e].delay
                               ELSE IF from[e] = Inactive THEN 0 ELSE left[e]]

Stopped(events) == [e \in Events |-> IF e \in events THEN Inactive ELSE control[e]]

(* A handler of the stack or of a cluster schedules an event or stops it.  *)
HandlerSchedules ==
  /\ pc = "handlers"
  /\ \E e \in Events : \/ \E asked \in [{e} -> Accepted] : Schedule(asked, control)
                       \/ /\ Active(e)
                          /\ \E none \in [{} -> Accepted] : Schedule(none, Stopped({e}))
  /\ UNCHANGED <<build, clock, pc, next, now, timer, slept, taskVars, gap>>

AddToCurrentAppTasks_First ==               \* mutant: the first task alone sets the time
  /\ pc = "handlers"
  /\ \E t \in Tasks[build] :
       /\ tasks' = tasks \cup {t}
       /\ waited' = IF t \in TimedTasks THEN 0 ELSE waited
  /\ removed' = FALSE
  /\ lastTask' = IF tasks = {} THEN clock % Word ELSE lastTask
  /\ UNCHANGED <<build, clock, control, pc, next, now, timer, slept, left, gap>>
AddToCurrentAppTasks ==
  /\ pc = "handlers"
  /\ \E t \in Tasks[build] :
       /\ tasks' = tasks \cup {t}
       /\ waited' = IF t \in TimedTasks THEN 0 ELSE waited
  /\ removed' = FALSE
  /\ lastTask' = clock % Word
  /\ UNCHANGED <<build, clock, control, pc, next, now, timer, slept, left, gap>>

(* The time is forgotten also when other tasks go on.                      *)
RemoveFromCurrentAppTasks ==
  /\ pc = "handlers"
  /\ \E t \in Tasks[build] : tasks' = tasks \ {t}
  /\ lastTask' = 0 /\ removed' = TRUE
  /\ waited' = IF tasks' \cap TimedTasks = {} THEN 0 ELSE waited
  /\ UNCHANGED <<build, clock, control, pc, next, now, timer, slept, left, gap>>

-----------------------------------------------------------------------------
(* emAfCheckForSleep and emAfFullSleep: the NCP's timer is set for the     *)
(* next event; its clock runs free, so that it may be short by a unit.     *)
TasksTimeOut == tasks # {} /\ Elapsed(lastTask, clock % Word) > WakeTimeout
OkToHibernate == tasks' = {} /\ \A e \in HoldingEvents : ~Active(e)
SleepDuration_Nap ==                        \* mutant: naps whatever is due
  IF OkToHibernate THEN MsToNextEvent(MaxTimerUnits * MinuteTicks)
  ELSE NapDuration * Quarter
SleepDuration ==
  IF OkToHibernate THEN MsToNextEvent(MaxTimerUnits * MinuteTicks)
  ELSE MsToNextEvent(NapDuration * Quarter)

CheckForSleep ==
  /\ pc = "handlers"
  /\ tasks' = IF TasksTimeOut THEN tasks \ TimedTasks ELSE tasks
  /\ lastTask' = IF TasksTimeOut THEN 0 ELSE lastTask
  /\ waited' = IF TasksTimeOut THEN 0 ELSE waited
  /\ UNCHANGED removed
  /\ \/ /\ SleepDuration > 0
        /\ pc' = "asleep"
        /\ slept' = TimerUnit(SleepDuration)
        /\ timer' = Ticks[slept'] * TimerDuration(SleepDuration)
     \/ pc' = "awake" /\ UNCHANGED <<slept, timer>>      \* or the application, or the NCP, refuses
  /\ UNCHANGED <<build, clock, control, next, now, left, gap>>

(* The timer of the NCP, or anything else that wakes it or the host.       *)
Wake ==
  /\ pc = "asleep"
  /\ pc' = "awake" /\ timer' = 0
  /\ UNCHANGED <<build, clock, control, next, now, slept, taskVars, left, gap>>

(* emberAfRunEvents, which reads the clock once for each table.            *)
StartEvents ==
  /\ pc = "awake"
  /\ pc' = "events" /\ next' = 1 /\ now' = clock
  /\ gap' = 0 /\ slept' = "ms"
  /\ UNCHANGED <<build, clock, control, timer, taskVars, left>>

(* A cryptographic operation that began in this round holds them back.     *)
EventsHeldBack ==
  /\ pc = "awake"
  /\ pc' = "handlers"
  /\ UNCHANGED <<build, clock, control, next, now, timer, slept, taskVars, left, gap>>

Advance ==
  IF next = NumEvents
  THEN pc' = "handlers" /\ next' = 1 /\ now' = 0
  ELSE /\ next' = next + 1 /\ pc' = pc
       /\ now' = IF next = AppEvents[build] THEN clock ELSE now

SkipEvent ==
  /\ pc = "events" /\ ~Due(control[next], now)
  /\ Advance
  /\ UNCHANGED <<build, clock, control, timer, slept, taskVars, left, gap>>

(* An event is made inactive and its handler runs, which may stop others   *)
(* and schedule any, its own among them.                                   *)
RunEvent ==
  /\ pc = "events" /\ Due(control[next], now)
  /\ LET accepted == Accepted IN
     \E others \in SUBSET Events : \E stopped \in SUBSET (Events \ (others \cup {next})) :
       \E asked \in [others -> accepted] : Schedule(asked, Stopped(stopped \cup {next}))
  /\ Advance
  /\ UNCHANGED <<build, clock, timer, slept, taskVars, gap>>

Next == \/ Tick \/ TickAsleep \/ HandlerSchedules
        \/ AddToCurrentAppTasks \/ RemoveFromCurrentAppTasks
        \/ CheckForSleep \/ Wake \/ StartEvents \/ EventsHeldBack
        \/ SkipEvent \/ RunEvent

Spec == Init /\ [][Next]_vars

-----------------------------------------------------------------------------
(* A minute of af.h is shorter than the one that is counted, by this much. *)
Drift == Word - MinuteTicks
Late(e) == IF control[e].status = "minute" THEN (MaxSleepUnits - 1) * Drift ELSE 0

(* An event whose time has come is run by the next round of the main loop, *)
(* whatever wrap of whatever count lies in between, and the host does not  *)
(* sleep past it.  An event in minutes may be late by what its delay was   *)
(* cut short of, and so is a host that has slept for minutes.              *)
EventsInTime ==
  \A e \in Events :
    Active(e) /\ left[e] < -(gap + Late(e)) =>
      \/ pc = "events" /\ next <= e
      \/ pc \in {"asleep", "awake", "handlers"} /\ slept = "minute"

(* No event is run before its time, but for what is lost of a delay when   *)
(* it is cut to whole units, the first of which is under way; also not one *)
(* that a handler has scheduled, in the same round, by a later clock than  *)
(* the one the round goes by.                                              *)
Early == [ms |-> 0, qs |-> 2 * (Quarter - 1), minute |-> MinuteTicks + Word - 2, zero |-> 0]
NeverEarly ==
  [][RunEvent => left[next] <= Early[control[next].status]]_vars

(* emberMsToNextEvent and emberRunEvents agree: after the time that the    *)
(* one gives, and no earlier, the other has an event to run.               *)
NextEventExact ==
  LET first == MsToNextEvent(Word * Word) IN
  /\ \A ms \in 0 .. first - 1 : \A e \in Events : ~Due(control[e], clock + ms)
  /\ first < Word * Word => \E e \in Events : Due(control[e], clock + first)

(* A task with a timeout keeps the host out of hibernation for all of it,  *)
(* counted from when it was added last, through every wrap of the clock.   *)
(* Since removing any task makes the common time 0 (af-event.c:207), one   *)
(* that goes on after that is held only while the clock's 16 bits say so.  *)
TasksHeld ==
  [][\A t \in TimedTasks : CheckForSleep /\ t \in tasks \ tasks' =>
       waited > WakeTimeout \/ (removed /\ clock % Word > WakeTimeout)]_vars

(* What af.h:849-854 says of emberAfOkToHibernate: a task that is in       *)
(* progress holds the device, and is removed when it has timed out.  The   *)
(* code does not keep to it once another task was removed; no run lists it.*)
HeldForTimeout ==
  [][\A t \in TimedTasks :
       CheckForSleep /\ t \in tasks \ tasks' => waited > WakeTimeout]_vars
=============================================================================
