----------------------------- MODULE LoadControl -----------------------------
(***************************************************************************)
(* Demand response and load control: the device's event table              *)
(* (load-control-event-table.c, demand-response-load-control.c).           *)
(* An event reduces the load from its start for its duration; the device   *)
(* reports to the service what becomes of it.  A later event supersedes    *)
(* those it overlaps, the service cancels, the user opts in or out.        *)
(*                                                                         *)
(* Time passes between any two handlers; the tick, one event a time, may   *)
(* come late.  The service is not modelled but for its events: as it       *)
(* answers every request for its scheduled events (drlc-server.c), and     *)
(* commands are late, lost or doubled, an event may arrive at any time and *)
(* any number of times.  A time has Word values and wraps, a duration is   *)
(* in the same unit; set points, levels and the signature of a report are  *)
(* left out.                                                               *)
(***************************************************************************)
EXTENDS Integers, FiniteSets

CONSTANTS
  TableSize,         \* EMBER_AF_PLUGIN_DRLC_EVENT_TABLE_SIZE
  Word,              \* 2^32; the greatest time means never
  MaxDuration,       \* 0x5a0 minutes
  MaxRand,           \* of the attributes Start and Stop Randomize Minutes
  Events,            \* what the service may ask for
  CancelTimes,       \* and when it may cancel; 0 is "now"
  MaxInputs          \* bound: commands that arrive and choices of the user

ASSUME LoadControlAssumption ==
  /\ TableSize \in Nat \ {0} /\ Word \in Nat \ {0, 1}
  /\ {MaxDuration, MaxRand, MaxInputs} \subseteq Nat
  /\ Events \subseteq [id : Nat \ {0}, start : 0 .. Word - 1,
                       dur : 0 .. Word - 1, random : BOOLEAN, ours : BOOLEAN]
  /\ CancelTimes \subseteq 0 .. Word - 1

VARIABLES
  table,       \* the device's
  now,
  told,        \* what the device reports in its last step
  inputs

vars == <<table, now, told, inputs>>

Never == Word - 1
\* mutant: the sum is wider than the word
Plus(a, b) == (a + b) % Word
Index == 1 .. TableSize
Ids == {c.id : c \in Events}

\* ENTRY_...
Running == {"scheduled", "started"}
Ending == {"superseded", "cancelled"}

\* `during' is kept for the properties alone: whether the user has taken
\* part and has not, at some time since the event started
Void == [status |-> "void", id |-> 0, start |-> 0, dur |-> 0, startRand |-> 0,
         endRand |-> 0, optIn |-> FALSE, partial |-> FALSE, during |-> {}]

Init ==
  /\ table = [i \in Index |-> Void]
  /\ now = 1 /\ told = {}
  /\ inputs = 0

-----------------------------------------------------------------------------
(* The device's table                                                      *)

Report(e, status) == [id |-> e.id, status |-> status, during |-> e.during,
                      optIn |-> e.optIn]

Blank(id) == [Void EXCEPT !.id = id]

EndOf(e) == Plus(e.start, e.dur)

\* Randomization does not count
Overlap(e, f) == e.start < EndOf(f) /\ f.start < EndOf(e)

\* mutant: a superseded entry is not looked at
Due_NotSuperseded(e) ==
  \/ e.status = "scheduled" /\ Plus(e.start, e.startRand) <= now
  \/ e.status = "started" /\ Plus(EndOf(e), e.endRand) <= now
  \/ e.status = "cancelled" /\ e.start <= now

\* emAfLoadControlEventTableTick
Due(e) ==
  \/ e.status = "scheduled" /\ Plus(e.start, e.startRand) <= now
  \/ e.status = "started" /\ Plus(EndOf(e), e.endRand) <= now
  \/ e.status \in Ending /\ e.start <= now

\* controlValueToStatusEnum
CompletedStatus(e) ==
  IF e.partial THEN IF e.optIn THEN "partlyOptIn" ELSE "partlyOptOut"
  ELSE IF e.optIn THEN "completed" ELSE "noParticipation"

Started(i) == [table EXCEPT ![i].status = "started",
                            ![i].during = {table[i].optIn}]

\* voidAllEntriesWithEventId
VoidAll(id) ==
  [i \in Index |-> IF table[i].id = id THEN Void ELSE table[i]]

TickEntry(i) ==
  LET e == table[i]
  IN IF e.status = "scheduled"
     THEN /\ table' = Started(i)
          /\ told' = {Report(e, IF e.optIn THEN "started" ELSE "optOut")}
     ELSE /\ table' = VoidAll(e.id)
          /\ told' = {Report(e, IF e.status = "started"
                                THEN CompletedStatus(e) ELSE e.status)}

\* One entry, the first that is due
Tick ==
  \E i \in Index : /\ Due(table[i]) /\ \A j \in 1 .. i - 1 : ~Due(table[j])
                   /\ TickEntry(i)

\* mutant: a started event is left alone
Superseded_NotStarted(e, new) ==
  IF e.status = "scheduled" /\ Overlap(new, e)
  THEN [e EXCEPT !.status = "superseded", !.start = now] ELSE e

\* mutant: a superseded entry is free at once
Superseded_Voids(e, new) ==
  IF e.status \in Running /\ Overlap(new, e) THEN Void ELSE e

\* A scheduled event ends now, a started one when the other begins
Superseded(e, new) ==
  IF e.status \notin Running \/ ~Overlap(new, e) THEN e
  ELSE [e EXCEPT !.status = "superseded",
          !.start = IF e.status = "scheduled" THEN now
                    ELSE Plus(Plus(new.start, new.startRand), Word - 1)]

Free == {i \in Index : table[i].status = "void"}
Least(S) == CHOOSE i \in S : \A j \in S : i <= j

Rejects(e) == e.start = Never \/ e.dur > MaxDuration
IsDuplicate(e) == \E i \in Index : /\ table[i].status \in Running
                                   /\ table[i].id = e.id

\* emAfScheduleLoadControlEvent
Schedule(e) ==
  LET refused == IF Rejects(e) THEN "rejected"
                 ELSE IF now > EndOf(e) THEN "expired"
                 ELSE IF IsDuplicate(e) THEN "duplicate"
                 ELSE IF Free = {} THEN "rejected" ELSE "none"
  IN IF refused # "none" THEN UNCHANGED table /\ told' = {Report(e, refused)}
     ELSE /\ table' = [i \in Index |-> IF i = Least(Free) THEN e
                                       ELSE Superseded(table[i], e)]
          /\ told' = {Report(e, "received")}

\* mutant: a choice before the start makes the participation partial
OptInOrOut_AlwaysPartial(i, in) ==
  [table[i] EXCEPT !.optIn = in, !.partial = @ \/ table[i].optIn # in,
     !.during = IF table[i].status = "started" THEN @ \cup {in} ELSE @]

OptInOrOut(i, in) ==
  [table[i] EXCEPT !.optIn = in,
     !.partial = @ \/ (table[i].optIn # in /\ table[i].status = "started"),
     !.during = IF table[i].status = "started" THEN @ \cup {in} ELSE @]

\* emAfCancelLoadControlEvent for the entry found.  With randomization an
\* effective time that is not "now" is lost.
CancelTime(e, random, effective) ==
  IF random THEN Plus(IF effective = 0 THEN now ELSE 0, e.endRand)
            ELSE effective

Cancelled(e, random, effective) ==
  [e EXCEPT !.status = "cancelled", !.start = CancelTime(e, random, effective)]

InTime(e, effective) == effective # Never /\ effective <= EndOf(e)

Entries(id) == {i \in Index : table[i].status # "void" /\ table[i].id = id}

-----------------------------------------------------------------------------
(* Actions                                                                 *)

Input == inputs < MaxInputs /\ inputs' = inputs + 1 /\ UNCHANGED now

\* emberAf...LoadControlEventCallback
EventArrives(c) ==
  /\ Input
  /\ IF ~c.ours
     THEN UNCHANGED table /\ told' = {Report(Blank(c.id), "notFound")}
     ELSE \E r, s \in IF c.random THEN 0 .. MaxRand ELSE {0} :
       Schedule([Blank(c.id) EXCEPT !.status = "scheduled",
                   !.start = IF c.start = 0 THEN now ELSE c.start,
                   !.dur = c.dur, !.startRand = r, !.endRand = s,
                   !.optIn = TRUE])

CancelArrives(id, random, effective) ==
  /\ Input
  /\ LET i == Least(Entries(id)) IN
     IF Entries(id) = {}
     THEN UNCHANGED table /\ told' = {Report(Blank(id), "undefined")}
     ELSE IF ~InTime(table[i], effective)
     THEN UNCHANGED table /\ told' = {Report(table[i], "invalidTime")}
     ELSE /\ table' = [table EXCEPT ![i] = Cancelled(@, random, effective)]
          /\ told' = {}

\* Every entry's id is cancelled, and that is the first entry of the id
CancelAllArrives(random) ==
  /\ Input
  /\ table' = [i \in Index |->
       IF i \in Entries(table[i].id) /\ i = Least(Entries(table[i].id))
       THEN Cancelled(table[i], random, 0) ELSE table[i]]
  /\ told' = {}

\* emAfLoadControlEventOptInOrOut.  The condition that should suppress the
\* report of an event not started never holds.
UserChooses(id, in) ==
  /\ Input
  /\ \E i \in Entries(id) :
       /\ table[i].status \in Running
       /\ table' = [table EXCEPT ![i] = OptInOrOut(i, in)]
       /\ told' = IF table'[i].partial /\ table[i].status = "scheduled" THEN {}
                  ELSE {Report(table'[i], IF in THEN "optIn" ELSE "optOut")}

TimePasses ==
  /\ now < Never /\ now' = now + 1 /\ told' = {}
  /\ UNCHANGED <<table, inputs>>

TableTick == Tick /\ UNCHANGED <<now, inputs>>

Next ==
  \/ \E c \in Events : EventArrives(c)
  \/ \E id \in Ids, random \in BOOLEAN, effective \in CancelTimes :
       CancelArrives(id, random, effective)
  \/ \E random \in BOOLEAN : CancelAllArrives(random)
  \/ \E id \in Ids, in \in BOOLEAN : UserChooses(id, in)
  \/ TimePasses \/ TableTick

Spec == Init /\ [][Next]_vars

\* Time goes on, and the cluster tick is scheduled again every second
FairSpec == Spec /\ WF_vars(TimePasses) /\ WF_vars(TableTick)

-----------------------------------------------------------------------------
(* Properties                                                              *)

\* The types: a time or a duration is never wider than the word.
LcTypeOK ==
  /\ \A i \in Index :
       /\ table[i].status \in {"void"} \cup Running \cup Ending
       /\ table[i].id \in Ids \cup {0}
       /\ {table[i].start, table[i].dur} \subseteq 0 .. Never
       /\ {table[i].startRand, table[i].endRand} \subseteq 0 .. MaxRand
  /\ now \in 1 .. Never
  /\ inputs \in 0 .. MaxInputs

\* Of the events the device follows no two overlap or have one id, in whatever
\* order they were made, arrived and arrived again
\* (load-control-event-table.c:198-213).
OneAtATime ==
  \A i, j \in Index :
    (i # j /\ table[i].status \in Running /\ table[j].status \in Running)
      => table[i].id # table[j].id /\ ~Overlap(table[i], table[j])

\* What the device says of its user's part in an event that is over is true
\* of all that the user chose before and during it
\* (load-control-event-table.c:232-278).
ParticipationTrue ==
  \A r \in told :
    /\ r.status = "completed" => r.during = {TRUE}
    /\ r.status = "noParticipation" => r.during = {FALSE}
    /\ r.status \in {"partlyOptIn", "partlyOptOut"} => r.during = BOOLEAN
    /\ r.status = "partlyOptIn" => r.optIn
    /\ r.status = "partlyOptOut" => ~r.optIn

Gone(i) == table[i].status # "void" /\ table'[i].status = "void"
Accounted(i) ==
  \E r \in told' :
    /\ r.id = table[i].id
    /\ \/ r.status = IF table[i].status = "started"
                     THEN CompletedStatus(table[i]) ELSE table[i].status
       \/ Cardinality(Entries(table[i].id)) > 1

\* No event that was received is dropped in silence: it is in the table until
\* its end is reported.  The one exception is the code's: an event sent again
\* while its superseded or cancelled entry waits to be reported has two
\* entries, and the report of one takes the other with it
\* (load-control-event-table.c:67-78).
NoneDropped == [][\A i \in Index : Gone(i) => Accounted(i)]_vars

\* Every event received ends, is superseded or cancelled: the table does not
\* stay full.
EventEnds ==
  \A id \in Ids : Entries(id) # {} ~> Entries(id) = {}
=============================================================================
