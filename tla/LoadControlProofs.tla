-------------------------- MODULE LoadControlProofs --------------------------
(***************************************************************************)
(* Proofs about LoadControl, for tables and words of every size, whatever  *)
(* events the service sends and whenever it cancels.                       *)
(***************************************************************************)
EXTENDS LoadControl, FiniteSetTheorems, TLAPS

Status == {"void"} \cup Running \cup Ending

Entry == [status : Status, id : Ids \cup {0}, start : 0 .. Never,
          dur : 0 .. Never, startRand : 0 .. MaxRand, endRand : 0 .. MaxRand,
          optIn : BOOLEAN, partial : BOOLEAN, during : SUBSET BOOLEAN]

TypeInv == /\ table \in [Index -> Entry]
           /\ now \in 1 .. Never /\ inputs \in 0 .. MaxInputs

\* What an entry has of the user's choices: nothing partial before the start,
\* and then partial means that there were both.
Recorded(e) ==
  /\ e.status = "scheduled" => ~e.partial
  /\ e.status = "started" =>
       IF e.partial THEN e.during = BOOLEAN ELSE e.during = {e.optIn}

IInv == /\ TypeInv /\ OneAtATime
        /\ \A i \in Index : Recorded(table[i])
        /\ ParticipationTrue

-----------------------------------------------------------------------------
(* Entries.                                                                *)

\* A sum of two times is a time: it wraps.
LEMMA PlusType ==
  ASSUME NEW a \in Int, NEW b \in Int
  PROVE  Plus(a, b) \in 0 .. Never
  BY LoadControlAssumption DEF LoadControlAssumption, Plus, Never

LEMMA VoidEntry == Void \in Entry /\ Void.status = "void" /\ Recorded(Void)
  BY LoadControlAssumption
     DEF LoadControlAssumption, Void, Entry, Status, Never, Recorded

LEMMA EndType ==
  ASSUME NEW e \in Entry
  PROVE  EndOf(e) \in 0 .. Never
  BY PlusType DEF EndOf, Entry, Never

\* An entry that is superseded, or not, is one; it follows what it followed
\* or nothing, and nothing that the new event overlaps.
LEMMA SupersededEntry ==
  ASSUME NEW e \in Entry, NEW new \in Entry, now \in 1 .. Never, Recorded(e)
  PROVE  /\ Superseded(e, new) \in Entry
         /\ Recorded(Superseded(e, new))
         /\ Superseded(e, new).status = "void" <=> e.status = "void"
         /\ Superseded(e, new).status \in Running =>
              Superseded(e, new) = e /\ ~Overlap(new, e)
<1>1. CASE e.status \notin Running \/ ~Overlap(new, e)
  BY <1>1 DEF Superseded
<1>2. CASE e.status \in Running /\ Overlap(new, e)
  <2> DEFINE at == IF e.status = "scheduled" THEN now
                   ELSE Plus(Plus(new.start, new.startRand), Word - 1)
             s == [e EXCEPT !.status = "superseded", !.start = at]
  <2>1. Superseded(e, new) = s
    BY <1>2 DEF Superseded
  <2>2. /\ new.start \in Int /\ new.startRand \in Int /\ Word - 1 \in Int
        /\ 1 .. Never \subseteq 0 .. Never
    BY LoadControlAssumption DEF LoadControlAssumption, Entry, Never
  <2>3. Plus(new.start, new.startRand) \in 0 .. Never
    BY <2>2, PlusType
  <2>4. Plus(new.start, new.startRand) \in Int
    BY <2>3, <2>2 DEF Never
  <2>5. at \in 0 .. Never
    BY <2>2, <2>4, PlusType
  <2> HIDE DEF at
  <2>6. s \in Entry /\ s.status = "superseded"
    BY <2>5 DEF Entry, Status, Ending
  <2>7. e.status # "void"
    BY <1>2 DEF Running
  <2> QED BY <2>1, <2>6, <2>7 DEF Recorded, Running
<1> QED BY <1>1, <1>2

LEMMA CancelledEntry ==
  ASSUME NEW e \in Entry, NEW random \in BOOLEAN, NEW effective \in 0 .. Never,
         now \in 1 .. Never
  PROVE  /\ Cancelled(e, random, effective) \in Entry
         /\ Cancelled(e, random, effective).status = "cancelled"
         /\ Recorded(Cancelled(e, random, effective))
<1> DEFINE at == CancelTime(e, random, effective)
           from == IF effective = 0 THEN now ELSE 0
<1>1. from \in Int /\ e.endRand \in Int
  BY DEF Entry
<1>2. Plus(from, e.endRand) \in 0 .. Never
  BY <1>1, PlusType
<1>3. at \in 0 .. Never
  BY <1>2 DEF CancelTime
<1> HIDE DEF at
<1>4. Cancelled(e, random, effective)
        = [e EXCEPT !.status = "cancelled", !.start = at]
  BY DEF Cancelled, at
<1>5. /\ [e EXCEPT !.status = "cancelled", !.start = at] \in Entry
      /\ [e EXCEPT !.status = "cancelled", !.start = at].status = "cancelled"
  BY <1>3 DEF Entry, Status, Ending
<1> QED BY <1>4, <1>5 DEF Recorded

\* A choice of the user changes nothing but what it should.
LEMMA ChosenEntry ==
  ASSUME table \in [Index -> Entry], NEW i \in Index, NEW in \in BOOLEAN,
         table[i].status \in Running, Recorded(table[i])
  PROVE  /\ OptInOrOut(i, in) \in Entry
         /\ Recorded(OptInOrOut(i, in))
         /\ OptInOrOut(i, in).status = table[i].status
         /\ OptInOrOut(i, in).id = table[i].id
         /\ OptInOrOut(i, in).start = table[i].start
         /\ OptInOrOut(i, in).dur = table[i].dur
<1> DEFINE e == table[i]
           p == e.partial \/ (e.optIn # in /\ e.status = "started")
           d == IF e.status = "started" THEN e.during \cup {in} ELSE e.during
           o == [e EXCEPT !.optIn = in, !.partial = p, !.during = d]
<1>1. OptInOrOut(i, in) = o
  BY DEF OptInOrOut
<1>2. e \in Entry
  OBVIOUS
<1>3. p \in BOOLEAN /\ d \in SUBSET BOOLEAN
  BY <1>2 DEF Entry
<1>4. /\ o \in Entry /\ o.status = e.status /\ o.id = e.id
      /\ o.start = e.start /\ o.dur = e.dur
      /\ o.optIn = in /\ o.partial = p /\ o.during = d
  BY <1>2, <1>3 DEF Entry
<1>5. e.status = "scheduled" => ~p
  BY DEF Recorded
<1>6. ASSUME e.status = "started"
      PROVE  IF p THEN d = BOOLEAN ELSE d = {in}
  <2>1. e.optIn \in BOOLEAN /\ e.partial \in BOOLEAN
    BY <1>2 DEF Entry
  <2>2. d = e.during \cup {in}
    BY <1>6
  <2>3. CASE e.partial
    <3>1. e.during = BOOLEAN
      BY <1>6, <2>3 DEF Recorded
    <3> QED BY <3>1, <2>2, <2>3
  <2>4. CASE ~e.partial
    <3>1. e.during = {e.optIn}
      BY <1>6, <2>4 DEF Recorded
    <3>2. CASE e.optIn = in
      BY <3>1, <3>2, <2>2, <2>4
    <3>3. CASE e.optIn # in
      <4>1. {e.optIn, in} = BOOLEAN
        BY <3>3, <2>1
      <4> QED BY <4>1, <3>1, <3>3, <2>2, <1>6
    <3> QED BY <3>2, <3>3
  <2> QED BY <2>1, <2>3, <2>4
<1> QED BY <1>1, <1>4, <1>5, <1>6 DEF Recorded

-----------------------------------------------------------------------------
(* The events the device follows.                                          *)

\* A step after which the device follows no more than before, with the same
\* ids and times, keeps them apart.
LEMMA FollowsNoMore ==
  ASSUME OneAtATime,
         \A i \in Index : table'[i].status \in Running =>
           /\ table[i].status \in Running /\ table'[i].id = table[i].id
           /\ table'[i].start = table[i].start /\ table'[i].dur = table[i].dur
  PROVE  OneAtATime'
<1> SUFFICES ASSUME NEW i \in Index, NEW j \in Index, i # j,
                    table'[i].status \in Running, table'[j].status \in Running
             PROVE  table'[i].id # table'[j].id
                    /\ ~Overlap(table'[i], table'[j])
  BY DEF OneAtATime, Overlap, EndOf, Plus, Index
<1>1. table[i].id # table[j].id /\ ~Overlap(table[i], table[j])
  BY DEF OneAtATime
<1> QED BY <1>1 DEF Overlap, EndOf

-----------------------------------------------------------------------------
(* Steps.  Of all of them only the tick takes entries out of the table.    *)

\* A report of anything but the end of an event says nothing of the user.
LEMMA OtherReport ==
  ASSUME NEW e, NEW status, told' = {Report(e, status)},
         status \notin {"completed", "noParticipation",
                        "partlyOptIn", "partlyOptOut"}
  PROVE  ParticipationTrue'
<1>1. \A r \in told' : r.status = status
  BY DEF Report
<1> QED BY <1>1 DEF ParticipationTrue

LEMMA NoReport ==
  ASSUME told' = {}
  PROVE  ParticipationTrue'
  BY DEF ParticipationTrue

\* What is reported of an event at its end agrees with what was recorded.
LEMMA EndReport ==
  ASSUME NEW e \in Entry, Recorded(e), e.status = "started",
         told' = {Report(e, CompletedStatus(e))}
  PROVE  ParticipationTrue'
<1>1. e.optIn \in BOOLEAN /\ e.partial \in BOOLEAN
  BY DEF Entry
<1>2. SUFFICES ASSUME NEW r, r = Report(e, CompletedStatus(e))
               PROVE  /\ r.status = "completed" => r.during = {TRUE}
                      /\ r.status = "noParticipation" => r.during = {FALSE}
                      /\ r.status \in {"partlyOptIn", "partlyOptOut"}
                           => r.during = BOOLEAN
                      /\ r.status = "partlyOptIn" => r.optIn
                      /\ r.status = "partlyOptOut" => ~r.optIn
  BY DEF ParticipationTrue
<1>3. /\ r.status = CompletedStatus(e) /\ r.during = e.during
      /\ r.optIn = e.optIn
  BY <1>2 DEF Report
<1>4. CASE e.partial
  <2>1. e.during = BOOLEAN
    BY <1>4 DEF Recorded
  <2>2. CompletedStatus(e) = IF e.optIn THEN "partlyOptIn" ELSE "partlyOptOut"
    BY <1>4 DEF CompletedStatus
  <2> QED BY <1>3, <2>1, <2>2
<1>5. CASE ~e.partial
  <2>1. e.during = {e.optIn}
    BY <1>5 DEF Recorded
  <2>2. CASE e.optIn
    <3>1. CompletedStatus(e) = "completed"
      BY <1>5, <2>2 DEF CompletedStatus
    <3>2. e.during = {TRUE}
      BY <1>1, <2>1, <2>2
    <3> QED BY <1>3, <3>1, <3>2
  <2>3. CASE ~e.optIn
    <3>1. CompletedStatus(e) = "noParticipation"
      BY <1>5, <2>3 DEF CompletedStatus
    <3>2. e.during = {FALSE}
      BY <1>1, <2>1, <2>3
    <3> QED BY <1>3, <3>1, <3>2
  <2> QED BY <2>2, <2>3
<1> QED BY <1>4, <1>5

LEMMA InputStep ==
  ASSUME TypeInv, Input
  PROVE  now' \in 1 .. Never /\ inputs' \in 0 .. MaxInputs
  BY LoadControlAssumption DEF LoadControlAssumption, TypeInv, Input, Never

\* The entry of a new event, once its times are fixed.
LEMMA ScheduleStep ==
  ASSUME IInv, NEW e \in Entry, e.status = "scheduled", Recorded(e),
         Schedule(e)
  PROVE  /\ table' \in [Index -> Entry] /\ OneAtATime'
         /\ \A i \in Index : Recorded(table'[i]) /\ ~Gone(i)
         /\ ParticipationTrue'
<1> DEFINE refused == IF Rejects(e) THEN "rejected"
                      ELSE IF now > EndOf(e) THEN "expired"
                      ELSE IF IsDuplicate(e) THEN "duplicate"
                      ELSE IF Free = {} THEN "rejected" ELSE "none"
<1>1. CASE refused # "none"
  <2>1. table' = table /\ told' = {Report(e, refused)}
    BY <1>1 DEF Schedule
  <2>2. ParticipationTrue'
    BY <2>1, OtherReport
  <2> QED BY <2>1, <2>2, FollowsNoMore DEF IInv, TypeInv, Gone
<1>2. CASE refused = "none"
  <2>1. ~IsDuplicate(e)
    BY <1>2
  <2>2. /\ table' = [i \in Index |-> IF i = Least(Free) THEN e
                                     ELSE Superseded(table[i], e)]
        /\ told' = {Report(e, "received")}
    BY <1>2 DEF Schedule
  <2> HIDE DEF refused
  <2>3. ASSUME NEW i \in Index
        PROVE  LET s == Superseded(table[i], e) IN
               /\ s \in Entry /\ Recorded(s)
               /\ s.status = "void" <=> table[i].status = "void"
               /\ s.status \in Running => s = table[i] /\ ~Overlap(e, s)
    BY <2>3, SupersededEntry DEF IInv, TypeInv
  <2>4. \A i \in Index : table'[i] \in Entry /\ Recorded(table'[i]) /\ ~Gone(i)
    BY <2>2, <2>3 DEF Gone
  <2>5. table' \in [Index -> Entry]
    BY <2>2, <2>3
  <2>6. OneAtATime'
    <3> SUFFICES ASSUME NEW i \in Index, NEW j \in Index, i # j,
                        table'[i].status \in Running,
                        table'[j].status \in Running
                 PROVE  table'[i].id # table'[j].id
                        /\ ~Overlap(table'[i], table'[j])
      BY DEF OneAtATime, Overlap, EndOf, Plus, Index
    <3>1. ASSUME NEW k \in Index, table[k].status \in Running
          PROVE  table[k].id # e.id
      BY <3>1, <2>1 DEF IsDuplicate
    <3>2. CASE i = Least(Free)
      <4>1. table'[i] = e /\ table'[j] = Superseded(table[j], e)
        BY <2>2, <3>2
      <4>2. table'[j] = table[j] /\ ~Overlap(e, table[j])
        BY <4>1, <2>3
      <4> QED BY <4>1, <4>2, <3>1
    <3>3. CASE j = Least(Free)
      <4>1. table'[j] = e /\ table'[i] = Superseded(table[i], e)
        BY <2>2, <3>3
      <4>2. table'[i] = table[i] /\ ~Overlap(e, table[i])
        BY <4>1, <2>3
      <4> QED BY <4>1, <4>2, <3>1 DEF Overlap
    <3>4. CASE i # Least(Free) /\ j # Least(Free)
      <4>1. table'[i] = table[i] /\ table'[j] = table[j]
        BY <2>2, <2>3, <3>4
      <4> QED BY <4>1 DEF IInv, OneAtATime
    <3> QED BY <3>2, <3>3, <3>4
  <2>7. ParticipationTrue'
    BY <2>2, OtherReport
  <2> QED BY <2>4, <2>5, <2>6, <2>7
<1> QED BY <1>1, <1>2

LEMMA EventArrivesStep ==
  ASSUME IInv, NEW c \in Events, EventArrives(c)
  PROVE  IInv' /\ \A i \in Index : ~Gone(i)
<1>1. now' \in 1 .. Never /\ inputs' \in 0 .. MaxInputs
  BY InputStep DEF IInv, EventArrives
<1>2. CASE ~c.ours
  <2>1. table' = table /\ told' = {Report(Blank(c.id), "notFound")}
    BY <1>2 DEF EventArrives
  <2>2. ParticipationTrue'
    BY <2>1, OtherReport
  <2> QED BY <1>1, <2>1, <2>2, FollowsNoMore DEF IInv, TypeInv, Gone
<1>3. CASE c.ours
  <2> DEFINE entry(r, s) ==
        [Blank(c.id) EXCEPT !.status = "scheduled",
           !.start = IF c.start = 0 THEN now ELSE c.start,
           !.dur = c.dur, !.startRand = r, !.endRand = s, !.optIn = TRUE]
  <2>1. PICK r \in 0 .. MaxRand, s \in 0 .. MaxRand : Schedule(entry(r, s))
    <3>1. (IF c.random THEN 0 .. MaxRand ELSE {0}) \subseteq 0 .. MaxRand
      BY LoadControlAssumption DEF LoadControlAssumption
    <3> QED BY <1>3, <3>1 DEF EventArrives
  <2> DEFINE e == entry(r, s)
  <2>2. /\ c.id \in Ids /\ c.start \in 0 .. Never /\ c.dur \in 0 .. Never
        /\ now \in 0 .. Never
    BY LoadControlAssumption
       DEF LoadControlAssumption, Ids, Never, IInv, TypeInv
  <2>3. e \in Entry /\ e.status = "scheduled" /\ e.partial = FALSE
    BY <2>2, VoidEntry DEF Blank, Void, Entry, Status, Running
  <2> HIDE DEF entry
  <2>4. Recorded(e)
    BY <2>3 DEF Recorded
  <2> QED BY <1>1, <2>1, <2>3, <2>4, ScheduleStep DEF IInv, TypeInv
<1> QED BY <1>2, <1>3

LEMMA CancelArrivesStep ==
  ASSUME IInv, NEW id \in Ids, NEW random \in BOOLEAN,
         NEW effective \in CancelTimes, CancelArrives(id, random, effective)
  PROVE  IInv' /\ \A i \in Index : ~Gone(i)
<1> DEFINE k == Least(Entries(id))
<1>1. now' \in 1 .. Never /\ inputs' \in 0 .. MaxInputs
  BY InputStep DEF IInv, CancelArrives
<1>2. CASE table' = table /\ ParticipationTrue'
  BY <1>1, <1>2, FollowsNoMore DEF IInv, TypeInv, Gone
<1>3. CASE /\ table' = [table EXCEPT ![k] = Cancelled(@, random, effective)]
           /\ told' = {}
  <2>1. effective \in 0 .. Never
    BY LoadControlAssumption DEF LoadControlAssumption, Never
  <2>2. ASSUME NEW i \in Index
        PROVE  \/ table'[i] = table[i]
               \/ /\ table'[i] \in Entry /\ Recorded(table'[i])
                  /\ table'[i].status = "cancelled"
    <3>1. CASE i = k
      <4>1. table'[i] = Cancelled(table[i], random, effective)
        BY <1>3, <3>1 DEF IInv, TypeInv
      <4> QED BY <4>1, <2>1, CancelledEntry DEF IInv, TypeInv
    <3>2. CASE i # k
      BY <1>3, <3>2 DEF IInv, TypeInv
    <3> QED BY <3>1, <3>2
  <2>3. table' \in [Index -> Entry]
    BY <1>3, <2>2 DEF IInv, TypeInv
  <2>4. OneAtATime'
    BY <2>2, FollowsNoMore DEF IInv, Running
  <2>5. ParticipationTrue'
    BY <1>3, NoReport
  <2>6. \A i \in Index : Recorded(table'[i]) /\ ~Gone(i)
    BY <2>2 DEF IInv, Gone
  <2> QED BY <1>1, <2>3, <2>4, <2>5, <2>6 DEF IInv, TypeInv
<1>4. CASE Entries(id) = {}
  <2>1. table' = table /\ told' = {Report(Blank(id), "undefined")}
    BY <1>4 DEF CancelArrives
  <2> QED BY <2>1, <1>2, OtherReport
<1>5. CASE Entries(id) # {} /\ ~InTime(table[k], effective)
  <2>1. table' = table /\ told' = {Report(table[k], "invalidTime")}
    BY <1>5 DEF CancelArrives
  <2> QED BY <2>1, <1>2, OtherReport
<1>6. CASE Entries(id) # {} /\ InTime(table[k], effective)
  BY <1>6, <1>3 DEF CancelArrives
<1> QED BY <1>4, <1>5, <1>6

LEMMA CancelAllArrivesStep ==
  ASSUME IInv, NEW random \in BOOLEAN, CancelAllArrives(random)
  PROVE  IInv' /\ \A i \in Index : ~Gone(i)
<1>1. now' \in 1 .. Never /\ inputs' \in 0 .. MaxInputs
  BY InputStep DEF IInv, CancelAllArrives
<1>2. ASSUME NEW i \in Index
      PROVE  \/ table'[i] = table[i]
             \/ /\ table'[i] \in Entry /\ Recorded(table'[i])
                /\ table'[i].status = "cancelled"
  <2>1. \/ table'[i] = table[i]
        \/ table'[i] = Cancelled(table[i], random, 0)
    BY DEF CancelAllArrives
  <2>2. 0 \in 0 .. Never
    BY LoadControlAssumption DEF LoadControlAssumption, Never
  <2> QED BY <2>1, <2>2, CancelledEntry DEF IInv, TypeInv
<1>3. table' \in [Index -> Entry]
  <2>1. table' = [i \in Index |-> table'[i]]
    BY DEF CancelAllArrives
  <2> QED BY <1>2, <2>1 DEF IInv, TypeInv
<1>4. OneAtATime'
  BY <1>2, FollowsNoMore DEF IInv, Running
<1>5. ParticipationTrue'
  BY NoReport DEF CancelAllArrives
<1>6. \A i \in Index : Recorded(table'[i]) /\ ~Gone(i)
  BY <1>2 DEF IInv, Gone
<1> QED BY <1>1, <1>3, <1>4, <1>5, <1>6 DEF IInv, TypeInv

LEMMA UserChoosesStep ==
  ASSUME IInv, NEW id \in Ids, NEW in \in BOOLEAN, UserChooses(id, in)
  PROVE  IInv' /\ \A i \in Index : ~Gone(i)
<1>1. now' \in 1 .. Never /\ inputs' \in 0 .. MaxInputs
  BY InputStep DEF IInv, UserChooses
<1>2. PICK k \in Index :
        /\ table[k].status \in Running
        /\ table' = [table EXCEPT ![k] = OptInOrOut(k, in)]
        /\ told' = IF table'[k].partial /\ table[k].status = "scheduled" THEN {}
                   ELSE {Report(table'[k], IF in THEN "optIn" ELSE "optOut")}
  BY DEF UserChooses, Entries
<1>3. /\ OptInOrOut(k, in) \in Entry /\ Recorded(OptInOrOut(k, in))
      /\ OptInOrOut(k, in).status = table[k].status
      /\ OptInOrOut(k, in).id = table[k].id
      /\ OptInOrOut(k, in).start = table[k].start
      /\ OptInOrOut(k, in).dur = table[k].dur
  BY <1>2, ChosenEntry DEF IInv, TypeInv
<1>4. \A i \in Index : table'[i] = IF i = k THEN OptInOrOut(k, in)
                                            ELSE table[i]
  BY <1>2 DEF IInv, TypeInv
<1>5. table' \in [Index -> Entry]
  BY <1>2, <1>3 DEF IInv, TypeInv
<1>6. OneAtATime'
  BY <1>3, <1>4, FollowsNoMore DEF IInv
<1>7. ParticipationTrue'
  <2>1. CASE told' = {}
    BY <2>1, NoReport
  <2>2. CASE told' = {Report(table'[k], IF in THEN "optIn" ELSE "optOut")}
    BY <2>2, OtherReport
  <2> QED BY <1>2, <2>1, <2>2
<1>8. \A i \in Index : Recorded(table'[i]) /\ ~Gone(i)
  BY <1>3, <1>4 DEF IInv, Gone
<1> QED BY <1>1, <1>5, <1>6, <1>7, <1>8 DEF IInv, TypeInv

LEMMA TimePassesStep ==
  ASSUME IInv, TimePasses
  PROVE  IInv' /\ \A i \in Index : ~Gone(i)
<1>1. table' = table /\ ParticipationTrue'
  BY NoReport DEF TimePasses
<1>2. now' \in 1 .. Never /\ inputs' = inputs
  BY LoadControlAssumption
     DEF LoadControlAssumption, TimePasses, IInv, TypeInv, Never
<1> QED BY <1>1, <1>2, FollowsNoMore DEF IInv, TypeInv, Gone

\* Two entries of one id are more than one.
LEMMA TwoEntries ==
  ASSUME NEW i \in Index, NEW j \in Index, i # j,
         table[i].status # "void", table[j].status # "void",
         table[i].id = table[j].id
  PROVE  Cardinality(Entries(table[i].id)) > 1
<1> DEFINE S == Entries(table[i].id)
<1>1. IsFiniteSet(Index)
  BY LoadControlAssumption, FS_Interval DEF LoadControlAssumption, Index
<1>2. S \in SUBSET Index /\ {i, j} \in SUBSET S
  BY DEF Entries
<1>3. IsFiniteSet(S)
  BY <1>1, <1>2, FS_Subset
<1>4. Cardinality({i, j}) = 2
  <2>1. IsFiniteSet({i}) /\ Cardinality({i}) = 1
    BY FS_Singleton
  <2>2. j \notin {i} /\ {i} \cup {j} = {i, j}
    OBVIOUS
  <2>3. Cardinality({i} \cup {j}) = IF j \in {i} THEN Cardinality({i})
                                   ELSE Cardinality({i}) + 1
    BY <2>1, FS_AddElement, Zenon
  <2>4. Cardinality({i} \cup {j}) = Cardinality({i}) + 1
    BY <2>2, <2>3, Zenon
  <2> QED BY <2>1, <2>2, <2>4
<1>5. Cardinality({i, j}) <= Cardinality(S)
  BY <1>2, <1>3, FS_Subset
<1>6. Cardinality(S) \in Nat
  BY <1>3, FS_CardinalityType
<1> QED BY <1>4, <1>5, <1>6

\* The tick starts an event, or takes every entry of an id out of the table
\* and reports one of them.
LEMMA TableTickStep ==
  ASSUME IInv, TableTick
  PROVE  IInv' /\ \A i \in Index : Gone(i) => Accounted(i)
<1>1. PICK k \in Index : Due(table[k]) /\ TickEntry(k)
  BY DEF TableTick, Tick
<1>2. now' = now /\ inputs' = inputs
  BY DEF TableTick
<1>3. table[k] \in Entry /\ Recorded(table[k])
  BY DEF IInv, TypeInv
<1>4. CASE table[k].status = "scheduled"
  <2> DEFINE e == [table[k] EXCEPT !.status = "started",
                                   !.during = {table[k].optIn}]
  <2>1. /\ table' = Started(k)
        /\ told' = {Report(table[k], IF table[k].optIn THEN "started"
                                     ELSE "optOut")}
    BY <1>1, <1>4 DEF TickEntry
  <2>2. table' = [table EXCEPT ![k] = e]
    <3>1. table' = [table EXCEPT ![k].status = "started",
                                 ![k].during = {table[k].optIn}]
      BY <2>1 DEF Started
    <3> QED BY <3>1 DEF IInv, TypeInv
  <2>3. /\ e \in Entry /\ e.status = "started" /\ e.id = table[k].id
        /\ e.start = table[k].start /\ e.dur = table[k].dur
        /\ e.partial = table[k].partial /\ e.optIn = table[k].optIn
        /\ e.during = {table[k].optIn}
    BY <1>3 DEF Entry, Status, Running
  <2> HIDE DEF e
  <2>4. Recorded(e)
    BY <1>3, <1>4, <2>3 DEF Recorded
  <2>5. \A i \in Index : table'[i] = IF i = k THEN e ELSE table[i]
    BY <2>2 DEF IInv, TypeInv
  <2>6. table' \in [Index -> Entry]
    BY <2>2, <2>3 DEF IInv, TypeInv
  <2>7. OneAtATime'
    BY <1>4, <2>3, <2>5, FollowsNoMore DEF IInv, Running
  <2>8. ParticipationTrue'
    BY <2>1, OtherReport
  <2>9. \A i \in Index : Recorded(table'[i]) /\ ~Gone(i)
    BY <2>3, <2>4, <2>5 DEF IInv, Gone
  <2> QED BY <1>2, <2>6, <2>7, <2>8, <2>9 DEF IInv, TypeInv
<1>5. CASE table[k].status # "scheduled"
  <2> DEFINE why == IF table[k].status = "started"
                    THEN CompletedStatus(table[k]) ELSE table[k].status
  <2>1. table' = VoidAll(table[k].id) /\ told' = {Report(table[k], why)}
    BY <1>1, <1>5 DEF TickEntry
  <2>2. table[k].status = "started" \/ table[k].status \in Ending
    BY <1>1, <1>5 DEF Due
  <2>3. \A i \in Index : table'[i] = IF table[i].id = table[k].id THEN Void
                                     ELSE table[i]
    BY <2>1 DEF VoidAll
  <2>4. table' \in [Index -> Entry]
    <3>1. table' = [i \in Index |-> table'[i]]
      BY <2>1 DEF VoidAll
    <3> QED BY <2>3, <3>1, VoidEntry DEF IInv, TypeInv
  <2>5. OneAtATime'
    BY <2>3, VoidEntry, FollowsNoMore DEF IInv, Running
  <2>6. ParticipationTrue'
    <3>1. CASE table[k].status = "started"
      BY <1>3, <2>1, <3>1, EndReport
    <3>2. CASE table[k].status \in Ending
      <4>1. told' = {Report(table[k], table[k].status)}
        BY <2>1, <3>2 DEF Ending
      <4> QED BY <3>2, <4>1, OtherReport DEF Ending
    <3> QED BY <2>2, <3>1, <3>2
  <2>7. \A i \in Index : Recorded(table'[i])
    BY <2>3, VoidEntry DEF IInv
  <2>8. ASSUME NEW i \in Index, Gone(i)
        PROVE  Accounted(i)
    <3> DEFINE r == Report(table[k], why)
    <3>1. table[i].id = table[k].id
      BY <2>3, <2>8 DEF Gone
    <3>2. r \in told' /\ r.id = table[i].id /\ r.status = why
      BY <2>1, <3>1 DEF Report
    <3>3. CASE i = k
      BY <3>2, <3>3 DEF Accounted
    <3>4. CASE i # k
      <4>1. table[k].status # "void" /\ table[i].status # "void"
        BY <2>2, <2>8 DEF Gone, Ending
      <4>2. Cardinality(Entries(table[i].id)) > 1
        BY <3>1, <3>4, <4>1, TwoEntries
      <4> QED BY <3>2, <4>2 DEF Accounted
    <3> QED BY <3>3, <3>4
  <2> QED BY <1>2, <2>4, <2>5, <2>6, <2>7, <2>8 DEF IInv, TypeInv
<1> QED BY <1>4, <1>5

-----------------------------------------------------------------------------
(* The theorems.                                                           *)

LEMMA InitIInv == Init => IInv
<1> SUFFICES ASSUME Init PROVE IInv
  OBVIOUS
<1>1. \A i \in Index : table[i] = Void
  BY DEF Init
<1>2. TypeInv
  BY VoidEntry, LoadControlAssumption
     DEF LoadControlAssumption, Init, TypeInv, Never
<1>3. OneAtATime
  BY <1>1, VoidEntry DEF OneAtATime, Running
<1>4. ParticipationTrue
  BY DEF Init, ParticipationTrue
<1> QED BY <1>1, <1>2, <1>3, <1>4, VoidEntry DEF IInv

LEMMA NextIInv ==
  ASSUME IInv, [Next]_vars
  PROVE  IInv' /\ [\A i \in Index : Gone(i) => Accounted(i)]_vars
<1>1. CASE UNCHANGED vars
  <2>1. table' = table /\ now' = now /\ told' = told /\ inputs' = inputs
    BY <1>1 DEF vars
  <2>2. ParticipationTrue'
    BY <2>1 DEF IInv, ParticipationTrue
  <2> QED BY <1>1, <2>1, <2>2, FollowsNoMore DEF IInv, TypeInv
<1>2. CASE \E c \in Events : EventArrives(c)
  BY <1>2, EventArrivesStep
<1>3. CASE \E id \in Ids, random \in BOOLEAN, effective \in CancelTimes :
             CancelArrives(id, random, effective)
  BY <1>3, CancelArrivesStep
<1>4. CASE \E random \in BOOLEAN : CancelAllArrives(random)
  BY <1>4, CancelAllArrivesStep
<1>5. CASE \E id \in Ids, in \in BOOLEAN : UserChooses(id, in)
  BY <1>5, UserChoosesStep
<1>6. CASE TimePasses
  BY <1>6, TimePassesStep
<1>7. CASE TableTick
  BY <1>7, TableTickStep
<1> QED BY <1>1, <1>2, <1>3, <1>4, <1>5, <1>6, <1>7 DEF Next

\* The invariant holds in every reachable state.
THEOREM Inductive == Spec => []IInv
<1>1. Init => IInv
  BY InitIInv
<1>2. IInv /\ [Next]_vars => IInv'
  BY NextIInv
<1> QED BY <1>1, <1>2, PTL DEF Spec

\* Times and durations never outgrow their word, and a status, an id or a
\* randomization is one of those there are (LcTypeOK), also when sums wrap.
THEOREM TypeCorrect == Spec => []LcTypeOK
<1>1. IInv => LcTypeOK
  BY DEF IInv, TypeInv, LcTypeOK, Entry, Status
<1> QED BY <1>1, Inductive, PTL

\* No two events that the device follows overlap or have one id (OneAtATime),
\* in whatever order events arrive and however often.
THEOREM EventsApart == Spec => []OneAtATime
<1>1. IInv => OneAtATime
  BY DEF IInv
<1> QED BY <1>1, Inductive, PTL

\* What is reported of the user's part in an event is true of all that the
\* user chose (ParticipationTrue).
THEOREM ReportsTrue == Spec => []ParticipationTrue
<1>1. IInv => ParticipationTrue
  BY DEF IInv
<1> QED BY <1>1, Inductive, PTL

\* No entry leaves the table without a report of it, or of another entry of
\* its id (NoneDropped).
THEOREM EndsReported == Spec => NoneDropped
<1>1. IInv /\ [Next]_vars => [\A i \in Index : Gone(i) => Accounted(i)]_vars
  BY NextIInv
<1> QED BY <1>1, Inductive, PTL DEF Spec, NoneDropped

=============================================================================
