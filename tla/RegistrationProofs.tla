------------------------- MODULE RegistrationProofs -------------------------
(***************************************************************************)
(* Proofs about how a device comes onto a network: Registration, for       *)
(* networks, tables and limits of every size, whatever is refused, lost,   *)
(* doubled or overtaken, and before it NetworkFind, for all channels,      *)
(* networks around and PAN ids.                                            *)
(***************************************************************************)
EXTENDS Registration, NetworkFind, FiniteSetTheorems, SequenceTheorems, TLAPS

Node == Esis \cup {TrustCenter}
AnswerSet == [kind : Kinds, from : Node]
Endpoint == {None} \cup [node : Node, of : Nat]
Esi == [node : Node, eui64 : Node \cup {None}]

Device ==
  [state : States \ {"failed"}, errors : Nat, event : BOOLEAN,
   tcEndpoint : Endpoint,
   esis : Seq(Esi), i : Nat, b : 0 .. Bindings,
   resuming : BOOLEAN, valid : BOOLEAN,
   finding : {None, "match", "address"}, unicast : BOOLEAN,
   ke : {None} \cup Nat, target : {None} \cup Node,
   keep : {"initial", "send", "search"}, keepEvent : BOOLEAN, waiting : BOOLEAN,
   failures : 0 .. FailureLimit,
   sent : SUBSET AnswerSet, tc : Nat, authorized : BOOLEAN, tried : BOOLEAN,
   refused : BOOLEAN, reboot : {"no", "late", "early"}]

\* The index into the ESI table, where a step uses it.
Index(s) ==
  /\ s.i <= Len(s.esis) /\ Len(s.esis) <= EsiTableSize
  /\ s.state \in {"findAddresses", "bind"} => s.i < Len(s.esis)
  /\ s.state = "partnerKeys" => Len(s.esis) > 0 /\ (s.target # None => s.i < Len(s.esis))

\* A broadcast query that is not over has the table searched anew.
Searching(s) ==
  s.finding # None /\ ~s.unicast =>
    s.state \in {"initial", "findKe", "establish", "findEsis"} /\ s.i = 0

Errors(s) ==
  /\ s.errors <= ErrorLimit + 1
  /\ s.state # "initial" => s.errors < ErrorLimit

\* As NeverStuck has it; a search for ESIs ends with a broadcast query, for an
\* answer to any other is not its end.
Waits(s) ==
  \/ s.state = "initial" \/ s.event
  \/ s.state \in {"findKe", "findAddresses"} /\ s.finding # None
  \/ s.state = "findEsis" /\ s.finding # None /\ ~s.unicast
  \/ s.state = "establish" /\ s.ke # None
  \/ s.state = "partnerKeys" /\ s.target # None

Beyond(s) == s.state \in BeyondKe => s.authorized

\* What holds of a device in a handler, and between two
Within(s) == s \in Device /\ Index(s) /\ Searching(s) /\ Beyond(s)
Between(s) == Within(s) /\ Errors(s) /\ Waits(s)

\* The event comes, or there is nothing to wait for.
Ready(s) == Within(s) /\ Errors(s) /\ (s.state = "initial" \/ s.event)

RegInv == /\ Between(dev) /\ answers \subseteq AnswerSet
          /\ joins \in 0 .. MaxJoins /\ faults \in 0 .. MaxFaults

-----------------------------------------------------------------------------
(* What the calls leave.                                                   *)

\* The keepalive and a reboot leave the registration alone.
Agree(s, t) ==
  /\ t.state = s.state /\ t.errors = s.errors /\ t.event = s.event
  /\ t.esis = s.esis /\ t.i = s.i /\ t.finding = s.finding /\ t.unicast = s.unicast
  /\ t.ke = s.ke /\ t.target = s.target /\ t.authorized = s.authorized

LEMMA Limits ==
  /\ EsiTableSize \in Nat \ {0} /\ ErrorLimit \in Nat \ {0} /\ FailureLimit \in Nat \ {0}
  /\ Bindings \in Nat \ {0} /\ MaxJoins \in Nat /\ MaxFaults \in Nat
  /\ None \notin Node \cup Nat \cup {"match", "address"}
  /\ None \notin Kinds /\ None \notin AnswerSet
  BY RegistrationAssumption DEF RegistrationAssumption, Node, Kinds, AnswerSet

LEMMA ReadyIsBetween ==
  ASSUME NEW s, Ready(s)
  PROVE  Between(s)
  BY DEF Ready, Between, Waits

LEMMA Agrees ==
  ASSUME NEW s, NEW t \in Device, Agree(s, t)
  PROVE  /\ Within(s) => Within(t)
         /\ Between(s) => Between(t)
  BY DEF Agree, Within, Between, Index, Searching, Beyond, Errors, Waits

LEMMA Counted ==
  ASSUME NEW s \in Device, NEW n \in Nat
  PROVE  [s EXCEPT !.errors = n] \in Device
  BY DEF Device

LEMMA Scheduled ==
  ASSUME NEW s \in Device, NEW n \in Nat, NEW e \in BOOLEAN
  PROVE  [s EXCEPT !.errors = n, !.event = e] \in Device
  BY DEF Device

LEMMA Moved ==
  ASSUME NEW s \in Device, NEW next \in States \ {"failed"}, NEW n \in Nat, NEW e \in BOOLEAN
  PROVE  [s EXCEPT !.state = next, !.errors = n, !.event = e] \in Device
  BY DEF Device

LEMMA Asked ==
  ASSUME NEW s \in Device, NEW k \in {None, "match", "address"}, NEW u \in BOOLEAN,
         NEW x \in SUBSET AnswerSet
  PROVE  [s EXCEPT !.finding = k, !.unicast = u, !.sent = x] \in Device
  BY DEF Device

LEMMA CountedFailures ==
  ASSUME NEW s \in Device, NEW n \in 0 .. FailureLimit
  PROVE  [s EXCEPT !.failures = n] \in Device
  BY DEF Device

LEMMA SendsAlive ==
  ASSUME NEW s \in Device, NEW c \in Luck
  PROVE  SendKeepaliveSignal(s, c) \in Device /\ Agree(s, SendKeepaliveSignal(s, c))
<1>1. AnswersOf("alive", {TrustCenter}) \subseteq AnswerSet
  BY DEF AnswersOf, AnswerSet, Kinds, Node
<1> DEFINE x == IF c # "down" THEN s.sent \cup AnswersOf("alive", {TrustCenter}) ELSE s.sent
           y == c # "down"
<1>2. x \in SUBSET AnswerSet /\ y \in BOOLEAN
  BY <1>1 DEF Device
<1>3. SendKeepaliveSignal(s, c) =
        [s EXCEPT !.keep = "send", !.waiting = y, !.keepEvent = TRUE, !.sent = x]
  BY DEF SendKeepaliveSignal
<1> HIDE DEF x, y
<1>4. SendKeepaliveSignal(s, c) \in Device
  BY <1>2, <1>3 DEF Device
<1>5. Agree(s, SendKeepaliveSignal(s, c))
  BY <1>2, <1>3 DEF Device, Agree
<1> QED
  BY <1>4, <1>5

LEMMA Updates ==
  ASSUME NEW s \in Device, NEW c \in Luck
  PROVE  KeepaliveUpdate(s, c) \in Device /\ Agree(s, KeepaliveUpdate(s, c))
<1>1. CASE s.keep = "initial"
  <2> DEFINE t == [s EXCEPT !.failures = 0]
  <2>1. t \in Device
    <3>1. 0 \in 0 .. FailureLimit
      BY Limits
    <3> QED
      BY <3>1, CountedFailures
  <2>2. Agree(s, t)
    BY DEF Device, Agree
  <2>3. KeepaliveUpdate(s, c) = SendKeepaliveSignal(t, c)
    BY <1>1 DEF KeepaliveUpdate
  <2> HIDE DEF t
  <2> QED
    BY <2>1, <2>2, <2>3, SendsAlive DEF Agree
<1>2. CASE s.keep = "send"
  BY <1>2 DEF KeepaliveUpdate, Agree
<1>3. CASE s.keep \notin {"initial", "send"} /\ (s.authorized \/ c = "keyless")
  <2>1. KeepaliveUpdate(s, c) = [s EXCEPT !.keep = "send", !.keepEvent = TRUE]
    BY <1>3 DEF KeepaliveUpdate
  <2>2. KeepaliveUpdate(s, c) \in Device
    BY <2>1 DEF Device
  <2>3. Agree(s, KeepaliveUpdate(s, c))
    BY <2>1 DEF Device, Agree
  <2> QED
    BY <2>2, <2>3
<1>4. CASE s.keep \notin {"initial", "send"} /\ ~(s.authorized \/ c = "keyless")
  <2> DEFINE r == IF s.tried \/ s.tc = 0 THEN "late" ELSE "early"
  <2>1. KeepaliveUpdate(s, c) = [s EXCEPT !.reboot = r]
    BY <1>4 DEF KeepaliveUpdate
  <2>2. r \in {"late", "early"}
    OBVIOUS
  <2> HIDE DEF r
  <2>3. KeepaliveUpdate(s, c) \in Device
    BY <2>1, <2>2 DEF Device
  <2>4. Agree(s, KeepaliveUpdate(s, c))
    BY <2>1 DEF Device, Agree
  <2> QED
    BY <2>3, <2>4
<1> QED
  BY <1>1, <1>2, <1>3, <1>4

\* An abort leaves the table and the query that is under way.
Ended(s, t) ==
  /\ t.state = "initial" /\ t.errors = s.errors
  /\ t.esis = s.esis /\ t.i = s.i /\ t.finding = s.finding /\ t.unicast = s.unicast

LEMMA Ends ==
  ASSUME NEW s \in Device, NEW t \in Device, Ended(s, t), Index(s), Searching(s),
         s.errors <= ErrorLimit + 1
  PROVE  Ready(t)
  BY DEF Ended, Within, Ready, Index, Searching, Beyond, BeyondKe, Errors

LEMMA Aborts ==
  ASSUME NEW s \in Device, NEW c \in Luck
  PROVE  Abort(s, c) \in Device /\ Ended(s, Abort(s, c))
<1> DEFINE r == [s EXCEPT !.event = FALSE]
           t == KeepaliveUpdate(r, c)
<1>1. r \in Device
  BY DEF Device
<1>2. r.errors = s.errors /\ r.esis = s.esis /\ r.i = s.i /\ r.finding = s.finding
      /\ r.unicast = s.unicast
  BY DEF Device
<1>3. Abort(s, c) = [t EXCEPT !.state = "initial"]
  BY DEF Abort, Stop
<1> HIDE DEF r
<1>4. t \in Device /\ Agree(r, t)
  BY <1>1, Updates
<1> HIDE DEF t
<1>5. Abort(s, c) \in Device
  BY <1>3, <1>4 DEF Device, States
<1>6. Ended(s, Abort(s, c))
  BY <1>2, <1>3, <1>4 DEF Device, Agree, Ended
<1> QED
  BY <1>5, <1>6

LEMMA Resumes ==
  ASSUME NEW s, Within(s)
  PROVE  Ready(Resume(s))
<1> DEFINE t == Resume(s)
<1>1. t = [s EXCEPT !.errors = 0, !.event = TRUE]
  BY DEF Resume
<1>2. t \in Device
  <2>1. s \in Device /\ 0 \in Nat /\ TRUE \in BOOLEAN
    BY DEF Within
  <2>2. [s EXCEPT !.errors = 0, !.event = TRUE] \in Device
    BY <2>1, Scheduled
  <2> QED
    BY <1>1, <2>2
<1>3. /\ t.errors = 0 /\ t.event = TRUE /\ t.state = s.state /\ t.esis = s.esis /\ t.i = s.i
      /\ t.finding = s.finding /\ t.unicast = s.unicast /\ t.target = s.target
      /\ t.authorized = s.authorized
  BY <1>1 DEF Within, Device
<1> HIDE DEF t
<1>4. Errors(t)
  BY <1>3, Limits DEF Errors
<1> QED
  <2>1. Index(t)
    BY <1>3 DEF Within, Index
  <2>2. Searching(t)
    BY <1>3 DEF Within, Searching
  <2>3. Beyond(t)
    BY <1>3 DEF Within, Beyond
  <2>4. Ready(t)
    BY <1>2, <1>3, <1>4, <2>1, <2>2, <2>3 DEF Ready, Within
  <2> QED
    BY <2>4 DEF t

\* A transition needs the table to be what the next state takes it for.
LEMMA Transitions ==
  ASSUME NEW s \in Device, NEW next \in States \ {"failed"},
         s.i <= Len(s.esis), Len(s.esis) <= EsiTableSize,
         next \in {"findAddresses", "bind"} => s.i < Len(s.esis),
         next = "partnerKeys" =>
           Len(s.esis) > 0 /\ (s.target # None => s.i < Len(s.esis)),
         s.finding # None /\ ~s.unicast =>
           next \in {"findKe", "establish", "findEsis"} /\ s.i = 0,
         next \in BeyondKe => s.authorized
  PROVE  Ready(Transition(s, next))
<1> DEFINE t == Transition(s, next)
<1>1. t = [s EXCEPT !.state = next, !.errors = 0, !.event = TRUE]
  BY DEF Transition
<1>2. t \in Device
  <2>1. [s EXCEPT !.state = next, !.errors = 0, !.event = TRUE] \in Device
    BY Moved
  <2> QED
    BY <1>1, <2>1
<1>3. /\ t.errors = 0 /\ t.event = TRUE /\ t.state = next /\ t.esis = s.esis /\ t.i = s.i
      /\ t.finding = s.finding /\ t.unicast = s.unicast /\ t.target = s.target
      /\ t.authorized = s.authorized
  BY <1>1 DEF Device
<1> HIDE DEF t
<1>4. Errors(t)
  BY <1>3, Limits DEF Errors
<1> QED
  <2>1. Index(t)
    BY <1>3 DEF Within, Index
  <2>2. Searching(t)
    BY <1>3 DEF Within, Searching
  <2>3. Beyond(t)
    BY <1>3 DEF Within, Beyond
  <2>4. Ready(t)
    BY <1>2, <1>3, <1>4, <2>1, <2>2, <2>3 DEF Ready, Within
  <2> QED
    BY <2>4 DEF t

\* An error has the event come again, or ends the registration.
LEMMA Fails ==
  ASSUME NEW s, Within(s), NEW c \in Luck, s.errors <= ErrorLimit
  PROVE  /\ Ready(Error(s, c))
         /\ Error(s, c).errors = s.errors + 1
<1> DEFINE t == [s EXCEPT !.errors = @ + 1]
           u == [t EXCEPT !.tried = TRUE]
           v == [t EXCEPT !.event = TRUE]
<1>1. s \in Device /\ s.errors \in Nat
  BY DEF Within, Device
<1>2. u \in Device /\ v \in Device
  <2>1. t \in Device
    <3>1. s.errors + 1 \in Nat
      BY <1>1
    <3>2. [s EXCEPT !.errors = s.errors + 1] \in Device
      BY <1>1, <3>1, Counted
    <3> QED
      BY <3>2
  <2> HIDE DEF t
  <2>2. u \in Device
    BY <2>1 DEF Device
  <2>3. v \in Device
    BY <2>1 DEF Device
  <2> QED
    BY <2>2, <2>3
<1>3. /\ u.errors = s.errors + 1 /\ u.state = s.state /\ u.esis = s.esis /\ u.i = s.i
      /\ u.finding = s.finding /\ u.unicast = s.unicast /\ u.target = s.target
  BY <1>1 DEF Device
<1>4. /\ v.errors = s.errors + 1 /\ v.state = s.state /\ v.esis = s.esis /\ v.i = s.i
      /\ v.finding = s.finding /\ v.unicast = s.unicast /\ v.target = s.target
      /\ v.authorized = s.authorized /\ v.event
  BY <1>1 DEF Device
<1>5. Error(s, c) = IF AtLimit(s) THEN Abort(u, c) ELSE v
  BY DEF Error
<1> HIDE DEF t, u, v
<1>6. CASE AtLimit(s)
  <2>1. Abort(u, c) \in Device /\ Ended(u, Abort(u, c))
    BY <1>2, Aborts
  <2>2. Index(u) /\ Searching(u) /\ u.errors <= ErrorLimit + 1
    BY <1>1, <1>3, Limits DEF Within, Index, Searching
  <2>3. Ready(Abort(u, c))
    BY <1>2, <2>1, <2>2, Ends
  <2> QED
    BY <1>3, <1>5, <1>6, <2>1, <2>3 DEF Ended
<1>7. CASE ~AtLimit(s)
  <2>1. v.errors < ErrorLimit /\ v.errors <= ErrorLimit + 1
    BY <1>1, <1>4, <1>7, Limits DEF AtLimit
  <2>2. Ready(v)
    BY <1>2, <1>4, <2>1 DEF Ready, Within, Index, Searching, Beyond, Errors
  <2> QED
    BY <1>4, <1>5, <1>7, <2>2
<1> QED
  BY <1>6, <1>7

LEMMA Starts ==
  ASSUME NEW s, NEW c \in Luck, Within(s), s.state # "initial" => Between(s)
  PROVE  Between(Start(s, c))
<1>1. CASE s.state = "complete"
  <2>1. Start(s, c) = KeepaliveUpdate(s, c) /\ Between(s)
    BY <1>1 DEF Start
  <2> QED
    BY <2>1, Updates, Agrees DEF Within
<1>2. CASE s.state = "initial"
  <2>1. Start(s, c) = Transition(s, "findKe")
    BY <1>2 DEF Start
  <2>2. "findKe" \in States \ {"failed"}
    BY DEF States
  <2>3. s \in Device /\ s.i <= Len(s.esis) /\ Len(s.esis) <= EsiTableSize
    BY DEF Within, Index
  <2>4. s.finding # None /\ ~s.unicast => s.i = 0
    BY DEF Within, Searching
  <2>5. Ready(Transition(s, "findKe"))
    BY <2>2, <2>3, <2>4, Transitions DEF BeyondKe
  <2> QED
    BY <2>1, <2>5, ReadyIsBetween
<1>3. CASE s.state \notin {"initial", "complete"}
  BY <1>3 DEF Start
<1> QED
  BY <1>1, <1>2, <1>3

-----------------------------------------------------------------------------
(* Service discovery.                                                      *)

LEMMA Finds ==
  ASSUME NEW s, Within(s), s.errors < ErrorLimit, NEW c \in Luck,
         NEW kind \in {"match", "address"}, NEW nodes, nodes \subseteq Node,
         NEW unicast \in BOOLEAN,
         s.state \in {"findKe", "findEsis", "findAddresses"},
         unicast <=> s.state # "findEsis", s.state = "findEsis" => s.i = 0
  PROVE  Between(Find(s, kind, nodes, unicast, c))
<1>0. s \in Device /\ s.errors \in Nat
  BY DEF Within, Device
<1>1. CASE s.finding = None /\ c = "ok"
  <2> DEFINE x == s.sent \cup AnswersOf(kind, nodes)
             t == [s EXCEPT !.finding = kind, !.unicast = unicast, !.sent = x]
  <2>1. Find(s, kind, nodes, unicast, c) = t
    BY <1>1 DEF Find
  <2>2. x \in SUBSET AnswerSet
    <3>1. AnswersOf(kind, nodes) \subseteq AnswerSet
      BY DEF AnswersOf, AnswerSet, Kinds
    <3>2. s.sent \subseteq AnswerSet
      BY <1>0 DEF Device
    <3> QED
      BY <3>1, <3>2
  <2> HIDE DEF x
  <2>3. t \in Device
    <3>1. kind \in {None, "match", "address"}
      OBVIOUS
    <3>2. [s EXCEPT !.finding = kind, !.unicast = unicast, !.sent = x] \in Device
      BY <1>0, <2>2, <3>1, Asked
    <3> QED
      BY <3>2
  <2>4. /\ t.errors = s.errors /\ t.state = s.state /\ t.esis = s.esis /\ t.i = s.i
        /\ t.finding = kind /\ t.unicast = unicast /\ t.target = s.target
        /\ t.authorized = s.authorized
    BY <1>0 DEF Device
  <2> HIDE DEF t
  <2>5. Index(t) /\ Beyond(t)
    BY <2>4 DEF Within, Index, Beyond
  <2>6. Searching(t)
    BY <2>4 DEF Searching
  <2>7. Waits(t)
    <3>1. kind # None
      BY Limits
    <3> QED
      BY <3>1, <2>4 DEF Waits
  <2>8. Errors(t)
    BY <1>0, <2>4, Limits DEF Errors
  <2> QED
    BY <2>1, <2>3, <2>5, <2>6, <2>7, <2>8 DEF Between, Within
<1>2. CASE ~(s.finding = None /\ c = "ok")
  <2>1. Find(s, kind, nodes, unicast, c) = Error(s, c)
    BY <1>2 DEF Find
  <2>2. s.errors <= ErrorLimit
    BY <1>0, Limits
  <2> QED
    BY <2>1, <2>2, Fails, ReadyIsBetween
<1> QED
  BY <1>1, <1>2

LEMMA Records ==
  ASSUME NEW s, Between(s), NEW m \in AnswerSet
  PROVE  /\ Between(Record(s, m))
         /\ Record(s, m).state = s.state /\ Record(s, m).finding = s.finding
         /\ Record(s, m).unicast = s.unicast
<1>0. s \in Device /\ m.from \in Node
  BY DEF Between, Within, AnswerSet
<1>1. CASE s.finding = "match" /\ s.state = "findKe"
  <2> DEFINE x == IF s.tcEndpoint = None THEN [node |-> m.from, of |-> s.tc] ELSE s.tcEndpoint
             t == [s EXCEPT !.tcEndpoint = x]
  <2>1. Record(s, m) = t
    BY <1>1 DEF Record
  <2>2. x \in Endpoint
    BY <1>0 DEF Device, Endpoint
  <2> HIDE DEF x
  <2>3. t \in Device
    BY <1>0, <2>2 DEF Device
  <2>4. Agree(s, t)
    BY <1>0 DEF Device, Agree
  <2> HIDE DEF t
  <2> QED
    BY <2>1, <2>3, <2>4, Agrees DEF Agree
<1>2. CASE s.finding = "match" /\ s.state = "findEsis" /\ Len(s.esis) < EsiTableSize
  <2> DEFINE x == Append(s.esis, [node |-> m.from, eui64 |-> None])
             t == [s EXCEPT !.esis = x]
  <2>1. Record(s, m) = t
    BY <1>2 DEF Record
  <2>2. x \in Seq(Esi) /\ Len(x) = Len(s.esis) + 1 /\ Len(s.esis) \in Nat
    <3>1. s.esis \in Seq(Esi) /\ [node |-> m.from, eui64 |-> None] \in Esi
      BY <1>0 DEF Device, Esi
    <3> QED
      BY <3>1, AppendProperties, LenProperties
  <2> HIDE DEF x
  <2>3. t \in Device
    BY <1>0, <2>2 DEF Device
  <2>4. /\ t.errors = s.errors /\ t.state = s.state /\ t.esis = x /\ t.i = s.i
        /\ t.finding = s.finding /\ t.unicast = s.unicast /\ t.target = s.target
        /\ t.authorized = s.authorized /\ t.event = s.event /\ t.ke = s.ke
    BY <1>0 DEF Device
  <2> HIDE DEF t
  <2>5. Index(t)
    <3>1. s.i <= Len(s.esis) /\ s.i \in Nat
      BY <1>0 DEF Between, Within, Index, Device
    <3> QED
      BY <3>1, <2>2, <2>4, <1>2, Limits DEF Index
  <2>6. Searching(t) /\ Beyond(t)
    BY <2>4 DEF Between, Within, Searching, Beyond
  <2>7. Waits(t) /\ Errors(t)
    BY <2>4 DEF Between, Waits, Errors
  <2> QED
    BY <2>1, <2>3, <2>4, <2>5, <2>6, <2>7 DEF Between, Within
<1>3. CASE Record(s, m) = s
  BY <1>3
<1> QED
  BY <1>1, <1>2, <1>3 DEF Record

LEMMA KeFound ==
  ASSUME NEW s, Within(s), s.errors < ErrorLimit, s.state = "findKe", NEW c \in Luck
  PROVE  Ready(FoundKe(s, c))
<1>0. s \in Device /\ s.errors \in Nat /\ Index(s) /\ Searching(s) /\ s.errors <= ErrorLimit + 1
  BY Limits DEF Within, Device
<1>1. CASE s.tcEndpoint = None
  <2>1. s.errors <= ErrorLimit
    BY <1>0, Limits
  <2> QED
    BY <1>1, <2>1, Fails DEF FoundKe
<1>2. CASE s.tcEndpoint # None /\ c \in {"refused", "keyless"}
  <2>1. FoundKe(s, c) = Abort(s, c)
    BY <1>2 DEF FoundKe
  <2>2. Abort(s, c) \in Device /\ Ended(s, Abort(s, c))
    BY <1>0, Aborts
  <2> QED
    BY <1>0, <2>1, <2>2, Ends
<1>3. CASE s.tcEndpoint # None /\ c \notin {"refused", "keyless"}
  <2> DEFINE next == IF s.authorized THEN "findEsis" ELSE "establish"
  <2>1. FoundKe(s, c) = Transition(s, next)
    BY <1>3 DEF FoundKe
  <2>2. /\ next \in States \ {"failed"} /\ next \in {"findEsis", "establish"}
        /\ next \in BeyondKe => s.authorized
    BY DEF States, BeyondKe
  <2> HIDE DEF next
  <2>3. s.i <= Len(s.esis) /\ Len(s.esis) <= EsiTableSize
    BY <1>0 DEF Index
  <2>4. s.finding # None /\ ~s.unicast => s.i = 0
    BY <1>0 DEF Searching
  <2>5. Ready(Transition(s, next))
    BY <1>0, <2>2, <2>3, <2>4, Transitions
  <2> QED
    BY <2>1, <2>5
<1> QED
  BY <1>1, <1>2, <1>3

LEMMA Placed ==
  ASSUME NEW q \in Seq(Esi), NEW k \in 1 .. Len(q), NEW n \in Node
  PROVE  /\ [q EXCEPT ![k].eui64 = n] \in Seq(Esi)
         /\ Len([q EXCEPT ![k].eui64 = n]) = Len(q)
<1> DEFINE x == [q[k] EXCEPT !.eui64 = n]
<1>1. q[k] \in Esi
  BY ElementOfSeq
<1>2. x \in Esi
  BY <1>1 DEF Esi
<1>3. [q EXCEPT ![k].eui64 = n] = [q EXCEPT ![k] = x]
  OBVIOUS
<1> HIDE DEF x
<1> QED
  BY <1>2, <1>3, ExceptSeq

LEMMA AddressFound ==
  ASSUME NEW s, Within(s), s.state = "findAddresses", NEW m \in AnswerSet
  PROVE  Ready(FoundAddress(s, m))
<1>0. s \in Device /\ s.i \in Nat /\ s.i < Len(s.esis) /\ m.from \in Node
      /\ s.esis \in Seq(Esi) /\ Len(s.esis) <= EsiTableSize
  BY DEF Within, Device, AnswerSet, Index
<1> DEFINE x == [s.esis EXCEPT ![s.i + 1].eui64 = m.from]
           n == s.i + 1
           t == [s EXCEPT !.esis = x, !.i = n]
           u == [t EXCEPT !.i = 0]
<1>1. n \in 1 .. Len(s.esis) /\ n \in Nat /\ Len(s.esis) \in Nat
  BY <1>0, LenProperties
<1>2. x \in Seq(Esi) /\ Len(x) = Len(s.esis)
  BY <1>0, <1>1, Placed
<1>3. FoundAddress(s, m) = IF n = Len(t.esis) THEN Transition(u, "partnerKeys") ELSE Resume(t)
  <2>1. t = [s EXCEPT !.esis[s.i + 1].eui64 = m.from, !.i = @ + 1]
    BY <1>0 DEF Device
  <2>2. t.i = n
    BY <1>0 DEF Device
  <2> QED
    BY <2>1, <2>2 DEF FoundAddress
<1> HIDE DEF x, n
<1>4. t \in Device
  BY <1>0, <1>1, <1>2 DEF Device
<1>5. /\ t.state = s.state /\ t.esis = x /\ t.i = n /\ t.finding = s.finding
      /\ t.unicast = s.unicast /\ t.target = s.target /\ t.authorized = s.authorized
  BY <1>0 DEF Device
<1> HIDE DEF t
<1>6. u \in Device
  <2>1. 0 \in Nat
    OBVIOUS
  <2> QED
    BY <2>1, <1>4 DEF Device
<1>7. /\ u.state = s.state /\ u.esis = x /\ u.i = 0 /\ u.finding = s.finding
      /\ u.unicast = s.unicast /\ u.target = s.target /\ u.authorized = s.authorized
  BY <1>4, <1>5 DEF Device
<1> HIDE DEF u
<1>8. ~(s.finding # None /\ ~s.unicast) /\ s.authorized
  BY DEF Within, Searching, Beyond, BeyondKe
<1>9. CASE n = Len(t.esis)
  <2>1. "partnerKeys" \in States \ {"failed"}
    BY DEF States
  <2>2. u.i <= Len(u.esis) /\ Len(u.esis) <= EsiTableSize /\ Len(u.esis) > 0 /\ u.i < Len(u.esis)
    BY <1>0, <1>1, <1>2, <1>7
  <2>3. ~(u.finding # None /\ ~u.unicast) /\ u.authorized
    BY <1>7, <1>8
  <2>4. Ready(Transition(u, "partnerKeys"))
    BY <1>6, <2>1, <2>2, <2>3, Transitions
  <2> QED
    BY <1>3, <1>9, <2>4
<1>10. CASE n # Len(t.esis)
  <2>1. Index(t)
    BY <1>0, <1>1, <1>2, <1>5, <1>10 DEF Index
  <2>2. Searching(t) /\ Beyond(t)
    BY <1>5, <1>8 DEF Searching, Beyond
  <2>3. Within(t)
    BY <1>4, <2>1, <2>2 DEF Within
  <2> QED
    BY <1>3, <1>10, <2>3, Resumes
<1> QED
  BY <1>9, <1>10

LEMMA Closes ==
  ASSUME NEW s, Ready(s)
  PROVE  Ready([s EXCEPT !.finding = None])
<1> DEFINE t == [s EXCEPT !.finding = None]
<1>1. t \in Device
  BY DEF Ready, Within, Device
<1>2. /\ t.errors = s.errors /\ t.state = s.state /\ t.esis = s.esis /\ t.i = s.i
      /\ t.finding = None /\ t.target = s.target /\ t.authorized = s.authorized
      /\ t.event = s.event
  BY DEF Ready, Within, Device
<1> HIDE DEF t
<1>3. Ready(t)
  BY <1>1, <1>2 DEF Ready, Within, Index, Searching, Beyond, Errors
<1> QED
  BY <1>3 DEF t

LEMMA Discovers ==
  ASSUME NEW s, Between(s), NEW m \in AnswerSet, NEW c \in Luck
  PROVE  Between(Discovered(s, m, c))
<1>1. CASE s.finding # m.kind
  BY <1>1 DEF Discovered
<1>2. CASE s.finding = m.kind
  <2> DEFINE r == Record(s, m)
             t == DiscoveryCallback(r, m, c)
  <2>1. Discovered(s, m, c) = IF s.unicast THEN [t EXCEPT !.finding = None] ELSE t
    BY <1>2 DEF Discovered
  <2>2. Between(r) /\ r.state = s.state /\ r.finding = s.finding /\ r.unicast = s.unicast
    BY Records
  <2>3. s.finding # None /\ m # None /\ r.errors \in Nat
    <3>1. m.kind \in Kinds
      BY DEF AnswerSet
    <3> QED
      BY <1>2, <2>2, <3>1, Limits DEF Between, Within, Device
  <2> HIDE DEF r
  <2>4. CASE s.state = "findKe"
    <3>1. t = FoundKe(r, c)
      BY <2>2, <2>4 DEF DiscoveryCallback
    <3>2. Within(r) /\ r.errors < ErrorLimit /\ r.state = "findKe"
      BY <2>2, <2>4 DEF Between, Errors
    <3>3. Ready(t)
      BY <3>1, <3>2, KeFound
    <3> HIDE DEF t
    <3> QED
      BY <2>1, <3>3, Closes, ReadyIsBetween
  <2>5. CASE s.state = "findAddresses"
    <3>1. s.unicast
      BY <2>3, <2>5 DEF Between, Within, Searching
    <3>2. t = FoundAddress(r, m)
      BY <2>2, <2>3, <2>5, <3>1 DEF DiscoveryCallback
    <3>3. Within(r) /\ r.state = "findAddresses"
      BY <2>2, <2>5 DEF Between
    <3>4. Ready(t)
      BY <3>2, <3>3, AddressFound
    <3> HIDE DEF t
    <3> QED
      BY <2>1, <3>4, Closes, ReadyIsBetween
  <2>6. CASE s.state \notin {"findKe", "findAddresses"}
    <3>1. t = r
      BY <2>2, <2>3, <2>6 DEF DiscoveryCallback
    <3> HIDE DEF t
    <3>2. CASE s.unicast
      <4> DEFINE u == [r EXCEPT !.finding = None]
      <4>1. u \in Device
        BY <2>2 DEF Between, Within, Device
      <4>2. /\ u.errors = r.errors /\ u.state = r.state /\ u.esis = r.esis /\ u.i = r.i
            /\ u.finding = None /\ u.unicast = r.unicast /\ u.target = r.target
            /\ u.authorized = r.authorized /\ u.event = r.event /\ u.ke = r.ke
        BY <2>2 DEF Between, Within, Device
      <4> HIDE DEF u
      <4>3. Within(u) /\ Errors(u)
        BY <2>2, <4>1, <4>2 DEF Between, Within, Index, Searching, Beyond, Errors
      <4>4. Waits(u)
        BY <2>2, <2>6, <3>2, <4>2 DEF Between, Waits
      <4> QED
        BY <2>1, <3>1, <3>2, <4>3, <4>4 DEF Between, u
    <3>3. CASE ~s.unicast
      BY <2>1, <2>2, <3>1, <3>3
    <3> QED
      BY <3>2, <3>3
  <2> QED
    BY <2>4, <2>5, <2>6
<1> QED
  BY <1>1, <1>2

LEMMA Completes ==
  ASSUME NEW s, Between(s), s.finding # None, NEW c \in Luck
  PROVE  Between(DiscoveryComplete(s, c))
<1> DEFINE r == [s EXCEPT !.finding = None]
<1>1. r \in Device
  BY DEF Between, Within, Device
<1>2. /\ r.errors = s.errors /\ r.state = s.state /\ r.esis = s.esis /\ r.i = s.i
      /\ r.finding = None /\ r.unicast = s.unicast /\ r.target = s.target
      /\ r.authorized = s.authorized /\ r.event = s.event /\ r.ke = s.ke
  BY DEF Between, Within, Device
<1>3. DiscoveryComplete(s, c) = DiscoveryCallback(r, None, c)
  BY DEF DiscoveryComplete
<1> HIDE DEF r
<1>4. Within(r) /\ Errors(r) /\ r.errors \in Nat
  BY <1>1, <1>2 DEF Between, Within, Index, Searching, Beyond, Errors, Device
<1>5. CASE s.state = "findKe"
  <2>1. DiscoveryCallback(r, None, c) = FoundKe(r, c)
    BY <1>2, <1>5 DEF DiscoveryCallback
  <2>2. r.errors < ErrorLimit /\ r.state = "findKe"
    BY <1>2, <1>4, <1>5 DEF Errors
  <2> QED
    BY <1>3, <1>4, <2>1, <2>2, KeFound, ReadyIsBetween
<1>6. r.state # "initial" => r.errors <= ErrorLimit
  BY <1>4, Limits DEF Errors
<1>7. CASE s.state = "findEsis" /\ ~s.unicast
  <2>1. s.i = 0 /\ s.esis \in Seq(Esi)
    BY <1>7 DEF Between, Within, Searching, Device
  <2>2. CASE s.esis = <<>>
    <3>1. DiscoveryCallback(r, None, c) = Error(r, c)
      BY <1>2, <1>7, <2>2 DEF DiscoveryCallback
    <3> QED
      BY <1>2, <1>3, <1>4, <1>6, <1>7, <3>1, Fails, ReadyIsBetween
  <2>3. CASE s.esis # <<>>
    <3>1. DiscoveryCallback(r, None, c) = Transition(r, "findAddresses")
      BY <1>2, <1>7, <2>3 DEF DiscoveryCallback
    <3>2. "findAddresses" \in States \ {"failed"}
      BY DEF States
    <3>3. r.i < Len(r.esis) /\ r.i <= Len(r.esis) /\ Len(r.esis) <= EsiTableSize
      BY <1>2, <1>4, <2>1, <2>3, EmptySeq, LenProperties DEF Within, Index
    <3>4. r.finding = None /\ r.authorized
      BY <1>2, <1>4, <1>7 DEF Within, Beyond, BeyondKe
    <3>5. Ready(Transition(r, "findAddresses"))
      BY <1>1, <3>2, <3>3, <3>4, Transitions
    <3> QED
      BY <1>3, <3>1, <3>5, ReadyIsBetween
  <2> QED
    BY <2>2, <2>3
<1>8. CASE s.state = "findAddresses"
  <2>1. DiscoveryCallback(r, None, c) = Error(r, c)
    BY <1>2, <1>8 DEF DiscoveryCallback
  <2> QED
    BY <1>2, <1>3, <1>4, <1>6, <1>8, <2>1, Fails, ReadyIsBetween
<1>9. CASE s.state \notin {"findKe", "findAddresses"} /\ ~(s.state = "findEsis" /\ ~s.unicast)
  <2>1. DiscoveryCallback(r, None, c) = r
    BY <1>2, <1>9 DEF DiscoveryCallback
  <2>2. Waits(r)
    BY <1>2, <1>9 DEF Between, Waits
  <2> QED
    BY <1>3, <1>4, <2>1, <2>2 DEF Between
<1> QED
  BY <1>5, <1>7, <1>8, <1>9

-----------------------------------------------------------------------------
(* Key establishment and partner link keys.                                *)

\* The end of a session leaves the device due; without it, it is due if it
\* was.
LEMMA SessionEnds ==
  ASSUME NEW s, Within(s), Errors(s), NEW established \in BOOLEAN, NEW c \in Luck,
         established => s.authorized,
         s.state # "establish" => Between(s)
  PROVE  Between(KeCallback(s, established, c))
<1>0. s \in Device /\ s.errors \in Nat
  BY DEF Within, Device
<1>1. CASE s.state # "establish"
  BY <1>1 DEF KeCallback
<1>2. CASE s.state = "establish" /\ established
  <2>1. KeCallback(s, established, c) = Transition(s, "findEsis")
    BY <1>2 DEF KeCallback
  <2>2. "findEsis" \in States \ {"failed"}
    BY DEF States
  <2>3. s.i <= Len(s.esis) /\ Len(s.esis) <= EsiTableSize /\ s.authorized
    BY <1>2 DEF Within, Index
  <2>4. s.finding # None /\ ~s.unicast => s.i = 0
    BY DEF Within, Searching
  <2>5. Ready(Transition(s, "findEsis"))
    BY <1>0, <2>2, <2>3, <2>4, Transitions
  <2> QED
    BY <2>1, <2>5, ReadyIsBetween
<1>3. CASE s.state = "establish" /\ ~established
  <2>1. KeCallback(s, established, c) = Error(s, c)
    BY <1>3 DEF KeCallback
  <2>2. s.errors <= ErrorLimit
    BY <1>0, <1>3, Limits DEF Errors
  <2> QED
    BY <2>1, <2>2, Fails, ReadyIsBetween
<1> QED
  BY <1>1, <1>2, <1>3

LEMMA Establishes ==
  ASSUME NEW s, Within(s), Errors(s), s.state = "establish", NEW c \in Luck
  PROVE  Between(PerformKeyEstablishment(s, c))
<1>0. s \in Device /\ s.errors \in Nat /\ s.tc \in Nat
  BY DEF Within, Device
<1>1. s.errors <= ErrorLimit /\ s.errors + 1 <= ErrorLimit
  BY <1>0, Limits DEF Errors
<1>2. CASE s.ke # None
  <2>1. PerformKeyEstablishment(s, c) = Error(s, c)
    BY <1>2 DEF PerformKeyEstablishment
  <2> QED
    BY <1>1, <2>1, Fails, ReadyIsBetween
<1>3. CASE s.ke = None /\ c = "ok"
  <2> DEFINE n == s.tc
             t == [s EXCEPT !.ke = n]
  <2>1. PerformKeyEstablishment(s, c) = t
    BY <1>3 DEF PerformKeyEstablishment
  <2>2. n \in {None} \cup Nat /\ n # None
    BY <1>0, Limits
  <2> HIDE DEF n
  <2>3. t \in Device
    BY <1>0, <2>2 DEF Device
  <2>4. /\ t.errors = s.errors /\ t.state = s.state /\ t.esis = s.esis /\ t.i = s.i
        /\ t.finding = s.finding /\ t.unicast = s.unicast /\ t.target = s.target
        /\ t.authorized = s.authorized /\ t.ke = n
    BY <1>0 DEF Device
  <2> HIDE DEF t
  <2>5. Within(t) /\ Errors(t)
    BY <2>3, <2>4 DEF Within, Index, Searching, Beyond, Errors
  <2>6. Waits(t)
    BY <2>2, <2>4 DEF Waits
  <2> QED
    BY <2>1, <2>5, <2>6 DEF Between
<1>4. CASE s.ke = None /\ c # "ok"
  <2> DEFINE t == Error(s, c)
  <2>1. PerformKeyEstablishment(s, c) = Error(t, c)
    BY <1>4 DEF PerformKeyEstablishment, KeCallback
  <2>2. Ready(t) /\ t.errors = s.errors + 1
    BY <1>1, Fails
  <2> HIDE DEF t
  <2>3. Within(t) /\ t.errors <= ErrorLimit
    BY <1>1, <2>2 DEF Ready
  <2> QED
    BY <2>1, <2>3, Fails, ReadyIsBetween
<1> QED
  BY <1>2, <1>3, <1>4

\* The first ESI that is left
LEMMA FirstOf ==
  ASSUME NEW S, S \subseteq Nat, S # {}
  PROVE  (CHOOSE j \in S : \A k \in S : j <= k) \in S
<1> DEFINE Below(i) == {j \in S : j < i}
<1>1. PICK n \in S : n \in Nat
  OBVIOUS
<1> DEFINE F == 0 .. n
           T == {Below(i) : i \in S \cap F}
<1>2. IsFiniteSet(F)
  BY FS_Interval
<1>3. FiniteSubsetsOf(F) = SUBSET F
  BY <1>2, FS_FiniteSubsetsOfFinite
<1>4. T \subseteq FiniteSubsetsOf(F)
  <2>1. ASSUME NEW i \in S \cap F, NEW j \in Below(i)  PROVE j \in F
    <3>1. i \in 0 .. n /\ j \in Nat /\ j < i
      BY <2>1
    <3> QED
      BY <1>1, <3>1
  <2> QED
    BY <1>3, <2>1
<1>5. T # {}
  <2>1. n \in S \cap F
    BY <1>1
  <2> QED
    BY <2>1
<1>6. PICK X \in T : \A Y \in T : ~(<<Y, X>> \in StrictSubsetOrdering(F))
  BY <1>2, <1>4, <1>5, FS_StrictSubsetOrderingWellFounded, WFMin
<1>7. PICK x \in S \cap F : X = Below(x)
  OBVIOUS
<1>8. ASSUME NEW y \in S  PROVE x <= y
  <2>1. SUFFICES ASSUME y < x  PROVE FALSE
    BY <1>8
  <2>2. y \in Below(x) /\ y \notin Below(y)
    BY <2>1
  <2>3. \A j \in S : j < y => j < x
    BY <2>1
  <2>4. Below(y) \subseteq Below(x)
    BY <2>3
  <2>5. y \in S \cap F
    <3>1. x \in 0 .. n /\ y \in Nat
      BY <1>8
    <3> QED
      BY <1>1, <1>8, <2>1, <3>1
  <2>6. Below(x) \in SUBSET F /\ Below(y) \in SUBSET F
    <3>1. Below(x) \in T /\ Below(y) \in T
      BY <2>5
    <3> HIDE DEF Below, T, F
    <3> QED
      BY <1>3, <1>4, <3>1
  <2>7. Below(y) \in T
    BY <2>5
  <2> HIDE DEF Below, T, F
  <2>8. <<Below(y), X>> \in StrictSubsetOrdering(F)
    BY <1>7, <2>2, <2>4, <2>6 DEF StrictSubsetOrdering
  <2> QED
    BY <1>6, <2>7, <2>8
<1> QED
  BY <1>8

LEMMA PartnerAsked ==
  ASSUME NEW s, Within(s), Errors(s), s.state = "partnerKeys", NEW c \in Luck
  PROVE  Between(PerformPartnerLinkKeyExchange(s, c))
<1>0. /\ s \in Device /\ s.errors \in Nat /\ s.i \in Nat /\ s.esis \in Seq(Esi)
      /\ Len(s.esis) \in Nat /\ Len(s.esis) > 0 /\ Len(s.esis) <= EsiTableSize
  BY LenProperties DEF Within, Device, Index
<1>1. ~(s.finding # None /\ ~s.unicast) /\ s.authorized
  BY DEF Within, Searching, Beyond, BeyondKe
<1> DEFINE others == {j \in s.i .. Len(s.esis) - 1 : s.esis[j + 1].node # TrustCenter}
           j == CHOOSE j \in others : \A k \in others : j <= k
           n == s.esis[j + 1].node
           u == [s EXCEPT !.i = 0]
           t == [s EXCEPT !.i = j]
           v == [t EXCEPT !.target = n]
<1>2. PerformPartnerLinkKeyExchange(s, c) =
        IF others = {} THEN Transition(u, "bind")
        ELSE IF s.target = None /\ s.authorized /\ c = "ok" THEN v ELSE Error(t, c)
  BY DEF PerformPartnerLinkKeyExchange
<1>3. others \subseteq Nat /\ \A k \in others : k < Len(s.esis)
  BY <1>0
<1>4. others # {} => j \in others
  BY <1>3, FirstOf
<1>5. others # {} => n \in Node
  <2>1. others # {} => j + 1 \in 1 .. Len(s.esis)
    <3> HIDE DEF j, others
    <3>1. ASSUME others # {}  PROVE j \in Nat /\ j < Len(s.esis)
      <4>1. j \in others
        BY <1>4, <3>1
      <4> QED
        BY <1>3, <4>1
    <3> QED
      BY <1>0, <3>1
  <2> HIDE DEF j
  <2>2. others # {} => s.esis[j + 1] \in Esi
    BY <1>0, <2>1, ElementOfSeq
  <2> QED
    BY <2>2 DEF Esi
<1> HIDE DEF n, j, others
<1>6. CASE others = {}
  <2>1. u \in Device
    <3>1. 0 \in Nat
      OBVIOUS
    <3> QED
      BY <1>0, <3>1 DEF Device
  <2>2. u.esis = s.esis /\ u.i = 0 /\ u.finding = s.finding /\ u.unicast = s.unicast
        /\ u.authorized = s.authorized
    BY <1>0 DEF Device
  <2> HIDE DEF u
  <2>3. "bind" \in States \ {"failed"}
    BY DEF States
  <2>4. /\ u.i <= Len(u.esis) /\ Len(u.esis) <= EsiTableSize /\ u.i < Len(u.esis)
        /\ ~(u.finding # None /\ ~u.unicast) /\ u.authorized
    BY <1>0, <1>1, <2>2
  <2>5. Ready(Transition(u, "bind"))
    BY <2>1, <2>3, <2>4, Transitions
  <2> QED
    BY <1>2, <1>6, <2>5, ReadyIsBetween
<1>7. CASE others # {}
  <2>1. j \in Nat /\ j < Len(s.esis) /\ n \in Node /\ n # None
    BY <1>3, <1>4, <1>5, <1>7, Limits
  <2>2. t \in Device
    BY <1>0, <2>1 DEF Device
  <2>3. /\ t.errors = s.errors /\ t.state = s.state /\ t.esis = s.esis /\ t.i = j
        /\ t.finding = s.finding /\ t.unicast = s.unicast /\ t.authorized = s.authorized
    BY <1>0 DEF Device
  <2> HIDE DEF t
  <2>4. v \in Device
    BY <2>1, <2>2 DEF Device
  <2>5. /\ v.errors = s.errors /\ v.state = s.state /\ v.esis = s.esis /\ v.i = j
        /\ v.finding = s.finding /\ v.unicast = s.unicast /\ v.authorized = s.authorized
        /\ v.target = n
    BY <2>2, <2>3 DEF Device
  <2> HIDE DEF v
  <2>6. Within(t)
    BY <1>0, <1>1, <2>1, <2>2, <2>3 DEF Within, Index, Searching, Beyond
  <2>7. t.errors <= ErrorLimit
    BY <1>0, <2>3, Limits DEF Errors
  <2>8. Between(Error(t, c))
    BY <2>6, <2>7, Fails, ReadyIsBetween
  <2>9. Within(v) /\ Errors(v) /\ Waits(v)
    BY <1>0, <1>1, <2>1, <2>4, <2>5 DEF Within, Index, Searching, Beyond, Errors, Waits
  <2> QED
    BY <1>2, <1>7, <2>8, <2>9 DEF Between
<1> QED
  BY <1>6, <1>7

LEMMA PartnerEnds ==
  ASSUME NEW s, Between(s), s.target # None, NEW success \in BOOLEAN, NEW c \in Luck
  PROVE  Between(PartnerLinkKeyExchangeComplete(s, success, c))
<1>0. s \in Device /\ s.errors \in Nat /\ s.i \in Nat /\ s.esis \in Seq(Esi) /\ Len(s.esis) \in Nat
  BY LenProperties DEF Between, Within, Device
<1> DEFINE t == [s EXCEPT !.target = None]
           n == s.i + 1
           u == [t EXCEPT !.i = n]
<1>1. t \in Device
  BY <1>0 DEF Device
<1>2. /\ t.errors = s.errors /\ t.state = s.state /\ t.esis = s.esis /\ t.i = s.i
      /\ t.finding = s.finding /\ t.unicast = s.unicast /\ t.authorized = s.authorized
      /\ t.target = None /\ t.event = s.event /\ t.ke = s.ke
  BY <1>0 DEF Device
<1>3. PartnerLinkKeyExchangeComplete(s, success, c) =
        IF s.state # "partnerKeys" THEN t ELSE IF success THEN Resume(u) ELSE Error(t, c)
  BY <1>2 DEF PartnerLinkKeyExchangeComplete
<1> HIDE DEF t
<1>4. Within(t) /\ Errors(t)
  BY <1>1, <1>2 DEF Between, Within, Index, Searching, Beyond, Errors
<1>5. CASE s.state # "partnerKeys"
  <2>1. Waits(t)
    BY <1>2, <1>5 DEF Between, Waits
  <2> QED
    BY <1>3, <1>4, <1>5, <2>1 DEF Between
<1>6. CASE s.state = "partnerKeys" /\ success
  <2>1. n \in Nat /\ n <= Len(s.esis) /\ Len(s.esis) > 0 /\ Len(s.esis) <= EsiTableSize
    BY <1>0, <1>6 DEF Between, Within, Index
  <2> HIDE DEF n
  <2>2. u \in Device
    BY <1>1, <2>1 DEF Device
  <2>3. /\ u.state = s.state /\ u.esis = s.esis /\ u.i = n
        /\ u.finding = s.finding /\ u.unicast = s.unicast /\ u.authorized = s.authorized
        /\ u.target = None
    BY <1>1, <1>2 DEF Device
  <2> HIDE DEF u
  <2>4. Within(u)
    BY <1>6, <2>1, <2>2, <2>3 DEF Between, Within, Index, Searching, Beyond
  <2>5. Ready(Resume(u))
    BY <2>4, Resumes
  <2> QED
    BY <1>3, <1>6, <2>5, ReadyIsBetween
<1>7. CASE s.state = "partnerKeys" /\ ~success
  <2>1. t.errors <= ErrorLimit
    BY <1>0, <1>2, <1>4, <1>7, Limits DEF Errors
  <2> QED
    BY <1>3, <1>4, <1>7, <2>1, Fails, ReadyIsBetween
<1> QED
  BY <1>5, <1>6, <1>7

-----------------------------------------------------------------------------
(* Binding and time.                                                       *)

LEMMA Binds ==
  ASSUME NEW s, Within(s), Errors(s), s.state = "bind", NEW c \in Luck
  PROVE  Between(PerformBinding(s, c))
<1>0. /\ s \in Device /\ s.errors \in Nat /\ s.i \in Nat /\ s.b \in 0 .. Bindings
      /\ s.esis \in Seq(Esi) /\ Len(s.esis) \in Nat /\ s.i < Len(s.esis)
      /\ Len(s.esis) <= EsiTableSize /\ Bindings \in Nat \ {0}
      /\ s.errors <= ErrorLimit
  BY LenProperties, Limits DEF Within, Device, Index, Errors
<1>1. ~(s.finding # None /\ ~s.unicast) /\ s.authorized
  BY DEF Within, Searching, Beyond, BeyondKe
<1> DEFINE n == IF s.b = Bindings THEN s.i + 1 ELSE s.i
           b == IF s.b = Bindings THEN 0 ELSE s.b
           t == [s EXCEPT !.i = n, !.b = b]
           u == [t EXCEPT !.i = 0]
           m == b + 1
           v == [t EXCEPT !.b = m]
           w == [t EXCEPT !.b = 0]
<1>2. t = IF s.b = Bindings THEN [s EXCEPT !.i = @ + 1, !.b = 0] ELSE s
  <2>1. CASE s.b = Bindings
    BY <1>0, <2>1
  <2>2. CASE s.b # Bindings
    BY <1>0, <2>2 DEF Device
  <2> QED
    BY <2>1, <2>2
<1>3. t.b = b /\ t.i = n
  BY <1>0 DEF Device
<1>4. PerformBinding(s, c) =
        IF t.i >= Len(t.esis) THEN Transition(u, "timeSource")
        ELSE IF c = "ok" THEN Resume(v)
        ELSE IF AtLimit(t) THEN Error(w, c) ELSE Error(t, c)
  <2>1. v = [t EXCEPT !.b = @ + 1]
    BY <1>0, <1>3 DEF Device
  <2> HIDE DEF t, u, v, w
  <2>2. \A x : x = t =>
          (LET y == x IN
           IF y.i >= Len(y.esis) THEN Transition([y EXCEPT !.i = 0], "timeSource")
           ELSE IF c = "ok" THEN Resume([y EXCEPT !.b = @ + 1])
           ELSE IF AtLimit(y) THEN Error([y EXCEPT !.b = 0], c) ELSE Error(y, c))
          = IF t.i >= Len(t.esis) THEN Transition(u, "timeSource")
            ELSE IF c = "ok" THEN Resume(v)
            ELSE IF AtLimit(t) THEN Error(w, c) ELSE Error(t, c)
    BY <2>1 DEF u, w
  <2> QED
    BY <1>2, <2>2 DEF PerformBinding
<1>5. n \in Nat /\ n <= Len(s.esis) /\ b \in 0 .. Bindings /\ m \in 0 .. Bindings
  BY <1>0
<1> HIDE DEF n, b, m
<1>6. t \in Device
  BY <1>0, <1>5 DEF Device
<1>7. /\ t.errors = s.errors /\ t.state = s.state /\ t.esis = s.esis /\ t.i = n
      /\ t.finding = s.finding /\ t.unicast = s.unicast /\ t.authorized = s.authorized
      /\ t.target = s.target
  BY <1>0 DEF Device
<1> HIDE DEF t
<1>8. CASE t.i >= Len(t.esis)
  <2>1. u \in Device
    <3>1. 0 \in Nat
      OBVIOUS
    <3> QED
      BY <1>6, <3>1 DEF Device
  <2>2. u.esis = s.esis /\ u.i = 0 /\ u.finding = s.finding /\ u.unicast = s.unicast
        /\ u.authorized = s.authorized
    BY <1>6, <1>7 DEF Device
  <2> HIDE DEF u
  <2>3. "timeSource" \in States \ {"failed"}
    BY DEF States
  <2>4. /\ u.i <= Len(u.esis) /\ Len(u.esis) <= EsiTableSize
        /\ ~(u.finding # None /\ ~u.unicast) /\ u.authorized
    BY <1>0, <1>1, <2>2
  <2>5. Ready(Transition(u, "timeSource"))
    BY <2>1, <2>3, <2>4, Transitions
  <2> QED
    BY <1>4, <1>8, <2>5, ReadyIsBetween
<1>9. CASE ~(t.i >= Len(t.esis))
  <2>0. t.i < Len(t.esis)
    BY <1>0, <1>5, <1>7, <1>9
  <2>1. v \in Device
    BY <1>5, <1>6 DEF Device
  <2>2. /\ v.errors = s.errors /\ v.state = s.state /\ v.esis = s.esis /\ v.i = n
        /\ v.finding = s.finding /\ v.unicast = s.unicast /\ v.authorized = s.authorized
        /\ v.target = s.target
    BY <1>6, <1>7 DEF Device
  <2>3. w \in Device
    <3>1. 0 \in 0 .. Bindings
      BY <1>0
    <3> QED
      BY <1>6, <3>1 DEF Device
  <2>4. /\ w.errors = s.errors /\ w.state = s.state /\ w.esis = s.esis /\ w.i = n
        /\ w.finding = s.finding /\ w.unicast = s.unicast /\ w.authorized = s.authorized
        /\ w.target = s.target
    BY <1>6, <1>7 DEF Device
  <2> HIDE DEF u, v, w
  <2>5. Within(t) /\ Within(v) /\ Within(w)
    <3>1. Within(t)
      BY <1>0, <1>1, <1>5, <1>6, <1>7, <2>0 DEF Within, Index, Searching, Beyond
    <3>2. Within(v)
      BY <1>0, <1>1, <1>5, <1>7, <2>0, <2>1, <2>2 DEF Within, Index, Searching, Beyond
    <3>3. Within(w)
      BY <1>0, <1>1, <1>5, <1>7, <2>0, <2>3, <2>4 DEF Within, Index, Searching, Beyond
    <3> QED
      BY <3>1, <3>2, <3>3
  <2>6. Ready(Resume(v)) /\ Ready(Error(w, c)) /\ Ready(Error(t, c))
    BY <1>0, <1>7, <2>4, <2>5, Resumes, Fails
  <2> QED
    BY <1>4, <1>9, <2>6, ReadyIsBetween
<1> QED
  BY <1>8, <1>9

LEMMA TakesTime ==
  ASSUME NEW s, Within(s), Errors(s), s.state = "timeSource", NEW c \in Luck
  PROVE  Between(DetermineTimeSource(s, c))
<1> DEFINE r == [s EXCEPT !.valid = FALSE]
           t == IF s.resuming THEN s ELSE r
           a == ~AtLimit(t)
           f == [t EXCEPT !.resuming = a]
           n == t.i + 1
           x == t.sent \cup AnswersOf("time", {t.esis[t.i + 1].node})
           u == [t EXCEPT !.i = n, !.resuming = TRUE, !.sent = x]
           v == [t EXCEPT !.i = 0]
<1>0. s \in Device
  BY DEF Within
<1>1. t \in Device
  <2>1. r \in Device
    BY <1>0 DEF Device
  <2> QED
    BY <1>0, <2>1
<1>2. /\ t.errors = s.errors /\ t.state = s.state /\ t.esis = s.esis /\ t.i = s.i
      /\ t.finding = s.finding /\ t.unicast = s.unicast /\ t.authorized = s.authorized
      /\ t.target = s.target
  <2>1. /\ r.errors = s.errors /\ r.state = s.state /\ r.esis = s.esis /\ r.i = s.i
        /\ r.finding = s.finding /\ r.unicast = s.unicast /\ r.authorized = s.authorized
        /\ r.target = s.target
    BY <1>0 DEF Device
  <2>2. t = IF s.resuming THEN s ELSE r
    OBVIOUS
  <2> HIDE DEF t, r
  <2> QED
    BY <2>1, <2>2
<1>3. DetermineTimeSource(s, c) =
        IF t.i < Len(t.esis)
        THEN IF c = "ok" THEN Resume(u) ELSE Error(f, c)
        ELSE IF t.valid THEN Transition(v, "complete") ELSE Error(f, c)
  <2>1. DetermineTimeSource(s, c) =
          IF t.i < Len(t.esis)
          THEN IF c = "ok"
               THEN Resume([t EXCEPT !.i = @ + 1, !.resuming = TRUE,
                      !.sent = @ \cup AnswersOf("time", {t.esis[t.i + 1].node})])
               ELSE Error(f, c)
          ELSE IF t.valid THEN Transition(v, "complete") ELSE Error(f, c)
    BY DEF DetermineTimeSource
  <2> HIDE DEF t
  <2>2. u = [t EXCEPT !.i = @ + 1, !.resuming = TRUE,
                      !.sent = @ \cup AnswersOf("time", {t.esis[t.i + 1].node})]
    BY <1>1 DEF Device
  <2> QED
    BY <2>1, <2>2
<1> HIDE DEF t
<1>4. /\ t.errors \in Nat /\ t.i \in Nat /\ t.esis \in Seq(Esi) /\ Len(t.esis) \in Nat
      /\ t.i <= Len(t.esis) /\ Len(t.esis) <= EsiTableSize
      /\ t.errors <= ErrorLimit
  BY <1>1, <1>2, LenProperties, Limits DEF Within, Device, Index, Errors
<1>5. ~(t.finding # None /\ ~t.unicast) /\ t.authorized
  BY <1>2 DEF Within, Searching, Beyond, BeyondKe
<1>6. Ready(Error(f, c))
  <2>1. a \in BOOLEAN
    OBVIOUS
  <2> HIDE DEF a
  <2>2. f \in Device
    BY <1>1, <2>1 DEF Device
  <2>3. /\ f.errors = t.errors /\ f.state = t.state /\ f.esis = t.esis /\ f.i = t.i
        /\ f.finding = t.finding /\ f.unicast = t.unicast /\ f.authorized = t.authorized
        /\ f.target = t.target
    BY <1>1 DEF Device
  <2> HIDE DEF f
  <2>4. Within(f)
    BY <1>2, <1>4, <1>5, <2>2, <2>3 DEF Within, Index, Searching, Beyond
  <2> QED
    BY <1>4, <2>3, <2>4, Fails
<1>7. CASE t.i < Len(t.esis)
  <2>1. x \in SUBSET AnswerSet
    <3>1. t.i + 1 \in 1 .. Len(t.esis)
      BY <1>4, <1>7
    <3>2. t.esis[t.i + 1] \in Esi
      BY <1>4, <3>1, ElementOfSeq
    <3>3. AnswersOf("time", {t.esis[t.i + 1].node}) \subseteq AnswerSet
      BY <3>2 DEF Esi, AnswersOf, AnswerSet, Kinds
    <3>4. t.sent \subseteq AnswerSet
      BY <1>1 DEF Device
    <3> QED
      BY <3>3, <3>4
  <2>2. n \in Nat /\ n <= Len(t.esis)
    BY <1>4, <1>7
  <2> HIDE DEF x, n
  <2>3. u \in Device
    BY <1>1, <2>1, <2>2 DEF Device
  <2>4. /\ u.errors = t.errors /\ u.state = t.state /\ u.esis = t.esis /\ u.i = n
        /\ u.finding = t.finding /\ u.unicast = t.unicast /\ u.authorized = t.authorized
        /\ u.target = t.target
    BY <1>1 DEF Device
  <2> HIDE DEF u
  <2>5. Within(u)
    BY <1>2, <1>4, <1>5, <2>2, <2>3, <2>4 DEF Within, Index, Searching, Beyond
  <2>6. Ready(Resume(u))
    BY <2>5, Resumes
  <2> QED
    BY <1>3, <1>6, <1>7, <2>6, ReadyIsBetween
<1>8. CASE ~(t.i < Len(t.esis))
  <2>1. v \in Device
    <3>1. 0 \in Nat
      OBVIOUS
    <3> QED
      BY <1>1, <3>1 DEF Device
  <2>2. v.esis = t.esis /\ v.i = 0 /\ v.finding = t.finding /\ v.unicast = t.unicast
        /\ v.authorized = t.authorized
    BY <1>1 DEF Device
  <2> HIDE DEF v
  <2>3. "complete" \in States \ {"failed"}
    BY DEF States
  <2>4. /\ v.i <= Len(v.esis) /\ Len(v.esis) <= EsiTableSize
        /\ ~(v.finding # None /\ ~v.unicast) /\ v.authorized
    BY <1>4, <1>5, <2>2
  <2>5. Ready(Transition(v, "complete"))
    BY <2>1, <2>3, <2>4, Transitions
  <2> QED
    BY <1>3, <1>6, <1>8, <2>5, ReadyIsBetween
<1> QED
  BY <1>7, <1>8

\* Its own timer has the registration do what its state asks for.
LEMMA Ticks ==
  ASSUME NEW s, Between(s), NEW c \in Luck
  PROVE  Between(RegistrationTick(s, c))
<1> DEFINE t == [s EXCEPT !.event = FALSE]
<1>0. s \in Device /\ s.errors \in Nat /\ s.state \in States \ {"failed"}
  BY DEF Between, Within, Device
<1>1. t \in Device
  BY <1>0 DEF Device
<1>2. /\ t.errors = s.errors /\ t.state = s.state /\ t.esis = s.esis /\ t.i = s.i
      /\ t.finding = s.finding /\ t.unicast = s.unicast /\ t.authorized = s.authorized
      /\ t.target = s.target
  BY <1>0 DEF Device
<1>3. RegistrationTick(s, c) =
        CASE s.state = "initial" -> Start(t, c)
          [] s.state = "findKe" -> Find([t EXCEPT !.tcEndpoint = None],
                                        "match", {TrustCenter}, TRUE, c)
          [] s.state = "establish" -> PerformKeyEstablishment(t, c)
          [] s.state = "findEsis" -> Find([t EXCEPT !.esis = <<>>, !.i = 0],
                                          "match", Esis, FALSE, c)
          [] s.state = "findAddresses" ->
               Find(t, "address", {t.esis[t.i + 1].node}, TRUE, c)
          [] s.state = "partnerKeys" -> PerformPartnerLinkKeyExchange(t, c)
          [] s.state = "bind" -> PerformBinding(t, c)
          [] s.state = "timeSource" -> DetermineTimeSource(t, c)
          [] s.state = "complete" -> Stop(t, TRUE, c)
  BY DEF RegistrationTick
<1> HIDE DEF t
<1>4. Within(t) /\ Errors(t)
  BY <1>1, <1>2 DEF Between, Within, Index, Searching, Beyond, Errors
<1>5. CASE s.state = "initial"
  <2>1. RegistrationTick(s, c) = Start(t, c)
    BY <1>3, <1>5
  <2> QED
    BY <1>2, <1>4, <1>5, <2>1, Starts
<1>6. CASE s.state = "findKe"
  <2> DEFINE u == [t EXCEPT !.tcEndpoint = None]
  <2>1. RegistrationTick(s, c) = Find(u, "match", {TrustCenter}, TRUE, c)
    BY <1>3, <1>6
  <2>2. u \in Device
    <3>1. None \in Endpoint
      BY DEF Endpoint
    <3> QED
      BY <1>1, <3>1 DEF Device
  <2>3. Agree(t, u)
    BY <1>1 DEF Agree, Device
  <2> HIDE DEF u
  <2>4. Within(u) /\ u.errors < ErrorLimit /\ u.state = "findKe"
    BY <1>2, <1>4, <1>6, <2>2, <2>3, Agrees DEF Agree, Errors
  <2>5. {TrustCenter} \subseteq Node
    BY DEF Node
  <2>6. Between(Find(u, "match", {TrustCenter}, TRUE, c))
    BY <2>4, <2>5, Finds
  <2> QED
    BY <2>1, <2>6
<1>7. CASE s.state = "establish"
  <2>1. RegistrationTick(s, c) = PerformKeyEstablishment(t, c)
    BY <1>3, <1>7
  <2> QED
    BY <1>2, <1>4, <1>7, <2>1, Establishes
<1>8. CASE s.state = "findEsis"
  <2> DEFINE u == [t EXCEPT !.esis = <<>>, !.i = 0]
  <2>1. RegistrationTick(s, c) = Find(u, "match", Esis, FALSE, c)
    BY <1>3, <1>8
  <2>2. u \in Device
    <3>1. <<>> \in Seq(Esi) /\ 0 \in Nat
      BY EmptySeq
    <3> DEFINE q == <<>>
    <3>2. q \in Seq(Esi)
      BY <3>1
    <3> HIDE DEF q
    <3>3. [t EXCEPT !.esis = q, !.i = 0] \in Device
      BY <1>1, <3>1, <3>2 DEF Device
    <3> QED
      BY <3>3 DEF q
  <2>3. /\ u.errors = t.errors /\ u.state = t.state /\ u.esis = <<>> /\ u.i = 0
        /\ u.finding = t.finding /\ u.unicast = t.unicast /\ u.authorized = t.authorized
    BY <1>1 DEF Device
  <2> HIDE DEF u
  <2>4. Len(u.esis) = 0 /\ u.state = "findEsis"
    BY <1>2, <1>8, <2>3, EmptySeq
  <2>5. Within(u) /\ u.errors < ErrorLimit
    BY <1>4, <2>2, <2>3, <2>4, Limits DEF Within, Index, Searching, Beyond, Errors
  <2>6. Esis \subseteq Node
    BY DEF Node
  <2>7. Between(Find(u, "match", Esis, FALSE, c))
    BY <2>3, <2>4, <2>5, <2>6, Finds
  <2> QED
    BY <2>1, <2>7
<1>9. CASE s.state = "findAddresses"
  <2> DEFINE n == t.esis[t.i + 1].node
  <2>1. RegistrationTick(s, c) = Find(t, "address", {n}, TRUE, c)
    BY <1>3, <1>9
  <2>2. n \in Node
    <3>1. t.i \in Nat /\ t.i < Len(t.esis) /\ t.esis \in Seq(Esi) /\ Len(t.esis) \in Nat
      BY <1>1, <1>2, <1>4, <1>9, LenProperties DEF Within, Index, Device
    <3>2. t.i + 1 \in 1 .. Len(t.esis)
      BY <3>1
    <3>3. t.esis[t.i + 1] \in Esi
      BY <3>1, <3>2, ElementOfSeq
    <3> QED
      BY <3>3 DEF Esi
  <2> HIDE DEF n
  <2>3. {n} \subseteq Node /\ t.errors < ErrorLimit /\ t.state = "findAddresses"
    BY <1>2, <1>4, <1>9, <2>2 DEF Errors
  <2>4. Between(Find(t, "address", {n}, TRUE, c))
    BY <1>4, <2>3, Finds
  <2> QED
    BY <2>1, <2>4
<1>10. CASE s.state = "partnerKeys"
  <2>1. RegistrationTick(s, c) = PerformPartnerLinkKeyExchange(t, c)
    BY <1>3, <1>10
  <2> QED
    BY <1>2, <1>4, <1>10, <2>1, PartnerAsked
<1>11. CASE s.state = "bind"
  <2>1. RegistrationTick(s, c) = PerformBinding(t, c)
    BY <1>3, <1>11
  <2> QED
    BY <1>2, <1>4, <1>11, <2>1, Binds
<1>12. CASE s.state = "timeSource"
  <2>1. RegistrationTick(s, c) = DetermineTimeSource(t, c)
    BY <1>3, <1>12
  <2> QED
    BY <1>2, <1>4, <1>12, <2>1, TakesTime
<1>13. CASE s.state = "complete"
  <2> DEFINE r == KeepaliveUpdate(t, c)
             x == [r EXCEPT !.state = "initial"]
             y == [r EXCEPT !.state = "initial", !.errors = 0, !.event = TRUE]
  <2>1. RegistrationTick(s, c) = IF Rediscovery THEN y ELSE x
    BY <1>3, <1>13 DEF Stop
  <2>2. r \in Device /\ Agree(t, r)
    BY <1>1, Updates
  <2> HIDE DEF r
  <2>3. "initial" \in States \ {"failed"} /\ 0 \in Nat
    BY DEF States
  <2>4. x \in Device
    BY <2>2, <2>3 DEF Device
  <2>5. /\ x.errors = t.errors /\ x.state = "initial" /\ x.esis = t.esis /\ x.i = t.i
        /\ x.finding = t.finding /\ x.unicast = t.unicast
    BY <2>2 DEF Device, Agree
  <2>6. y \in Device
    BY <2>2, <2>3, Moved
  <2>7. /\ y.errors = 0 /\ y.state = "initial" /\ y.esis = t.esis /\ y.i = t.i
        /\ y.finding = t.finding /\ y.unicast = t.unicast
    BY <2>2 DEF Device, Agree
  <2> HIDE DEF x, y
  <2>8. Between(x)
    BY <1>4, <2>4, <2>5 DEF Between, Within, Index, Searching, Beyond, BeyondKe, Errors, Waits
  <2>9. Within(y) /\ Waits(y)
    BY <1>4, <2>6, <2>7 DEF Within, Index, Searching, Beyond, BeyondKe, Waits
  <2>10. Errors(y)
    BY <2>7, Limits DEF Errors
  <2> QED
    BY <2>1, <2>8, <2>9, <2>10 DEF Between
<1> QED
  BY <1>0, <1>5, <1>6, <1>7, <1>8, <1>9, <1>10, <1>11, <1>12, <1>13 DEF States

-----------------------------------------------------------------------------
(* The keepalive, and what a handler leaves.                               *)

LEMMA SearchInitiated ==
  ASSUME NEW s \in Device, NEW c \in Luck
  PROVE  InitiateSearch(s, c) \in Device /\ Agree(s, InitiateSearch(s, c))
<1> DEFINE u == [s EXCEPT !.keep = "search"]
           v == [s EXCEPT !.refused = TRUE]
<1>1. u \in Device
  BY DEF Device
<1>2. v \in Device
  BY DEF Device
<1>3. Agree(s, u)
  BY DEF Device, Agree
<1>4. Agree(s, v)
  BY DEF Device, Agree
<1> QED
  BY <1>1, <1>2, <1>3, <1>4 DEF InitiateSearch

LEMMA TimedOut ==
  ASSUME NEW s \in Device, NEW c \in Luck
  PROVE  MessageTimeout(s, c) \in Device /\ Agree(s, MessageTimeout(s, c))
<1> DEFINE n == IF s.failures < FailureLimit THEN s.failures + 1 ELSE s.failures
           t == [s EXCEPT !.waiting = FALSE, !.failures = n]
           u == [t EXCEPT !.keepEvent = TRUE]
<1>1. n \in 0 .. FailureLimit
  BY Limits DEF Device
<1>2. MessageTimeout(s, c) = IF t.failures >= FailureLimit THEN InitiateSearch(t, c) ELSE u
  BY DEF MessageTimeout, Device
<1> HIDE DEF n
<1>3. t \in Device
  BY <1>1 DEF Device
<1>4. Agree(s, t)
  BY DEF Device, Agree
<1> HIDE DEF t
<1>5. u \in Device
  BY <1>3 DEF Device
<1>6. Agree(t, u)
  BY <1>3 DEF Device, Agree
<1> HIDE DEF u
<1>7. InitiateSearch(t, c) \in Device /\ Agree(t, InitiateSearch(t, c))
  BY <1>3, SearchInitiated
<1> QED
  BY <1>2, <1>4, <1>5, <1>6, <1>7 DEF Agree

LEMMA Kept ==
  ASSUME NEW s, Between(s), NEW c \in Luck
  PROVE  Between(KeepaliveHandler(s, c)) /\ Between(KeepaliveAnswered(s))
<1> DEFINE t == [s EXCEPT !.keepEvent = FALSE]
           d == IF c = "ok" THEN c ELSE "down"
           r == KeepaliveHandler(s, c)
           u == [s EXCEPT !.waiting = FALSE, !.failures = 0, !.keepEvent = TRUE]
<1>0. s \in Device
  BY DEF Between, Within
<1>1. t \in Device
  BY <1>0 DEF Device
<1>2. Agree(s, t)
  BY <1>0 DEF Device, Agree
<1>3. r = IF s.waiting THEN MessageTimeout(t, c)
          ELSE IF s.keep = "send" THEN SendKeepaliveSignal(t, d) ELSE t
  BY DEF KeepaliveHandler
<1>4. d \in Luck
  BY DEF Luck
<1> HIDE DEF t, d, r
<1>5. r \in Device /\ Agree(s, r)
  BY <1>1, <1>2, <1>3, <1>4, TimedOut, SendsAlive DEF Agree
<1>6. Between(r)
  BY <1>5, Agrees
<1>7. u \in Device
  <2> DEFINE z == 0
  <2>1. z \in 0 .. FailureLimit
    BY Limits
  <2> HIDE DEF z
  <2>2. [s EXCEPT !.waiting = FALSE, !.failures = z, !.keepEvent = TRUE] \in Device
    BY <1>0, <2>1 DEF Device
  <2> QED
    BY <2>2 DEF z
<1>8. Agree(s, u)
  BY <1>0 DEF Device, Agree
<1>9. KeepaliveAnswered(s) = IF s.keep = "send" THEN u ELSE s
  BY DEF KeepaliveAnswered
<1> HIDE DEF u
<1>10. Between(KeepaliveAnswered(s))
  BY <1>7, <1>8, <1>9, Agrees
<1> QED
  BY <1>6, <1>10 DEF r

LEMMA TimeTaken ==
  ASSUME NEW s, Between(s)
  PROVE  Between(TimeAnswered(s))
<1> DEFINE t == [s EXCEPT !.valid = TRUE]
<1>1. s \in Device
  BY DEF Between, Within
<1>2. t \in Device
  BY <1>1 DEF Device
<1>3. Agree(s, t)
  BY <1>1 DEF Device, Agree
<1>4. TimeAnswered(s) = IF s.state = "timeSource" THEN t ELSE s
  BY DEF TimeAnswered
<1> HIDE DEF t
<1> QED
  BY <1>2, <1>3, <1>4, Agrees

LEMMA Boots ==
  ASSUME NEW r \in {"no", "late", "early"}
  PROVE  Between([Boot EXCEPT !.reboot = r])
<1> DEFINE t == [Boot EXCEPT !.reboot = r]
<1>1. /\ "initial" \in States \ {"failed"} /\ <<>> \in Seq(Esi) /\ None \in Endpoint
      /\ 0 \in 0 .. Bindings /\ 0 \in 0 .. FailureLimit /\ {} \in SUBSET AnswerSet
  BY Limits, EmptySeq DEF States, Endpoint
<1>2. t \in Device
  BY <1>1 DEF Boot, Device
<1>3. /\ t.state = "initial" /\ t.errors = 0 /\ t.esis = <<>> /\ t.i = 0 /\ t.finding = None
  BY DEF Boot
<1> HIDE DEF t
<1>4. Len(t.esis) = 0
  BY <1>3, EmptySeq
<1>5. Between(t)
  BY <1>2, <1>3, <1>4, Limits
     DEF Between, Within, Index, Searching, Beyond, BeyondKe, Errors, Waits
<1> QED
  BY <1>5 DEF t

LEMMA Leaves ==
  ASSUME NEW s, Between(s), NEW before, before \subseteq AnswerSet, Took(s, before)
  PROVE  Between(dev') /\ answers' \subseteq AnswerSet
<1>0. s \in Device /\ s.reboot \in {"no", "late", "early"} /\ s.sent \subseteq AnswerSet
  BY DEF Between, Within, Device
<1>1. answers' \subseteq AnswerSet
  BY <1>0 DEF Took
<1>2. CASE s.reboot = "no"
  <2> DEFINE t == [s EXCEPT !.sent = {}]
  <2>1. t \in Device
    BY <1>0 DEF Device
  <2>2. Agree(s, t)
    BY <1>0 DEF Device, Agree
  <2>3. dev' = t
    BY <1>2 DEF Took
  <2> HIDE DEF t
  <2> QED
    BY <1>1, <2>1, <2>2, <2>3, Agrees
<1>3. CASE s.reboot # "no"
  <2>1. dev' = [Boot EXCEPT !.reboot = s.reboot]
    BY <1>3 DEF Took
  <2> QED
    BY <1>0, <1>1, <2>1, Boots
<1> QED
  BY <1>2, <1>3

-----------------------------------------------------------------------------
(* The invariant, and what it gives.                                       *)

LEMMA InitReg ==
  ASSUME Init
  PROVE  RegInv
<1>1. Boot = [Boot EXCEPT !.reboot = "no"]
  <2>1. /\ "initial" \in States \ {"failed"} /\ <<>> \in Seq(Esi) /\ None \in Endpoint
        /\ 0 \in 0 .. Bindings /\ 0 \in 0 .. FailureLimit /\ {} \in SUBSET AnswerSet
    BY Limits, EmptySeq DEF States, Endpoint
  <2>2. Boot \in Device
    BY <2>1 DEF Boot, Device
  <2>3. Boot.reboot = "no"
    BY DEF Boot
  <2> QED
    BY <2>2, <2>3 DEF Device
<1>2. Between(Boot)
  BY <1>1, Boots
<1> QED
  BY <1>2, Limits DEF Init, RegInv

LEMMA StepReg ==
  ASSUME RegInv, [Next]_vars
  PROVE  RegInv'
<1>0. /\ Between(dev) /\ dev \in Device /\ answers \subseteq AnswerSet
      /\ joins \in 0 .. MaxJoins /\ faults \in 0 .. MaxFaults
      /\ MaxJoins \in Nat /\ MaxFaults \in Nat
  BY Limits DEF RegInv, Between, Within
<1>1. ASSUME Fault  PROVE faults' \in 0 .. MaxFaults
  BY <1>0, <1>1 DEF Fault
<1>2. ASSUME NEW c, Lucks(c)  PROVE faults' \in 0 .. MaxFaults
  BY <1>0, <1>1, <1>2 DEF Lucks
<1>3. ASSUME NEW c, Overtaken(c)  PROVE faults' \in 0 .. MaxFaults
  BY <1>0, <1>1, <1>3 DEF Overtaken
<1>4. ASSUME NEW c \in Luck, RegistrationEvent(c)  PROVE RegInv'
  <2>1. Between(dev') /\ answers' \subseteq AnswerSet
    BY <1>0, <1>4, Ticks, Leaves DEF RegistrationEvent
  <2>2. faults' \in 0 .. MaxFaults /\ joins' = joins
    BY <1>2, <1>4 DEF RegistrationEvent
  <2> QED
    BY <1>0, <2>1, <2>2 DEF RegInv
<1>5. ASSUME NEW c \in Luck, KeepaliveEvent(c)  PROVE RegInv'
  <2>1. Between(dev') /\ answers' \subseteq AnswerSet
    BY <1>0, <1>5, Kept, Leaves DEF KeepaliveEvent
  <2>2. faults' \in 0 .. MaxFaults /\ joins' = joins
    BY <1>2, <1>3, <1>5 DEF KeepaliveEvent
  <2> QED
    BY <1>0, <2>1, <2>2 DEF RegInv
<1>6. ASSUME NEW c \in Luck, DiscoveryTimeout(c)  PROVE RegInv'
  <2>1. Between(dev') /\ answers' \subseteq AnswerSet
    BY <1>0, <1>6, Completes, Leaves DEF DiscoveryTimeout
  <2>2. faults' \in 0 .. MaxFaults /\ joins' = joins
    BY <1>2, <1>3, <1>6 DEF DiscoveryTimeout
  <2> QED
    BY <1>0, <2>1, <2>2 DEF RegInv
<1>7. ASSUME NEW c \in Luck, NEW m \in answers, NEW b \in BOOLEAN, Answer(m, c, b)
      PROVE  RegInv'
  <2> DEFINE s == CASE m.kind = "alive" -> KeepaliveAnswered(dev)
                    [] m.kind = "time" -> TimeAnswered(dev)
                    [] OTHER -> Discovered(dev, m, c)
             before == IF b THEN answers ELSE answers \ {m}
  <2>1. Between(s)
    BY <1>0, Kept, TimeTaken, Discovers
  <2>2. before \subseteq AnswerSet
    BY <1>0
  <2>3. Took(s, before) /\ joins' = joins /\ (b => Fault) /\ (~b => Lucks(c))
    BY <1>7 DEF Answer
  <2> HIDE DEF s, before
  <2>4. Between(dev') /\ answers' \subseteq AnswerSet
    BY <2>1, <2>2, <2>3, Leaves
  <2>5. faults' \in 0 .. MaxFaults
    BY <1>1, <1>2, <2>3
  <2> QED
    BY <1>0, <2>3, <2>4, <2>5 DEF RegInv
<1>8. ASSUME NEW m \in answers, Lose(m)  PROVE RegInv'
  BY <1>0, <1>1, <1>8 DEF Lose, RegInv
<1>9. ASSUME NEW b \in BOOLEAN, NEW c \in Luck, KeyEstablishmentEnds(b, c)  PROVE RegInv'
  <2> DEFINE a == dev.authorized \/ b
             s == [dev EXCEPT !.ke = None, !.authorized = a]
  <2>1. Took(KeCallback(s, b, c), answers) /\ joins' = joins /\ Lucks(c)
    BY <1>0, <1>9 DEF KeyEstablishmentEnds, Device
  <2>2. a \in BOOLEAN /\ (b => a) /\ (dev.authorized => a)
    BY <1>0 DEF Device
  <2> HIDE DEF a
  <2>3. s \in Device
    BY <1>0, <2>2 DEF Device
  <2>4. /\ s.errors = dev.errors /\ s.state = dev.state /\ s.esis = dev.esis /\ s.i = dev.i
        /\ s.finding = dev.finding /\ s.unicast = dev.unicast /\ s.authorized = a
        /\ s.target = dev.target /\ s.event = dev.event
    BY <1>0 DEF Device
  <2> HIDE DEF s
  <2>5. Within(s) /\ Errors(s)
    BY <1>0, <2>2, <2>3, <2>4 DEF Between, Within, Index, Searching, Beyond, Errors
  <2>6. s.state # "establish" => Between(s)
    BY <1>0, <2>4, <2>5 DEF Between, Waits
  <2>7. Between(KeCallback(s, b, c))
    BY <2>2, <2>4, <2>5, <2>6, SessionEnds
  <2>8. Between(dev') /\ answers' \subseteq AnswerSet
    BY <1>0, <2>1, <2>7, Leaves
  <2> QED
    BY <1>0, <1>2, <2>1, <2>8 DEF RegInv
<1>10. ASSUME NEW b \in BOOLEAN, NEW c \in Luck, PartnerLinkKeyExchangeEnds(b, c)
       PROVE  RegInv'
  <2>1. Between(PartnerLinkKeyExchangeComplete(dev, b, c))
    BY <1>0, <1>10, PartnerEnds DEF PartnerLinkKeyExchangeEnds
  <2>2. Between(dev') /\ answers' \subseteq AnswerSet
    BY <1>0, <1>10, <2>1, Leaves DEF PartnerLinkKeyExchangeEnds
  <2>3. faults' \in 0 .. MaxFaults /\ joins' = joins
    BY <1>2, <1>10 DEF PartnerLinkKeyExchangeEnds
  <2> QED
    BY <1>0, <2>2, <2>3 DEF RegInv
<1>11. CASE NetworkUp
  <2>1. "ok" \in Luck /\ "keyless" \in Luck
    BY DEF Luck
  <2>2. Between(Start(dev, "ok")) /\ Between(Start(dev, "keyless"))
    BY <1>0, <2>1, Starts DEF Between
  <2>3. Between(dev') /\ answers' \subseteq AnswerSet
    BY <1>0, <1>11, <2>2, Leaves DEF NetworkUp
  <2>4. faults' \in 0 .. MaxFaults /\ joins' \in 0 .. MaxJoins
    BY <1>0, <1>2, <1>11 DEF NetworkUp
  <2> QED
    BY <1>0, <2>3, <2>4 DEF RegInv
<1>12. CASE TrustCenterEuiHasChanged
  <2> DEFINE n == dev.tc + 1
             s == [dev EXCEPT !.tc = n, !.authorized = FALSE, !.tried = FALSE]
  <2>1. PICK c \in {"ok", "keyless"} : Took(Start(Abort(s, c), "ok"), {})
    BY <1>12 DEF TrustCenterEuiHasChanged
  <2> DEFINE t == Abort(s, c)
  <2>2. "ok" \in Luck /\ c \in Luck /\ n \in Nat
    BY <1>0 DEF Luck, Device
  <2> HIDE DEF n
  <2>3. s \in Device
    BY <1>0, <2>2 DEF Device
  <2>4. /\ s.errors = dev.errors /\ s.state = dev.state /\ s.esis = dev.esis /\ s.i = dev.i
        /\ s.finding = dev.finding /\ s.unicast = dev.unicast /\ s.target = dev.target
    BY <1>0 DEF Device
  <2> HIDE DEF s
  <2>5. Index(s) /\ Searching(s) /\ s.errors <= ErrorLimit + 1
    BY <1>0, <2>4 DEF Between, Within, Index, Searching, Errors
  <2>6. t \in Device /\ Ended(s, t)
    BY <2>2, <2>3, Aborts
  <2> HIDE DEF t
  <2>7. Ready(t)
    BY <2>3, <2>5, <2>6, Ends
  <2>8. Between(Start(t, "ok"))
    BY <2>2, <2>7, Starts, ReadyIsBetween DEF Ready
  <2>9. Between(dev') /\ answers' \subseteq AnswerSet
    BY <2>1, <2>8, Leaves DEF t
  <2>10. faults' \in 0 .. MaxFaults /\ joins' \in 0 .. MaxJoins
    BY <1>0, <1>2, <1>12 DEF TrustCenterEuiHasChanged
  <2> QED
    BY <1>0, <2>9, <2>10 DEF RegInv
<1>13. CASE StackDown
  <2> DEFINE s == [dev EXCEPT !.tried = TRUE]
  <2>1. PICK c \in {"down", "keyless"} :
          Took(KeepaliveAbort(Abort(s, c)), answers)
    BY <1>13 DEF StackDown
  <2> DEFINE t == Abort(s, c)
             u == [t EXCEPT !.keep = "initial", !.keepEvent = FALSE]
  <2>2. c \in Luck
    BY DEF Luck
  <2>3. s \in Device
    BY <1>0 DEF Device
  <2>4. /\ s.errors = dev.errors /\ s.state = dev.state /\ s.esis = dev.esis /\ s.i = dev.i
        /\ s.finding = dev.finding /\ s.unicast = dev.unicast /\ s.target = dev.target
    BY <1>0 DEF Device
  <2> HIDE DEF s
  <2>5. Index(s) /\ Searching(s) /\ s.errors <= ErrorLimit + 1
    BY <1>0, <2>4 DEF Between, Within, Index, Searching, Errors
  <2>6. t \in Device /\ Ended(s, t)
    BY <2>2, <2>3, Aborts
  <2> HIDE DEF t
  <2>7. Between(t)
    BY <2>3, <2>5, <2>6, Ends, ReadyIsBetween
  <2>8. u \in Device
    BY <2>6 DEF Device
  <2>9. Agree(t, u)
    BY <2>6 DEF Device, Agree
  <2> HIDE DEF u
  <2>10. Between(u)
    BY <2>7, <2>8, <2>9, Agrees
  <2>11. Between(dev') /\ answers' \subseteq AnswerSet
    BY <1>0, <2>1, <2>10, Leaves DEF KeepaliveAbort, t, u
  <2>12. faults' \in 0 .. MaxFaults /\ joins' = joins
    BY <1>0, <1>2, <1>13 DEF StackDown
  <2> QED
    BY <1>0, <2>11, <2>12 DEF RegInv
<1>14. CASE TrustCenterDies
  BY <1>0, <1>1, <1>14 DEF TrustCenterDies, RegInv
<1>15. CASE UNCHANGED vars
  BY <1>0, <1>15 DEF vars, RegInv
<1> QED
  BY <1>4, <1>5, <1>6, <1>7, <1>8, <1>9, <1>10, <1>11, <1>12, <1>13, <1>14, <1>15
     DEF Next, Events

LEMMA RegKept == Spec => []RegInv
<1>1. Init => RegInv
  BY InitReg
<1>2. RegInv /\ [Next]_vars => RegInv'
  BY StepReg
<1> QED
  BY <1>1, <1>2, PTL DEF Spec

\* The types, and that the index stays below the count of the ESI table whenever
\* a step uses it (smart-energy-registration.c:559-721), whatever is refused,
\* lost, doubled or late.
THEOREM RegistrationTypes == Spec => []RegTypeOK
<1>1. RegInv => RegTypeOK
  BY Limits, LenProperties DEF RegInv, Between, Within, Device, Index, Errors, RegTypeOK
<1> QED
  BY <1>1, RegKept, PTL

\* A registration never waits for nothing: either its event is scheduled or the
\* discovery, key establishment or link key exchange it has asked will call it
\* back (smart-energy-registration.c:243-341).
THEOREM RegistrationNeverStuck == Spec => []NeverStuck
<1>1. RegInv => NeverStuck
  BY DEF RegInv, Between, Waits, NeverStuck
<1> QED
  BY <1>1, RegKept, PTL

\* No state beyond the key establishment is reached but with an authorized link
\* key of the present trust center (smart-energy-registration.c:388-441).
THEOREM BeyondKeOnlyAuthorized == Spec => []BeyondKeAuthorized
<1>1. RegInv => BeyondKeAuthorized
  BY DEF RegInv, Between, Within, Beyond, BeyondKeAuthorized
<1> QED
  BY <1>1, RegKept, PTL

-----------------------------------------------------------------------------
(* NetworkFind: what the library and the plugin keep.                      *)

Epids == {n.epid : n \in Networks}
Beacon == [epid : Epids, panId : PanIds \cup {Taken}, channel : Channels,
           open : BOOLEAN, lqi : {1, 2}]

FindDevice ==
  [host : BOOLEAN, coordinator : BOOLEAN,
   scan : ScanTypes, channel : Channels \cup {0}, mask : SUBSET Channels,
   networks : Seq(Beacon), candidates : Seq(PanIds \cup {Taken}),
   buffer : BOOLEAN, sweep : BOOLEAN,
   find : {"NONE", "FORM", "JOIN"}, move : BOOLEAN, attempts : Nat,
   limit : MoveLimits,
   net : {"NO_NETWORK", "FORMING", "JOINING", "JOINED", "NO_PARENT", "MOVING"},
   radio : SUBSET Channels, refuses : {"NOTHING", "BUFFER", "SCAN", "JOIN"},
   reported : {"NONE", "SUCCESS", "FORM_REFUSED", "JOIN_REFUSED", "NO_BUFFERS",
               "MAC_SCANNING", "INVALID_CALL", "NO_BEACONS"},
   offers : SUBSET Beacon, heard : SUBSET Epids, seen : SUBSET Networks,
   missed : BOOLEAN, panId : PanIds \cup {0}, resumed : BOOLEAN]

\* The stack does one thing at a time.
OneThing(d) == d.net \in {"FORMING", "JOINING", "MOVING"} => d.radio = {}

OnAir(n, c) == c = n.channel \/ (c \in DOMAIN Echo /\ Echo[c] = n.channel)

\* A network is where the library says it is.
AtHome(b) == \E n \in Networks : n.epid = b.epid /\ n.channel = b.channel

Around(d) == {n.panId : n \in d.seen}
PanIdFresh(d) == d.net = "FORMING" => d.panId \in PanIds \ Around(d)
OffersTrue(d) == d.host /\ ~d.missed => \A o \in d.offers : AtHome(o)

OfferedEpids(d) == {o.epid : o \in d.offers}
AllOffered(d) == d.heard \subseteq OfferedEpids(d)

\* What holds of a device whatever the library is at
FindBase(d) == /\ d \in FindDevice
               /\ OneThing(d) /\ PanIdFresh(d) /\ OffersTrue(d)

\* ... and for each kind of scan.  Candidates that were heard are struck out.
Drawn(d) ==
  d.scan = "PAN_ID_SCAN" =>
    /\ d.channel \in Channels
    /\ \A i \in DOMAIN d.candidates :
         d.candidates[i] # Taken => d.candidates[i] \in PanIds \ Around(d)

\* Networks are saved as they are heard on the channel, ...
Saved(d) ==
  d.scan = "JOINABLE_SCAN" =>
    /\ d.radio \subseteq {d.channel}
    /\ \A i \in DOMAIN d.networks : \E n \in Networks :
         OnAir(n, d.channel) /\ d.networks[i] = Heard(n, d.channel)

\* ... struck out if they are at home on the other one, ...
StruckOut(b) == [b EXCEPT !.panId = Taken]
EchoOf(d, b, n) ==
  LET heard == Heard(n, d.channel) IN
    /\ OnAir(n, d.channel)
    /\ \/ b = heard /\ (n.channel = d.channel \/ n \notin d.seen)
       \/ b = StruckOut(heard) /\ n.channel # d.channel
Struck(d) ==
  d.scan = "DUAL_CHANNEL_SCAN" =>
    /\ d.channel \in DOMAIN Echo /\ d.radio \subseteq {Echo[d.channel]}
    /\ \A i \in DOMAIN d.networks :
         \E n \in Networks : EchoOf(d, d.networks[i], n)

\* ... and those left are offered.
Left(d) ==
  d.scan = "NEXT_NETWORK" =>
    /\ d.radio = {}
    /\ d.host /\ ~d.missed => \A i \in Valid(d.networks) : AtHome(d.networks[i])

\* What was heard is offered, or still to be.
Keeps(d, e) == \E i \in Valid(d.networks) :
                 d.networks[i].epid = e /\ d.networks[i].lqi = 2
NoneDropped(d) ==
  d.scan \in {"JOINABLE_SCAN", "DUAL_CHANNEL_SCAN", "NEXT_NETWORK"} =>
    \A e \in d.heard : e \in OfferedEpids(d) \/ Keeps(d, e)
Told(d) ==
  d.reported = "NO_BEACONS" => d.scan = "NOT_SCANNING" /\ AllOffered(d)

FindOK(d) == /\ FindBase(d)
             /\ Drawn(d) /\ Saved(d) /\ Struck(d) /\ Left(d)
             /\ NoneDropped(d) /\ Told(d)

FindInv == FindOK(device)
-----------------------------------------------------------------------------
(* What the invariant is about, and steps that leave it alone.             *)

LEMMA FindLimits ==
  /\ Channels \subseteq Nat \ {0} /\ Mask \subseteq Channels
  /\ PanIds \subseteq Nat \ {0} /\ Taken \notin PanIds /\ Taken = 0
  /\ \A c \in DOMAIN Echo : c \in Channels /\ Echo[c] \in Channels
  /\ \A n \in Networks : /\ n.epid \in Epids /\ n.panId \in PanIds
                         /\ n.channel \in Channels /\ n.open \in BOOLEAN
  /\ \A m, n \in Networks : m.epid = n.epid => m = n
  /\ Candidates \in Nat /\ Byte \in Nat \ {0}
  BY FindAssumption DEF FindAssumption, Taken, Epids

\* Neither the library nor the plugin has anything to hold after this.
LEMMA NotInSearch ==
  ASSUME NEW d, FindBase(d), NEW t \in FindDevice,
         t.net = d.net, t.radio = d.radio, t.seen = d.seen, t.panId = d.panId,
         t.host = d.host /\ t.missed = d.missed, t.offers = d.offers, t.heard = d.heard,
         t.scan \in {"NOT_SCANNING", "ENERGY_SCAN"},
         t.reported = "NO_BEACONS" => t.scan = "NOT_SCANNING" /\ AllOffered(d)
  PROVE  FindOK(t)
<1>1. FindBase(t)
  BY DEF FindBase, OneThing, PanIdFresh, Around, OffersTrue
<1>2. Told(t)
  BY DEF Told, AllOffered, OfferedEpids
<1> QED
  BY <1>1, <1>2 DEF FindOK, Drawn, Saved, Struck, Left, NoneDropped

\* emberFormAndJoinCleanup
LEMMA CleanupStep ==
  ASSUME NEW d, FindBase(d),
         NEW status \in {"SUCCESS", "NO_BUFFERS", "MAC_SCANNING", "NO_BEACONS"},
         d.reported = "NO_BEACONS" \/ status = "NO_BEACONS" => AllOffered(d)
  PROVE  FindOK(Cleanup(d, status))
<1> DEFINE idle == [d EXCEPT !.scan = "NOT_SCANNING", !.buffer = FALSE]
           told == [idle EXCEPT !.find = "NONE", !.reported = status]
<1>1. d \in FindDevice
  BY DEF FindBase
<1>2. Cleanup(d, status) = IF status = "SUCCESS" THEN idle ELSE told
  BY DEF Cleanup, ScanErrorCallback, Finished
<1>3. CASE status = "SUCCESS"
  <2>1. idle \in FindDevice
    BY <1>1 DEF FindDevice, ScanTypes
  <2>2. /\ idle.net = d.net /\ idle.radio = d.radio /\ idle.seen = d.seen
        /\ idle.panId = d.panId /\ idle.host = d.host /\ idle.missed = d.missed
        /\ idle.offers = d.offers /\ idle.heard = d.heard
        /\ idle.scan = "NOT_SCANNING" /\ idle.reported = d.reported
    BY <1>1 DEF FindDevice
  <2> HIDE DEF idle
  <2>3. FindOK(idle)
    BY <2>1, <2>2, <1>3, NotInSearch
  <2> QED
    BY <1>2, <1>3, <2>3
<1>4. CASE status # "SUCCESS"
  <2>1. told \in FindDevice
    <3>1. idle \in FindDevice
      BY <1>1 DEF FindDevice, ScanTypes
    <3> HIDE DEF idle
    <3> QED
      BY <1>4, <3>1 DEF FindDevice
  <2>2. /\ told.net = d.net /\ told.radio = d.radio /\ told.seen = d.seen
        /\ told.panId = d.panId /\ told.host = d.host /\ told.missed = d.missed
        /\ told.offers = d.offers /\ told.heard = d.heard
        /\ told.scan = "NOT_SCANNING" /\ told.reported = status
    BY <1>1 DEF FindDevice
  <2> HIDE DEF told
  <2>3. FindOK(told)
    BY <2>1, <2>2, NotInSearch
  <2> QED
    BY <1>2, <1>4, <2>3
<1> QED
  BY <1>3, <1>4

\* startScan, which cleans up if the stack refuses
LEMMA BeginScanStep ==
  ASSUME NEW d, FindBase(d), d.reported = "NO_BEACONS" => AllOffered(d),
         NEW channels,
         channels \subseteq Channels /\ ~RadioBusy(d) => FindOK(Scan(d, channels))
  PROVE  FindOK(BeginScan(d, channels))
  BY CleanupStep DEF BeginScan, Refuses

\* What a scan of the radio leaves of the base
LEMMA ScanBase ==
  ASSUME NEW d, FindBase(d), NEW channels \in SUBSET Channels, ~RadioBusy(d)
  PROVE  /\ FindBase(Scan(d, channels))
         /\ Scan(d, channels).radio = channels /\ Scan(d, channels).seen = {}
<1> DEFINE t == Scan(d, channels)
<1>1. d \in FindDevice
  BY DEF FindBase
<1>2. t = [d EXCEPT !.radio = channels, !.seen = {}]
  BY DEF Scan
<1>3. t \in FindDevice
  BY <1>1, <1>2 DEF FindDevice
<1>4. /\ t.radio = channels /\ t.seen = {} /\ t.net = d.net
      /\ t.host = d.host /\ t.missed = d.missed /\ t.offers = d.offers
  BY <1>1, <1>2 DEF FindDevice
<1> HIDE DEF t
<1>5. OneThing(t) /\ PanIdFresh(t) /\ OffersTrue(t)
  BY <1>4 DEF OneThing, PanIdFresh, OffersTrue, FindBase, RadioBusy
<1> QED
  BY <1>3, <1>4, <1>5 DEF FindBase, t

\* The invariant looks at some fields only.
SameSearch(d, t) ==
  /\ t.scan = d.scan /\ t.channel = d.channel /\ t.networks = d.networks
  /\ t.candidates = d.candidates /\ t.radio = d.radio /\ t.seen = d.seen
  /\ t.panId = d.panId /\ t.host = d.host /\ t.missed = d.missed
  /\ t.offers = d.offers /\ t.heard = d.heard

LEMMA Elsewhere ==
  ASSUME NEW d, FindOK(d), NEW t \in FindDevice, SameSearch(d, t),
         t.net \in {"FORMING", "JOINING", "MOVING"} =>
           t.radio = {} /\ (t.net = d.net \/ t.net # "FORMING"),
         t.reported = d.reported \/ t.reported # "NO_BEACONS"
  PROVE  FindOK(t)
<1> USE DEF SameSearch
<1>1. OneThing(t) /\ PanIdFresh(t) /\ OffersTrue(t)
  BY DEF FindOK, FindBase, OneThing, PanIdFresh, OffersTrue, Around
<1>2. Drawn(t) /\ Saved(t)
  BY DEF FindOK, Drawn, Saved, Around
<1>3. Struck(t) /\ Left(t)
  BY DEF FindOK, Struck, EchoOf, Left
<1>4. NoneDropped(t) /\ Told(t)
  BY DEF FindOK, NoneDropped, Told, Keeps, OfferedEpids, AllOffered
<1> QED
  BY <1>1, <1>2, <1>3, <1>4 DEF FindOK, FindBase

-----------------------------------------------------------------------------
(* The library.                                                            *)

\* A search is asked for.
NewlyAsked(d) == /\ FindBase(d) /\ Drawn(d) /\ Saved(d) /\ Struck(d)
            /\ d.heard = {} /\ d.reported = "NONE"

\* setup
LEMMA SetupStep ==
  ASSUME NEW d, NewlyAsked(d), NEW type \in {"ENERGY_SCAN", "NEXT_NETWORK"}
  PROVE  LET s == Setup(d, type) IN
           IF CanSetup(d)
           THEN /\ FindBase(s) /\ s.scan = type /\ s.heard = {}
                /\ s.reported = "NONE" /\ s.radio = d.radio
                /\ s.networks = <<>>
           ELSE FindOK(s)
<1> DEFINE sweep == ~d.host
           fresh == [d EXCEPT !.sweep = sweep, !.scan = type, !.buffer = TRUE,
                              !.networks = <<>>]
           told == [d EXCEPT !.find = "NONE", !.reported = "MAC_SCANNING"]
<1>1. d \in FindDevice /\ d.heard = {} /\ d.reported = "NONE"
  BY DEF NewlyAsked, FindBase
<1>2. fresh \in FindDevice
  <2>1. sweep \in BOOLEAN /\ <<>> \in Seq(Beacon)
    OBVIOUS
  <2> HIDE DEF sweep
  <2> QED
    BY <1>1, <2>1 DEF FindDevice, ScanTypes
<1>3. /\ fresh.net = d.net /\ fresh.radio = d.radio /\ fresh.seen = d.seen
      /\ fresh.panId = d.panId /\ fresh.host = d.host /\ fresh.missed = d.missed
      /\ fresh.offers = d.offers /\ fresh.heard = {} /\ fresh.scan = type
      /\ fresh.networks = <<>> /\ fresh.reported = "NONE"
  BY <1>1 DEF FindDevice
<1>4. Setup(d, type) = IF IsScanning(d) THEN told
                       ELSE IF Refuses(d, "BUFFER") THEN Cleanup(fresh, "NO_BUFFERS")
                       ELSE fresh
  <2>1. [Cleanup([d EXCEPT !.sweep = ~d.host], "SUCCESS")
           EXCEPT !.networks = << >>, !.scan = type, !.buffer = TRUE] = fresh
    BY <1>1 DEF Cleanup, FindDevice
  <2>2. ScanErrorCallback(d, "MAC_SCANNING") = told
    BY DEF ScanErrorCallback, Finished
  <2> HIDE DEF fresh, told
  <2> QED
    BY <2>1, <2>2 DEF Setup
<1> HIDE DEF fresh
<1>5. FindBase(fresh)
  BY <1>2, <1>3 DEF NewlyAsked, FindBase, OneThing, PanIdFresh, Around, OffersTrue
<1>6. CASE IsScanning(d)
  <2>1. told \in FindDevice
    BY <1>1 DEF FindDevice
  <2>2. SameSearch(d, told) /\ told.net = d.net /\ told.reported = "MAC_SCANNING"
    BY <1>1 DEF FindDevice, SameSearch
  <2> HIDE DEF told
  <2>3. OneThing(told) /\ PanIdFresh(told) /\ OffersTrue(told)
    BY <2>2 DEF NewlyAsked, FindBase, OneThing, PanIdFresh, OffersTrue, Around, SameSearch
  <2>4. Drawn(told) /\ Saved(told) /\ Struck(told)
    BY <2>2 DEF NewlyAsked, Drawn, Saved, Struck, EchoOf, Around, SameSearch
  <2>5. Left(told) /\ NoneDropped(told) /\ Told(told)
    BY <1>1, <1>6, <2>2 DEF Left, NoneDropped, Told, IsScanning, SameSearch
  <2> QED
    BY <1>4, <1>6, <2>1, <2>3, <2>4, <2>5 DEF FindOK, FindBase, CanSetup
<1>7. CASE ~IsScanning(d) /\ Refuses(d, "BUFFER")
  BY <1>3, <1>4, <1>5, <1>7, CleanupStep DEF CanSetup
<1>8. CASE ~IsScanning(d) /\ ~Refuses(d, "BUFFER")
  BY <1>3, <1>4, <1>5, <1>8 DEF CanSetup
<1> QED
  BY <1>6, <1>7, <1>8

\* emberScanForUnusedPanId
LEMMA ForUnusedPanIdStep ==
  ASSUME NEW d, NewlyAsked(d)
  PROVE  FindOK(ScanForUnusedPanId(d, Mask))
<1> DEFINE s == Setup(d, "ENERGY_SCAN")
           t == Scan(s, Mask)
<1>1. CASE ~CanSetup(d)
  BY <1>1, SetupStep DEF ScanForUnusedPanId
<1>2. CASE CanSetup(d)
  <2>1. /\ FindBase(s) /\ s.scan = "ENERGY_SCAN" /\ s.heard = {}
        /\ s.reported = "NONE"
    BY <1>2, SetupStep
  <2> HIDE DEF s
  <2>2. ASSUME ~RadioBusy(s)  PROVE FindOK(t)
    <3>1. FindBase(t)
      BY <2>1, <2>2, ScanBase, FindLimits
    <3>2. t.scan = "ENERGY_SCAN" /\ t.reported = "NONE"
      BY <2>1 DEF Scan, FindBase, FindDevice
    <3> QED
      BY <3>1, <3>2 DEF FindOK, Drawn, Saved, Struck, Left, NoneDropped, Told
  <2>3. FindOK(BeginScan(s, Mask))
    BY <2>1, <2>2, BeginScanStep
  <2> QED
    BY <1>2, <2>3 DEF ScanForUnusedPanId, s
<1> QED
  BY <1>1, <1>2

\* startPanIdScan
LEMMA StartPanIdScanStep ==
  ASSUME NEW d, FindBase(d), d.reported # "NO_BEACONS",
         NEW candidates \in [1 .. Candidates -> PanIds]
  PROVE  FindOK(StartPanIdScan(d, candidates))
<1> DEFINE s == [d EXCEPT !.scan = "PAN_ID_SCAN", !.candidates = candidates]
           t == Scan(s, {d.channel})
<1>1. d \in FindDevice
  BY DEF FindBase
<1>2. candidates \in Seq(PanIds \cup {Taken})
  BY FindLimits
<1>3. s \in FindDevice
  BY <1>1, <1>2 DEF FindDevice, ScanTypes
<1>4. /\ s.net = d.net /\ s.radio = d.radio /\ s.seen = d.seen
      /\ s.panId = d.panId /\ s.host = d.host /\ s.missed = d.missed
      /\ s.offers = d.offers /\ s.reported = d.reported
      /\ s.scan = "PAN_ID_SCAN" /\ s.candidates = candidates
      /\ s.channel = d.channel
  BY <1>1 DEF FindDevice
<1> HIDE DEF s
<1>5. FindBase(s)
  BY <1>3, <1>4 DEF FindBase, OneThing, PanIdFresh, Around, OffersTrue
<1>6. ASSUME d.channel \in Channels, ~RadioBusy(s)  PROVE FindOK(t)
  <2>1. FindBase(t) /\ t.seen = {}
    BY <1>5, <1>6, ScanBase
  <2>2. /\ t.scan = "PAN_ID_SCAN" /\ t.candidates = candidates
        /\ t.reported = d.reported /\ t.channel \in Channels
    BY <1>3, <1>4, <1>6 DEF Scan, FindDevice
  <2> HIDE DEF t
  <2>3. Drawn(t)
    BY <2>1, <2>2 DEF Drawn, Around
  <2> QED
    BY <2>1, <2>2, <2>3 DEF FindOK, Saved, Struck, Left, NoneDropped, Told
<1>7. {d.channel} \subseteq Channels => d.channel \in Channels
  OBVIOUS
<1>8. FindOK(BeginScan(s, {d.channel}))
  BY <1>4, <1>5, <1>6, <1>7, BeginScanStep
<1> QED
  BY <1>8 DEF StartPanIdScan, s

\* Naturals have a least one.
LEMMA MinOfNats ==
  ASSUME NEW S, S \subseteq Nat, S # {}
  PROVE  Min(S) \in S /\ \A y \in S : Min(S) <= y
<1> DEFINE Below(i) == {j \in S : j < i}
<1>1. PICK n \in S : n \in Nat
  OBVIOUS
<1> DEFINE F == 0 .. n
           T == {Below(i) : i \in S \cap F}
<1>2. IsFiniteSet(F)
  BY FS_Interval
<1>3. FiniteSubsetsOf(F) = SUBSET F
  BY <1>2, FS_FiniteSubsetsOfFinite
<1>4. T \subseteq FiniteSubsetsOf(F)
  <2>1. ASSUME NEW i \in S \cap F, NEW j \in Below(i)  PROVE j \in F
    <3>1. i \in 0 .. n /\ j \in Nat /\ j < i
      BY <2>1
    <3> QED
      BY <1>1, <3>1
  <2> QED
    BY <1>3, <2>1
<1>5. T # {}
  <2>1. n \in S \cap F
    BY <1>1
  <2> QED
    BY <2>1
<1>6. PICK X \in T : \A Y \in T : ~(<<Y, X>> \in StrictSubsetOrdering(F))
  BY <1>2, <1>4, <1>5, FS_StrictSubsetOrderingWellFounded, WFMin
<1>7. PICK x \in S \cap F : X = Below(x)
  OBVIOUS
<1>8. ASSUME NEW y \in S  PROVE x <= y
  <2>1. SUFFICES ASSUME y < x  PROVE FALSE
    BY <1>8
  <2>2. y \in Below(x) /\ y \notin Below(y)
    BY <2>1
  <2>3. \A j \in S : j < y => j < x
    BY <2>1
  <2>4. Below(y) \subseteq Below(x)
    BY <2>3
  <2>5. y \in S \cap F
    <3>1. x \in 0 .. n /\ y \in Nat
      BY <1>8
    <3> QED
      BY <1>1, <1>8, <2>1, <3>1
  <2>6. Below(x) \in SUBSET F /\ Below(y) \in SUBSET F
    <3>1. Below(x) \in T /\ Below(y) \in T
      BY <2>5
    <3> HIDE DEF Below, T, F
    <3> QED
      BY <1>3, <1>4, <3>1
  <2>7. Below(y) \in T
    BY <2>5
  <2> HIDE DEF Below, T, F
  <2>8. <<Below(y), X>> \in StrictSubsetOrdering(F)
    BY <1>7, <2>2, <2>4, <2>6 DEF StrictSubsetOrdering
  <2> QED
    BY <1>6, <2>7, <2>8
<1> QED
  BY <1>8 DEF Min

\* The last of some places in a sequence
LEMMA MaxOfPlaces ==
  ASSUME NEW n \in Nat, NEW S, S \subseteq 1 .. n, S # {}
  PROVE  Max(S) \in S /\ \A y \in S : y <= Max(S)
<1> DEFINE T == {n - x : x \in S}
           x0 == n - Min(T)
<1>1. /\ \A x \in S : x \in 1 .. n
      /\ T \subseteq Nat /\ T # {}
  <2>1. \A x \in S : x \in 1 .. n /\ n - x \in Nat
    OBVIOUS
  <2> QED
    BY <2>1
<1>2. Min(T) \in T /\ \A y \in T : Min(T) <= y
  BY <1>1, MinOfNats
<1>3. x0 \in S /\ \A y \in S : x0 >= y
  <2>1. PICK x \in S : Min(T) = n - x
    BY <1>2
  <2>2. x0 = x
    BY <1>1, <2>1
  <2>3. ASSUME NEW y \in S  PROVE x >= y
    <3>1. n - y \in T /\ y \in 1 .. n /\ x \in 1 .. n
      BY <1>1
    <3>2. n - x <= n - y
      BY <1>2, <2>1, <3>1
    <3> QED
      BY <3>1, <3>2
  <2> QED
    BY <2>2, <2>3
<1> HIDE DEF x0
<1> QED
  BY <1>3 DEF Max

\* panIdScanComplete
LEMMA PanIdScanCompleteStep ==
  ASSUME NEW d, FindOK(d), d.scan = "PAN_ID_SCAN", d.radio = {},
         NEW candidates \in [1 .. Candidates -> PanIds]
  PROVE  FindOK(PanIdScanComplete(d, candidates))
<1>1. /\ d \in FindDevice /\ d.reported # "NO_BEACONS" /\ d.channel \in Channels
      /\ FindBase(d)
  BY DEF FindOK, FindBase, Told, Drawn
<1>2. CASE Unheard(d) = {}
  BY <1>1, <1>2, StartPanIdScanStep DEF PanIdScanComplete
<1>3. CASE Unheard(d) # {}
  <2> DEFINE p == d.candidates[Min(Unheard(d))]
             u == UnusedPanIdFoundCallback(d, p)
             e == [d EXCEPT !.find = "NONE", !.reported = "FORM_REFUSED"]
             f == [d EXCEPT !.net = "FORMING", !.panId = p]
  <2>1. p \in PanIds \ Around(d)
    <3>1. Unheard(d) \subseteq Nat
      BY <1>1 DEF Unheard, FindDevice
    <3>2. Min(Unheard(d)) \in Unheard(d)
      BY <1>3, <3>1, MinOfNats
    <3> QED
      BY <3>2 DEF Unheard, FindOK, Drawn
  <2>2. u = IF JoiningRefused(d) THEN e ELSE f
    BY DEF UnusedPanIdFoundCallback, ScanErrorCallback, Finished
  <2> HIDE DEF p, u
  <2>3. FindBase(e) /\ e.reported # "NO_BEACONS"
    <3>1. e \in FindDevice
      BY <1>1 DEF FindDevice
    <3>2. e.net = d.net /\ SameSearch(d, e) /\ e.reported = "FORM_REFUSED"
      BY <1>1 DEF FindDevice, SameSearch
    <3> HIDE DEF e
    <3> QED
      BY <1>1, <3>1, <3>2
         DEF FindBase, OneThing, PanIdFresh, Around, OffersTrue, SameSearch
  <2>4. FindBase(f) /\ f.reported # "NO_BEACONS"
    <3>1. f \in FindDevice
      BY <1>1, <2>1 DEF FindDevice
    <3>2. /\ f.net = "FORMING" /\ f.panId = p /\ f.radio = {} /\ f.seen = d.seen
          /\ f.host = d.host /\ f.missed = d.missed /\ f.offers = d.offers /\ f.reported = d.reported
      BY <1>1 DEF FindDevice
    <3> HIDE DEF f
    <3> QED
      BY <1>1, <2>1, <3>1, <3>2
         DEF FindBase, OneThing, PanIdFresh, Around, OffersTrue
  <2>5. FindBase(u) /\ u.reported # "NO_BEACONS"
    BY <2>2, <2>3, <2>4
  <2>6. FindOK(Cleanup(u, "SUCCESS"))
    BY <2>5, CleanupStep
  <2> QED
    BY <1>3, <2>6 DEF PanIdScanComplete, u, p
<1> QED
  BY <1>2, <1>3

\* emberScanForNextJoinableNetwork, which offers the last network left ...
LEMMA OfferNetworkStep ==
  ASSUME NEW d, FindOK(d), d.scan = "NEXT_NETWORK", Valid(d.networks) # {}
  PROVE  FindOK(OfferNetwork(d, Max(Valid(d.networks))))
<1> DEFINE i == Max(Valid(d.networks))
           rest == SubSeq(d.networks, 1, i - 1)
           offers == d.offers \cup {d.networks[i]}
           sweep == ~d.host
           e == [d EXCEPT !.networks = rest, !.offers = offers,
                          !.resumed = TRUE, !.find = "NONE",
                          !.reported = "JOIN_REFUSED", !.sweep = sweep]
           f == [d EXCEPT !.networks = rest, !.offers = offers,
                          !.resumed = TRUE, !.net = "JOINING", !.sweep = sweep]
           t == OfferNetwork(d, i)
<1>1. d \in FindDevice /\ FindBase(d) /\ d.radio = {}
  BY DEF FindOK, FindBase, Left
<1>2. /\ i \in Valid(d.networks) /\ i \in 1 .. Len(d.networks)
      /\ \A j \in Valid(d.networks) : j <= i
      /\ d.networks \in Seq(Beacon)
  <2>1. d.networks \in Seq(Beacon) /\ Len(d.networks) \in Nat
    BY <1>1 DEF FindDevice
  <2>2. Valid(d.networks) \subseteq 1 .. Len(d.networks)
    BY <2>1 DEF Valid
  <2> QED
    BY <2>1, <2>2, MaxOfPlaces
<1> HIDE DEF i
<1>3. /\ rest \in Seq(Beacon) /\ Len(rest) = i - 1
      /\ \A j \in 1 .. i - 1 : rest[j] = d.networks[j]
  BY <1>2
<1>4. offers \in SUBSET Beacon /\ d.networks[i] \in Beacon /\ sweep \in BOOLEAN
  BY <1>1, <1>2 DEF FindDevice
<1> HIDE DEF rest, sweep
<1>5. t = IF JoiningRefused(d) THEN e ELSE f
  <2> DEFINE less == [d EXCEPT !.networks = SubSeq(@, 1, i - 1)]
             o == [less EXCEPT !.offers = @ \cup {d.networks[i]}, !.resumed = TRUE]
             offered == JoinableNetworkFoundCallback(less, d.networks[i])
  <2>1. o = [d EXCEPT !.networks = rest, !.offers = offers, !.resumed = TRUE]
    BY <1>1 DEF FindDevice, rest
  <2>2. JoiningRefused(less) <=> JoiningRefused(d)
    BY <1>1 DEF FindDevice, JoiningRefused
  <2>3. t = [offered EXCEPT !.sweep = sweep]
    BY DEF OfferNetwork, sweep
  <2>4. offered = IF JoiningRefused(less) THEN ScanErrorCallback(o, "JOIN_REFUSED")
                  ELSE [o EXCEPT !.net = "JOINING"]
    BY DEF JoinableNetworkFoundCallback
  <2>5. [ScanErrorCallback(o, "JOIN_REFUSED") EXCEPT !.sweep = sweep] = e
    BY <2>1, <1>1 DEF ScanErrorCallback, Finished, FindDevice
  <2>6. [[o EXCEPT !.net = "JOINING"] EXCEPT !.sweep = sweep] = f
    BY <2>1, <1>1 DEF FindDevice
  <2> HIDE DEF less, o, t, e, f, offered
  <2> QED
    BY <2>2, <2>3, <2>4, <2>5, <2>6
<1> HIDE DEF t
<1>6. e \in FindDevice /\ f \in FindDevice
  <2> HIDE DEF offers
  <2>1. e \in FindDevice
    BY <1>1, <1>3, <1>4 DEF FindDevice
  <2>2. f \in FindDevice
    BY <1>1, <1>3, <1>4 DEF FindDevice
  <2> QED
    BY <2>1, <2>2
<1> DEFINE Offered(x) ==
        /\ x.scan = "NEXT_NETWORK" /\ x.networks = rest /\ x.offers = offers
        /\ x.radio = {} /\ x.seen = d.seen /\ x.panId = d.panId
        /\ x.host = d.host /\ x.missed = d.missed /\ x.heard = d.heard
        /\ x.net \in {d.net, "JOINING"} /\ x.reported \in {d.reported, "JOIN_REFUSED"}
<1>7. Offered(e) /\ Offered(f)
  <2>1. Offered(e)
    BY <1>1 DEF FindDevice
  <2>2. Offered(f)
    BY <1>1 DEF FindDevice
  <2> QED
    BY <2>1, <2>2
<1> HIDE DEF e, f
<1>8. /\ t \in FindDevice
      /\ t.scan = "NEXT_NETWORK" /\ t.networks = rest /\ t.offers = offers
      /\ t.radio = {} /\ t.seen = d.seen /\ t.panId = d.panId
      /\ t.host = d.host /\ t.missed = d.missed /\ t.heard = d.heard
      /\ t.net \in {d.net, "JOINING"} /\ t.reported \in {d.reported, "JOIN_REFUSED"}
  BY <1>5, <1>6, <1>7
<1>9. OneThing(t) /\ PanIdFresh(t)
  BY <1>1, <1>8 DEF OneThing, PanIdFresh, Around, FindBase
<1>10. OffersTrue(t)
  BY <1>1, <1>2, <1>8 DEF OffersTrue, FindBase, FindOK, Left
<1>11. Left(t)
  <2>1. ASSUME NEW j \in Valid(rest)
        PROVE  j \in Valid(d.networks) /\ rest[j] = d.networks[j]
    BY <1>2, <1>3 DEF Valid
  <2> QED
    BY <1>8, <2>1 DEF Left, FindOK
<1>12. NoneDropped(t)
  <2> SUFFICES ASSUME NEW e0 \in d.heard
               PROVE  e0 \in OfferedEpids(t) \/ Keeps(t, e0)
    BY <1>8 DEF NoneDropped
  <2>1. CASE e0 \in OfferedEpids(d)
    BY <1>8, <2>1 DEF OfferedEpids
  <2>2. CASE Keeps(d, e0)
    <3>1. PICK j \in Valid(d.networks) :
            d.networks[j].epid = e0 /\ d.networks[j].lqi = 2
      BY <2>2 DEF Keeps
    <3>2. CASE j = i
      BY <1>8, <3>1, <3>2 DEF OfferedEpids
    <3>3. CASE j # i
      <4>1. j \in 1 .. i - 1
        BY <1>2, <3>1, <3>3 DEF Valid
      <4> QED
        BY <1>2, <1>3, <1>8, <3>1, <4>1 DEF Keeps, Valid
    <3> QED
      BY <3>2, <3>3
  <2> QED
    BY <2>1, <2>2 DEF FindOK, NoneDropped
<1>13. Told(t)
  BY <1>8 DEF Told, FindOK
<1> QED
  BY <1>8, <1>9, <1>10, <1>11, <1>12, <1>13
     DEF FindOK, FindBase, Drawn, Saved, Struck, t, i

\* ... and goes on to the next channel when none is.
LEMMA NextChannelStep ==
  ASSUME NEW d, FindBase(d), AllOffered(d), d.reported # "NO_BEACONS"
  PROVE  FindOK(ScanNextChannel(d))
<1> DEFINE later == {c \in d.mask : c > d.channel}
           none == [d EXCEPT !.networks = <<>>]
           c0 == Min(later)
           s == [d EXCEPT !.networks = <<>>, !.channel = c0,
                          !.scan = "JOINABLE_SCAN"]
           t == Scan(s, {c0})
<1>1. d \in FindDevice /\ <<>> \in Seq(Beacon)
  BY DEF FindBase
<1>2. CASE later = {}
  <2>1. none \in FindDevice
    BY <1>1 DEF FindDevice
  <2>2. /\ none.net = d.net /\ none.radio = d.radio /\ none.seen = d.seen
        /\ none.panId = d.panId /\ none.host = d.host /\ none.missed = d.missed
        /\ none.offers = d.offers /\ none.heard = d.heard
    BY <1>1 DEF FindDevice
  <2> HIDE DEF none
  <2>3. FindBase(none) /\ AllOffered(none)
    BY <2>1, <2>2 DEF FindBase, OneThing, PanIdFresh, Around, OffersTrue,
                      AllOffered, OfferedEpids
  <2>4. FindOK(Cleanup(none, "NO_BEACONS"))
    BY <2>3, CleanupStep
  <2> QED
    BY <1>2, <2>4 DEF ScanNextChannel, none
<1>3. CASE later # {}
  <2>1. c0 \in Channels
    <3>1. later \subseteq Channels /\ later \subseteq Nat
      BY <1>1, FindLimits DEF FindDevice
    <3>2. c0 \in later
      BY <1>3, <3>1, MinOfNats
    <3> QED
      BY <3>1, <3>2
  <2> HIDE DEF c0
  <2>2. s \in FindDevice
    BY <1>1, <2>1 DEF FindDevice, ScanTypes
  <2>3. /\ s.net = d.net /\ s.radio = d.radio /\ s.seen = d.seen
        /\ s.panId = d.panId /\ s.host = d.host /\ s.missed = d.missed
        /\ s.offers = d.offers /\ s.heard = d.heard /\ s.reported = d.reported
        /\ s.scan = "JOINABLE_SCAN" /\ s.networks = <<>> /\ s.channel = c0
    BY <1>1 DEF FindDevice
  <2> HIDE DEF s
  <2>4. FindBase(s) /\ AllOffered(s)
    BY <2>2, <2>3 DEF FindBase, OneThing, PanIdFresh, Around, OffersTrue,
                      AllOffered, OfferedEpids
  <2>5. ASSUME ~RadioBusy(s)  PROVE FindOK(t)
    <3>1. FindBase(t) /\ t.radio = {c0}
      BY <2>1, <2>4, <2>5, ScanBase
    <3>2. /\ t.scan = "JOINABLE_SCAN" /\ t.networks = <<>> /\ t.channel = c0
          /\ t.reported = d.reported /\ t.heard = s.heard /\ t.offers = s.offers
      BY <2>2, <2>3 DEF Scan, FindDevice
    <3> HIDE DEF t
    <3>3. Saved(t)
      BY <3>1, <3>2 DEF Saved
    <3>4. NoneDropped(t)
      BY <2>4, <3>2 DEF NoneDropped, AllOffered, OfferedEpids
    <3> QED
      BY <3>1, <3>2, <3>3, <3>4 DEF FindOK, Drawn, Struck, Left, Told
  <2>6. FindOK(BeginScan(s, {c0}))
    BY <2>3, <2>4, <2>5, BeginScanStep
  <2> QED
    BY <1>3, <2>6 DEF ScanNextChannel, s, c0
<1> QED
  BY <1>2, <1>3

LEMMA ForNextStep ==
  ASSUME NEW d, FindOK(d)
  PROVE  FindOK(ScanForNextJoinableNetwork(d))
<1>1. CASE d.scan # "NEXT_NETWORK"
  <2> DEFINE t == [d EXCEPT !.find = "NONE", !.reported = "INVALID_CALL"]
  <2>1. ScanForNextJoinableNetwork(d) = t
    BY <1>1 DEF ScanForNextJoinableNetwork, ScanErrorCallback, Finished
  <2>2. t \in FindDevice
    BY DEF FindOK, FindBase, FindDevice
  <2>3. SameSearch(d, t) /\ t.net = d.net /\ t.reported = "INVALID_CALL"
    BY DEF FindOK, FindBase, FindDevice, SameSearch
  <2> HIDE DEF t
  <2>4. FindOK(t)
    BY <2>2, <2>3, Elsewhere DEF FindOK, FindBase, OneThing, SameSearch
  <2> QED
    BY <2>1, <2>4
<1>2. CASE d.scan = "NEXT_NETWORK" /\ Valid(d.networks) # {}
  BY <1>2, OfferNetworkStep DEF ScanForNextJoinableNetwork
<1>3. CASE d.scan = "NEXT_NETWORK" /\ Valid(d.networks) = {}
  <2>1. AllOffered(d)
    BY <1>3 DEF FindOK, NoneDropped, Keeps, AllOffered
  <2>2. FindBase(d) /\ d.reported # "NO_BEACONS"
    BY <1>3 DEF FindOK, Told
  <2>3. FindOK(ScanNextChannel(d))
    BY <2>1, <2>2, NextChannelStep
  <2> QED
    BY <1>3, <2>3 DEF ScanForNextJoinableNetwork
<1> QED
  BY <1>1, <1>2, <1>3

\* emberScanForJoinableNetwork
LEMMA ForJoinableStep ==
  ASSUME NEW d, NewlyAsked(d)
  PROVE  FindOK(ScanForJoinableNetwork(d, Mask))
<1> DEFINE s == Setup(d, "NEXT_NETWORK")
           t == [s EXCEPT !.channel = 0, !.mask = Mask]
<1>1. CASE ~CanSetup(d)
  BY <1>1, SetupStep DEF ScanForJoinableNetwork
<1>2. CASE CanSetup(d)
  <2>1. /\ FindBase(s) /\ s.scan = "NEXT_NETWORK" /\ s.heard = {}
        /\ s.reported = "NONE" /\ s.networks = <<>>
    BY <1>2, SetupStep
  <2> HIDE DEF s
  <2>2. t \in FindDevice
    BY <2>1, FindLimits DEF FindBase, FindDevice
  <2>3. /\ t.net = s.net /\ t.radio = s.radio /\ t.seen = s.seen
        /\ t.panId = s.panId /\ t.host = s.host /\ t.missed = s.missed
        /\ t.offers = s.offers /\ t.heard = {} /\ t.reported = "NONE"
        /\ t.scan = "NEXT_NETWORK" /\ t.networks = <<>>
    BY <2>1 DEF FindBase, FindDevice
  <2> HIDE DEF t
  <2>4. FindBase(t) /\ AllOffered(t) /\ Valid(t.networks) = {}
    BY <2>1, <2>2, <2>3 DEF FindBase, OneThing, PanIdFresh, Around, OffersTrue,
                            AllOffered, Valid
  <2>5. FindOK(ScanNextChannel(t))
    BY <2>3, <2>4, NextChannelStep
  <2> QED
    BY <1>2, <2>3, <2>4, <2>5
       DEF ScanForJoinableNetwork, ScanForNextJoinableNetwork, s, t
<1> QED
  BY <1>1, <1>2

\* A scan is over: what it has missed is in d, and the radio is idle.
ScanOver(b, d) ==
  /\ FindOK(b) /\ FindOK(d) /\ d.radio = {}
  /\ \E c \in Channels : c \in b.radio
  /\ d.scan = b.scan /\ d.channel = b.channel /\ d.networks = b.networks
  /\ d.seen = b.seen /\ b.scan # "NEXT_NETWORK"
  /\ d.scan # "ENERGY_SCAN" /\ ~d.missed =>
       \A n \in Networks : n.channel \in b.radio => n \in d.seen

\* Networks are offered once the scan that saved them, or the one that struck
\* them out, is over.
LEMMA ChannelDoneStep ==
  ASSUME NEW b, NEW d, ScanOver(b, d),
         d.scan \in {"JOINABLE_SCAN", "DUAL_CHANNEL_SCAN"},
         ~(d.scan = "JOINABLE_SCAN" /\ NeedsDualScan(d))
  PROVE  FindOK(ScanForNextJoinableNetwork([d EXCEPT !.scan = "NEXT_NETWORK"]))
<1> DEFINE t == [d EXCEPT !.scan = "NEXT_NETWORK"]
<1>1. d \in FindDevice /\ FindOK(d) /\ FindOK(b)
  BY DEF ScanOver, FindOK, FindBase
<1>2. t \in FindDevice
  BY <1>1 DEF FindDevice, ScanTypes
<1>3. /\ t.net = d.net /\ t.radio = {} /\ t.seen = d.seen
      /\ t.panId = d.panId /\ t.host = d.host /\ t.missed = d.missed /\ t.networks = d.networks
      /\ t.offers = d.offers /\ t.heard = d.heard /\ t.reported = d.reported
      /\ t.scan = "NEXT_NETWORK"
  BY <1>1 DEF FindDevice, ScanOver
<1> HIDE DEF t
<1>4. FindBase(t)
  BY <1>1, <1>2, <1>3 DEF FindOK, FindBase, OneThing, PanIdFresh, Around, OffersTrue
<1>5. ASSUME d.host, ~d.missed, NEW i \in Valid(d.networks)  PROVE AtHome(d.networks[i])
  <2>1. i \in DOMAIN d.networks /\ d.networks[i].panId # Taken
    BY DEF Valid
  <2>2. CASE d.scan = "JOINABLE_SCAN"
    <3>1. PICK n \in Networks :
            OnAir(n, d.channel) /\ d.networks[i] = Heard(n, d.channel)
      BY <1>1, <2>1, <2>2 DEF FindOK, Saved
    <3>2. d.networks # <<>>
      BY <2>1
    <3>3. n.channel = d.channel
      BY <1>5, <2>2, <3>1, <3>2 DEF NeedsDualScan, OnAir
    <3> QED
      BY <3>1, <3>3 DEF AtHome, Heard
  <2>3. CASE d.scan = "DUAL_CHANNEL_SCAN"
    <3>1. PICK n \in Networks : EchoOf(d, d.networks[i], n)
      BY <1>1, <2>1, <2>3 DEF FindOK, Struck
    <3>2. d.networks[i] # StruckOut(Heard(n, d.channel))
      BY <2>1 DEF StruckOut, Heard
    <3>3. b.radio = {Echo[d.channel]}
      BY <1>1, <2>3 DEF ScanOver, FindOK, Struck
    <3>4. n.channel = d.channel
      BY <1>5, <2>3, <3>1, <3>2, <3>3 DEF ScanOver, OnAir, EchoOf
    <3> QED
      BY <3>1, <3>2, <3>4 DEF AtHome, Heard, EchoOf
  <2> QED
    BY <2>2, <2>3
<1>6. Left(t)
  BY <1>3, <1>5 DEF Left
<1>7. NoneDropped(t) /\ Told(t)
  BY <1>1, <1>3 DEF FindOK, NoneDropped, Told, Keeps, OfferedEpids
<1>8. FindOK(t)
  BY <1>3, <1>4, <1>6, <1>7 DEF FindOK, Drawn, Saved, Struck
<1> QED
  BY <1>8, ForNextStep DEF t

\* The second scan of a channel, where the networks are whose echoes were heard
LEMMA DualScanStep ==
  ASSUME NEW d, FindOK(d), d.scan = "JOINABLE_SCAN", NeedsDualScan(d)
  PROVE  FindOK(BeginScan([d EXCEPT !.scan = "DUAL_CHANNEL_SCAN"],
                          {Echo[d.channel]}))
<1> DEFINE s == [d EXCEPT !.scan = "DUAL_CHANNEL_SCAN"]
           e == {Echo[d.channel]}
           t == Scan(s, e)
<1>1. d \in FindDevice /\ e \in SUBSET Channels /\ d.channel \in DOMAIN Echo
  BY FindLimits DEF FindOK, FindBase, NeedsDualScan
<1>2. s \in FindDevice
  BY <1>1 DEF FindDevice, ScanTypes
<1>3. /\ s.net = d.net /\ s.radio = d.radio /\ s.seen = d.seen
      /\ s.panId = d.panId /\ s.host = d.host /\ s.missed = d.missed
      /\ s.offers = d.offers /\ s.heard = d.heard /\ s.reported = d.reported
      /\ s.scan = "DUAL_CHANNEL_SCAN" /\ s.networks = d.networks
      /\ s.channel = d.channel
  BY <1>1 DEF FindDevice
<1> HIDE DEF s, e
<1>4. FindBase(s) /\ s.reported # "NO_BEACONS"
  BY <1>2, <1>3 DEF FindOK, FindBase, OneThing, PanIdFresh, Around, OffersTrue, Told
<1>5. ASSUME ~RadioBusy(s)  PROVE FindOK(t)
  <2>1. FindBase(t) /\ t.radio = e /\ t.seen = {}
    BY <1>1, <1>4, <1>5, ScanBase
  <2>2. /\ t.scan = "DUAL_CHANNEL_SCAN" /\ t.networks = d.networks
        /\ t.channel = d.channel /\ t.reported # "NO_BEACONS"
        /\ t.heard = d.heard /\ t.offers = d.offers
    BY <1>2, <1>3, <1>4 DEF Scan, FindDevice
  <2> HIDE DEF t
  <2>3. Struck(t)
    BY <1>1, <2>1, <2>2 DEF Struck, EchoOf, FindOK, Saved, e
  <2>4. NoneDropped(t)
    BY <2>2 DEF NoneDropped, FindOK, Keeps, OfferedEpids
  <2> QED
    BY <2>1, <2>2, <2>3, <2>4 DEF FindOK, Drawn, Saved, Left, Told
<1>6. FindOK(BeginScan(s, e))
  BY <1>4, <1>5, BeginScanStep
<1> QED
  BY <1>6 DEF s, e

\* emberFormAndJoinScanCompleteHandler
LEMMA ScanCompleteStep ==
  ASSUME NEW b, NEW d, ScanOver(b, d), NEW quiet, NEW candidates,
         d.scan \in {"ENERGY_SCAN", "PAN_ID_SCAN"} =>
           candidates \in [1 .. Candidates -> PanIds]
  PROVE  FindOK(ScanCompleteHandler(d, quiet, candidates))
<1> DEFINE t == ScanCompleteHandler(d, quiet, candidates)
<1>1. FindOK(d) /\ d \in FindDevice /\ d.radio = {}
  BY DEF ScanOver, FindOK, FindBase
<1>2. CASE d.scan = "ENERGY_SCAN"
  <2> DEFINE channel == IF quiet \in Channels THEN quiet ELSE d.channel
             s == [d EXCEPT !.channel = channel]
  <2>1. t = StartPanIdScan(s, candidates)
    BY <1>2 DEF ScanCompleteHandler, EnergyScanComplete
  <2>2. channel \in Channels \cup {0}
    BY <1>1 DEF FindDevice
  <2> HIDE DEF channel
  <2>3. s \in FindDevice
    BY <1>1, <2>2 DEF FindDevice
  <2>4. /\ s.net = d.net /\ s.radio = d.radio /\ s.seen = d.seen
        /\ s.panId = d.panId /\ s.host = d.host /\ s.missed = d.missed
        /\ s.offers = d.offers /\ s.reported = d.reported
    BY <1>1 DEF FindDevice
  <2> HIDE DEF s
  <2>5. FindBase(s) /\ s.reported # "NO_BEACONS"
    BY <1>1, <1>2, <2>3, <2>4
       DEF FindOK, FindBase, OneThing, PanIdFresh, Around, OffersTrue, Told
  <2> QED
    BY <1>2, <2>1, <2>5, StartPanIdScanStep
<1>3. CASE d.scan = "PAN_ID_SCAN"
  BY <1>1, <1>3, PanIdScanCompleteStep DEF ScanCompleteHandler
<1>4. CASE d.scan = "JOINABLE_SCAN" /\ NeedsDualScan(d)
  <2>1. t = BeginScan([d EXCEPT !.scan = "DUAL_CHANNEL_SCAN"], {Echo[d.channel]})
    BY <1>4 DEF ScanCompleteHandler
  <2> QED
    BY <1>1, <1>4, <2>1, DualScanStep
<1>5. CASE /\ d.scan \in {"JOINABLE_SCAN", "DUAL_CHANNEL_SCAN"}
           /\ ~(d.scan = "JOINABLE_SCAN" /\ NeedsDualScan(d))
  <2>1. t = ScanForNextJoinableNetwork([d EXCEPT !.scan = "NEXT_NETWORK"])
    BY <1>5 DEF ScanCompleteHandler
  <2> QED
    BY <1>5, <2>1, ChannelDoneStep
<1>6. CASE d.scan \in {"NOT_SCANNING", "NEXT_NETWORK"}
  <2>1. t = d
    BY <1>6 DEF ScanCompleteHandler
  <2> QED
    BY <1>1, <2>1
<1> QED
  BY <1>1, <1>2, <1>3, <1>4, <1>5, <1>6 DEF FindDevice, ScanTypes

-----------------------------------------------------------------------------
(* A beacon.                                                               *)

LEMMA HeardFields ==
  ASSUME NEW n \in Networks, NEW c \in Channels
  PROVE  /\ Heard(n, c) \in Beacon
         /\ Heard(n, c).epid = n.epid /\ Heard(n, c).panId = n.panId
         /\ Heard(n, c).open = n.open /\ n.panId # Taken
         /\ Heard(n, c).lqi = (IF c = n.channel THEN 2 ELSE 1)
         /\ StruckOut(Heard(n, c)) \in Beacon
         /\ StruckOut(Heard(n, c)).epid = n.epid
         /\ StruckOut(Heard(n, c)).lqi = Heard(n, c).lqi
         /\ StruckOut(Heard(n, c)).panId = Taken
<1>1. /\ n.epid \in Epids /\ n.panId \in PanIds /\ n.open \in BOOLEAN
      /\ n.panId # Taken
  BY FindLimits
<1>2. Heard(n, c) \in Beacon
  BY <1>1 DEF Heard, Beacon
<1>3. StruckOut(Heard(n, c)) \in Beacon
  BY <1>2 DEF StruckOut, Beacon
<1> QED
  BY <1>1, <1>2, <1>3 DEF Heard, StruckOut

\* What a beacon changes: the networks or the candidates, and what was heard
Received(b, t, n) ==
  /\ t.net = b.net /\ t.radio = b.radio /\ t.panId = b.panId
  /\ t.host = b.host /\ t.missed = b.missed /\ t.offers = b.offers /\ t.reported = b.reported
  /\ t.scan = b.scan /\ t.channel = b.channel /\ t.seen = b.seen \cup {n}

\* No network is being formed, and none is being offered.
LEMMA ReceivedBase ==
  ASSUME NEW b, FindOK(b), b.radio # {}, NEW t \in FindDevice,
         NEW n, Received(b, t, n), t.heard = b.heard \/ b.scan = "JOINABLE_SCAN"
  PROVE  FindBase(t) /\ Left(t) /\ Told(t)
<1> USE DEF Received
<1>1. b.net # "FORMING" /\ b.scan # "NEXT_NETWORK"
  BY DEF FindOK, FindBase, OneThing, Left
<1>2. OneThing(t) /\ PanIdFresh(t) /\ OffersTrue(t) /\ Left(t)
  BY <1>1 DEF FindOK, FindBase, OneThing, PanIdFresh, OffersTrue, Left
<1>3. Told(t)
  BY DEF FindOK, Told, AllOffered, OfferedEpids
<1> QED
  BY <1>2, <1>3 DEF FindBase

\* While PAN ids are looked for: a candidate is struck out
LEMMA PanIdHeardStep ==
  ASSUME NEW b, FindOK(b), b.radio # {}, b.scan = "PAN_ID_SCAN",
         NEW n \in Networks, NEW c \in b.radio
  PROVE  FindOK([NetworkFoundHandler(b, Heard(n, c)) EXCEPT
                   !.seen = @ \cup {n}, !.heard = b.heard])
<1> DEFINE found == Heard(n, c)
           left == [i \in DOMAIN b.candidates |->
                      IF b.candidates[i] = found.panId THEN Taken
                                                       ELSE b.candidates[i]]
           seen == b.seen \cup {n}
           t == [b EXCEPT !.candidates = left, !.seen = seen, !.heard = b.heard]
<1>1. b \in FindDevice /\ c \in Channels /\ Taken \notin PanIds
  BY FindLimits DEF FindOK, FindBase, FindDevice
<1>2. [NetworkFoundHandler(b, found) EXCEPT !.seen = @ \cup {n}, !.heard = b.heard]
        = t
  BY <1>1 DEF NetworkFoundHandler, FindDevice
<1>3. left \in Seq(PanIds \cup {Taken})
  <2>1. b.candidates \in Seq(PanIds \cup {Taken})
    BY <1>1 DEF FindDevice
  <2>2. b.candidates \in [1 .. Len(b.candidates) -> PanIds \cup {Taken}]
    BY <2>1
  <2>3. left \in [1 .. Len(b.candidates) -> PanIds \cup {Taken}]
    BY <2>2
  <2> QED
    BY <2>1, <2>3
<1>4. found.panId = n.panId
  BY <1>1, HeardFields
<1> HIDE DEF found
<1>5. t \in FindDevice
  <2>1. seen \in SUBSET Networks
    BY <1>1 DEF FindDevice
  <2> HIDE DEF left, seen
  <2> QED
    BY <1>1, <1>3, <2>1 DEF FindDevice
<1>6. Received(b, t, n) /\ t.candidates = left /\ t.heard = b.heard
  BY <1>1 DEF FindDevice, Received
<1> HIDE DEF t
<1>7. FindBase(t) /\ Left(t) /\ Told(t)
  BY <1>5, <1>6, ReceivedBase
<1>8. Drawn(t)
  <2>1. ASSUME NEW i \in DOMAIN left, left[i] # Taken
        PROVE  left[i] \in PanIds \ Around(t)
    <3>1. i \in DOMAIN b.candidates /\ left[i] = b.candidates[i] /\ left[i] # n.panId
      BY <1>4, <2>1
    <3>2. left[i] \in PanIds \ Around(b)
      BY <2>1, <3>1 DEF FindOK, Drawn
    <3> QED
      BY <1>6, <3>1, <3>2 DEF Around, Received
  <2> QED
    BY <1>6, <2>1 DEF FindOK, Drawn, Received
<1> QED
  BY <1>2, <1>6, <1>7, <1>8
     DEF FindOK, Saved, Struck, NoneDropped, Received, found

\* While networks are looked for: one more is saved, if it is new, open and
\* there is room.
LEMMA SaveHeardStep ==
  ASSUME NEW b, FindOK(b), b.radio # {}, b.scan = "JOINABLE_SCAN",
         NEW n \in Networks, NEW c \in b.radio, OnAir(n, c),
         NEW heard, \/ heard = b.heard
                    \/ /\ heard = b.heard \cup {n.epid} /\ n.open /\ c = n.channel
                       /\ Len(b.networks) < MaxNetworks
  PROVE  FindOK([NetworkFoundHandler(b, Heard(n, c)) EXCEPT
                   !.seen = @ \cup {n}, !.heard = heard])
<1> DEFINE found == Heard(n, c)
           known == \E i \in DOMAIN b.networks : b.networks[i].epid = found.epid
           skipped == ~n.open \/ known \/ Len(b.networks) = MaxNetworks
           nets == IF skipped THEN b.networks ELSE Append(b.networks, found)
           seen == b.seen \cup {n}
           t == [b EXCEPT !.networks = nets, !.seen = seen, !.heard = heard]
<1>1. /\ b \in FindDevice /\ c \in Channels /\ c = b.channel
      /\ b.networks \in Seq(Beacon) /\ Len(b.networks) \in Nat
  BY DEF FindOK, FindBase, FindDevice, Saved
<1>2. /\ found \in Beacon /\ found.epid = n.epid /\ found.open = n.open
      /\ found.panId # Taken /\ found.lqi = (IF c = n.channel THEN 2 ELSE 1)
  BY <1>1, HeardFields
<1>3. [NetworkFoundHandler(b, found) EXCEPT !.seen = @ \cup {n}, !.heard = heard]
        = t
  <2>1. NetworkFoundHandler(b, found) =
          IF found.open THEN SaveNetwork(b, found) ELSE b
    BY DEF NetworkFoundHandler
  <2>2. CASE skipped
    <3>1. NetworkFoundHandler(b, found) = b
      BY <1>2, <2>1, <2>2 DEF SaveNetwork
    <3> HIDE DEF skipped, found
    <3> QED
      BY <1>1, <2>2, <3>1 DEF FindDevice
  <2>3. CASE ~skipped
    <3>1. NetworkFoundHandler(b, found) = [b EXCEPT !.networks = Append(@, found)]
      BY <1>2, <2>1, <2>3 DEF SaveNetwork
    <3> HIDE DEF skipped, found
    <3> QED
      BY <1>1, <2>3, <3>1 DEF FindDevice
  <2> QED
    BY <2>2, <2>3
<1> HIDE DEF found
<1>4. nets \in Seq(Beacon)
  BY <1>1, <1>2
<1>5. t \in FindDevice
  <2>1. seen \in SUBSET Networks /\ heard \in SUBSET Epids
    BY <1>1, FindLimits DEF FindDevice
  <2> HIDE DEF nets, seen
  <2> QED
    BY <1>1, <1>4, <2>1 DEF FindDevice
<1>6. Received(b, t, n) /\ t.networks = nets /\ t.heard = heard
  BY <1>1 DEF FindDevice, Received
<1> HIDE DEF t
<1>7. FindBase(t) /\ Left(t) /\ Told(t)
  BY <1>5, <1>6, ReceivedBase
<1>8. \A i \in DOMAIN b.networks : i \in DOMAIN nets /\ nets[i] = b.networks[i]
  BY <1>1, <1>2
<1>9. Saved(t)
  <2>1. ASSUME NEW i \in DOMAIN nets
        PROVE  \E m \in Networks :
                 OnAir(m, b.channel) /\ nets[i] = Heard(m, b.channel)
    <3>1. CASE i \in DOMAIN b.networks
      BY <1>8, <3>1 DEF FindOK, Saved
    <3>2. CASE i \notin DOMAIN b.networks
      <4>1. nets[i] = found
        BY <1>1, <1>2, <3>2
      <4> QED
        BY <1>1, <4>1 DEF found
    <3> QED
      BY <3>1, <3>2
  <2> QED
    BY <1>6, <2>1 DEF FindOK, Saved, Received
<1>10. NoneDropped(t)
  <2> SUFFICES ASSUME NEW e \in heard
               PROVE  e \in OfferedEpids(t) \/ Keeps(t, e)
    BY <1>6 DEF NoneDropped
  <2>1. CASE e \in b.heard
    <3>1. e \in OfferedEpids(b) \/ Keeps(b, e)
      BY <2>1 DEF FindOK, NoneDropped
    <3> QED
      BY <1>6, <1>8, <3>1 DEF OfferedEpids, Keeps, Valid, Received
  <2>2. CASE e \notin b.heard
    <3>1. /\ e = n.epid /\ n.open /\ c = n.channel /\ Len(b.networks) < MaxNetworks
      BY <2>2
    <3>2. MaxNetworks \in Nat
      BY FindAssumption DEF FindAssumption
    <3>3. CASE known
      <4>1. PICK i \in DOMAIN b.networks : b.networks[i].epid = n.epid
        BY <1>2, <3>3
      <4>2. PICK m \in Networks : b.networks[i] = Heard(m, c)
        BY <1>1 DEF FindOK, Saved
      <4>3. m.epid = n.epid /\ Heard(m, c).panId # Taken
        BY <1>1, <4>1, <4>2, HeardFields
      <4>4. m = n
        BY <4>3, FindLimits
      <4>5. Heard(m, c).lqi = 2
        BY <1>1, <3>1, <4>4, HeardFields
      <4> QED
        BY <1>6, <1>8, <3>1, <4>1, <4>2, <4>3, <4>5 DEF Keeps, Valid
    <3>4. CASE ~known
      <4> DEFINE i == Len(b.networks) + 1
      <4>1. i \in DOMAIN nets /\ nets[i] = found
        BY <1>1, <1>2, <3>1, <3>2, <3>4
      <4> HIDE DEF i, nets
      <4> QED
        BY <1>2, <1>6, <3>1, <4>1 DEF Keeps, Valid
    <3> QED
      BY <3>3, <3>4
  <2> QED
    BY <2>1, <2>2
<1> QED
  BY <1>3, <1>6, <1>7, <1>9, <1>10
     DEF FindOK, Drawn, Struck, Received, found

\* On the other channel: the networks that are louder there are struck out.
LEMMA EchoHeardStep ==
  ASSUME NEW b, FindOK(b), b.radio # {}, b.scan = "DUAL_CHANNEL_SCAN",
         NEW n \in Networks, NEW c \in b.radio, OnAir(n, c)
  PROVE  FindOK([NetworkFoundHandler(b, Heard(n, c)) EXCEPT
                   !.seen = @ \cup {n}, !.heard = b.heard])
<1> DEFINE found == Heard(n, c)
           nets == [i \in DOMAIN b.networks |->
                      IF IsEcho(b.networks[i], found)
                      THEN StruckOut(b.networks[i]) ELSE b.networks[i]]
           seen == b.seen \cup {n}
           t == [b EXCEPT !.networks = nets, !.seen = seen, !.heard = b.heard]
<1>1. /\ b \in FindDevice /\ c = Echo[b.channel] /\ c \in Channels
      /\ b.channel \in DOMAIN Echo /\ b.channel \in Channels
      /\ b.networks \in Seq(Beacon)
  BY FindLimits DEF FindOK, FindBase, FindDevice, Struck
<1>2. found.epid = n.epid /\ found.lqi = (IF c = n.channel THEN 2 ELSE 1)
  BY <1>1, HeardFields
<1>3. [NetworkFoundHandler(b, found) EXCEPT !.seen = @ \cup {n}, !.heard = b.heard]
        = t
  <2>1. NetworkFoundHandler(b, found) = [b EXCEPT !.networks = nets]
    BY <1>1 DEF NetworkFoundHandler, StruckOut, FindDevice
  <2> HIDE DEF nets, found
  <2> QED
    BY <1>1, <2>1 DEF FindDevice
<1> HIDE DEF found
<1>4. nets \in Seq(Beacon)
  <2>1. b.networks \in [1 .. Len(b.networks) -> Beacon]
    BY <1>1
  <2>2. \A x \in Beacon : StruckOut(x) \in Beacon
    BY DEF Beacon, StruckOut
  <2>3. nets \in [1 .. Len(b.networks) -> Beacon]
    BY <2>1, <2>2
  <2> QED
    BY <1>1, <2>3
<1>5. t \in FindDevice
  <2>1. seen \in SUBSET Networks
    BY <1>1 DEF FindDevice
  <2> HIDE DEF nets, seen
  <2> QED
    BY <1>1, <1>4, <2>1 DEF FindDevice
<1>6. Received(b, t, n) /\ t.networks = nets /\ t.heard = b.heard
  BY <1>1 DEF FindDevice, Received
<1> HIDE DEF t
<1>7. FindBase(t) /\ Left(t) /\ Told(t)
  BY <1>5, <1>6, ReceivedBase
<1>8. Struck(t)
  <2> SUFFICES ASSUME NEW i \in DOMAIN nets
               PROVE  \E m \in Networks : EchoOf(t, nets[i], m)
    BY <1>1, <1>6 DEF Struck, FindOK, Received
  <2>1. PICK m \in Networks : EchoOf(b, b.networks[i], m)
    BY DEF FindOK, Struck
  <2> DEFINE heard == Heard(m, b.channel)
  <2>2. /\ heard.epid = m.epid /\ StruckOut(heard).epid = m.epid
        /\ heard.lqi = (IF b.channel = m.channel THEN 2 ELSE 1)
        /\ StruckOut(heard).lqi = heard.lqi
    BY <1>1, HeardFields
  <2>3. StruckOut(StruckOut(heard)) = StruckOut(heard)
    BY DEF StruckOut, Heard
  <2> HIDE DEF heard
  <2>4. IsEcho(b.networks[i], found) =>
          nets[i] = StruckOut(heard) /\ m.channel # b.channel
    BY <1>2, <2>1, <2>2, <2>3 DEF IsEcho, EchoOf, heard
  <2>5. ~IsEcho(b.networks[i], found) => nets[i] = b.networks[i]
    OBVIOUS
  <2>6. CASE m.epid = n.epid /\ m.channel # b.channel
    <3>1. m = n /\ c = n.channel
      BY <1>1, <2>1, <2>6, FindLimits DEF EchoOf, OnAir
    <3>2. CASE b.networks[i] = heard
      <4>1. IsEcho(b.networks[i], found)
        BY <1>2, <2>2, <2>6, <3>1, <3>2 DEF IsEcho
      <4> QED
        BY <1>6, <2>1, <2>4, <4>1 DEF EchoOf, Received, heard
    <3>3. CASE b.networks[i] = StruckOut(heard)
      BY <1>6, <2>1, <2>4, <2>5, <2>6, <3>3 DEF EchoOf, Received, heard
    <3> QED
      BY <2>1, <3>2, <3>3 DEF EchoOf, heard
  <2>7. CASE m.channel = b.channel
    BY <1>6, <2>1, <2>4, <2>5, <2>7 DEF EchoOf, Received, heard
  <2>8. CASE m.epid # n.epid /\ m.channel # b.channel
    <3>1. ~IsEcho(b.networks[i], found) /\ m # n
      BY <1>2, <2>1, <2>2, <2>8 DEF IsEcho, EchoOf, heard
    <3> QED
      BY <1>6, <2>1, <2>5, <3>1 DEF EchoOf, Received
  <2> QED
    BY <2>6, <2>7, <2>8
<1>9. NoneDropped(t)
  <2> SUFFICES ASSUME NEW e \in b.heard, Keeps(b, e)
               PROVE  Keeps(t, e)
    BY <1>6 DEF NoneDropped, OfferedEpids, FindOK, Received
  <2>1. PICK i \in Valid(b.networks) :
          b.networks[i].epid = e /\ b.networks[i].lqi = 2
    BY DEF Keeps
  <2>2. ~IsEcho(b.networks[i], found)
    BY <1>2, <2>1 DEF IsEcho
  <2>3. i \in DOMAIN nets /\ nets[i] = b.networks[i]
    BY <2>1, <2>2 DEF Valid
  <2> QED
    BY <1>6, <2>1, <2>3 DEF Keeps, Valid
<1> QED
  BY <1>3, <1>6, <1>7, <1>8, <1>9
     DEF FindOK, Drawn, Saved, Received, found

\* At any other time it is not looked at.
LEMMA UnaskedStep ==
  ASSUME NEW b, FindOK(b), b.radio # {},
         b.scan \in {"NOT_SCANNING", "NEXT_NETWORK"}, NEW n \in Networks, NEW c
  PROVE  FindOK([NetworkFoundHandler(b, Heard(n, c)) EXCEPT
                   !.seen = @ \cup {n}, !.heard = b.heard])
<1> DEFINE seen == b.seen \cup {n}
           t == [b EXCEPT !.seen = seen, !.heard = b.heard]
<1>1. b \in FindDevice /\ b.scan = "NOT_SCANNING"
  BY DEF FindOK, FindBase, Left
<1>2. [NetworkFoundHandler(b, Heard(n, c)) EXCEPT
         !.seen = @ \cup {n}, !.heard = b.heard] = t
  BY <1>1 DEF NetworkFoundHandler, FindDevice
<1>3. t \in FindDevice
  <2>1. seen \in SUBSET Networks
    BY <1>1 DEF FindDevice
  <2> HIDE DEF seen
  <2> QED
    BY <1>1, <2>1 DEF FindDevice
<1>4. Received(b, t, n) /\ t.heard = b.heard
  BY <1>1 DEF FindDevice, Received
<1> HIDE DEF t
<1>5. FindBase(t) /\ Left(t) /\ Told(t)
  BY <1>3, <1>4, ReceivedBase
<1> QED
  BY <1>1, <1>2, <1>4, <1>5
     DEF FindOK, Drawn, Saved, Struck, NoneDropped, Received

LEMMA BeaconStep ==
  ASSUME FindInv, BeaconArrives
  PROVE  FindInv'
<1>1. PICK n \in Networks, c \in device.radio :
        /\ OnAir(n, c)
        /\ LET saved == /\ device.scan = "JOINABLE_SCAN" /\ n.open
                        /\ c = n.channel /\ Len(device.networks) < MaxNetworks
           IN device' = [NetworkFoundHandler(device, Heard(n, c)) EXCEPT
                !.seen = @ \cup {n},
                !.heard = IF saved THEN @ \cup {n.epid} ELSE @]
  BY DEF BeaconArrives, Becomes, OnAir
<1> DEFINE saved == /\ device.scan = "JOINABLE_SCAN" /\ n.open
                    /\ c = n.channel /\ Len(device.networks) < MaxNetworks
           heard == IF saved THEN device.heard \cup {n.epid} ELSE device.heard
           found == NetworkFoundHandler(device, Heard(n, c))
<1>2. FindOK(device) /\ device \in FindDevice
  BY DEF FindInv, FindOK, FindBase
<1>3. found.heard = device.heard
  BY <1>2 DEF NetworkFoundHandler, SaveNetwork, FindDevice
<1>4. device' = [found EXCEPT !.seen = @ \cup {n}, !.heard = heard]
  BY <1>1, <1>3
<1> HIDE DEF found
<1>5. FindOK([found EXCEPT !.seen = @ \cup {n}, !.heard = heard])
  <2>1. CASE device.scan = "JOINABLE_SCAN"
    <3>1. \/ heard = device.heard
          \/ /\ heard = device.heard \cup {n.epid} /\ n.open /\ c = n.channel
             /\ Len(device.networks) < MaxNetworks
      OBVIOUS
    <3> HIDE DEF heard
    <3> QED
      BY <1>1, <1>2, <2>1, <3>1, SaveHeardStep DEF found
  <2>2. CASE device.scan # "JOINABLE_SCAN"
    <3>1. heard = device.heard /\ device.radio # {}
      BY <2>2
    <3>2. device.scan \in ScanTypes /\ device.scan # "ENERGY_SCAN"
      BY <1>2 DEF FindDevice, BeaconArrives
    <3> HIDE DEF heard
    <3>3. CASE device.scan = "PAN_ID_SCAN"
      BY <1>2, <3>1, <3>3, PanIdHeardStep DEF found
    <3>4. CASE device.scan = "DUAL_CHANNEL_SCAN"
      BY <1>1, <1>2, <3>1, <3>4, EchoHeardStep DEF found
    <3>5. CASE device.scan \in {"NOT_SCANNING", "NEXT_NETWORK"}
      BY <1>2, <3>1, <3>5, UnaskedStep DEF found
    <3> QED
      BY <2>2, <3>2, <3>3, <3>4, <3>5 DEF ScanTypes
  <2> QED
    BY <2>1, <2>2
<1> QED
  BY <1>4, <1>5 DEF FindInv

-----------------------------------------------------------------------------
(* The plugin, the framework and the stack.                                *)

\* What they change is mostly not about the search.
LEMMA Beside ==
  ASSUME NEW d, FindOK(d), NEW t \in FindDevice, SameSearch(d, t),
         t.net \in {d.net, "NO_NETWORK", "JOINED", "NO_PARENT"},
         t.reported = d.reported \/ t.reported # "NO_BEACONS"
  PROVE  FindOK(t)
<1>1. t.net \in {"FORMING", "JOINING", "MOVING"} => t.radio = {} /\ t.net = d.net
  BY DEF FindOK, FindBase, OneThing, SameSearch
<1> QED
  BY <1>1, Elsewhere

LEMMA NewSearchStep ==
  ASSUME NEW d, FindOK(d)
  PROVE  NewlyAsked(NewSearch(d))
<1> DEFINE t == NewSearch(d)
<1>1. d \in FindDevice
  BY DEF FindOK, FindBase
<1>2. t \in FindDevice
  BY <1>1 DEF NewSearch, FindDevice
<1>3. /\ t.scan = d.scan /\ t.channel = d.channel /\ t.networks = d.networks
      /\ t.candidates = d.candidates /\ t.radio = d.radio /\ t.seen = d.seen
      /\ t.panId = d.panId /\ t.net = d.net
      /\ t.offers = {} /\ t.heard = {} /\ t.reported = "NONE"
  BY <1>1 DEF NewSearch, FindDevice
<1> HIDE DEF t
<1>4. OneThing(t) /\ PanIdFresh(t) /\ OffersTrue(t)
  BY <1>3 DEF FindOK, FindBase, OneThing, PanIdFresh, Around, OffersTrue
<1>5. Drawn(t) /\ Saved(t)
  BY <1>3 DEF FindOK, Drawn, Saved, Around
<1>6. Struck(t)
  BY <1>3 DEF FindOK, Struck, EchoOf
<1> QED
  BY <1>2, <1>3, <1>4, <1>5, <1>6 DEF NewlyAsked, FindBase, t

LEMMA FindCallsStep ==
  ASSUME NEW d, FindOK(d), NEW find \in {"FORM", "JOIN"}
  PROVE  FindOK([d EXCEPT !.find = find])
<1> DEFINE t == [d EXCEPT !.find = find]
<1>1. d \in FindDevice
  BY DEF FindOK, FindBase
<1>2. t \in FindDevice
  BY <1>1 DEF FindDevice
<1>3. SameSearch(d, t) /\ t.net = d.net /\ t.reported = d.reported
  BY <1>1 DEF FindDevice, SameSearch
<1> HIDE DEF t
<1> QED
  BY <1>2, <1>3, Beside DEF t

LEMMA AppStep ==
  ASSUME FindInv, AppForms \/ AppJoins
  PROVE  FindInv'
<1>1. NewlyAsked(NewSearch(device))
  BY NewSearchStep DEF FindInv
<1>2. CASE AppForms
  BY <1>1, <1>2, ForUnusedPanIdStep, FindCallsStep
     DEF AppForms, AppCalls, FindUnusedPanIdAndForm, FindInv
<1>3. CASE AppJoins
  BY <1>1, <1>3, ForJoinableStep, FindCallsStep
     DEF AppJoins, AppCalls, StartSearch, FindInv
<1> QED
  BY <1>2, <1>3

LEMMA StackIsUpStep ==
  ASSUME NEW d, FindOK(d)
  PROVE  FindOK(StackIsUp(d))
<1> DEFINE t == [d EXCEPT !.net = "JOINED", !.find = "NONE",
                          !.reported = "SUCCESS", !.move = FALSE, !.attempts = 0]
<1>1. d \in FindDevice
  BY DEF FindOK, FindBase
<1>2. StackIsUp(d) = t
  BY <1>1 DEF StackIsUp, StopMove, OperationComplete, Finished, FindDevice
<1>3. t \in FindDevice
  BY <1>1 DEF FindDevice
<1>4. SameSearch(d, t) /\ t.net = "JOINED" /\ t.reported = "SUCCESS"
  BY <1>1 DEF FindDevice, SameSearch
<1> HIDE DEF t
<1> QED
  BY <1>2, <1>3, <1>4, Beside

LEMMA NetStep ==
  ASSUME NEW d, FindOK(d), NEW net \in {"NO_NETWORK", "NO_PARENT"},
         NEW move \in BOOLEAN
  PROVE  FindOK([d EXCEPT !.net = net, !.move = move])
<1> DEFINE t == [d EXCEPT !.net = net, !.move = move]
<1>1. d \in FindDevice
  BY DEF FindOK, FindBase
<1>2. t \in FindDevice
  BY <1>1 DEF FindDevice
<1>3. SameSearch(d, t) /\ t.net = net /\ t.reported = d.reported
  BY <1>1 DEF FindDevice, SameSearch
<1> HIDE DEF t
<1> QED
  BY <1>2, <1>3, Beside DEF t

LEMMA StackFailedStep ==
  ASSUME NEW d, FindOK(d), NEW net \in {"NO_NETWORK", "NO_PARENT"}
  PROVE  FindOK(StackFailed(d, net))
<1>1. d \in FindDevice /\ d.move \in BOOLEAN
  BY DEF FindOK, FindBase, FindDevice
<1>2. [d EXCEPT !.net = net] = [d EXCEPT !.net = net, !.move = d.move]
  BY <1>1 DEF FindDevice
<1>3. FindOK([d EXCEPT !.net = net])
  BY <1>1, <1>2, NetStep
<1> QED
  BY <1>3, ForNextStep DEF StackFailed, ContinueSearch

LEMMA StackIsDownStep ==
  ASSUME NEW d, FindOK(d), NEW net \in {"NO_NETWORK", "NO_PARENT"}
  PROVE  FindOK(StackIsDown(d, net))
<1> DEFINE s == [d EXCEPT !.net = net]
           M(move) == [d EXCEPT !.net = net, !.move = move]
           again == d.limit = Byte - 1 \/ d.attempts < d.limit
<1>1. d \in FindDevice /\ d.move \in BOOLEAN /\ d.attempts \in Nat
  BY DEF FindOK, FindBase, FindDevice
<1>2. s = M(d.move) /\ s.move = d.move /\ s.attempts = d.attempts
      /\ s.limit = d.limit
  BY <1>1 DEF FindDevice
<1>3. StopMove(s) = M(FALSE) /\ ScheduleMove(s) = M(again)
  BY <1>1, <1>2 DEF StopMove, ScheduleMove, FindDevice
<1>4. again \in BOOLEAN
  OBVIOUS
<1>5. StackIsDown(d, net) \in {M(d.move), M(FALSE), M(again)}
  <2> HIDE DEF s, M, again
  <2> QED
    BY <1>2, <1>3 DEF StackIsDown, StartMove, s
<1>6. FindOK(M(d.move)) /\ FindOK(M(FALSE)) /\ FindOK(M(again))
  BY <1>1, <1>4, NetStep
<1> HIDE DEF M, again
<1> QED
  BY <1>5, <1>6

LEMMA MoveEventStep ==
  ASSUME NEW d, FindOK(d)
  PROVE  FindOK(MoveEvent(d))
<1> DEFINE n == IF d.net = "NO_PARENT" /\ d.refuses # "JOIN" /\ d.radio = {}
                THEN "MOVING" ELSE d.net
           a == (d.attempts + 1) % Byte
           mv == d.limit = Byte - 1 \/ a < d.limit
           t == [d EXCEPT !.net = n, !.move = mv, !.attempts = a]
<1>1. d \in FindDevice
  BY DEF FindOK, FindBase
<1>2. /\ n \in {"NO_NETWORK", "FORMING", "JOINING", "JOINED", "NO_PARENT", "MOVING"}
      /\ n # d.net => n = "MOVING" /\ d.radio = {}
      /\ a \in Nat /\ mv \in BOOLEAN
  BY <1>1, FindLimits DEF FindDevice
<1>3. MoveEvent(d) = t
  BY <1>1 DEF MoveEvent, ScheduleMove, FindDevice
<1> HIDE DEF n, a, mv
<1>4. t \in FindDevice
  BY <1>1, <1>2 DEF FindDevice
<1>5. SameSearch(d, t) /\ t.net = n /\ t.reported = d.reported
  BY <1>1 DEF FindDevice, SameSearch
<1> HIDE DEF t
<1>6. t.net \in {"FORMING", "JOINING", "MOVING"} =>
        t.radio = {} /\ (t.net = d.net \/ t.net # "FORMING")
  BY <1>2, <1>5 DEF SameSearch, FindOK, FindBase, OneThing
<1> QED
  BY <1>3, <1>4, <1>5, <1>6, Elsewhere

LEMMA StatusStep ==
  ASSUME FindInv, JoinEnds \/ MoveEnds \/ Moves \/ GoesDown
  PROVE  FindInv'
<1>1. PICK net \in {"NO_NETWORK", "NO_PARENT"} :
        device' \in {StackIsUp(device), StackFailed(device, net),
                     MoveEvent(device), StackIsDown(device, net)}
  BY DEF JoinEnds, MoveEnds, Moves, GoesDown, Becomes
<1>2. FindOK(device)
  BY DEF FindInv
<1> QED
  BY <1>1, <1>2, StackIsUpStep, StackFailedStep, StackIsDownStep, MoveEventStep
     DEF FindInv

LEMMA SweepStep ==
  ASSUME FindInv, Sweeps
  PROVE  FindInv'
<1> DEFINE t == [device EXCEPT !.sweep = FALSE]
<1>1. device \in FindDevice /\ FindOK(device)
  BY DEF FindInv, FindOK, FindBase
<1>2. t \in FindDevice
  BY <1>1 DEF FindDevice
<1>3. SameSearch(device, t) /\ t.net = device.net /\ t.reported = device.reported
  BY <1>1 DEF FindDevice, SameSearch
<1>4. device' = Cleanup(t, "SUCCESS")
  BY DEF Sweeps
<1> HIDE DEF t
<1>5. FindOK(t)
  BY <1>1, <1>2, <1>3, Beside
<1>6. FindOK(Cleanup(t, "SUCCESS"))
  BY <1>5, CleanupStep DEF FindOK, Told
<1> QED
  BY <1>4, <1>6 DEF FindInv

LEMMA NcpStep ==
  ASSUME FindInv, NcpResets
  PROVE  FindInv'
<1> DEFINE x == IF device.net = "JOINED" THEN StackIsUp(device) ELSE device
           n == CASE x.net \in {"JOINING", "FORMING"} -> "NO_NETWORK"
                  [] x.net = "MOVING" -> "NO_PARENT"
                  [] OTHER -> x.net
           t == [x EXCEPT !.radio = {}, !.net = n]
<1>1. device' = t
  BY DEF NcpResets
<1>2. FindOK(x)
  BY StackIsUpStep DEF FindInv
<1> HIDE DEF x
<1>3. x \in FindDevice
  BY <1>2 DEF FindOK, FindBase
<1>4. n \in {"NO_NETWORK", "JOINED", "NO_PARENT"}
  BY <1>3 DEF FindDevice
<1> HIDE DEF n
<1>5. t \in FindDevice
  BY <1>3, <1>4 DEF FindDevice
<1>6. /\ t.radio = {} /\ t.net = n
      /\ t.scan = x.scan /\ t.channel = x.channel /\ t.networks = x.networks
      /\ t.candidates = x.candidates /\ t.seen = x.seen
      /\ t.host = x.host /\ t.missed = x.missed /\ t.offers = x.offers /\ t.heard = x.heard
      /\ t.reported = x.reported
  BY <1>3 DEF FindDevice
<1> HIDE DEF t
<1>7. OneThing(t) /\ PanIdFresh(t) /\ OffersTrue(t)
  BY <1>2, <1>4, <1>6 DEF FindOK, FindBase, OneThing, PanIdFresh, OffersTrue
<1>8. Drawn(t) /\ Saved(t)
  BY <1>2, <1>6 DEF FindOK, Drawn, Saved, Around
<1>9. Struck(t) /\ Left(t)
  BY <1>2, <1>6 DEF FindOK, Struck, EchoOf, Left
<1>10. NoneDropped(t) /\ Told(t)
  BY <1>2, <1>6 DEF FindOK, NoneDropped, Told, Keeps, OfferedEpids, AllOffered
<1> QED
  BY <1>1, <1>5, <1>7, <1>8, <1>9, <1>10 DEF FindInv, FindOK, FindBase

LEMMA TurnStep ==
  ASSUME FindInv, StackTurns
  PROVE  FindInv'
<1>1. PICK what \in {"NOTHING", "BUFFER", "SCAN", "JOIN"} :
        device' = [device EXCEPT !.refuses = what]
  BY DEF StackTurns, Becomes
<1>2. device \in FindDevice /\ FindOK(device)
  BY DEF FindInv, FindOK, FindBase
<1>3. device' \in FindDevice
  BY <1>1, <1>2 DEF FindDevice
<1>4. /\ SameSearch(device, device')
      /\ device'.net = device.net /\ device'.reported = device.reported
  BY <1>1, <1>2 DEF FindDevice, SameSearch
<1>5. FindOK(device')
  BY <1>2, <1>3, <1>4, Beside
<1> QED
  BY <1>5 DEF FindInv

LEMMA ScanStep ==
  ASSUME FindInv, ScanCompletes
  PROVE  FindInv'
<1>1. PICK quiet \in (IF device.scan = "ENERGY_SCAN" THEN Mask \cup {0} ELSE {0}),
           candidates \in (IF device.scan \in {"ENERGY_SCAN", "PAN_ID_SCAN"}
                           THEN [1 .. Candidates -> PanIds] ELSE {<< >>}) :
        LET missed == /\ device.scan # "ENERGY_SCAN"
                      /\ ~({n \in Networks : n.channel \in device.radio}
                             \subseteq device.seen)
        IN device' = ScanCompleteHandler(
             [device EXCEPT !.radio = {}, !.missed = @ \/ missed],
             quiet, candidates)
  BY DEF ScanCompletes, Becomes
<1> DEFINE missed == /\ device.scan # "ENERGY_SCAN"
                     /\ ~({n \in Networks : n.channel \in device.radio}
                            \subseteq device.seen)
           m == device.missed \/ missed
           d == [device EXCEPT !.radio = {}, !.missed = m]
<1>2. device \in FindDevice /\ FindOK(device) /\ device.radio # {}
  BY DEF FindInv, FindOK, FindBase, ScanCompletes
<1>3. device' = ScanCompleteHandler(d, quiet, candidates)
  BY <1>1
<1>4. /\ m \in BOOLEAN
      /\ device.missed => m
      /\ device.scan # "ENERGY_SCAN" /\ ~m =>
           \A n \in Networks : n.channel \in device.radio => n \in device.seen
  BY <1>2 DEF FindDevice
<1> HIDE DEF m, missed
<1>5. d \in FindDevice
  BY <1>2, <1>4 DEF FindDevice
<1>6. /\ d.radio = {} /\ d.host = device.host /\ d.missed = m /\ d.net = device.net
      /\ d.scan = device.scan /\ d.channel = device.channel
      /\ d.networks = device.networks /\ d.candidates = device.candidates
      /\ d.seen = device.seen /\ d.panId = device.panId
      /\ d.offers = device.offers /\ d.heard = device.heard
      /\ d.reported = device.reported
  BY <1>2 DEF FindDevice
<1> HIDE DEF d
<1>7. FindOK(d)
  <2>1. OneThing(d) /\ PanIdFresh(d) /\ OffersTrue(d)
    BY <1>2, <1>4, <1>6 DEF FindOK, FindBase, OneThing, PanIdFresh, Around, OffersTrue
  <2>2. Drawn(d) /\ Saved(d)
    BY <1>2, <1>6 DEF FindOK, Drawn, Saved, Around
  <2>3. Struck(d) /\ Left(d)
    BY <1>2, <1>4, <1>6 DEF FindOK, Struck, EchoOf, Left
  <2>4. NoneDropped(d) /\ Told(d)
    BY <1>2, <1>6 DEF FindOK, NoneDropped, Told, Keeps, OfferedEpids, AllOffered
  <2> QED
    BY <1>5, <2>1, <2>2, <2>3, <2>4 DEF FindOK, FindBase
<1>8. ScanOver(device, d)
  <2>1. device.scan # "NEXT_NETWORK" /\ \E c \in Channels : c \in device.radio
    BY <1>2 DEF FindOK, Left, FindDevice
  <2> QED
    BY <1>2, <1>4, <1>6, <1>7, <2>1 DEF ScanOver
<1>9. FindOK(ScanCompleteHandler(d, quiet, candidates))
  BY <1>1, <1>6, <1>8, ScanCompleteStep
<1> QED
  BY <1>3, <1>9 DEF FindInv

-----------------------------------------------------------------------------
(* The invariant, and what follows.                                        *)

LEMMA FindStarts == FindInit => FindInv
<1> SUFFICES ASSUME FindInit PROVE FindInv
  OBVIOUS
<1>1. PICK build \in Builds, limit \in MoveLimits :
        device = NewDevice(build, limit)
  BY DEF FindInit
<1>2. <<>> \in Seq(Beacon) /\ <<>> \in Seq(PanIds \cup {Taken})
  OBVIOUS
<1>3. device \in FindDevice
  <2> DEFINE host == build \in {"host coordinator", "host end device"}
             coordinator == build \in {"host coordinator", "soc coordinator"}
  <2>1. host \in BOOLEAN /\ coordinator \in BOOLEAN
    OBVIOUS
  <2> DEFINE New(h, c) ==
        [host |-> h, coordinator |-> c,
         scan |-> "NOT_SCANNING", channel |-> 0, mask |-> {}, networks |-> << >>,
         candidates |-> << >>, buffer |-> FALSE, sweep |-> FALSE,
         find |-> "NONE", move |-> FALSE, attempts |-> 0, limit |-> limit,
         net |-> "NO_NETWORK", radio |-> {}, refuses |-> "NOTHING",
         reported |-> "NONE", offers |-> {}, heard |-> {}, seen |-> {},
         missed |-> FALSE, panId |-> 0, resumed |-> FALSE]
  <2>2. device = New(host, coordinator)
    BY <1>1 DEF NewDevice
  <2> HIDE DEF host, coordinator
  <2> QED
    BY <1>2, <2>1, <2>2 DEF FindDevice, ScanTypes
<1>4. /\ device.net = "NO_NETWORK" /\ device.scan = "NOT_SCANNING"
      /\ device.offers = {} /\ device.reported = "NONE"
  BY <1>1 DEF NewDevice
<1> QED
  BY <1>3, <1>4
     DEF FindInv, FindOK, FindBase, OneThing, PanIdFresh, OffersTrue,
         Drawn, Saved, Struck, Left, NoneDropped, Told

LEMMA FindKept ==
  ASSUME FindInv, [FindNext]_findVars
  PROVE  FindInv'
<1>1. CASE UNCHANGED findVars
  BY <1>1 DEF FindInv, findVars
<1>2. CASE FindNext
  BY <1>2, AppStep, BeaconStep, ScanStep, StatusStep, SweepStep, NcpStep, TurnStep
     DEF FindNext
<1> QED
  BY <1>1, <1>2

\* What the library saves, strikes out and draws is what was heard on the air,
\* in every state of the search and of the stack.
THEOREM FindInvariant == FindSpec => []FindInv
  BY FindStarts, FindKept, PTL DEF FindSpec

\* Networks are offered on the channel they are on: what only an echo of was
\* heard is struck out before the offers begin.
THEOREM OffersOnTrueChannel == FindSpec => []TrueChannel
<1>1. FindInv => TrueChannel
  BY DEF FindInv, FindOK, FindBase, OffersTrue, AtHome, TrueChannel
<1> QED
  BY <1>1, FindInvariant, PTL

\* A search that ends without beacons has offered all it heard, though offers
\* are taken from the end of a list that beacons add to and strike out of.
THEOREM SearchSkipsNone == FindSpec => []NoneSkipped
<1>1. FindInv => NoneSkipped
  BY DEF FindInv, FindOK, Told, AllOffered, OfferedEpids, NoneSkipped
<1> QED
  BY <1>1, FindInvariant, PTL

\* A network is formed with a PAN id that no network heard has.
THEOREM FormsWithUnusedPanId == FindSpec => []PanIdUnused
<1>1. FindInv => PanIdUnused
  BY DEF FindInv, FindOK, FindBase, PanIdFresh, Around, PanIdUnused
<1> QED
  BY <1>1, FindInvariant, PTL

=============================================================================
