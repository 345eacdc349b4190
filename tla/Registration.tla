---------------------------- MODULE Registration ----------------------------
(***************************************************************************)
(* A device registers in a Smart Energy network                            *)
(* (smart-energy-registration.c): it looks for the trust center's key      *)
(* establishment cluster, establishes a link key, looks for energy service *)
(* interfaces (ESIs) and their addresses, gets a link key with each, binds *)
(* to them and takes the time from one.  With it the three parts it works  *)
(* with: service discovery (service-discovery-common.c), the partner link  *)
(* key exchange (partner-link-key-exchange.c) and the keepalive of the     *)
(* trust center (trust-center-keepalive.c), and what the stack's status    *)
(* does to them (af-main-common.c, util.c).                                *)
(*                                                                         *)
(* Handlers call each other: an abort stops the registration, which tells  *)
(* the keepalive, which may reboot.  So an operator takes the device and   *)
(* gives the device that the calls leave, and an action applies one of     *)
(* them.  The other nodes are the answers they send.  An event's delay is  *)
(* left out but where the order of two events hangs on it.                 *)
(*                                                                         *)
(* The device has its certificate and the libraries, is not itself the     *)
(* trust center, and has one of the client clusters that need an ESI.      *)
(***************************************************************************)
EXTENDS Integers, Sequences, FiniteSets

CONSTANTS
  TrustCenter, Esis,
  None,
  EsiTableSize,      \* EMBER_AF_PLUGIN_SMART_ENERGY_REGISTRATION_ESI_TABLE_SIZE
  ErrorLimit,        \* ..._ERROR_LIMIT
  FailureLimit,      \* of the keepalive
  Bindings,          \* pairs of an endpoint and a client cluster on it
  Rediscovery,       \* ESIs are looked for again after a while
  MaxJoins, MaxFaults  \* bounds: times the network comes up, and all that goes
               \* wrong: calls refused, answers lost, doubled or overtaken

\* What is asked for
Kinds == {"match", "address", "time", "alive"}

ASSUME RegistrationAssumption ==
  /\ {EsiTableSize, ErrorLimit, FailureLimit, Bindings} \subseteq Nat \ {0}
  /\ Rediscovery \in BOOLEAN
  /\ {MaxJoins, MaxFaults} \subseteq Nat
  /\ None \notin Esis \cup {TrustCenter} \cup Nat \cup Kinds
  /\ None \notin [kind : Kinds, from : Esis \cup {TrustCenter}]

VARIABLES
  dev,         \* what the device keeps
  answers,     \* answers under way to it
  up, alive,   \* the network, and its trust center
  joins, faults

vars == <<dev, answers, up, alive, joins, faults>>

\* EmAfPluginSmartEnergyRegistrationState
States == {"initial", "findKe", "establish", "findEsis", "findAddresses",
           "partnerKeys", "bind", "timeSource", "complete", "failed"}
BeyondKe == {"findEsis", "findAddresses", "partnerKeys", "bind",
             "timeSource", "complete"}

\* After a start.  What follows `sent' is not in the program's variables: the
\* network's trust center (they are numbered), whether its link key is
\* authorized, whether a registration with it has failed or was given up,
\* whether the search for another was refused, and a reboot, "early" where the
\* trust center has changed and no registration with the new one has failed.
Boot == [state |-> "initial", errors |-> 0, event |-> FALSE,
         tcEndpoint |-> None, esis |-> <<>>, i |-> 0, b |-> 0,
         resuming |-> FALSE, valid |-> FALSE,
         finding |-> None, unicast |-> FALSE, ke |-> None, target |-> None,
         keep |-> "initial", keepEvent |-> FALSE, waiting |-> FALSE,
         failures |-> 0,
         sent |-> {}, tc |-> 0, authorized |-> FALSE, tried |-> FALSE,
         refused |-> FALSE, reboot |-> "no"]

Init == /\ dev = Boot /\ answers = {}
        /\ up = FALSE /\ alive = TRUE /\ joins = 0 /\ faults = 0

\* What becomes of the calls of a handler: all succeed, the one it is about is
\* refused, so is (in a search of the keepalive) its emberGetKey, or there is
\* no network
Luck == {"ok", "refused", "keyless", "down"}

AnswersOf(kind, nodes) == {[kind |-> kind, from |-> n] : n \in nodes}

-----------------------------------------------------------------------------
(* Trust center keepalive                                                  *)

SendKeepaliveSignal(s, c) ==
  [s EXCEPT !.keep = "send", !.waiting = c # "down", !.keepEvent = TRUE,
            !.sent = IF c # "down"
                     THEN @ \cup AnswersOf("alive", {TrustCenter}) ELSE @]

\* emberAfTrustCenterKeepaliveUpdateCallback; halReboot does not return
KeepaliveUpdate(s, c) ==
  IF s.keep = "initial" THEN SendKeepaliveSignal([s EXCEPT !.failures = 0], c)
  ELSE IF s.keep = "send" THEN s
  ELSE IF s.authorized \/ c = "keyless"
       THEN [s EXCEPT !.keep = "send", !.keepEvent = TRUE]
       ELSE [s EXCEPT !.reboot = IF s.tried \/ s.tc = 0 THEN "late"
                                                        ELSE "early"]

KeepaliveAbort(s) == [s EXCEPT !.keep = "initial", !.keepEvent = FALSE]

\* A search that cannot be started is not tried again
InitiateSearch(s, c) ==
  IF c = "ok" THEN [s EXCEPT !.keep = "search"] ELSE [s EXCEPT !.refused = TRUE]

\* mutant: the count starts again with every signal that is not answered
MessageTimeout_Resets(s, c) ==
  LET t == [s EXCEPT !.waiting = FALSE, !.failures = 1]
  IN IF t.failures >= FailureLimit THEN InitiateSearch(t, c)
                                   ELSE [t EXCEPT !.keepEvent = TRUE]

\* Beyond the limit the count makes no difference
MessageTimeout(s, c) ==
  LET t == [s EXCEPT !.waiting = FALSE,
                     !.failures = IF @ < FailureLimit THEN @ + 1 ELSE @]
  IN IF t.failures >= FailureLimit THEN InitiateSearch(t, c)
                                   ELSE [t EXCEPT !.keepEvent = TRUE]

KeepaliveHandler(s, c) ==
  LET t == [s EXCEPT !.keepEvent = FALSE]
  IN IF s.waiting THEN MessageTimeout(t, c)
     ELSE IF s.keep = "send" 
          THEN SendKeepaliveSignal(t, IF c = "ok" THEN c ELSE "down")
     ELSE t

KeepaliveAnswered(s) ==
  IF s.keep = "send"
  THEN [s EXCEPT !.waiting = FALSE, !.failures = 0, !.keepEvent = TRUE]
  ELSE s

-----------------------------------------------------------------------------
(* Registration: start, stop, errors                                       *)

\* stopRegistration
Stop(s, success, c) ==
  LET t == KeepaliveUpdate(s, c)
  IN IF success /\ Rediscovery
     THEN [t EXCEPT !.state = "initial", !.errors = 0, !.event = TRUE]
     ELSE [t EXCEPT !.state = "initial"]

Abort(s, c) == Stop([s EXCEPT !.event = FALSE], FALSE, c)

Transition(s, next) ==
  [s EXCEPT !.state = next, !.errors = 0, !.event = TRUE]

AtLimit(s) == s.errors + 1 >= ErrorLimit

\* mutant: the limit is never reached
Error_NoLimit(s, c) == [s EXCEPT !.errors = 1, !.event = TRUE]

\* checkErrorCountAndSetEventControl
Resume(s) == [s EXCEPT !.errors = 0, !.event = TRUE]
Error(s, c) ==
  LET t == [s EXCEPT !.errors = @ + 1]
  IN IF AtLimit(s) THEN Abort([t EXCEPT !.tried = TRUE], c)
                   ELSE [t EXCEPT !.event = TRUE]

\* emberAfRegistrationStartCallback: a registration that ended is started
\* again, because the state has left "complete"
Start(s, c) ==
  IF s.state = "complete" THEN KeepaliveUpdate(s, c)
  ELSE IF s.state = "initial" THEN Transition(s, "findKe") ELSE s

-----------------------------------------------------------------------------
(* Service discovery                                                       *)

\* The three queries.  One at a time; the answers are told apart by their
\* kind alone.
Find(s, kind, nodes, unicast, c) ==
  IF s.finding = None /\ c = "ok"
  THEN [s EXCEPT !.finding = kind, !.unicast = unicast,
                 !.sent = @ \cup AnswersOf(kind, nodes)]
  ELSE Error(s, c)

\* discoveryCallback, the response
Record(s, m) ==
  IF s.finding # "match" THEN s
  ELSE IF s.state = "findKe"
       THEN [s EXCEPT !.tcEndpoint = IF @ = None
                               THEN [node |-> m.from, of |-> s.tc] ELSE @]
  ELSE IF s.state = "findEsis" /\ Len(s.esis) < EsiTableSize
       THEN [s EXCEPT !.esis = Append(@, [node |-> m.from, eui64 |-> None])]
  ELSE s

\* emberGetKey may fail
FoundKe(s, c) ==
  IF s.tcEndpoint = None THEN Error(s, c)
  ELSE IF c \in {"refused", "keyless"} THEN Abort(s, c)
  ELSE Transition(s, IF s.authorized THEN "findEsis" ELSE "establish")

FoundAddress(s, m) ==
  LET t == [s EXCEPT !.esis[s.i + 1].eui64 = m.from, !.i = @ + 1]
  IN IF t.i = Len(t.esis) THEN Transition([t EXCEPT !.i = 0], "partnerKeys")
                          ELSE Resume(t)

\* mutant: an address that is not found leaves the event alone
DiscoveryCallback_NoRetry(s, m, c) ==
  CASE s.state = "findKe" -> FoundKe(s, c)
    [] s.state = "findEsis" /\ m = None /\ ~s.unicast ->
         IF s.esis = <<>> THEN Error(s, c) ELSE Transition(s, "findAddresses")
    [] s.state = "findAddresses" /\ m # None /\ s.unicast -> FoundAddress(s, m)
    [] OTHER -> s

\* discoveryCallback; a timer that expires brings no answer
DiscoveryCallback(s, m, c) ==
  CASE s.state = "findKe" -> FoundKe(s, c)
    [] s.state = "findEsis" /\ m = None /\ ~s.unicast ->
         IF s.esis = <<>> THEN Error(s, c) ELSE Transition(s, "findAddresses")
    [] s.state = "findAddresses" ->
         IF m # None /\ s.unicast THEN FoundAddress(s, m) ELSE Error(s, c)
    [] OTHER -> s

\* emAfServiceDiscoveryIncoming: whoever sent it, whatever it answers
Discovered(s, m, c) ==
  IF s.finding # m.kind THEN s
  ELSE LET t == DiscoveryCallback(Record(s, m), m, c)
       IN IF s.unicast THEN [t EXCEPT !.finding = None] ELSE t

\* emAfServiceDiscoveryComplete
DiscoveryComplete(s, c) ==
  DiscoveryCallback([s EXCEPT !.finding = None], None, c)

-----------------------------------------------------------------------------
(* Key establishment and partner link keys                                 *)

\* mutant: any end of the session will do
KeCallback_Any(s, established, c) ==
  IF s.state = "establish" THEN Transition(s, "findEsis") ELSE s

\* emberAfKeyEstablishmentCallback, the end of a session
KeCallback(s, established, c) ==
  IF s.state # "establish" THEN s
  ELSE IF established THEN Transition(s, "findEsis") ELSE Error(s, c)

\* performKeyEstablishment: refused while a session lasts; a session that
\* fails at once has called back before the status is looked at
PerformKeyEstablishment(s, c) ==
  IF s.ke # None THEN Error(s, c)
  ELSE IF c = "ok" THEN [s EXCEPT !.ke = s.tc]
  ELSE Error(KeCallback(s, FALSE, c), c)

\* performPartnerLinkKeyExchange: the trust center is passed over
PerformPartnerLinkKeyExchange(s, c) ==
  LET others == {j \in s.i .. Len(s.esis) - 1 :
                   s.esis[j + 1].node # TrustCenter}
  IN IF others = {} THEN Transition([s EXCEPT !.i = 0], "bind")
     ELSE LET j == CHOOSE j \in others : \A k \in others : j <= k
              t == [s EXCEPT !.i = j]
          IN IF s.target = None /\ s.authorized /\ c = "ok"
             THEN [t EXCEPT !.target = s.esis[j + 1].node]
             ELSE Error(t, c)

\* partnerLinkKeyExchangeComplete and the callback
PartnerLinkKeyExchangeComplete(s, success, c) ==
  LET t == [s EXCEPT !.target = None]
  IN IF s.state # "partnerKeys" THEN t
     ELSE IF success THEN Resume([t EXCEPT !.i = @ + 1]) ELSE Error(t, c)

-----------------------------------------------------------------------------
(* Binding and time                                                        *)

\* performBinding: one request a step.  The static indices start again when
\* the error limit ends the registration, not when something else does.
PerformBinding(s, c) ==
  LET t == IF s.b = Bindings THEN [s EXCEPT !.i = @ + 1, !.b = 0] ELSE s
  IN IF t.i >= Len(t.esis)
     THEN Transition([t EXCEPT !.i = 0], "timeSource")
     ELSE IF c = "ok" THEN Resume([t EXCEPT !.b = @ + 1])
     ELSE IF AtLimit(t) THEN Error([t EXCEPT !.b = 0], c) ELSE Error(t, c)

\* determineAuthoritativeTimeSource; `resuming' is not reset at the end
DetermineTimeSource(s, c) ==
  LET t == IF s.resuming THEN s ELSE [s EXCEPT !.valid = FALSE]
      fails == Error([t EXCEPT !.resuming = ~AtLimit(t)], c)
  IN IF t.i < Len(t.esis)
     THEN IF c = "ok"
          THEN Resume([t EXCEPT !.i = @ + 1, !.resuming = TRUE,
                 !.sent = @ \cup AnswersOf("time", {t.esis[t.i + 1].node})])
          ELSE fails
     ELSE IF t.valid THEN Transition([t EXCEPT !.i = 0], "complete") ELSE fails

\* ..._ReadAttributesResponseCallback, for a server that has the time
TimeAnswered(s) ==
  IF s.state = "timeSource" THEN [s EXCEPT !.valid = TRUE] ELSE s

\* emAfPluginSmartEnergyRegistrationTick
RegistrationTick(s, c) ==
  LET t == [s EXCEPT !.event = FALSE]
  IN CASE s.state = "initial" -> Start(t, c)
       [] s.state = "findKe" -> Find([t EXCEPT !.tcEndpoint = None],
                                     "match", {TrustCenter}, TRUE, c)
       [] s.state = "establish" -> PerformKeyEstablishment(t, c)
       [] s.state = "findEsis" -> Find([t EXCEPT !.esis = <<>>, !.i = 0],
                                       "match", Esis, FALSE, c)
       [] s.state = "findAddresses" ->
            Find(t, "address", {t.esis[t.i + 1].node}, TRUE, c)
       [] s.state = "partnerKeys" -> PerformPartnerLinkKeyExchange(t, c)
       [] s.state = "bind" -> PerformBinding(t, c)
       [] s.state = "timeSource" -> DetermineTimeSource(t, c)
       [] s.state = "complete" -> Stop(t, TRUE, c)

-----------------------------------------------------------------------------
(* Actions                                                                 *)

Fault == faults < MaxFaults /\ faults' = faults + 1

Running == dev.reboot = "no"

Lucks(c) == /\ IF c = "keyless" THEN dev.keep = "search" ELSE up = (c # "down")
            /\ IF c \in {"refused", "keyless"} THEN Fault ELSE UNCHANGED faults

\* A timer that expires although the answer is on its way
Awaited(kind) == up /\ \E m \in answers : m.kind = kind
Overtaken(c) == c = "ok" /\ Fault

\* A reboot forgets everything; a dead trust center does not answer
Took(s, before) ==
  /\ answers' = before \cup {m \in s.sent : m.from = TrustCenter => alive}
  /\ dev' = IF s.reboot = "no" THEN [s EXCEPT !.sent = {}]
                               ELSE [Boot EXCEPT !.reboot = s.reboot]

\* The delays before the event of "findKe" are longer than a discovery lasts
RegistrationEvent(c) ==
  /\ Running /\ dev.event /\ Lucks(c)
  /\ dev.state = "findKe" => dev.finding = None
  /\ Took(RegistrationTick(dev, c), answers)
  /\ UNCHANGED <<up, alive, joins>>

\* A search takes the device off its network
KeepaliveEvent(c) ==
  /\ Running /\ dev.keepEvent
  /\ IF dev.waiting /\ Awaited("alive") THEN Overtaken(c) ELSE Lucks(c)
  /\ Took(KeepaliveHandler(dev, c), answers)
  /\ up' = (up /\ ~(dev.keep = "send" /\ dev'.keep = "search"))
  /\ UNCHANGED <<alive, joins>>

DiscoveryTimeout(c) ==
  /\ Running /\ dev.finding # None
  /\ IF Awaited(dev.finding) THEN Overtaken(c) ELSE Lucks(c)
  /\ Took(DiscoveryComplete(dev, c), answers)
  /\ UNCHANGED <<up, alive, joins>>

\* Answers come in any order, or not at all, or twice
Answer(m, c, again) ==
  /\ Running /\ up /\ m \in answers
  /\ IF again THEN c = "ok" /\ Fault ELSE Lucks(c)
  /\ c = "refused" => dev.state = "findKe" /\ dev.finding = m.kind
  /\ Took(CASE m.kind = "alive" -> KeepaliveAnswered(dev)
            [] m.kind = "time" -> TimeAnswered(dev)
            [] OTHER -> Discovered(dev, m, c),
          IF again THEN answers ELSE answers \ {m})
  /\ UNCHANGED <<up, alive, joins>>

Lose(m) ==
  /\ Running /\ m \in answers /\ Fault
  /\ answers' = answers \ {m}
  /\ UNCHANGED <<dev, up, alive, joins>>

\* Of a session with a former trust center only the failure is left
KeyEstablishmentEnds(established, c) ==
  /\ Running /\ dev.ke # None /\ Lucks(c) /\ c # "refused"
  /\ established => dev.ke = dev.tc /\ up /\ alive
  /\ LET s == [dev EXCEPT !.ke = None, !.authorized = @ \/ established]
     IN Took(KeCallback(s, established, c), answers)
  /\ UNCHANGED <<up, alive, joins>>

\* The partner refuses, the key arrives, or the timeout event comes
PartnerLinkKeyExchangeEnds(success, c) ==
  /\ Running /\ dev.target # None /\ Lucks(c) /\ c # "refused"
  /\ success => up
  /\ Took(PartnerLinkKeyExchangeComplete(dev, success, c), answers)
  /\ UNCHANGED <<up, alive, joins>>

\* emAfStackStatusHandler
NetworkUp ==
  /\ Running /\ ~up /\ joins < MaxJoins
  /\ up' = TRUE /\ joins' = joins + 1
  /\ \/ Took(Start(dev, "ok"), answers) /\ UNCHANGED faults
     \/ Lucks("keyless") /\ Took(Start(dev, "keyless"), answers)
  /\ UNCHANGED alive

\* A rejoin, of the search or of the application, has found another one; what
\* the former network has under way is encrypted with a key that is gone
TrustCenterEuiHasChanged ==
  /\ Running /\ joins \in 1 .. MaxJoins - 1
  /\ up' = TRUE /\ alive' = TRUE /\ joins' = joins + 1
  /\ LET s == [dev EXCEPT !.tc = @ + 1, !.authorized = FALSE,
                          !.tried = FALSE]
     IN \/ Took(Start(Abort(s, "ok"), "ok"), {}) /\ UNCHANGED faults
        \/ Lucks("keyless") /\ Took(Start(Abort(s, "keyless"), "ok"), {})

\* NETWORK_DOWN, JOIN_FAILED, MOVE_FAILED ...: emberAfStackDown.  Answers
\* under way may still come when the network is up again.
StackDown ==
  /\ Running
  /\ up \/ dev.keep = "search"
  /\ up' = FALSE
  /\ \E c \in {"down", "keyless"} :
       /\ IF c = "keyless" THEN Lucks(c) ELSE UNCHANGED faults
       /\ Took(KeepaliveAbort(Abort([dev EXCEPT !.tried = TRUE], c)), answers)
  /\ UNCHANGED <<alive, joins>>

TrustCenterDies ==
  /\ Running /\ alive /\ Fault
  /\ alive' = FALSE
  /\ UNCHANGED <<dev, answers, up, joins>>

Events == \E c \in Luck :
  \/ RegistrationEvent(c) \/ KeepaliveEvent(c) \/ DiscoveryTimeout(c)
  \/ \E b \in BOOLEAN : \/ KeyEstablishmentEnds(b, c)
                        \/ PartnerLinkKeyExchangeEnds(b, c)
                        \/ \E m \in answers : Answer(m, c, b)

Next == \/ Events \/ \E m \in answers : Lose(m)
        \/ NetworkUp \/ TrustCenterEuiHasChanged \/ StackDown
        \/ TrustCenterDies

Spec == Init /\ [][Next]_vars

\* The main loop runs every event that is due and takes in what arrives; a key
\* establishment ends (KeyEstablishment), and so does a link key exchange,
\* which has a timeout
FairSpec ==
  /\ Spec
  /\ WF_vars(\E c \in Luck : RegistrationEvent(c))
  /\ WF_vars(\E c \in Luck : KeepaliveEvent(c))
  /\ WF_vars(\E c \in Luck : DiscoveryTimeout(c))
  /\ \A kind \in Kinds :
       WF_vars(\E m \in answers : m.kind = kind /\ Answer(m, "ok", FALSE))
  /\ WF_vars(\E c \in Luck, b \in BOOLEAN : KeyEstablishmentEnds(b, c))
  /\ WF_vars(\E c \in Luck, b \in BOOLEAN : PartnerLinkKeyExchangeEnds(b, c))

-----------------------------------------------------------------------------
(* Properties                                                              *)

\* The types, and that the index into the ESI table stays below the count
\* whenever a step uses it (smart-energy-registration.c:559-721).
RegTypeOK ==
  /\ dev.state \in States \ {"failed"}
  /\ dev.errors \in 0 .. ErrorLimit + 1
  /\ Len(dev.esis) <= EsiTableSize
  /\ dev.i \in 0 .. Len(dev.esis) /\ dev.b \in 0 .. Bindings
  /\ dev.state = "findAddresses" => dev.i < Len(dev.esis)
  /\ dev.finding \in {None, "match", "address"}
  /\ dev.keep \in {"initial", "send", "search"}
  /\ dev.failures \in 0 .. FailureLimit
  /\ joins \in 0 .. MaxJoins /\ faults \in 0 .. MaxFaults

\* A registration never waits for nothing: its event is scheduled, or the
\* part it has asked will call it back.
NeverStuck ==
  \/ dev.state = "initial" \/ dev.event
  \/ dev.state \in {"findKe", "findEsis", "findAddresses"}
       /\ dev.finding # None
  \/ dev.state = "establish" /\ dev.ke # None
  \/ dev.state = "partnerKeys" /\ dev.target # None

\* Nothing beyond the key establishment is done, and no success reported,
\* without an authorized link key of the network's present trust center,
\* whatever callbacks of an earlier registration come late.
BeyondKeAuthorized == dev.state \in BeyondKe => dev.authorized

\* A registration ends, with success or without.
RegistrationEnds == dev.state # "initial" ~> dev.state = "initial"

\* A trust center that has died is searched for in the end, unless the search
\* was refused: then nothing starts the keepalive again
\* (trust-center-keepalive.c:207-212).
Lost == dev.keep = "send" /\ up /\ ~alive
TrustCenterSearched == Lost ~> (~Lost \/ dev.refused)

\* The comment at af-main-common.c:605-610 has a changed trust center either
\* registered with, or the device rebooted when that has failed.  But the
\* abort that precedes the registration tells the keepalive, which still
\* searches, that a registration has failed, and it reboots at once
\* (trust-center-keepalive.c:60-72).
NoEarlyReboot == dev.reboot # "early"
=============================================================================
