-------------------------- MODULE KeyEstablishment --------------------------
(***************************************************************************)
(* Certificate based key establishment (key-establishment.c): an initiator *)
(* and a responder exchange certificates, ephemeral keys and confirmations *)
(* over unicasts and store a common link key.  One of the two is always    *)
(* the trust center.  A node keeps one session; the ECC operations run on  *)
(* the network processor, and while one runs no event does (af-event.c,    *)
(* crypto-state.c).                                                        *)
(*                                                                         *)
(* A handler is one action.  Messages may overtake one another, be lost    *)
(* (the sender is told, sooner or later), arrive twice, or arrive while    *)
(* the sender is told they have not; a timer that runs may expire at any   *)
(* moment.  Every node has its certificate and its libraries; wording,     *)
(* the length of a timeout and the reasons inside a Terminate message are  *)
(* left out.                                                               *)
(***************************************************************************)
EXTENDS Integers, Sequences, FiniteSets, SequencesExt

CONSTANTS
  TrustCenter, Devices,
  Endpoints,         \* endpoints of a node that have the cluster
  Outside,           \* devices outside the network: sessions are inter-PAN
  None,
  MaxStarts, MaxFaults  \* bounds: sessions started, and all that goes wrong:
             \* messages lost or doubled, refusals, results lost, and timers
             \* that expire although the answer is on its way

ASSUME KeyEstablishmentAssumption ==
  /\ Outside \subseteq Devices
  /\ None \notin Devices \cup {TrustCenter} /\ TrustCenter \notin Devices
  /\ \E e \in Endpoints : \A f \in Endpoints : f <= e
  /\ {MaxStarts, MaxFaults} \subseteq Nat

VARIABLES
  node,        \* what each node keeps
  net,         \* messages under way
  unsent,      \* messages whose sender will be told that they failed
  stored,      \* link keys established: by whom, in which role, and whether
               \* the stack kept them
  starts, faults

vars == <<node, net, unsent, stored, starts, faults>>

Nodes == Devices \cup {TrustCenter}

\* KeyEstablishEvent
NoEvent == 0
Begin == 1
GenerateKeys == 2
SendEphemeral == 3
GenerateSecret == 4
SendConfirm == 5
ReceivedConfirm == 6     \* the initiator's only

NumSeqNumber == 4        \* apsSequenceNumbers[NUM_SEQ_NUMBER]

Idle == [ep |-> CHOOSE e \in Endpoints : \A f \in Endpoints : f <= e,
         ev |-> NoEvent, isInitiator |-> TRUE, partner |-> None,
         intra |-> FALSE, partnerEp |-> 0, seqs |-> <<>>, ticks |-> {},
         cert |-> None, pub |-> 0, smac |-> <<>>,
         own |-> 0, link |-> <<>>, op |-> "none", crypto |-> FALSE,
         made |-> 0, seq |-> 0]

Init ==
  /\ node = [n \in Nodes |-> Idle]
  /\ net = {} /\ unsent = {} /\ stored = {}
  /\ starts = 0 /\ faults = 0

-----------------------------------------------------------------------------
(* What a handler leaves: the node, the messages it sends, the link keys   *)
(* it stores.                                                              *)

Result(s) == [s |-> s, out |-> {}, keys |-> {}]

\* To the partner the state names: partner.isInitiator gives the direction
Send(n, r, cmd, data) ==
  [r EXCEPT !.s.seq = @ + 1,
            !.out = @ \cup {[src |-> n, dst |-> r.s.partner, cmd |-> cmd,
                             toServer |-> ~r.s.isInitiator, data |-> data,
                             intra |-> r.s.intra, seq |-> r.s.seq,
                             srcEp |-> r.s.ep, dstEp |-> r.s.partnerEp]}]

\* mutant: the tick stays scheduled
Clear_KeepsTick(s) ==
  [s EXCEPT !.isInitiator = TRUE, !.ev = NoEvent,
            !.cert = None, !.pub = 0, !.smac = <<>>,
            !.own = 0, !.link = <<>>]

\* clearKeyEstablishmentState: the partner and the sequence numbers stay
Clear(s) ==
  [s EXCEPT !.isInitiator = TRUE, !.ev = NoEvent,
            !.cert = None, !.pub = 0, !.smac = <<>>,
            !.own = 0, !.link = <<>>, !.ticks = @ \ {s.ep}]

\* Reasons of which the partner is told
Told == {"noLocalResources", "invalidMessage", "badConfirm", "notAllowed"}

\* cleanupAndStop: no Terminate where the initiator fails in its first step.
\* An initiator that succeeds answers with a default response, even if the
\* stack could not store the key.
Cleanup(n, r, why, storeFails) ==
  LET s == r.s
      done == why = "established"
      telling == /\ IF done THEN storeFails /\ s.isInitiator ELSE why \in Told
                 /\ s.isInitiator \/ s.ev # NoEvent
      told == IF telling THEN Send(n, r, "terminate", <<>>) ELSE r
      role == IF s.isInitiator THEN "responder" ELSE "initiator"
  IN [told EXCEPT !.s = Clear(@),
        !.keys = IF done THEN @ \cup {[by |-> n, as |-> role, key |-> s.link,
                                       kept |-> ~storeFails]} ELSE @]

Stop(n, s, why) == Cleanup(n, Result(s), why, FALSE)

\* The link key emberCalculateSmacs derives, and the confirmation of a role
LinkOf(n, s) ==
  LET mine == [node |-> n, key |-> s.own]
      theirs == [node |-> s.cert, key |-> s.pub]
  IN IF s.isInitiator THEN [initiator |-> theirs, responder |-> mine]
                      ELSE [initiator |-> mine, responder |-> theirs]

Smac(role, link) == <<role, link>>

-----------------------------------------------------------------------------
(* keyEstablishStateMachine                                                *)

\* GENERATE_KEYS: the responder holds the certificate, the initiator gets it
StorePartner(s, m) == IF s.isInitiator THEN [s EXCEPT !.pub = m.data]
                                       ELSE [s EXCEPT !.cert = m.src]

StartKeys(n, s, m) ==
  IF s.op # "none" THEN Stop(n, StorePartner(s, m), "noLocalResources")
  ELSE Result([StorePartner(s, m) EXCEPT !.op = "keys", !.crypto = TRUE])

StartSmacs(n, s, m) ==
  LET t == IF s.isInitiator THEN [s EXCEPT !.smac = m.data]
                            ELSE [s EXCEPT !.pub = m.data]
  IN IF s.op # "none" THEN Stop(n, t, "noLocalResources")
     ELSE Result([t EXCEPT !.link = LinkOf(n, t), !.cert = None, !.pub = 0,
                           !.op = "smacs", !.crypto = TRUE])

\* The initiator keeps the confirmation it expects; the responder compares
\* the one it got, answers, and is done
Confirm(n, s, storeFails) ==
  IF ~s.isInitiator
  THEN Send(n, Result([s EXCEPT !.smac = Smac("responder", s.link)]),
            "confirm", Smac("initiator", s.link))
  ELSE IF s.smac # Smac("initiator", s.link) THEN Stop(n, s, "badConfirm")
  ELSE Cleanup(n, Send(n, Result(s), "confirm", Smac("responder", s.link)),
               "established", storeFails)

\* mutant: the initiator does not compare the confirmation it receives
Perform_NoVerify(n, s, e, m, storeFails) ==
  CASE e = Begin ->
         Send(n, Result(IF s.isInitiator THEN [s EXCEPT !.cert = m.src]
                                         ELSE s), "initiate", <<>>)
    [] e = GenerateKeys -> StartKeys(n, s, m)
    [] e = SendEphemeral -> Send(n, Result(s), "ephemeral", s.own)
    [] e = GenerateSecret -> StartSmacs(n, s, m)
    [] e = SendConfirm -> Confirm(n, s, storeFails)
    [] e = ReceivedConfirm -> Cleanup(n, Result(s), "established", storeFails)

Perform(n, s, e, m, storeFails) ==
  CASE e = Begin ->
         Send(n, Result(IF s.isInitiator THEN [s EXCEPT !.cert = m.src]
                                         ELSE s), "initiate", <<>>)
    [] e = GenerateKeys -> StartKeys(n, s, m)
    [] e = SendEphemeral -> Send(n, Result(s), "ephemeral", s.own)
    [] e = GenerateSecret -> StartSmacs(n, s, m)
    [] e = SendConfirm -> Confirm(n, s, storeFails)
    [] e = ReceivedConfirm ->
         IF m.data = s.smac
         THEN Cleanup(n, Result(s), "established", storeFails)
         ELSE Stop(n, s, "badConfirm")

\* A step that did not end the session schedules the tick and is remembered
Proceed(n, s, e, m, storeFails) ==
  LET r == Perform(n, s, e, m, storeFails)
      ended == \/ e = ReceivedConfirm
               \/ e = SendConfirm /\ s.isInitiator
               \/ e \in {GenerateKeys, GenerateSecret} /\ s.op # "none"
  IN IF ended THEN r
     ELSE [r EXCEPT !.s.ticks = @ \cup {s.ep}, !.s.ev = e]

\* The application, the certificate's issuer, the key table or the suite may
\* refuse a step; the last one asks nobody
Verdicts(e) == IF e = ReceivedConfirm THEN {"ok", "storeFails"}
               ELSE IF e = SendConfirm
                    THEN {"ok", "noLocalResources", "storeFails"}
                    ELSE {"ok", "noLocalResources"}

Machine(n, s, e, m, verdict) ==
  IF e # s.ev + 1 THEN Stop(n, s, "invalidMessage")
  ELSE IF s.intra /\ TrustCenter \notin {n, s.partner}
       THEN Stop(n, s, "notAllowed")
  ELSE IF verdict = "noLocalResources" THEN Stop(n, s, verdict)
  ELSE Proceed(n, s, e, m, verdict = "storeFails")

-----------------------------------------------------------------------------
(* Commands                                                                *)

FromPartner(s, m) ==
  /\ s.isInitiator = m.toServer \/ m.cmd = "terminate"
  /\ s.intra = m.intra /\ s.partner = m.src

InSession(s) == s.ev # NoEvent

\* setPartnerFromCommand
SetPartner(s, m) ==
  [s EXCEPT !.isInitiator = TRUE, !.intra = m.intra, !.partner = m.src,
            !.partnerEp = IF m.intra THEN m.srcEp ELSE @,
            !.ep = IF m.intra THEN m.dstEp ELSE @]

Remember(s, m) ==
  IF s.intra THEN [s EXCEPT !.seqs = Append(@, m.seq)] ELSE s

EventOf(m) ==
  CASE m.cmd = "initiate" -> IF m.toServer THEN Begin ELSE GenerateKeys
    [] m.cmd = "ephemeral" -> IF m.toServer THEN GenerateKeys
                                            ELSE GenerateSecret
    [] m.cmd = "confirm" -> IF m.toServer THEN GenerateSecret
                                          ELSE ReceivedConfirm

IsDuplicate(s, m) == /\ FromPartner(s, m) /\ (s.isInitiator \/ InSession(s))
                     /\ Contains(s.seqs, m.seq)

IsSecond(s, m) == /\ ~(FromPartner(s, m) /\ (s.isInitiator \/ InSession(s)))
                  /\ InSession(s)

\* mutant: the partner is not put back
Refuse_Forgets(n, s, m) ==
  Send(n, Result(SetPartner(s, m)), "terminate", <<>>)

\* The partner is set for one Terminate and put back, the endpoint is not
Refuse(n, s, m) ==
  LET r == Send(n, Result(SetPartner(s, m)), "terminate", <<>>)
  IN [r EXCEPT !.s = [s EXCEPT !.ep = r.s.ep, !.seq = r.s.seq]]

\* mutant: the sequence numbers of the last session are kept
Admit(s, m) ==
  Remember(IF InSession(s) THEN s
           ELSE [SetPartner(s, m) EXCEPT !.seqs = <<>>], m)

Command(n, s, m, verdict) ==
  IF IsDuplicate(s, m) THEN Result(s)
  ELSE IF IsSecond(s, m) THEN Refuse(n, s, m)
  ELSE Machine(n, Admit(s, m), EventOf(m), m, verdict)

Terminated(n, s, m) ==
  IF InSession(s) /\ FromPartner(s, m)
  THEN Stop(n, Remember(s, m), "partnerTerminated") ELSE Result(s)

-----------------------------------------------------------------------------
(* Actions                                                                 *)

NoMessage == [src |-> None, data |-> 0]

Took(n, r, sent) ==
  /\ node' = [node EXCEPT ![n] = r.s]
  /\ net' = sent \cup r.out
  /\ stored' = stored \cup r.keys

Fault == faults < MaxFaults /\ faults' = faults + 1

Verdict(e, v) == /\ v \in Verdicts(e)
                 /\ IF v = "ok" THEN UNCHANGED faults ELSE Fault

\* emberAf[InterPan]InitiateKeyEstablishmentCallback, accepted
Start(n, p, e, v) ==
  /\ ~InSession(node[n]) /\ p # n /\ starts < MaxStarts
  /\ starts' = starts + 1
  /\ Verdict(Begin, v)
  /\ LET intra == {n, p} \cap Outside = {}
         s == [node[n] EXCEPT !.isInitiator = FALSE, !.intra = intra,
                 !.partner = p, !.partnerEp = IF intra THEN e ELSE @,
                 !.seqs = <<>>]
     IN Took(n, Machine(n, s, Begin, NoMessage, v), net)
  /\ UNCHANGED unsent

Handled(m, v) ==
  LET n == m.dst
      s == node[n]
  IN IF m.cmd = "terminate" THEN Terminated(n, s, m) ELSE Command(n, s, m, v)

Deliver(m, v) ==
  /\ m \in net
  /\ v # "ok" => m.cmd # "terminate"
  /\ IF m.cmd = "terminate" THEN v = "ok" /\ UNCHANGED faults
                            ELSE Verdict(EventOf(m), v)
  /\ Took(m.dst, Handled(m, v), net \ {m})
  /\ UNCHANGED <<unsent, starts>>

\* The message arrives and will arrive again
Double(m) ==
  /\ m \in net /\ Fault
  /\ Took(m.dst, Handled(m, "ok"), net)
  /\ UNCHANGED <<unsent, starts>>

\* The sender gets no acknowledgement, of a message that arrived or did not
Unacked(m) ==
  /\ m \in net /\ m.intra /\ Fault
  /\ unsent' = unsent \cup {m}
  /\ \/ net' = net \ {m} /\ UNCHANGED <<node, stored>>
     \/ Took(m.dst, Handled(m, "ok"), net \ {m})
  /\ UNCHANGED starts

LoseInterPan(m) ==
  /\ m \in net /\ ~m.intra /\ Fault
  /\ net' = net \ {m}
  /\ UNCHANGED <<node, unsent, stored, starts>>

\* messageSentHandler with a failure.  What else ends the sender's session
\* without an answer to the partner has the same effect: a default response with
\* an error (1129-1150), which a node with this cluster does not send.
MessageSent(m) ==
  /\ m \in unsent /\ unsent' = unsent \ {m}
  /\ LET n == m.src
         s == node[n]
     IN Took(n, IF s.intra /\ InSession(s) /\ s.partner = m.dst
                THEN Stop(n, s, "sendFailure") ELSE Result(s), net)
  /\ UNCHANGED <<starts, faults>>

\* A message of the two, or an operation of one of them, is under way
Awaited(n) ==
  LET p == node[n].partner
  IN \/ \E m \in net : {m.src, m.dst} = {n, p}
     \/ \E q \in {n, p} \ {None} : node[q].op # "none"

\* The framework runs no event during an ECC operation; the generated wrapper
\* of a cluster tick has made it inactive
Tick(n, e) ==
  /\ e \in node[n].ticks /\ ~node[n].crypto
  /\ IF Awaited(n) THEN Fault ELSE UNCHANGED faults
  /\ Took(n, Stop(n, [node[n] EXCEPT !.ticks = @ \ {e}], "timeout"), net)
  /\ UNCHANGED <<unsent, starts>>

\* The network processor is done: the handlers of the two operations
KeysDone(n, v) ==
  /\ node[n].op = "keys"
  /\ Verdict(SendEphemeral, v)
  /\ LET s == [node[n] EXCEPT !.op = "none", !.crypto = FALSE,
                              !.made = @ + 1, !.own = node[n].made + 1]
     IN Took(n, Machine(n, s, SendEphemeral, NoMessage, v), net)
  /\ UNCHANGED <<unsent, starts>>

SmacsDone(n, v) ==
  /\ node[n].op = "smacs"
  /\ Verdict(SendConfirm, v)
  /\ Took(n, Machine(n, [node[n] EXCEPT !.op = "none", !.crypto = FALSE],
                     SendConfirm, NoMessage, v), net)
  /\ UNCHANGED <<unsent, starts>>

\* The operation fails, or its end is not heard of
OperationFails(n) ==
  /\ node[n].op # "none" /\ Fault
  /\ Took(n, Stop(n, [node[n] EXCEPT !.op = "none", !.crypto = FALSE],
                  "noLocalResources"), net)
  /\ UNCHANGED <<unsent, starts>>

OperationUnheard(n) ==
  /\ node[n].op # "none" /\ Fault
  /\ node' = [node EXCEPT ![n].op = "none"]
  /\ UNCHANGED <<net, unsent, stored, starts>>

\* mutant: the status is cleared only by the handler of the operation
CryptoTimeout_Never(n) == FALSE /\ node' = [node EXCEPT ![n].crypto = FALSE]

\* emAfCryptoOperationTimeoutEvent
CryptoTimeout(n) ==
  /\ node[n].crypto
  /\ IF node[n].op = "none" THEN UNCHANGED faults ELSE Fault
  /\ node' = [node EXCEPT ![n].crypto = FALSE]
  /\ UNCHANGED <<net, unsent, stored, starts>>

Next ==
  \/ \E n, p \in Nodes, e \in Endpoints, v \in Verdicts(Begin) :
       Start(n, p, e, v)
  \/ \E m \in net : \/ \E v \in Verdicts(ReceivedConfirm)
                              \cup Verdicts(Begin) : Deliver(m, v)
                    \/ Double(m) \/ Unacked(m) \/ LoseInterPan(m)
  \/ \E m \in unsent : MessageSent(m)
  \/ \E n \in Nodes :
       \/ \E e \in Endpoints : Tick(n, e)
       \/ \E v \in Verdicts(SendEphemeral) : KeysDone(n, v)
       \/ \E v \in Verdicts(SendConfirm) : SmacsDone(n, v)
       \/ OperationFails(n) \/ OperationUnheard(n) \/ CryptoTimeout(n)

Spec == Init /\ [][Next]_vars

\* The network delivers what it has not lost, an operation ends or is never
\* heard of, the main loop runs the timers: it does not stop while one of
\* these can happen
Progress ==
  \/ \E m \in net : Deliver(m, "ok")
  \/ \E n \in Nodes : \/ \E e \in Endpoints : Tick(n, e)
                      \/ KeysDone(n, "ok") \/ SmacsDone(n, "ok")
                      \/ CryptoTimeout(n)

FairSpec == Spec /\ WF_vars(Progress)

-----------------------------------------------------------------------------
(* Properties                                                              *)

\* The types, and that the array of sequence numbers is never overrun
\* (key-establishment.c:171 and 351): at most three messages of a session are
\* recorded, and the one that ends it.
KeTypeOK ==
  /\ \A n \in Nodes :
       /\ node[n].ev \in NoEvent .. SendConfirm
       /\ node[n].partner \in Nodes \cup {None}
       /\ Len(node[n].seqs) <= NumSeqNumber
       /\ node[n].ticks \subseteq Endpoints /\ node[n].ep \in Endpoints
       /\ node[n].op \in {"none", "keys", "smacs"}
  /\ \A k \in stored : k.by \in Nodes /\ k.as \in {"initiator", "responder"}
  /\ starts \in 0 .. MaxStarts /\ faults \in 0 .. MaxFaults

\* A session is never left without the tick that ends it, and no tick
\* outlives its session: it would end the next one (key-establishment.c:558,
\* 574).
TickOfSession ==
  \A n \in Nodes :
    node[n].ticks = IF InSession(node[n]) THEN {node[n].ep} ELSE {}

\* No tick outlives its session.  The comment at key-establishment.c:320-322
\* has the partner put back once the second node is refused; the endpoint
\* that setPartnerFromCommand sets with it (914) is not put back (333), and
\* clearKeyEstablishmentState then deactivates the tick of another endpoint.
NoStrayTick == \A n \in Nodes : ~InSession(node[n]) => node[n].ticks = {}

\* Every session ends, whatever is lost, refused or never heard of
\* (key-establishment.c:1057).
SessionEnds == \A n \in Nodes : InSession(node[n]) ~> ~InSession(node[n])

\* A session is not disturbed by a command of any node but the partner
\* (key-establishment.c:316-335).
SecondIsHarmless ==
  [][\A m \in net :
       LET s == node[m.dst] IN
       (InSession(s) /\ m.src # s.partner /\ Deliver(m, "ok"))
         => node'[m.dst] = [s EXCEPT !.seq = node'[m.dst].seq]]_vars

Accepted == {k.key : k \in {l \in stored : l.as = "responder"}}
Completed == {k.key : k \in {l \in stored : l.as = "initiator" /\ l.kept}}

\* Both ends agree (KeyAgreement): the responder accepts a key made of fresh
\* ephemeral keys, the initiator stores only what its partner has accepted.
\* That the responder's stack kept it too is not promised: it has answered
\* before it stores (key-establishment.c:521-530).
Agreement == INSTANCE KeyAgreement WITH
  Parties <- Nodes, Ephemeral <- 1 .. MaxStarts + MaxFaults,
  accepted <- Accepted, complete <- Completed

ImplementsAgreement == Agreement!Spec
=============================================================================
