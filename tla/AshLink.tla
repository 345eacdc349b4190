------------------------------- MODULE AshLink -------------------------------
(***************************************************************************)
(* The host side of ASH (AshHost) joined to a network co-processor by two  *)
(* serial lines.  The NCP's ASH is not in the repository: it is modelled   *)
(* from the frames ash-host.c expects of it, as a go-back-N peer that      *)
(* restarts its numbering when it receives RST and that may also reset or  *)
(* fail by itself.  The lines keep the order of frames, may damage or lose *)
(* MaxFaults of them, and hold Capacity frames each: a host frame that     *)
(* finds no room waits, as ashSerialWriteAvailable makes it.               *)
(*                                                                         *)
(* The payload of a frame is its position in the session's traffic, so     *)
(* loss, duplication and reordering show.  A session is named by the NCP   *)
(* reset that began it (`epoch', kept only to state properties): the link  *)
(* is up while both sides are in the same one.                             *)
(***************************************************************************)
EXTENDS AshHost

CONSTANTS
  HostMsgs, NcpMsgs,   \* frames sent in one session by either side (bound)
  ResetHostMsgs, ResetNcpMsgs,   \* the same, of a session that a reset ends
                       \* or begins after the first (bound)
  MaxStarts,           \* times the host resets the NCP (bound)
  MaxEpochs,           \* NCP resets of any origin (bound)
  MaxFaults,           \* frames damaged or lost on the lines, and timers that
                       \* expire while the answer is on its way (bound)
  Capacity,            \* frames in a serial line
  NcpTxK               \* the NCP's window

ASSUME AshLinkAssumption ==
  /\ {HostMsgs, NcpMsgs, ResetHostMsgs, ResetNcpMsgs} \subseteq Nat
  /\ MaxStarts \in Nat
  /\ MaxEpochs \in Nat /\ MaxFaults \in Nat /\ Capacity \in Nat
  /\ NcpTxK \in 1 .. Modulus - 1
  /\ 1 .. HostMsgs \subseteq Data /\ 1 .. NcpMsgs \subseteq Data
  /\ 1 .. ResetHostMsgs \subseteq Data /\ 1 .. ResetNcpMsgs \subseteq Data
  /\ ResetMethod = "RST"

VARIABLES
  toNcp, toHost,     \* the serial lines
  ncpUp,             \* the NCP runs ASH (not failed)
  nFrmRx, nFrmTx, nAckRx, nReTx, nRej, nAckDue, nNakDue,
  ncpGot, ncpSent,   \* frames delivered to and accepted from the NCP's EZSP
  hostGot, hostSent, \* the same for the host's, in the host's session
  epoch, hostEpoch,  \* resets of the NCP so far; the one the host joined
  starts, faults     \* counters for the bounds

ncpNumbers == <<nFrmRx, nFrmTx, nAckRx, nReTx>>
ncpFlags == <<nRej, nAckDue, nNakDue>>
ncpVars == <<ncpUp, ncpNumbers, ncpFlags, ncpGot, ncpSent, epoch>>
hostGhosts == <<hostGot, hostSent, hostEpoch, starts>>
lines == <<toNcp, toHost, faults>>
linkVars == <<vars, ncpVars, hostGhosts, lines>>

\* Sessions that a reset ends or has begun are kept short
Short == hostSent <= ResetHostMsgs /\ ncpSent <= ResetNcpMsgs
First == starts <= 1 /\ epoch <= 1 /\ ncpUp
HostLimit == IF First THEN HostMsgs ELSE ResetHostMsgs
NcpLimit == IF First THEN NcpMsgs ELSE ResetNcpMsgs

BadFrame(f) == [type |-> "BAD", isData |-> f.type = "DATA"]

\* A frame enters a line: intact, damaged or lost
Put(line, f) == {Append(line, f)} \cup
                  IF faults < MaxFaults THEN {Append(line, BadFrame(f)), line}
                                        ELSE {}
CountFault(line, f) ==
  faults' = IF line' = Append(line, f) THEN faults ELSE faults + 1

NcpSends(f) == /\ Len(toHost) < Capacity
               /\ toHost' \in Put(toHost, f) /\ CountFault(toHost, f)

LinkInit ==
  /\ Init
  /\ toNcp = <<>> /\ toHost = <<>> /\ ncpUp = TRUE
  /\ nFrmRx = 0 /\ nFrmTx = 0 /\ nAckRx = 0 /\ nReTx = 0
  /\ nRej = FALSE /\ nAckDue = FALSE /\ nNakDue = FALSE
  /\ ncpGot = <<>> /\ ncpSent = 0 /\ hostGot = <<>> /\ hostSent = 0
  /\ epoch = 0 /\ hostEpoch = 0 /\ starts = 0 /\ faults = 0

-----------------------------------------------------------------------------
(* The host, every step of AshHost with the line it uses.                  *)

\* The flush of ashStart drops what has arrived so far
HostStart ==
  /\ starts < MaxStarts /\ Short /\ Start
  /\ starts' = starts + 1
  /\ \E k \in (IF ResetMethod = "NONE" THEN {0} ELSE 0 .. Len(toHost)) :
       toHost' = SubSeq(toHost, k + 1, Len(toHost))
  /\ hostGot' = <<>> /\ hostSent' = 0 /\ hostEpoch' = 0
  /\ UNCHANGED <<ncpVars, toNcp, faults>>

HostWrites ==
  /\ Len(toNcp) < Capacity
  /\ WriteFlag
  /\ toNcp' \in Put(toNcp, txFrame) /\ CountFault(toNcp, txFrame)
  /\ UNCHANGED <<ncpVars, toHost, hostGot, hostSent, hostEpoch, starts>>

\* No answer is on its way or due.  A timer that expires before that is too
\* early, and counted as a fault.
Quiet == /\ toNcp = <<>> /\ toHost = <<>> /\ ~nAckDue /\ ~nNakDue
         /\ sendState = "IDLE" /\ "CAN" \notin flags /\ NothingUrgent(flags)
         /\ ackTx = frmRx /\ ~ReadyForData
Expires == /\ Quiet \/ faults < MaxFaults
           /\ faults' = IF Quiet THEN faults ELSE faults + 1
           /\ UNCHANGED <<toNcp, toHost>>

HostTimeout ==
  /\ Expires
  /\ AckTimeout \/ ResetTimeout
  /\ UNCHANGED <<ncpVars, hostGhosts>>

HostInternal ==
  /\ \/ StartDone \/ StartFailed \/ SendCancel \/ IdleChoice
     \/ FinishShort \/ FinishData \/ FinishReTx
     \/ TakeReceived(1)
  /\ UNCHANGED <<ncpVars, hostGhosts, lines>>

HostSends ==
  /\ hostSent < HostLimit /\ AshSend(hostSent + 1)
  /\ hostSent' = hostSent + 1
  /\ UNCHANGED <<ncpVars, hostGot, hostEpoch, starts, lines>>

\* The first bytes of a DATA frame
HostReads ==
  /\ toHost # <<>> /\ Head(toHost).type = "DATA" /\ ReadData
  /\ UNCHANGED <<ncpVars, hostGhosts, lines>>

HostIgnores(f) == /\ ~Connected
                  /\ IF f.type = "DATA" THEN ashDecodeInProgress
                                        ELSE ~ashDecodeInProgress
                  /\ \/ f.type \in {"DATA", "ACK", "NAK", "BAD"}
                     \/ f.type = "RSTACK" /\ ~ReasonMatches(f.reason)
                  /\ ReceiveIgnored

HostReceives ==
  /\ toHost # <<>>
  /\ LET f == Head(toHost) IN
       /\ \/ HostIgnores(f)
          \/ f.type = "DATA" /\ ReceiveData(f)
          \/ f.type = "ACK" /\ ReceiveAck(f.ack)
          \/ f.type = "NAK" /\ ReceiveNak(f.ack)
          \/ /\ f.type \in {"ACK", "NAK"} /\ Connected /\ ~AckNumOk(f.ack)
             /\ ReceiveBad(FALSE)
          \/ f.type = "BAD" /\ Connected /\ ReceiveBad(f.isData)
          \/ f.type = "RSTACK" /\ ReceiveRstAck(TRUE, f.reason)
          \/ f.type = "RSTACK" /\ ReceiveReset
          \/ f.type = "ERROR" /\ ReceiveError
       /\ hostGot' = IF rxQueue' = rxQueue THEN hostGot
                                           ELSE Append(hostGot, f.data)
       /\ hostEpoch' = IF Connected' /\ ~Connected THEN f.epoch ELSE hostEpoch
  /\ toHost' = Tail(toHost)
  /\ UNCHANGED <<ncpVars, hostSent, starts, toNcp, faults>>

HostStep == \/ HostStart \/ HostWrites \/ HostTimeout \/ HostInternal
            \/ HostSends \/ HostReads \/ HostReceives

-----------------------------------------------------------------------------
(* The NCP.                                                                *)

\* A reset: numbering starts again and RSTACK tells the host why
NcpReset(reason) ==
  /\ epoch < MaxEpochs
  /\ epoch' = epoch + 1 /\ ncpUp' = TRUE
  /\ nFrmRx' = 0 /\ nFrmTx' = 0 /\ nAckRx' = 0 /\ nReTx' = 0
  /\ nRej' = FALSE /\ nAckDue' = FALSE /\ nNakDue' = FALSE
  /\ ncpGot' = <<>> /\ ncpSent' = 0
  /\ NcpSends([type |-> "RSTACK", reason |-> reason, epoch |-> epoch'])

NcpResetsItself ==
  /\ epoch > 0 /\ Short /\ NcpReset("OTHER") /\ UNCHANGED <<toNcp, hostGhosts>>

NcpFails ==
  /\ ncpUp /\ Short /\ epoch \in 1 .. MaxEpochs - 1
  /\ ncpUp' = FALSE
  /\ NcpSends([type |-> "ERROR"])
  /\ UNCHANGED <<ncpNumbers, ncpFlags, ncpGot, ncpSent, epoch, toNcp,
                 hostGhosts>>

NcpAckOk(ack) == WithinRange(nAckRx, ack, nFrmTx)
\* where to go on sending once frames below ack need not be sent again
NcpSkipTo(ack) == IF WithinRange(nReTx, ack, nFrmTx) THEN ack ELSE nReTx

\* A DATA, ACK or NAK frame from the host whose ackNum is in range
NcpAccept(f) ==
  /\ nAckRx' = f.ack /\ UNCHANGED nFrmTx
  /\ nReTx' = IF f.type = "NAK" THEN f.ack ELSE NcpSkipTo(f.ack)
  /\ IF f.type # "DATA"
       THEN UNCHANGED <<nFrmRx, ncpGot, ncpFlags>>
       ELSE IF f.frm = nFrmRx
         THEN /\ nFrmRx' = Inc(nFrmRx) /\ ncpGot' = Append(ncpGot, f.data)
              /\ nRej' = FALSE /\ nNakDue' = FALSE /\ nAckDue' = TRUE
         ELSE /\ IF f.r THEN nAckDue' = TRUE /\ UNCHANGED <<nRej, nNakDue>>
                        ELSE /\ nRej' = TRUE /\ nNakDue' = (nNakDue \/ ~nRej)
                             /\ UNCHANGED nAckDue
              /\ UNCHANGED <<nFrmRx, ncpGot>>

NcpReject(isData) ==
  /\ IF isData THEN nRej' = TRUE /\ nNakDue' = (nNakDue \/ ~nRej)
               ELSE UNCHANGED <<nRej, nNakDue>>
  /\ UNCHANGED <<ncpNumbers, ncpGot, nAckDue>>

NcpReceives ==
  /\ toNcp # <<>> /\ toNcp' = Tail(toNcp)
  /\ LET f == Head(toNcp) IN
       IF f = RstFrame THEN NcpReset("SOFTWARE")
       ELSE /\ IF ~ncpUp THEN UNCHANGED <<ncpNumbers, ncpFlags, ncpGot>>
               ELSE IF f.type = "BAD" THEN NcpReject(f.isData)
               ELSE IF NcpAckOk(f.ack) THEN NcpAccept(f)
               ELSE NcpReject(f.type = "DATA")
            /\ UNCHANGED <<ncpUp, ncpSent, epoch, toHost, faults>>
  /\ UNCHANGED hostGhosts

\* New data, or the oldest frame it goes back to
NcpSendsData ==
  /\ ncpUp /\ epoch > 0
  /\ LET new == nReTx = nFrmTx
         i == ncpSent + 1 - Dist(nReTx, nFrmTx) IN
       /\ IF new THEN /\ ncpSent < NcpLimit /\ Dist(nAckRx, nFrmTx) < NcpTxK
                      /\ nFrmTx' = Inc(nFrmTx) /\ ncpSent' = ncpSent + 1
                 ELSE UNCHANGED <<nFrmTx, ncpSent>>
       /\ NcpSends([type |-> "DATA", frm |-> nReTx, ack |-> nFrmRx,
                    r |-> ~new, data |-> i])
  /\ nReTx' = Inc(nReTx) /\ nAckDue' = FALSE
  /\ UNCHANGED <<ncpUp, nFrmRx, nAckRx, nRej, nNakDue, ncpGot, epoch, toNcp,
                 hostGhosts>>

NcpSendsAck ==
  /\ ncpUp
  /\ nAckDue \/ nNakDue
  /\ NcpSends([type |-> IF nNakDue THEN "NAK" ELSE "ACK", ack |-> nFrmRx])
  /\ nAckDue' = FALSE /\ nNakDue' = FALSE
  /\ UNCHANGED <<ncpUp, ncpNumbers, nRej, ncpGot, ncpSent, epoch, toNcp,
                 hostGhosts>>

\* The NCP's own acknowledgement timeout
NcpTimeout ==
  /\ ncpUp /\ nAckRx # nReTx /\ nReTx = nFrmTx
  /\ Expires
  /\ nReTx' = nAckRx
  /\ UNCHANGED <<ncpUp, nFrmRx, nFrmTx, nAckRx, ncpFlags, ncpGot, ncpSent,
                 epoch, hostGhosts>>

NcpStep == \/ NcpReceives \/ NcpSendsData \/ NcpSendsAck \/ NcpTimeout
           \/ NcpResetsItself \/ NcpFails

LinkNext == HostStep \/ (NcpStep /\ UNCHANGED vars)

LinkSpec == LinkInit /\ [][LinkNext]_linkVars

\* The host polls ashSendExec and ashReceiveExec for ever and its application
\* takes what it receives; the NCP does the same.  Nothing obliges the host to
\* start or to send, the NCP to fail or either to have new frames.
Fairness ==
  /\ WF_linkVars(HostWrites) /\ WF_linkVars(HostTimeout)
  /\ WF_linkVars(HostInternal) /\ WF_linkVars(HostReads \/ HostReceives)
  /\ WF_linkVars(NcpReceives /\ UNCHANGED vars)
  /\ WF_linkVars((NcpSendsData \/ NcpSendsAck \/ NcpTimeout) /\ UNCHANGED vars)

FairLinkSpec == LinkSpec /\ Fairness

-----------------------------------------------------------------------------
(* Properties.                                                             *)

\* The host is connected to the NCP's present session
LinkUp == Connected /\ hostEpoch = epoch
NumbersTo(n) == [i \in 1 .. n |-> i]

\* Between two resets of the NCP each side delivers what the other accepted,
\* in order and once, whatever is damaged, lost, cancelled, retransmitted,
\* refused for want of a buffer or acknowledged late.
Reliable == INSTANCE ReliableLink WITH
  Payload <- Data, up <- LinkUp,
  sentDown <- IF LinkUp THEN NumbersTo(hostSent) ELSE <<>>,
  gotDown <- IF LinkUp THEN ncpGot ELSE <<>>,
  sentUp <- IF LinkUp THEN NumbersTo(ncpSent) ELSE <<>>,
  gotUp <- IF LinkUp THEN hostGot ELSE <<>>
ImplementsReliableLink == Reliable!Spec

\* The host keeps, in the transmit or the retransmit queue, every frame that
\* the NCP has not got, and each of them once, oldest first.
NothingLost ==
  LinkUp => LET kept == reTxQueue \o txQueue
                oldest == hostSent - Len(kept) IN
              /\ oldest <= Len(ncpGot)
              /\ \A i \in DOMAIN kept : kept[i] = oldest + i

\* Neither side believes a frame acknowledged that the other has not got.
NoFalseAck ==
  LinkUp =>
    /\ hostSent - Len(txQueue) - Dist(ackRx, frmTx) <= Len(ncpGot)
    /\ ncpSent - Dist(nAckRx, nFrmTx) <= Len(hostGot)

\* Every frame accepted from the layers above is delivered in the end, in both
\* directions and whatever was damaged or lost, as long as fewer frames are
\* hurt than the timeouts the host allows itself and the NCP does not fail.
AllDelivered ==
  /\ \A i \in 1 .. HostMsgs : hostSent = i ~> Len(ncpGot) >= i
  /\ \A i \in 1 .. NcpMsgs : LinkUp /\ ncpSent = i ~> Len(hostGot) >= i

\* No receive buffer is lost: each is free, queued or held for the frame
\* being decoded.
NoBufferLeak ==
  rxFree + Len(rxQueue) + (IF rxDataBuffer THEN 1 ELSE 0) = RxPool

=============================================================================
