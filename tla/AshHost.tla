------------------------------- MODULE AshHost -------------------------------
(***************************************************************************)
(* The host side of ASH, the serial protocol between a host and its        *)
(* network co-processor (app/ezsp-uart-host/ash-host.c, ash-host-queues.c  *)
(* and the timers of hal/micro/generic/ash-common.c).                      *)
(*                                                                         *)
(* Everything runs in one thread.  ashSendExec is a loop over a state      *)
(* machine that may be cut short before any byte, when the output buffer   *)
(* is full; one iteration that changes state is one action here, and the   *)
(* bytes of a frame are the two actions that start it and write its FLAG.  *)
(* `busy' marks the points between two iterations that write no byte: the  *)
(* loop cannot be cut there, so only ashSendExec may take the next step.   *)
(* ashReceiveFrame is one action for each way a frame can be received.     *)
(*                                                                         *)
(* The serial port is left open: any frame may arrive at any time, and a   *)
(* timer that runs may expire at any time.  AshLink closes the system.     *)
(***************************************************************************)
EXTENDS Integers, Sequences, FiniteSets

CONSTANTS
  Modulus,      \* frame numbers are 0 .. Modulus-1 (8 in the code)
  TxK,          \* txK: frames sent without being acknowledged
  TxPool,       \* TX_POOL_BUFFERS
  RxPool,       \* EZSP_HOST_ASH_RX_POOL_SIZE
  NrLow,        \* nrLowLimit: fewer free buffers and the host is not ready
  NrHigh,       \* nrHighLimit: more free buffers and it is ready again
  MaxTimeouts,  \* ASH_MAX_TIMEOUTS
  ResetMethod,  \* resetMethod, without its ASH_RESET_METHOD_ prefix
  RtsCts,       \* rtsCts: RTS/CTS rather than XON/XOFF flow control
  Data          \* payloads

ASSUME AshHostAssumption ==
  /\ Modulus \in Nat /\ Modulus > 1
  /\ TxK \in Nat /\ TxK > 0 /\ TxK < Modulus
  /\ TxPool \in Nat /\ RxPool \in Nat /\ NrLow \in Nat /\ NrHigh \in Nat
  /\ MaxTimeouts \in Nat
  /\ ResetMethod \in {"RST", "DTR", "CUSTOM", "NONE"}
  /\ RtsCts \in BOOLEAN

VARIABLES
  flags,         \* ashFlags: the set of its FLG_ bits
  sendState,     \* IDLE, SHFRAME, TX_DATA or RETX_DATA
  txFrame,       \* the frame being encoded, as it was when it was started
  sent,          \* its FLAG byte is written (offset = 0xFF)
  busy,          \* ashSendExec is between iterations that write no byte
  ackRx, ackTx, frmTx, frmReTx, frmRx, frmReTxHead,
  ashTimeouts,
  ackTimer,      \* ashAckTimer runs
  nrTimer,       \* ashNrTimer runs
  txQueue, reTxQueue, rxQueue,   \* oldest entry first
  txFree, rxFree,                \* lengths of the free lists
  rxDataBuffer,         \* a buffer is held for the frame being decoded
  ashDecodeInProgress,
  ashError, ncpError,
  starting       \* ashStart is in its loop

sendVars  == <<sendState, txFrame, sent>>
txNumbers == <<frmTx, frmReTx>>
reTxVars  == <<reTxQueue, txFree, frmReTxHead>>
rxVars    == <<frmRx, rxQueue, rxFree, rxDataBuffer, ashDecodeInProgress>>
errorVars == <<ashError, ncpError>>
timers    == <<ackTimer, nrTimer>>
vars == <<flags, sendVars, busy, ackRx, ackTx, txNumbers, frmRx, frmReTxHead,
          ashTimeouts, timers, txQueue, reTxQueue, rxQueue, txFree, rxFree,
          rxDataBuffer, ashDecodeInProgress, errorVars, starting>>

-----------------------------------------------------------------------------
(* Frame numbers and frames.                                               *)

FrameNum == 0 .. Modulus - 1
Inc(n) == IF n = Modulus - 1 THEN 0 ELSE n + 1
Dist(lo, n) == IF n >= lo THEN n - lo ELSE n - lo + Modulus    \* MOD8(n-lo)
WithinRange(lo, n, hi) == Dist(lo, n) <= Dist(lo, hi)

DataFrames  == [type: {"DATA"}, frm: FrameNum, ack: FrameNum, r: BOOLEAN,
                data: Data]
ShortFrames == [type: {"ACK", "NAK"}, ack: FrameNum, n: BOOLEAN]
RstFrame == [type |-> "RST"]
NoFrame  == [type |-> "NONE"]
TxFrames == DataFrames \cup ShortFrames \cup {RstFrame, NoFrame}

Flags == {"REJ", "RETX", "NAK", "ACK", "RST", "CAN", "CONNECTED", "NR", "NRTX"}
NoError == "NO_ERROR"
HostErrors == {NoError, "RESET_FAIL", "TIMEOUTS", "VERSION", "NCP_RESET",
               "XON_XOFF"}
NcpErrors == {NoError, "ERROR"}
ResetReasons == {"SOFTWARE", "EXTERNAL", "POWERON", "OTHER"}

Connected == "CONNECTED" \in flags

BooleanTypes ==
  /\ sent \in BOOLEAN /\ busy \in BOOLEAN
  /\ ackTimer \in BOOLEAN /\ nrTimer \in BOOLEAN
  /\ rxDataBuffer \in BOOLEAN /\ ashDecodeInProgress \in BOOLEAN
  /\ starting \in BOOLEAN
NumberTypes ==
  /\ ackRx \in FrameNum /\ ackTx \in FrameNum /\ frmTx \in FrameNum
  /\ frmReTx \in FrameNum /\ frmRx \in FrameNum /\ frmReTxHead \in FrameNum
  /\ ashTimeouts \in Nat
QueueTypes ==
  /\ txQueue \in Seq(Data) /\ reTxQueue \in Seq(Data) /\ rxQueue \in Seq(Data)
  /\ txFree \in Nat /\ rxFree \in Nat
StateTypes ==
  /\ flags \subseteq Flags
  /\ sendState \in {"IDLE", "SHFRAME", "TX_DATA", "RETX_DATA"}
  /\ ashError \in HostErrors /\ ncpError \in NcpErrors

FrameType == txFrame \in TxFrames

TypeOK == /\ BooleanTypes /\ NumberTypes /\ QueueTypes /\ StateTypes
          /\ FrameType

-----------------------------------------------------------------------------
(* Start and stop.                                                         *)

\* The static initial values, which ashInitVariables and ashInitQueues restore
Init ==
  /\ flags = {} /\ sendState = "IDLE" /\ txFrame = NoFrame
  /\ sent = FALSE /\ busy = FALSE /\ starting = FALSE
  /\ ackRx = 0 /\ ackTx = 0 /\ frmTx = 0 /\ frmReTx = 0 /\ frmRx = 0
  /\ frmReTxHead = 0 /\ ashTimeouts = 0 /\ ackTimer = FALSE /\ nrTimer = FALSE
  /\ txQueue = <<>> /\ reTxQueue = <<>> /\ rxQueue = <<>>
  /\ txFree = TxPool /\ rxFree = RxPool
  /\ rxDataBuffer = FALSE /\ ashDecodeInProgress = FALSE
  /\ ashError = NoError /\ ncpError = NoError

InitVariables ==
  /\ sendState' = "IDLE" /\ txFrame' = NoFrame
  /\ sent' = FALSE /\ busy' = FALSE
  /\ ackRx' = 0 /\ ackTx' = 0 /\ frmTx' = 0 /\ frmReTx' = 0 /\ frmRx' = 0
  /\ frmReTxHead' = 0 /\ ashTimeouts' = 0 /\ nrTimer' = FALSE
  /\ txQueue' = <<>> /\ reTxQueue' = <<>> /\ rxQueue' = <<>>
  /\ txFree' = TxPool /\ rxFree' = RxPool
  /\ rxDataBuffer' = FALSE /\ ashDecodeInProgress' = FALSE
  /\ ashError' = NoError /\ ncpError' = NoError

\* One try of ezspInit: ashResetNcp, then ashStart as far as its loop
Start ==
  /\ ~starting /\ ~busy
  /\ InitVariables
  /\ flags' = IF ResetMethod = "RST" THEN {"RST", "CAN"} ELSE {}
  /\ ackTimer' = TRUE
  /\ starting' = TRUE

\* The loop of ashStart ends: connected ...
StartDone ==
  /\ starting /\ ~busy /\ Connected
  /\ starting' = FALSE /\ ackTimer' = FALSE
  /\ UNCHANGED <<flags, sendVars, busy, ackRx, ackTx, txNumbers, ashTimeouts,
                 nrTimer, txQueue, reTxVars, rxVars, errorVars>>

\* ... or given up for the error a timeout left in ashSendExec (an error found
\* in ashReceiveFrame ends ashStart there and then)
StartFailed ==
  /\ starting /\ ~busy /\ ashError # NoError
  /\ starting' = FALSE
  /\ UNCHANGED <<flags, sendVars, busy, ackRx, ackTx, txNumbers, ashTimeouts,
                 timers, txQueue, reTxVars, rxVars, errorVars>>

Stop ==
  /\ ~starting /\ ~busy
  /\ InitVariables /\ flags' = {} /\ ackTimer' = FALSE
  /\ UNCHANGED starting

-----------------------------------------------------------------------------
(* ashSendExec.  It is called by ashStart until the link is connected, and *)
(* by the layers above, which check the connection first, after that.      *)

SendLoop == starting <=> ~Connected

\* mutant: the buffers leave the queue without being freed
ScrubReTxQueue_NoFree(upTo) ==
  /\ reTxQueue' = SubSeq(reTxQueue, Dist(frmReTxHead, upTo) + 1, Len(reTxQueue))
  /\ frmReTxHead' = upTo
  /\ UNCHANGED txFree

\* ashScrubReTxQueue: free the retransmit buffers acknowledged by upTo
ScrubReTxQueue(upTo) ==
  LET n == Dist(frmReTxHead, upTo) IN
    /\ reTxQueue' = SubSeq(reTxQueue, n + 1, Len(reTxQueue))
    /\ txFree' = txFree + n
    /\ frmReTxHead' = upTo

\* ashStartRetransmission, on the flags fl when `acked' is the last ack
MustReTx(fl, acked) == "RETX" \notin fl /\ acked # frmTx

\* The acknowledgement timer has expired
AckTimeout ==
  /\ SendLoop /\ ~busy /\ Connected /\ ackTimer
  /\ ackTimer' = FALSE
  /\ IF ackRx = (IF "RETX" \in flags THEN frmReTx ELSE frmTx)
       THEN UNCHANGED <<ashTimeouts, flags, ashError, frmReTx>>
       ELSE /\ ashTimeouts' = ashTimeouts + 1
            /\ IF ashTimeouts' >= MaxTimeouts
                 THEN /\ flags' = {} /\ ashError' = "TIMEOUTS"
                      /\ UNCHANGED frmReTx
                 ELSE /\ IF MustReTx(flags, ackRx)
                           THEN /\ flags' = flags \cup {"RETX", "CAN"}
                                /\ frmReTx' = ackRx
                           ELSE UNCHANGED <<flags, frmReTx>>
                      /\ UNCHANGED ashError
  /\ UNCHANGED <<sendVars, busy, ackRx, ackTx, frmTx, nrTimer, txQueue,
                 reTxVars, rxVars, ncpError, starting>>

\* ... while waiting for RSTACK
ResetTimeout ==
  /\ SendLoop /\ ~busy /\ ~Connected /\ ackTimer
  /\ flags' = {} /\ ashError' = "RESET_FAIL"
  /\ UNCHANGED <<sendVars, busy, ackRx, ackTx, txNumbers, ashTimeouts, timers,
                 txQueue, reTxVars, rxVars, ncpError, starting>>

\* mutant: the frame in progress is not given up
SendCancel_KeepsFrame ==
  /\ SendLoop /\ "CAN" \in flags
  /\ flags' = flags \ {"CAN"} /\ busy' = FALSE
  /\ UNCHANGED <<sendVars, ackRx, ackTx, txNumbers, ashTimeouts, timers, txQueue,
                 reTxVars, errorVars, rxVars, starting>>

\* FLG_CAN goes ahead of anything else and gives up a new DATA frame, even
\* one whose FLAG is already written
SendCancel ==
  /\ SendLoop /\ "CAN" \in flags
  /\ flags' = flags \ {"CAN"}
  /\ IF sendState = "TX_DATA"
       THEN /\ sendState' = "IDLE" /\ txFrame' = NoFrame /\ sent' = FALSE
            /\ ackTimer' = FALSE
       ELSE UNCHANGED <<sendVars, ackTimer>>
  /\ busy' = (sendState \in {"SHFRAME", "RETX_DATA"})
  /\ UNCHANGED <<ackRx, ackTx, txNumbers, ashTimeouts, nrTimer, txQueue,
                 reTxVars, rxVars, errorVars, starting>>

(* Between frames: housekeeping, then the choice of what to send.          *)

IdleTurn == SendLoop /\ sendState = "IDLE" /\ "CAN" \notin flags

\* While retransmitting, follow the last ack, and see whether that is done
reTxFrom == IF "RETX" \in flags /\ WithinRange(frmReTx, ackRx, frmTx)
              THEN ackRx ELSE frmReTx
ReTxDone == "RETX" \in flags /\ reTxFrom = frmTx
flagsAfterReTx == IF ReTxDone THEN flags \ {"RETX"} ELSE flags

\* mutant: forgets every frame retransmitted, acknowledged or not
Housekeeping_ForgetsAll ==
  /\ frmReTx' = reTxFrom
  /\ IF ReTxDone THEN ScrubReTxQueue(frmTx) ELSE UNCHANGED reTxVars

Housekeeping ==
  /\ frmReTx' = reTxFrom
  /\ IF ReTxDone THEN ScrubReTxQueue(ackRx) ELSE UNCHANGED reTxVars

\* ashDataFrameFlowControl: the flags it leaves and whether the NR timer runs,
\* when ashNrTimerHasExpired would answer `expired'
nrFlags == IF rxFree < NrLow THEN flagsAfterReTx \cup {"NR"}
           ELSE IF rxFree > NrHigh THEN flagsAfterReTx \ {"NR"}
           ELSE flagsAfterReTx
MustSendNr(expired) ==
  IF "NR" \in nrFlags THEN "NRTX" \notin nrFlags \/ expired
                      ELSE "NRTX" \in nrFlags
idleFlags(expired) ==
  IF ~Connected THEN flagsAfterReTx \ {"NR", "NRTX"}
  ELSE IF MustSendNr(expired) THEN nrFlags \cup {"ACK"} ELSE nrFlags
idleTimer(expired) ==
  /\ Connected
  /\ IF "NR" \in nrFlags THEN MustSendNr(expired) \/ nrTimer
     ELSE nrTimer /\ ~expired /\ "NRTX" \notin nrFlags /\ rxFree <= NrHigh

\* a stopped timer counts as expired, a running one may be
NrExpired == IF nrTimer THEN BOOLEAN ELSE {TRUE}

BeginFrame(state, frame) ==
  /\ sendState' = state /\ txFrame' = frame /\ sent' = FALSE /\ busy' = FALSE

StartRst(expired) ==
  /\ IdleTurn /\ "RST" \in idleFlags(expired)
  /\ Housekeeping
  /\ BeginFrame("SHFRAME", RstFrame)
  /\ flags' = idleFlags(expired) \ {"RST", "NAK", "ACK"}
  /\ ackTimer' = TRUE /\ nrTimer' = idleTimer(expired)
  /\ UNCHANGED <<ackRx, ackTx, frmTx, ashTimeouts, txQueue, rxVars, errorVars,
                 starting>>

\* A NAK has priority over an ACK and replaces it
StartNakOrAck(expired) ==
  LET fl == idleFlags(expired) IN
  /\ IdleTurn /\ "RST" \notin fl /\ fl \cap {"NAK", "ACK"} # {}
  /\ Housekeeping
  /\ BeginFrame("SHFRAME", [type |-> IF "NAK" \in fl THEN "NAK" ELSE "ACK",
                            ack |-> frmRx, n |-> "NR" \in fl])
  /\ flags' = (fl \ {"NRTX", "NAK", "ACK"})
                \cup (IF "NR" \in fl THEN {"NRTX"} ELSE {})
  /\ nrTimer' = ("NR" \in fl \/ idleTimer(expired))
  /\ ackTx' = frmRx
  /\ UNCHANGED <<ackRx, frmTx, ackTimer, ashTimeouts, txQueue, rxVars,
                 errorVars, starting>>

\* ashQueueNthEntry counts from the newest entry, which is number 1
StartReTx(expired) ==
  LET fl == idleFlags(expired) IN
  /\ IdleTurn /\ fl \cap {"RST", "NAK", "ACK"} = {} /\ "RETX" \in fl
  /\ Housekeeping
  /\ BeginFrame("RETX_DATA",
       [type |-> "DATA", frm |-> reTxFrom, ack |-> frmRx, r |-> TRUE,
        data |-> reTxQueue[Len(reTxQueue) - Dist(reTxFrom, frmTx) + 1]])
  /\ flags' = fl /\ nrTimer' = idleTimer(expired)
  /\ UNCHANGED <<ackRx, ackTx, frmTx, ackTimer, ashTimeouts, txQueue, rxVars,
                 errorVars, starting>>

NothingUrgent(fl) == fl \cap {"RST", "NAK", "ACK", "RETX"} = {}

\* Flag an ACK that is due and go round the loop again
FlagAck(expired) ==
  LET fl == idleFlags(expired) IN
  /\ IdleTurn /\ NothingUrgent(fl) /\ ackTx # frmRx
  /\ Housekeeping
  /\ flags' = fl \cup {"ACK"} /\ nrTimer' = idleTimer(expired)
  /\ busy' = TRUE
  /\ UNCHANGED <<sendVars, ackRx, ackTx, frmTx, ackTimer, ashTimeouts, txQueue,
                 rxVars, errorVars, starting>>

ReadyForData == txQueue # <<>> /\ Dist(ackRx, frmTx) <= TxK - 1

StartData(expired) ==
  LET fl == idleFlags(expired) IN
  /\ IdleTurn /\ NothingUrgent(fl) /\ ackTx = frmRx /\ ReadyForData
  /\ Housekeeping
  /\ BeginFrame("TX_DATA", [type |-> "DATA", frm |-> frmTx, ack |-> frmRx,
                            r |-> FALSE, data |-> Head(txQueue)])
  /\ flags' = fl /\ nrTimer' = idleTimer(expired)
  /\ UNCHANGED <<ackRx, ackTx, frmTx, ackTimer, ashTimeouts, txQueue, rxVars,
                 errorVars, starting>>

NothingToSend(expired) ==
  LET fl == idleFlags(expired) IN
  /\ IdleTurn /\ NothingUrgent(fl) /\ ackTx = frmRx /\ ~ReadyForData
  /\ Housekeeping
  /\ flags' = fl /\ nrTimer' = idleTimer(expired)
  /\ busy' = FALSE
  /\ UNCHANGED <<sendVars, ackRx, ackTx, frmTx, ackTimer, ashTimeouts, txQueue,
                 rxVars, errorVars, starting>>

(* In a frame.                                                             *)

FrameTurn(state) == SendLoop /\ "CAN" \notin flags /\ sendState = state

\* Write the remaining bytes of the frame, FLAG the last of them
WriteFlag ==
  /\ SendLoop /\ "CAN" \notin flags /\ sendState # "IDLE" /\ ~sent
  /\ sent' = TRUE /\ busy' = FALSE
  /\ UNCHANGED <<flags, sendState, txFrame, ackRx, ackTx, txNumbers,
                 ashTimeouts, timers, txQueue, reTxVars, rxVars, errorVars,
                 starting>>

EndFrame ==
  /\ sent
  /\ sendState' = "IDLE" /\ txFrame' = NoFrame /\ sent' = FALSE /\ busy' = TRUE

FinishShort ==
  /\ FrameTurn("SHFRAME") /\ EndFrame
  /\ UNCHANGED <<flags, ackRx, ackTx, txNumbers, ashTimeouts, timers, txQueue,
                 reTxVars, rxVars, errorVars, starting>>

\* mutant: does not start the ack timer
FinishData_NoTimer ==
  /\ FrameTurn("TX_DATA") /\ EndFrame
  /\ frmTx' = Inc(frmTx)
  /\ txQueue' = Tail(txQueue)
  /\ reTxQueue' = Append(reTxQueue, Head(txQueue))
  /\ ackTx' = frmRx
  /\ UNCHANGED <<flags, ackRx, frmReTx, ashTimeouts, timers, txFree,
                 frmReTxHead, rxVars, errorVars, starting>>

FinishData ==
  /\ FrameTurn("TX_DATA") /\ EndFrame
  /\ frmTx' = Inc(frmTx)
  /\ txQueue' = Tail(txQueue)
  /\ reTxQueue' = Append(reTxQueue, Head(txQueue))
  /\ ackTimer' = TRUE /\ ackTx' = frmRx
  /\ UNCHANGED <<flags, ackRx, frmReTx, ashTimeouts, nrTimer, txFree,
                 frmReTxHead, rxVars, errorVars, starting>>

FinishReTx ==
  /\ FrameTurn("RETX_DATA") /\ EndFrame
  /\ frmReTx' = Inc(frmReTx)
  /\ ackTimer' = TRUE /\ ackTx' = frmRx
  /\ UNCHANGED <<flags, ackRx, frmTx, ashTimeouts, nrTimer, txQueue, reTxVars,
                 rxVars, errorVars, starting>>

IdleChoice ==
  \E expired \in NrExpired :
    \/ StartRst(expired) \/ StartNakOrAck(expired) \/ StartReTx(expired)
    \/ FlagAck(expired) \/ StartData(expired) \/ NothingToSend(expired)

SendStep == SendCancel \/ IdleChoice \/ WriteFlag
              \/ FinishShort \/ FinishData \/ FinishReTx

-----------------------------------------------------------------------------
(* ashReceiveFrame, called by the same two callers.  A fatal status is       *)
(* returned at once, which also ends the loop of ashStart.                  *)

CanReceive ==
  /\ ~busy /\ (starting \/ Connected)
  /\ ashError = NoError /\ ncpError = NoError

\* ashReadFrame has read more bytes than a short frame has, so this is a DATA
\* frame (or will prove to be none) and gets a buffer if there is one
ReadData ==
  /\ CanReceive /\ ~ashDecodeInProgress
  /\ ashDecodeInProgress' = TRUE
  /\ rxDataBuffer' = (rxFree > 0)
  /\ rxFree' = IF rxFree > 0 THEN rxFree - 1 ELSE rxFree
  /\ UNCHANGED <<flags, sendVars, busy, ackRx, ackTx, txNumbers, frmRx,
                 ashTimeouts, timers, txQueue, reTxVars, rxQueue, errorVars,
                 starting>>

\* The next ashReadFrame starts with no buffer, whatever became of this one
DecodeDone == ashDecodeInProgress' = FALSE /\ rxDataBuffer' = FALSE

\* ashFreeNonNullRxBuffer
FreeRxBuffer == rxFree' = IF rxDataBuffer THEN rxFree + 1 ELSE rxFree

\* ashRejectFrame for a frame whose control byte is that of a DATA frame
Reject(fl) == IF "REJ" \in fl THEN fl ELSE fl \cup {"REJ", "NAK"}

\* A cancelled frame, or one of no interest while not connected
ReceiveIgnored ==
  /\ CanReceive
  /\ DecodeDone /\ FreeRxBuffer
  /\ UNCHANGED <<flags, sendVars, busy, ackRx, ackTx, txNumbers, frmRx,
                 ashTimeouts, timers, txQueue, reTxVars, rxQueue, errorVars,
                 starting>>

\* A frame with a bad CRC, length or control; isData is what its control byte
\* (or the last one, if it is too short to have one) looks like
ReceiveBad(isData) ==
  /\ CanReceive
  /\ DecodeDone /\ FreeRxBuffer
  /\ flags' = IF Connected /\ isData THEN Reject(flags) ELSE flags
  /\ UNCHANGED <<sendVars, busy, ackRx, ackTx, txNumbers, frmRx, ashTimeouts,
                 timers, txQueue, reTxVars, rxQueue, errorVars, starting>>

\* An XON or XOFF byte that the serial driver should have removed
ReceiveXonXoff ==
  /\ CanReceive /\ ~RtsCts
  /\ DecodeDone /\ FreeRxBuffer
  /\ flags' = {} /\ ashError' = "XON_XOFF" /\ starting' = FALSE
  /\ UNCHANGED <<sendVars, busy, ackRx, ackTx, txNumbers, frmRx, ashTimeouts,
                 timers, txQueue, reTxVars, rxQueue, ncpError>>

AckNumOk(ack) == WithinRange(ackRx, ack, frmTx)

\* mutant: frees buffers in the midst of a retransmission
ProcessAck_ScrubsAlways(ack) ==
  /\ ackRx' = ack
  /\ ashTimeouts' = IF ack = ackRx THEN ashTimeouts ELSE 0
  /\ ScrubReTxQueue(ack)

\* The ackNum of an ACK, NAK or DATA frame
ProcessAck(ack) ==
  /\ ackRx' = ack
  /\ ashTimeouts' = IF ack = ackRx THEN ashTimeouts ELSE 0
  /\ IF ack # ackRx /\ "RETX" \notin flags THEN ScrubReTxQueue(ack)
                                           ELSE UNCHANGED reTxVars
\* mutant: stops the timer and leaves it stopped
AckedTimer_NoRestart(ack) == ack = ackRx /\ ackTimer
AckedTimer(ack) ==
  IF ack = ackRx THEN ackTimer
  ELSE ack # (IF "RETX" \in flags THEN frmReTx ELSE frmTx)

ReceiveAck(ack) ==
  /\ CanReceive /\ Connected /\ ~ashDecodeInProgress /\ AckNumOk(ack)
  /\ ProcessAck(ack) /\ ackTimer' = AckedTimer(ack)
  /\ UNCHANGED <<flags, sendVars, busy, ackTx, txNumbers, nrTimer, txQueue,
                 rxVars, errorVars, starting>>

\* ashStartRetransmission, after the ackNum
ReceiveNak(ack) ==
  /\ CanReceive /\ Connected /\ ~ashDecodeInProgress /\ AckNumOk(ack)
  /\ ProcessAck(ack)
  /\ IF MustReTx(flags, ack)
       THEN /\ ackTimer' = FALSE
            /\ flags' = flags \cup {"RETX", "CAN"} /\ frmReTx' = ack
       ELSE /\ ackTimer' = AckedTimer(ack)
            /\ UNCHANGED <<flags, frmReTx>>
  /\ UNCHANGED <<sendVars, busy, ackTx, frmTx, nrTimer, txQueue, rxVars,
                 errorVars, starting>>

\* A frame completes a DATA frame begun by ReadData
DataTurn == CanReceive /\ Connected /\ ashDecodeInProgress

ReceiveInSequence(f) ==
  /\ DataTurn /\ AckNumOk(f.ack) /\ f.frm = frmRx /\ rxDataBuffer
  /\ ProcessAck(f.ack) /\ ackTimer' = AckedTimer(f.ack)
  /\ flags' = (flags \ {"REJ", "NAK"}) \cup (IF f.r THEN {"ACK"} ELSE {})
  /\ frmRx' = Inc(frmRx)
  /\ rxQueue' = Append(rxQueue, f.data)
  /\ DecodeDone
  /\ UNCHANGED <<sendVars, busy, ackTx, txNumbers, nrTimer, txQueue, rxFree,
                 errorVars, starting>>

\* mutant: acknowledges the frame it has no buffer for
ReceiveNoBuffer_Acks(f) ==
  /\ DataTurn /\ AckNumOk(f.ack) /\ f.frm = frmRx /\ ~rxDataBuffer
  /\ ProcessAck(f.ack) /\ ackTimer' = AckedTimer(f.ack)
  /\ frmRx' = Inc(frmRx) /\ flags' = flags \cup {"ACK"}
  /\ DecodeDone
  /\ UNCHANGED <<sendVars, busy, ackTx, txNumbers, nrTimer, txQueue, rxQueue,
                 rxFree, errorVars, starting>>

ReceiveNoBuffer(f) ==
  /\ DataTurn /\ AckNumOk(f.ack) /\ f.frm = frmRx /\ ~rxDataBuffer
  /\ ProcessAck(f.ack) /\ ackTimer' = AckedTimer(f.ack)
  /\ flags' = Reject(flags)
  /\ DecodeDone
  /\ UNCHANGED <<sendVars, busy, ackTx, txNumbers, frmRx, nrTimer, txQueue,
                 rxQueue, rxFree, errorVars, starting>>

ReceiveOutOfSequence(f) ==
  /\ DataTurn /\ AckNumOk(f.ack) /\ f.frm # frmRx
  /\ ProcessAck(f.ack) /\ ackTimer' = AckedTimer(f.ack)
  /\ flags' = IF f.r THEN flags \cup {"ACK"} ELSE Reject(flags)
  /\ DecodeDone /\ FreeRxBuffer
  /\ UNCHANGED <<sendVars, busy, ackTx, txNumbers, frmRx, nrTimer, txQueue,
                 rxQueue, errorVars, starting>>

\* An ackNum out of range makes the frame invalid, but only after the buffer
\* of a DATA frame out of sequence was freed: that of one in sequence is kept
ReceiveBadAckNum(f) ==
  /\ DataTurn /\ ~AckNumOk(f.ack)
  /\ flags' = Reject(flags)
  /\ DecodeDone
  /\ IF f.frm # frmRx THEN FreeRxBuffer ELSE UNCHANGED rxFree
  /\ UNCHANGED <<sendVars, busy, ackRx, ackTx, txNumbers, frmRx, ashTimeouts,
                 timers, txQueue, reTxVars, rxQueue, errorVars, starting>>

ReceiveData(f) == \/ ReceiveInSequence(f) \/ ReceiveNoBuffer(f)
                  \/ ReceiveOutOfSequence(f) \/ ReceiveBadAckNum(f)

ReasonMatches_Any(reason) == TRUE    \* mutant: any RSTACK connects
ReasonMatches(reason) ==
  IF ResetMethod = "RST" THEN reason = "SOFTWARE"
                         ELSE reason \in {"EXTERNAL", "POWERON"}

\* RSTACK while waiting for it: the link comes up, or the version is wrong
ReceiveRstAck(versionOk, reason) ==
  /\ CanReceive /\ ~Connected /\ ~ashDecodeInProgress
  /\ IF versionOk
       THEN /\ ReasonMatches(reason)
            /\ flags' = {"CONNECTED", "ACK"}
            /\ ackTimer' = FALSE /\ ashTimeouts' = 0
            /\ UNCHANGED <<ashError, starting>>
       ELSE /\ flags' = {} /\ ashError' = "VERSION" /\ starting' = FALSE
            /\ UNCHANGED <<ackTimer, ashTimeouts>>
  /\ UNCHANGED <<sendVars, busy, ackRx, ackTx, txNumbers, nrTimer, txQueue,
                 reTxVars, rxVars, ncpError>>

\* RSTACK while connected: the NCP has reset itself
ReceiveReset ==
  /\ CanReceive /\ Connected /\ ~ashDecodeInProgress
  /\ flags' = {} /\ ashError' = "NCP_RESET" /\ ncpError' = "ERROR"
  /\ starting' = FALSE
  /\ UNCHANGED <<sendVars, busy, ackRx, ackTx, txNumbers, ashTimeouts, timers,
                 txQueue, reTxVars, rxVars>>

ReceiveError ==
  /\ CanReceive /\ ~ashDecodeInProgress
  /\ flags' = {} /\ ncpError' = "ERROR" /\ starting' = FALSE
  /\ UNCHANGED <<sendVars, busy, ackRx, ackTx, txNumbers, ashTimeouts, timers,
                 txQueue, reTxVars, rxVars, ashError>>

ReceiveStep ==
  \/ ReadData \/ ReceiveIgnored \/ ReceiveXonXoff
  \/ \E isData \in BOOLEAN : ReceiveBad(isData)
  \/ \E ack \in FrameNum : ReceiveAck(ack) \/ ReceiveNak(ack)
  \/ \E f \in DataFrames : ReceiveData(f)
  \/ \E versionOk \in BOOLEAN, reason \in ResetReasons :
       ReceiveRstAck(versionOk, reason)
  \/ ReceiveReset \/ ReceiveError

-----------------------------------------------------------------------------
(* The layers above.                                                       *)

AppTurn == ~starting /\ ~busy

\* ashSend (the call of ashSendExec at its end is further steps)
AshSend(d) ==
  /\ AppTurn /\ Connected /\ txFree > 0
  /\ txFree' = txFree - 1
  /\ txQueue' = Append(txQueue, d)
  /\ UNCHANGED <<flags, sendVars, busy, ackRx, ackTx, txNumbers, frmReTxHead,
                 ashTimeouts, timers, reTxQueue, rxVars, errorVars, starting>>

\* ashReceive takes the oldest entry; serialResponseReceived may pass over
\* older ones (ashQueuePrecedingEntry, ashRemoveQueueEntry)
TakeReceived(i) ==
  /\ AppTurn /\ Connected /\ i \in DOMAIN rxQueue
  /\ rxQueue' = SubSeq(rxQueue, 1, i - 1)
                  \o SubSeq(rxQueue, i + 1, Len(rxQueue))
  /\ rxFree' = rxFree + 1
  /\ UNCHANGED <<flags, sendVars, busy, ackRx, ackTx, txNumbers, frmRx,
                 ashTimeouts, timers, txQueue, reTxVars, rxDataBuffer,
                 ashDecodeInProgress, errorVars, starting>>

AppStep == \/ \E d \in Data : AshSend(d)
           \/ \E i \in 1 .. RxPool : TakeReceived(i)

Next == \/ Start \/ StartDone \/ StartFailed \/ Stop
        \/ AckTimeout \/ ResetTimeout \/ SendStep
        \/ ReceiveStep \/ AppStep

Spec == Init /\ [][Next]_vars

-----------------------------------------------------------------------------
(* Properties.                                                             *)

TxIntegrity ==
  /\ Len(reTxQueue) = Dist(frmReTxHead, frmTx)
  /\ Len(reTxQueue) <= TxK
  /\ txFree + Len(txQueue) + Len(reTxQueue) = TxPool
RxIntegrity ==
  /\ rxFree + Len(rxQueue) <= RxPool
  /\ rxDataBuffer => rxFree + Len(rxQueue) < RxPool

\* Every buffer of the two pools is where the code believes it is: the
\* retransmit queue holds exactly the frames frmReTxHead .. frmTx-1, never
\* more than txK of them, and no buffer is in two places.  So no assert of
\* ash-host-queues.c (head of an empty queue, NULL freed) can fail, and
\* ashScrubReTxQueue stops.
QueueIntegrity == TxIntegrity /\ RxIntegrity

\* The frame numbers keep their order around the window: what is acknowledged
\* and what is to be retransmitted lies between the oldest frame kept and the
\* next one, so ashQueueNthEntry always finds its entry.  Outside of
\* retransmission exactly the frames not acknowledged are kept.
WindowOrder ==
  Connected =>
    /\ WithinRange(frmReTxHead, ackRx, frmTx)
    /\ "RETX" \in flags => WithinRange(frmReTxHead, frmReTx, frmTx)
    /\ "RETX" \notin flags => frmReTxHead = ackRx

\* While a DATA frame is being written, byte by byte from its buffer, that
\* buffer stays in its queue at the place its frame number names, whatever is
\* acknowledged meanwhile.
SendingOwned ==
  Connected =>
    /\ sendState = "TX_DATA" =>
         /\ txQueue # <<>> /\ Head(txQueue) = txFrame.data
         /\ txFrame.frm = frmTx
         /\ "RETX" \notin flags \/ "CAN" \in flags
    /\ sendState = "RETX_DATA" =>
         LET i == Dist(frmReTxHead, frmReTx) + 1 IN
           /\ "RETX" \in flags /\ txFrame.frm = frmReTx
           /\ i <= Len(reTxQueue) /\ reTxQueue[i] = txFrame.data

\* Outside of retransmission, a frame that waits for its acknowledgement has
\* the timer running: nothing else would ever have it sent again.
AckTimerArmed ==
  Connected /\ "RETX" \notin flags /\ ackRx # frmTx => ackTimer

=============================================================================
