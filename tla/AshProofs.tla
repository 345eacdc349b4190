------------------------------ MODULE AshProofs ------------------------------
(***************************************************************************)
(* Proofs about AshHost, for every number of buffers, window and modulus   *)
(* that AshHostAssumption allows and against an arbitrary peer, and, in    *)
(* the second half, about AshLink, for every pair of windows, length of    *)
(* the lines and number of frames and faults that AshLinkAssumption allows.*)
(***************************************************************************)
EXTENDS AshLink, TLAPS


USE DEF sendVars, txNumbers, reTxVars, rxVars, errorVars, timers

(* The invariant that is inductive of the host.                            *)

\* Until ashStart has returned nothing was sent but RST, ACK and NAK.
StartInv ==
  starting =>
    /\ frmTx = 0 /\ ackRx = 0 /\ frmReTx = 0 /\ frmReTxHead = 0
    /\ txQueue = <<>> /\ reTxQueue = <<>>
    /\ "RETX" \notin flags /\ sendState \in {"IDLE", "SHFRAME"}

\* A new frame was started with room in the window and no retransmission; one
\* that begins meanwhile has it cancelled, the only use of CAN while connected.
\* A retransmitted frame is older than the next new one.
SendInv ==
  Connected =>
    /\ sendState = "TX_DATA" =>
         "RETX" \in flags \/ Dist(frmReTxHead, frmTx) < TxK
    /\ sendState = "RETX_DATA" => frmReTx # frmTx
    /\ "CAN" \in flags => "RETX" \in flags

\* Once the last frame is resent the timer runs, and the loop goes on to the
\* housekeeping before anything else can happen.
ReTxEndInv ==
  Connected /\ "RETX" \in flags /\ frmReTx = frmTx =>
    ackTimer /\ busy /\ sendState = "IDLE" /\ "CAN" \notin flags

IInv == /\ TypeOK /\ QueueIntegrity /\ WindowOrder /\ SendingOwned
        /\ AckTimerArmed /\ StartInv /\ SendInv /\ ReTxEndInv

-----------------------------------------------------------------------------
(* Frame numbers and the retransmit queue.                                 *)

\* Dist is a frame number ...
LEMMA DistType ==
  ASSUME NEW lo \in FrameNum, NEW n \in FrameNum
  PROVE  Dist(lo, n) \in FrameNum /\ Dist(lo, n) \in Nat
  BY AshHostAssumption DEF AshHostAssumption, FrameNum, Dist

\* ... and adds up along the ring within a range
LEMMA DistSplit ==
  ASSUME NEW lo \in FrameNum, NEW n \in FrameNum, NEW hi \in FrameNum,
         WithinRange(lo, n, hi)
  PROVE  /\ Dist(n, hi) = Dist(lo, hi) - Dist(lo, n)
         /\ Dist(n, hi) <= Dist(lo, hi)
  BY AshHostAssumption DEF AshHostAssumption, FrameNum, Dist, WithinRange

LEMMA DistZero ==
  ASSUME NEW lo \in FrameNum, NEW n \in FrameNum
  PROVE  (Dist(lo, n) = 0) <=> (lo = n)
  BY AshHostAssumption DEF AshHostAssumption, FrameNum, Dist

LEMMA DistSelf ==
  ASSUME NEW n \in FrameNum
  PROVE  Dist(n, n) = 0
  BY DEF FrameNum, Dist

LEMMA IncType ==
  ASSUME NEW n \in FrameNum
  PROVE  Inc(n) \in FrameNum
  BY AshHostAssumption DEF AshHostAssumption, FrameNum, Inc

LEMMA DistInc ==
  ASSUME NEW lo \in FrameNum, NEW n \in FrameNum, Dist(lo, n) < Modulus - 1
  PROVE  Dist(lo, Inc(n)) = Dist(lo, n) + 1
  BY AshHostAssumption DEF AshHostAssumption, FrameNum, Dist, Inc

\* Retransmitting a frame before the next new one stays in the range
LEMMA IncWithin ==
  ASSUME NEW lo \in FrameNum, NEW n \in FrameNum, NEW hi \in FrameNum,
         WithinRange(lo, n, hi), n # hi
  PROVE  WithinRange(lo, Inc(n), hi) /\ Dist(lo, Inc(n)) = Dist(lo, n) + 1
  BY AshHostAssumption DEF AshHostAssumption, FrameNum, Dist, WithinRange, Inc

\* The frames kept after the oldest n are freed
LEMMA ScrubQueue ==
  ASSUME NEW S, NEW q \in Seq(S), NEW n \in Nat, n <= Len(q)
  PROVE  /\ SubSeq(q, n + 1, Len(q)) \in Seq(S)
         /\ Len(SubSeq(q, n + 1, Len(q))) = Len(q) - n
  OBVIOUS

\* One entry is taken out of a queue
LEMMA RemoveEntry ==
  ASSUME NEW S, NEW q \in Seq(S), NEW i \in 1 .. Len(q)
  PROVE  Len(SubSeq(q, 1, i - 1) \o SubSeq(q, i + 1, Len(q))) = Len(q) - 1
  <1> DEFINE a == SubSeq(q, 1, i - 1)
             b == SubSeq(q, i + 1, Len(q))
  <1>1. a \in Seq(S) /\ Len(a) = i - 1
    OBVIOUS
  <1>2. b \in Seq(S) /\ Len(b) = Len(q) - i
    OBVIOUS
  <1>3. Len(a \o b) = Len(a) + Len(b)
    <2> HIDE DEF a, b
    <2> QED BY <1>1, <1>2
  <1>4. i \in Nat /\ Len(q) \in Nat
    OBVIOUS
  <1> HIDE DEF a, b
  <1>5. Len(a \o b) = Len(q) - 1
    BY <1>1, <1>2, <1>3, <1>4
  <1> QED BY <1>5 DEF a, b

\* ashScrubReTxQueue keeps the frames upTo .. frmTx-1, and frees the rest
LEMMA ScrubStep ==
  ASSUME TypeOK, TxIntegrity, NEW upTo \in FrameNum, ScrubReTxQueue(upTo),
         WithinRange(frmReTxHead, upTo, frmTx), UNCHANGED <<frmTx, txQueue>>
  PROVE  /\ reTxQueue' \in Seq(Data) /\ txFree' \in Nat
         /\ frmReTxHead' = upTo
         /\ TxIntegrity'
  <1> DEFINE n == Dist(frmReTxHead, upTo)
  <1>1. /\ n \in Nat /\ n <= Len(reTxQueue)
        /\ Dist(upTo, frmTx) = Len(reTxQueue) - n
    BY DistType, DistSplit
    DEF TypeOK, NumberTypes, TxIntegrity, WithinRange, FrameNum
  <1>2. /\ reTxQueue' \in Seq(Data)
        /\ Len(reTxQueue') = Len(reTxQueue) - n
    BY <1>1, ScrubQueue DEF TypeOK, QueueTypes, ScrubReTxQueue
  <1>3. /\ txFree' = txFree + n /\ frmReTxHead' = upTo
        /\ frmTx' = frmTx /\ txQueue' = txQueue
    BY DEF ScrubReTxQueue
  <1>4. txFree' \in Nat
    BY <1>1, <1>3 DEF TypeOK, QueueTypes
  <1>5. txFree' + Len(txQueue') + Len(reTxQueue') = TxPool
    <2> HIDE DEF n
    <2>1. txFree \in Nat /\ Len(txQueue) \in Nat /\ Len(reTxQueue) \in Nat
      BY DEF TypeOK, QueueTypes
    <2> QED BY <1>1, <1>2, <1>3, <2>1 DEF TxIntegrity
  <1>6. /\ Len(reTxQueue') = Dist(frmReTxHead', frmTx')
        /\ Len(reTxQueue') <= TxK
    <2> HIDE DEF n
    <2>1. Len(reTxQueue) \in Nat
      BY DEF TypeOK, QueueTypes
    <2> QED BY <1>1, <1>2, <1>3, <2>1, AshHostAssumption
            DEF TxIntegrity, AshHostAssumption
  <1> QED BY <1>2, <1>3, <1>4, <1>5, <1>6 DEF TxIntegrity

LEMMA WithinTrans ==
  ASSUME NEW lo \in FrameNum, NEW m \in FrameNum, NEW n \in FrameNum,
         NEW hi \in FrameNum, WithinRange(lo, m, hi), WithinRange(m, n, hi)
  PROVE  WithinRange(lo, n, hi)
  BY AshHostAssumption DEF AshHostAssumption, FrameNum, Dist, WithinRange

-----------------------------------------------------------------------------
(* What the operators shared by several actions do to the invariant.       *)

\* Only a link that is connected sends DATA frames
LEMMA SendConnected ==
  ASSUME IInv, SendLoop,
         sendState \in {"TX_DATA", "RETX_DATA"} \/ "RETX" \in flags
  PROVE  Connected /\ ~starting
  BY DEF IInv, StartInv, SendLoop

\* ProcessAck moves both ends of the window in step
AckDone(ack) ==
  /\ ackRx' = ack /\ ashTimeouts' \in Nat
  /\ reTxQueue' \in Seq(Data) /\ txFree' \in Nat /\ frmReTxHead' \in FrameNum
  /\ TxIntegrity'
  /\ WithinRange(frmReTxHead', ack, frmTx)
  /\ Dist(frmReTxHead, frmTx) < TxK => Dist(frmReTxHead', frmTx) < TxK
  /\ "RETX" \in flags => UNCHANGED reTxVars
  /\ "RETX" \notin flags => frmReTxHead' = ack
  /\ ackRx = frmTx => ack = ackRx /\ UNCHANGED reTxVars

LEMMA AckStep ==
  ASSUME IInv, Connected, NEW ack \in FrameNum, AckNumOk(ack),
         ProcessAck(ack), UNCHANGED <<frmTx, txQueue>>
  PROVE  AckDone(ack)
  <1>1. ackRx' = ack /\ ashTimeouts' \in Nat
    BY DEF IInv, TypeOK, NumberTypes, ProcessAck
  <1>2. /\ ackRx \in FrameNum /\ frmTx \in FrameNum /\ frmReTxHead \in FrameNum
        /\ WithinRange(ackRx, ack, frmTx)
        /\ WithinRange(frmReTxHead, ackRx, frmTx)
        /\ "RETX" \notin flags => frmReTxHead = ackRx
    BY DEF IInv, TypeOK, NumberTypes, WindowOrder, AckNumOk
  <1>3. WithinRange(frmReTxHead, ack, frmTx)
    BY <1>2, WithinTrans
  <1>4. ackRx = frmTx => ack = ackRx
    BY <1>2, DistSelf, DistZero, DistType DEF WithinRange, FrameNum
  <1>5. CASE ack # ackRx /\ "RETX" \notin flags
    <2>1. ScrubReTxQueue(ack)
      BY <1>5 DEF ProcessAck
    <2>2. /\ reTxQueue' \in Seq(Data) /\ txFree' \in Nat
          /\ frmReTxHead' = ack /\ TxIntegrity'
      BY <1>3, <2>1, ScrubStep DEF IInv, QueueIntegrity
    <2>3. Dist(frmReTxHead, frmTx) < TxK => Dist(ack, frmTx) < TxK
      BY <1>2, <1>3, DistSplit, DistType, AshHostAssumption
      DEF AshHostAssumption, FrameNum
    <2>4. WithinRange(ack, ack, frmTx)
      BY <1>2, DistSelf, DistType DEF WithinRange, FrameNum
    <2> QED BY <1>1, <1>5, <1>4, <2>2, <2>3, <2>4 DEF AckDone
  <1>6. CASE ~(ack # ackRx /\ "RETX" \notin flags)
    <2>1. UNCHANGED reTxVars
      BY <1>6 DEF ProcessAck
    <2>2. TxIntegrity'
      BY <2>1 DEF IInv, QueueIntegrity, TxIntegrity
    <2> QED BY <1>1, <1>2, <1>3, <1>6, <1>4, <2>1, <2>2
            DEF IInv, TypeOK, NumberTypes, QueueTypes, AckDone
  <1> QED BY <1>5, <1>6

\* The housekeeping either follows the last ack or ends the retransmission
HousekeepingDone ==
  /\ frmReTx' \in FrameNum /\ frmReTx' = reTxFrom
  /\ reTxQueue' \in Seq(Data) /\ txFree' \in Nat /\ frmReTxHead' \in FrameNum
  /\ TxIntegrity'
  /\ Dist(frmReTxHead, frmTx) < TxK => Dist(frmReTxHead', frmTx) < TxK
  /\ Connected => WithinRange(frmReTxHead', ackRx, frmTx)
  /\ ReTxDone => frmReTxHead' = ackRx /\ (ackRx = frmTx \/ ackTimer)
  /\ ~ReTxDone => UNCHANGED reTxVars
  /\ "RETX" \in flags /\ ~ReTxDone =>
       Connected /\ WithinRange(frmReTxHead, reTxFrom, frmTx) /\ reTxFrom # frmTx

LEMMA HousekeepingStep ==
  ASSUME IInv, IdleTurn, Housekeeping, UNCHANGED <<ackRx, frmTx, txQueue>>
  PROVE  HousekeepingDone
  <1>1. frmReTx' \in FrameNum /\ frmReTx' = reTxFrom
    BY DEF IInv, TypeOK, NumberTypes, Housekeeping, reTxFrom
  <1>2. "RETX" \in flags =>
          /\ Connected /\ WithinRange(frmReTxHead, reTxFrom, frmTx)
          /\ reTxFrom = frmTx => ackRx = frmTx \/ ackTimer
    BY SendConnected DEF IdleTurn, IInv, WindowOrder, ReTxEndInv, reTxFrom
  <1>3. CASE ReTxDone
    <2>1. ScrubReTxQueue(ackRx) /\ Connected
      BY <1>2, <1>3 DEF Housekeeping, ReTxDone
    <2>2. WithinRange(frmReTxHead, ackRx, frmTx)
      BY <2>1 DEF IInv, WindowOrder
    <2>3. /\ reTxQueue' \in Seq(Data) /\ txFree' \in Nat
          /\ frmReTxHead' = ackRx /\ TxIntegrity'
      BY <2>1, <2>2, ScrubStep DEF IInv, QueueIntegrity, TypeOK, NumberTypes
    <2>4. Dist(frmReTxHead, frmTx) < TxK => Dist(ackRx, frmTx) < TxK
      BY <2>2, DistSplit, DistType, AshHostAssumption
      DEF IInv, TypeOK, NumberTypes, AshHostAssumption, FrameNum
    <2>5. WithinRange(ackRx, ackRx, frmTx)
      BY DistSelf, DistType DEF IInv, TypeOK, NumberTypes, WithinRange, FrameNum
    <2> QED BY <1>1, <1>2, <1>3, <2>3, <2>4, <2>5
            DEF IInv, TypeOK, NumberTypes, HousekeepingDone, ReTxDone
  <1>4. CASE ~ReTxDone
    <2>1. UNCHANGED reTxVars
      BY <1>4 DEF Housekeeping
    <2>2. TxIntegrity'
      BY <2>1 DEF IInv, QueueIntegrity, TxIntegrity
    <2>3. "RETX" \in flags => reTxFrom # frmTx
      BY <1>4 DEF ReTxDone
    <2> QED BY <1>1, <1>2, <1>4, <2>1, <2>2, <2>3
            DEF IInv, TypeOK, NumberTypes, QueueTypes, WindowOrder,
                HousekeepingDone
  <1> QED BY <1>3, <1>4

IdleFlagsDone(expired) ==
  /\ idleFlags(expired) \subseteq Flags
  /\ "CONNECTED" \in idleFlags(expired) <=> Connected
  /\ "CAN" \notin idleFlags(expired)
  /\ "RETX" \in idleFlags(expired) <=> "RETX" \in flags /\ ~ReTxDone

\* The housekeeping and the flow control leave the other flags alone
LEMMA IdleFlagsStep ==
  ASSUME IInv, IdleTurn, NEW expired \in NrExpired
  PROVE  IdleFlagsDone(expired)
  BY DEF IInv, TypeOK, StateTypes, Flags, IdleTurn, Connected, idleFlags, nrFlags,
         flagsAfterReTx, IdleFlagsDone

-----------------------------------------------------------------------------
(* One lemma for each action.                                              *)

LEMMA StartStep == ASSUME IInv, Start PROVE IInv'
  <1> USE DEF IInv, TypeOK, QueueIntegrity, Start
  <1>1. BooleanTypes'
    BY Zenon DEF BooleanTypes, InitVariables
  <1>2. NumberTypes'
    BY AshHostAssumption
    DEF NumberTypes, FrameNum, InitVariables, AshHostAssumption, Dist
  <1>3. QueueTypes'
    BY AshHostAssumption DEF QueueTypes, InitVariables, AshHostAssumption
  <1>4. StateTypes'
    BY DEF StateTypes, Flags, HostErrors, NcpErrors, NoError, InitVariables
  <1>5. FrameType'
    BY DEF FrameType, TxFrames, ShortFrames, DataFrames, NumberTypes,
           InitVariables
  <1>6. TxIntegrity'
    BY AshHostAssumption
    DEF TxIntegrity, QueueTypes, NumberTypes, InitVariables,
        AshHostAssumption, FrameNum, Dist
  <1>7. RxIntegrity'
    BY AshHostAssumption
    DEF RxIntegrity, QueueTypes, InitVariables, AshHostAssumption, FrameNum,
        Dist
  <1>8. WindowOrder'
    BY DEF WindowOrder, Connected, InitVariables
  <1>9. SendingOwned'
    BY DEF SendingOwned, Connected, TxIntegrity, InitVariables
  <1>10. AckTimerArmed'
    BY DEF AckTimerArmed, Connected, InitVariables
  <1>11. StartInv'
    BY DEF StartInv, Connected, InitVariables
  <1>12. SendInv'
    BY DEF SendInv, Connected, SendingOwned, InitVariables
  <1>13. ReTxEndInv'
    BY DEF ReTxEndInv, Connected, SendInv, InitVariables
  <1> QED BY <1>1, <1>2, <1>3, <1>4, <1>5, <1>6, <1>7, <1>8, <1>9, <1>10,
             <1>11, <1>12, <1>13

LEMMA StartDoneStep == ASSUME IInv, StartDone PROVE IInv'
  <1> USE DEF IInv, TypeOK, QueueIntegrity, StartDone
  <1>1. (/\ NumberTypes /\ QueueTypes /\ StateTypes /\ FrameType
         /\ TxIntegrity /\ RxIntegrity /\ WindowOrder /\ SendingOwned
         /\ SendInv)'
    BY DEF NumberTypes, QueueTypes, StateTypes, FrameType, TxIntegrity,
           RxIntegrity, WindowOrder, SendingOwned, SendInv, Connected
  <1>2. BooleanTypes'
    BY Zenon DEF BooleanTypes
  <1>3. AckTimerArmed'
    BY DEF AckTimerArmed, Connected, StartInv
  <1>4. StartInv'
    BY DEF StartInv, Connected
  <1>5. ReTxEndInv'
    BY DEF ReTxEndInv, Connected, SendInv
  <1> QED BY <1>1, <1>2, <1>3, <1>4, <1>5

LEMMA StartFailedStep == ASSUME IInv, StartFailed PROVE IInv'
  <1> USE DEF IInv, TypeOK, QueueIntegrity, StartFailed
  <1>1. (/\ NumberTypes /\ QueueTypes /\ StateTypes /\ FrameType
         /\ TxIntegrity /\ RxIntegrity /\ WindowOrder /\ SendingOwned
         /\ AckTimerArmed /\ SendInv /\ ReTxEndInv)'
    BY DEF NumberTypes, QueueTypes, StateTypes, FrameType, TxIntegrity,
           RxIntegrity, WindowOrder, SendingOwned, AckTimerArmed, SendInv,
           ReTxEndInv, Connected
  <1>2. BooleanTypes'
    BY Zenon DEF BooleanTypes
  <1>3. StartInv'
    BY DEF StartInv, Connected
  <1> QED BY <1>1, <1>2, <1>3

LEMMA StopStep == ASSUME IInv, Stop PROVE IInv'
  <1> USE DEF IInv, TypeOK, QueueIntegrity, Stop
  <1>1. BooleanTypes'
    BY Zenon DEF BooleanTypes, InitVariables
  <1>2. NumberTypes'
    BY AshHostAssumption
    DEF NumberTypes, FrameNum, InitVariables, AshHostAssumption, Dist
  <1>3. QueueTypes'
    BY AshHostAssumption DEF QueueTypes, InitVariables, AshHostAssumption
  <1>4. StateTypes'
    BY DEF StateTypes, Flags, HostErrors, NcpErrors, NoError, InitVariables
  <1>5. FrameType'
    BY DEF FrameType, TxFrames, ShortFrames, DataFrames, NumberTypes,
           InitVariables
  <1>6. TxIntegrity'
    BY AshHostAssumption
    DEF TxIntegrity, QueueTypes, NumberTypes, InitVariables,
        AshHostAssumption, FrameNum, Dist
  <1>7. RxIntegrity'
    BY AshHostAssumption
    DEF RxIntegrity, QueueTypes, InitVariables, AshHostAssumption, FrameNum,
        Dist
  <1>8. WindowOrder'
    BY DEF WindowOrder, Connected, InitVariables
  <1>9. SendingOwned'
    BY DEF SendingOwned, Connected, TxIntegrity, InitVariables
  <1>10. AckTimerArmed'
    BY DEF AckTimerArmed, Connected, InitVariables
  <1>11. StartInv'
    BY DEF StartInv, Connected, InitVariables
  <1>12. SendInv'
    BY DEF SendInv, Connected, SendingOwned, InitVariables
  <1>13. ReTxEndInv'
    BY DEF ReTxEndInv, Connected, SendInv, InitVariables
  <1> QED BY <1>1, <1>2, <1>3, <1>4, <1>5, <1>6, <1>7, <1>8, <1>9, <1>10,
             <1>11, <1>12, <1>13

LEMMA AckTimeoutStep == ASSUME IInv, AckTimeout PROVE IInv'
  <1> USE DEF IInv, TypeOK, QueueIntegrity, AckTimeout
  <1>1. (QueueTypes /\ FrameType /\ TxIntegrity /\ RxIntegrity)'
    BY DEF QueueTypes, FrameType, TxIntegrity, RxIntegrity
  <1>2. BooleanTypes'
    BY Zenon DEF BooleanTypes, MustReTx, SendLoop
  <1>3. NumberTypes'
    BY DEF NumberTypes, FrameNum, MustReTx, SendLoop
  <1>4. StateTypes'
    BY DEF StateTypes, Flags, HostErrors, NcpErrors, NoError, MustReTx,
           SendLoop
  <1>5. WindowOrder'
    BY DEF WindowOrder, Connected, MustReTx, SendLoop
  <1>6. SendingOwned'
    BY DEF SendingOwned, Connected, TxIntegrity, MustReTx, SendLoop
  <1>7. AckTimerArmed'
    BY DEF AckTimerArmed, Connected, MustReTx, SendLoop
  <1>8. StartInv'
    BY DEF StartInv, Connected, MustReTx, SendLoop
  <1>9. SendInv'
    BY DEF SendInv, Connected, SendingOwned, MustReTx, SendLoop
  <1>10. ReTxEndInv'
    BY DEF ReTxEndInv, Connected, SendInv, MustReTx, SendLoop
  <1> QED BY <1>1, <1>2, <1>3, <1>4, <1>5, <1>6, <1>7, <1>8, <1>9, <1>10

LEMMA ResetTimeoutStep == ASSUME IInv, ResetTimeout PROVE IInv'
  <1> USE DEF IInv, TypeOK, QueueIntegrity, ResetTimeout
  <1>1. (/\ BooleanTypes /\ NumberTypes /\ QueueTypes /\ FrameType
         /\ TxIntegrity /\ RxIntegrity)'
    BY DEF BooleanTypes, NumberTypes, QueueTypes, FrameType, TxIntegrity,
           RxIntegrity
  <1>2. StateTypes'
    BY DEF StateTypes, Flags, HostErrors, NcpErrors, NoError, SendLoop
  <1>3. WindowOrder'
    BY DEF WindowOrder, Connected, SendLoop
  <1>4. SendingOwned'
    BY DEF SendingOwned, Connected, TxIntegrity, SendLoop
  <1>5. AckTimerArmed'
    BY DEF AckTimerArmed, Connected, SendLoop
  <1>6. StartInv'
    BY DEF StartInv, Connected, SendLoop
  <1>7. SendInv'
    BY DEF SendInv, Connected, SendingOwned, SendLoop
  <1>8. ReTxEndInv'
    BY DEF ReTxEndInv, Connected, SendInv, SendLoop
  <1> QED BY <1>1, <1>2, <1>3, <1>4, <1>5, <1>6, <1>7, <1>8

LEMMA SendCancelStep == ASSUME IInv, SendCancel PROVE IInv'
  <1> USE DEF IInv, TypeOK, QueueIntegrity, SendCancel
  <1>1. (NumberTypes /\ QueueTypes /\ TxIntegrity /\ RxIntegrity)'
    BY DEF NumberTypes, QueueTypes, TxIntegrity, RxIntegrity
  <1>2. BooleanTypes'
    <2>1. busy' \in BOOLEAN
      OBVIOUS
    <2>2. sent' \in BOOLEAN /\ ackTimer' \in BOOLEAN
      BY DEF BooleanTypes
    <2> QED BY <2>1, <2>2 DEF BooleanTypes
  <1>3. StateTypes'
    BY DEF StateTypes, Flags, HostErrors, NcpErrors, NoError, SendLoop
  <1>4. FrameType'
    BY DEF FrameType, TxFrames, ShortFrames, DataFrames, NumberTypes, SendLoop
  <1>5. WindowOrder'
    BY DEF WindowOrder, Connected, SendLoop
  <1>6. SendingOwned'
    BY DEF SendingOwned, Connected, TxIntegrity, SendLoop
  <1>7. AckTimerArmed'
    BY DEF AckTimerArmed, Connected, SendLoop, SendInv
  <1>8. StartInv'
    BY DEF StartInv, Connected, SendLoop
  <1>9. SendInv'
    BY DEF SendInv, Connected, SendingOwned, SendLoop
  <1>10. ReTxEndInv'
    BY DEF ReTxEndInv, Connected, SendInv, SendLoop
  <1> QED BY <1>1, <1>2, <1>3, <1>4, <1>5, <1>6, <1>7, <1>8, <1>9, <1>10

LEMMA WriteFlagStep == ASSUME IInv, WriteFlag PROVE IInv'
  <1> USE DEF IInv, TypeOK, QueueIntegrity, WriteFlag
  <1>1. (/\ NumberTypes /\ QueueTypes /\ StateTypes /\ FrameType
         /\ TxIntegrity /\ RxIntegrity /\ WindowOrder /\ SendingOwned
         /\ AckTimerArmed /\ StartInv /\ SendInv)'
    BY DEF NumberTypes, QueueTypes, StateTypes, FrameType, TxIntegrity,
           RxIntegrity, WindowOrder, SendingOwned, AckTimerArmed, StartInv,
           SendInv, Connected
  <1>2. BooleanTypes'
    BY Zenon DEF BooleanTypes, SendLoop
  <1>3. ReTxEndInv'
    BY DEF ReTxEndInv, Connected, SendInv, SendLoop
  <1> QED BY <1>1, <1>2, <1>3

LEMMA FinishShortStep == ASSUME IInv, FinishShort PROVE IInv'
  <1> USE DEF IInv, TypeOK, QueueIntegrity, FinishShort
  <1>1. (/\ NumberTypes /\ QueueTypes /\ TxIntegrity /\ RxIntegrity
         /\ WindowOrder /\ AckTimerArmed)'
    BY DEF NumberTypes, QueueTypes, TxIntegrity, RxIntegrity, WindowOrder,
           AckTimerArmed, Connected
  <1>2. BooleanTypes'
    BY Zenon DEF BooleanTypes, FrameTurn, EndFrame, SendLoop
  <1>3. StateTypes'
    BY DEF StateTypes, Flags, HostErrors, NcpErrors, NoError, FrameTurn,
           EndFrame, SendLoop
  <1>4. FrameType'
    BY DEF FrameType, TxFrames, ShortFrames, DataFrames, NumberTypes,
           FrameTurn, EndFrame, SendLoop
  <1>5. SendingOwned'
    BY DEF SendingOwned, Connected, TxIntegrity, FrameTurn, EndFrame, SendLoop
  <1>6. StartInv'
    BY DEF StartInv, Connected, FrameTurn, EndFrame, SendLoop
  <1>7. SendInv'
    BY DEF SendInv, Connected, SendingOwned, FrameTurn, EndFrame, SendLoop
  <1>8. ReTxEndInv'
    BY DEF ReTxEndInv, Connected, SendInv, FrameTurn, EndFrame, SendLoop
  <1> QED BY <1>1, <1>2, <1>3, <1>4, <1>5, <1>6, <1>7, <1>8

LEMMA FinishDataStep == ASSUME IInv, FinishData PROVE IInv'
  <1> USE DEF IInv, TypeOK, QueueIntegrity, FinishData
  <1>1. RxIntegrity'
    BY DEF RxIntegrity
  <1>2. BooleanTypes'
    BY Zenon DEF BooleanTypes, FrameTurn, EndFrame, SendLoop
  <1>3. NumberTypes'
    BY IncType DEF NumberTypes
  <1>4. QueueTypes'
    <2>1. txQueue # <<>>
      BY SendConnected DEF SendingOwned, FrameTurn
    <2> QED BY <2>1 DEF QueueTypes
  <1>5. StateTypes'
    BY DEF StateTypes, Flags, HostErrors, NcpErrors, NoError, FrameTurn,
           EndFrame, SendLoop
  <1>6. FrameType'
    BY DEF FrameType, TxFrames, ShortFrames, DataFrames, NumberTypes,
           FrameTurn, EndFrame, SendLoop
  <1>7. TxIntegrity'
    <2>1. Connected /\ txQueue # <<>> /\ Dist(frmReTxHead, frmTx) < TxK
      BY SendConnected DEF SendingOwned, SendInv, FrameTurn
    <2>2. Dist(frmReTxHead, frmTx) \in Nat
      BY DistType DEF NumberTypes
    <2>3. Dist(frmReTxHead, Inc(frmTx)) = Dist(frmReTxHead, frmTx) + 1
      <3>1. Dist(frmReTxHead, frmTx) < Modulus - 1
        BY <2>1, <2>2, AshHostAssumption DEF AshHostAssumption
      <3> QED BY <3>1, DistInc DEF NumberTypes
    <2>4. /\ Len(reTxQueue') = Len(reTxQueue) + 1
          /\ Len(txQueue') = Len(txQueue) - 1
      BY <2>1 DEF QueueTypes
    <2>5. /\ Len(reTxQueue) \in Nat /\ Len(txQueue) \in Nat /\ txFree \in Nat
      BY DEF QueueTypes
    <2>6. /\ txFree' = txFree /\ frmReTxHead' = frmReTxHead
          /\ frmTx' = Inc(frmTx)
      OBVIOUS
    <2> HIDE DEF FinishData
    <2> QED BY <2>1, <2>2, <2>3, <2>4, <2>5, <2>6, AshHostAssumption
            DEF TxIntegrity, AshHostAssumption
  <1>8. WindowOrder'
    <2>1. Connected /\ "RETX" \notin flags
      BY SendConnected DEF SendingOwned, FrameTurn
    <2>2. frmReTxHead = ackRx
      BY <2>1 DEF WindowOrder
    <2>3. WithinRange(frmReTxHead, ackRx, Inc(frmTx))
      BY <2>2, DistSelf, DistType, IncType DEF NumberTypes, FrameNum, WithinRange
    <2> QED BY <2>1, <2>2, <2>3 DEF WindowOrder, Connected
  <1>9. SendingOwned'
    BY DEF SendingOwned, Connected, TxIntegrity, FrameTurn, EndFrame, SendLoop
  <1>10. AckTimerArmed'
    BY DEF AckTimerArmed, Connected, FrameTurn, EndFrame, SendLoop
  <1>11. StartInv'
    BY DEF StartInv, Connected, FrameTurn, EndFrame, SendLoop
  <1>12. SendInv'
    BY DEF SendInv, Connected, SendingOwned, FrameTurn, EndFrame, SendLoop
  <1>13. ReTxEndInv'
    BY DEF ReTxEndInv, Connected, SendInv, FrameTurn, EndFrame, SendLoop
  <1> QED BY <1>1, <1>2, <1>3, <1>4, <1>5, <1>6, <1>7, <1>8, <1>9, <1>10,
             <1>11, <1>12, <1>13

LEMMA FinishReTxStep == ASSUME IInv, FinishReTx PROVE IInv'
  <1> USE DEF IInv, TypeOK, QueueIntegrity, FinishReTx
  <1>1. (QueueTypes /\ TxIntegrity /\ RxIntegrity)'
    BY DEF QueueTypes, TxIntegrity, RxIntegrity
  <1>2. BooleanTypes'
    BY Zenon DEF BooleanTypes, FrameTurn, EndFrame, SendLoop
  <1>3. NumberTypes'
    BY IncType DEF NumberTypes
  <1>4. StateTypes'
    BY DEF StateTypes, Flags, HostErrors, NcpErrors, NoError, FrameTurn,
           EndFrame, SendLoop
  <1>5. FrameType'
    BY DEF FrameType, TxFrames, ShortFrames, DataFrames, NumberTypes,
           FrameTurn, EndFrame, SendLoop
  <1>6. WindowOrder'
    <2>1. /\ Connected /\ "RETX" \in flags /\ frmReTx # frmTx
          /\ WithinRange(frmReTxHead, frmReTx, frmTx)
      BY SendConnected DEF SendingOwned, SendInv, FrameTurn, WindowOrder
    <2> QED BY <2>1, IncWithin DEF WindowOrder, NumberTypes, Connected
  <1>7. SendingOwned'
    BY DEF SendingOwned, Connected, TxIntegrity, FrameTurn, EndFrame, SendLoop
  <1>8. AckTimerArmed'
    BY DEF AckTimerArmed, Connected, FrameTurn, EndFrame, SendLoop
  <1>9. StartInv'
    BY DEF StartInv, Connected, FrameTurn, EndFrame, SendLoop
  <1>10. SendInv'
    BY DEF SendInv, Connected, SendingOwned, FrameTurn, EndFrame, SendLoop
  <1>11. ReTxEndInv'
    BY DEF ReTxEndInv, Connected, SendInv, FrameTurn, EndFrame, SendLoop
  <1> QED BY <1>1, <1>2, <1>3, <1>4, <1>5, <1>6, <1>7, <1>8, <1>9, <1>10,
             <1>11

LEMMA StartRstStep ==
  ASSUME IInv, NEW expired \in NrExpired, StartRst(expired)
  PROVE  IInv'
  <1> USE DEF IInv, TypeOK, QueueIntegrity, StartRst
  <1>1. HousekeepingDone
    BY HousekeepingStep
  <1>2. IdleFlagsDone(expired)
    BY IdleFlagsStep
  <1>3. RxIntegrity'
    BY DEF RxIntegrity
  <1>4. BooleanTypes'
    BY DEF BooleanTypes, BeginFrame, idleTimer
  <1>5. NumberTypes'
    BY <1>1 DEF NumberTypes, HousekeepingDone, BeginFrame
  <1>6. QueueTypes'
    BY <1>1 DEF QueueTypes, HousekeepingDone
  <1>7. StateTypes'
    BY <1>2 DEF StateTypes, Flags, IdleFlagsDone, BeginFrame
  <1>8. FrameType'
    BY <1>1, <1>2
    DEF FrameType, TxFrames, ShortFrames, DataFrames, NumberTypes, BeginFrame,
        HousekeepingDone
  <1>9. TxIntegrity'
    BY <1>1 DEF HousekeepingDone
  <1>10. WindowOrder'
    BY <1>1, <1>2
    DEF WindowOrder, Connected, HousekeepingDone, IdleFlagsDone, ReTxDone,
        BeginFrame
  <1>11. SendingOwned'
    BY <1>1, <1>2
    DEF SendingOwned, Connected, HousekeepingDone, IdleFlagsDone, ReTxDone,
        BeginFrame, TxIntegrity, SendLoop, SendInv, WindowOrder
  <1>12. AckTimerArmed'
    BY <1>1, <1>2
    DEF AckTimerArmed, Connected, HousekeepingDone, IdleFlagsDone, ReTxDone,
        BeginFrame
  <1>13. StartInv'
    BY <1>1, <1>2
    DEF StartInv, Connected, HousekeepingDone, IdleFlagsDone, ReTxDone,
        BeginFrame, SendLoop, SendInv, WindowOrder, reTxFrom
  <1>14. SendInv'
    BY <1>1, <1>2
    DEF SendInv, Connected, HousekeepingDone, IdleFlagsDone, ReTxDone,
        BeginFrame, SendLoop, SendInv, WindowOrder
  <1>15. ReTxEndInv'
    BY <1>1, <1>2
    DEF ReTxEndInv, Connected, HousekeepingDone, IdleFlagsDone, ReTxDone,
        BeginFrame
  <1> QED BY <1>3, <1>4, <1>5, <1>6, <1>7, <1>8, <1>9, <1>10, <1>11, <1>12,
             <1>13, <1>14, <1>15

LEMMA StartNakOrAckStep ==
  ASSUME IInv, NEW expired \in NrExpired, StartNakOrAck(expired)
  PROVE  IInv'
  <1> USE DEF IInv, TypeOK, QueueIntegrity, StartNakOrAck
  <1>1. HousekeepingDone
    BY HousekeepingStep
  <1>2. IdleFlagsDone(expired)
    BY IdleFlagsStep
  <1>3. RxIntegrity'
    BY DEF RxIntegrity
  <1>4. BooleanTypes'
    BY DEF BooleanTypes, BeginFrame, idleTimer
  <1>5. NumberTypes'
    BY <1>1 DEF NumberTypes, HousekeepingDone, BeginFrame
  <1>6. QueueTypes'
    BY <1>1 DEF QueueTypes, HousekeepingDone
  <1>7. StateTypes'
    BY <1>2 DEF StateTypes, Flags, IdleFlagsDone, BeginFrame
  <1>8. FrameType'
    BY <1>1, <1>2
    DEF FrameType, TxFrames, ShortFrames, DataFrames, NumberTypes, BeginFrame,
        HousekeepingDone
  <1>9. TxIntegrity'
    BY <1>1 DEF HousekeepingDone
  <1>10. WindowOrder'
    BY <1>1, <1>2
    DEF WindowOrder, Connected, HousekeepingDone, IdleFlagsDone, ReTxDone,
        BeginFrame
  <1>11. SendingOwned'
    BY <1>1, <1>2
    DEF SendingOwned, Connected, HousekeepingDone, IdleFlagsDone, ReTxDone,
        BeginFrame, TxIntegrity, SendLoop, SendInv, WindowOrder
  <1>12. AckTimerArmed'
    BY <1>1, <1>2
    DEF AckTimerArmed, Connected, HousekeepingDone, IdleFlagsDone, ReTxDone,
        BeginFrame
  <1>13. StartInv'
    BY <1>1, <1>2
    DEF StartInv, Connected, HousekeepingDone, IdleFlagsDone, ReTxDone,
        BeginFrame, SendLoop, SendInv, WindowOrder, reTxFrom
  <1>14. SendInv'
    BY <1>1, <1>2
    DEF SendInv, Connected, HousekeepingDone, IdleFlagsDone, ReTxDone,
        BeginFrame, SendLoop, SendInv, WindowOrder
  <1>15. ReTxEndInv'
    BY <1>1, <1>2
    DEF ReTxEndInv, Connected, HousekeepingDone, IdleFlagsDone, ReTxDone,
        BeginFrame
  <1> QED BY <1>3, <1>4, <1>5, <1>6, <1>7, <1>8, <1>9, <1>10, <1>11, <1>12,
             <1>13, <1>14, <1>15

LEMMA StartReTxStep ==
  ASSUME IInv, NEW expired \in NrExpired, StartReTx(expired)
  PROVE  IInv'
  <1> USE DEF IInv, TypeOK, QueueIntegrity, StartReTx
  <1>1. HousekeepingDone
    BY HousekeepingStep
  <1>2. IdleFlagsDone(expired)
    BY IdleFlagsStep
  <1>3. RxIntegrity'
    BY DEF RxIntegrity
  <1>4. BooleanTypes'
    BY DEF BooleanTypes, BeginFrame, idleTimer
  <1>5. NumberTypes'
    BY <1>1 DEF NumberTypes, HousekeepingDone, BeginFrame
  <1>6. QueueTypes'
    BY <1>1 DEF QueueTypes, HousekeepingDone
  <1>7. StateTypes'
    BY <1>2 DEF StateTypes, Flags, IdleFlagsDone, BeginFrame
  <1>8. FrameType'
    <2> DEFINE i == Len(reTxQueue) - Dist(reTxFrom, frmTx) + 1
    <2>1. /\ Connected /\ WithinRange(frmReTxHead, reTxFrom, frmTx)
          /\ reTxFrom # frmTx /\ reTxFrom \in FrameNum
      BY <1>1, <1>2 DEF IdleFlagsDone, HousekeepingDone
    <2>2. i = Dist(frmReTxHead, reTxFrom) + 1 /\ i \in 1 .. Len(reTxQueue)
      <3>1. frmReTxHead \in FrameNum /\ frmTx \in FrameNum
        BY DEF NumberTypes
      <3>2. Dist(reTxFrom, frmTx)
              = Dist(frmReTxHead, frmTx) - Dist(frmReTxHead, reTxFrom)
        BY <2>1, <3>1, DistSplit
      <3>3. /\ Dist(reTxFrom, frmTx) \in Nat /\ Dist(reTxFrom, frmTx) # 0
            /\ Dist(frmReTxHead, reTxFrom) \in Nat
            /\ Dist(frmReTxHead, frmTx) \in Nat
        BY <2>1, <3>1, DistType, DistZero
      <3> QED BY <3>2, <3>3 DEF TxIntegrity
    <2>3. reTxQueue[i] \in Data
      BY <2>2 DEF QueueTypes
    <2> QED BY <2>1, <2>3
            DEF FrameType, TxFrames, DataFrames, BeginFrame, NumberTypes
  <1>9. TxIntegrity'
    BY <1>1 DEF HousekeepingDone
  <1>10. WindowOrder'
    BY <1>1, <1>2
    DEF WindowOrder, Connected, HousekeepingDone, IdleFlagsDone, ReTxDone,
        BeginFrame, IdleTurn, NothingUrgent
  <1>11. SendingOwned'
    <2> DEFINE i == Len(reTxQueue) - Dist(reTxFrom, frmTx) + 1
    <2>1. /\ Connected /\ WithinRange(frmReTxHead, reTxFrom, frmTx)
          /\ reTxFrom # frmTx /\ reTxFrom \in FrameNum
      BY <1>1, <1>2 DEF IdleFlagsDone, HousekeepingDone
    <2>2. i = Dist(frmReTxHead, reTxFrom) + 1 /\ i \in 1 .. Len(reTxQueue)
      <3>1. frmReTxHead \in FrameNum /\ frmTx \in FrameNum
        BY DEF NumberTypes
      <3>2. Dist(reTxFrom, frmTx)
              = Dist(frmReTxHead, frmTx) - Dist(frmReTxHead, reTxFrom)
        BY <2>1, <3>1, DistSplit
      <3>3. /\ Dist(reTxFrom, frmTx) \in Nat /\ Dist(reTxFrom, frmTx) # 0
            /\ Dist(frmReTxHead, reTxFrom) \in Nat
            /\ Dist(frmReTxHead, frmTx) \in Nat
        BY <2>1, <3>1, DistType, DistZero
      <3> QED BY <3>2, <3>3 DEF TxIntegrity
    <2>3. ~ReTxDone /\ "RETX" \in flags' /\ frmReTx' = reTxFrom
      BY <1>1, <1>2 DEF IdleFlagsDone, HousekeepingDone
    <2>4. reTxQueue' = reTxQueue /\ frmReTxHead' = frmReTxHead
      BY <1>1, <2>3 DEF HousekeepingDone
    <2>5. /\ sendState' = "RETX_DATA" /\ txFrame'.frm = reTxFrom
          /\ txFrame'.data = reTxQueue[i]
      BY DEF BeginFrame
    <2> QED BY <2>2, <2>3, <2>4, <2>5 DEF SendingOwned
  <1>12. AckTimerArmed'
    BY <1>1, <1>2
    DEF AckTimerArmed, Connected, HousekeepingDone, IdleFlagsDone, ReTxDone,
        BeginFrame, IdleTurn, NothingUrgent
  <1>13. StartInv'
    BY <1>1, <1>2
    DEF StartInv, Connected, HousekeepingDone, IdleFlagsDone, ReTxDone,
        BeginFrame, IdleTurn, NothingUrgent, SendLoop, SendInv, WindowOrder,
        reTxFrom
  <1>14. SendInv'
    BY <1>1, <1>2
    DEF SendInv, Connected, HousekeepingDone, IdleFlagsDone, ReTxDone,
        BeginFrame, IdleTurn, NothingUrgent, SendLoop, SendInv, WindowOrder
  <1>15. ReTxEndInv'
    BY <1>1, <1>2
    DEF ReTxEndInv, Connected, HousekeepingDone, IdleFlagsDone, ReTxDone,
        BeginFrame, IdleTurn, NothingUrgent
  <1> QED BY <1>3, <1>4, <1>5, <1>6, <1>7, <1>8, <1>9, <1>10, <1>11, <1>12,
             <1>13, <1>14, <1>15

LEMMA FlagAckStep ==
  ASSUME IInv, NEW expired \in NrExpired, FlagAck(expired)
  PROVE  IInv'
  <1> USE DEF IInv, TypeOK, QueueIntegrity, FlagAck
  <1>1. HousekeepingDone
    BY HousekeepingStep
  <1>2. IdleFlagsDone(expired)
    BY IdleFlagsStep
  <1>3. (FrameType /\ RxIntegrity)'
    BY DEF FrameType, RxIntegrity
  <1>4. BooleanTypes'
    BY DEF BooleanTypes, BeginFrame, idleTimer
  <1>5. NumberTypes'
    BY <1>1 DEF NumberTypes, HousekeepingDone, BeginFrame
  <1>6. QueueTypes'
    BY <1>1 DEF QueueTypes, HousekeepingDone
  <1>7. StateTypes'
    BY <1>2 DEF StateTypes, Flags, IdleFlagsDone, BeginFrame
  <1>8. TxIntegrity'
    BY <1>1 DEF HousekeepingDone
  <1>9. WindowOrder'
    BY <1>1, <1>2
    DEF WindowOrder, Connected, HousekeepingDone, IdleFlagsDone, ReTxDone,
        BeginFrame, IdleTurn, NothingUrgent
  <1>10. SendingOwned'
    BY <1>1, <1>2
    DEF SendingOwned, Connected, HousekeepingDone, IdleFlagsDone, ReTxDone,
        BeginFrame, IdleTurn, NothingUrgent, TxIntegrity, SendLoop, SendInv,
        WindowOrder
  <1>11. AckTimerArmed'
    BY <1>1, <1>2
    DEF AckTimerArmed, Connected, HousekeepingDone, IdleFlagsDone, ReTxDone,
        BeginFrame, IdleTurn, NothingUrgent
  <1>12. StartInv'
    BY <1>1, <1>2
    DEF StartInv, Connected, HousekeepingDone, IdleFlagsDone, ReTxDone,
        BeginFrame, IdleTurn, NothingUrgent, SendLoop, SendInv, WindowOrder,
        reTxFrom
  <1>13. SendInv'
    BY <1>1, <1>2
    DEF SendInv, Connected, HousekeepingDone, IdleFlagsDone, ReTxDone,
        BeginFrame, IdleTurn, NothingUrgent, SendLoop, SendInv, WindowOrder
  <1>14. ReTxEndInv'
    BY <1>1, <1>2
    DEF ReTxEndInv, Connected, HousekeepingDone, IdleFlagsDone, ReTxDone,
        BeginFrame, IdleTurn, NothingUrgent
  <1> QED BY <1>3, <1>4, <1>5, <1>6, <1>7, <1>8, <1>9, <1>10, <1>11, <1>12,
             <1>13, <1>14

LEMMA StartDataStep ==
  ASSUME IInv, NEW expired \in NrExpired, StartData(expired)
  PROVE  IInv'
  <1> USE DEF IInv, TypeOK, QueueIntegrity, StartData
  <1>1. HousekeepingDone
    BY HousekeepingStep
  <1>2. IdleFlagsDone(expired)
    BY IdleFlagsStep
  <1>3. RxIntegrity'
    BY DEF RxIntegrity
  <1>4. BooleanTypes'
    BY DEF BooleanTypes, BeginFrame, idleTimer
  <1>5. NumberTypes'
    BY <1>1 DEF NumberTypes, HousekeepingDone, BeginFrame
  <1>6. QueueTypes'
    BY <1>1 DEF QueueTypes, HousekeepingDone
  <1>7. StateTypes'
    BY <1>2 DEF StateTypes, Flags, IdleFlagsDone, BeginFrame
  <1>8. FrameType'
    BY <1>1, <1>2
    DEF FrameType, TxFrames, ShortFrames, DataFrames, NumberTypes, BeginFrame,
        NothingUrgent, ReadyForData, HousekeepingDone, QueueTypes
  <1>9. TxIntegrity'
    BY <1>1 DEF HousekeepingDone
  <1>10. WindowOrder'
    BY <1>1, <1>2
    DEF WindowOrder, Connected, HousekeepingDone, IdleFlagsDone, ReTxDone,
        BeginFrame, IdleTurn, NothingUrgent
  <1>11. SendingOwned'
    BY <1>1, <1>2
    DEF SendingOwned, Connected, HousekeepingDone, IdleFlagsDone, ReTxDone,
        BeginFrame, IdleTurn, NothingUrgent, TxIntegrity, SendLoop, SendInv,
        WindowOrder, ReadyForData
  <1>12. AckTimerArmed'
    BY <1>1, <1>2
    DEF AckTimerArmed, Connected, HousekeepingDone, IdleFlagsDone, ReTxDone,
        BeginFrame, IdleTurn, NothingUrgent
  <1>13. StartInv'
    <2>1. ~starting
      BY DEF StartInv, ReadyForData
    <2> QED BY <2>1 DEF StartInv
  <1>14. SendInv'
    <2>1. "RETX" \notin flags' /\ "CAN" \notin flags'
      BY <1>2 DEF IdleFlagsDone, NothingUrgent
    <2>2. Dist(ackRx, frmTx) < TxK
      <3>1. Dist(ackRx, frmTx) \in Nat
        BY DistType DEF NumberTypes
      <3> QED BY <3>1, AshHostAssumption DEF ReadyForData, AshHostAssumption
    <2>3. Connected => frmReTxHead' = ackRx
      BY <1>1, <1>2, <2>1
      DEF HousekeepingDone, IdleFlagsDone, WindowOrder
    <2> QED BY <1>2, <2>1, <2>2, <2>3
            DEF SendInv, BeginFrame, IdleFlagsDone, Connected
  <1>15. ReTxEndInv'
    BY <1>1, <1>2
    DEF ReTxEndInv, Connected, HousekeepingDone, IdleFlagsDone, ReTxDone,
        BeginFrame, IdleTurn, NothingUrgent
  <1> QED BY <1>3, <1>4, <1>5, <1>6, <1>7, <1>8, <1>9, <1>10, <1>11, <1>12,
             <1>13, <1>14, <1>15

LEMMA NothingToSendStep ==
  ASSUME IInv, NEW expired \in NrExpired, NothingToSend(expired)
  PROVE  IInv'
  <1> USE DEF IInv, TypeOK, QueueIntegrity, NothingToSend
  <1>1. HousekeepingDone
    BY HousekeepingStep
  <1>2. IdleFlagsDone(expired)
    BY IdleFlagsStep
  <1>3. (FrameType /\ RxIntegrity)'
    BY DEF FrameType, RxIntegrity
  <1>4. BooleanTypes'
    BY DEF BooleanTypes, BeginFrame, idleTimer
  <1>5. NumberTypes'
    BY <1>1 DEF NumberTypes, HousekeepingDone, BeginFrame
  <1>6. QueueTypes'
    BY <1>1 DEF QueueTypes, HousekeepingDone
  <1>7. StateTypes'
    BY <1>2 DEF StateTypes, Flags, IdleFlagsDone, BeginFrame
  <1>8. TxIntegrity'
    BY <1>1 DEF HousekeepingDone
  <1>9. WindowOrder'
    BY <1>1, <1>2
    DEF WindowOrder, Connected, HousekeepingDone, IdleFlagsDone, ReTxDone,
        BeginFrame, IdleTurn, NothingUrgent
  <1>10. SendingOwned'
    BY <1>1, <1>2
    DEF SendingOwned, Connected, HousekeepingDone, IdleFlagsDone, ReTxDone,
        BeginFrame, IdleTurn, NothingUrgent, TxIntegrity, SendLoop, SendInv,
        WindowOrder
  <1>11. AckTimerArmed'
    BY <1>1, <1>2
    DEF AckTimerArmed, Connected, HousekeepingDone, IdleFlagsDone, ReTxDone,
        BeginFrame, IdleTurn, NothingUrgent
  <1>12. StartInv'
    BY <1>1, <1>2
    DEF StartInv, Connected, HousekeepingDone, IdleFlagsDone, ReTxDone,
        BeginFrame, IdleTurn, NothingUrgent, SendLoop, SendInv, WindowOrder,
        reTxFrom
  <1>13. SendInv'
    BY <1>1, <1>2
    DEF SendInv, Connected, HousekeepingDone, IdleFlagsDone, ReTxDone,
        BeginFrame, IdleTurn, NothingUrgent, SendLoop, SendInv, WindowOrder
  <1>14. ReTxEndInv'
    BY <1>1, <1>2
    DEF ReTxEndInv, Connected, HousekeepingDone, IdleFlagsDone, ReTxDone,
        BeginFrame, IdleTurn, NothingUrgent
  <1> QED BY <1>3, <1>4, <1>5, <1>6, <1>7, <1>8, <1>9, <1>10, <1>11, <1>12,
             <1>13, <1>14

LEMMA ReadDataStep == ASSUME IInv, ReadData PROVE IInv'
  <1> USE DEF IInv, TypeOK, QueueIntegrity, ReadData
  <1>1. (/\ NumberTypes /\ StateTypes /\ FrameType /\ TxIntegrity
         /\ WindowOrder /\ SendingOwned /\ AckTimerArmed /\ StartInv
         /\ SendInv /\ ReTxEndInv)'
    BY DEF NumberTypes, StateTypes, FrameType, TxIntegrity, WindowOrder,
           SendingOwned, AckTimerArmed, StartInv, SendInv, ReTxEndInv,
           Connected
  <1>2. BooleanTypes'
    BY DEF BooleanTypes, CanReceive
  <1>3. QueueTypes'
    BY DEF QueueTypes, CanReceive
  <1>4. RxIntegrity'
    BY AshHostAssumption
    DEF RxIntegrity, QueueTypes, CanReceive, AshHostAssumption, BooleanTypes
  <1> QED BY <1>1, <1>2, <1>3, <1>4

LEMMA ReceiveIgnoredStep == ASSUME IInv, ReceiveIgnored PROVE IInv'
  <1> USE DEF IInv, TypeOK, QueueIntegrity, ReceiveIgnored
  <1>1. (/\ NumberTypes /\ StateTypes /\ FrameType /\ TxIntegrity
         /\ WindowOrder /\ SendingOwned /\ AckTimerArmed /\ StartInv
         /\ SendInv /\ ReTxEndInv)'
    BY DEF NumberTypes, StateTypes, FrameType, TxIntegrity, WindowOrder,
           SendingOwned, AckTimerArmed, StartInv, SendInv, ReTxEndInv,
           Connected
  <1>2. BooleanTypes'
    BY Zenon DEF BooleanTypes, DecodeDone, FreeRxBuffer
  <1>3. QueueTypes'
    BY DEF QueueTypes, DecodeDone, FreeRxBuffer
  <1>4. RxIntegrity'
    BY AshHostAssumption
    DEF RxIntegrity, QueueTypes, DecodeDone, FreeRxBuffer, AshHostAssumption,
        BooleanTypes
  <1> QED BY <1>1, <1>2, <1>3, <1>4

LEMMA ReceiveBadStep ==
  ASSUME IInv, NEW isData \in BOOLEAN, ReceiveBad(isData)
  PROVE  IInv'
  <1> USE DEF IInv, TypeOK, QueueIntegrity, ReceiveBad
  <1>1. (NumberTypes /\ FrameType /\ TxIntegrity)'
    BY DEF NumberTypes, FrameType, TxIntegrity
  <1>2. BooleanTypes'
    BY Zenon DEF BooleanTypes, DecodeDone, FreeRxBuffer, Reject
  <1>3. QueueTypes'
    BY DEF QueueTypes, DecodeDone, FreeRxBuffer, Reject
  <1>4. StateTypes'
    BY DEF StateTypes, Flags, HostErrors, NcpErrors, NoError, DecodeDone,
           FreeRxBuffer, Reject
  <1>5. RxIntegrity'
    BY AshHostAssumption
    DEF RxIntegrity, QueueTypes, DecodeDone, FreeRxBuffer, Reject,
        AshHostAssumption, BooleanTypes
  <1>6. WindowOrder'
    BY DEF WindowOrder, Connected, DecodeDone, FreeRxBuffer, Reject
  <1>7. SendingOwned'
    BY DEF SendingOwned, Connected, TxIntegrity, DecodeDone, FreeRxBuffer,
           Reject
  <1>8. AckTimerArmed'
    BY DEF AckTimerArmed, Connected, DecodeDone, FreeRxBuffer, Reject
  <1>9. StartInv'
    BY DEF StartInv, Connected, DecodeDone, FreeRxBuffer, Reject
  <1>10. SendInv'
    BY DEF SendInv, Connected, SendingOwned, DecodeDone, FreeRxBuffer, Reject
  <1>11. ReTxEndInv'
    BY DEF ReTxEndInv, Connected, SendInv, DecodeDone, FreeRxBuffer, Reject
  <1> QED BY <1>1, <1>2, <1>3, <1>4, <1>5, <1>6, <1>7, <1>8, <1>9, <1>10,
             <1>11

LEMMA ReceiveXonXoffStep == ASSUME IInv, ReceiveXonXoff PROVE IInv'
  <1> USE DEF IInv, TypeOK, QueueIntegrity, ReceiveXonXoff
  <1>1. (NumberTypes /\ FrameType /\ TxIntegrity)'
    BY DEF NumberTypes, FrameType, TxIntegrity
  <1>2. BooleanTypes'
    BY Zenon DEF BooleanTypes, DecodeDone, FreeRxBuffer
  <1>3. QueueTypes'
    BY DEF QueueTypes, DecodeDone, FreeRxBuffer
  <1>4. StateTypes'
    BY DEF StateTypes, Flags, HostErrors, NcpErrors, NoError, DecodeDone,
           FreeRxBuffer
  <1>5. RxIntegrity'
    BY AshHostAssumption
    DEF RxIntegrity, QueueTypes, DecodeDone, FreeRxBuffer, AshHostAssumption,
        BooleanTypes
  <1>6. WindowOrder'
    BY DEF WindowOrder, Connected, DecodeDone, FreeRxBuffer
  <1>7. SendingOwned'
    BY DEF SendingOwned, Connected, TxIntegrity, DecodeDone, FreeRxBuffer
  <1>8. AckTimerArmed'
    BY DEF AckTimerArmed, Connected, DecodeDone, FreeRxBuffer
  <1>9. StartInv'
    BY DEF StartInv, Connected, DecodeDone, FreeRxBuffer
  <1>10. SendInv'
    BY DEF SendInv, Connected, SendingOwned, DecodeDone, FreeRxBuffer
  <1>11. ReTxEndInv'
    BY DEF ReTxEndInv, Connected, SendInv, DecodeDone, FreeRxBuffer
  <1> QED BY <1>1, <1>2, <1>3, <1>4, <1>5, <1>6, <1>7, <1>8, <1>9, <1>10,
             <1>11

LEMMA ReceiveAckStep ==
  ASSUME IInv, NEW ack \in FrameNum, ReceiveAck(ack)
  PROVE  IInv'
  <1> USE DEF IInv, TypeOK, QueueIntegrity, ReceiveAck
  <1>1. AckDone(ack)
    BY AckStep
  <1>2. (StateTypes /\ FrameType /\ RxIntegrity)'
    BY DEF StateTypes, FrameType, RxIntegrity
  <1>3. BooleanTypes'
    BY <1>1, Zenon DEF BooleanTypes, CanReceive, AckedTimer
  <1>4. NumberTypes'
    BY <1>1 DEF NumberTypes, AckDone
  <1>5. QueueTypes'
    BY <1>1 DEF QueueTypes, AckDone, FreeRxBuffer, DataFrames
  <1>6. TxIntegrity'
    BY <1>1 DEF AckDone
  <1>7. WindowOrder'
    BY <1>1 DEF WindowOrder, Connected, AckDone, AckedTimer, Reject
  <1>8. SendingOwned'
    BY <1>1
    DEF SendingOwned, Connected, AckDone, AckedTimer, Reject, TxIntegrity
  <1>9. AckTimerArmed'
    BY <1>1 DEF AckTimerArmed, Connected, AckDone, AckedTimer, Reject
  <1>10. StartInv'
    BY <1>1
    DEF StartInv, Connected, AckDone, AckedTimer, Reject, CanReceive, DataTurn
  <1>11. SendInv'
    BY <1>1
    DEF SendInv, Connected, AckDone, AckedTimer, Reject, NumberTypes, FrameNum
  <1>12. ReTxEndInv'
    BY <1>1
    DEF ReTxEndInv, Connected, AckDone, AckedTimer, Reject, CanReceive,
        DataTurn
  <1> QED BY <1>2, <1>3, <1>4, <1>5, <1>6, <1>7, <1>8, <1>9, <1>10, <1>11,
             <1>12

LEMMA ReceiveNakStep ==
  ASSUME IInv, NEW ack \in FrameNum, ReceiveNak(ack)
  PROVE  IInv'
  <1> USE DEF IInv, TypeOK, QueueIntegrity, ReceiveNak
  <1>1. AckDone(ack)
    BY AckStep
  <1>2. (FrameType /\ RxIntegrity)'
    BY DEF FrameType, RxIntegrity
  <1>3. BooleanTypes'
    BY <1>1, Zenon DEF BooleanTypes, CanReceive, AckedTimer, MustReTx
  <1>4. NumberTypes'
    BY <1>1 DEF NumberTypes, AckDone
  <1>5. QueueTypes'
    BY <1>1 DEF QueueTypes, AckDone, FreeRxBuffer, DataFrames
  <1>6. StateTypes'
    BY <1>1
    DEF StateTypes, Flags, HostErrors, NcpErrors, NoError, CanReceive,
        AckedTimer, MustReTx
  <1>7. TxIntegrity'
    BY <1>1 DEF AckDone
  <1>8. WindowOrder'
    BY <1>1
    DEF WindowOrder, Connected, AckDone, AckedTimer, Reject, WindowOrder,
        MustReTx, CanReceive, NumberTypes, FrameNum
  <1>9. SendingOwned'
    BY <1>1
    DEF SendingOwned, Connected, AckDone, AckedTimer, Reject, TxIntegrity,
        WindowOrder, MustReTx, CanReceive, NumberTypes, FrameNum
  <1>10. AckTimerArmed'
    BY <1>1
    DEF AckTimerArmed, Connected, AckDone, AckedTimer, Reject, WindowOrder,
        MustReTx, CanReceive, NumberTypes, FrameNum
  <1>11. StartInv'
    BY <1>1
    DEF StartInv, Connected, AckDone, AckedTimer, Reject, WindowOrder,
        MustReTx, CanReceive, NumberTypes, FrameNum, CanReceive, DataTurn
  <1>12. SendInv'
    BY <1>1
    DEF SendInv, Connected, AckDone, AckedTimer, Reject, WindowOrder,
        MustReTx, CanReceive, NumberTypes, FrameNum
  <1>13. ReTxEndInv'
    BY <1>1
    DEF ReTxEndInv, Connected, AckDone, AckedTimer, Reject, WindowOrder,
        MustReTx, CanReceive, NumberTypes, FrameNum, DataTurn
  <1> QED BY <1>2, <1>3, <1>4, <1>5, <1>6, <1>7, <1>8, <1>9, <1>10, <1>11,
             <1>12, <1>13

LEMMA ReceiveInSequenceStep ==
  ASSUME IInv, NEW f \in DataFrames, ReceiveInSequence(f)
  PROVE  IInv'
  <1> USE DEF IInv, TypeOK, QueueIntegrity, ReceiveInSequence
  <1>1. AckDone(f.ack)
    BY AckStep DEF DataTurn, DataFrames
  <1>2. FrameType'
    BY DEF FrameType
  <1>3. BooleanTypes'
    BY <1>1, Zenon
    DEF BooleanTypes, CanReceive, DataTurn, AckedTimer, DecodeDone
  <1>4. NumberTypes'
    BY <1>1, IncType DEF NumberTypes, AckDone, DataTurn, DataFrames
  <1>5. QueueTypes'
    BY <1>1 DEF QueueTypes, AckDone, FreeRxBuffer, DataFrames
  <1>6. StateTypes'
    BY <1>1
    DEF StateTypes, Flags, HostErrors, NcpErrors, NoError, CanReceive,
        DataTurn, AckedTimer, DecodeDone
  <1>7. TxIntegrity'
    BY <1>1 DEF AckDone
  <1>8. RxIntegrity'
    BY <1>1, AshHostAssumption
    DEF RxIntegrity, QueueTypes, CanReceive, DataTurn, AckedTimer, DecodeDone,
        AshHostAssumption, BooleanTypes
  <1>9. WindowOrder'
    BY <1>1 DEF WindowOrder, Connected, AckDone, AckedTimer, Reject
  <1>10. SendingOwned'
    BY <1>1
    DEF SendingOwned, Connected, AckDone, AckedTimer, Reject, TxIntegrity
  <1>11. AckTimerArmed'
    BY <1>1 DEF AckTimerArmed, Connected, AckDone, AckedTimer, Reject
  <1>12. StartInv'
    BY <1>1
    DEF StartInv, Connected, AckDone, AckedTimer, Reject, CanReceive, DataTurn
  <1>13. SendInv'
    BY <1>1
    DEF SendInv, Connected, AckDone, AckedTimer, Reject, NumberTypes, FrameNum
  <1>14. ReTxEndInv'
    BY <1>1
    DEF ReTxEndInv, Connected, AckDone, AckedTimer, Reject, CanReceive,
        DataTurn
  <1> QED BY <1>2, <1>3, <1>4, <1>5, <1>6, <1>7, <1>8, <1>9, <1>10, <1>11,
             <1>12, <1>13, <1>14

LEMMA ReceiveNoBufferStep ==
  ASSUME IInv, NEW f \in DataFrames, ReceiveNoBuffer(f)
  PROVE  IInv'
  <1> USE DEF IInv, TypeOK, QueueIntegrity, ReceiveNoBuffer
  <1>1. AckDone(f.ack)
    BY AckStep DEF DataTurn, DataFrames
  <1>2. FrameType'
    BY DEF FrameType
  <1>3. BooleanTypes'
    BY <1>1, Zenon
    DEF BooleanTypes, CanReceive, DataTurn, AckedTimer, DecodeDone, Reject
  <1>4. NumberTypes'
    BY <1>1 DEF NumberTypes, AckDone, DataFrames
  <1>5. QueueTypes'
    BY <1>1 DEF QueueTypes, AckDone, FreeRxBuffer, DataFrames
  <1>6. StateTypes'
    BY <1>1
    DEF StateTypes, Flags, HostErrors, NcpErrors, NoError, CanReceive,
        DataTurn, AckedTimer, DecodeDone, Reject
  <1>7. TxIntegrity'
    BY <1>1 DEF AckDone
  <1>8. RxIntegrity'
    BY <1>1
    DEF RxIntegrity, QueueTypes, CanReceive, DataTurn, AckedTimer, DecodeDone,
        Reject
  <1>9. WindowOrder'
    BY <1>1 DEF WindowOrder, Connected, AckDone, AckedTimer, Reject
  <1>10. SendingOwned'
    BY <1>1
    DEF SendingOwned, Connected, AckDone, AckedTimer, Reject, TxIntegrity
  <1>11. AckTimerArmed'
    BY <1>1 DEF AckTimerArmed, Connected, AckDone, AckedTimer, Reject
  <1>12. StartInv'
    BY <1>1
    DEF StartInv, Connected, AckDone, AckedTimer, Reject, CanReceive, DataTurn
  <1>13. SendInv'
    BY <1>1
    DEF SendInv, Connected, AckDone, AckedTimer, Reject, NumberTypes, FrameNum
  <1>14. ReTxEndInv'
    BY <1>1
    DEF ReTxEndInv, Connected, AckDone, AckedTimer, Reject, CanReceive,
        DataTurn
  <1> QED BY <1>2, <1>3, <1>4, <1>5, <1>6, <1>7, <1>8, <1>9, <1>10, <1>11,
             <1>12, <1>13, <1>14

LEMMA ReceiveOutOfSequenceStep ==
  ASSUME IInv, NEW f \in DataFrames, ReceiveOutOfSequence(f)
  PROVE  IInv'
  <1> USE DEF IInv, TypeOK, QueueIntegrity, ReceiveOutOfSequence
  <1>1. AckDone(f.ack)
    BY AckStep DEF DataTurn, DataFrames
  <1>2. FrameType'
    BY DEF FrameType
  <1>3. BooleanTypes'
    BY <1>1, Zenon
    DEF BooleanTypes, CanReceive, DataTurn, AckedTimer, DecodeDone, Reject,
        FreeRxBuffer
  <1>4. NumberTypes'
    BY <1>1 DEF NumberTypes, AckDone, DataFrames
  <1>5. QueueTypes'
    BY <1>1 DEF QueueTypes, AckDone, FreeRxBuffer, DataFrames
  <1>6. StateTypes'
    BY <1>1
    DEF StateTypes, Flags, HostErrors, NcpErrors, NoError, CanReceive,
        DataTurn, AckedTimer, DecodeDone, Reject, FreeRxBuffer
  <1>7. TxIntegrity'
    BY <1>1 DEF AckDone
  <1>8. RxIntegrity'
    BY <1>1, AshHostAssumption
    DEF RxIntegrity, QueueTypes, CanReceive, DataTurn, AckedTimer, DecodeDone,
        Reject, FreeRxBuffer, AshHostAssumption, BooleanTypes
  <1>9. WindowOrder'
    BY <1>1 DEF WindowOrder, Connected, AckDone, AckedTimer, Reject
  <1>10. SendingOwned'
    BY <1>1
    DEF SendingOwned, Connected, AckDone, AckedTimer, Reject, TxIntegrity
  <1>11. AckTimerArmed'
    BY <1>1 DEF AckTimerArmed, Connected, AckDone, AckedTimer, Reject
  <1>12. StartInv'
    BY <1>1
    DEF StartInv, Connected, AckDone, AckedTimer, Reject, CanReceive, DataTurn
  <1>13. SendInv'
    BY <1>1
    DEF SendInv, Connected, AckDone, AckedTimer, Reject, NumberTypes, FrameNum
  <1>14. ReTxEndInv'
    BY <1>1
    DEF ReTxEndInv, Connected, AckDone, AckedTimer, Reject, CanReceive,
        DataTurn
  <1> QED BY <1>2, <1>3, <1>4, <1>5, <1>6, <1>7, <1>8, <1>9, <1>10, <1>11,
             <1>12, <1>13, <1>14

LEMMA ReceiveBadAckNumStep ==
  ASSUME IInv, NEW f \in DataFrames, ReceiveBadAckNum(f)
  PROVE  IInv'
  <1> USE DEF IInv, TypeOK, QueueIntegrity, ReceiveBadAckNum
  <1>1. (NumberTypes /\ FrameType /\ TxIntegrity)'
    BY DEF NumberTypes, FrameType, TxIntegrity
  <1>2. BooleanTypes'
    BY Zenon
    DEF BooleanTypes, CanReceive, DataTurn, DecodeDone, Reject, FreeRxBuffer
  <1>3. QueueTypes'
    BY DEF QueueTypes, CanReceive, DataTurn, DecodeDone, Reject, FreeRxBuffer
  <1>4. StateTypes'
    BY DEF StateTypes, Flags, HostErrors, NcpErrors, NoError, CanReceive,
           DataTurn, DecodeDone, Reject, FreeRxBuffer
  <1>5. RxIntegrity'
    BY AshHostAssumption
    DEF RxIntegrity, QueueTypes, CanReceive, DataTurn, DecodeDone, Reject,
        FreeRxBuffer, AshHostAssumption, BooleanTypes
  <1>6. WindowOrder'
    BY DEF WindowOrder, Connected, CanReceive, DataTurn, DecodeDone, Reject,
           FreeRxBuffer
  <1>7. SendingOwned'
    BY DEF SendingOwned, Connected, TxIntegrity, CanReceive, DataTurn,
           DecodeDone, Reject, FreeRxBuffer
  <1>8. AckTimerArmed'
    BY DEF AckTimerArmed, Connected, CanReceive, DataTurn, DecodeDone, Reject,
           FreeRxBuffer
  <1>9. StartInv'
    BY DEF StartInv, Connected, CanReceive, DataTurn, DecodeDone, Reject,
           FreeRxBuffer
  <1>10. SendInv'
    BY DEF SendInv, Connected, SendingOwned, CanReceive, DataTurn, DecodeDone,
           Reject, FreeRxBuffer
  <1>11. ReTxEndInv'
    BY DEF ReTxEndInv, Connected, SendInv, CanReceive, DataTurn, DecodeDone,
           Reject, FreeRxBuffer
  <1> QED BY <1>1, <1>2, <1>3, <1>4, <1>5, <1>6, <1>7, <1>8, <1>9, <1>10,
             <1>11

LEMMA ReceiveRstAckStep ==
  ASSUME IInv, NEW versionOk \in BOOLEAN, NEW reason \in ResetReasons,
         ReceiveRstAck(versionOk, reason)
  PROVE  IInv'
  <1> USE DEF IInv, TypeOK, QueueIntegrity, ReceiveRstAck
  <1>1. (QueueTypes /\ FrameType /\ TxIntegrity /\ RxIntegrity)'
    BY DEF QueueTypes, FrameType, TxIntegrity, RxIntegrity
  <1>2. BooleanTypes'
    BY Zenon DEF BooleanTypes, CanReceive
  <1>3. NumberTypes'
    BY DEF NumberTypes, FrameNum, CanReceive
  <1>4. StateTypes'
    BY DEF StateTypes, Flags, HostErrors, NcpErrors, NoError, CanReceive
  <1>5. WindowOrder'
    BY DEF WindowOrder, Connected, CanReceive, StartInv, NumberTypes, Dist,
           WithinRange
  <1>6. SendingOwned'
    BY DEF SendingOwned, Connected, TxIntegrity, CanReceive, StartInv,
           NumberTypes
  <1>7. AckTimerArmed'
    BY DEF AckTimerArmed, Connected, CanReceive, StartInv, NumberTypes
  <1>8. StartInv'
    <2>1. starting /\ "RETX" \notin flags'
      BY DEF CanReceive, Connected
    <2> QED BY <2>1 DEF StartInv
  <1>9. SendInv'
    BY DEF SendInv, Connected, SendingOwned, CanReceive, StartInv, NumberTypes
  <1>10. ReTxEndInv'
    BY DEF ReTxEndInv, Connected, SendInv, CanReceive
  <1> QED BY <1>1, <1>2, <1>3, <1>4, <1>5, <1>6, <1>7, <1>8, <1>9, <1>10

LEMMA ReceiveResetStep == ASSUME IInv, ReceiveReset PROVE IInv'
  <1> USE DEF IInv, TypeOK, QueueIntegrity, ReceiveReset
  <1>1. (/\ NumberTypes /\ QueueTypes /\ FrameType /\ TxIntegrity
         /\ RxIntegrity)'
    BY DEF NumberTypes, QueueTypes, FrameType, TxIntegrity, RxIntegrity
  <1>2. BooleanTypes'
    BY Zenon DEF BooleanTypes
  <1>3. StateTypes'
    BY DEF StateTypes, Flags, HostErrors, NcpErrors, NoError
  <1>4. WindowOrder'
    BY DEF WindowOrder, Connected
  <1>5. SendingOwned'
    BY DEF SendingOwned, Connected, TxIntegrity
  <1>6. AckTimerArmed'
    BY DEF AckTimerArmed, Connected
  <1>7. StartInv'
    BY DEF StartInv, Connected
  <1>8. SendInv'
    BY DEF SendInv, Connected, SendingOwned
  <1>9. ReTxEndInv'
    BY DEF ReTxEndInv, Connected, SendInv
  <1> QED BY <1>1, <1>2, <1>3, <1>4, <1>5, <1>6, <1>7, <1>8, <1>9

LEMMA ReceiveErrorStep == ASSUME IInv, ReceiveError PROVE IInv'
  <1> USE DEF IInv, TypeOK, QueueIntegrity, ReceiveError
  <1>1. (/\ NumberTypes /\ QueueTypes /\ FrameType /\ TxIntegrity
         /\ RxIntegrity)'
    BY DEF NumberTypes, QueueTypes, FrameType, TxIntegrity, RxIntegrity
  <1>2. BooleanTypes'
    BY Zenon DEF BooleanTypes
  <1>3. StateTypes'
    BY DEF StateTypes, Flags, HostErrors, NcpErrors, NoError
  <1>4. WindowOrder'
    BY DEF WindowOrder, Connected
  <1>5. SendingOwned'
    BY DEF SendingOwned, Connected, TxIntegrity
  <1>6. AckTimerArmed'
    BY DEF AckTimerArmed, Connected
  <1>7. StartInv'
    BY DEF StartInv, Connected
  <1>8. SendInv'
    BY DEF SendInv, Connected, SendingOwned
  <1>9. ReTxEndInv'
    BY DEF ReTxEndInv, Connected, SendInv
  <1> QED BY <1>1, <1>2, <1>3, <1>4, <1>5, <1>6, <1>7, <1>8, <1>9

LEMMA AshSendStep == ASSUME IInv, NEW d \in Data, AshSend(d) PROVE IInv'
  <1> USE DEF IInv, TypeOK, QueueIntegrity, AshSend
  <1>1. (/\ BooleanTypes /\ NumberTypes /\ StateTypes /\ FrameType
         /\ RxIntegrity /\ WindowOrder /\ AckTimerArmed /\ SendInv
         /\ ReTxEndInv)'
    BY DEF BooleanTypes, NumberTypes, StateTypes, FrameType, RxIntegrity,
           WindowOrder, AckTimerArmed, SendInv, ReTxEndInv, Connected
  <1>2. QueueTypes'
    BY DEF QueueTypes, AppTurn
  <1>3. TxIntegrity'
    BY DEF TxIntegrity, QueueTypes, NumberTypes, AppTurn
  <1>4. SendingOwned'
    BY DEF SendingOwned, Connected, TxIntegrity, AppTurn
  <1>5. StartInv'
    BY DEF StartInv, Connected, AppTurn
  <1> QED BY <1>1, <1>2, <1>3, <1>4, <1>5

LEMMA TakeReceivedStep ==
  ASSUME IInv, NEW i \in 1 .. RxPool, TakeReceived(i)
  PROVE  IInv'
  <1> USE DEF IInv, TypeOK, QueueIntegrity, TakeReceived
  <1>1. (/\ BooleanTypes /\ NumberTypes /\ StateTypes /\ FrameType
         /\ TxIntegrity /\ WindowOrder /\ SendingOwned /\ AckTimerArmed
         /\ StartInv /\ SendInv /\ ReTxEndInv)'
    BY DEF BooleanTypes, NumberTypes, StateTypes, FrameType, TxIntegrity,
           WindowOrder, SendingOwned, AckTimerArmed, StartInv, SendInv,
           ReTxEndInv, Connected
  <1>2. QueueTypes'
    BY DEF QueueTypes, AppTurn
  <1>3. RxIntegrity'
    <2>1. Len(rxQueue) \in Nat /\ i \in 1 .. Len(rxQueue)
      BY DEF QueueTypes
    <2>2. Len(rxQueue') = Len(rxQueue) - 1
      BY <2>1, RemoveEntry DEF QueueTypes
    <2>3. rxFree' = rxFree + 1 /\ rxDataBuffer' = rxDataBuffer /\ rxFree \in Nat
      BY DEF QueueTypes
    <2> HIDE DEF TakeReceived
    <2> QED BY <2>1, <2>2, <2>3, AshHostAssumption
            DEF RxIntegrity, AshHostAssumption
  <1> QED BY <1>1, <1>2, <1>3
-----------------------------------------------------------------------------
(* The invariant holds in every reachable state.                           *)

LEMMA InitIInv == ASSUME Init PROVE IInv
  <1> USE AshHostAssumption DEF AshHostAssumption, Init
  <1>1. BooleanTypes
    BY DEF BooleanTypes
  <1>2. NumberTypes /\ QueueTypes
    BY DEF NumberTypes, QueueTypes, FrameNum
  <1>3. StateTypes /\ FrameType
    BY DEF StateTypes, FrameType, HostErrors, NcpErrors, NoError, TxFrames
  <1>4. TxIntegrity /\ RxIntegrity
    BY DEF TxIntegrity, RxIntegrity, Dist
  <1>5. WindowOrder /\ SendingOwned /\ AckTimerArmed /\ SendInv /\ ReTxEndInv
    BY DEF WindowOrder, SendingOwned, AckTimerArmed, SendInv, ReTxEndInv,
           Connected
  <1>6. StartInv
    BY DEF StartInv
  <1> QED BY <1>1, <1>2, <1>3, <1>4, <1>5, <1>6
          DEF IInv, TypeOK, QueueIntegrity

LEMMA SendStepIInv == ASSUME IInv, SendStep PROVE IInv'
  <1>1. CASE IdleChoice
    <2>1. PICK expired \in NrExpired :
            \/ StartRst(expired) \/ StartNakOrAck(expired) \/ StartReTx(expired)
            \/ FlagAck(expired) \/ StartData(expired) \/ NothingToSend(expired)
      BY <1>1 DEF IdleChoice
    <2> QED BY <2>1, StartRstStep, StartNakOrAckStep, StartReTxStep,
               FlagAckStep, StartDataStep, NothingToSendStep
  <1>2. CASE SendCancel \/ WriteFlag \/ FinishShort \/ FinishData \/ FinishReTx
    BY <1>2, SendCancelStep, WriteFlagStep, FinishShortStep, FinishDataStep,
       FinishReTxStep
  <1> QED BY <1>1, <1>2 DEF SendStep

LEMMA ReceiveStepIInv == ASSUME IInv, ReceiveStep PROVE IInv'
  <1>1. CASE \/ ReadData \/ ReceiveIgnored \/ ReceiveXonXoff
             \/ ReceiveReset \/ ReceiveError
    BY <1>1, ReadDataStep, ReceiveIgnoredStep, ReceiveXonXoffStep,
       ReceiveResetStep, ReceiveErrorStep
  <1>2. ASSUME NEW isData \in BOOLEAN, ReceiveBad(isData) PROVE IInv'
    BY <1>2, ReceiveBadStep
  <1>3. ASSUME NEW ack \in FrameNum, ReceiveAck(ack) \/ ReceiveNak(ack)
        PROVE  IInv'
    BY <1>3, ReceiveAckStep, ReceiveNakStep
  <1>4. ASSUME NEW f \in DataFrames, ReceiveData(f) PROVE IInv'
    BY <1>4, ReceiveInSequenceStep, ReceiveNoBufferStep,
       ReceiveOutOfSequenceStep, ReceiveBadAckNumStep DEF ReceiveData
  <1>5. ASSUME NEW versionOk \in BOOLEAN, NEW reason \in ResetReasons,
               ReceiveRstAck(versionOk, reason)
        PROVE  IInv'
    BY <1>5, ReceiveRstAckStep
  <1> QED BY <1>1, <1>2, <1>3, <1>4, <1>5 DEF ReceiveStep

LEMMA NextIInv == ASSUME IInv, [Next]_vars PROVE IInv'
  <1>1. CASE \/ Start \/ StartDone \/ StartFailed \/ Stop
             \/ AckTimeout \/ ResetTimeout
    BY <1>1, StartStep, StartDoneStep, StartFailedStep, StopStep,
       AckTimeoutStep, ResetTimeoutStep
  <1>2. CASE SendStep
    BY <1>2, SendStepIInv
  <1>3. CASE ReceiveStep
    BY <1>3, ReceiveStepIInv
  <1>4. CASE AppStep
    <2>1. ASSUME NEW d \in Data, AshSend(d) PROVE IInv'
      BY <2>1, AshSendStep
    <2>2. ASSUME NEW i \in 1 .. RxPool, TakeReceived(i) PROVE IInv'
      BY <2>2, TakeReceivedStep
    <2> QED BY <1>4, <2>1, <2>2 DEF AppStep
  <1>5. CASE UNCHANGED vars
    <2> USE <1>5 DEF vars, IInv, TypeOK, QueueIntegrity
    <2>1. (BooleanTypes /\ NumberTypes /\ QueueTypes /\ StateTypes /\ FrameType)'
      BY DEF BooleanTypes, NumberTypes, QueueTypes, StateTypes, FrameType
    <2>2. (TxIntegrity /\ RxIntegrity)'
      BY DEF TxIntegrity, RxIntegrity
    <2>3. (WindowOrder /\ SendingOwned /\ AckTimerArmed)'
      BY DEF WindowOrder, SendingOwned, AckTimerArmed, Connected
    <2>4. (StartInv /\ SendInv /\ ReTxEndInv)'
      BY DEF StartInv, SendInv, ReTxEndInv, Connected
    <2> QED BY <2>1, <2>2, <2>3, <2>4
  <1> QED BY <1>1, <1>2, <1>3, <1>4, <1>5 DEF Next

\* The host keeps its invariant whatever it receives, whenever its timers expire
\* and wherever the output buffer interrupts it.
THEOREM Inductive == Spec => []IInv
  BY InitIInv, NextIInv, PTL DEF Spec

\* Every variable keeps its type, whatever arrives and however late: the frame
\* numbers never leave their three bits and no counter of free buffers wraps.
THEOREM TypeCorrect == Spec => []TypeOK
  <1>1. IInv => TypeOK
    BY DEF IInv
  <1> QED BY <1>1, Inductive, PTL

\* For pools and windows of any size no buffer of ash-host-queues.c is lost
\* track of: the retransmit queue is exactly the window, so no assertion of
\* that file fails and ashScrubReTxQueue ends.
THEOREM BuffersKept == Spec => []QueueIntegrity
  <1>1. IInv => QueueIntegrity
    BY DEF IInv
  <1> QED BY <1>1, Inductive, PTL

\* The acknowledged and the retransmitted frame number stay within the window
\* kept, for every modulus and every stream of valid or invalid frames.
THEOREM NumbersOrdered == Spec => []WindowOrder
  <1>1. IInv => WindowOrder
    BY DEF IInv
  <1> QED BY <1>1, Inductive, PTL

\* The buffer a DATA frame is being written from is never freed or reused
\* before its last byte is written.
THEOREM SenderOwnsBuffer == Spec => []SendingOwned
  <1>1. IInv => SendingOwned
    BY DEF IInv
  <1> QED BY <1>1, Inductive, PTL

\* A frame that waits for its acknowledgement always has the timer running.
THEOREM TimerArmed == Spec => []AckTimerArmed
  <1>1. IInv => AckTimerArmed
    BY DEF IInv
  <1> QED BY <1>1, Inductive, PTL

-----------------------------------------------------------------------------
(* The invariant of the link.                                              *)

\* Data frames the host has sent and the NCP has acknowledged to it, and those
\* of the NCP that the host has acknowledged.  A frame number is what is left
\* of such a count.
HostTx == hostSent - Len(txQueue)
HostAcked == HostTx - Dist(ackRx, frmTx)
NcpAcked == ncpSent - Dist(nAckRx, nFrmTx)

\* The line to the NCP with the frame that the host is writing
Writing == sendState # "IDLE" /\ ~sent
Out == IF Writing THEN Append(toNcp, txFrame) ELSE toNcp

BadFrames == [type : {"BAD"}, isData : BOOLEAN]
DownFrames == DataFrames \cup ShortFrames \cup {RstFrame} \cup BadFrames
AckFrames == [type : {"ACK", "NAK"}, ack : FrameNum]
RstAckFrames == [type : {"RSTACK"}, reason : ResetReasons, epoch : Nat]
ErrorFrame == [type |-> "ERROR"]
UpFrames == DataFrames \cup AckFrames \cup RstAckFrames \cup {ErrorFrame}
            \cup BadFrames

LinkTypes ==
  /\ Out \in Seq(DownFrames) /\ toNcp \in Seq(DownFrames)
  /\ Writing => txFrame \in DownFrames
  /\ toHost \in Seq(UpFrames)
  /\ ncpGot \in Seq(Data) /\ hostGot \in Seq(Data)
  /\ ncpSent \in Nat /\ 1 .. ncpSent \subseteq Data
  /\ hostSent \in Nat /\ 1 .. hostSent \subseteq Data
  /\ faults \in Nat

EpochTypes ==
  /\ epoch \in Nat /\ hostEpoch \in Nat /\ starts \in Nat
  /\ hostEpoch <= epoch
  /\ \A k \in 1 .. Len(toHost) :
       toHost[k].type = "RSTACK" => toHost[k].epoch <= epoch

\* Each side numbers what it sends and what it takes, and keeps its window.
HostCounts ==
  /\ Len(txQueue) <= hostSent /\ Len(reTxQueue) <= HostTx
  /\ frmTx = HostTx % Modulus /\ frmRx = Len(hostGot) % Modulus
  /\ Dist(ackRx, frmTx) <= TxK /\ Dist(ackRx, frmTx) <= HostTx
  /\ \A i \in 1 .. Len(txQueue) : txQueue[i] = HostTx + i
  /\ \A i \in 1 .. Len(reTxQueue) :
       reTxQueue[i] = HostTx - Len(reTxQueue) + i

NcpCounts ==
  /\ nFrmRx \in FrameNum /\ nFrmTx \in FrameNum /\ nAckRx \in FrameNum
  /\ nReTx \in FrameNum
  /\ nFrmTx = ncpSent % Modulus /\ nFrmRx = Len(ncpGot) % Modulus
  /\ Dist(nAckRx, nFrmTx) <= NcpTxK /\ Dist(nAckRx, nFrmTx) <= ncpSent
  /\ WithinRange(nAckRx, nReTx, nFrmTx)

\* DATA frames on a line, after the first n: of what the sender has sent, and
\* not so old that a receiver with a window of K that has got the first `got',
\* or those in front, would take one for the next
IsData(f) == f.type = "DATA"
DataOn(line, n, K, got, top) ==
  /\ \A k \in n + 1 .. Len(line) : IsData(line[k]) =>
       /\ line[k].data \in 1 .. top /\ line[k].frm = (line[k].data - 1) % Modulus
       /\ got <= line[k].data - 1 + K
  /\ \A j, k \in n + 1 .. Len(line) :
       j < k /\ IsData(line[j]) /\ IsData(line[k])
       => line[j].data <= line[k].data - 1 + K

\* Acknowledgements on a line, after the first n: from lo to hi, in order
HasAck(f) == f.type \in {"DATA", "ACK", "NAK"}
AcksOn(line, n, lo, hi) ==
  /\ \A k \in n + 1 .. Len(line) : HasAck(line[k]) => WithinRange(lo, line[k].ack, hi)
  /\ \A j, k \in n + 1 .. Len(line) :
       j < k /\ HasAck(line[j]) /\ HasAck(line[k])
       => WithinRange(lo, line[j].ack, line[k].ack)

\* A frame given up when its last byte was written may be beyond those the host
\* counts as sent, with room for it in the window.
Reached(c) == c <= HostTx \/ (c = HostTx + 1 /\ Dist(ackRx, frmTx) < TxK)
ReachedOut == \A k \in 1 .. Len(Out) : IsData(Out[k]) => Reached(Out[k].data)

\* The two sides of a session and the lines between them.  Of the line to the
\* host it has what comes after the first n frames.
Delivered(got, acked, accepted) ==
  /\ \A i \in 1 .. Len(got) : got[i] = i
  /\ acked <= Len(got) /\ Len(got) <= accepted
Down(n) ==
  /\ Delivered(ncpGot, HostAcked, hostSent) /\ Reached(Len(ncpGot))
  /\ DataOn(Out, 0, TxK, Len(ncpGot), hostSent) /\ ReachedOut
  /\ AcksOn(toHost, n, ackRx, nFrmRx)
Up(n) ==
  /\ Delivered(hostGot, NcpAcked, ncpSent)
  /\ DataOn(toHost, n, NcpTxK, Len(hostGot), ncpSent)
  /\ AcksOn(Out, 0, nAckRx, frmRx)
Session(n) == Down(n) /\ Up(n)

\* RST, its answer, and the frames that say nothing
Soft(f) == f.type = "RSTACK" /\ f.reason = "SOFTWARE"
IsMute(f) == f = RstFrame \/ f.type = "BAD"
RstOut(k) == k \in 1 .. Len(Out) /\ Out[k] = RstFrame
SoftUp(k) == k \in 1 .. Len(toHost) /\ Soft(toHost[k])
Token == "RST" \in flags \/ (\E k \in Nat : RstOut(k)) \/ (\E k \in Nat : SoftUp(k))

\* The host has not been connected since it started, and may yet be.
Waits == ~Connected /\ (starting \/ (starts = 1 /\ Token))

\* It has done nothing so far but send RST, and what it sent before that is
\* nothing to the NCP that the RST resets.
Fresh ==
  /\ flags \subseteq {"RST", "CAN"} /\ ackRx = 0 /\ ackTx = frmRx
  /\ hostSent = 0 /\ hostGot = <<>>
  /\ sendState = "IDLE" \/ (sendState = "SHFRAME" /\ txFrame = RstFrame)
MuteAfterRst == \A j, k \in 1 .. Len(Out) :
                  j < k /\ Out[j] = RstFrame => IsMute(Out[k])
WaitInv == Waits => Fresh /\ MuteAfterRst

\* The first start sends one RST and has one answer.
OneToken ==
  /\ "RST" \in flags => \A k \in Nat : ~RstOut(k) /\ ~SoftUp(k)
  /\ \A j, k \in Nat : ~(RstOut(j) /\ SoftUp(k))
  /\ \A j, k \in Nat : RstOut(j) /\ RstOut(k) => j = k
  /\ \A j, k \in Nat : SoftUp(j) /\ SoftUp(k) => j = k
FirstInv ==
  /\ starts = 0 => ~Connected /\ ~starting /\ ~Token
  /\ starts <= 1 => OneToken /\ (Token => ~Connected)

\* The session the host is in, and the one an answer on its way would begin
Present(n) == \/ n = 0 /\ LinkUp
              \/ Waits /\ SoftUp(n) /\ toHost[n].epoch = epoch
SessionInv == \A n \in Nat : Present(n) => Session(n)

LinkInv == /\ LinkTypes /\ EpochTypes /\ HostCounts /\ NcpCounts
           /\ WaitInv /\ FirstInv /\ SessionInv

-----------------------------------------------------------------------------
(* Counts modulo Modulus.                                                  *)

\* The number of a count is a frame number ...
LEMMA ModType ==
  ASSUME NEW a \in Nat
  PROVE  a % Modulus \in FrameNum
  BY AshHostAssumption DEF AshHostAssumption, FrameNum

\* ... and two counts less than a turn apart are that far apart on the ring.
LEMMA ModDist ==
  ASSUME NEW a \in Nat, NEW b \in Nat, a <= b, b - a < Modulus
  PROVE  Dist(a % Modulus, b % Modulus) = b - a
  BY AshHostAssumption DEF AshHostAssumption, Dist

\* A number is known by its distance from another ...
LEMMA DistSame ==
  ASSUME NEW x \in FrameNum, NEW y \in FrameNum, NEW h \in FrameNum,
         Dist(x, h) = Dist(y, h)
  PROVE  x = y
  BY AshHostAssumption DEF AshHostAssumption, FrameNum, Dist

\* ... so one counted back from the present count is that of an earlier one.
LEMMA ModBack ==
  ASSUME NEW x \in FrameNum, NEW b \in Nat, Dist(x, b % Modulus) <= b
  PROVE  x = (b - Dist(x, b % Modulus)) % Modulus
  <1> DEFINE h == b % Modulus
             d == Dist(x, h)
  <1>1. h \in FrameNum /\ d \in Nat /\ d < Modulus
    <2>1. h \in FrameNum
      BY ModType
    <2> HIDE DEF h
    <2> QED BY <2>1, DistType, AshHostAssumption DEF FrameNum, AshHostAssumption
  <1>2. b - d \in Nat /\ b - (b - d) = d
    <2> HIDE DEF h, d
    <2> QED BY <1>1, d <= b DEF d, h
  <1>3. (b - d) % Modulus \in FrameNum /\ Dist((b - d) % Modulus, h) = d
    <2> HIDE DEF d
    <2> QED BY <1>1, <1>2, ModType, ModDist
  <1>4. x = (b - d) % Modulus
    <2> HIDE DEF h
    <2> QED BY <1>1, <1>3, DistSame
  <1> QED BY <1>4

\* The number of the next count is the next number.
LEMMA ModInc ==
  ASSUME NEW a \in Nat
  PROVE  (a + 1) % Modulus = Inc(a % Modulus)
  <1>1. Dist(a % Modulus, (a + 1) % Modulus) = 1
    <2>1. a + 1 \in Nat /\ a <= a + 1 /\ (a + 1) - a = 1 /\ (a + 1) - a < Modulus
      BY AshHostAssumption DEF AshHostAssumption
    <2>2. Dist(a % Modulus, (a + 1) % Modulus) = (a + 1) - a
      BY <2>1, ModDist
    <2> QED BY <2>1, <2>2
  <1>2. a % Modulus \in FrameNum /\ (a + 1) % Modulus \in FrameNum
    BY ModType
  <1> DEFINE x == a % Modulus
             y == (a + 1) % Modulus
  <1> HIDE DEF x, y
  <1>3. ASSUME x \in FrameNum, y \in FrameNum, Dist(x, y) = 1 PROVE y = Inc(x)
    BY <1>3, AshHostAssumption DEF AshHostAssumption, FrameNum, Dist, Inc
  <1> QED BY <1>1, <1>2, <1>3 DEF x, y

\* Two counts less than a turn apart with the same number are the same
LEMMA ModSame ==
  ASSUME NEW a \in Nat, NEW b \in Nat, a - b < Modulus, b - a < Modulus,
         a % Modulus = b % Modulus
  PROVE  a = b
  BY ModDist, ModType, DistSelf

\* Of two numbers of a range, one is not before the other
LEMMA PastWithin ==
  ASSUME NEW lo \in FrameNum, NEW x \in FrameNum, NEW a \in FrameNum,
         NEW hi \in FrameNum,
         WithinRange(lo, x, hi), WithinRange(lo, a, hi), ~WithinRange(x, a, hi)
  PROVE  WithinRange(a, x, hi)
  BY AshHostAssumption DEF AshHostAssumption, FrameNum, Dist, WithinRange

LEMMA WithinLater ==
  ASSUME NEW lo \in FrameNum, NEW m \in FrameNum, NEW x \in FrameNum,
         NEW y \in FrameNum,
         WithinRange(lo, m, x), WithinRange(lo, m, y), WithinRange(lo, x, y)
  PROVE  WithinRange(m, x, y)
  BY AshHostAssumption DEF AshHostAssumption, FrameNum, Dist, WithinRange

LEMMA WithinInc ==
  ASSUME NEW lo \in FrameNum, NEW x \in FrameNum, NEW hi \in FrameNum,
         WithinRange(lo, x, hi), Dist(lo, hi) < Modulus - 1
  PROVE  WithinRange(lo, x, Inc(hi))
  BY AshHostAssumption DEF AshHostAssumption, FrameNum, Dist, WithinRange, Inc

-----------------------------------------------------------------------------
(* Lines.                                                                  *)

\* A line after its first a frames were taken, and perhaps one hurt or given up
Moves(new, old, a) ==
  /\ Len(new) + a <= Len(old)
  /\ \A k \in 1 .. Len(new) : new[k] = old[k + a] \/ new[k].type = "BAD"

LEMMA MovesSame ==
  ASSUME NEW line, Len(line) \in Nat
  PROVE  Moves(line, line, 0)
  BY DEF Moves

LEMMA MovesTail ==
  ASSUME NEW S, NEW line \in Seq(S), line # <<>>
  PROVE  Moves(Tail(line), line, 1)
  BY DEF Moves

LEMMA MovesData ==
  ASSUME NEW old, NEW new, NEW a \in Nat, NEW n \in Nat, NEW K, NEW got, NEW top,
         Len(old) \in Nat, Len(new) \in Nat,
         NEW m \in Nat, m <= n + a,
         Moves(new, old, a), DataOn(old, m, K, got, top)
  PROVE  DataOn(new, n, K, got, top)
  <1>1. ASSUME NEW k \in n + 1 .. Len(new), IsData(new[k])
        PROVE  k + a \in m + 1 .. Len(old) /\ new[k] = old[k + a]
    <2>1. k \in 1 .. Len(new) /\ k + a \in m + 1 .. Len(old)
      BY DEF Moves
    <2> QED BY <1>1, <2>1 DEF Moves, IsData
  <1>2. ASSUME NEW k \in n + 1 .. Len(new), IsData(new[k])
        PROVE  /\ new[k].data \in 1 .. top /\ new[k].frm = (new[k].data - 1) % Modulus
               /\ got <= new[k].data - 1 + K
    BY <1>1, <1>2 DEF DataOn
  <1>3. ASSUME NEW j \in n + 1 .. Len(new), NEW k \in n + 1 .. Len(new), j < k,
               IsData(new[j]), IsData(new[k])
        PROVE  new[j].data <= new[k].data - 1 + K
    <2>1. j + a < k + a
      BY <1>3
    <2> QED BY <1>1, <1>3, <2>1 DEF DataOn
  <1> QED BY <1>2, <1>3 DEF DataOn

LEMMA MovesAcks ==
  ASSUME NEW old, NEW new, NEW a \in Nat, NEW n \in Nat, NEW lo, NEW hi,
         Len(old) \in Nat, Len(new) \in Nat,
         NEW m \in Nat, m <= n + a,
         Moves(new, old, a), AcksOn(old, m, lo, hi)
  PROVE  AcksOn(new, n, lo, hi)
  <1>1. ASSUME NEW k \in n + 1 .. Len(new), HasAck(new[k])
        PROVE  k + a \in m + 1 .. Len(old) /\ new[k] = old[k + a]
    <2>1. k \in 1 .. Len(new) /\ k + a \in m + 1 .. Len(old)
      BY DEF Moves
    <2> QED BY <1>1, <2>1 DEF Moves, HasAck
  <1>2. ASSUME NEW k \in n + 1 .. Len(new), HasAck(new[k])
        PROVE  WithinRange(lo, new[k].ack, hi)
    BY <1>1, <1>2 DEF AcksOn
  <1>3. ASSUME NEW j \in n + 1 .. Len(new), NEW k \in n + 1 .. Len(new), j < k,
               HasAck(new[j]), HasAck(new[k])
        PROVE  WithinRange(lo, new[j].ack, new[k].ack)
    <2>1. j + a < k + a
      BY <1>3
    <2> QED BY <1>1, <1>3, <2>1 DEF AcksOn
  <1> QED BY <1>2, <1>3 DEF AcksOn

\* A frame is put on a line.
LEMMA AppendAt ==
  ASSUME NEW S, NEW old \in Seq(S), NEW f \in S
  PROVE  /\ Append(old, f) \in Seq(S)
         /\ Len(Append(old, f)) = Len(old) + 1 /\ Append(old, f)[Len(old) + 1] = f
         /\ \A k \in 1 .. Len(old) : Append(old, f)[k] = old[k]
  OBVIOUS

LEMMA AppendData ==
  ASSUME NEW S, NEW old \in Seq(S), NEW f \in S, NEW n \in Nat, NEW K, NEW got,
         NEW top, DataOn(old, n, K, got, top),
         IsData(f) => /\ f.data \in 1 .. top /\ f.frm = (f.data - 1) % Modulus
                      /\ got <= f.data - 1 + K,
         IsData(f) => \A j \in n + 1 .. Len(old) :
                        IsData(old[j]) => old[j].data <= f.data - 1 + K
  PROVE  DataOn(Append(old, f), n, K, got, top)
  <1> DEFINE new == Append(old, f)
  <1>1. /\ Len(old) \in Nat /\ Len(new) = Len(old) + 1 /\ new[Len(old) + 1] = f
        /\ \A k \in 1 .. Len(old) : new[k] = old[k]
    BY AppendAt
  <1> HIDE DEF new
  <1>2. ASSUME NEW k \in n + 1 .. Len(new)
        PROVE  (k \in n + 1 .. Len(old) /\ new[k] = old[k]) \/ (k = Len(old) + 1 /\ new[k] = f)
    BY <1>1
  <1>3. ASSUME NEW k \in n + 1 .. Len(new), IsData(new[k])
        PROVE  /\ new[k].data \in 1 .. top /\ new[k].frm = (new[k].data - 1) % Modulus
               /\ got <= new[k].data - 1 + K
    BY <1>2, <1>3 DEF DataOn
  <1>4. ASSUME NEW j \in n + 1 .. Len(new), NEW k \in n + 1 .. Len(new), j < k,
               IsData(new[j]), IsData(new[k])
        PROVE  new[j].data <= new[k].data - 1 + K
    <2>1. j \in n + 1 .. Len(old) /\ new[j] = old[j]
      BY <1>1, <1>2, <1>4
    <2> QED BY <1>2, <1>4, <2>1 DEF DataOn
  <1>5. DataOn(new, n, K, got, top)
    BY <1>3, <1>4 DEF DataOn
  <1> QED BY <1>5 DEF new

LEMMA AppendAcks ==
  ASSUME NEW S, NEW old \in Seq(S), NEW f \in S, NEW n \in Nat, NEW lo \in FrameNum,
         NEW hi \in FrameNum, AcksOn(old, n, lo, hi), HasAck(f) => f.ack = hi
  PROVE  AcksOn(Append(old, f), n, lo, hi)
  <1> DEFINE new == Append(old, f)
  <1>1. /\ Len(old) \in Nat /\ Len(new) = Len(old) + 1 /\ new[Len(old) + 1] = f
        /\ \A k \in 1 .. Len(old) : new[k] = old[k]
    BY AppendAt
  <1> HIDE DEF new
  <1>2. ASSUME NEW k \in n + 1 .. Len(new)
        PROVE  (k \in n + 1 .. Len(old) /\ new[k] = old[k]) \/ (k = Len(old) + 1 /\ new[k] = f)
    BY <1>1
  <1>3. ASSUME NEW k \in n + 1 .. Len(new), HasAck(new[k])
        PROVE  WithinRange(lo, new[k].ack, hi)
    <2>1. WithinRange(lo, hi, hi)
      BY DistType DEF WithinRange, FrameNum
    <2> QED BY <1>2, <1>3, <2>1 DEF AcksOn
  <1>4. ASSUME NEW j \in n + 1 .. Len(new), NEW k \in n + 1 .. Len(new), j < k,
               HasAck(new[j]), HasAck(new[k])
        PROVE  WithinRange(lo, new[j].ack, new[k].ack)
    <2>1. j \in n + 1 .. Len(old) /\ new[j] = old[j]
      BY <1>1, <1>2, <1>4
    <2> QED BY <1>2, <1>3, <1>4, <2>1 DEF AcksOn
  <1>5. AcksOn(new, n, lo, hi)
    BY <1>3, <1>4 DEF AcksOn
  <1> QED BY <1>5 DEF new

\* The frame at the head of a line is taken.
LEMMA TakeData ==
  ASSUME NEW S, NEW line \in Seq(S), line # <<>>, NEW K \in Nat, NEW got \in Nat,
         NEW top \in Nat, DataOn(line, 0, K, got, top),
         IsData(Head(line)), Head(line).data = got + 1
  PROVE  DataOn(Tail(line), 0, K, got + 1, top)
  <1> DEFINE new == Tail(line)
  <1>1. /\ Len(line) \in Nat /\ 1 \in 1 .. Len(line) /\ Head(line) = line[1]
        /\ Len(new) \in Nat /\ Moves(new, line, 1)
    BY MovesTail
  <1> HIDE DEF new
  <1>3. DataOn(new, 0, K, got, top)
    BY <1>1, MovesData
  <1>4. ASSUME NEW k \in 0 + 1 .. Len(new), IsData(new[k])
        PROVE  got + 1 <= new[k].data - 1 + K
    <2>1. /\ new[k] = line[k + 1] /\ k + 1 \in 0 + 1 .. Len(line)
          /\ 1 < k + 1 /\ 1 \in 0 + 1 .. Len(line)
      BY <1>1, <1>4 DEF Moves, IsData
    <2> QED BY <1>1, <1>4, <2>1 DEF DataOn
  <1>5. DataOn(new, 0, K, got + 1, top)
    BY <1>3, <1>4 DEF DataOn
  <1> QED BY <1>5 DEF new

AckTypes(line) == \A k \in 1 .. Len(line) : HasAck(line[k]) => line[k].ack \in FrameNum

LEMMA TakeAck ==
  ASSUME NEW S, NEW line \in Seq(S), line # <<>>, AckTypes(line), NEW lo \in FrameNum,
         NEW hi \in FrameNum, AcksOn(line, 0, lo, hi), HasAck(Head(line))
  PROVE  /\ AcksOn(Tail(line), 0, Head(line).ack, hi)
         /\ Head(line).ack \in FrameNum /\ WithinRange(lo, Head(line).ack, hi)
  <1> DEFINE new == Tail(line)
             ack == Head(line).ack
  <1>1. /\ Len(line) \in Nat /\ 1 \in 0 + 1 .. Len(line) /\ Head(line) = line[1]
        /\ Len(new) \in Nat /\ Moves(new, line, 1)
    BY MovesTail
  <1>2. ack \in FrameNum /\ WithinRange(lo, ack, hi)
    BY <1>1 DEF AckTypes, AcksOn
  <1>3. ack = line[1].ack /\ HasAck(line[1])
    BY <1>1
  <1> HIDE DEF new, ack
  <1>4. ASSUME NEW k \in 0 + 1 .. Len(new), HasAck(new[k])
        PROVE  /\ k + 1 \in 0 + 1 .. Len(line) /\ 1 < k + 1 /\ new[k] = line[k + 1]
               /\ new[k].ack \in FrameNum
               /\ WithinRange(lo, new[k].ack, hi) /\ WithinRange(lo, ack, new[k].ack)
    <2>1. /\ k + 1 \in 0 + 1 .. Len(line) /\ 1 < k + 1 /\ new[k] = line[k + 1]
      BY <1>1, <1>4 DEF Moves, HasAck
    <2>2. HasAck(line[k + 1]) /\ new[k].ack = line[k + 1].ack
      BY <1>4, <2>1
    <2> QED BY <1>1, <1>3, <2>1, <2>2 DEF AckTypes, AcksOn
  <1>5. ASSUME NEW k \in 0 + 1 .. Len(new), HasAck(new[k])
        PROVE  WithinRange(ack, new[k].ack, hi)
    BY <1>2, <1>4, <1>5, WithinLater
  <1>6. ASSUME NEW j \in 0 + 1 .. Len(new), NEW k \in 0 + 1 .. Len(new), j < k,
               HasAck(new[j]), HasAck(new[k])
        PROVE  WithinRange(ack, new[j].ack, new[k].ack)
    <2>1. WithinRange(lo, new[j].ack, new[k].ack)
      <3>1. j + 1 < k + 1
        BY <1>6
      <3> QED BY <1>4, <1>6, <3>1 DEF AcksOn
    <2> QED BY <1>2, <1>4, <1>6, <2>1, WithinLater
  <1>7. AcksOn(new, 0, ack, hi)
    BY <1>5, <1>6 DEF AcksOn
  <1> QED BY <1>2, <1>7 DEF new, ack

\* The receiver takes one more
LEMMA MoreToAck ==
  ASSUME NEW line, NEW n \in Nat, NEW lo \in FrameNum, NEW hi \in FrameNum,
         Len(line) \in Nat, AckTypes(line),
         AcksOn(line, n, lo, hi), Dist(lo, hi) < Modulus - 1
  PROVE  AcksOn(line, n, lo, Inc(hi))
  <1>1. ASSUME NEW k \in n + 1 .. Len(line), HasAck(line[k])
        PROVE  WithinRange(lo, line[k].ack, Inc(hi))
    <2>1. line[k].ack \in FrameNum /\ WithinRange(lo, line[k].ack, hi)
      BY <1>1 DEF AckTypes, AcksOn
    <2> QED BY <2>1, WithinInc
  <1> QED BY <1>1 DEF AcksOn

-----------------------------------------------------------------------------
(* Every step of the link is one of the host, or leaves the host alone.    *)

LEMMA HeadFrame ==
  ASSUME NEW S, NEW line \in Seq(S), line # <<>>
  PROVE  /\ Head(line) \in S /\ Head(line) = line[1] /\ 1 \in 1 .. Len(line)
         /\ Tail(line) \in Seq(S) /\ Len(Tail(line)) = Len(line) - 1
         /\ \A k \in 1 .. Len(Tail(line)) : Tail(line)[k] = line[k + 1]
  OBVIOUS

LEMMA UpFrame ==
  ASSUME NEW f \in UpFrames
  PROVE  /\ f.type = "DATA" => f \in DataFrames /\ f.frm \in FrameNum /\ f.ack \in FrameNum
                               /\ f.data \in Data
         /\ f.type \in {"ACK", "NAK"} => f.ack \in FrameNum
         /\ f.type = "BAD" => f.isData \in BOOLEAN
         /\ f.type = "RSTACK" => f.reason \in ResetReasons /\ f.epoch \in Nat
         /\ HasAck(f) => f.ack \in FrameNum
  BY DEF UpFrames, DataFrames, AckFrames, RstAckFrames, ErrorFrame, BadFrames, HasAck

LEMMA HostReceivesIsNext ==
  ASSUME LinkTypes, HostReceives
  PROVE  ReceiveStep
  <1> DEFINE f == Head(toHost)
  <1>1. f \in UpFrames
    BY HeadFrame DEF LinkTypes, HostReceives
  <1>2. \/ HostIgnores(f)
        \/ f.type = "DATA" /\ ReceiveData(f)
        \/ f.type = "ACK" /\ ReceiveAck(f.ack)
        \/ f.type = "NAK" /\ ReceiveNak(f.ack)
        \/ ReceiveBad(FALSE)
        \/ f.type = "BAD" /\ ReceiveBad(f.isData)
        \/ f.type = "RSTACK" /\ ReceiveRstAck(TRUE, f.reason)
        \/ ReceiveReset
        \/ ReceiveError
    BY DEF HostReceives
  <1> HIDE DEF f
  <1> QED BY <1>1, <1>2, UpFrame DEF HostIgnores, ReceiveStep

LEMMA HostSendsIsNext ==
  ASSUME LinkTypes, HostSends
  PROVE  AppStep /\ hostSent + 1 \in Data
  <1>1. hostSent + 1 \in 1 .. HostMsgs \/ hostSent + 1 \in 1 .. ResetHostMsgs
    BY AshLinkAssumption DEF AshLinkAssumption, LinkTypes, HostSends, HostLimit
  <1>2. hostSent + 1 \in Data
    BY <1>1, AshLinkAssumption DEF AshLinkAssumption
  <1> QED BY <1>2 DEF HostSends, AppStep

LEMMA HostInternalIsNext ==
  ASSUME IInv, HostInternal
  PROVE  Next
  <1>1. ASSUME TakeReceived(1) PROVE AppStep
    <2>1. 1 \in 1 .. RxPool
      BY <1>1, AshHostAssumption
      DEF TakeReceived, IInv, QueueIntegrity, RxIntegrity, TypeOK, QueueTypes,
          AshHostAssumption
    <2> QED BY <1>1, <2>1 DEF AppStep
  <1> QED BY <1>1 DEF HostInternal, Next, SendStep

LEMMA LinkStepIsNext ==
  ASSUME IInv, LinkTypes, LinkNext
  PROVE  [Next]_vars
  <1>1. CASE NcpStep /\ UNCHANGED vars
    BY <1>1
  <1>2. CASE HostStep
    <2>1. CASE HostStart \/ HostWrites
      BY <2>1 DEF HostStart, HostWrites, Next, SendStep
    <2>2. CASE HostTimeout
      BY <2>2 DEF HostTimeout, Next
    <2>3. CASE HostInternal
      BY <2>3, HostInternalIsNext
    <2>4. CASE HostSends
      BY <2>4, HostSendsIsNext DEF Next
    <2>5. CASE HostReads
      BY <2>5 DEF HostReads, Next, ReceiveStep
    <2>6. CASE HostReceives
      BY <2>6, HostReceivesIsNext DEF Next
    <2> QED BY <1>2, <2>1, <2>2, <2>3, <2>4, <2>5, <2>6 DEF HostStep
  <1> QED BY <1>1, <1>2 DEF LinkNext

-----------------------------------------------------------------------------
(* Counts and frame numbers.                                               *)

LEMMA Counts ==
  ASSUME IInv, LinkTypes, HostCounts, NcpCounts
  PROVE  /\ HostTx \in Nat /\ HostAcked \in Nat /\ NcpAcked \in Nat
         /\ Len(ncpGot) \in Nat /\ Len(hostGot) \in Nat
         /\ Len(Out) \in Nat /\ Len(toHost) \in Nat /\ Len(toNcp) \in Nat
         /\ ackRx \in FrameNum /\ frmTx \in FrameNum /\ frmRx \in FrameNum
         /\ nAckRx \in FrameNum /\ nFrmTx \in FrameNum /\ nFrmRx \in FrameNum
         /\ HostTx <= HostAcked + TxK /\ HostTx <= hostSent
         /\ ncpSent <= NcpAcked + NcpTxK
         /\ TxK \in Nat /\ NcpTxK \in Nat /\ TxK < Modulus /\ NcpTxK < Modulus
         /\ Modulus \in Nat /\ hostSent \in Nat /\ ncpSent \in Nat
  <1>1. /\ ackRx \in FrameNum /\ frmTx \in FrameNum /\ frmRx \in FrameNum
        /\ Len(txQueue) \in Nat /\ Len(reTxQueue) \in Nat
    BY DEF IInv, TypeOK, NumberTypes, QueueTypes
  <1>2. /\ Len(ncpGot) \in Nat /\ Len(hostGot) \in Nat
        /\ Len(Out) \in Nat /\ Len(toHost) \in Nat /\ Len(toNcp) \in Nat
        /\ hostSent \in Nat /\ ncpSent \in Nat
    BY DEF LinkTypes
  <1>3. /\ TxK \in Nat /\ NcpTxK \in Nat /\ TxK < Modulus /\ NcpTxK < Modulus
        /\ Modulus \in Nat
    BY AshHostAssumption, AshLinkAssumption DEF AshHostAssumption, AshLinkAssumption
  <1>4. /\ nAckRx \in FrameNum /\ nFrmTx \in FrameNum /\ nFrmRx \in FrameNum
        /\ Dist(nAckRx, nFrmTx) <= NcpTxK /\ Dist(nAckRx, nFrmTx) <= ncpSent
    BY DEF NcpCounts
  <1>5. /\ Len(txQueue) <= hostSent
        /\ Dist(ackRx, frmTx) <= TxK /\ Dist(ackRx, frmTx) <= HostTx
    BY DEF HostCounts
  <1>6. Dist(ackRx, frmTx) \in Nat /\ Dist(nAckRx, nFrmTx) \in Nat
    BY <1>1, <1>4, DistType
  <1>7. HostTx = hostSent - Len(txQueue)
    BY DEF HostTx
  <1>8. HostAcked = HostTx - Dist(ackRx, frmTx) /\ NcpAcked = ncpSent - Dist(nAckRx, nFrmTx)
    BY DEF HostAcked, NcpAcked
  <1> DEFINE hd == Dist(ackRx, frmTx)
             nd == Dist(nAckRx, nFrmTx)
             ql == Len(txQueue)
  <1> HIDE DEF hd, nd, ql
  <1>9. /\ HostTx \in Nat /\ HostAcked \in Nat /\ NcpAcked \in Nat
        /\ HostTx <= HostAcked + TxK /\ HostTx <= hostSent
        /\ ncpSent <= NcpAcked + NcpTxK
    <2>1. /\ hd \in Nat /\ nd \in Nat /\ ql \in Nat /\ hd <= TxK /\ hd <= HostTx
          /\ nd <= NcpTxK /\ nd <= ncpSent /\ ql <= hostSent
          /\ HostTx = hostSent - ql /\ HostAcked = HostTx - hd /\ NcpAcked = ncpSent - nd
      BY <1>1, <1>4, <1>5, <1>6, <1>7, <1>8 DEF hd, nd, ql
    <2> QED BY ONLY <1>2, <1>3, <2>1
  <1> QED BY <1>1, <1>2, <1>3, <1>4, <1>9

\* What the receiver has beyond the last acknowledgement, on the ring
LEMMA AckDistance ==
  ASSUME NEW accepted \in Nat, NEW lo \in FrameNum, NEW got \in Nat, NEW acked \in Nat,
         NEW h, NEW g, h = accepted % Modulus, g = got % Modulus,
         acked = accepted - Dist(lo, h), Dist(lo, h) <= accepted,
         acked <= got, got - acked < Modulus
  PROVE  Dist(lo, g) = got - acked /\ g \in FrameNum /\ h \in FrameNum
  <1>1. lo = acked % Modulus
    BY ModBack
  <1> QED BY <1>1, ModDist, ModType

\* An acknowledgement in the window and of the line says no more than is true
LEMMA AckTrue ==
  ASSUME NEW accepted \in Nat, NEW lo \in FrameNum, NEW got \in Nat, NEW acked \in Nat,
         NEW h, NEW g, h = accepted % Modulus, g = got % Modulus,
         acked = accepted - Dist(lo, h), Dist(lo, h) <= accepted,
         acked <= got, got - acked < Modulus, NEW ack \in FrameNum,
         WithinRange(lo, ack, h), WithinRange(lo, ack, g)
  PROVE  accepted - Dist(ack, h) <= got /\ Dist(ack, h) <= Dist(lo, h)
  <1>1. h \in FrameNum /\ g \in FrameNum /\ Dist(lo, g) = got - acked
    BY AckDistance
  <1>2. Dist(lo, ack) <= got - acked
    BY <1>1 DEF WithinRange
  <1>3. Dist(ack, h) = Dist(lo, h) - Dist(lo, ack) /\ Dist(ack, h) <= Dist(lo, h)
    BY <1>1, DistSplit
  <1>4. Dist(lo, h) \in Nat /\ Dist(lo, ack) \in Nat /\ Dist(ack, h) \in Nat
    BY <1>1, DistType
  <1>5. accepted - Dist(ack, h) <= got
    BY <1>2, <1>3, <1>4
  <1> QED BY <1>3, <1>5

-----------------------------------------------------------------------------
(* What the steps do to a session.                                         *)

LEMMA TopData ==
  ASSUME NEW line, NEW n, NEW K, NEW got, NEW top \in Nat, NEW upper \in Nat, top <= upper,
         DataOn(line, n, K, got, top)
  PROVE  DataOn(line, n, K, got, upper)
  BY DEF DataOn

HostSide == <<hostGot, hostSent, txQueue, ackRx, frmTx, frmRx>>
NcpSide == <<ncpGot, ncpSent, nAckRx, nFrmTx, nFrmRx>>

LEMMA ReachedMoves ==
  ASSUME LinkTypes, LinkTypes', NEW a \in Nat, Moves(Out', Out, a), ReachedOut,
         \A c \in Nat : Reached(c) => Reached(c)',
         DataOn(Out, 0, TxK, Len(ncpGot), hostSent)
  PROVE  ReachedOut'
  <1>1. ASSUME NEW k \in 1 .. Len(Out'), IsData(Out'[k]) PROVE Reached(Out[k].data)'
    <2>1. /\ Len(Out) \in Nat /\ Len(Out') \in Nat /\ hostSent \in Nat
      BY DEF LinkTypes
    <2>2. k + a \in 1 .. Len(Out) /\ Out'[k] = Out[k + a]
      BY <1>1, <2>1 DEF Moves, IsData
    <2>3. Out[k + a].data \in Nat
      <3>1. k + a \in 0 + 1 .. Len(Out) /\ IsData(Out[k + a])
        BY <1>1, <2>1, <2>2
      <3> QED BY <2>1, <3>1 DEF DataOn
    <2>4. Reached(Out[k + a].data)
      BY <1>1, <2>2 DEF ReachedOut
    <2> QED BY <2>2, <2>3, <2>4
  <1> QED BY <1>1 DEF ReachedOut

\* Frames leave the lines and nothing else changes.
LEMMA SessionMoves ==
  ASSUME LinkTypes, LinkTypes', NEW n \in Nat, NEW m \in Nat, NEW a \in Nat, NEW b \in Nat,
         m <= n + b, Session(m), Moves(Out', Out, a), Moves(toHost', toHost, b),
         UNCHANGED <<HostSide, NcpSide>>
  PROVE  Session(n)'
  <1>1. /\ UNCHANGED <<HostTx, HostAcked, NcpAcked>>
        /\ \A c \in Nat : Reached(c) => Reached(c)'
    BY DEF HostTx, HostAcked, NcpAcked, Reached, HostSide, NcpSide
  <1>2. Len(Out) \in Nat /\ Len(Out') \in Nat /\ Len(toHost) \in Nat /\ Len(toHost') \in Nat
    BY DEF LinkTypes
  <1>3. (/\ Delivered(ncpGot, HostAcked, hostSent) /\ Reached(Len(ncpGot))
         /\ Delivered(hostGot, NcpAcked, ncpSent))'
    BY <1>1 DEF HostSide, NcpSide, Session, Down, Up, Delivered, LinkTypes
  <1>4. DataOn(Out', 0, TxK, Len(ncpGot), hostSent)
    BY <1>2, MovesData DEF Session, Down
  <1>5. ReachedOut'
    BY <1>1, ReachedMoves DEF Session, Down
  <1>6. AcksOn(toHost', n, ackRx, nFrmRx)
    BY <1>2, MovesAcks DEF Session, Down
  <1>7. DataOn(toHost', n, NcpTxK, Len(hostGot), ncpSent)
    BY <1>2, MovesData DEF Session, Up
  <1>8. AcksOn(Out', 0, nAckRx, frmRx)
    BY <1>2, MovesAcks DEF Session, Up
  <1> QED BY <1>3, <1>4, <1>5, <1>6, <1>7, <1>8 DEF Session, Down, Up, HostSide, NcpSide

\* The host begins a frame.
LEMMA SessionBegins ==
  ASSUME LinkTypes, NEW n \in Nat, Session(n), NEW f \in DownFrames,
         Out' = Append(Out, f), nAckRx \in FrameNum, frmRx \in FrameNum,
         HasAck(f) => f.ack = frmRx,
         IsData(f) => /\ f.data \in 1 .. hostSent /\ f.frm = (f.data - 1) % Modulus
                      /\ Len(ncpGot) <= f.data - 1 + TxK /\ Reached(f.data),
         IsData(f) => \A j \in 1 .. Len(Out) :
                        IsData(Out[j]) => Out[j].data <= f.data - 1 + TxK,
         UNCHANGED <<HostSide, NcpSide, toHost>>
  PROVE  Session(n)'
  <1>1. /\ UNCHANGED <<HostTx, HostAcked, NcpAcked>>
        /\ \A c : Reached(c) => Reached(c)'
    BY DEF HostTx, HostAcked, NcpAcked, Reached, HostSide, NcpSide
  <1>2. Out \in Seq(DownFrames) /\ Len(Out) \in Nat
    BY DEF LinkTypes
  <1>3. (/\ Delivered(ncpGot, HostAcked, hostSent) /\ Reached(Len(ncpGot))
         /\ Delivered(hostGot, NcpAcked, ncpSent))'
    BY <1>1 DEF HostSide, NcpSide, Session, Down, Up, Delivered, LinkTypes
  <1>4. DataOn(Out', 0, TxK, Len(ncpGot), hostSent)
    BY <1>2, AppendData DEF Session, Down
  <1>5. ReachedOut'
    <2>1. ASSUME NEW k \in 1 .. Len(Out'), IsData(Out'[k]) PROVE Reached((Out'[k]).data)
      BY <1>2, <2>1, AppendAt DEF Session, Down, ReachedOut
    <2> QED BY <1>1, <2>1 DEF ReachedOut
  <1>6. AcksOn(Out', 0, nAckRx, frmRx)
    BY <1>2, AppendAcks DEF Session, Up
  <1> QED BY <1>3, <1>4, <1>5, <1>6 DEF Session, Down, Up, HostSide, NcpSide

\* The host accepts a frame to send, or counts one as sent.
LEMMA SessionSends ==
  ASSUME LinkTypes, LinkTypes', NEW n \in Nat, Session(n),
         hostSent <= hostSent', HostAcked' = HostAcked,
         \A c \in Nat : Reached(c) => Reached(c)',
         UNCHANGED <<NcpSide, toHost, Out, hostGot, ackRx, frmRx>>
  PROVE  Session(n)'
  <1>1. UNCHANGED NcpAcked
    BY DEF NcpAcked, NcpSide
  <1>2. /\ Len(Out) \in Nat /\ hostSent \in Nat /\ hostSent' \in Nat /\ Len(ncpGot) \in Nat
        /\ ncpGot' = ncpGot
    BY DEF LinkTypes, NcpSide
  <1>3. (/\ Delivered(ncpGot, HostAcked, hostSent) /\ Reached(Len(ncpGot))
         /\ Delivered(hostGot, NcpAcked, ncpSent))'
    <2>1. Reached(Len(ncpGot))'
      BY <1>2 DEF Session, Down
    <2>2. Delivered(ncpGot, HostAcked, hostSent)'
      BY <1>2 DEF Session, Down, Delivered
    <2>3. Delivered(hostGot, NcpAcked, ncpSent)'
      BY <1>1 DEF Session, Up, Delivered, NcpSide
    <2> QED BY <2>1, <2>2, <2>3
  <1>4. DataOn(Out, 0, TxK, Len(ncpGot), hostSent')
    BY <1>2, TopData DEF Session, Down
  <1>5. ReachedOut'
    <2>1. Moves(Out', Out, 0)
      BY <1>2, MovesSame
    <2> QED BY <2>1, ReachedMoves DEF Session, Down
  <1> QED BY <1>3, <1>4, <1>5 DEF Session, Down, Up, NcpSide

-----------------------------------------------------------------------------
(* A frame is received.                                                    *)

\* The DATA frame whose number is expected is the one that is next.
LEMMA NextData ==
  ASSUME NEW line, 1 \in 1 .. Len(line), NEW K \in Nat, NEW got \in Nat, NEW top \in Nat,
         DataOn(line, 0, K, got, top), IsData(line[1]),
         K < Modulus, line[1].data <= got + K, line[1].frm = got % Modulus
  PROVE  line[1].data = got + 1
  <1> DEFINE d == line[1].data
  <1>1. d \in 1 .. top /\ line[1].frm = (d - 1) % Modulus /\ got <= d - 1 + K
    BY DEF DataOn
  <1>2. d \in Nat /\ d - 1 \in Nat /\ d <= got + K /\ Modulus \in Nat
    BY <1>1, AshHostAssumption DEF AshHostAssumption
  <1> HIDE DEF d
  <1>3. (d - 1) - got < Modulus /\ got - (d - 1) < Modulus
    BY <1>1, <1>2
  <1>4. d - 1 = got
    BY <1>1, <1>2, <1>3, ModSame DEF d
  <1>5. d = got + 1
    BY <1>2, <1>4
  <1> QED BY <1>5 DEF d

LEMMA NextUp ==
  ASSUME IInv, LinkTypes, HostCounts, NcpCounts, Session(0), toHost # <<>>,
         IsData(Head(toHost)), Head(toHost).frm = frmRx
  PROVE  Head(toHost).data = Len(hostGot) + 1 /\ Len(hostGot) + 1 <= ncpSent
  <1>1. Head(toHost) = toHost[1] /\ 1 \in 1 .. Len(toHost)
    BY HeadFrame DEF LinkTypes
  <1>2. DataOn(toHost, 0, NcpTxK, Len(hostGot), ncpSent) /\ NcpAcked <= Len(hostGot)
    BY DEF Session, Up, Delivered
  <1>3. toHost[1].data \in 1 .. ncpSent
    BY <1>1, <1>2 DEF DataOn
  <1>4. toHost[1].frm = Len(hostGot) % Modulus
    BY <1>1 DEF HostCounts
  <1>5. toHost[1].data <= Len(hostGot) + NcpTxK
    BY <1>2, <1>3, Counts
  <1>6. toHost[1].data = Len(hostGot) + 1
    BY <1>1, <1>2, <1>4, <1>5, Counts, NextData
  <1> QED BY <1>1, <1>3, <1>6

LEMMA NextDown ==
  ASSUME IInv, LinkTypes, HostCounts, NcpCounts, NEW n \in Nat, Session(n), Out # <<>>,
         IsData(Head(Out)), Head(Out).frm = nFrmRx
  PROVE  /\ Head(Out).data = Len(ncpGot) + 1 /\ Len(ncpGot) + 1 <= hostSent
         /\ Reached(Len(ncpGot) + 1)
  <1>1. Head(Out) = Out[1] /\ 1 \in 1 .. Len(Out)
    BY HeadFrame DEF LinkTypes
  <1>2. DataOn(Out, 0, TxK, Len(ncpGot), hostSent) /\ HostAcked <= Len(ncpGot)
    BY DEF Session, Down, Delivered
  <1>3. Out[1].data \in 1 .. hostSent /\ Reached(Out[1].data)
    BY <1>1, <1>2 DEF DataOn, Session, Down, ReachedOut
  <1>4. Out[1].frm = Len(ncpGot) % Modulus
    BY <1>1 DEF NcpCounts
  <1>5. Out[1].data <= Len(ncpGot) + TxK
    <2>1. Out[1].data <= HostAcked + TxK
      <3>1. CASE Out[1].data <= HostTx
        BY <1>3, <3>1, Counts
      <3>2. CASE Out[1].data = HostTx + 1 /\ Dist(ackRx, frmTx) < TxK
        <4>1. Dist(ackRx, frmTx) \in Nat
          BY Counts, DistType
        <4> QED BY <3>2, <4>1, Counts DEF HostAcked
      <3> QED BY <1>3, <3>1, <3>2 DEF Reached
    <2> QED BY <1>2, <1>3, <2>1, Counts
  <1>6. Out[1].data = Len(ncpGot) + 1
    BY <1>1, <1>2, <1>4, <1>5, Counts, NextData
  <1> QED BY <1>1, <1>3, <1>6

LEMMA LineAckTypes ==
  ASSUME LinkTypes
  PROVE  AckTypes(Out) /\ AckTypes(toHost)
  <1>1. ASSUME NEW f \in DownFrames, HasAck(f) PROVE f.ack \in FrameNum
    BY <1>1 DEF DownFrames, DataFrames, ShortFrames, RstFrame, BadFrames, HasAck
  <1>2. AckTypes(Out)
    <2>1. ASSUME NEW k \in 1 .. Len(Out) PROVE Out[k] \in DownFrames
      BY DEF LinkTypes
    <2> QED BY <1>1, <2>1 DEF AckTypes
  <1>3. AckTypes(toHost)
    <2>1. ASSUME NEW k \in 1 .. Len(toHost) PROVE toHost[k] \in UpFrames
      BY DEF LinkTypes
    <2> QED BY <2>1, UpFrame DEF AckTypes
  <1> QED BY <1>2, <1>3

\* What is beyond the acknowledged frames fits in the window
LEMMA BeyondAcked ==
  ASSUME IInv, LinkTypes, HostCounts, NcpCounts, NEW n \in Nat, Session(n)
  PROVE  /\ Len(ncpGot) - HostAcked <= TxK /\ Dist(ackRx, nFrmRx) = Len(ncpGot) - HostAcked
         /\ Len(hostGot) - NcpAcked <= NcpTxK /\ Dist(nAckRx, frmRx) = Len(hostGot) - NcpAcked
         /\ \A c \in Nat : Reached(c) => c <= HostAcked + TxK
  <1>1. ASSUME NEW c \in Nat, Reached(c) PROVE c <= HostAcked + TxK
    <2>1. CASE c <= HostTx
      BY <2>1, Counts
    <2>2. CASE c = HostTx + 1 /\ Dist(ackRx, frmTx) < TxK
      <3>1. /\ Dist(ackRx, frmTx) \in Nat /\ HostTx \in Nat /\ TxK \in Nat
            /\ HostAcked = HostTx - Dist(ackRx, frmTx)
        BY Counts, DistType DEF HostAcked
      <3> QED BY ONLY <2>2, <3>1
    <2> QED BY <1>1, <2>1, <2>2 DEF Reached
  <1>2. HostAcked <= Len(ncpGot) /\ Reached(Len(ncpGot)) /\ NcpAcked <= Len(hostGot)
        /\ Len(hostGot) <= ncpSent
    BY DEF Session, Down, Up, Delivered
  <1>3. Len(ncpGot) - HostAcked <= TxK /\ Len(hostGot) - NcpAcked <= NcpTxK
    BY <1>1, <1>2, Counts
  <1>4. /\ frmTx = HostTx % Modulus /\ Dist(ackRx, frmTx) <= HostTx
        /\ HostAcked = HostTx - Dist(ackRx, frmTx)
        /\ nFrmTx = ncpSent % Modulus /\ Dist(nAckRx, nFrmTx) <= ncpSent
        /\ NcpAcked = ncpSent - Dist(nAckRx, nFrmTx)
        /\ nFrmRx = Len(ncpGot) % Modulus /\ frmRx = Len(hostGot) % Modulus
    BY DEF HostCounts, NcpCounts, HostAcked, NcpAcked
  <1>5. Len(ncpGot) - HostAcked < Modulus /\ Len(hostGot) - NcpAcked < Modulus
    BY <1>3, Counts
  <1>6. /\ HostTx \in Nat /\ HostAcked \in Nat /\ Len(ncpGot) \in Nat /\ ackRx \in FrameNum
        /\ ncpSent \in Nat /\ NcpAcked \in Nat /\ Len(hostGot) \in Nat /\ nAckRx \in FrameNum
    BY Counts
  <1>7. Dist(ackRx, nFrmRx) = Len(ncpGot) - HostAcked
    BY ONLY <1>2, <1>4, <1>5, <1>6, AckDistance
  <1>8. Dist(nAckRx, frmRx) = Len(hostGot) - NcpAcked
    BY ONLY <1>2, <1>4, <1>5, <1>6, AckDistance
  <1> QED BY <1>1, <1>3, <1>7, <1>8

\* The host takes an acknowledgement, and perhaps the data that comes with it.
HostGets(f) ==
  \/ UNCHANGED <<hostGot, frmRx>>
  \/ /\ IsData(f) /\ f.frm = frmRx
     /\ hostGot' = Append(hostGot, f.data) /\ frmRx' = Inc(frmRx)

LEMMA GotOneMore ==
  ASSUME NEW S, NEW got \in Seq(S), NEW acked, NEW accepted, NEW d \in S,
         Delivered(got, acked, accepted), acked \in Nat, accepted \in Nat,
         d = Len(got) + 1, Len(got) + 1 <= accepted
  PROVE  Delivered(Append(got, d), acked, accepted) /\ Len(Append(got, d)) = Len(got) + 1
  BY AppendAt DEF Delivered

LEMMA SessionAck ==
  ASSUME IInv, LinkTypes, LinkTypes', HostCounts, NcpCounts, Session(0), toHost # <<>>,
         toHost' = Tail(toHost), HasAck(Head(toHost)), AckNumOk(Head(toHost).ack),
         ackRx' = Head(toHost).ack, HostGets(Head(toHost)),
         UNCHANGED <<NcpSide, Out, hostSent, txQueue, frmTx>>
  PROVE  /\ Session(0)'
         /\ Dist(ackRx', frmTx) <= Dist(ackRx, frmTx)
  <1> DEFINE f == Head(toHost)
             ack == Head(toHost).ack
             got == Len(ncpGot)
  <1>1. f \in UpFrames /\ f = toHost[1] /\ 1 \in 1 .. Len(toHost) /\ toHost \in Seq(UpFrames)
    BY HeadFrame DEF LinkTypes
  <1>2. /\ AcksOn(Tail(toHost), 0, ack, nFrmRx)
        /\ ack \in FrameNum /\ WithinRange(ackRx, ack, nFrmRx)
    BY <1>1, LineAckTypes, TakeAck, Counts DEF Session, Down
  <1>3. /\ HostTx - Dist(ack, frmTx) <= got
        /\ Dist(ack, frmTx) <= Dist(ackRx, frmTx)
    <2>1. /\ frmTx = HostTx % Modulus /\ Dist(ackRx, frmTx) <= HostTx
          /\ HostAcked = HostTx - Dist(ackRx, frmTx) /\ nFrmRx = got % Modulus
          /\ HostAcked <= got
      BY DEF HostCounts, NcpCounts, HostAcked, Session, Down, Delivered
    <2>4. got - HostAcked < Modulus
      BY BeyondAcked, Counts
    <2>2. WithinRange(ackRx, ack, frmTx)
      BY DEF AckNumOk
    <2>3. HostTx \in Nat /\ HostAcked \in Nat /\ got \in Nat /\ ackRx \in FrameNum
      BY Counts
    <2> HIDE DEF ack, got
    <2> QED BY ONLY <1>2, <2>1, <2>2, <2>3, <2>4, AckTrue
  <1>4. UNCHANGED <<HostTx, NcpAcked>> /\ HostAcked' = HostTx - Dist(ack, frmTx)
    BY DEF HostTx, HostAcked, NcpAcked, NcpSide
  <1>5. \A c : Reached(c) => Reached(c)'
    <2>1. Dist(ack, frmTx) \in Nat /\ Dist(ackRx, frmTx) \in Nat /\ TxK \in Nat
      BY <1>2, Counts, DistType
    <2> QED BY <1>3, <1>4, <2>1 DEF Reached
  <1>6. (/\ Delivered(ncpGot, HostAcked, hostSent) /\ Reached(Len(ncpGot))
         /\ DataOn(Out, 0, TxK, Len(ncpGot), hostSent) /\ ReachedOut
         /\ AcksOn(toHost, 0, ackRx, nFrmRx))'
    <2>1. Delivered(ncpGot, HostAcked, hostSent)'
      BY <1>3, <1>4 DEF Session, Down, Delivered, NcpSide
    <2>2. Reached(Len(ncpGot))'
      <3>1. Reached(Len(ncpGot)) /\ ncpGot' = ncpGot
        BY DEF Session, Down, NcpSide
      <3> QED BY <1>5, <3>1
    <2>3. DataOn(Out, 0, TxK, Len(ncpGot), hostSent)'
      BY DEF Session, Down, NcpSide
    <2>4. ReachedOut'
      BY <1>5 DEF Session, Down, ReachedOut
    <2>5. AcksOn(toHost, 0, ackRx, nFrmRx)'
      BY <1>2 DEF NcpSide
    <2> QED BY <2>1, <2>2, <2>3, <2>4, <2>5
  <1>7. Moves(toHost', toHost, 1) /\ Len(toHost) \in Nat /\ Len(toHost') \in Nat
    BY <1>1, MovesTail DEF LinkTypes
  <1>8. (/\ Delivered(hostGot, NcpAcked, ncpSent)
         /\ DataOn(toHost, 0, NcpTxK, Len(hostGot), ncpSent)
         /\ AcksOn(Out, 0, nAckRx, frmRx))'
    <2>1. CASE UNCHANGED <<hostGot, frmRx>>
      <3>1. DataOn(toHost', 0, NcpTxK, Len(hostGot), ncpSent)
        BY <1>7, MovesData DEF Session, Up
      <3> QED BY <1>4, <2>1, <3>1 DEF Session, Up, NcpSide
    <2>2. CASE /\ IsData(f) /\ f.frm = frmRx
               /\ hostGot' = Append(hostGot, f.data) /\ frmRx' = Inc(frmRx)
      <3>1. f.data = Len(hostGot) + 1 /\ Len(hostGot) + 1 <= ncpSent /\ f.data \in Data
        BY <1>1, <2>2, NextUp, UpFrame DEF IsData
      <3>2. hostGot \in Seq(Data) /\ Len(hostGot) \in Nat
        BY DEF LinkTypes
      <3> HIDE DEF f
      <3>3. Delivered(hostGot', NcpAcked, ncpSent) /\ Len(hostGot') = Len(hostGot) + 1
        BY <2>2, <3>1, <3>2, GotOneMore, Counts DEF Session, Up
      <3>4. DataOn(toHost', 0, NcpTxK, Len(hostGot) + 1, ncpSent)
        BY <1>1, <2>2, <3>1, <3>2, TakeData, Counts DEF Session, Up, f
      <3>5. AcksOn(Out, 0, nAckRx, Inc(frmRx))
        <4>1. Dist(nAckRx, frmRx) < Modulus - 1
          BY <3>1, BeyondAcked, Counts
        <4> QED BY <4>1, MoreToAck, LineAckTypes, Counts DEF Session, Up
      <3> QED BY <1>4, <2>2, <3>3, <3>4, <3>5 DEF NcpSide
    <2> QED BY <2>1, <2>2 DEF HostGets
  <1> QED BY <1>3, <1>6, <1>8 DEF Session, Down, Up

\* The same on the NCP's side.
NcpGets(f) ==
  \/ UNCHANGED <<ncpGot, nFrmRx>>
  \/ /\ IsData(f) /\ f.frm = nFrmRx
     /\ ncpGot' = Append(ncpGot, f.data) /\ nFrmRx' = Inc(nFrmRx)

LEMMA SessionNcpAck ==
  ASSUME IInv, LinkTypes, LinkTypes', HostCounts, NcpCounts, NEW n \in Nat, Session(n),
         Out # <<>>, Out' = Tail(Out), HasAck(Head(Out)), NcpAckOk(Head(Out).ack),
         nAckRx' = Head(Out).ack, NcpGets(Head(Out)),
         UNCHANGED <<HostSide, toHost, ncpSent, nFrmTx>>
  PROVE  /\ Session(n)'
         /\ Dist(nAckRx', nFrmTx) <= Dist(nAckRx, nFrmTx)
  <1> DEFINE f == Head(Out)
             ack == Head(Out).ack
             got == Len(hostGot)
  <1>1. f \in DownFrames /\ f = Out[1] /\ 1 \in 1 .. Len(Out) /\ Out \in Seq(DownFrames)
    BY HeadFrame DEF LinkTypes
  <1>2. /\ AcksOn(Tail(Out), 0, ack, frmRx)
        /\ ack \in FrameNum /\ WithinRange(nAckRx, ack, frmRx)
    BY <1>1, LineAckTypes, TakeAck, Counts DEF Session, Up
  <1>3. /\ ncpSent - Dist(ack, nFrmTx) <= got
        /\ Dist(ack, nFrmTx) <= Dist(nAckRx, nFrmTx)
    <2>1. /\ nFrmTx = ncpSent % Modulus /\ Dist(nAckRx, nFrmTx) <= ncpSent
          /\ NcpAcked = ncpSent - Dist(nAckRx, nFrmTx) /\ frmRx = got % Modulus
          /\ NcpAcked <= got
      BY DEF HostCounts, NcpCounts, NcpAcked, Session, Up, Delivered
    <2>4. got - NcpAcked < Modulus
      BY BeyondAcked, Counts
    <2>2. WithinRange(nAckRx, ack, nFrmTx)
      BY DEF NcpAckOk
    <2>3. ncpSent \in Nat /\ NcpAcked \in Nat /\ got \in Nat /\ nAckRx \in FrameNum
      BY Counts
    <2> HIDE DEF ack, got
    <2> QED BY ONLY <1>2, <2>1, <2>2, <2>3, <2>4, AckTrue
  <1>4. UNCHANGED <<HostTx, HostAcked>> /\ NcpAcked' = ncpSent - Dist(ack, nFrmTx)
        /\ \A c : Reached(c) => Reached(c)'
    BY DEF HostTx, HostAcked, NcpAcked, HostSide, Reached
  <1>5. (/\ Delivered(hostGot, NcpAcked, ncpSent)
         /\ DataOn(toHost, n, NcpTxK, Len(hostGot), ncpSent)
         /\ AcksOn(Out, 0, nAckRx, frmRx))'
    <2>1. Delivered(hostGot, NcpAcked, ncpSent)'
      BY <1>3, <1>4 DEF Session, Up, Delivered, HostSide
    <2>2. DataOn(toHost, n, NcpTxK, Len(hostGot), ncpSent)'
      BY DEF Session, Up, HostSide
    <2>3. AcksOn(Out, 0, nAckRx, frmRx)'
      BY <1>2 DEF HostSide
    <2> QED BY <2>1, <2>2, <2>3
  <1>6. Moves(Out', Out, 1) /\ Len(Out) \in Nat /\ Len(Out') \in Nat
    BY <1>1, MovesTail DEF LinkTypes
  <1>7. ReachedOut'
    BY <1>4, <1>6, ReachedMoves DEF Session, Down
  <1>8. (/\ Delivered(ncpGot, HostAcked, hostSent) /\ Reached(Len(ncpGot))
         /\ DataOn(Out, 0, TxK, Len(ncpGot), hostSent)
         /\ AcksOn(toHost, n, ackRx, nFrmRx))'
    <2>1. CASE UNCHANGED <<ncpGot, nFrmRx>>
      <3>1. DataOn(Out', 0, TxK, Len(ncpGot), hostSent)
        BY <1>6, MovesData DEF Session, Down
      <3>2. Reached(Len(ncpGot))'
        BY <1>4, <2>1 DEF Session, Down
      <3> QED BY <1>4, <2>1, <3>1, <3>2 DEF Session, Down, HostSide
    <2>2. CASE /\ IsData(f) /\ f.frm = nFrmRx
               /\ ncpGot' = Append(ncpGot, f.data) /\ nFrmRx' = Inc(nFrmRx)
      <3>1. /\ f.data = Len(ncpGot) + 1 /\ Len(ncpGot) + 1 <= hostSent
            /\ Reached(Len(ncpGot) + 1)
        BY <2>2, NextDown
      <3>2. ncpGot \in Seq(Data) /\ Len(ncpGot) \in Nat /\ f.data \in Data
        <4>1. ncpGot \in Seq(Data) /\ 1 .. hostSent \subseteq Data
          BY DEF LinkTypes
        <4>2. Len(ncpGot) + 1 \in 1 .. hostSent
          BY <3>1, Counts
        <4> QED BY <3>1, <4>1, <4>2
      <3> HIDE DEF f
      <3>3. Delivered(ncpGot', HostAcked, hostSent) /\ Len(ncpGot') = Len(ncpGot) + 1
        BY <2>2, <3>1, <3>2, GotOneMore, Counts DEF Session, Down
      <3>4. DataOn(Out', 0, TxK, Len(ncpGot) + 1, hostSent)
        BY <1>1, <2>2, <3>1, <3>2, TakeData, Counts DEF Session, Down, f
      <3>5. AcksOn(toHost, n, ackRx, Inc(nFrmRx))
        <4>1. Dist(ackRx, nFrmRx) < Modulus - 1
          BY <3>1, <3>2, BeyondAcked, Counts
        <4> QED BY <4>1, MoreToAck, LineAckTypes, Counts DEF Session, Down
      <3>6. Reached(Len(ncpGot))'
        BY <1>4, <3>1, <3>3 DEF Reached, HostSide
      <3> QED BY <1>4, <2>2, <3>3, <3>4, <3>5, <3>6 DEF HostSide
    <2> QED BY <2>1, <2>2 DEF NcpGets
  <1> QED BY <1>3, <1>5, <1>7, <1>8 DEF Session, Down, Up

\* The NCP sends a frame.
LEMMA PutLine ==
  ASSUME NEW line \in Seq(UpFrames), NEW f \in UpFrames, NEW new \in Put(line, f)
  PROVE  /\ new \in Seq(UpFrames)
         /\ \/ new = line
            \/ \E g \in UpFrames : /\ new = Append(line, g)
                                   /\ g = f \/ (g.type = "BAD" /\ ~IsData(g) /\ ~HasAck(g))
  <1> DEFINE g == BadFrame(f)
  <1>1. g \in UpFrames /\ g.type = "BAD" /\ ~IsData(g) /\ ~HasAck(g)
    BY DEF BadFrame, UpFrames, BadFrames, IsData, HasAck
  <1>2. new = line \/ new = Append(line, f) \/ new = Append(line, g)
    BY DEF Put
  <1> HIDE DEF g
  <1> QED BY <1>1, <1>2

LEMMA SessionPut ==
  ASSUME LinkTypes, LinkTypes', NEW n \in Nat, Session(n), NEW f \in UpFrames,
         toHost' \in Put(toHost, f), ncpSent <= ncpSent', NcpAcked' = NcpAcked,
         ackRx \in FrameNum, nFrmRx \in FrameNum, HasAck(f) => f.ack = nFrmRx,
         IsData(f) => /\ f.data \in 1 .. ncpSent' /\ f.frm = (f.data - 1) % Modulus
                      /\ Len(hostGot) <= f.data - 1 + NcpTxK
                      /\ ncpSent <= f.data - 1 + NcpTxK,
         UNCHANGED <<HostSide, Out, ncpGot, nAckRx, nFrmRx>>
  PROVE  Session(n)'
  <1>1. /\ UNCHANGED <<HostTx, HostAcked>>
        /\ \A c : Reached(c) => Reached(c)'
    BY DEF HostTx, HostAcked, Reached, HostSide
  <1>2. /\ toHost \in Seq(UpFrames) /\ Len(toHost) \in Nat /\ ncpSent \in Nat /\ ncpSent' \in Nat
        /\ Len(hostGot) \in Nat /\ NcpTxK \in Nat
    BY AshLinkAssumption, AshHostAssumption
    DEF LinkTypes, AshLinkAssumption, AshHostAssumption
  <1>3. Down(n) /\ Up(n)
    BY DEF Session
  <1>4. (/\ Delivered(ncpGot, HostAcked, hostSent) /\ Reached(Len(ncpGot))
         /\ DataOn(Out, 0, TxK, Len(ncpGot), hostSent) /\ ReachedOut
         /\ AcksOn(Out, 0, nAckRx, frmRx))'
    BY <1>1, <1>3 DEF HostSide, Down, Up, Delivered, ReachedOut
  <1>5. Delivered(hostGot, NcpAcked, ncpSent)'
    BY <1>2, <1>3 DEF Up, Delivered, HostSide
  <1>6. DataOn(toHost, n, NcpTxK, Len(hostGot), ncpSent')
    BY <1>2, <1>3, TopData DEF Up
  <1>7. ASSUME NEW j \in n + 1 .. Len(toHost), IsData(f), IsData(toHost[j])
        PROVE  toHost[j].data <= f.data - 1 + NcpTxK
    <2>1. toHost[j].data \in 1 .. ncpSent
      BY <1>3, <1>7 DEF Up, DataOn
    <2> QED BY <1>2, <1>7, <2>1
  <1>8. CASE toHost' = toHost
    <2> QED BY <1>3, <1>4, <1>5, <1>6, <1>8 DEF Session, Down, Up, HostSide
  <1>9. ASSUME NEW g \in UpFrames, toHost' = Append(toHost, g),
               g = f \/ (~IsData(g) /\ ~HasAck(g))
        PROVE  Session(n)'
    <2>1. DataOn(toHost', n, NcpTxK, Len(hostGot), ncpSent')
      BY <1>2, <1>6, <1>7, <1>9, AppendData
    <2>2. AcksOn(toHost', n, ackRx, nFrmRx)
      BY <1>2, <1>3, <1>9, AppendAcks DEF Down
    <2> QED BY <1>4, <1>5, <2>1, <2>2 DEF Session, Down, Up, HostSide
  <1> QED BY <1>2, <1>8, <1>9, PutLine

-----------------------------------------------------------------------------
(* What the steps do to the invariants of a host that waits.               *)

LEMMA MovesToken ==
  ASSUME LinkTypes, LinkTypes', NEW a \in Nat, NEW b \in Nat
  PROVE  /\ Moves(Out', Out, a) => \A k \in Nat : RstOut(k)' => RstOut(k + a)
         /\ Moves(toHost', toHost, b) =>
              \A k \in Nat : SoftUp(k)' => SoftUp(k + b) /\ toHost'[k] = toHost[k + b]
  <1>1. Len(Out) \in Nat /\ Len(Out') \in Nat /\ Len(toHost) \in Nat /\ Len(toHost') \in Nat
    BY DEF LinkTypes
  <1>2. ASSUME Moves(Out', Out, a), NEW k \in Nat, RstOut(k)' PROVE RstOut(k + a)
    BY <1>1, <1>2 DEF Moves, RstOut, RstFrame
  <1>3. ASSUME Moves(toHost', toHost, b), NEW k \in Nat, SoftUp(k)'
        PROVE  SoftUp(k + b) /\ toHost'[k] = toHost[k + b]
    BY <1>1, <1>3 DEF Moves, SoftUp, Soft
  <1> QED BY <1>2, <1>3

LEMMA OutAppendToken ==
  ASSUME LinkTypes, NEW f \in DownFrames, f # RstFrame, Out' = Append(Out, f),
         NEW k \in Nat, RstOut(k)'
  PROVE  RstOut(k)
  BY AppendAt DEF LinkTypes, RstOut

LEMMA PutToken ==
  ASSUME LinkTypes, NEW f \in UpFrames, ~Soft(f), toHost' \in Put(toHost, f),
         NEW k \in Nat, SoftUp(k)'
  PROVE  SoftUp(k) /\ toHost'[k] = toHost[k]
  <1>1. toHost \in Seq(UpFrames)
    BY DEF LinkTypes
  <1>2. CASE toHost' = toHost
    BY <1>2 DEF SoftUp
  <1>3. ASSUME NEW g \in UpFrames, toHost' = Append(toHost, g), ~Soft(g)
        PROVE  SoftUp(k) /\ toHost'[k] = toHost[k]
    BY <1>1, <1>3, AppendAt DEF SoftUp
  <1> QED BY <1>1, <1>2, <1>3, PutLine DEF Soft

\* No step but that of starting brings a token of its own.
TokensKept(a, b) ==
  /\ "RST" \in flags' => "RST" \in flags
  /\ \A k \in Nat : RstOut(k)' => RstOut(k + a)
  /\ \A k \in Nat : SoftUp(k)' => SoftUp(k + b) /\ toHost'[k] = toHost[k + b]

LEMMA TokensStep ==
  ASSUME NEW a \in Nat, NEW b \in Nat, TokensKept(a, b)
  PROVE  (OneToken => OneToken') /\ (Token' => Token)
  <1>1. ASSUME OneToken PROVE OneToken'
    <2>1. "RST" \in flags' => \A k \in Nat : ~RstOut(k)' /\ ~SoftUp(k)'
      BY <1>1 DEF OneToken, TokensKept
    <2>2. \A j, k \in Nat : ~(RstOut(j)' /\ SoftUp(k)')
      BY <1>1 DEF OneToken, TokensKept
    <2>3. ASSUME NEW j \in Nat, NEW k \in Nat, RstOut(j)', RstOut(k)' PROVE j = k
      <3>1. j + a = k + a
        BY <1>1, <2>3 DEF OneToken, TokensKept
      <3> QED BY <3>1
    <2>4. ASSUME NEW j \in Nat, NEW k \in Nat, SoftUp(j)', SoftUp(k)' PROVE j = k
      <3>1. j + b = k + b
        BY <1>1, <2>4 DEF OneToken, TokensKept
      <3> QED BY <3>1
    <2> QED BY <2>1, <2>2, <2>3, <2>4 DEF OneToken
  <1>2. ASSUME Token' PROVE Token
    BY <1>2 DEF Token, TokensKept
  <1> QED BY <1>1, <1>2

Calm ==
  /\ UNCHANGED <<starts, hostEpoch, epoch>>
  /\ starting' => starting
  /\ Connected' => Connected
  /\ Connected /\ ~Connected' => ~starting'

LEMMA CalmTokens ==
  ASSUME FirstInv, Calm, NEW b \in Nat, OneToken => OneToken', Token' => Token,
         \A k \in Nat : SoftUp(k)' => SoftUp(k + b) /\ toHost'[k] = toHost[k + b]
  PROVE  /\ FirstInv' /\ (Waits' => Waits)
         /\ \A n \in Nat : Present(n)' => Present(n + b) \/ (n = 0 /\ Present(0))
         /\ Connected => \A n \in Nat : Present(n)' => n = 0 /\ Present(0)
  <1>1. FirstInv'
    BY DEF FirstInv, Calm
  <1>2. ASSUME Waits' PROVE Waits
    BY <1>2 DEF Waits, FirstInv, Calm
  <1>3. ASSUME NEW n \in Nat, Present(n)'
        PROVE  Present(n + b) \/ (n = 0 /\ Present(0))
    <2>1. CASE n = 0 /\ LinkUp'
      BY <2>1 DEF Present, LinkUp, Calm
    <2>2. CASE Waits' /\ SoftUp(n)' /\ toHost'[n].epoch = epoch'
      BY <1>2, <2>2 DEF Present, Calm
    <2> QED BY <1>3, <2>1, <2>2 DEF Present
  <1>4. ASSUME Connected, NEW n \in Nat, Present(n)' PROVE n = 0 /\ Present(0)
    BY <1>2, <1>4 DEF Present, Waits, LinkUp, Calm
  <1> QED BY <1>1, <1>2, <1>3, <1>4

LEMMA CalmStep ==
  ASSUME FirstInv, Calm, NEW a \in Nat, NEW b \in Nat, TokensKept(a, b)
  PROVE  /\ FirstInv' /\ (Waits' => Waits)
         /\ \A n \in Nat : Present(n)' => Present(n + b) \/ (n = 0 /\ Present(0))
         /\ Connected => \A n \in Nat : Present(n)' => n = 0 /\ Present(0)
  <1>1. (OneToken => OneToken') /\ (Token' => Token)
    BY TokensStep
  <1>2. \A k \in Nat : SoftUp(k)' => SoftUp(k + b) /\ toHost'[k] = toHost[k + b]
    BY DEF TokensKept
  <1> QED BY <1>1, <1>2, CalmTokens

LEMMA MovesMute ==
  ASSUME LinkTypes, LinkTypes', NEW a \in Nat, Moves(Out', Out, a), MuteAfterRst
  PROVE  MuteAfterRst'
  <1>1. Len(Out) \in Nat /\ Len(Out') \in Nat
    BY DEF LinkTypes
  <1>2. ASSUME NEW j \in 1 .. Len(Out'), NEW k \in 1 .. Len(Out'), j < k, Out'[j] = RstFrame
        PROVE  IsMute(Out'[k])
    <2>1. CASE Out'[k].type = "BAD"
      BY <2>1 DEF IsMute
    <2>2. CASE Out'[k] = Out[k + a]
      <3>1. /\ j + a \in 1 .. Len(Out) /\ k + a \in 1 .. Len(Out) /\ j + a < k + a
            /\ Out[j + a] = RstFrame
        BY <1>1, <1>2 DEF Moves, RstFrame
      <3> QED BY <2>2, <3>1 DEF MuteAfterRst
    <2> QED BY <2>1, <2>2 DEF Moves
  <1> QED BY <1>2 DEF MuteAfterRst

\* Frames leave the lines and neither the counts nor the windows change.
LinkCore == LinkTypes /\ FirstInv /\ WaitInv /\ SessionInv

LEMMA QuietStep ==
  ASSUME LinkCore, LinkTypes', Calm, Waits /\ Fresh => Fresh',
         "RST" \in flags' => "RST" \in flags,
         NEW a \in Nat, NEW b \in Nat, Moves(Out', Out, a), Moves(toHost', toHost, b),
         UNCHANGED <<HostSide, NcpSide>>
  PROVE  LinkCore'
  <1>1. TokensKept(a, b)
    BY MovesToken DEF TokensKept, LinkCore
  <1>2. /\ FirstInv' /\ (Waits' => Waits)
        /\ \A n \in Nat : Present(n)' => Present(n + b) \/ (n = 0 /\ Present(0))
    BY <1>1, CalmStep DEF LinkCore
  <1>3. WaitInv'
    BY <1>2, MovesMute DEF WaitInv, LinkCore
  <1>4. SessionInv'
    <2>1. ASSUME NEW n \in Nat, Present(n)' PROVE Session(n)'
      <3>1. PICK m \in Nat : m <= n + b /\ Present(m)
        <4>1. n + b \in Nat /\ 0 \in Nat /\ 0 <= n + b
          OBVIOUS
        <4> QED BY <1>2, <2>1, <4>1
      <3>2. Session(m)
        BY <3>1 DEF SessionInv, LinkCore
      <3> QED BY <3>1, <3>2, SessionMoves DEF LinkCore
    <2> QED BY <2>1 DEF SessionInv
  <1> QED BY <1>2, <1>3, <1>4 DEF LinkCore

\* Otherwise each session that is present stays one.
LEMMA ConnectedStep ==
  ASSUME LinkCore, LinkTypes', Calm, Connected, NEW a \in Nat, NEW b \in Nat,
         TokensKept(a, b), LinkUp /\ Session(0) => Session(0)'
  PROVE  LinkCore'
  <1>1. /\ FirstInv' /\ (Waits' => Waits)
        /\ \A n \in Nat : Present(n)' => n = 0 /\ Present(0)
    BY CalmStep DEF LinkCore
  <1>2. WaitInv'
    BY <1>1 DEF WaitInv, Waits
  <1>3. SessionInv'
    <2>1. Present(0) => LinkUp
      BY DEF Present, Waits
    <2> QED BY <1>1, <2>1 DEF SessionInv, LinkCore
  <1> QED BY <1>1, <1>2, <1>3 DEF LinkCore

-----------------------------------------------------------------------------
(* The steps of the host that move no count.                               *)

LEMMA NothingCounted == 0 % Modulus = 0
  BY AshHostAssumption DEF AshHostAssumption

LEMMA OutSame ==
  ASSUME LinkTypes, UNCHANGED <<sendVars, toNcp>>
  PROVE  /\ Out' = Out /\ Moves(Out', Out, 0)
         /\ (/\ Out \in Seq(DownFrames) /\ toNcp \in Seq(DownFrames)
             /\ Writing => txFrame \in DownFrames)'
  <1>1. Out' = Out /\ Len(Out) \in Nat
    BY DEF Out, Writing, LinkTypes
  <1> QED BY <1>1, MovesSame DEF LinkTypes, Writing

LEMMA OutDropped ==
  ASSUME LinkTypes, ~Writing', UNCHANGED toNcp
  PROVE  /\ Out' = toNcp /\ Moves(Out', Out, 0)
         /\ (/\ Out \in Seq(DownFrames) /\ toNcp \in Seq(DownFrames)
             /\ Writing => txFrame \in DownFrames)'
  <1>1. Out' = toNcp /\ toNcp \in Seq(DownFrames) /\ Len(toNcp) \in Nat
    BY DEF Out, LinkTypes
  <1>2. CASE ~Writing
    BY <1>1, <1>2, MovesSame DEF Out, LinkTypes
  <1>3. CASE Writing
    <2>1. Out = Append(toNcp, txFrame) /\ txFrame \in DownFrames
      BY <1>3 DEF Out, LinkTypes
    <2>2. Moves(toNcp, Out, 0)
      BY <1>1, <2>1, AppendAt DEF Moves
    <2> QED BY <1>1, <2>2
  <1> QED BY <1>1, <1>2, <1>3

LEMMA Scrubbed ==
  ASSUME NEW S, NEW q \in Seq(S), NEW top \in Nat, Len(q) <= top, NEW n \in Nat,
         \A i \in 1 .. Len(q) : q[i] = top - Len(q) + i
  PROVE  LET new == SubSeq(q, n + 1, Len(q)) IN
           /\ Len(new) <= top
           /\ \A i \in 1 .. Len(new) : new[i] = top - Len(new) + i
  <1> DEFINE new == SubSeq(q, n + 1, Len(q))
  <1>1. CASE n <= Len(q)
    <2>1. /\ Len(new) = Len(q) - n /\ Len(q) \in Nat
          /\ \A i \in 1 .. Len(new) : new[i] = q[n + i] /\ n + i \in 1 .. Len(q)
      BY <1>1
    <2> HIDE DEF new
    <2>2. ASSUME NEW i \in 1 .. Len(new) PROVE new[i] = top - Len(new) + i
      BY <2>1, <2>2
    <2>3. Len(new) <= top
      BY <2>1
    <2> QED BY <2>2, <2>3 DEF new
  <1>2. CASE n > Len(q)
    <2>1. Len(new) = 0
      BY <1>2
    <2> HIDE DEF new
    <2>2. Len(new) <= top /\ \A i \in 1 .. Len(new) : new[i] = top - Len(new) + i
      BY <2>1
    <2> QED BY <2>2 DEF new
  <1>3. n <= Len(q) \/ n > Len(q)
    OBVIOUS
  <1> QED BY <1>1, <1>2, <1>3

\* The retransmit queue loses its oldest entries, or stays as it is.
Scrubs == \/ UNCHANGED reTxQueue
          \/ \E n \in Nat : reTxQueue' = SubSeq(reTxQueue, n + 1, Len(reTxQueue))

LEMMA ScrubsCounts ==
  ASSUME IInv, LinkTypes, HostCounts, NcpCounts, Scrubs, UNCHANGED HostTx
  PROVE  (/\ Len(reTxQueue) <= HostTx
          /\ \A i \in 1 .. Len(reTxQueue) : reTxQueue[i] = HostTx - Len(reTxQueue) + i)'
  <1>1. reTxQueue \in Seq(Data)
    BY DEF IInv, TypeOK, QueueTypes
  <1>2. HostTx \in Nat
    BY Counts
  <1>3. CASE UNCHANGED reTxQueue
    BY <1>3 DEF HostCounts
  <1>4. ASSUME NEW n \in Nat, reTxQueue' = SubSeq(reTxQueue, n + 1, Len(reTxQueue))
        PROVE  (/\ Len(reTxQueue) <= HostTx
                /\ \A i \in 1 .. Len(reTxQueue) : reTxQueue[i] = HostTx - Len(reTxQueue) + i)'
    BY <1>1, <1>2, <1>4, Scrubbed DEF HostCounts
  <1> QED BY <1>3, <1>4 DEF Scrubs

LEMMA HousekeepingScrubs ==
  ASSUME IInv, Housekeeping
  PROVE  Scrubs
  <1>1. Dist(frmReTxHead, ackRx) \in Nat
    BY DistType DEF IInv, TypeOK, NumberTypes
  <1> QED BY <1>1 DEF Housekeeping, ScrubReTxQueue, Scrubs

LEMMA SideCounts ==
  ASSUME IInv, LinkTypes, HostCounts, NcpCounts, UNCHANGED HostSide, Scrubs
  PROVE  HostCounts'
  <1>1. UNCHANGED HostTx
    BY DEF HostTx, HostSide
  <1>2. (/\ Len(reTxQueue) <= HostTx
         /\ \A i \in 1 .. Len(reTxQueue) : reTxQueue[i] = HostTx - Len(reTxQueue) + i)'
    BY <1>1, ScrubsCounts
  <1>3. (/\ Len(txQueue) <= hostSent
         /\ frmTx = HostTx % Modulus /\ frmRx = Len(hostGot) % Modulus
         /\ Dist(ackRx, frmTx) <= TxK /\ Dist(ackRx, frmTx) <= HostTx
         /\ \A i \in 1 .. Len(txQueue) : txQueue[i] = HostTx + i)'
    BY <1>1 DEF HostCounts, HostSide
  <1> QED BY <1>2, <1>3 DEF HostCounts

LEMMA NcpSame ==
  ASSUME NcpCounts, UNCHANGED ncpVars
  PROVE  NcpCounts' /\ UNCHANGED NcpSide /\ UNCHANGED epoch
  BY DEF NcpCounts, ncpVars, ncpNumbers, NcpSide

LEMMA EpochMoves ==
  ASSUME LinkTypes, LinkTypes', EpochTypes, NEW b \in Nat, Moves(toHost', toHost, b),
         UNCHANGED <<epoch, hostEpoch, starts>>
  PROVE  EpochTypes'
  <1>1. Len(toHost) \in Nat /\ Len(toHost') \in Nat
    BY DEF LinkTypes
  <1>2. ASSUME NEW k \in 1 .. Len(toHost'), toHost'[k].type = "RSTACK"
        PROVE  toHost'[k].epoch <= epoch
    <2>1. toHost'[k] = toHost[k + b] /\ k + b \in 1 .. Len(toHost)
      BY <1>1, <1>2 DEF Moves
    <2> QED BY <1>2, <2>1 DEF EpochTypes
  <1> QED BY <1>2 DEF EpochTypes

\* What a step of the host must not do to be of no account to the link
HostCalm ==
  /\ starting' => starting
  /\ Connected' => Connected
  /\ Connected /\ ~Connected' => ~starting'
  /\ "RST" \in flags' => "RST" \in flags
  /\ Waits /\ Fresh => flags' \subseteq {"RST", "CAN"} /\ UNCHANGED ackTx

LEMMA FreshKept ==
  ASSUME Fresh, flags' \subseteq {"RST", "CAN"}, UNCHANGED <<HostSide, ackTx>>,
         UNCHANGED <<sendState, txFrame>> \/ sendState' = "IDLE"
  PROVE  Fresh'
  BY DEF Fresh, HostSide

LEMMA QuietLink ==
  ASSUME IInv, LinkInv, LinkTypes', HostCalm, Scrubs, NEW b \in Nat,
         UNCHANGED <<HostSide, ncpVars, starts, hostEpoch>>,
         Moves(toHost', toHost, b), Moves(Out', Out, 0),
         UNCHANGED <<sendState, txFrame>> \/ sendState' = "IDLE"
  PROVE  LinkInv'
  <1>1. NcpCounts' /\ UNCHANGED NcpSide /\ UNCHANGED epoch
    BY NcpSame DEF LinkInv
  <1>2. HostCounts'
    BY SideCounts DEF LinkInv
  <1>3. EpochTypes'
    BY <1>1, EpochMoves DEF LinkInv
  <1>4. Waits /\ Fresh => Fresh'
    BY FreshKept DEF HostCalm
  <1>5. Calm /\ ("RST" \in flags' => "RST" \in flags)
    BY <1>1 DEF Calm, HostCalm
  <1>6. LinkCore'
    BY <1>1, <1>4, <1>5, QuietStep DEF LinkInv, LinkCore
  <1> QED BY <1>1, <1>2, <1>3, <1>6 DEF LinkInv, LinkCore

-----------------------------------------------------------------------------
(* The host's actions that move no count.                                  *)

LEMMA LinkFacts ==
  ASSUME LinkInv
  PROVE  /\ LinkTypes /\ EpochTypes /\ HostCounts /\ NcpCounts /\ LinkCore
         /\ WaitInv /\ FirstInv /\ SessionInv
  BY DEF LinkInv, LinkCore

\* The lines and what both sides accepted keep their types when a step of the
\* host leaves all but its own output alone.
LEMMA TypesKept ==
  ASSUME LinkTypes, UNCHANGED <<ncpVars, hostGhosts, toHost>>, faults' \in Nat,
         (/\ Out \in Seq(DownFrames) /\ toNcp \in Seq(DownFrames)
          /\ Writing => txFrame \in DownFrames)'
  PROVE  LinkTypes'
  BY DEF LinkTypes, ncpVars, hostGhosts

LEMMA QuietHostStep ==
  ASSUME IInv, LinkInv, HostCalm, Scrubs, UNCHANGED <<txQueue, ackRx, frmTx, frmRx>>,
         UNCHANGED <<ncpVars, hostGhosts, toHost, toNcp>>, faults' \in Nat,
         UNCHANGED sendVars \/ sendState' = "IDLE"
  PROVE  LinkInv'
  <1>1. LinkTypes /\ Len(toHost) \in Nat
    BY LinkFacts DEF LinkTypes
  <1>2. /\ Moves(Out', Out, 0)
        /\ (/\ Out \in Seq(DownFrames) /\ toNcp \in Seq(DownFrames)
            /\ Writing => txFrame \in DownFrames)'
    <2>1. CASE UNCHANGED sendVars
      BY <1>1, <2>1, OutSame
    <2>2. CASE sendState' = "IDLE"
      BY <1>1, <2>2, OutDropped DEF Writing
    <2> QED BY <2>1, <2>2
  <1>3. LinkTypes'
    BY <1>1, <1>2, TypesKept
  <1>4. Moves(toHost', toHost, 0) /\ UNCHANGED <<starts, hostEpoch, HostSide>>
    BY <1>1, MovesSame DEF hostGhosts, HostSide
  <1> QED BY <1>2, <1>3, <1>4, QuietLink

LEMMA HostTimeoutLink ==
  ASSUME IInv, LinkInv, HostTimeout
  PROVE  LinkInv'
  <1>1. HostCalm /\ Scrubs /\ UNCHANGED <<txQueue, ackRx, frmTx, frmRx, sendVars>>
    <2>1. CASE AckTimeout
      BY <2>1 DEF AckTimeout, MustReTx, HostCalm, Scrubs, SendLoop, Connected, Waits
    <2>2. CASE ResetTimeout
      BY <2>2 DEF ResetTimeout, HostCalm, Scrubs, SendLoop, Connected, Waits
    <2> QED BY <2>1, <2>2 DEF HostTimeout
  <1>2. UNCHANGED <<ncpVars, hostGhosts, toHost, toNcp>> /\ faults' \in Nat
    <2>1. faults \in Nat
      BY LinkFacts DEF LinkTypes
    <2> QED BY <2>1 DEF HostTimeout, Expires
  <1> QED BY <1>1, <1>2, QuietHostStep

LEMMA HostReadsLink ==
  ASSUME IInv, LinkInv, HostReads
  PROVE  LinkInv'
  <1>1. HostCalm /\ Scrubs /\ UNCHANGED <<txQueue, ackRx, frmTx, frmRx, sendVars>>
    BY DEF HostReads, ReadData, HostCalm, Scrubs, Connected, Waits, Fresh
  <1>2. UNCHANGED <<ncpVars, hostGhosts, toHost, toNcp>> /\ faults' \in Nat
    BY LinkFacts DEF LinkTypes, HostReads, lines
  <1> QED BY <1>1, <1>2, QuietHostStep

\* Of the internal actions, those that begin no frame and count none as sent
LEMMA QuietInternalLink ==
  ASSUME IInv, LinkInv, UNCHANGED <<ncpVars, hostGhosts, lines>>,
         \/ StartDone \/ StartFailed \/ SendCancel \/ FinishShort \/ FinishReTx
         \/ TakeReceived(1)
         \/ \E expired \in NrExpired : FlagAck(expired) \/ NothingToSend(expired)
  PROVE  LinkInv'
  <1>1. /\ HostCalm /\ Scrubs /\ UNCHANGED <<txQueue, ackRx, frmTx, frmRx>>
        /\ UNCHANGED sendVars \/ sendState' = "IDLE"
    <2>1. CASE StartDone \/ StartFailed
      BY <2>1 DEF StartDone, StartFailed, HostCalm, Scrubs, Connected, Waits, Fresh
    <2>2. CASE SendCancel
      BY <2>2 DEF SendCancel, HostCalm, Scrubs, Connected, Waits, Fresh
    <2>3. CASE FinishShort
      BY <2>3 DEF FinishShort, EndFrame, HostCalm, Scrubs, Connected, Waits, Fresh
    <2>4. CASE FinishReTx
      <3>1. Connected
        BY <2>4, SendConnected DEF FinishReTx, FrameTurn
      <3> QED BY <2>4, <3>1 DEF FinishReTx, EndFrame, HostCalm, Scrubs, Connected, Waits
    <2>5. CASE TakeReceived(1)
      BY <2>5 DEF TakeReceived, HostCalm, Scrubs, Connected, Waits, Fresh
    <2>6. ASSUME NEW expired \in NrExpired, FlagAck(expired) \/ NothingToSend(expired)
          PROVE  /\ HostCalm /\ Scrubs /\ UNCHANGED <<txQueue, ackRx, frmTx, frmRx, sendVars>>
      <3>1. Scrubs
        BY <2>6, HousekeepingScrubs DEF FlagAck, NothingToSend
      <3>2. /\ starting' = starting /\ UNCHANGED <<ackTx, txQueue, ackRx, frmTx, frmRx, sendVars>>
            /\ \/ ackTx # frmRx /\ flags' = idleFlags(expired) \cup {"ACK"}
               \/ flags' = idleFlags(expired)
        BY <2>6 DEF FlagAck, NothingToSend
      <3>3. /\ "CONNECTED" \in flags' => "CONNECTED" \in flags
            /\ "CONNECTED" \in flags => "CONNECTED" \in flags'
            /\ "RST" \in flags' => "RST" \in flags
        BY <3>2 DEF idleFlags, nrFlags, flagsAfterReTx, Connected
      <3>4. ASSUME Waits, Fresh PROVE flags' \subseteq {"RST", "CAN"}
        BY <3>2, <3>4 DEF Waits, Fresh, idleFlags, flagsAfterReTx
      <3> QED BY <3>1, <3>2, <3>3, <3>4 DEF HostCalm, Connected
    <2> QED BY <2>1, <2>2, <2>3, <2>4, <2>5, <2>6
  <1>2. UNCHANGED <<toHost, toNcp>> /\ faults' \in Nat
    BY LinkFacts DEF LinkTypes, lines
  <1> QED BY <1>1, <1>2, QuietHostStep

LEMMA HostWritesLink ==
  ASSUME IInv, LinkInv, HostWrites
  PROVE  LinkInv'
  <1>1. HostCalm /\ Scrubs /\ UNCHANGED <<txQueue, ackRx, frmTx, frmRx>>
    BY DEF HostWrites, WriteFlag, HostCalm, Scrubs, Connected, Waits, Fresh
  <1>2. /\ Writing /\ ~Writing' /\ toNcp' \in Put(toNcp, txFrame)
        /\ UNCHANGED <<ncpVars, hostGhosts, toHost, starts, hostEpoch, sendState, txFrame>>
        /\ faults' = faults \/ faults' = faults + 1
    BY DEF HostWrites, WriteFlag, Writing, CountFault, hostGhosts
  <1>3. /\ txFrame \in DownFrames /\ toNcp \in Seq(DownFrames) /\ Len(toNcp) \in Nat
        /\ Out = Append(toNcp, txFrame) /\ Out' = toNcp' /\ faults' \in Nat
    BY <1>2, LinkFacts DEF LinkTypes, Out
  <1>4. toNcp' \in Seq(DownFrames) /\ Moves(toNcp', Out, 0)
    <2> DEFINE bad == BadFrame(txFrame)
    <2>1. bad \in DownFrames /\ bad.type = "BAD"
      BY DEF BadFrame, DownFrames, BadFrames
    <2>2. toNcp' \in {Append(toNcp, txFrame), Append(toNcp, bad), toNcp}
      BY <1>2 DEF Put
    <2> HIDE DEF bad
    <2>3. CASE toNcp' = Append(toNcp, txFrame)
      BY <1>3, <2>3, AppendAt, MovesSame
    <2>4. CASE toNcp' = Append(toNcp, bad)
      BY <1>3, <2>1, <2>4, AppendAt DEF Moves
    <2>5. CASE toNcp' = toNcp
      BY <1>3, <2>5, AppendAt DEF Moves
    <2> QED BY <2>2, <2>3, <2>4, <2>5
  <1>5. LinkTypes'
    BY <1>2, <1>3, <1>4, LinkFacts, TypesKept
  <1>6. Moves(toHost', toHost, 0) /\ UNCHANGED HostSide /\ UNCHANGED <<sendState, txFrame>>
    BY <1>1, <1>2, LinkFacts, MovesSame DEF LinkTypes, HostSide, hostGhosts
  <1> QED BY <1>1, <1>2, <1>3, <1>4, <1>5, <1>6, QuietLink

-----------------------------------------------------------------------------
(* The host begins a frame.                                                *)

LEMMA BeginOut ==
  ASSUME LinkInv, NEW state, state # "IDLE", NEW f \in DownFrames, sendState = "IDLE",
         BeginFrame(state, f), UNCHANGED <<ncpVars, hostGhosts, lines>>
  PROVE  /\ Out' = Append(Out, f) /\ LinkTypes'
         /\ UNCHANGED <<toHost, starts, hostEpoch>>
         /\ \A k : SoftUp(k)' = SoftUp(k)
  <1>1. /\ Out = toNcp /\ toNcp' = toNcp /\ faults' = faults /\ toHost' = toHost
        /\ Writing' /\ txFrame' = f /\ UNCHANGED <<starts, hostEpoch>>
    BY DEF Out, Writing, BeginFrame, lines, hostGhosts
  <1>2. Out' = Append(Out, f)
    BY <1>1 DEF Out
  <1>3. LinkTypes'
    <2>1. LinkTypes /\ Out \in Seq(DownFrames) /\ faults \in Nat
      BY LinkFacts DEF LinkTypes
    <2>2. Out' \in Seq(DownFrames) /\ toNcp' \in Seq(DownFrames)
      BY <1>1, <1>2, <2>1, AppendAt
    <2> QED BY <1>1, <2>1, <2>2, TypesKept
  <1> QED BY <1>1, <1>2, <1>3 DEF SoftUp

\* A frame other than RST is begun while connected
LEMMA BeginLink ==
  ASSUME IInv, LinkInv, NEW state, state # "IDLE", NEW f \in DownFrames, f # RstFrame,
         sendState = "IDLE", BeginFrame(state, f),
         UNCHANGED <<ncpVars, hostGhosts, lines>>,
         Connected, Connected', starting' => starting, "RST" \in flags' => "RST" \in flags,
         Scrubs, UNCHANGED <<txQueue, ackRx, frmTx, frmRx>>,
         HasAck(f) => f.ack = frmRx,
         Session(0) /\ IsData(f) =>
            /\ f.data \in 1 .. hostSent /\ f.frm = (f.data - 1) % Modulus
            /\ Reached(f.data) /\ HostAcked <= f.data - 1
  PROVE  LinkInv'
  <1>1. /\ LinkTypes /\ HostCounts /\ NcpCounts /\ EpochTypes /\ LinkCore
    BY LinkFacts
  <1>2. /\ Out' = Append(Out, f) /\ LinkTypes' /\ UNCHANGED <<toHost, starts, hostEpoch>>
        /\ \A k : SoftUp(k)' = SoftUp(k)
    BY BeginOut
  <1>3. UNCHANGED HostSide
    BY DEF HostSide, hostGhosts
  <1>4. NcpCounts' /\ UNCHANGED NcpSide /\ UNCHANGED epoch
    BY <1>1, NcpSame
  <1>5. HostCounts'
    BY <1>1, <1>3, SideCounts
  <1>6. EpochTypes'
    BY <1>1, <1>2, <1>4 DEF EpochTypes
  <1>7. TokensKept(0, 0)
    <2>1. \A k \in Nat : RstOut(k)' => RstOut(k)
      BY <1>1, <1>2, OutAppendToken
    <2>2. \A k \in Nat : k + 0 = k
      OBVIOUS
    <2> QED BY <1>2, <2>1, <2>2 DEF TokensKept
  <1>8. Calm
    BY <1>2, <1>4 DEF Calm
  <1>9. ASSUME Session(0) PROVE Session(0)'
    <2>1. Len(Out) \in Nat
      BY <1>1, Counts
    <2>2. ASSUME IsData(f)
          PROVE  /\ f.data \in Nat /\ f.data - 1 \in Nat /\ HostAcked \in Nat /\ TxK \in Nat
                 /\ HostAcked <= f.data - 1
      <3>1. f.data \in 1 .. hostSent /\ HostAcked <= f.data - 1 /\ hostSent \in Nat
        BY <1>1, <1>9, <2>2, Counts
      <3> QED BY <1>1, <3>1, Counts
    <2>3. ASSUME IsData(f) PROVE Len(ncpGot) <= f.data - 1 + TxK
      <3>1. Len(ncpGot) \in Nat /\ Len(ncpGot) <= HostAcked + TxK
        BY <1>1, <1>9, BeyondAcked, Counts DEF Session, Down
      <3> QED BY <2>2, <2>3, <3>1
    <2>4. ASSUME IsData(f), NEW j \in 1 .. Len(Out), IsData(Out[j])
          PROVE  Out[j].data <= f.data - 1 + TxK
      <3>1. Reached(Out[j].data)
        BY <1>9, <2>4 DEF Session, Down, ReachedOut
      <3>2. j \in 0 + 1 .. Len(Out) /\ hostSent \in Nat
        BY <1>1, <2>1, Counts
      <3>3. Out[j].data \in 1 .. hostSent
        BY <1>9, <2>4, <3>2 DEF Session, Down, DataOn
      <3>4. Out[j].data \in Nat
        BY <3>2, <3>3
      <3>5. Out[j].data <= HostAcked + TxK
        BY <1>1, <1>9, <3>1, <3>4, BeyondAcked
      <3> QED BY <2>2, <2>4, <3>4, <3>5
    <2>5. nAckRx \in FrameNum /\ frmRx \in FrameNum
      BY <1>1, Counts
    <2> QED BY <1>1, <1>2, <1>3, <1>4, <1>9, <2>3, <2>4, <2>5, SessionBegins
  <1>10. LinkCore'
    BY <1>1, <1>2, <1>7, <1>8, <1>9, ConnectedStep
  <1> QED BY <1>2, <1>4, <1>5, <1>6, <1>10 DEF LinkInv, LinkCore

LEMMA IdleConnected ==
  ASSUME IInv, LinkInv, NEW expired \in NrExpired, IdleTurn,
         \/ idleFlags(expired) \cap {"NAK", "ACK", "RETX"} # {}
         \/ txQueue # <<>>
  PROVE  Connected
  <1> SUFFICES ASSUME ~Connected PROVE FALSE
    OBVIOUS
  <1>1. starting /\ Waits
    BY DEF IdleTurn, SendLoop, Waits
  <1>2. Fresh /\ txQueue = <<>>
    BY <1>1, LinkFacts DEF WaitInv, IInv, StartInv
  <1> QED BY <1>2 DEF Fresh, idleFlags, flagsAfterReTx

LEMMA StartNakOrAckLink ==
  ASSUME IInv, LinkInv, NEW expired \in NrExpired, StartNakOrAck(expired),
         UNCHANGED <<ncpVars, hostGhosts, lines>>
  PROVE  LinkInv'
  <1> DEFINE f == [type |-> IF "NAK" \in idleFlags(expired) THEN "NAK" ELSE "ACK",
                   ack |-> frmRx, n |-> "NR" \in idleFlags(expired)]
  <1>1. frmRx \in FrameNum
    BY LinkFacts, Counts
  <1>2. /\ f \in ShortFrames /\ f.ack = frmRx /\ ~IsData(f)
    BY <1>1 DEF ShortFrames, IsData
  <1>3. f \in DownFrames /\ f # RstFrame
    BY <1>2 DEF DownFrames, RstFrame
  <1>4. /\ IdleTurn /\ sendState = "IDLE" /\ BeginFrame("SHFRAME", f)
        /\ UNCHANGED <<txQueue, ackRx, frmTx, frmRx, starting>> /\ Housekeeping
    BY DEF StartNakOrAck, IdleTurn
  <1>5. Connected
    BY <1>4, IdleConnected DEF StartNakOrAck
  <1>6. IdleFlagsDone(expired)
    BY <1>4, IdleFlagsStep
  <1>7. Connected' /\ "RST" \notin flags'
    BY <1>5, <1>6 DEF StartNakOrAck, IdleFlagsDone, Connected
  <1>8. Scrubs
    BY <1>4, HousekeepingScrubs
  <1> HIDE DEF f
  <1> QED BY <1>2, <1>3, <1>4, <1>5, <1>7, <1>8, BeginLink

LEMMA StartDataLink ==
  ASSUME IInv, LinkInv, NEW expired \in NrExpired, StartData(expired),
         UNCHANGED <<ncpVars, hostGhosts, lines>>
  PROVE  LinkInv'
  <1> DEFINE f == [type |-> "DATA", frm |-> frmTx, ack |-> frmRx, r |-> FALSE,
                   data |-> Head(txQueue)]
  <1>1. /\ frmRx \in FrameNum /\ frmTx \in FrameNum /\ HostTx \in Nat /\ HostAcked \in Nat
        /\ hostSent \in Nat /\ ackRx \in FrameNum
    BY LinkFacts, Counts
  <1>2. txQueue \in Seq(Data) /\ txQueue # <<>>
    BY DEF StartData, ReadyForData, IInv, TypeOK, QueueTypes
  <1>3. Head(txQueue) \in Data /\ Head(txQueue) = txQueue[1] /\ 1 \in 1 .. Len(txQueue)
        /\ Len(txQueue) \in Nat
    BY <1>2, HeadFrame
  <1>4. Head(txQueue) = HostTx + 1 /\ HostTx + 1 <= hostSent
    <2>1. txQueue[1] = HostTx + 1
      BY <1>3, LinkFacts DEF HostCounts
    <2>2. HostTx = hostSent - Len(txQueue)
      BY DEF HostTx
    <2> QED BY <1>1, <1>3, <2>1, <2>2
  <1>5. /\ f \in DataFrames /\ f.ack = frmRx /\ f.data = HostTx + 1 /\ f.frm = frmTx
    BY <1>1, <1>3, <1>4 DEF DataFrames
  <1>6. f \in DownFrames /\ f # RstFrame
    BY <1>5 DEF DownFrames, RstFrame
  <1>7. /\ IdleTurn /\ sendState = "IDLE" /\ BeginFrame("TX_DATA", f)
        /\ UNCHANGED <<txQueue, ackRx, frmTx, frmRx, starting>> /\ Housekeeping
        /\ flags' = idleFlags(expired)
    BY DEF StartData, IdleTurn
  <1>8. Connected
    BY <1>2, <1>7, IdleConnected
  <1>9. IdleFlagsDone(expired)
    BY <1>7, IdleFlagsStep
  <1>10. Connected' /\ "RST" \notin flags'
    BY <1>7, <1>8, <1>9 DEF StartData, NothingUrgent, IdleFlagsDone, Connected
  <1>11. Scrubs
    BY <1>7, HousekeepingScrubs
  <1>12. /\ f.data \in 1 .. hostSent /\ f.frm = (f.data - 1) % Modulus
         /\ Reached(f.data) /\ HostAcked <= f.data - 1
    <2>1. f.data - 1 = HostTx /\ f.data \in 1 .. hostSent
      BY <1>1, <1>4, <1>5
    <2>2. Dist(ackRx, frmTx) < TxK
      BY <1>1, DistType, AshHostAssumption DEF StartData, ReadyForData, AshHostAssumption
    <2>3. frmTx = HostTx % Modulus /\ HostAcked <= HostTx
      BY <1>1, LinkFacts, DistType DEF HostCounts, HostAcked
    <2>4. Reached(f.data)
      BY <1>5, <2>2 DEF Reached
    <2> QED BY <1>5, <2>1, <2>3, <2>4
  <1> HIDE DEF f
  <1> QED BY <1>5, <1>6, <1>7, <1>8, <1>10, <1>11, <1>12, BeginLink

\* The frame found in the retransmit queue is the one that frmReTx numbers, and
\* none that is acknowledged.
LEMMA ReTxFrame ==
  ASSUME IInv, LinkInv, IdleTurn, Housekeeping, UNCHANGED <<ackRx, frmTx, txQueue>>,
         "RETX" \in flags, ~ReTxDone
  PROVE  LET d == reTxQueue[Len(reTxQueue) - Dist(reTxFrom, frmTx) + 1] IN
           /\ d \in 1 .. hostSent /\ d \in Data /\ reTxFrom = (d - 1) % Modulus
           /\ d <= HostTx /\ HostAcked <= d - 1 /\ reTxFrom \in FrameNum
           /\ Connected
  <1> DEFINE D == Dist(reTxFrom, frmTx)
  <1>1. Connected /\ WithinRange(frmReTxHead, reTxFrom, frmTx) /\ reTxFrom # frmTx
    BY HousekeepingStep DEF HousekeepingDone
  <1>2. /\ frmReTxHead \in FrameNum /\ frmTx \in FrameNum /\ ackRx \in FrameNum
        /\ frmReTx \in FrameNum /\ reTxFrom \in FrameNum
        /\ reTxQueue \in Seq(Data) /\ Len(reTxQueue) \in Nat
        /\ Len(reTxQueue) = Dist(frmReTxHead, frmTx)
    BY DEF IInv, TypeOK, NumberTypes, QueueTypes, reTxFrom, QueueIntegrity, TxIntegrity
  <1>3. /\ HostTx \in Nat /\ HostAcked \in Nat /\ hostSent \in Nat /\ HostTx <= hostSent
        /\ HostAcked = HostTx - Dist(ackRx, frmTx)
        /\ frmTx = HostTx % Modulus /\ Len(reTxQueue) <= HostTx
        /\ 1 .. hostSent \subseteq Data
    <2>1. HostAcked = HostTx - Dist(ackRx, frmTx)
      BY DEF HostAcked
    <2> QED BY <2>1, LinkFacts, Counts DEF HostCounts, LinkTypes
  <1>4. D \in Nat /\ D <= Len(reTxQueue) /\ D > 0 /\ Dist(ackRx, frmTx) \in Nat
    <2>1. D \in Nat /\ Dist(ackRx, frmTx) \in Nat
      BY <1>2, DistType
    <2>2. D # 0
      BY <1>1, <1>2, DistZero
    <2>3. D <= Dist(frmReTxHead, frmTx)
      BY <1>1, <1>2, DistSplit
    <2> HIDE DEF D
    <2> QED BY <1>2, <2>1, <2>2, <2>3
  <1>5. D <= Dist(ackRx, frmTx)
    <2>1. CASE reTxFrom = ackRx
      BY <1>4, <2>1
    <2>2. CASE reTxFrom # ackRx
      <3>1. reTxFrom = frmReTx /\ ~WithinRange(frmReTx, ackRx, frmTx)
        BY <2>2 DEF reTxFrom
      <3>2. WithinRange(frmReTxHead, frmReTx, frmTx) /\ WithinRange(frmReTxHead, ackRx, frmTx)
        BY <1>1, <3>1 DEF IInv, WindowOrder
      <3>3. WithinRange(ackRx, frmReTx, frmTx)
        BY <1>2, <3>1, <3>2, PastWithin
      <3> QED BY <1>2, <3>1, <3>3, DistSplit
    <2> QED BY <2>1, <2>2
  <1>6. reTxFrom = (HostTx - D) % Modulus
    <2>1. D <= HostTx
      <3> HIDE DEF D
      <3> QED BY <1>2, <1>3, <1>4
    <2> QED BY <1>2, <1>3, <2>1, ModBack
  <1> HIDE DEF D
  <1>7. Len(reTxQueue) - D + 1 \in 1 .. Len(reTxQueue)
    BY <1>2, <1>4
  <1>8. reTxQueue[Len(reTxQueue) - D + 1] = HostTx - D + 1
    <2>1. reTxQueue[Len(reTxQueue) - D + 1] = HostTx - Len(reTxQueue) + (Len(reTxQueue) - D + 1)
      BY <1>7, LinkFacts DEF HostCounts
    <2> QED BY <1>2, <1>3, <1>4, <2>1
  <1> DEFINE d == HostTx - D + 1
  <1>9. d \in 1 .. hostSent /\ d <= HostTx /\ d - 1 = HostTx - D /\ HostAcked <= d - 1
    BY <1>2, <1>3, <1>4, <1>5
  <1>10. d \in Data
    BY <1>3, <1>9
  <1> HIDE DEF d
  <1>11. d = reTxQueue[Len(reTxQueue) - Dist(reTxFrom, frmTx) + 1]
    BY <1>8 DEF d, D
  <1> QED BY <1>1, <1>2, <1>6, <1>9, <1>10, <1>11

LEMMA StartReTxLink ==
  ASSUME IInv, LinkInv, NEW expired \in NrExpired, StartReTx(expired),
         UNCHANGED <<ncpVars, hostGhosts, lines>>
  PROVE  LinkInv'
  <1> DEFINE d == reTxQueue[Len(reTxQueue) - Dist(reTxFrom, frmTx) + 1]
             f == [type |-> "DATA", frm |-> reTxFrom, ack |-> frmRx, r |-> TRUE,
                   data |-> d]
  <1>1. /\ IdleTurn /\ sendState = "IDLE" /\ BeginFrame("RETX_DATA", f)
        /\ UNCHANGED <<txQueue, ackRx, frmTx, frmRx, starting>> /\ Housekeeping
        /\ flags' = idleFlags(expired) /\ "RETX" \in idleFlags(expired)
        /\ "RST" \notin idleFlags(expired)
    BY DEF StartReTx, IdleTurn
  <1>2. IdleFlagsDone(expired)
    BY <1>1, IdleFlagsStep
  <1>3. "RETX" \in flags /\ ~ReTxDone
    BY <1>1, <1>2 DEF IdleFlagsDone
  <1>4. /\ d \in 1 .. hostSent /\ d \in Data /\ reTxFrom = (d - 1) % Modulus
        /\ d <= HostTx /\ HostAcked <= d - 1 /\ reTxFrom \in FrameNum
        /\ Connected
    BY <1>1, <1>3, ReTxFrame
  <1> HIDE DEF d
  <1>5. frmRx \in FrameNum
    BY LinkFacts, Counts
  <1>6. f \in DataFrames /\ f.ack = frmRx /\ f.data = d /\ f.frm = reTxFrom
    BY <1>4, <1>5 DEF DataFrames
  <1>7. f \in DownFrames /\ f # RstFrame
    BY <1>6 DEF DownFrames, RstFrame
  <1>8. Connected' /\ "RST" \notin flags'
    BY <1>1, <1>2, <1>4 DEF IdleFlagsDone, Connected
  <1>9. Scrubs
    BY <1>1, HousekeepingScrubs
  <1>10. Reached(f.data)
    BY <1>4, <1>6 DEF Reached
  <1> HIDE DEF f
  <1> QED BY <1>1, <1>4, <1>6, <1>7, <1>8, <1>9, <1>10, BeginLink

LEMMA StartRstLink ==
  ASSUME IInv, LinkInv, NEW expired \in NrExpired, StartRst(expired),
         UNCHANGED <<ncpVars, hostGhosts, lines>>
  PROVE  LinkInv'
  <1> DEFINE f == RstFrame
  <1>1. /\ IdleTurn /\ sendState = "IDLE" /\ BeginFrame("SHFRAME", f)
        /\ UNCHANGED <<txQueue, ackRx, ackTx, frmTx, frmRx, starting>> /\ Housekeeping
        /\ flags' = idleFlags(expired) \ {"RST", "NAK", "ACK"}
        /\ "RST" \in idleFlags(expired)
    BY DEF StartRst, IdleTurn
  <1>2. IdleFlagsDone(expired)
    BY <1>1, IdleFlagsStep
  <1>3. f \in DownFrames /\ ~HasAck(f) /\ ~IsData(f) /\ IsMute(f)
    BY DEF DownFrames, RstFrame, HasAck, IsData, IsMute
  <1>4. /\ LinkTypes /\ HostCounts /\ NcpCounts /\ EpochTypes /\ LinkCore
        /\ Out \in Seq(DownFrames) /\ Len(Out) \in Nat
    BY LinkFacts DEF LinkTypes
  <1>5. /\ Out' = Append(Out, f) /\ LinkTypes' /\ UNCHANGED <<toHost, starts, hostEpoch>>
        /\ \A k : SoftUp(k)' = SoftUp(k)
    BY <1>1, <1>3, BeginOut
  <1>6. UNCHANGED HostSide
    BY <1>1 DEF HostSide, hostGhosts
  <1>7. NcpCounts' /\ UNCHANGED NcpSide /\ UNCHANGED epoch
    BY <1>4, NcpSame
  <1>8. HostCounts'
    BY <1>1, <1>4, <1>6, SideCounts, HousekeepingScrubs
  <1>9. EpochTypes'
    BY <1>4, <1>5, <1>7 DEF EpochTypes
  <1>10. Calm
    BY <1>1, <1>2, <1>5, <1>7 DEF Calm, IdleFlagsDone, Connected
  <1>11. "RST" \in flags /\ "RST" \notin flags' /\ Token
    BY <1>1 DEF idleFlags, nrFlags, flagsAfterReTx, Token
  <1>12. ASSUME OneToken PROVE OneToken'
    <2>1. \A k \in Nat : ~RstOut(k) /\ ~SoftUp(k)'
      BY <1>5, <1>11, <1>12 DEF OneToken
    <2>2. ASSUME NEW k \in Nat, RstOut(k)' PROVE k = Len(Out) + 1
      <3>1. Len(Out') = Len(Out) + 1 /\ \A i \in 1 .. Len(Out) : Out'[i] = Out[i]
        BY <1>3, <1>4, <1>5, AppendAt
      <3> QED BY <1>4, <2>1, <2>2, <3>1 DEF RstOut
    <2> QED BY <1>11, <2>1, <2>2 DEF OneToken
  <1>13. \A k \in Nat : SoftUp(k)' => SoftUp(k + 0) /\ toHost'[k] = toHost[k + 0]
    <2>1. \A k \in Nat : k + 0 = k
      OBVIOUS
    <2> QED BY <1>5, <2>1
  <1>14. /\ FirstInv' /\ (Waits' => Waits)
         /\ \A n \in Nat : Present(n)' => Present(n + 0) \/ (n = 0 /\ Present(0))
    BY <1>4, <1>10, <1>11, <1>12, <1>13, CalmTokens DEF LinkCore
  <1>15. WaitInv'
    <2>1. ASSUME Waits PROVE Fresh'
      BY <1>1, <1>4, <1>6, <2>1
      DEF Waits, LinkCore, WaitInv, Fresh, HostSide, BeginFrame, idleFlags, flagsAfterReTx
    <2>2. ASSUME MuteAfterRst PROVE MuteAfterRst'
      <3>1. /\ Len(Out') = Len(Out) + 1 /\ \A i \in 1 .. Len(Out) : Out'[i] = Out[i]
            /\ Out'[Len(Out) + 1] = f
        BY <1>3, <1>4, <1>5, AppendAt
      <3> HIDE DEF f
      <3>2. ASSUME NEW j \in 1 .. Len(Out'), NEW k \in 1 .. Len(Out'), j < k, Out'[j] = RstFrame
            PROVE  IsMute(Out'[k])
        <4>1. j \in 1 .. Len(Out) /\ (k \in 1 .. Len(Out) \/ k = Len(Out) + 1)
          BY <1>4, <3>1, <3>2
        <4> QED BY <1>3, <2>2, <3>1, <3>2, <4>1 DEF MuteAfterRst
      <3> QED BY <3>2 DEF MuteAfterRst
    <2> QED BY <1>4, <1>14, <2>1, <2>2 DEF WaitInv, LinkCore
  <1>16. SessionInv'
    <2>1. ASSUME NEW n \in Nat, Present(n)' PROVE Session(n)'
      <3>1. Present(n)
        <4>1. n + 0 = n
          OBVIOUS
        <4> QED BY <1>14, <2>1, <4>1
      <3>2. Session(n) /\ nAckRx \in FrameNum /\ frmRx \in FrameNum
        BY <1>4, <3>1, Counts DEF LinkCore, SessionInv
      <3> HIDE DEF f
      <3> QED BY <1>3, <1>4, <1>5, <1>6, <1>7, <3>2, SessionBegins
    <2> QED BY <2>1 DEF SessionInv
  <1> QED BY <1>5, <1>7, <1>8, <1>9, <1>14, <1>15, <1>16 DEF LinkInv

-----------------------------------------------------------------------------
(* The host counts a frame as sent, or accepts one.                        *)

LEMMA NoTokenMoves ==
  ASSUME LinkTypes, UNCHANGED toHost, Out' = Out, "RST" \in flags' => "RST" \in flags
  PROVE  TokensKept(0, 0)
  <1>1. \A k \in Nat : k + 0 = k
    OBVIOUS
  <1> QED BY <1>1 DEF TokensKept, RstOut, SoftUp

LEMMA FinishDataLink ==
  ASSUME IInv, LinkInv, FinishData, UNCHANGED <<ncpVars, hostGhosts, lines>>
  PROVE  LinkInv'
  <1>1. LinkTypes /\ HostCounts /\ NcpCounts /\ EpochTypes /\ LinkCore
    BY LinkFacts
  <1>2. /\ Connected /\ Connected' /\ sendState = "TX_DATA" /\ starting' = starting
        /\ flags' = flags /\ "CAN" \notin flags
    BY SendConnected DEF FinishData, FrameTurn, Connected
  <1>3. Dist(frmReTxHead, frmTx) < TxK /\ frmReTxHead = ackRx /\ txQueue # <<>>
    BY <1>2 DEF IInv, SendInv, SendingOwned, WindowOrder
  <1>4. /\ txQueue \in Seq(Data) /\ reTxQueue \in Seq(Data)
        /\ Len(txQueue) \in Nat /\ Len(reTxQueue) \in Nat
        /\ ackRx \in FrameNum /\ frmTx \in FrameNum /\ TxK < Modulus /\ TxK \in Nat
    BY <1>1, Counts DEF IInv, TypeOK, QueueTypes
  <1>5. /\ txQueue' = Tail(txQueue) /\ reTxQueue' = Append(reTxQueue, Head(txQueue))
        /\ frmTx' = Inc(frmTx) /\ UNCHANGED <<ackRx, frmRx>> /\ ~Writing /\ ~Writing'
    BY <1>2 DEF FinishData, EndFrame, Writing
  <1>6. /\ Head(txQueue) \in Data /\ Head(txQueue) = txQueue[1] /\ 1 \in 1 .. Len(txQueue)
        /\ Len(txQueue') = Len(txQueue) - 1
        /\ \A k \in 1 .. Len(txQueue') : txQueue'[k] = txQueue[k + 1]
    BY <1>3, <1>4, <1>5, HeadFrame
  <1>7. /\ Len(reTxQueue') = Len(reTxQueue) + 1 /\ reTxQueue'[Len(reTxQueue) + 1] = txQueue[1]
        /\ \A k \in 1 .. Len(reTxQueue) : reTxQueue'[k] = reTxQueue[k]
    BY <1>4, <1>5, <1>6, AppendAt
  <1>8. /\ hostSent' = hostSent /\ hostGot' = hostGot /\ UNCHANGED <<starts, hostEpoch>>
        /\ UNCHANGED <<toHost, toNcp, faults>>
    BY DEF hostGhosts, lines
  <1>9. HostTx' = HostTx + 1 /\ HostTx \in Nat /\ HostTx = hostSent - Len(txQueue)
        /\ hostSent \in Nat
    <2>1. HostTx \in Nat /\ hostSent \in Nat
      BY <1>1, Counts
    <2>2. HostTx = hostSent - Len(txQueue) /\ HostTx' = hostSent' - Len(txQueue')
      BY DEF HostTx
    <2> QED BY <1>4, <1>6, <1>8, <2>1, <2>2
  <1>10. Dist(ackRx, frmTx') = Dist(ackRx, frmTx) + 1 /\ Dist(ackRx, frmTx) < TxK
         /\ Dist(ackRx, frmTx) \in Nat
    <2>1. Dist(ackRx, frmTx) < Modulus - 1 /\ Dist(ackRx, frmTx) \in Nat
      BY <1>3, <1>4, AshHostAssumption, DistType DEF AshHostAssumption
    <2> QED BY <1>3, <1>4, <1>5, <2>1, DistInc
  <1>11. /\ Out' = Out /\ LinkTypes'
    <2>1. /\ Out' = Out /\ Out \in Seq(DownFrames) /\ toNcp \in Seq(DownFrames) /\ faults \in Nat
      BY <1>1, <1>5, <1>8 DEF Out, LinkTypes
    <2> QED BY <1>1, <1>5, <1>8, <2>1, TypesKept
  <1>12. NcpCounts' /\ UNCHANGED NcpSide /\ UNCHANGED epoch
    BY <1>1, NcpSame
  <1>13. EpochTypes'
    BY <1>1, <1>8, <1>12 DEF EpochTypes
  <1>14. HostCounts'
    <2>1. frmTx' = HostTx' % Modulus
      BY <1>1, <1>5, <1>9, ModInc DEF HostCounts
    <2>2. /\ Len(txQueue') <= hostSent' /\ Len(reTxQueue') <= HostTx'
      BY <1>1, <1>4, <1>6, <1>7, <1>8, <1>9 DEF HostCounts
    <2>3. frmRx' = Len(hostGot') % Modulus
      BY <1>1, <1>5, <1>8 DEF HostCounts
    <2>4. Dist(ackRx', frmTx') <= TxK /\ Dist(ackRx', frmTx') <= HostTx'
      BY <1>1, <1>4, <1>5, <1>9, <1>10 DEF HostCounts
    <2>5. ASSUME NEW i \in 1 .. Len(txQueue') PROVE txQueue'[i] = HostTx' + i
      <3>1. i + 1 \in 1 .. Len(txQueue)
        BY <1>4, <1>6
      <3>2. txQueue[i + 1] = HostTx + (i + 1)
        BY <1>1, <3>1 DEF HostCounts
      <3> QED BY <1>6, <1>9, <3>2
    <2>6. ASSUME NEW i \in 1 .. Len(reTxQueue')
          PROVE  reTxQueue'[i] = HostTx' - Len(reTxQueue') + i
      <3>1. CASE i \in 1 .. Len(reTxQueue)
        <4>1. reTxQueue[i] = HostTx - Len(reTxQueue) + i
          BY <1>1, <3>1 DEF HostCounts
        <4> QED BY <1>4, <1>7, <1>9, <3>1, <4>1
      <3>2. CASE i = Len(reTxQueue) + 1
        <4>1. txQueue[1] = HostTx + 1
          BY <1>1, <1>6 DEF HostCounts
        <4> QED BY <1>4, <1>7, <1>9, <3>2, <4>1
      <3> QED BY <1>4, <1>7, <3>1, <3>2
    <2> QED BY <2>1, <2>2, <2>3, <2>4, <2>5, <2>6 DEF HostCounts
  <1>15. ASSUME Session(0) PROVE Session(0)'
    <2>1. HostAcked' = HostAcked
      BY <1>5, <1>9, <1>10 DEF HostAcked
    <2>2. ASSUME NEW c \in Nat, Reached(c) PROVE Reached(c)'
      BY <1>9, <2>2 DEF Reached
    <2>3. hostSent <= hostSent'
      BY <1>8, <1>9
    <2> QED BY <1>1, <1>5, <1>8, <1>11, <1>12, <1>15, <2>1, <2>2, <2>3, SessionSends
  <1>16. LinkCore'
    <2>1. TokensKept(0, 0)
      BY <1>1, <1>2, <1>8, <1>11, NoTokenMoves
    <2>2. Calm
      BY <1>2, <1>8, <1>12 DEF Calm
    <2> QED BY <1>1, <1>2, <1>11, <1>15, <2>1, <2>2, ConnectedStep
  <1> QED BY <1>11, <1>12, <1>13, <1>14, <1>16 DEF LinkInv, LinkCore

LEMMA HostSendsLink ==
  ASSUME IInv, LinkInv, HostSends
  PROVE  LinkInv'
  <1>1. LinkTypes /\ HostCounts /\ NcpCounts /\ EpochTypes /\ LinkCore
    BY LinkFacts
  <1>2. /\ Connected /\ Connected' /\ starting' = starting /\ flags' = flags
        /\ UNCHANGED <<ackRx, frmTx, frmRx, reTxQueue, sendVars>>
        /\ txQueue' = Append(txQueue, hostSent + 1)
    BY DEF HostSends, AshSend, Connected
  <1>3. /\ hostSent' = hostSent + 1 /\ UNCHANGED <<ncpVars, hostGot, hostEpoch, starts>>
        /\ UNCHANGED <<toHost, toNcp, faults>>
    BY DEF HostSends, lines
  <1>4. hostSent + 1 \in Data
    BY <1>1, HostSendsIsNext
  <1>5. /\ txQueue \in Seq(Data) /\ reTxQueue \in Seq(Data)
        /\ Len(txQueue) \in Nat /\ Len(reTxQueue) \in Nat /\ hostSent \in Nat /\ HostTx \in Nat
    BY <1>1, Counts DEF IInv, TypeOK, QueueTypes
  <1>6. /\ Len(txQueue') = Len(txQueue) + 1 /\ txQueue'[Len(txQueue) + 1] = hostSent + 1
        /\ \A k \in 1 .. Len(txQueue) : txQueue'[k] = txQueue[k]
    BY <1>2, <1>4, <1>5, AppendAt
  <1>7. HostTx' = HostTx /\ HostTx = hostSent - Len(txQueue)
    BY <1>3, <1>5, <1>6 DEF HostTx
  <1>8. Out' = Out /\ LinkTypes'
    <2>1. Out' = Out /\ (/\ Out \in Seq(DownFrames) /\ toNcp \in Seq(DownFrames)
                         /\ Writing => txFrame \in DownFrames)'
      BY <1>1, <1>2, <1>3, OutSame
    <2>2. 1 .. hostSent' \subseteq Data
      <3>1. 1 .. hostSent + 1 = (1 .. hostSent) \cup {hostSent + 1}
        BY <1>5
      <3> QED BY <1>1, <1>3, <1>4, <3>1 DEF LinkTypes
    <2> QED BY <1>1, <1>3, <1>5, <2>1, <2>2 DEF LinkTypes, ncpVars
  <1>9. NcpCounts' /\ UNCHANGED NcpSide /\ UNCHANGED epoch
    BY <1>1, <1>3, NcpSame
  <1>10. EpochTypes'
    BY <1>1, <1>3, <1>9 DEF EpochTypes
  <1>11. HostCounts'
    <2>1. /\ Len(txQueue') <= hostSent' /\ Len(reTxQueue') <= HostTx'
          /\ frmTx' = HostTx' % Modulus /\ frmRx' = Len(hostGot') % Modulus
          /\ Dist(ackRx', frmTx') <= TxK /\ Dist(ackRx', frmTx') <= HostTx'
          /\ \A i \in 1 .. Len(reTxQueue') : reTxQueue'[i] = HostTx' - Len(reTxQueue') + i
      BY <1>1, <1>2, <1>3, <1>5, <1>6, <1>7 DEF HostCounts
    <2>2. ASSUME NEW i \in 1 .. Len(txQueue') PROVE txQueue'[i] = HostTx' + i
      <3>1. CASE i \in 1 .. Len(txQueue)
        BY <1>1, <1>6, <1>7, <3>1 DEF HostCounts
      <3>2. CASE i = Len(txQueue) + 1
        BY <1>5, <1>6, <1>7, <3>2
      <3> QED BY <1>5, <1>6, <3>1, <3>2
    <2> QED BY <2>1, <2>2 DEF HostCounts
  <1>12. ASSUME Session(0) PROVE Session(0)'
    <2>1. HostAcked' = HostAcked /\ hostSent <= hostSent'
      BY <1>2, <1>3, <1>5, <1>7 DEF HostAcked
    <2>2. ASSUME NEW c \in Nat, Reached(c) PROVE Reached(c)'
      BY <1>2, <1>7, <2>2 DEF Reached
    <2> QED BY <1>1, <1>2, <1>3, <1>8, <1>9, <1>12, <2>1, <2>2, SessionSends
  <1>13. LinkCore'
    <2>1. TokensKept(0, 0)
      BY <1>1, <1>2, <1>3, <1>8, NoTokenMoves
    <2>2. Calm
      BY <1>2, <1>3, <1>9 DEF Calm
    <2> QED BY <1>1, <1>2, <1>8, <1>12, <2>1, <2>2, ConnectedStep
  <1> QED BY <1>8, <1>9, <1>10, <1>11, <1>13 DEF LinkInv, LinkCore

LEMMA HostInternalLink ==
  ASSUME IInv, LinkInv, HostInternal
  PROVE  LinkInv'
  <1>1. UNCHANGED <<ncpVars, hostGhosts, lines>>
    BY DEF HostInternal
  <1>2. CASE StartDone \/ StartFailed \/ SendCancel \/ FinishShort \/ FinishReTx \/ TakeReceived(1)
    BY <1>1, <1>2, QuietInternalLink
  <1>3. CASE FinishData
    BY <1>1, <1>3, FinishDataLink
  <1>4. CASE IdleChoice
    <2>1. PICK expired \in NrExpired :
            \/ StartRst(expired) \/ StartNakOrAck(expired) \/ StartReTx(expired)
            \/ FlagAck(expired) \/ StartData(expired) \/ NothingToSend(expired)
      BY <1>4 DEF IdleChoice
    <2> QED BY <1>1, <2>1, StartRstLink, StartNakOrAckLink, StartReTxLink, StartDataLink,
               QuietInternalLink
  <1> QED BY <1>2, <1>3, <1>4 DEF HostInternal

-----------------------------------------------------------------------------
(* The host receives.                                                      *)

\* What is common to all that the host does with the frame at the head of the
\* line
LEMMA Received ==
  ASSUME LinkInv, HostReceives
  PROVE  /\ toHost # <<>> /\ toHost' = Tail(toHost) /\ Head(toHost) = toHost[1]
         /\ toHost \in Seq(UpFrames) /\ Len(toHost) \in Nat /\ Head(toHost) \in UpFrames
         /\ 1 \in 1 .. Len(toHost) /\ toHost' \in Seq(UpFrames)
         /\ Moves(toHost', toHost, 1) /\ Head(toHost).type # "NONE"
         /\ UNCHANGED <<ncpVars, hostSent, starts, toNcp, faults>>
         /\ hostGot' = IF rxQueue' = rxQueue THEN hostGot
                                             ELSE Append(hostGot, Head(toHost).data)
         /\ hostEpoch' = IF Connected' /\ ~Connected THEN Head(toHost).epoch ELSE hostEpoch
  <1>1. toHost # <<>> /\ toHost' = Tail(toHost) /\ toHost \in Seq(UpFrames)
    BY LinkFacts DEF HostReceives, LinkTypes
  <1>2. Head(toHost) \in UpFrames
    BY <1>1, HeadFrame
  <1>3. Head(toHost).type # "NONE"
    BY <1>2 DEF UpFrames, DataFrames, AckFrames, RstAckFrames, ErrorFrame, BadFrames
  <1>4. /\ UNCHANGED <<ncpVars, hostSent, starts, toNcp, faults>>
        /\ hostGot' = IF rxQueue' = rxQueue THEN hostGot
                                            ELSE Append(hostGot, Head(toHost).data)
        /\ hostEpoch' = IF Connected' /\ ~Connected THEN Head(toHost).epoch ELSE hostEpoch
    BY DEF HostReceives
  <1> QED BY <1>1, <1>2, <1>3, <1>4, HeadFrame, MovesTail

\* The frame is passed over, or ends the connection.
LEMMA PassedOverLink ==
  ASSUME IInv, LinkInv, HostReceives, HostCalm,
         UNCHANGED <<txQueue, ackRx, frmTx, frmRx, rxQueue, reTxQueue, sendVars>>
  PROVE  LinkInv'
  <1>1. /\ toHost' \in Seq(UpFrames) /\ Moves(toHost', toHost, 1)
        /\ UNCHANGED <<ncpVars, hostSent, hostGot, starts, toNcp, faults, hostEpoch>>
    BY Received DEF HostCalm
  <1>2. LinkTypes /\ Moves(Out', Out, 0)
        /\ (/\ Out \in Seq(DownFrames) /\ toNcp \in Seq(DownFrames)
            /\ Writing => txFrame \in DownFrames)'
    BY <1>1, LinkFacts, OutSame
  <1>3. LinkTypes'
    BY <1>1, <1>2 DEF LinkTypes, ncpVars
  <1>4. UNCHANGED HostSide /\ Scrubs
    BY <1>1 DEF HostSide, Scrubs
  <1> QED BY <1>1, <1>2, <1>3, <1>4, QuietLink

\* An acknowledgement is taken, perhaps with data.
LEMMA AckScrubs ==
  ASSUME IInv, NEW ack \in FrameNum, ProcessAck(ack)
  PROVE  Scrubs /\ ackRx' = ack
  <1>1. Dist(frmReTxHead, ack) \in Nat
    BY DistType DEF IInv, TypeOK, NumberTypes
  <1> QED BY <1>1 DEF ProcessAck, ScrubReTxQueue, Scrubs

LEMMA AckTakenLink ==
  ASSUME IInv, LinkInv, HostReceives, Connected, Connected', starting' => starting,
         "RST" \in flags' => "RST" \in flags,
         HasAck(Head(toHost)), AckNumOk(Head(toHost).ack), ProcessAck(Head(toHost).ack),
         \/ UNCHANGED <<frmRx, rxQueue>>
         \/ /\ IsData(Head(toHost)) /\ Head(toHost).frm = frmRx
            /\ frmRx' = Inc(frmRx) /\ rxQueue' = Append(rxQueue, Head(toHost).data),
         UNCHANGED <<txQueue, frmTx, sendVars>>
  PROVE  LinkInv'
  <1> DEFINE f == Head(toHost)
  <1>1. /\ toHost # <<>> /\ toHost' = Tail(toHost) /\ f \in UpFrames
        /\ toHost' \in Seq(UpFrames) /\ Moves(toHost', toHost, 1)
        /\ UNCHANGED <<ncpVars, hostSent, starts, toNcp, faults, hostEpoch>>
    BY Received
  <1>2. LinkTypes /\ HostCounts /\ NcpCounts /\ EpochTypes /\ LinkCore
    BY LinkFacts
  <1>3. f.ack \in FrameNum /\ (IsData(f) => f.data \in Data)
    BY <1>1, UpFrame DEF IsData
  <1>4. /\ Out' = Out /\ Moves(Out', Out, 0)
        /\ (/\ Out \in Seq(DownFrames) /\ toNcp \in Seq(DownFrames)
            /\ Writing => txFrame \in DownFrames)'
    BY <1>1, <1>2, OutSame
  <1>5. HostGets(f)
    <2>1. CASE UNCHANGED <<frmRx, rxQueue>>
      BY <2>1, Received DEF HostGets
    <2>2. CASE /\ IsData(f) /\ f.frm = frmRx
               /\ frmRx' = Inc(frmRx) /\ rxQueue' = Append(rxQueue, f.data)
      <3>1. rxQueue \in Seq(Data)
        BY DEF IInv, TypeOK, QueueTypes
      <3> HIDE DEF f
      <3>2. rxQueue' # rxQueue
        <4>1. Len(Append(rxQueue, f.data)) = Len(rxQueue) + 1 /\ Len(rxQueue) \in Nat
          BY <1>3, <2>2, <3>1, AppendAt
        <4> QED BY <2>2, <4>1
      <3>3. hostGot' = Append(hostGot, f.data)
        BY <3>2, Received DEF f
      <3> QED BY <2>2, <3>3 DEF HostGets
    <2> QED BY <2>1, <2>2
  <1>6. LinkTypes'
    <2>1. hostGot' \in Seq(Data)
      <3>1. hostGot \in Seq(Data)
        BY <1>2 DEF LinkTypes
      <3> HIDE DEF f
      <3> QED BY <1>3, <1>5, <3>1, AppendAt DEF HostGets
    <2> QED BY <1>1, <1>2, <1>4, <2>1 DEF LinkTypes, ncpVars
  <1>7. NcpCounts' /\ UNCHANGED NcpSide /\ UNCHANGED epoch
    BY <1>1, <1>2, NcpSame
  <1>8. EpochTypes'
    BY <1>1, <1>2, <1>6, <1>7, EpochMoves
  <1>9. Scrubs /\ ackRx' = f.ack
    BY <1>3, AckScrubs
  <1>10. LinkUp /\ Session(0) => Session(0)'
    BY <1>1, <1>2, <1>4, <1>5, <1>6, <1>7, <1>9, SessionAck
  <1>11. Dist(ackRx', frmTx) <= Dist(ackRx, frmTx)
    <2>1. ackRx \in FrameNum /\ frmTx \in FrameNum
      BY Counts, <1>2
    <2>2. WithinRange(ackRx, ackRx', frmTx)
      BY <1>9 DEF AckNumOk
    <2> QED BY <1>3, <1>9, <2>1, <2>2, DistSplit
  <1>12. HostCounts'
    <2>1. UNCHANGED HostTx /\ HostTx \in Nat /\ TxK \in Nat /\ ackRx \in FrameNum
          /\ frmTx \in FrameNum
      BY <1>1, <1>2, Counts DEF HostTx
    <2>2. (/\ Len(reTxQueue) <= HostTx
           /\ \A i \in 1 .. Len(reTxQueue) : reTxQueue[i] = HostTx - Len(reTxQueue) + i)'
      BY <1>2, <1>9, <2>1, ScrubsCounts
    <2>3. frmRx' = Len(hostGot') % Modulus
      <3>1. CASE UNCHANGED <<hostGot, frmRx>>
        BY <1>2, <3>1 DEF HostCounts
      <3>2. CASE hostGot' = Append(hostGot, f.data) /\ frmRx' = Inc(frmRx) /\ IsData(f)
        <4>1. Len(hostGot') = Len(hostGot) + 1 /\ Len(hostGot) \in Nat
          <5>1. hostGot \in Seq(Data)
            BY <1>2 DEF LinkTypes
          <5> HIDE DEF f
          <5> QED BY <1>3, <3>2, <5>1, AppendAt
        <4> QED BY <1>2, <3>2, <4>1, ModInc DEF HostCounts
      <3> QED BY <1>5, <3>1, <3>2 DEF HostGets
    <2>4. Dist(ackRx', frmTx) <= TxK /\ Dist(ackRx', frmTx) <= HostTx
      <3>1. Dist(ackRx', frmTx) \in Nat /\ Dist(ackRx, frmTx) \in Nat
        BY <1>3, <1>9, <2>1, DistType
      <3>2. Dist(ackRx, frmTx) <= TxK /\ Dist(ackRx, frmTx) <= HostTx
        BY <1>2 DEF HostCounts
      <3> QED BY <1>11, <2>1, <3>1, <3>2
    <2> QED BY <1>1, <1>2, <2>1, <2>2, <2>3, <2>4 DEF HostCounts
  <1>13. LinkCore'
    <2>1. TokensKept(0, 1)
      BY <1>2, <1>4, <1>1, <1>6, MovesToken DEF TokensKept
    <2>2. Calm
      BY <1>1, <1>7 DEF Calm
    <2> QED BY <1>2, <1>6, <1>10, <2>1, <2>2, ConnectedStep
  <1> QED BY <1>6, <1>7, <1>8, <1>12, <1>13 DEF LinkInv, LinkCore


\* The answer to RST: what waited for it is the session now.
LEMMA ConnectLink ==
  ASSUME IInv, LinkInv, HostReceives, Head(toHost).type = "RSTACK",
         ReceiveRstAck(TRUE, Head(toHost).reason)
  PROVE  LinkInv'
  <1> DEFINE f == Head(toHost)
  <1>1. /\ toHost # <<>> /\ toHost' = Tail(toHost) /\ f \in UpFrames /\ f = toHost[1]
        /\ Len(toHost) \in Nat /\ 1 \in 1 .. Len(toHost)
        /\ toHost' \in Seq(UpFrames) /\ Moves(toHost', toHost, 1)
        /\ UNCHANGED <<ncpVars, hostSent, starts, toNcp, faults>>
    BY Received
  <1>2. /\ LinkTypes /\ HostCounts /\ NcpCounts /\ EpochTypes /\ FirstInv /\ WaitInv
        /\ SessionInv
    BY LinkFacts
  <1>3. /\ starting /\ ~Connected /\ flags' = {"CONNECTED", "ACK"} /\ Connected'
        /\ f.reason = "SOFTWARE"
        /\ UNCHANGED <<sendVars, ackRx, frmTx, frmRx, txQueue, reTxQueue, rxQueue>>
    BY AshLinkAssumption
    DEF ReceiveRstAck, CanReceive, Connected, ReasonMatches, AshLinkAssumption
  <1>4. hostEpoch' = f.epoch /\ UNCHANGED hostGot
    BY <1>3, Received
  <1>5. UNCHANGED HostSide /\ Scrubs
    BY <1>1, <1>3, <1>4 DEF HostSide, Scrubs
  <1>6. /\ Out' = Out /\ Moves(Out', Out, 0)
        /\ (/\ Out \in Seq(DownFrames) /\ toNcp \in Seq(DownFrames)
            /\ Writing => txFrame \in DownFrames)'
    BY <1>1, <1>2, <1>3, OutSame
  <1>7. LinkTypes'
    BY <1>1, <1>2, <1>4, <1>6 DEF LinkTypes, ncpVars
  <1>8. NcpCounts' /\ UNCHANGED NcpSide /\ UNCHANGED epoch
    BY <1>1, <1>2, NcpSame
  <1>9. HostCounts'
    BY <1>2, <1>5, SideCounts
  <1>10. f.epoch \in Nat /\ f.epoch <= epoch
    <2>1. f.epoch \in Nat
      BY <1>1 DEF UpFrames, DataFrames, AckFrames, RstAckFrames, ErrorFrame, BadFrames
    <2> QED BY <1>1, <1>2, <2>1 DEF EpochTypes
  <1>11. EpochTypes'
    <2>1. Len(toHost') \in Nat
      BY <1>7 DEF LinkTypes
    <2>2. ASSUME NEW k \in 1 .. Len(toHost'), toHost'[k].type = "RSTACK"
          PROVE  toHost'[k].epoch <= epoch
      <3>1. toHost'[k] = toHost[k + 1] /\ k + 1 \in 1 .. Len(toHost)
        BY <1>1, <2>1, <2>2 DEF Moves
      <3> QED BY <1>2, <2>2, <3>1 DEF EpochTypes
    <2> QED BY <1>1, <1>2, <1>4, <1>8, <1>10, <2>2 DEF EpochTypes
  <1>12. TokensKept(0, 1)
    BY <1>1, <1>2, <1>3, <1>6, <1>7, MovesToken DEF TokensKept
  <1>13. SoftUp(1)
    BY <1>1, <1>3 DEF SoftUp, Soft
  <1>14. FirstInv'
    <2>1. starts # 0
      BY <1>2, <1>3 DEF FirstInv
    <2>2. ASSUME starts <= 1 PROVE OneToken' /\ ~Token'
      <3>1. OneToken /\ OneToken'
        BY <1>2, <1>12, <2>2, TokensStep DEF FirstInv
      <3>2. \A k \in Nat : ~RstOut(k)'
        <4>1. \A k \in Nat : RstOut(k)' => RstOut(k + 0) /\ k + 0 \in Nat
          BY <1>12 DEF TokensKept
        <4> QED BY <1>13, <3>1, <4>1 DEF OneToken
      <3>3. ASSUME NEW k \in Nat, SoftUp(k)' PROVE FALSE
        <4>1. SoftUp(k + 1) /\ k + 1 \in Nat /\ k >= 1
          BY <1>7, <1>12, <3>3 DEF TokensKept, SoftUp, LinkTypes
        <4>2. k + 1 = 1
          BY <1>13, <3>1, <4>1 DEF OneToken
        <4> QED BY <4>1, <4>2
      <3> QED BY <1>3, <3>1, <3>2, <3>3 DEF Token
    <2> QED BY <1>1, <2>1, <2>2 DEF FirstInv
  <1>15. WaitInv'
    BY <1>3 DEF WaitInv, Waits
  <1>16. ASSUME NEW n \in Nat, Present(n)' PROVE Session(n)'
    <2>1. n = 0 /\ LinkUp'
      BY <1>3, <1>16 DEF Present, Waits
    <2>2. Present(1)
      BY <1>1, <1>3, <1>4, <1>8, <1>13, <2>1 DEF Present, Waits, LinkUp
    <2>3. Session(1)
      BY <1>2, <2>2 DEF SessionInv
    <2>4. 0 \in Nat /\ 1 \in Nat /\ 1 <= 0 + 1
      OBVIOUS
    <2> QED BY <1>1, <1>2, <1>5, <1>6, <1>7, <1>8, <2>1, <2>3, <2>4, SessionMoves
  <1> QED BY <1>7, <1>8, <1>9, <1>11, <1>14, <1>15, <1>16 DEF LinkInv, SessionInv

LEMMA HostReceivesLink ==
  ASSUME IInv, LinkInv, HostReceives
  PROVE  LinkInv'
  <1> DEFINE f == Head(toHost)
  <1>1. \/ HostIgnores(f)
        \/ f.type = "DATA" /\ ReceiveData(f)
        \/ f.type = "ACK" /\ ReceiveAck(f.ack)
        \/ f.type = "NAK" /\ ReceiveNak(f.ack)
        \/ /\ f.type \in {"ACK", "NAK"} /\ Connected /\ ~AckNumOk(f.ack)
           /\ ReceiveBad(FALSE)
        \/ f.type = "BAD" /\ Connected /\ ReceiveBad(f.isData)
        \/ f.type = "RSTACK" /\ ReceiveRstAck(TRUE, f.reason)
        \/ f.type = "RSTACK" /\ ReceiveReset
        \/ f.type = "ERROR" /\ ReceiveError
    BY DEF HostReceives
  <1>2. CASE ReceiveIgnored
    <2>1. HostCalm /\ UNCHANGED <<txQueue, ackRx, frmTx, frmRx, rxQueue, reTxQueue, sendVars>>
      BY <1>2 DEF ReceiveIgnored, HostCalm, Connected, Waits, Fresh
    <2> QED BY <2>1, PassedOverLink
  <1>3. ASSUME NEW isData, ReceiveBad(isData) PROVE LinkInv'
    <2>1. HostCalm /\ UNCHANGED <<txQueue, ackRx, frmTx, frmRx, rxQueue, reTxQueue, sendVars>>
      BY <1>3 DEF ReceiveBad, Reject, HostCalm, Connected, Waits, Fresh
    <2> QED BY <2>1, PassedOverLink
  <1>4. CASE ReceiveBadAckNum(f)
    <2>1. HostCalm /\ UNCHANGED <<txQueue, ackRx, frmTx, frmRx, rxQueue, reTxQueue, sendVars>>
      BY <1>4 DEF ReceiveBadAckNum, DataTurn, Reject, HostCalm, Connected, Waits, Fresh
    <2> QED BY <2>1, PassedOverLink
  <1>5. CASE ReceiveReset
    <2>1. HostCalm /\ UNCHANGED <<txQueue, ackRx, frmTx, frmRx, rxQueue, reTxQueue, sendVars>>
      BY <1>5 DEF ReceiveReset, HostCalm, Connected, Waits, Fresh
    <2> QED BY <2>1, PassedOverLink
  <1>6. CASE ReceiveError
    <2>1. HostCalm /\ UNCHANGED <<txQueue, ackRx, frmTx, frmRx, rxQueue, reTxQueue, sendVars>>
      BY <1>6 DEF ReceiveError, HostCalm, Connected, Waits, Fresh
    <2> QED BY <2>1, PassedOverLink
  <1>7. CASE f.type = "ACK" /\ ReceiveAck(f.ack)
    BY <1>7, AckTakenLink DEF ReceiveAck, HasAck, Connected
  <1>8. CASE f.type = "NAK" /\ ReceiveNak(f.ack)
    BY <1>8, AckTakenLink DEF ReceiveNak, HasAck, Connected
  <1>9. CASE f.type = "DATA" /\ ReceiveInSequence(f)
    BY <1>9, AckTakenLink DEF ReceiveInSequence, DataTurn, HasAck, IsData, Connected
  <1>10. CASE f.type = "DATA" /\ ReceiveNoBuffer(f)
    BY <1>10, AckTakenLink DEF ReceiveNoBuffer, Reject, DataTurn, HasAck, IsData, Connected
  <1>11. CASE f.type = "DATA" /\ ReceiveOutOfSequence(f)
    BY <1>11, AckTakenLink DEF ReceiveOutOfSequence, Reject, DataTurn, HasAck, IsData, Connected
  <1>12. CASE f.type = "RSTACK" /\ ReceiveRstAck(TRUE, f.reason)
    BY <1>12, ConnectLink
  <1> QED BY <1>1, <1>2, <1>3, <1>4, <1>5, <1>6, <1>7, <1>8, <1>9, <1>10, <1>11, <1>12
          DEF HostIgnores, ReceiveData

-----------------------------------------------------------------------------
(* The host starts.                                                        *)

\* What is left of a start before this one
LEMMA LeftWaits ==
  ASSUME LinkInv, starts <= 1, Token
  PROVE  Waits /\ Fresh /\ MuteAfterRst
  <1>1. starts \in Nat /\ FirstInv /\ WaitInv
    BY LinkFacts DEF EpochTypes
  <1>2. starts # 0 /\ ~Connected
    BY <1>1 DEF FirstInv
  <1> QED BY <1>1, <1>2 DEF Waits, WaitInv

LEMMA FreshSide ==
  ASSUME IInv, LinkInv, Fresh
  PROVE  HostSide = << <<>>, 0, <<>>, 0, 0, 0 >>
  <1>1. LinkTypes /\ HostCounts /\ txQueue \in Seq(Data)
    BY LinkFacts DEF IInv, TypeOK, QueueTypes
  <1>2. hostGot = <<>> /\ hostSent = 0 /\ ackRx = 0
    BY DEF Fresh
  <1>3. Len(txQueue) = 0 /\ txQueue = <<>>
    BY <1>1, <1>2 DEF HostCounts
  <1>4. frmTx = 0 /\ frmRx = 0
    BY <1>1, <1>2, <1>3, NothingCounted DEF HostCounts, HostTx
  <1> QED BY <1>2, <1>3, <1>4 DEF HostSide

LEMMA HostStartLink ==
  ASSUME IInv, LinkInv, HostStart, starts <= 1
  PROVE  LinkInv'
  <1>1. /\ LinkTypes /\ NcpCounts /\ EpochTypes /\ FirstInv /\ SessionInv
        /\ toHost \in Seq(UpFrames) /\ Len(toHost) \in Nat
    BY LinkFacts DEF LinkTypes
  <1>2. /\ ~starting /\ flags' = {"RST", "CAN"} /\ starting' /\ ~Connected' /\ ~Writing'
        /\ sendState' = "IDLE" /\ ackTx' = 0 /\ reTxQueue' = <<>>
        /\ HostSide' = << <<>>, 0, <<>>, 0, 0, 0 >>
        /\ starts' = starts + 1 /\ hostEpoch' = 0
        /\ UNCHANGED <<ncpVars, toNcp, faults>>
    BY AshLinkAssumption
    DEF HostStart, Start, InitVariables, AshLinkAssumption, Connected, Writing, HostSide
  <1>3. PICK b \in Nat : toHost' \in Seq(UpFrames) /\ Moves(toHost', toHost, b)
    <2>1. PICK b \in 0 .. Len(toHost) : toHost' = SubSeq(toHost, b + 1, Len(toHost))
      BY <1>1 DEF HostStart
    <2>2. /\ toHost' \in Seq(UpFrames) /\ Len(toHost') = Len(toHost) - b
          /\ \A k \in 1 .. Len(toHost') : toHost'[k] = toHost[k + b]
      <3> DEFINE new == SubSeq(toHost, b + 1, Len(toHost))
      <3>1. /\ new \in Seq(UpFrames) /\ Len(new) = Len(toHost) - b
            /\ \A k \in 1 .. Len(new) : new[k] = toHost[k + b]
        BY <1>1
      <3> QED BY <2>1, <3>1
    <2>3. Moves(toHost', toHost, b) /\ b \in Nat
      BY <1>1, <2>2 DEF Moves
    <2> QED BY <2>2, <2>3
  <1>4. /\ Moves(Out', Out, 0)
        /\ (/\ Out \in Seq(DownFrames) /\ toNcp \in Seq(DownFrames)
            /\ Writing => txFrame \in DownFrames)'
    BY <1>1, <1>2, OutDropped
  <1>14. (/\ hostGot = <<>> /\ hostSent = 0 /\ txQueue = <<>> /\ ackRx = 0
          /\ frmTx = 0 /\ frmRx = 0)'
    BY <1>2 DEF HostSide
  <1>5. LinkTypes'
    <2>1. (hostGot \in Seq(Data) /\ hostSent \in Nat /\ 1 .. hostSent \subseteq Data)'
      BY <1>14
    <2> QED BY <1>1, <1>2, <1>3, <1>4, <2>1 DEF LinkTypes, ncpVars
  <1>6. NcpCounts' /\ UNCHANGED NcpSide /\ UNCHANGED epoch
    BY <1>1, <1>2, NcpSame
  <1>7. HostCounts'
    <2>1. HostTx' = 0
      <3>1. Len(<< >>) = 0 /\ 0 - 0 = 0
        OBVIOUS
      <3>2. HostTx' = hostSent' - Len(txQueue')
        BY DEF HostTx
      <3>3. hostSent' = 0 /\ Len(txQueue') = 0
        BY <1>14, <3>1
      <3> QED BY <3>2, <3>3
    <2>2. TxK \in Nat
      BY AshHostAssumption DEF AshHostAssumption
    <2>3. Dist(0, 0) = 0
      BY DEF Dist
    <2> QED BY <1>2, <1>14, <2>1, <2>2, <2>3, NothingCounted DEF HostCounts
  <1>8. EpochTypes'
    <2>1. ASSUME NEW k \in 1 .. Len(toHost'), toHost'[k].type = "RSTACK"
          PROVE  toHost'[k].epoch <= epoch
      <3>1. Len(toHost') \in Nat /\ k \in Nat /\ k >= 1
        BY <1>3
      <3>2. toHost'[k] = toHost[k + b] /\ k + b \in 1 .. Len(toHost)
        BY <1>1, <1>3, <2>1, <3>1 DEF Moves
      <3> QED BY <1>1, <2>1, <3>2 DEF EpochTypes
    <2> QED BY <1>1, <1>2, <1>6, <2>1 DEF EpochTypes
  <1>9. /\ \A k \in Nat : RstOut(k)' => RstOut(k)
        /\ \A k \in Nat : SoftUp(k)' => SoftUp(k + b) /\ toHost'[k] = toHost[k + b]
    <2>1. \A k \in Nat : RstOut(k)' => RstOut(k + 0) /\ k + 0 = k
      BY <1>1, <1>4, <1>5, MovesToken
    <2> QED BY <1>1, <1>3, <1>5, <2>1, MovesToken
  <1>10. FirstInv'
    <2>1. starts' # 0 /\ (starts' <= 1 => starts = 0)
      BY <1>1, <1>2 DEF EpochTypes
    <2>2. ASSUME starts = 0 PROVE OneToken'
      <3>1. ~Token
        BY <1>1, <2>2 DEF FirstInv
      <3>2. \A k \in Nat : ~RstOut(k)' /\ ~SoftUp(k)'
        <4>1. \A k \in Nat : k + b \in Nat
          OBVIOUS
        <4> QED BY <1>9, <3>1, <4>1 DEF Token
      <3> QED BY <3>2 DEF OneToken
    <2> QED BY <1>2, <2>1, <2>2 DEF FirstInv
  <1>11. MuteAfterRst'
    <2>1. CASE Token
      BY <1>1, <1>4, <1>5, <2>1, LeftWaits, MovesMute
    <2>2. CASE ~Token
      <3>1. Len(Out') \in Nat
        BY <1>5 DEF LinkTypes
      <3>2. ASSUME NEW j \in 1 .. Len(Out'), Out'[j] = RstFrame PROVE FALSE
        <4>1. j \in Nat /\ RstOut(j)'
          BY <3>1, <3>2 DEF RstOut
        <4> QED BY <1>9, <2>2, <4>1 DEF Token
      <3> QED BY <3>2 DEF MuteAfterRst
    <2> QED BY <2>1, <2>2
  <1>12. Fresh'
    BY <1>2, <1>14 DEF Fresh
  <1>13. ASSUME NEW n \in Nat, Present(n)' PROVE Session(n)'
    <2>1. SoftUp(n)' /\ toHost'[n].epoch = epoch
      BY <1>2, <1>6, <1>13 DEF Present, LinkUp
    <2>2. n + b \in Nat /\ n + b <= n + b /\ SoftUp(n + b) /\ toHost[n + b].epoch = epoch
      BY <1>9, <2>1
    <2>3. Token
      BY <2>2 DEF Token
    <2>4. Waits /\ Fresh
      BY <2>3, LeftWaits
    <2>5. Session(n + b)
      BY <1>1, <2>2, <2>4 DEF SessionInv, Present
    <2>6. UNCHANGED HostSide
      BY <1>2, <2>4, FreshSide
    <2> QED BY <1>1, <1>3, <1>4, <1>5, <1>6, <2>2, <2>5, <2>6, SessionMoves
  <1> QED BY <1>5, <1>6, <1>7, <1>8, <1>10, <1>11, <1>12, <1>13 DEF LinkInv, WaitInv, SessionInv

-----------------------------------------------------------------------------
(* The NCP sends, and its timer expires.                                   *)

\* The host stands by.
LEMMA HostStands ==
  ASSUME LinkInv, UNCHANGED <<vars, hostGhosts>>
  PROVE  /\ LinkTypes /\ EpochTypes /\ HostCounts /\ NcpCounts /\ LinkCore
         /\ WaitInv /\ FirstInv /\ SessionInv
         /\ HostCounts' /\ UNCHANGED HostSide
         /\ UNCHANGED <<flags, starting, Connected, starts, hostEpoch, sendVars>>
         /\ (Fresh => Fresh')
  <1>1. /\ UNCHANGED HostSide
        /\ UNCHANGED <<flags, starting, Connected, starts, hostEpoch, sendVars, ackTx, reTxQueue>>
    BY DEF vars, hostGhosts, HostSide, Connected
  <1>2. HostCounts /\ HostCounts'
    <2>1. UNCHANGED HostTx
      BY <1>1 DEF HostTx, HostSide
    <2> QED BY <1>1, <2>1, LinkFacts DEF HostCounts, HostSide
  <1>3. Fresh => Fresh'
    BY <1>1 DEF Fresh, HostSide
  <1> QED BY <1>1, <1>2, <1>3, LinkFacts

LEMMA NcpSendsLink ==
  ASSUME IInv, LinkInv, NEW f \in UpFrames, f.type # "RSTACK", toHost' \in Put(toHost, f),
         faults' \in Nat, NcpCounts',
         UNCHANGED <<vars, hostGhosts, toNcp, ncpGot, nAckRx, nFrmRx, epoch>>,
         ncpSent' \in Nat, 1 .. ncpSent' \subseteq Data,
         ncpSent <= ncpSent', NcpAcked' = NcpAcked,
         HasAck(f) => f.ack = nFrmRx,
         IsData(f) => /\ f.data \in 1 .. ncpSent' /\ f.frm = (f.data - 1) % Modulus
                      /\ ncpSent <= f.data - 1 + NcpTxK
  PROVE  LinkInv'
  <1>1. /\ LinkTypes /\ EpochTypes /\ HostCounts /\ NcpCounts /\ FirstInv /\ WaitInv
        /\ SessionInv /\ HostCounts' /\ UNCHANGED HostSide
        /\ UNCHANGED <<flags, starting, Connected, starts, hostEpoch, sendVars>>
        /\ (Fresh => Fresh')
    BY HostStands
  <1>2. /\ toHost \in Seq(UpFrames) /\ Len(toHost) \in Nat
    BY <1>1 DEF LinkTypes
  <1>3. /\ Out' = Out /\ Moves(Out', Out, 0)
        /\ (/\ Out \in Seq(DownFrames) /\ toNcp \in Seq(DownFrames)
            /\ Writing => txFrame \in DownFrames)'
    BY <1>1, OutSame
  <1>4. LinkTypes'
    <2>1. toHost' \in Seq(UpFrames)
      BY <1>2, PutLine
    <2> QED BY <1>1, <1>2, <1>3, <2>1 DEF LinkTypes, hostGhosts
  <1>5. EpochTypes'
    <2>1. ASSUME NEW k \in 1 .. Len(toHost'), toHost'[k].type = "RSTACK"
          PROVE  toHost'[k].epoch <= epoch
      <3>1. toHost' = toHost \/ \E g \in UpFrames : toHost' = Append(toHost, g)
                                                      /\ g.type # "RSTACK"
        BY <1>2, PutLine
      <3>2. k \in 1 .. Len(toHost) /\ toHost'[k] = toHost[k]
        BY <1>2, <2>1, <3>1, AppendAt
      <3> QED BY <1>1, <2>1, <3>2 DEF EpochTypes
    <2> QED BY <1>1, <2>1 DEF EpochTypes
  <1>6. TokensKept(0, 0)
    <2>1. \A k \in Nat : SoftUp(k)' => SoftUp(k) /\ toHost'[k] = toHost[k]
      BY <1>1, <1>2, PutToken DEF Soft
    <2>2. \A k \in Nat : k + 0 = k
      OBVIOUS
    <2> QED BY <1>1, <1>3, <2>1, <2>2 DEF TokensKept, RstOut
  <1>7. /\ FirstInv' /\ (Waits' => Waits)
        /\ \A n \in Nat : Present(n)' => Present(n)
    <2>1. Calm
      BY <1>1 DEF Calm
    <2>2. \A n \in Nat : n + 0 = n
      OBVIOUS
    <2> QED BY <1>1, <1>6, <2>1, <2>2, CalmStep
  <1>8. WaitInv'
    BY <1>1, <1>3, <1>4, <1>7, MovesMute DEF WaitInv
  <1>9. ASSUME NEW n \in Nat, Present(n)' PROVE Session(n)'
    <2>1. Session(n)
      BY <1>1, <1>7, <1>9 DEF SessionInv
    <2>2. IsData(f) => Len(hostGot) <= f.data - 1 + NcpTxK
      <3>1. /\ Len(hostGot) <= ncpSent /\ Len(hostGot) \in Nat /\ ncpSent \in Nat
            /\ ncpSent' \in Nat /\ NcpTxK \in Nat
        BY <1>1, <2>1, Counts DEF Session, Up, Delivered
      <3> QED BY <3>1
    <2> QED BY <1>1, <1>2, <1>3, <1>4, <2>1, <2>2, SessionPut
            DEF NcpCounts, IInv, TypeOK, NumberTypes
  <1> QED BY <1>1, <1>4, <1>5, <1>7, <1>8, <1>9 DEF LinkInv, SessionInv

LEMMA NcpSendsAckLink ==
  ASSUME IInv, LinkInv, NcpSendsAck, UNCHANGED vars
  PROVE  LinkInv'
  <1> DEFINE f == [type |-> IF nNakDue THEN "NAK" ELSE "ACK", ack |-> nFrmRx]
  <1>1. /\ toHost' \in Put(toHost, f) /\ faults' \in Nat
        /\ UNCHANGED <<ncpNumbers, ncpGot, ncpSent, epoch, toNcp, hostGhosts>>
    BY LinkFacts DEF NcpSendsAck, NcpSends, CountFault, LinkTypes
  <1>2. NcpCounts /\ NcpCounts' /\ LinkTypes
    BY <1>1, LinkFacts DEF NcpCounts, ncpNumbers
  <1>3. /\ f \in UpFrames /\ f.type # "RSTACK" /\ ~IsData(f) /\ f.ack = nFrmRx
    BY <1>2 DEF UpFrames, AckFrames, NcpCounts, IsData
  <1>4. /\ ncpSent' \in Nat /\ 1 .. ncpSent' \subseteq Data /\ ncpSent <= ncpSent'
        /\ NcpAcked' = NcpAcked
    BY <1>1, <1>2 DEF LinkTypes, NcpAcked, ncpNumbers
  <1>5. UNCHANGED <<vars, hostGhosts, toNcp, ncpGot, nAckRx, nFrmRx, epoch>>
    BY <1>1 DEF ncpNumbers
  <1> HIDE DEF f
  <1> QED BY <1>1, <1>2, <1>3, <1>4, <1>5, NcpSendsLink

LEMMA NcpFailsLink ==
  ASSUME IInv, LinkInv, NcpFails, UNCHANGED vars
  PROVE  LinkInv'
  <1>1. /\ toHost' \in Put(toHost, ErrorFrame) /\ faults' \in Nat
        /\ UNCHANGED <<ncpNumbers, ncpGot, ncpSent, epoch, toNcp, hostGhosts>>
    BY LinkFacts DEF NcpFails, ErrorFrame, NcpSends, CountFault, LinkTypes
  <1>2. NcpCounts /\ NcpCounts' /\ LinkTypes
    BY <1>1, LinkFacts DEF NcpCounts, ncpNumbers
  <1>3. /\ ErrorFrame \in UpFrames /\ ErrorFrame.type # "RSTACK" /\ ~IsData(ErrorFrame)
        /\ ~HasAck(ErrorFrame)
    BY DEF UpFrames, ErrorFrame, IsData, HasAck
  <1>4. /\ ncpSent' \in Nat /\ 1 .. ncpSent' \subseteq Data /\ ncpSent <= ncpSent'
        /\ NcpAcked' = NcpAcked
    BY <1>1, <1>2 DEF LinkTypes, NcpAcked, ncpNumbers
  <1> QED BY <1>1, <1>2, <1>3, <1>4, NcpSendsLink DEF ncpNumbers

\* The number of the frame it sends next is that of its place in the traffic.
LEMMA NcpSendsDataLink ==
  ASSUME IInv, LinkInv, NcpSendsData, UNCHANGED vars
  PROVE  LinkInv'
  <1> DEFINE new == nReTx = nFrmTx
             d == Dist(nReTx, nFrmTx)
             w == Dist(nAckRx, nFrmTx)
             i == ncpSent + 1 - d
             f == [type |-> "DATA", frm |-> nReTx, ack |-> nFrmRx, r |-> ~new, data |-> i]
  <1>1. /\ IF new THEN /\ ncpSent < NcpLimit /\ w < NcpTxK
                       /\ nFrmTx' = Inc(nFrmTx) /\ ncpSent' = ncpSent + 1
                  ELSE UNCHANGED <<nFrmTx, ncpSent>>
        /\ toHost' \in Put(toHost, f) /\ faults' \in Nat /\ nReTx' = Inc(nReTx)
        /\ UNCHANGED <<vars, hostGhosts, toNcp, ncpGot, nAckRx, nFrmRx, epoch>>
    BY LinkFacts DEF NcpSendsData, NcpSends, CountFault, LinkTypes
  <1>2. /\ LinkTypes /\ HostCounts /\ NcpCounts /\ ncpSent \in Nat /\ 1 .. ncpSent \subseteq Data
        /\ nFrmRx \in FrameNum /\ nFrmTx \in FrameNum /\ nAckRx \in FrameNum
        /\ nReTx \in FrameNum /\ nFrmTx = ncpSent % Modulus
        /\ WithinRange(nAckRx, nReTx, nFrmTx) /\ w <= NcpTxK /\ w <= ncpSent
    BY LinkFacts DEF LinkTypes, NcpCounts
  <1>3. /\ d \in Nat /\ w \in Nat /\ d <= w /\ (d = 0 <=> new)
        /\ NcpTxK \in Nat /\ Modulus \in Nat /\ NcpTxK < Modulus
    BY <1>2, DistType, DistZero, DistSplit, Counts
  <1>4. /\ ncpSent' \in Nat /\ 1 .. ncpSent' \subseteq Data /\ ncpSent <= ncpSent'
        /\ i \in 1 .. ncpSent' /\ ncpSent <= i - 1 + NcpTxK
        /\ ncpSent' = (IF new THEN ncpSent + 1 ELSE ncpSent)
    <2>1. CASE new
      <3>1. \/ NcpLimit = NcpMsgs /\ NcpMsgs \in Nat /\ 1 .. NcpMsgs \subseteq Data
            \/ NcpLimit = ResetNcpMsgs /\ ResetNcpMsgs \in Nat /\ 1 .. ResetNcpMsgs \subseteq Data
        BY AshLinkAssumption DEF AshLinkAssumption, NcpLimit
      <3>2. ncpSent < NcpLimit /\ ncpSent' = ncpSent + 1
        BY <1>1, <2>1
      <3>3. d = 0
        BY <1>3, <2>1
      <3> HIDE DEF d, new
      <3> QED BY ONLY <1>2, <1>3, <2>1, <3>1, <3>2, <3>3
    <2>2. CASE ~new
      <3>1. ncpSent' = ncpSent /\ d # 0
        BY <1>1, <1>3, <2>2
      <3> HIDE DEF d, new, w
      <3> QED BY ONLY <1>2, <1>3, <2>2, <3>1
    <2> QED BY <2>1, <2>2
  <1>5. nReTx = (i - 1) % Modulus
    <2>1. d <= ncpSent /\ i - 1 = ncpSent - d
      <3> HIDE DEF d, w
      <3> QED BY <1>2, <1>3
    <2>2. nReTx = (ncpSent - d) % Modulus
      BY <1>2, <2>1, ModBack
    <2> QED BY <2>1, <2>2
  <1>6. NcpCounts' /\ NcpAcked' = NcpAcked
    <2>1. Inc(nReTx) \in FrameNum /\ nReTx' \in FrameNum
      BY <1>1, <1>2, IncType
    <2>2. CASE new
      <3>1. /\ nFrmTx' = Inc(nFrmTx) /\ ncpSent' = ncpSent + 1 /\ nReTx' = nFrmTx'
            /\ w < NcpTxK
        BY <1>1, <2>2
      <3>2. nFrmTx' = ncpSent' % Modulus /\ nFrmTx' \in FrameNum
        BY <1>2, <2>1, <2>2, <3>1, ModInc
      <3>3. Dist(nAckRx, nFrmTx') = w + 1
        <4>1. w < Modulus - 1
          <5> HIDE DEF w
          <5> QED BY <1>3, <3>1
        <4> QED BY <1>2, <3>1, <4>1, DistInc
      <3>4. WithinRange(nAckRx, nReTx', nFrmTx')
        <4>1. Dist(nAckRx, nFrmTx') \in Nat
          BY <1>2, <3>2, DistType
        <4> QED BY <3>1, <4>1 DEF WithinRange
      <3>5. NcpCounts'
        <4>1. Dist(nAckRx, nFrmTx') <= NcpTxK /\ Dist(nAckRx, nFrmTx') <= ncpSent'
          <5> HIDE DEF w
          <5> QED BY <1>2, <1>3, <3>1, <3>3
        <4> QED BY <1>1, <1>2, <2>1, <3>2, <3>4, <4>1 DEF NcpCounts
      <3>6. NcpAcked' = NcpAcked
        <4>1. NcpAcked' = ncpSent' - Dist(nAckRx, nFrmTx') /\ NcpAcked = ncpSent - w
          BY <1>1 DEF NcpAcked
        <4> HIDE DEF w
        <4> QED BY <1>2, <1>3, <3>1, <3>3, <4>1
      <3> QED BY <3>5, <3>6
    <2>3. CASE ~new
      <3>1. UNCHANGED <<nFrmTx, ncpSent>>
        BY <1>1, <2>3
      <3>2. WithinRange(nAckRx, nReTx', nFrmTx)
        BY <1>1, <1>2, <2>3, IncWithin
      <3> QED BY <1>1, <1>2, <2>1, <3>1, <3>2 DEF NcpCounts, NcpAcked
    <2> QED BY <2>2, <2>3
  <1>7. f \in UpFrames /\ f.type = "DATA"
    <2>1. i \in Data
      BY <1>4
    <2> HIDE DEF i
    <2> QED BY <1>2, <2>1 DEF UpFrames, DataFrames
  <1>8. /\ f.data = i /\ f.frm = nReTx /\ f.ack = nFrmRx
    OBVIOUS
  <1> HIDE DEF f, i, d, w, new
  <1>9. /\ f.type # "RSTACK" /\ (HasAck(f) => f.ack = nFrmRx)
        /\ IsData(f) => /\ f.data \in 1 .. ncpSent' /\ f.frm = (f.data - 1) % Modulus
                       /\ ncpSent <= f.data - 1 + NcpTxK
    BY <1>4, <1>5, <1>7, <1>8
  <1> QED BY <1>1, <1>4, <1>6, <1>7, <1>9, NcpSendsLink

LEMMA NcpTimeoutLink ==
  ASSUME IInv, LinkInv, NcpTimeout, UNCHANGED vars
  PROVE  LinkInv'
  <1>1. /\ nReTx' = nAckRx /\ faults' \in Nat
        /\ UNCHANGED <<hostGhosts, toNcp, toHost, NcpSide, epoch>>
    <2>1. faults \in Nat
      BY LinkFacts DEF LinkTypes
    <2> QED BY <2>1 DEF NcpTimeout, Expires, NcpSide
  <1>2. /\ LinkTypes /\ EpochTypes /\ NcpCounts /\ LinkCore /\ HostCounts'
        /\ UNCHANGED HostSide /\ Len(toHost) \in Nat
        /\ UNCHANGED <<flags, starting, Connected, starts, hostEpoch, sendVars>>
        /\ (Fresh => Fresh')
    BY <1>1, HostStands DEF LinkTypes
  <1>3. /\ Out' = Out /\ Moves(Out', Out, 0)
        /\ (/\ Out \in Seq(DownFrames) /\ toNcp \in Seq(DownFrames)
            /\ Writing => txFrame \in DownFrames)'
    BY <1>1, <1>2, OutSame
  <1>4. LinkTypes' /\ Moves(toHost', toHost, 0)
    BY <1>1, <1>2, <1>3, MovesSame DEF LinkTypes, NcpSide, hostGhosts
  <1>5. NcpCounts'
    <2>1. Dist(nAckRx, nAckRx) = 0 /\ Dist(nAckRx, nFrmTx) \in Nat
      BY <1>2, DistSelf, DistType DEF NcpCounts
    <2>2. WithinRange(nAckRx, nAckRx, nFrmTx)
      BY <2>1 DEF WithinRange
    <2> QED BY <1>1, <1>2, <2>2 DEF NcpCounts, NcpSide
  <1>6. EpochTypes'
    BY <1>1, <1>2, <1>4, EpochMoves
  <1>7. Calm
    BY <1>1, <1>2 DEF Calm
  <1>8. LinkCore'
    BY <1>1, <1>2, <1>3, <1>4, <1>7, QuietStep
  <1> QED BY <1>2, <1>4, <1>5, <1>6, <1>8 DEF LinkInv, LinkCore

-----------------------------------------------------------------------------
(* The NCP receives.                                                       *)

LEMMA TailOut ==
  ASSUME NEW S, NEW line \in Seq(S), line # <<>>, NEW f \in S
  PROVE  /\ Tail(Append(line, f)) = Append(Tail(line), f)
         /\ Head(Append(line, f)) = Head(line) /\ Append(line, f) # <<>>
  OBVIOUS

LEMMA TakenOut ==
  ASSUME LinkTypes, UNCHANGED sendVars, toNcp # <<>>, toNcp' = Tail(toNcp)
  PROVE  /\ Out # <<>> /\ Out' = Tail(Out) /\ Head(Out) = Head(toNcp)
         /\ Head(Out) \in DownFrames /\ Head(Out) = Out[1] /\ 1 \in 1 .. Len(Out)
         /\ Moves(Out', Out, 1)
         /\ (/\ Out \in Seq(DownFrames) /\ toNcp \in Seq(DownFrames)
             /\ Writing => txFrame \in DownFrames)'
  <1>1. toNcp \in Seq(DownFrames) /\ Out \in Seq(DownFrames)
    BY DEF LinkTypes
  <1>2. UNCHANGED <<Writing, txFrame>>
    BY DEF Writing
  <1>3. Out # <<>> /\ Out' = Tail(Out) /\ Head(Out) = Head(toNcp)
    <2>1. CASE Writing
      <3>1. txFrame \in DownFrames
        BY <2>1 DEF LinkTypes
      <3> QED BY <1>1, <1>2, <2>1, <3>1, TailOut DEF Out
    <2>2. CASE ~Writing
      BY <1>2, <2>2 DEF Out
    <2> QED BY <2>1, <2>2
  <1>4. /\ Tail(toNcp) \in Seq(DownFrames) /\ Tail(Out) \in Seq(DownFrames)
    BY <1>1, <1>3, HeadFrame
  <1> QED BY <1>1, <1>2, <1>3, <1>4, HeadFrame, MovesTail DEF LinkTypes

\* A frame that the NCP does not accept
LEMMA NcpPassesLink ==
  ASSUME IInv, LinkInv, UNCHANGED <<vars, hostGhosts>>, toNcp # <<>>, toNcp' = Tail(toNcp),
         UNCHANGED <<ncpNumbers, ncpGot, ncpSent, epoch, toHost, faults>>
  PROVE  LinkInv'
  <1>1. /\ LinkTypes /\ EpochTypes /\ NcpCounts /\ LinkCore /\ HostCounts'
        /\ UNCHANGED HostSide /\ Len(toHost) \in Nat
        /\ UNCHANGED <<flags, starting, Connected, starts, hostEpoch, sendVars>>
        /\ (Fresh => Fresh')
    BY HostStands DEF LinkTypes
  <1>2. /\ Moves(Out', Out, 1)
        /\ (/\ Out \in Seq(DownFrames) /\ toNcp \in Seq(DownFrames)
            /\ Writing => txFrame \in DownFrames)'
    BY <1>1, TakenOut
  <1>3. LinkTypes' /\ Moves(toHost', toHost, 0)
    BY <1>1, <1>2, MovesSame DEF LinkTypes, hostGhosts
  <1>4. NcpCounts' /\ UNCHANGED NcpSide
    BY <1>1 DEF NcpCounts, NcpSide, ncpNumbers
  <1>5. EpochTypes'
    BY <1>1, <1>3, EpochMoves
  <1>6. Calm
    BY <1>1 DEF Calm
  <1>7. LinkCore'
    BY <1>1, <1>2, <1>3, <1>4, <1>6, QuietStep
  <1> QED BY <1>1, <1>3, <1>4, <1>5, <1>7 DEF LinkInv, LinkCore

LEMMA DownFrame ==
  ASSUME NEW f \in DownFrames, f # RstFrame, f.type # "BAD"
  PROVE  /\ HasAck(f) /\ f.ack \in FrameNum
         /\ f.type = "DATA" => f.frm \in FrameNum /\ f.data \in Data
  BY DEF DownFrames, DataFrames, ShortFrames, BadFrames, HasAck

LEMMA NcpAcceptLink ==
  ASSUME IInv, LinkInv, UNCHANGED <<vars, hostGhosts>>, toNcp # <<>>, toNcp' = Tail(toNcp),
         Head(toNcp) # RstFrame, Head(toNcp).type # "BAD",
         NcpAckOk(Head(toNcp).ack), NcpAccept(Head(toNcp)),
         UNCHANGED <<ncpSent, epoch, toHost, faults>>
  PROVE  LinkInv'
  <1> DEFINE f == Head(toNcp)
  <1>1. /\ LinkTypes /\ EpochTypes /\ HostCounts /\ NcpCounts /\ FirstInv /\ WaitInv
        /\ SessionInv /\ HostCounts' /\ UNCHANGED HostSide
        /\ UNCHANGED <<flags, starting, Connected, starts, hostEpoch, sendVars>>
        /\ (Fresh => Fresh') /\ Len(toHost) \in Nat
    BY HostStands DEF LinkTypes
  <1>2. /\ Out # <<>> /\ Out' = Tail(Out) /\ Head(Out) = f /\ f \in DownFrames
        /\ Moves(Out', Out, 1)
        /\ (/\ Out \in Seq(DownFrames) /\ toNcp \in Seq(DownFrames)
            /\ Writing => txFrame \in DownFrames)'
    BY <1>1, TakenOut
  <1>3. HasAck(f) /\ f.ack \in FrameNum /\ (f.type = "DATA" => f.data \in Data)
    BY <1>2, DownFrame
  <1>4. /\ nAckRx' = f.ack /\ UNCHANGED nFrmTx
        /\ nReTx' = IF f.type = "NAK" THEN f.ack ELSE NcpSkipTo(f.ack)
    BY DEF NcpAccept
  <1>5. NcpGets(f)
    BY DEF NcpAccept, NcpGets, IsData
  <1>6. LinkTypes'
    <2>1. ncpGot' \in Seq(Data)
      <3>1. ncpGot \in Seq(Data)
        BY <1>1 DEF LinkTypes
      <3> HIDE DEF f
      <3> QED BY <1>3, <1>5, <3>1, AppendAt DEF NcpGets, IsData
    <2> QED BY <1>1, <1>2, <2>1 DEF LinkTypes, hostGhosts
  <1>7. NcpCounts'
    <2>1. /\ nAckRx \in FrameNum /\ nReTx \in FrameNum /\ nFrmTx \in FrameNum
          /\ WithinRange(nAckRx, nReTx, nFrmTx) /\ WithinRange(nAckRx, f.ack, nFrmTx)
          /\ ncpSent \in Nat /\ NcpTxK \in Nat
      BY <1>1, Counts DEF NcpCounts, NcpAckOk
    <2>2. Dist(f.ack, nFrmTx) <= Dist(nAckRx, nFrmTx)
      BY <1>3, <2>1, DistSplit
    <2>3. Dist(f.ack, nFrmTx) <= NcpTxK /\ Dist(f.ack, nFrmTx) <= ncpSent
      <3>1. Dist(f.ack, nFrmTx) \in Nat /\ Dist(nAckRx, nFrmTx) \in Nat
        BY <1>3, <2>1, DistType
      <3>2. Dist(nAckRx, nFrmTx) <= NcpTxK /\ Dist(nAckRx, nFrmTx) <= ncpSent
        BY <1>1 DEF NcpCounts
      <3> QED BY <2>1, <2>2, <3>1, <3>2
    <2>4. nReTx' \in FrameNum /\ WithinRange(f.ack, nReTx', nFrmTx)
      <3>1. CASE nReTx' = f.ack
        <4>1. Dist(f.ack, f.ack) = 0 /\ Dist(f.ack, nFrmTx) \in Nat
          BY <1>3, <2>1, DistSelf, DistType
        <4> QED BY <1>3, <3>1, <4>1 DEF WithinRange
      <3>2. CASE nReTx' = nReTx /\ ~WithinRange(nReTx, f.ack, nFrmTx)
        BY <1>3, <2>1, <3>2, PastWithin
      <3> QED BY <1>4, <3>1, <3>2 DEF NcpSkipTo
    <2>5. nFrmRx' \in FrameNum /\ nFrmRx' = Len(ncpGot') % Modulus
      <3>1. CASE UNCHANGED <<ncpGot, nFrmRx>>
        BY <1>1, <3>1 DEF NcpCounts
      <3>2. CASE IsData(f) /\ ncpGot' = Append(ncpGot, f.data) /\ nFrmRx' = Inc(nFrmRx)
        <4>1. Len(ncpGot') = Len(ncpGot) + 1 /\ Len(ncpGot) \in Nat
          <5>1. ncpGot \in Seq(Data)
            BY <1>1 DEF LinkTypes
          <5> HIDE DEF f
          <5> QED BY <1>3, <3>2, <5>1, AppendAt DEF IsData
        <4>2. nFrmRx \in FrameNum /\ nFrmRx = Len(ncpGot) % Modulus
          BY <1>1 DEF NcpCounts
        <4> QED BY <3>2, <4>1, <4>2, ModInc, IncType
      <3> QED BY <1>5, <3>1, <3>2 DEF NcpGets
    <2> QED BY <1>1, <1>3, <1>4, <2>1, <2>3, <2>4, <2>5 DEF NcpCounts
  <1>8. EpochTypes' /\ Moves(toHost', toHost, 0)
    <2>1. Moves(toHost', toHost, 0)
      BY <1>1, MovesSame
    <2> QED BY <1>1, <1>6, <2>1, EpochMoves
  <1>9. /\ FirstInv' /\ (Waits' => Waits)
        /\ \A n \in Nat : Present(n)' => Present(n) \/ (n = 0 /\ Present(0))
    <2>1. Calm
      BY <1>1 DEF Calm
    <2>2. TokensKept(1, 0)
      BY <1>1, <1>2, <1>6, <1>8, MovesToken DEF TokensKept
    <2>3. \A n \in Nat : n + 0 = n
      OBVIOUS
    <2> QED BY <1>1, <2>1, <2>2, <2>3, CalmStep
  <1>10. WaitInv'
    BY <1>1, <1>2, <1>6, <1>9, MovesMute DEF WaitInv
  <1>11. ASSUME NEW n \in Nat, Present(n)' PROVE Session(n)'
    <2>1. Session(n)
      BY <1>1, <1>9, <1>11 DEF SessionInv
    <2> QED BY <1>1, <1>2, <1>3, <1>4, <1>5, <1>6, <2>1, SessionNcpAck
  <1> QED BY <1>1, <1>6, <1>7, <1>8, <1>9, <1>10, <1>11 DEF LinkInv, SessionInv

-----------------------------------------------------------------------------
(* The NCP resets.                                                         *)

\* The session that an answer to RST begins: the host has counted nothing, and
\* nothing that it sent after RST says anything.
LEMMA NewSession ==
  ASSUME IInv, LinkInv, LinkTypes', Waits, NEW n \in Nat, Len(toHost') <= n,
         Out # <<>>, Head(Out) = RstFrame, Out' = Tail(Out), UNCHANGED HostSide,
         ncpGot' = <<>>, ncpSent' = 0, nAckRx' = 0, nFrmTx' = 0
  PROVE  Session(n)'
  <1>1. Fresh /\ MuteAfterRst
    BY LinkFacts DEF WaitInv
  <1>2. (/\ hostGot = <<>> /\ hostSent = 0 /\ txQueue = <<>> /\ ackRx = 0
         /\ frmTx = 0 /\ frmRx = 0)'
    BY <1>1, FreshSide DEF HostSide
  <1>3. Len(<< >>) = 0 /\ Dist(0, 0) = 0
    BY DEF Dist
  <1>4. HostTx' = 0 /\ HostAcked' = 0 /\ NcpAcked' = 0
    <2>1. /\ HostTx' = hostSent' - Len(txQueue')
          /\ HostAcked' = HostTx' - Dist(ackRx', frmTx')
          /\ NcpAcked' = ncpSent' - Dist(nAckRx', nFrmTx')
      BY DEF HostTx, HostAcked, NcpAcked
    <2>2. hostSent' = 0 /\ Len(txQueue') = 0
      BY <1>2, <1>3
    <2>3. Dist(ackRx', frmTx') = 0 /\ Dist(nAckRx', nFrmTx') = 0
      BY <1>2, <1>3
    <2> QED BY <2>1, <2>2, <2>3
  <1>5. \A k \in 1 .. Len(Out') : ~IsData(Out'[k]) /\ ~HasAck(Out'[k])
    <2>1. /\ Out \in Seq(DownFrames) /\ Out[1] = RstFrame /\ 1 \in 1 .. Len(Out)
          /\ Len(Out') = Len(Out) - 1 /\ Len(Out) \in Nat
          /\ \A k \in 1 .. Len(Out') : Out'[k] = Out[k + 1]
      BY LinkFacts, HeadFrame DEF LinkTypes
    <2>2. ASSUME NEW k \in 1 .. Len(Out') PROVE IsMute(Out'[k])
      <3>1. k + 1 \in 1 .. Len(Out) /\ 1 < k + 1 /\ Out'[k] = Out[k + 1]
        BY <2>1
      <3> QED BY <1>1, <2>1, <3>1 DEF MuteAfterRst
    <2> QED BY <2>2 DEF IsMute, RstFrame, IsData, HasAck
  <1>6. Len(Out') \in Nat /\ Len(toHost') \in Nat
    BY DEF LinkTypes
  <1>7. /\ Delivered(ncpGot', HostAcked', hostSent') /\ Delivered(hostGot', NcpAcked', ncpSent')
        /\ Len(ncpGot') = 0
    BY <1>2, <1>3, <1>4 DEF Delivered
  <1>8. Reached(Len(ncpGot))'
    BY <1>4, <1>7 DEF Reached
  <1>9. /\ DataOn(Out', 0, TxK, Len(ncpGot'), hostSent')
        /\ AcksOn(Out', 0, nAckRx', frmRx')
    <2>1. \A k \in 0 + 1 .. Len(Out') : k \in 1 .. Len(Out')
      OBVIOUS
    <2> QED BY <1>5, <2>1 DEF DataOn, AcksOn
  <1>10. ReachedOut'
    BY <1>5 DEF ReachedOut
  <1>11. /\ DataOn(toHost', n, NcpTxK, Len(hostGot'), ncpSent')
         /\ AcksOn(toHost', n, ackRx', nFrmRx')
    <2>1. \A k \in n + 1 .. Len(toHost') : FALSE
      BY <1>6
    <2> QED BY <2>1 DEF DataOn, AcksOn
  <1>12. Down(n)'
    BY <1>7, <1>8, <1>9, <1>10, <1>11 DEF Down
  <1>13. Up(n)'
    BY <1>7, <1>9, <1>11 DEF Up
  <1> QED BY <1>12, <1>13 DEF Session

\* RSTACK, intact, is the last frame on the line.
LEMMA ResetLine ==
  ASSUME LinkTypes, NEW g \in UpFrames, toHost' \in Put(toHost, g), NEW k \in Nat,
         SoftUp(k)'
  PROVE  \/ SoftUp(k) /\ toHost'[k] = toHost[k]
         \/ Soft(g) /\ k = Len(toHost') /\ k = Len(toHost) + 1
  <1>1. toHost \in Seq(UpFrames)
    BY DEF LinkTypes
  <1>2. CASE toHost' = toHost
    BY <1>2 DEF SoftUp
  <1>3. ASSUME NEW f \in UpFrames, toHost' = Append(toHost, f),
               f = g \/ f.type = "BAD"
        PROVE  \/ SoftUp(k) /\ toHost'[k] = toHost[k]
               \/ Soft(g) /\ k = Len(toHost') /\ k = Len(toHost) + 1
    <2>1. /\ Len(toHost') = Len(toHost) + 1 /\ Len(toHost) \in Nat
          /\ toHost'[Len(toHost) + 1] = f
          /\ \A j \in 1 .. Len(toHost) : toHost'[j] = toHost[j]
      BY <1>1, <1>3, AppendAt
    <2>2. k \in 1 .. Len(toHost') /\ Soft(toHost'[k])
      BY DEF SoftUp
    <2>3. CASE k \in 1 .. Len(toHost)
      BY <2>1, <2>2, <2>3 DEF SoftUp
    <2>4. CASE k = Len(toHost) + 1
      BY <1>3, <2>1, <2>2, <2>4 DEF Soft
    <2> QED BY <2>1, <2>2, <2>3, <2>4
  <1> QED BY <1>1, <1>2, <1>3, PutLine

LEMMA NcpResetLink ==
  ASSUME IInv, LinkInv, UNCHANGED <<vars, hostGhosts>>, NEW reason \in ResetReasons,
         NcpReset(reason),
         \/ reason # "SOFTWARE" /\ UNCHANGED toNcp
         \/ toNcp # <<>> /\ toNcp' = Tail(toNcp) /\ Head(toNcp) = RstFrame
  PROVE  LinkInv'
  <1> DEFINE g == [type |-> "RSTACK", reason |-> reason, epoch |-> epoch']
  <1>1. /\ LinkTypes /\ EpochTypes /\ HostCounts /\ NcpCounts /\ FirstInv /\ WaitInv
        /\ SessionInv /\ HostCounts' /\ UNCHANGED HostSide
        /\ UNCHANGED <<flags, starting, Connected, starts, hostEpoch, sendVars>>
        /\ (Fresh => Fresh') /\ toHost \in Seq(UpFrames) /\ Len(toHost) \in Nat
    BY HostStands DEF LinkTypes
  <1>2. /\ epoch' = epoch + 1 /\ epoch' \in Nat /\ epoch \in Nat /\ hostEpoch <= epoch
        /\ hostEpoch \in Nat
    BY <1>1 DEF NcpReset, EpochTypes
  <1>3. /\ nFrmRx' = 0 /\ nFrmTx' = 0 /\ nAckRx' = 0 /\ nReTx' = 0
        /\ ncpGot' = <<>> /\ ncpSent' = 0
        /\ toHost' \in Put(toHost, g) /\ faults' \in Nat
    BY <1>1 DEF NcpReset, NcpSends, CountFault, LinkTypes
  <1>4. g \in UpFrames /\ (Soft(g) <=> reason = "SOFTWARE") /\ g.epoch = epoch'
    BY <1>2 DEF UpFrames, RstAckFrames, Soft
  <1> HIDE DEF g
  <1>5. PICK a \in {0, 1} :
          /\ Moves(Out', Out, a)
          /\ reason # "SOFTWARE" \/ (Out # <<>> /\ Head(Out) = RstFrame /\ Out' = Tail(Out)
                                     /\ RstOut(1) /\ a = 1)
          /\ (/\ Out \in Seq(DownFrames) /\ toNcp \in Seq(DownFrames)
              /\ Writing => txFrame \in DownFrames)'
    <2>1. CASE reason # "SOFTWARE" /\ UNCHANGED toNcp
      BY <1>1, <2>1, OutSame
    <2>2. CASE toNcp # <<>> /\ toNcp' = Tail(toNcp) /\ Head(toNcp) = RstFrame
      BY <1>1, <2>2, TakenOut DEF RstOut
    <2> QED BY <2>1, <2>2
  <1>6. LinkTypes'
    <2>1. toHost' \in Seq(UpFrames)
      BY <1>1, <1>3, <1>4, PutLine
    <2> QED BY <1>1, <1>3, <1>5, <2>1 DEF LinkTypes, hostGhosts
  <1>7. NcpCounts'
    <2>1. Len(<< >>) = 0 /\ Dist(0, 0) = 0
      BY DEF Dist
    <2>2. 0 \in FrameNum /\ NcpTxK \in Nat
      BY <1>1, Counts, ModType, NothingCounted
    <2>3. WithinRange(0, 0, 0)
      BY <2>1 DEF WithinRange
    <2> QED BY <1>3, <2>1, <2>2, <2>3, NothingCounted DEF NcpCounts
  <1>8. ASSUME NEW k \in 1 .. Len(toHost'), toHost'[k].type = "RSTACK"
        PROVE  toHost'[k].epoch <= epoch'
    <2>1. \/ k \in 1 .. Len(toHost) /\ toHost'[k] = toHost[k]
          \/ toHost'[k] = g
      BY <1>1, <1>3, <1>4, <1>8, PutLine, AppendAt
    <2>2. CASE k \in 1 .. Len(toHost) /\ toHost'[k] = toHost[k]
      <3>1. toHost[k].epoch <= epoch /\ toHost[k].epoch \in Nat
        BY <1>1, <1>8, <2>2, UpFrame DEF EpochTypes
      <3> QED BY <1>2, <2>2, <3>1
    <2> QED BY <1>2, <1>4, <2>1, <2>2
  <1>9. EpochTypes'
    BY <1>1, <1>2, <1>8 DEF EpochTypes
  <1>10. \A k \in Nat : SoftUp(k)' => \/ SoftUp(k) /\ toHost'[k] = toHost[k]
                                      \/ reason = "SOFTWARE" /\ k = Len(toHost')
    BY <1>1, <1>3, <1>4, ResetLine
  <1>11. \A k \in Nat : RstOut(k)' => RstOut(k + a) /\ k + a \in Nat
    BY <1>1, <1>5, <1>6, MovesToken
  <1>12. Token' => Token
    <2>1. reason = "SOFTWARE" => Token
      BY <1>5 DEF Token
    <2> QED BY <1>1, <1>10, <1>11, <2>1 DEF Token
  <1>13. ASSUME OneToken PROVE OneToken'
    <2>1. CASE reason # "SOFTWARE"
      <3>1. \A k \in Nat : SoftUp(k)' => SoftUp(k)
        BY <1>10, <2>1
      <3>2. ASSUME NEW j \in Nat, NEW k \in Nat, RstOut(j)', RstOut(k)' PROVE j = k
        <4>1. j + a = k + a
          BY <1>11, <1>13, <3>2 DEF OneToken
        <4> QED BY <4>1
      <3>3. /\ "RST" \in flags' => \A k \in Nat : ~RstOut(k)' /\ ~SoftUp(k)'
            /\ \A j, k \in Nat : ~(RstOut(j)' /\ SoftUp(k)')
            /\ \A j, k \in Nat : SoftUp(j)' /\ SoftUp(k)' => j = k
        BY <1>1, <1>11, <1>13, <3>1 DEF OneToken
      <3> QED BY <3>2, <3>3 DEF OneToken
    <2>2. CASE reason = "SOFTWARE"
      <3>1. RstOut(1) /\ a = 1
        BY <1>5, <2>2
      <3>2. "RST" \notin flags'
        BY <1>1, <1>13, <3>1 DEF OneToken
      <3>3. ASSUME NEW k \in Nat, RstOut(k)' PROVE FALSE
        <4>1. k + 1 = 1 /\ k >= 1
          BY <1>6, <1>11, <1>13, <3>1, <3>3 DEF OneToken, RstOut, LinkTypes
        <4> QED BY <4>1
      <3>4. \A k \in Nat : SoftUp(k)' => k = Len(toHost')
        BY <1>10, <1>13, <3>1 DEF OneToken
      <3> QED BY <3>2, <3>3, <3>4 DEF OneToken
    <2> QED BY <2>1, <2>2
  <1>14. FirstInv' /\ (Waits' => Waits)
    BY <1>1, <1>12, <1>13 DEF FirstInv, Waits
  <1>15. WaitInv'
    BY <1>1, <1>5, <1>6, <1>14, MovesMute DEF WaitInv
  <1>16. ASSUME NEW n \in Nat, Present(n)' PROVE Session(n)'
    <2>1. Waits' /\ SoftUp(n)' /\ toHost'[n].epoch = epoch'
      BY <1>1, <1>2, <1>16 DEF Present, LinkUp
    <2>2. CASE SoftUp(n) /\ toHost'[n] = toHost[n]
      <3>1. toHost[n].epoch <= epoch /\ toHost[n].epoch = epoch + 1
        BY <1>1, <1>2, <2>1, <2>2 DEF EpochTypes, SoftUp, Soft
      <3> QED BY <1>2, <3>1
    <2>3. CASE reason = "SOFTWARE" /\ n = Len(toHost')
      BY <1>1, <1>3, <1>5, <1>6, <1>14, <2>1, <2>3, NewSession
    <2> QED BY <1>10, <2>1, <2>2, <2>3
  <1> QED BY <1>1, <1>6, <1>7, <1>9, <1>14, <1>15, <1>16 DEF LinkInv, SessionInv

LEMMA NcpReceivesLink ==
  ASSUME IInv, LinkInv, NcpReceives, UNCHANGED vars
  PROVE  LinkInv'
  <1> DEFINE f == Head(toNcp)
  <1>1. toNcp # <<>> /\ toNcp' = Tail(toNcp) /\ UNCHANGED hostGhosts
    BY DEF NcpReceives
  <1>2. CASE f = RstFrame
    <2>1. NcpReset("SOFTWARE") /\ "SOFTWARE" \in ResetReasons
      BY <1>2 DEF NcpReceives, ResetReasons
    <2> QED BY <1>1, <1>2, <2>1, NcpResetLink
  <1>3. CASE f # RstFrame
    <2>1. UNCHANGED <<ncpUp, ncpSent, epoch, toHost, faults>>
      BY <1>3 DEF NcpReceives
    <2>2. \/ UNCHANGED <<ncpNumbers, ncpFlags, ncpGot>>
          \/ NcpReject(f.isData) \/ NcpReject(f.type = "DATA")
          \/ f.type # "BAD" /\ NcpAckOk(f.ack) /\ NcpAccept(f)
      BY <1>3 DEF NcpReceives
    <2>3. CASE f.type # "BAD" /\ NcpAckOk(f.ack) /\ NcpAccept(f)
      BY <1>1, <1>3, <2>1, <2>3, NcpAcceptLink
    <2>4. CASE UNCHANGED <<ncpNumbers, ncpGot>>
      BY <1>1, <2>1, <2>4, NcpPassesLink
    <2> QED BY <2>2, <2>3, <2>4 DEF NcpReject
  <1> QED BY <1>2, <1>3

LEMMA NcpStepLink ==
  ASSUME IInv, LinkInv, NcpStep, UNCHANGED vars
  PROVE  LinkInv'
  <1>1. CASE NcpReceives
    BY <1>1, NcpReceivesLink
  <1>2. CASE NcpSendsData
    BY <1>2, NcpSendsDataLink
  <1>3. CASE NcpSendsAck
    BY <1>3, NcpSendsAckLink
  <1>4. CASE NcpTimeout
    BY <1>4, NcpTimeoutLink
  <1>5. CASE NcpResetsItself
    <2>1. NcpReset("OTHER") /\ "OTHER" \in ResetReasons /\ UNCHANGED <<toNcp, hostGhosts>>
      BY <1>5 DEF NcpResetsItself, ResetReasons
    <2> QED BY <2>1, NcpResetLink
  <1>6. CASE NcpFails
    BY <1>6, NcpFailsLink
  <1> QED BY <1>1, <1>2, <1>3, <1>4, <1>5, <1>6 DEF NcpStep

-----------------------------------------------------------------------------
(* The link as a whole.                                                    *)

LEMMA HostStepLink ==
  ASSUME IInv, LinkInv, HostStep, MaxStarts <= 2
  PROVE  LinkInv'
  <1>1. CASE HostStart
    <2>1. starts <= 1
      BY <1>1, LinkFacts, AshLinkAssumption DEF HostStart, EpochTypes, AshLinkAssumption
    <2> QED BY <1>1, <2>1, HostStartLink
  <1>2. CASE HostWrites
    BY <1>2, HostWritesLink
  <1>3. CASE HostTimeout
    BY <1>3, HostTimeoutLink
  <1>4. CASE HostInternal
    BY <1>4, HostInternalLink
  <1>5. CASE HostSends
    BY <1>5, HostSendsLink
  <1>6. CASE HostReads
    BY <1>6, HostReadsLink
  <1>7. CASE HostReceives
    BY <1>7, HostReceivesLink
  <1> QED BY <1>1, <1>2, <1>3, <1>4, <1>5, <1>6, <1>7 DEF HostStep

LEMMA NextLinkInv ==
  ASSUME IInv, LinkInv, [LinkNext]_linkVars, MaxStarts <= 2
  PROVE  IInv' /\ LinkInv'
  <1>1. CASE LinkNext
    <2>1. IInv'
      BY <1>1, LinkFacts, LinkStepIsNext, NextIInv
    <2>2. LinkInv'
      BY <1>1, HostStepLink, NcpStepLink DEF LinkNext
    <2> QED BY <2>1, <2>2
  <1>2. CASE UNCHANGED linkVars
    <2>1. /\ UNCHANGED <<vars, ncpVars, hostGhosts, toNcp, toHost, faults>>
      BY <1>2 DEF linkVars, lines
    <2>2. IInv'
      BY <2>1, NextIInv
    <2>3. LinkInv'
      <3>1. HostCalm /\ Scrubs /\ UNCHANGED <<txQueue, ackRx, frmTx, frmRx, sendVars>>
        BY <2>1 DEF vars, HostCalm, Scrubs, Connected, Waits, Fresh
      <3>2. faults' \in Nat
        BY <2>1, LinkFacts DEF LinkTypes
      <3> QED BY <2>1, <3>1, <3>2, QuietHostStep
    <2> QED BY <2>2, <2>3
  <1> QED BY <1>1, <1>2

LEMMA InitLinkInv ==
  ASSUME LinkInit
  PROVE  IInv /\ LinkInv
  <1>1. Init /\ IInv
    BY InitIInv DEF LinkInit
  <1>2. /\ flags = {} /\ ~Connected /\ ~starting /\ ~Writing /\ Out = <<>>
        /\ ackRx = 0 /\ frmTx = 0 /\ frmRx = 0 /\ txQueue = <<>> /\ reTxQueue = <<>>
    BY <1>1 DEF Init, Connected, Writing, Out, LinkInit
  <1>3. /\ toNcp = <<>> /\ toHost = <<>> /\ nFrmRx = 0 /\ nFrmTx = 0 /\ nAckRx = 0
        /\ nReTx = 0 /\ ncpGot = <<>> /\ ncpSent = 0 /\ hostGot = <<>> /\ hostSent = 0
        /\ epoch = 0 /\ hostEpoch = 0 /\ starts = 0 /\ faults = 0
    BY DEF LinkInit
  <1>4. Len(<< >>) = 0 /\ Dist(0, 0) = 0
    BY DEF Dist
  <1>5. LinkTypes
    BY <1>2, <1>3 DEF LinkTypes
  <1>6. EpochTypes
    BY <1>3, <1>4 DEF EpochTypes
  <1>7. HostTx = 0 /\ TxK \in Nat /\ NcpTxK \in Nat /\ 0 \in FrameNum
    <2>1. HostTx = hostSent - Len(txQueue)
      BY DEF HostTx
    <2>2. hostSent = 0 /\ Len(txQueue) = 0
      BY <1>2, <1>3, <1>4
    <2>3. TxK \in Nat /\ NcpTxK \in Nat
      BY AshHostAssumption, AshLinkAssumption DEF AshHostAssumption, AshLinkAssumption
    <2>4. 0 \in FrameNum
      BY ModType, NothingCounted
    <2> QED BY <2>1, <2>2, <2>3, <2>4
  <1>8. HostCounts
    BY <1>2, <1>3, <1>4, <1>7, NothingCounted DEF HostCounts
  <1>9. NcpCounts
    <2>1. WithinRange(0, 0, 0)
      BY <1>4 DEF WithinRange
    <2> QED BY <1>3, <1>4, <1>7, <2>1, NothingCounted DEF NcpCounts
  <1>10. ~Token
    BY <1>2, <1>3, <1>4 DEF Token, RstOut, SoftUp
  <1>11. FirstInv
    <2>1. OneToken
      BY <1>10 DEF Token, OneToken
    <2> QED BY <1>2, <1>10, <2>1 DEF FirstInv
  <1>12. WaitInv /\ SessionInv
    BY <1>2, <1>10 DEF WaitInv, SessionInv, Waits, Present, LinkUp
  <1> QED BY <1>1, <1>5, <1>6, <1>8, <1>9, <1>11, <1>12 DEF LinkInv

\* The host keeps what the NCP has not got, and neither side is told more than
\* is true.
LEMMA LinkPromises ==
  ASSUME IInv, LinkInv
  PROVE  NothingLost /\ NoFalseAck
  <1> SUFFICES ASSUME LinkUp PROVE NothingLost /\ NoFalseAck
    BY DEF NothingLost, NoFalseAck
  <1>1. LinkTypes /\ HostCounts /\ NcpCounts /\ Connected
    BY LinkFacts DEF LinkUp
  <1>2. /\ HostAcked <= Len(ncpGot) /\ NcpAcked <= Len(hostGot)
    <2>1. Session(0)
      BY LinkFacts DEF SessionInv, Present
    <2> QED BY <2>1 DEF Session, Down, Up, Delivered
  <1>3. NoFalseAck
    BY <1>2 DEF NoFalseAck, HostAcked, HostTx, NcpAcked
  <1>4. /\ reTxQueue \in Seq(Data) /\ txQueue \in Seq(Data)
        /\ ackRx \in FrameNum /\ frmTx \in FrameNum /\ frmReTxHead \in FrameNum
    BY DEF IInv, TypeOK, QueueTypes, NumberTypes
  <1> DEFINE q == Len(reTxQueue)
             t == Len(txQueue)
             kept == reTxQueue \o txQueue
             oldest == hostSent - Len(kept)
  <1>5. /\ q \in Nat /\ t \in Nat /\ Len(kept) = q + t /\ DOMAIN kept = 1 .. q + t
        /\ \A i \in 1 .. q : kept[i] = reTxQueue[i]
        /\ \A i \in 1 .. t : kept[q + i] = txQueue[i]
    BY <1>4
  <1>6. /\ HostTx \in Nat /\ hostSent \in Nat /\ HostTx = hostSent - t
        /\ Dist(ackRx, frmTx) <= q /\ Dist(ackRx, frmTx) \in Nat
        /\ Len(ncpGot) \in Nat
    <2>1. q = Dist(frmReTxHead, frmTx) /\ WithinRange(frmReTxHead, ackRx, frmTx)
      BY <1>1 DEF IInv, QueueIntegrity, TxIntegrity, WindowOrder
    <2>2. Dist(ackRx, frmTx) <= q
      BY <1>4, <2>1, DistSplit
    <2> QED BY <1>1, <1>4, <2>2, DistType, Counts DEF HostTx
  <1> HIDE DEF kept
  <1>7. oldest = HostTx - q
    <2> HIDE DEF q, t
    <2> QED BY <1>5, <1>6
  <1>8. oldest <= Len(ncpGot)
    <2>1. HostTx - Dist(ackRx, frmTx) <= Len(ncpGot)
      BY <1>2 DEF HostAcked
    <2> HIDE DEF q, t, oldest
    <2> QED BY <1>5, <1>6, <1>7, <2>1
  <1>9. ASSUME NEW i \in 1 .. q + t PROVE kept[i] = oldest + i
    <2>1. CASE i \in 1 .. q
      <3>1. reTxQueue[i] = HostTx - q + i
        BY <1>1, <2>1 DEF HostCounts
      <3> HIDE DEF q, t, oldest
      <3> QED BY <1>5, <1>6, <1>7, <2>1, <3>1
    <2>2. CASE i \in q + 1 .. q + t
      <3>1. i - q \in 1 .. t /\ q + (i - q) = i
        <4> HIDE DEF q, t
        <4> QED BY <1>5, <2>2
      <3>2. txQueue[i - q] = HostTx + (i - q)
        BY <1>1, <3>1 DEF HostCounts
      <3>3. kept[q + (i - q)] = txQueue[i - q]
        BY <1>5, <3>1
      <3> HIDE DEF q, t, oldest
      <3> QED BY <1>5, <1>6, <1>7, <3>1, <3>2, <3>3
    <2> HIDE DEF q, t
    <2> QED BY <1>5, <2>1, <2>2
  <1>10. NothingLost
    BY <1>5, <1>8, <1>9 DEF NothingLost, kept
  <1> QED BY <1>3, <1>10

\* The inductive invariant of the link, for a host that starts it up to twice.
\* (At a third, the answer to an earlier RST may be taken for that to the last.)
THEOREM LinkInductive ==
  ASSUME MaxStarts <= 2
  PROVE  LinkSpec => [](IInv /\ LinkInv)
  <1>1. LinkInit => IInv /\ LinkInv
    BY InitLinkInv
  <1>2. (IInv /\ LinkInv) /\ [LinkNext]_linkVars => (IInv /\ LinkInv)'
    BY NextLinkInv
  <1> QED BY <1>1, <1>2, PTL DEF LinkSpec

\* The link does nothing with the host that the open module does not allow, so
\* all that is proved of Spec holds on it.
THEOREM HostWithinLink ==
  ASSUME MaxStarts <= 2
  PROVE  LinkSpec => Spec
  <1>1. LinkInit => Init
    BY DEF LinkInit
  <1>2. (IInv /\ LinkInv) /\ [LinkNext]_linkVars => [Next]_vars
    <2>1. ASSUME IInv, LinkInv, LinkNext PROVE [Next]_vars
      BY <2>1, LinkFacts, LinkStepIsNext
    <2>2. ASSUME UNCHANGED linkVars PROVE UNCHANGED vars
      BY <2>2 DEF linkVars
    <2> QED BY <2>1, <2>2
  <1> QED BY <1>1, <1>2, LinkInductive, PTL DEF LinkSpec, Spec

\* Whatever the lines damage or lose, and whatever is cancelled, retransmitted
\* or acknowledged late, the queues of the host hold every frame that the NCP
\* has not got, once and in order.
THEOREM HostKeepsAll ==
  ASSUME MaxStarts <= 2
  PROVE  LinkSpec => []NothingLost
  <1>1. IInv /\ LinkInv => NothingLost
    BY LinkPromises
  <1> QED BY <1>1, LinkInductive, PTL

\* No acknowledgement is taken for a frame that was not delivered, for every
\* modulus and every pair of windows smaller than it.
THEOREM AcksTrue ==
  ASSUME MaxStarts <= 2
  PROVE  LinkSpec => []NoFalseAck
  <1>1. IInv /\ LinkInv => NoFalseAck
    BY LinkPromises
  <1> QED BY <1>1, LinkInductive, PTL

-----------------------------------------------------------------------------
(* The link implements the reliable one.                                   *)

LEMMA Numbers ==
  ASSUME NEW n \in Nat, NEW S, 1 .. n \subseteq S
  PROVE  /\ NumbersTo(n) \in Seq(S) /\ Len(NumbersTo(n)) = n
         /\ \A i \in 1 .. n : NumbersTo(n)[i] = i
  BY DEF NumbersTo

LEMMA OneMoreNumber ==
  ASSUME NEW n \in Nat
  PROVE  /\ NumbersTo(n + 1) = Append(NumbersTo(n), n + 1)
         /\ NumbersTo(n + 1) # NumbersTo(n)
  <1> DEFINE old == NumbersTo(n)
             new == NumbersTo(n + 1)
  <1>1. /\ old \in Seq(Nat) /\ Len(old) = n /\ \A i \in 1 .. n : old[i] = i
        /\ new \in Seq(Nat) /\ Len(new) = n + 1 /\ \A i \in 1 .. n + 1 : new[i] = i
    BY Numbers
  <1> HIDE DEF old, new
  <1>2. /\ Append(old, n + 1) \in Seq(Nat) /\ Len(Append(old, n + 1)) = n + 1
        /\ \A i \in 1 .. n + 1 : Append(old, n + 1)[i] = i
    BY <1>1, AppendAt
  <1>3. new = Append(old, n + 1)
    BY <1>1, <1>2
  <1>4. new # old
    BY <1>1
  <1> QED BY <1>3, <1>4 DEF old, new

\* While the link is up, a step accepts a frame or delivers one, on one side.
LEMMA UpStep ==
  ASSUME LinkInv, LinkNext, LinkUp, LinkUp'
  PROVE  \/ UNCHANGED <<hostSent, ncpGot, ncpSent, hostGot>>
         \/ hostSent' = hostSent + 1 /\ UNCHANGED <<ncpGot, ncpSent, hostGot>>
         \/ ncpSent' = ncpSent + 1 /\ UNCHANGED <<hostSent, ncpGot, hostGot>>
         \/ /\ \E d \in Data : ncpGot' = Append(ncpGot, d)
            /\ UNCHANGED <<hostSent, ncpSent, hostGot>>
         \/ /\ \E d \in Data : hostGot' = Append(hostGot, d)
            /\ UNCHANGED <<hostSent, ncpGot, ncpSent>>
  <1>1. LinkTypes /\ EpochTypes
    BY LinkFacts
  <1>2. CASE HostStep
    <2>1. ~HostStart
      BY DEF HostStart, Start, LinkUp, Connected
    <2>2. CASE HostReceives
      <3> DEFINE f == Head(toHost)
      <3>1. f \in UpFrames /\ UNCHANGED <<hostSent, ncpGot, ncpSent>>
        BY <1>1, <2>2, Received DEF ncpVars
      <3>2. hostGot' = hostGot \/ (hostGot' = Append(hostGot, f.data) /\ f.type = "DATA")
        BY <2>2
        DEF HostReceives, HostIgnores, ReceiveIgnored, ReceiveAck, ReceiveNak, ReceiveBad,
            ReceiveRstAck, ReceiveReset, ReceiveError
      <3>3. f.type = "DATA" => f.data \in Data
        BY <3>1, UpFrame
      <3> QED BY <3>1, <3>2, <3>3
    <2>3. CASE HostSends
      BY <2>3 DEF HostSends, ncpVars
    <2>4. CASE HostWrites \/ HostTimeout \/ HostInternal \/ HostReads
      BY <2>4 DEF HostWrites, HostTimeout, HostInternal, HostReads, ncpVars, hostGhosts
    <2> QED BY <1>2, <2>1, <2>2, <2>3, <2>4 DEF HostStep
  <1>3. CASE NcpStep /\ UNCHANGED vars
    <2>1. UNCHANGED hostGhosts
      BY <1>3 DEF NcpStep, NcpReceives, NcpSendsData, NcpSendsAck, NcpTimeout, NcpResetsItself,
                  NcpFails
    <2>2. UNCHANGED <<hostSent, hostGot>> /\ epoch' = epoch
      BY <2>1 DEF hostGhosts, LinkUp
    <2>3. ASSUME NEW reason, NcpReset(reason) PROVE FALSE
      <3>1. epoch' = epoch + 1 /\ epoch \in Nat
        BY <1>1, <2>3 DEF NcpReset, EpochTypes
      <3> QED BY <2>2, <3>1
    <2>4. CASE NcpReceives
      <3> DEFINE f == Head(toNcp)
      <3>1. f # RstFrame
        BY <2>3, <2>4 DEF NcpReceives
      <3>2. UNCHANGED ncpSent /\ toNcp # <<>>
        BY <2>4, <3>1 DEF NcpReceives
      <3>3. f \in DownFrames
        BY <1>1, <3>2, HeadFrame DEF LinkTypes
      <3>4. ncpGot' = ncpGot \/ (ncpGot' = Append(ncpGot, f.data) /\ f.type = "DATA")
        BY <2>4, <3>1 DEF NcpReceives, NcpAccept, NcpReject
      <3>5. f.type = "DATA" => f.data \in Data
        BY <3>1, <3>3, DownFrame
      <3> QED BY <2>2, <3>2, <3>4, <3>5
    <2>5. CASE NcpSendsData
      BY <2>2, <2>5 DEF NcpSendsData
    <2>6. CASE NcpSendsAck \/ NcpTimeout \/ NcpFails
      BY <2>2, <2>6 DEF NcpSendsAck, NcpTimeout, NcpFails
    <2>7. ~NcpResetsItself
      BY <2>3 DEF NcpResetsItself
    <2> QED BY <1>3, <2>4, <2>5, <2>6, <2>7 DEF NcpStep
  <1> QED BY <1>2, <1>3 DEF LinkNext

\* It comes up when the host, which has counted nothing, takes an RSTACK.
LEMMA UpBegins ==
  ASSUME IInv, LinkInv, LinkNext, ~LinkUp, LinkUp'
  PROVE  hostSent' = 0 /\ hostGot' = <<>>
  <1>1. LinkTypes /\ EpochTypes /\ WaitInv
    BY LinkFacts
  <1>2. CASE HostStep
    <2>1. CASE HostReceives
      <3>1. UNCHANGED <<epoch, hostSent>> /\ Connected'
        BY <2>1, Received DEF ncpVars, LinkUp
      <3>2. ~Connected
        BY <2>1, <3>1, Received DEF LinkUp
      <3>3. /\ starting
            /\ UNCHANGED rxQueue
        BY <2>1, <3>1, <3>2
        DEF HostReceives, HostIgnores, ReceiveIgnored, ReceiveData, ReceiveInSequence,
            ReceiveNoBuffer, ReceiveOutOfSequence, ReceiveBadAckNum, DataTurn, ReceiveAck,
            ReceiveNak, ReceiveBad, ReceiveRstAck, ReceiveReset, ReceiveError, CanReceive
      <3>4. UNCHANGED hostGot
        BY <2>1, <3>3, Received
      <3>5. Fresh
        BY <1>1, <3>2, <3>3 DEF WaitInv, Waits
      <3> QED BY <3>1, <3>4, <3>5 DEF Fresh
    <2>2. CASE HostStart
      BY <2>2 DEF HostStart, Start, LinkUp, Connected
    <2>3. CASE HostWrites \/ HostTimeout \/ HostInternal \/ HostSends \/ HostReads
      <3>1. UNCHANGED <<epoch, hostEpoch>>
        BY <2>3 DEF HostWrites, HostTimeout, HostInternal, HostSends, HostReads, ncpVars,
                    hostGhosts
      <3>2. Connected' => Connected
        <4>1. CASE HostInternal
          <5>1. ASSUME NEW expired, "CONNECTED" \in idleFlags(expired)
                PROVE  "CONNECTED" \in flags
            BY <5>1 DEF idleFlags, nrFlags, flagsAfterReTx
          <5>2. CASE IdleChoice
            BY <5>1, <5>2
            DEF IdleChoice, StartRst, StartNakOrAck, StartReTx, FlagAck, StartData,
                NothingToSend, Connected
          <5> QED BY <4>1, <5>2
              DEF HostInternal, StartDone, StartFailed, SendCancel, FinishShort, FinishData,
                  FinishReTx, TakeReceived, Connected
        <4>2. CASE HostWrites \/ HostTimeout \/ HostSends \/ HostReads
          BY <4>2 DEF HostWrites, HostTimeout, HostSends, HostReads, WriteFlag, AckTimeout,
                      ResetTimeout, AshSend, ReadData, Connected
        <4> QED BY <2>3, <4>1, <4>2
      <3> QED BY <3>1, <3>2 DEF LinkUp
    <2> QED BY <1>2, <2>1, <2>2, <2>3 DEF HostStep
  <1>3. CASE NcpStep /\ UNCHANGED vars
    <2>1. UNCHANGED Connected /\ UNCHANGED hostEpoch
      BY <1>3 DEF NcpStep, NcpReceives, NcpSendsData, NcpSendsAck, NcpTimeout, NcpResetsItself,
                  NcpFails, hostGhosts, vars, Connected
    <2>2. epoch' = epoch \/ epoch' = epoch + 1
      BY <1>3 DEF NcpStep, NcpReceives, NcpSendsData, NcpSendsAck, NcpTimeout, NcpResetsItself,
                  NcpFails, NcpReset
    <2>3. hostEpoch \in Nat /\ epoch \in Nat /\ hostEpoch <= epoch
      BY <1>1 DEF EpochTypes
    <2> QED BY <2>1, <2>2, <2>3 DEF LinkUp
  <1> QED BY <1>2, <1>3 DEF LinkNext

\* What is delivered last is the next that was accepted.
LEMMA NextDelivered ==
  ASSUME NEW got \in Seq(Data), NEW d \in Data, NEW acked, NEW accepted \in Nat,
         1 .. accepted \subseteq Data, Delivered(Append(got, d), acked, accepted)
  PROVE  /\ Append(got, d) # got /\ Len(got) < Len(NumbersTo(accepted))
         /\ Append(got, d) = Append(got, NumbersTo(accepted)[Len(got) + 1])
  <1>1. /\ Len(Append(got, d)) = Len(got) + 1 /\ Append(got, d)[Len(got) + 1] = d
        /\ Len(got) \in Nat
    BY AppendAt
  <1>2. d = Len(got) + 1 /\ Len(got) + 1 <= accepted
    BY <1>1 DEF Delivered
  <1>3. Len(NumbersTo(accepted)) = accepted /\ NumbersTo(accepted)[Len(got) + 1] = Len(got) + 1
    <2>1. Len(got) + 1 \in 1 .. accepted
      BY <1>1, <1>2
    <2> QED BY <2>1, Numbers
  <1>4. Append(got, d) # got
    BY <1>1
  <1> QED BY <1>1, <1>2, <1>3, <1>4

LEMMA ReliableStep ==
  ASSUME IInv, LinkInv, IInv', LinkInv', LinkNext
  PROVE  [Reliable!Next]_(Reliable!vars)
  <1>1. /\ LinkTypes /\ LinkTypes'
        /\ hostSent \in Nat /\ ncpSent \in Nat /\ hostSent' \in Nat /\ ncpSent' \in Nat
        /\ ncpGot \in Seq(Data) /\ hostGot \in Seq(Data)
        /\ 1 .. hostSent \subseteq Data /\ 1 .. ncpSent \subseteq Data
        /\ 1 .. hostSent' \subseteq Data /\ 1 .. ncpSent' \subseteq Data
    BY DEF LinkInv, LinkTypes
  <1>2. ASSUME LinkUp'
        PROVE  /\ Delivered(ncpGot', HostAcked', hostSent')
               /\ Delivered(hostGot', NcpAcked', ncpSent')
    <2>1. Session(0)'
      BY <1>2 DEF LinkInv, SessionInv, Present
    <2> QED BY <2>1 DEF Session, Down, Up
  <1>3. CASE ~LinkUp /\ ~LinkUp'
    <2>1. LinkUp' = LinkUp
      BY <1>3 DEF LinkUp
    <2> QED BY <1>3, <2>1 DEF Reliable!vars
  <1>4. CASE LinkUp /\ ~LinkUp'
    BY <1>4 DEF Reliable!Next, Reliable!Lose
  <1>5. CASE ~LinkUp /\ LinkUp'
    <2>1. hostSent' = 0 /\ hostGot' = <<>>
      BY <1>5, UpBegins
    <2>2. ncpGot' = <<>>
      <3>1. Len(ncpGot') <= 0 /\ ncpGot' \in Seq(Data)
        BY <1>1, <1>2, <1>5, <2>1 DEF Delivered, LinkTypes
      <3> QED BY <3>1
    <2>3. NumbersTo(hostSent') = <<>> /\ NumbersTo(ncpSent') \in Seq(Data)
      BY <1>1, <2>1, Numbers DEF NumbersTo
    <2> QED BY <1>5, <2>1, <2>2, <2>3 DEF Reliable!Next, Reliable!Connect, NumbersTo
  <1>6. CASE LinkUp /\ LinkUp'
    <2>1. CASE UNCHANGED <<hostSent, ncpGot, ncpSent, hostGot>>
      BY <1>6, <2>1 DEF Reliable!vars, NumbersTo
    <2>2. CASE hostSent' = hostSent + 1 /\ UNCHANGED <<ncpGot, ncpSent, hostGot>>
      <3>1. hostSent + 1 \in Data
        BY <1>1, <2>2
      <3>2. /\ NumbersTo(hostSent') = Append(NumbersTo(hostSent), hostSent + 1)
            /\ NumbersTo(hostSent') # NumbersTo(hostSent)
        BY <1>1, <2>2, OneMoreNumber
      <3> QED BY <1>6, <2>2, <3>1, <3>2 DEF Reliable!Next, Reliable!SendDown, NumbersTo
    <2>3. CASE ncpSent' = ncpSent + 1 /\ UNCHANGED <<hostSent, ncpGot, hostGot>>
      <3>1. ncpSent + 1 \in Data
        BY <1>1, <2>3
      <3>2. /\ NumbersTo(ncpSent') = Append(NumbersTo(ncpSent), ncpSent + 1)
            /\ NumbersTo(ncpSent') # NumbersTo(ncpSent)
        BY <1>1, <2>3, OneMoreNumber
      <3> QED BY <1>6, <2>3, <3>1, <3>2 DEF Reliable!Next, Reliable!SendUp, NumbersTo
    <2>4. ASSUME NEW d \in Data, ncpGot' = Append(ncpGot, d),
                 UNCHANGED <<hostSent, ncpSent, hostGot>>
          PROVE  Reliable!Next
      <3>1. /\ ncpGot' # ncpGot /\ Len(ncpGot) < Len(NumbersTo(hostSent))
            /\ ncpGot' = Append(ncpGot, NumbersTo(hostSent)[Len(ncpGot) + 1])
        BY <1>1, <1>2, <1>6, <2>4, NextDelivered
      <3> QED BY <1>6, <2>4, <3>1 DEF Reliable!Next, Reliable!DeliverDown, NumbersTo
    <2>5. ASSUME NEW d \in Data, hostGot' = Append(hostGot, d),
                 UNCHANGED <<hostSent, ncpGot, ncpSent>>
          PROVE  Reliable!Next
      <3>1. /\ hostGot' # hostGot /\ Len(hostGot) < Len(NumbersTo(ncpSent))
            /\ hostGot' = Append(hostGot, NumbersTo(ncpSent)[Len(hostGot) + 1])
        BY <1>1, <1>2, <1>6, <2>5, NextDelivered
      <3> QED BY <1>6, <2>5, <3>1 DEF Reliable!Next, Reliable!DeliverUp, NumbersTo
    <2> QED BY <1>6, <2>1, <2>2, <2>3, <2>4, <2>5, UpStep
  <1> QED BY <1>3, <1>4, <1>5, <1>6

\* Each step of the two protocol machines, the lines and their faults is a step
\* of the abstract link, or none: between two resets of the NCP each side
\* delivers what the other accepted, in order and once.
THEOREM LinkIsReliable ==
  ASSUME MaxStarts <= 2
  PROVE  LinkSpec => ImplementsReliableLink
  <1>1. LinkInit => Reliable!Init
    BY DEF LinkInit, Init, LinkUp, Connected, Reliable!Init, Reliable!Empty
  <1>2. (IInv /\ LinkInv) /\ (IInv /\ LinkInv)' /\ [LinkNext]_linkVars
          => [Reliable!Next]_(Reliable!vars)
    <2>1. CASE LinkNext
      BY <2>1, ReliableStep
    <2>2. CASE UNCHANGED linkVars
      BY <2>2 DEF linkVars, vars, ncpVars, hostGhosts, Reliable!vars, LinkUp, Connected, NumbersTo
    <2> QED BY <2>1, <2>2
  <1> QED BY <1>1, <1>2, LinkInductive, PTL DEF LinkSpec, ImplementsReliableLink, Reliable!Spec

=============================================================================
