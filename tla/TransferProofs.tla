--------------------------- MODULE TransferProofs ---------------------------
(***************************************************************************)
(* Proofs about what is sent in pieces.                                    *)
(*                                                                         *)
(* First fragmentation.c: the sending half by itself, then with a receiver *)
(* and a network, for bytes, windows and messages of every size.  A bit of *)
(* the receiver's mask names only a place in a window: the proof is that   *)
(* what is under way and the receiver agree on which window that is.  Then *)
(* what the replies say: a message is not reported as sent before it was   *)
(* received, whatever replies are lost and whenever the receiver gives up. *)
(*                                                                         *)
(* Then the OTA client and its server: the image a client has verified is  *)
(* whole, for images, pages and save rates of every size.  There the hard  *)
(* part is what the client leaves behind: an offset in EEPROM from which a *)
(* later download goes on, and a page that outlives the download it was    *)
(* asked for.                                                              *)
(***************************************************************************)
EXTENDS Fragmentation, OtaDownload, FiniteSetTheorems, SequenceTheorems, TLAPS

\* What the stack owes a report of, of the message being sent
Owed == {f \in stack : f.msg = txMessage}

\* A byte counts them from below: it may count the report of a fragment of an
\* earlier message, which takes none of the present one's away.
CountsOwed == /\ 1 <= txFragmentsInTransit
              /\ txFragmentsInTransit <= Cardinality(Owed)

SendInv ==
  /\ SendTypeOK
  /\ IsFiniteSet(stack)
  /\ stack # {} => txMessage \in Message
  /\ sending => txMessage \in Message /\ txFragmentCount <= txMessage.n
  /\ sending /\ txMessage.n < Byte => CountsOwed

-----------------------------------------------------------------------------
(* Windows.                                                                *)

\* A window holds at most Window fragments, each of the message.
LEMMA WindowBound ==
  ASSUME NEW m \in Message, NEW count \in 0 .. Byte - 1, count <= m.n,
         NEW base \in 0 .. Byte - 1
  PROVE  /\ IsFiniteSet(WindowAt(m, count, base))
         /\ Cardinality(WindowAt(m, count, base)) <= Window
         /\ WindowAt(m, count, base) \subseteq FragmentsOf(m)
         /\ \A f \in WindowAt(m, count, base) : f.msg = m
<1> DEFINE W == WindowAt(m, count, base)
           number == [f \in W |-> f.i]
<1>1. /\ Byte \in Nat /\ Window \in 1 .. 8 /\ m.n \in Nat
  BY FragmentsAssumption DEF FragmentsAssumption, Message
<1>2. number \in Injection(W, base .. base + Window - 1)
  <2>1. number \in [W -> base .. base + Window - 1]
    BY <1>1 DEF WindowAt, Fragment
  <2>2. ASSUME NEW f \in W, NEW g \in W, number[f] = number[g]  PROVE f = g
    BY <2>2 DEF WindowAt, Fragment
  <2>3. QED
    BY <2>1, <2>2 DEF Injection, IsInjective
<1>3. /\ IsFiniteSet(base .. base + Window - 1)
      /\ Cardinality(base .. base + Window - 1) = Window
  <2>1. /\ base \in Int /\ base + Window - 1 \in Int
        /\ ~(base > base + Window - 1)
        /\ (base + Window - 1) - base + 1 = Window
    BY <1>1
  <2> QED
    BY <2>1, FS_Interval
<1>4. IsFiniteSet(W) /\ Cardinality(W) <= Window
  BY <1>2, <1>3, FS_Injection
<1>5. W \subseteq FragmentsOf(m) /\ \A f \in W : f.msg = m
  BY <1>1 DEF WindowAt, Fragment, FragmentsOf
<1> QED
  BY <1>4, <1>5

\* What a byte holds after one report less
LEMMA OneLess ==
  ASSUME NEW k \in 0 .. Byte - 1
  PROVE  /\ (k - 1) % Byte \in 0 .. Byte - 1
         /\ k >= 1 => (k - 1) % Byte = k - 1
  BY FragmentsAssumption DEF FragmentsAssumption

\* The loop over a window: what it leaves of the invariant, whether it is
\* cut short or not
LEMMA WindowStep ==
  ASSUME SendTypeOK, NEW valid \in BOOLEAN, NEW held, held \subseteq stack,
         IsFiniteSet(held), NEW taken \in SUBSET NextWindow,
         SendNextFragments(valid, held, 0, taken),
         txFragmentCount' \in 0 .. Byte - 1, txFragmentBase' \in 0 .. Byte - 1,
         valid => txMessage' \in Message /\ txFragmentCount' <= txMessage'.n
  PROVE  /\ IsFiniteSet(stack') /\ stack' = held \cup taken
         /\ stack' \subseteq UNION {FragmentsOf(m) : m \in Message}
         /\ refused' \in 0 .. Refusals
         /\ txFragmentsInTransit' \in 0 .. Byte - 1
         /\ valid /\ taken # {} => CountsOwed'
         /\ ~valid => taken = {}
<1>1. Byte \in Nat /\ Window \in 1 .. 8 /\ Window < Byte /\ Refusals \in Nat
  BY FragmentsAssumption, FragmentSendAssumption
     DEF FragmentsAssumption, FragmentSendAssumption
<1>2. stack' = held \cup taken /\ (~valid => taken = {})
  BY DEF SendNextFragments
<1>3. /\ IsFiniteSet(taken) /\ Cardinality(taken) \in 0 .. Window
      /\ taken \subseteq UNION {FragmentsOf(m) : m \in Message}
      /\ \A f \in taken : f.msg = txMessage'
  <2>1. CASE valid
    <3>1. /\ IsFiniteSet(NextWindow) /\ Cardinality(NextWindow) <= Window
          /\ NextWindow \subseteq FragmentsOf(txMessage')
          /\ \A f \in NextWindow : f.msg = txMessage'
      BY <2>1, WindowBound DEF NextWindow
    <3>2. IsFiniteSet(taken) /\ Cardinality(taken) <= Cardinality(NextWindow)
      BY <3>1, FS_Subset
    <3>3. Cardinality(taken) \in Nat /\ Cardinality(NextWindow) \in Nat
      BY <3>1, <3>2, FS_CardinalityType
    <3> QED
      BY <1>1, <2>1, <3>1, <3>2, <3>3
  <2>2. CASE ~valid
    BY <1>1, <1>2, <2>2, FS_EmptySet
  <2> QED
    BY <2>1, <2>2
<1>4. IsFiniteSet(stack')
  BY <1>2, <1>3, FS_Union
<1>5. refused' \in 0 .. Refusals
  BY <1>1 DEF SendNextFragments, SendTypeOK
<1>6. txFragmentsInTransit' = Cardinality(taken)
  BY <1>1, <1>3 DEF SendNextFragments
<1>7. ASSUME valid, taken # {}  PROVE CountsOwed'
  <2>1. taken \in SUBSET Owed'
    BY <1>2, <1>3 DEF Owed
  <2>2. IsFiniteSet(Owed')
    BY <1>4, FS_Subset, Owed' \in SUBSET stack' DEF Owed
  <2>3. Cardinality(taken) <= Cardinality(Owed)'
    BY <2>1, <2>2, FS_Subset
  <2>4. Cardinality(taken) # 0
    BY <1>3, <1>7, FS_EmptySet
  <2> QED
    BY <1>1, <1>3, <1>6, <2>3, <2>4 DEF CountsOwed
<1> QED
  BY <1>1, <1>2, <1>3, <1>4, <1>5, <1>6, <1>7 DEF SendTypeOK

-----------------------------------------------------------------------------
(* One lemma per action.                                                   *)

LEMMA InitStep == SendInit => SendInv
<1> SUFFICES ASSUME SendInit  PROVE SendInv
  OBVIOUS
<1>1. reports \in [1 .. MaxSends -> Seq({"SUCCESS", "FAILED"})]
  BY DEF SendInit
<1>2. returned \in Seq(Statuses) /\ Len(returned) <= MaxSends
  BY FragmentsAssumption DEF FragmentsAssumption, SendInit
<1>3. stack \subseteq UNION {FragmentsOf(m) : m \in Message}
  BY DEF SendInit
<1>4. 0 \in 0 .. Byte - 1 /\ 0 \in 0 .. Refusals
  BY FragmentsAssumption, FragmentSendAssumption
     DEF FragmentsAssumption, FragmentSendAssumption
<1>5. SendTypeOK
  BY <1>1, <1>2, <1>3, <1>4 DEF SendInit, SendTypeOK
<1> QED
  BY <1>5, FS_EmptySet DEF SendInit, SendInv

\* What a call returns is recorded, and a new message is one.
LEMMA ReturnsType ==
  ASSUME SendTypeOK, Calls, NEW s \in Statuses, Returns(s)
  PROVE  returned' \in Seq(Statuses) /\ Len(returned') <= MaxSends
  BY FragmentsAssumption
     DEF FragmentsAssumption, SendTypeOK, Calls, Returns

LEMMA NewMessageType ==
  ASSUME SendTypeOK, Calls, NEW n \in Lengths
  PROVE  NewMessage(n) \in Message /\ NewMessage(n).n = n
  BY FragmentsAssumption
     DEF FragmentsAssumption, SendTypeOK, Calls, NewMessage, Message

LEMMA ReportType ==
  ASSUME SendTypeOK, NEW s \in {"SUCCESS", "FAILED"}, Report(s)
  PROVE  reports' \in [1 .. MaxSends -> Seq({"SUCCESS", "FAILED"})]
<1> DEFINE S == Seq({"SUCCESS", "FAILED"})
           id == txMessage'.id
<1>1. reports' = [reports EXCEPT ![id] = Append(reports[id], s)]
  BY DEF Report
<1>2. CASE id \in 1 .. MaxSends
  <2>1. Append(reports[id], s) \in S
    BY <1>2 DEF SendTypeOK
  <2> QED
    BY <1>1, <2>1 DEF SendTypeOK
<1>3. CASE id \notin 1 .. MaxSends
  BY <1>1, <1>3 DEF SendTypeOK
<1> QED
  BY <1>2, <1>3

LEMMA RefusedStep == SendInv /\ SendRefused => SendInv'
<1> SUFFICES ASSUME SendInv, SendRefused  PROVE SendInv'
  OBVIOUS
<1>1. Owed' = Owed
  BY DEF Owed, SendRefused
<1>2. SendTypeOK'
  <2>1. returned' \in Seq(Statuses) /\ Len(returned') <= MaxSends
    BY ReturnsType DEF SendInv, SendRefused, Statuses
  <2> QED
    BY <2>1 DEF SendInv, SendTypeOK, SendRefused
<1> QED
  BY <1>1, <1>2 DEF SendInv, SendRefused, CountsOwed

LEMMA TooLongStep ==
  ASSUME SendInv, NEW n \in Lengths, SendTooLong(n)
  PROVE  SendInv'
<1>1. n \in Nat /\ Byte \in Nat
  BY FragmentsAssumption DEF FragmentsAssumption
<1>2. NewMessage(n) \in Message /\ NewMessage(n).n = n
  BY NewMessageType DEF SendInv, SendTooLong
<1>3. returned' \in Seq(Statuses) /\ Len(returned') <= MaxSends
  BY ReturnsType DEF SendInv, SendTooLong, Statuses
<1>4. SendTypeOK'
  BY <1>2, <1>3 DEF SendInv, SendTypeOK, SendTooLong
<1> QED
  BY <1>1, <1>2, <1>4 DEF SendInv, SendTypeOK, SendTooLong

LEMMA UnicastStep ==
  ASSUME SendInv, NEW n \in Lengths, SendUnicast(n)
  PROVE  SendInv'
<1>1. n \in Nat \ {0} /\ Byte \in Nat /\ n <= Byte - 1 /\ Window \in 1 .. 8
      /\ Window < Byte
  BY FragmentsAssumption DEF FragmentsAssumption, SendUnicast
<1>2. NewMessage(n) \in Message /\ NewMessage(n).n = n
  BY NewMessageType DEF SendInv, SendUnicast
<1>3. PICK taken \in SUBSET NextWindow :
        /\ SendNextFragments(TRUE, stack, 0, taken)
        /\ sending' = (taken = NextWindow)
        /\ Returns(IF taken = NextWindow THEN "SUCCESS" ELSE "FAILED")
  BY DEF SendUnicast
<1>4. /\ txMessage' = NewMessage(n) /\ UNCHANGED reports
      /\ txFragmentCount' = n /\ txFragmentBase' = 0
  BY DEF SendUnicast
<1>5. /\ IsFiniteSet(stack')
      /\ stack' \subseteq UNION {FragmentsOf(m) : m \in Message}
      /\ refused' \in 0 .. Refusals
      /\ txFragmentsInTransit' \in 0 .. Byte - 1
      /\ taken # {} => CountsOwed'
  <2>1. /\ SendTypeOK /\ IsFiniteSet(stack)
        /\ txFragmentCount' \in 0 .. Byte - 1 /\ txFragmentBase' \in 0 .. Byte - 1
        /\ txMessage' \in Message /\ txFragmentCount' <= txMessage'.n
    BY <1>1, <1>2, <1>4 DEF SendInv
  <2> QED
    BY <1>3, <2>1, WindowStep
<1>6. NextWindow # {}
  <2>1. 0 \in {j \in 0 .. 0 + Window - 1 : j < n}
    BY <1>1
  <2> QED
    BY <1>4, <2>1 DEF NextWindow, WindowAt
<1>7. returned' \in Seq(Statuses) /\ Len(returned') <= MaxSends
  BY <1>3, ReturnsType DEF SendInv, SendUnicast, Statuses
<1>8. SendTypeOK'
  BY <1>1, <1>2, <1>3, <1>4, <1>5, <1>7 DEF SendInv, SendTypeOK
<1> QED
  <2>1. txMessage' \in Message /\ txFragmentCount' <= txMessage'.n
    BY <1>1, <1>2, <1>4
  <2>2. sending' => CountsOwed'
    BY <1>3, <1>5, <1>6
  <2> QED
    BY <1>5, <1>8, <2>1, <2>2 DEF SendInv

LEMMA FragmentSentStep ==
  ASSUME SendInv, NEW f \in stack, FragmentSent(f)
  PROVE  SendInv'
<1>1. txFragmentsInTransit' \in 0 .. Byte - 1
  BY OneLess DEF SendInv, SendTypeOK, FragmentSent, InTransitLess1
<1>2. IsFiniteSet(stack') /\ stack' \subseteq stack
  BY FS_RemoveElement DEF SendInv, FragmentSent
<1>3. SendTypeOK'
  BY <1>1, <1>2 DEF SendInv, SendTypeOK, FragmentSent
<1>4. ASSUME sending, txMessage.n < Byte  PROVE CountsOwed'
  <2>1. /\ txFragmentsInTransit \in Nat /\ CountsOwed
        /\ txFragmentsInTransit' = txFragmentsInTransit - 1
        /\ txFragmentsInTransit' # 0
    BY <1>4, OneLess, FragmentsAssumption
       DEF FragmentsAssumption, SendInv, SendTypeOK, FragmentSent,
           InTransitLess1, CountsOwed
  <2>2. Owed' = Owed \ {f}
    BY DEF Owed, FragmentSent
  <2>3. IsFiniteSet(Owed)
    BY FS_Subset, Owed \in SUBSET stack DEF Owed, SendInv
  <2>4. Cardinality(Owed) \in Nat
    BY <2>3, FS_CardinalityType
  <2>5. Cardinality(Owed \ {f}) = IF f \in Owed THEN Cardinality(Owed) - 1
                                  ELSE Cardinality(Owed)
    BY <2>3, FS_RemoveElement
  <2> QED
    BY <2>1, <2>2, <2>4, <2>5 DEF CountsOwed
<1> QED
  BY <1>2, <1>3, <1>4 DEF SendInv, FragmentSent

LEMMA WindowSentStep ==
  ASSUME SendInv, NEW f \in stack, WindowSent(f)
  PROVE  SendInv'
<1>1. PICK taken \in SUBSET NextWindow :
       /\ SendNextFragments(sending, stack \ {f}, 0, taken)
       /\ IF taken = NextWindow /\ taken # {} THEN UNCHANGED <<sending, reports>>
          ELSE /\ sending' = FALSE
               /\ IF taken = NextWindow THEN Report("SUCCESS")
                  ELSE IF sending THEN Report("FAILED")
                  ELSE UNCHANGED reports
  BY DEF WindowSent
<1>2. /\ UNCHANGED <<txMessage, txFragmentCount, returned>>
      /\ txFragmentBase' \in 0 .. Byte - 1
      /\ txFragmentCount' \in 0 .. Byte - 1
      /\ sending \in BOOLEAN
      /\ txMessage \in Message
  BY FragmentsAssumption
     DEF FragmentsAssumption, WindowSent, SendInv, SendTypeOK
<1>3. IsFiniteSet(stack \ {f}) /\ stack \ {f} \subseteq stack
  BY FS_RemoveElement DEF SendInv
<1>4. /\ IsFiniteSet(stack')
      /\ stack' \subseteq UNION {FragmentsOf(m) : m \in Message}
      /\ refused' \in 0 .. Refusals
      /\ txFragmentsInTransit' \in 0 .. Byte - 1
      /\ sending /\ taken # {} => CountsOwed'
      /\ ~sending => taken = {}
  BY <1>1, <1>2, <1>3, WindowStep DEF SendInv
<1>5. reports' \in [1 .. MaxSends -> Seq({"SUCCESS", "FAILED"})]
  <2>1. SendTypeOK
    BY DEF SendInv
  <2>2. \/ UNCHANGED reports \/ Report("SUCCESS") \/ Report("FAILED")
    BY <1>1
  <2> QED
    BY <2>1, <2>2, ReportType DEF SendTypeOK
<1>6. sending' \in BOOLEAN /\ (sending' => sending /\ taken # {})
  BY <1>1, <1>2, <1>4
<1>7. SendTypeOK'
  BY <1>2, <1>4, <1>5, <1>6 DEF SendInv, SendTypeOK
<1> QED
  BY <1>2, <1>4, <1>6, <1>7 DEF SendInv

LEMMA FragmentFailedStep ==
  ASSUME SendInv, NEW f \in stack, FragmentFailed(f)
  PROVE  SendInv'
<1>1. IsFiniteSet(stack') /\ stack' \subseteq stack /\ sending' = FALSE
  BY FS_RemoveElement DEF SendInv, FragmentFailed
<1>2. reports' \in [1 .. MaxSends -> Seq({"SUCCESS", "FAILED"})]
  BY ReportType DEF SendInv, SendTypeOK, FragmentFailed
<1>3. SendTypeOK'
  BY <1>1, <1>2 DEF SendInv, SendTypeOK, FragmentFailed
<1> QED
  BY <1>1, <1>3 DEF SendInv, FragmentFailed

-----------------------------------------------------------------------------

LEMMA SendInvStep == SendInv /\ [SendNext]_sendVars => SendInv'
<1> SUFFICES ASSUME SendInv, [SendNext]_sendVars  PROVE SendInv'
  OBVIOUS
<1>1. CASE Call
  BY <1>1, RefusedStep, TooLongStep, UnicastStep DEF Call
<1>2. CASE \E f \in stack : FragmentSent(f) \/ WindowSent(f) \/ FragmentFailed(f)
  BY <1>2, FragmentSentStep, WindowSentStep, FragmentFailedStep
<1>3. CASE UNCHANGED sendVars
  BY <1>3 DEF sendVars, SendInv, SendTypeOK, CountsOwed, Owed
<1> QED
  BY <1>1, <1>2, <1>3 DEF SendNext

\* The network, the receiver and the stacks leave the sender to its own steps.
LEMMA FragStepIsSendStep == [FragNext]_fragVars => [SendNext]_sendVars
<1> SUFFICES ASSUME [FragNext]_fragVars  PROVE [SendNext]_sendVars
  OBVIOUS
<1>1. CASE SenderCalls
  BY <1>1 DEF SenderCalls, SendNext
<1>2. CASE ReportsSent
  BY <1>2 DEF ReportsSent, SendNext
<1>3. CASE ReportsFailed
  BY <1>3 DEF ReportsFailed, SendNext
<1>4. CASE Resend \/ LosesFragment \/ FragmentArrives \/ ReceiverAborts
  BY <1>4 DEF Resend, LosesFragment, FragmentArrives, ReceiverAborts
<1>5. CASE UNCHANGED fragVars
  BY <1>5 DEF fragVars
<1> QED
  BY <1>1, <1>2, <1>3, <1>4, <1>5 DEF FragNext

LEMMA OwedSome == SendInv => BusyIsOwed
<1> SUFFICES ASSUME SendInv, sending, txMessage.n < Byte, Owed = {}  PROVE FALSE
  BY DEF BusyIsOwed, Owed
<1>1. /\ 1 <= txFragmentsInTransit /\ txFragmentsInTransit <= Cardinality(Owed)
      /\ txFragmentsInTransit \in Nat
  BY FragmentsAssumption
     DEF FragmentsAssumption, SendInv, SendTypeOK, CountsOwed
<1>2. Cardinality(Owed) = 0
  BY FS_EmptySet
<1> QED
  BY <1>1, <1>2

\* The variables of fragmentation.c keep to their bytes, and the stack to
\* fragments of messages that were sent.
THEOREM SendTypes == SendSpec => []SendTypeOK
<1>1. SendInv => SendTypeOK
  BY DEF SendInv
<1> QED
  BY <1>1, InitStep, SendInvStep, PTL DEF SendSpec

\* However the stack reports and refuses, the sender is busy only while a
\* report of its message is to come, which ends its wait.
THEOREM SenderNeverBlocked == SendSpec => []BusyIsOwed
  BY InitStep, SendInvStep, OwedSome, PTL DEF SendSpec

\* The same between two nodes, over a network that loses, delays and repeats.
THEOREM BusyOnlyWhileOwed == FragSpec => []BusyIsOwed
<1>1. FragInit => SendInv
  BY InitStep DEF FragInit
<1>2. SendInv /\ [FragNext]_fragVars => SendInv'
  BY FragStepIsSendStep, SendInvStep
<1> QED
  BY <1>1, <1>2, OwedSome, PTL DEF FragSpec

-----------------------------------------------------------------------------
(* Sender, network and receiver together: what is passed on is whole.      *)

\* Applications that wait, a network that keeps the order, and messages of at
\* least a window that the buffer holds and a byte can count to the end.
Orderly ==
  /\ Patient /\ ~Reorder
  /\ \A n \in Lengths :
       n < Byte => Window <= n /\ n <= BufferSize /\ n + Window <= Byte

\* Windows begin at multiples of their size.
Bases == {b \in Nat : b % Window = 0}

\* The window of g is not before that of f.
NotBefore(f, g) == \A b \in Bases : b <= f.i => b <= g.i

\* Fragments of messages sent so far, those of the present one up to its window
AnyFragment == [msg : Message, i : Nat]
SentUpTo(f, m, base) ==
  /\ f \in AnyFragment /\ f.msg.n < Byte /\ f.i < f.msg.n
  /\ f.msg.id <= m.id
  /\ f.msg = m => f.i < base + Window
Sent(f) == SentUpTo(f, txMessage, txFragmentBase)

\* The stack holds fragments of the present window alone, and each is counted.
StackInv ==
  /\ txMessage.id <= Len(returned)
  /\ txFragmentBase \in Bases
  /\ txFragmentCount = txMessage.n \/ stack = {}
  /\ \A f \in stack : f.msg = txMessage /\ Sent(f) /\ txFragmentBase <= f.i
  /\ Cardinality(stack) <= txFragmentsInTransit

\* What is under way of a message is under way window after window.
Line(c, m, base) ==
  /\ c \in Seq(AnyFragment)
  /\ \A k \in 1 .. Len(c) : SentUpTo(c[k], m, base)
  /\ \A j, k \in 1 .. Len(c) : j < k /\ c[j].msg = c[k].msg => NotBefore(c[j], c[k])
LineInv == Line(channel, txMessage, txFragmentBase)

\* The receiver's variables while it puts a message together
Receiver ==
  [source : Message, base : Nat, expected : Nat, received : Nat,
   mask : SUBSET Bits, stored : SUBSET Nat, buffer : Seq(Nat)]

\* What they have to do with each other: the mask shows the fragments of the
\* present window, the counter all, and the buffer has them in order.
Gathered(r) ==
  /\ r \in Receiver /\ r.source.n < Byte
  /\ r.base \in Bases /\ r.base < r.source.n
  /\ r.stored \subseteq 0 .. r.source.n - 1
  /\ \A i \in r.stored : i < r.base + Window
  /\ 0 .. r.base - 1 \subseteq r.stored
  /\ r.expected = IF 0 \in r.stored THEN r.source.n ELSE Byte - 1
  /\ r.mask = MaskAt(r.base, r.expected)
                \cup {i - r.base : i \in {j \in r.stored : r.base <= j}}
  /\ r.received = Cardinality(r.stored)
  /\ Len(r.buffer) = Cardinality(r.stored)
  /\ \A k \in 1 .. Len(r.buffer) :
       r.buffer[k] \in r.stored /\ PlaceOf(r, r.buffer[k]) = k

Complete(r) == r.stored = 0 .. r.source.n - 1

\* Between two fragments nothing or a part is put together.
Between(r) == r.source # NoMessage => Gathered(r) /\ ~Complete(r)

\* Nothing under way is of a window that the receiver has left.
RecvInv ==
  rx.source # NoMessage =>
    /\ rx.source.id <= txMessage.id
    /\ rx.source = txMessage => rx.base <= txFragmentBase
    /\ \A k \in 1 .. Len(channel) :
         channel[k].msg = rx.source => rx.base <= channel[k].i

FragInv == /\ SendInv /\ StackInv /\ LineInv
           /\ Between(rx) /\ RecvInv /\ WholeMessages

-----------------------------------------------------------------------------
(* Arithmetic of windows.                                                  *)

LEMMA WindowSizes ==
  /\ Byte \in Nat /\ Window \in 1 .. 8 /\ Window < Byte
  /\ MaxReceived \in Nat /\ BufferSize \in Nat
  /\ Lengths \subseteq Nat \ {0} /\ MaxSends \in Nat
  BY FragmentsAssumption, FragmentReceiveAssumption
     DEF FragmentsAssumption, FragmentReceiveAssumption

LEMMA WindowCases ==
  \/ Window = 1 \/ Window = 2 \/ Window = 3 \/ Window = 4
  \/ Window = 5 \/ Window = 6 \/ Window = 7 \/ Window = 8
  BY FragmentsAssumption DEF FragmentsAssumption

LEMMA MessageNumbers ==
  ASSUME NEW m \in Message
  PROVE  m.id \in Nat /\ m.n \in Nat /\ m.n \in Lengths /\ m.id >= 1 /\ m.n >= 1
<1>1. m.id \in 1 .. MaxSends /\ m.n \in Lengths
  BY DEF Message
<1>2. m.n \in Nat \ {0}
  BY <1>1, WindowSizes
<1>3. m.id \in Nat /\ m.id >= 1
  BY <1>1, WindowSizes
<1>4. m.n >= 1
  BY <1>2
<1> QED
  BY <1>1, <1>2, <1>3, <1>4

\* Of two bases less than a window apart one is not above the other.
LEMMA BasesApart ==
  ASSUME NEW a \in Bases, NEW b \in Bases, b < a + Window
  PROVE  b <= a
<1>1. a \in Nat /\ b \in Nat /\ a % Window = 0 /\ b % Window = 0
  BY DEF Bases
<1>2. CASE Window = 1
  BY <1>1, <1>2
<1>3. CASE Window = 2
  BY <1>1, <1>3
<1>4. CASE Window = 3
  BY <1>1, <1>4
<1>5. CASE Window = 4
  BY <1>1, <1>5
<1>6. CASE Window = 5
  BY <1>1, <1>6
<1>7. CASE Window = 6
  BY <1>1, <1>7
<1>8. CASE Window = 7
  BY <1>1, <1>8
<1>9. CASE Window = 8
  BY <1>1, <1>9
<1> QED
  BY <1>2, <1>3, <1>4, <1>5, <1>6, <1>7, <1>8, <1>9, WindowCases

\* The place of a fragment in its window, and the next base
LEMMA PlaceInWindow ==
  ASSUME NEW a \in Bases, NEW i \in Nat, a <= i, i < a + Window
  PROVE  i % Window = i - a
<1>1. a \in Nat /\ a % Window = 0
  BY DEF Bases
<1>2. CASE Window = 1
  BY <1>1, <1>2
<1>3. CASE Window = 2
  BY <1>1, <1>3
<1>4. CASE Window = 3
  BY <1>1, <1>4
<1>5. CASE Window = 4
  BY <1>1, <1>5
<1>6. CASE Window = 5
  BY <1>1, <1>6
<1>7. CASE Window = 6
  BY <1>1, <1>7
<1>8. CASE Window = 7
  BY <1>1, <1>8
<1>9. CASE Window = 8
  BY <1>1, <1>9
<1> QED
  BY <1>2, <1>3, <1>4, <1>5, <1>6, <1>7, <1>8, <1>9, WindowCases

LEMMA NextBase ==
  ASSUME NEW a \in Bases
  PROVE  a + Window \in Bases /\ a + Window \in Nat /\ a \in Nat
<1>1. a \in Nat /\ a % Window = 0
  BY DEF Bases
<1>2. (a + Window) % Window = 0
  <2>2. CASE Window = 1
    BY <1>1, <2>2
  <2>3. CASE Window = 2
    BY <1>1, <2>3
  <2>4. CASE Window = 3
    BY <1>1, <2>4
  <2>5. CASE Window = 4
    BY <1>1, <2>5
  <2>6. CASE Window = 5
    BY <1>1, <2>6
  <2>7. CASE Window = 6
    BY <1>1, <2>7
  <2>8. CASE Window = 7
    BY <1>1, <2>8
  <2>9. CASE Window = 8
    BY <1>1, <2>9
  <2> QED
    BY <2>2, <2>3, <2>4, <2>5, <2>6, <2>7, <2>8, <2>9, WindowCases
<1> QED
  BY <1>1, <1>2, WindowSizes DEF Bases

LEMMA ZeroIsBase == 0 \in Bases
<1>1. 0 % Window = 0
  BY WindowSizes
<1> QED
  BY <1>1 DEF Bases

-----------------------------------------------------------------------------
(* The sender and its stack.                                               *)

\* A sender goes on to later windows and later messages.
MovesOn == \/ txMessage' = txMessage /\ txFragmentBase <= txFragmentBase'
          \/ txMessage.id < txMessage'.id

LeftIsSent == \A k \in 1 .. Cardinality(stack' \ stack) :
                SentUpTo(Fragment(txMessage', txFragmentBase' + k - 1),
                         txMessage', txFragmentBase')

SenderStep == StackInv' /\ MovesOn /\ LeftIsSent

LEMMA SentLater ==
  ASSUME NEW f, NEW m, NEW n, m.id \in Nat, n.id \in Nat,
         NEW a \in Nat, NEW b \in Nat, SentUpTo(f, m, a),
         (m = n /\ a <= b) \/ m.id < n.id
  PROVE  SentUpTo(f, n, b)
<1>1. f.msg \in Message /\ f.msg.id \in Nat /\ f.i \in Nat
  BY MessageNumbers DEF SentUpTo, AnyFragment
<1> QED
  BY <1>1, WindowSizes DEF SentUpTo

\* What the stack takes of a window
LEMMA TakenOfWindow ==
  ASSUME NEW m \in Message, m.n < Byte, NEW base \in Nat,
         NEW T \in SUBSET WindowAt(m, m.n, base)
  PROVE  /\ IsFiniteSet(T) /\ Cardinality(T) \in 0 .. Window
         /\ \A f \in T : f.msg = m /\ SentUpTo(f, m, base) /\ base <= f.i
         /\ \A k \in 1 .. Cardinality(T) :
              SentUpTo(Fragment(m, base + k - 1), m, base)
<1> DEFINE top == IF base + Window < m.n THEN base + Window ELSE m.n
           number == [f \in T |-> f.i]
<1>1. /\ m.n \in Nat /\ m.id \in Nat /\ Window \in 1 .. 8 /\ Byte \in Nat
  BY WindowSizes, MessageNumbers
<1>2. \A f \in T : /\ f = Fragment(m, f.i) /\ f.i \in Nat /\ base <= f.i
                   /\ f.i < base + Window /\ f.i < m.n
  BY <1>1 DEF WindowAt, Fragment
<1>3. number \in Injection(T, base .. top - 1)
  <2>1. number \in [T -> base .. top - 1]
    BY <1>1, <1>2
  <2>2. ASSUME NEW f \in T, NEW g \in T, number[f] = number[g]  PROVE f = g
    BY <1>2, <2>2
  <2>3. QED
    BY <2>1, <2>2 DEF Injection, IsInjective
<1>4. /\ IsFiniteSet(base .. top - 1)
      /\ Cardinality(base .. top - 1) =
           IF base > top - 1 THEN 0 ELSE (top - 1) - base + 1
  <2>1. base \in Int /\ top - 1 \in Int
    BY <1>1
  <2> HIDE DEF top
  <2> QED
    BY <2>1, FS_Interval
<1>5. /\ IsFiniteSet(T) /\ Cardinality(T) <= Cardinality(base .. top - 1)
      /\ Cardinality(T) \in Nat
  BY <1>3, <1>4, FS_Injection, FS_CardinalityType
<1>6. Cardinality(T) <= Window /\ (Cardinality(T) = 0 \/ Cardinality(T) <= m.n - base)
  BY <1>1, <1>4, <1>5
<1>7. ASSUME NEW f \in T
      PROVE  f.msg = m /\ SentUpTo(f, m, base) /\ base <= f.i
  BY <1>1, <1>2 DEF SentUpTo, AnyFragment, Fragment
<1>8. ASSUME NEW k \in 1 .. Cardinality(T)
      PROVE  SentUpTo(Fragment(m, base + k - 1), m, base)
  <2>1. base + k - 1 \in Nat /\ base + k - 1 < m.n /\ base + k - 1 < base + Window
    BY <1>1, <1>5, <1>6
  <2>2. Fragment(m, base + k - 1) \in AnyFragment
    BY <2>1 DEF Fragment, AnyFragment
  <2> QED
    BY <1>1, <2>1, <2>2 DEF SentUpTo, Fragment
<1> QED
  BY <1>1, <1>5, <1>6, <1>7, <1>8

LEMMA SenderTypes ==
  ASSUME SendInv, StackInv
  PROVE  /\ txMessage.id \in Nat /\ txMessage.n \in Nat
         /\ txFragmentBase \in Nat /\ Len(returned) \in Nat
         /\ txFragmentsInTransit \in 0 .. Byte - 1
         /\ IsFiniteSet(stack) /\ Cardinality(stack) \in Nat
         /\ Cardinality(stack \ stack) = 0
         /\ stack # {} => txMessage \in Message /\ txMessage.n < Byte
<1>1. txMessage.id \in Nat /\ txMessage.n \in Nat
  <2>1. txMessage \in Message \cup {NoMessage}
    BY DEF SendInv, SendTypeOK
  <2>2. CASE txMessage \in Message
    BY <2>2, MessageNumbers
  <2>3. CASE txMessage = NoMessage
    BY <2>3 DEF NoMessage
  <2> QED
    BY <2>1, <2>2, <2>3
<1>2. Len(returned) \in Nat
  BY LenProperties DEF SendInv, SendTypeOK
<1>3. stack \ stack = {} /\ Cardinality(stack \ stack) = 0
  BY FS_EmptySet
<1>4. stack # {} => txMessage \in Message /\ txMessage.n < Byte
  BY DEF SendInv, StackInv, Sent, SentUpTo
<1> QED
  BY <1>1, <1>2, <1>3, <1>4, FS_CardinalityType
     DEF SendInv, SendTypeOK, StackInv, Bases

LEMMA NothingLeft ==
  ASSUME stack' \subseteq stack
  PROVE  Cardinality(stack' \ stack) = 0 /\ LeftIsSent
<1>1. stack' \ stack = {}
  OBVIOUS
<1>2. Cardinality(stack' \ stack) = 0
  BY <1>1, FS_EmptySet
<1>3. 1 .. Cardinality(stack' \ stack) = {}
  BY <1>2
<1> QED
  BY <1>2, <1>3 DEF LeftIsSent

LEMMA RefusedSender ==
  ASSUME SendInv, StackInv, SendRefused
  PROVE  SenderStep
<1>1. /\ UNCHANGED <<txMessage, txFragmentCount, txFragmentBase,
                     txFragmentsInTransit, stack>>
      /\ Returns("LIMIT")
  BY DEF SendRefused
<1>2. Len(returned') = Len(returned) + 1
  BY <1>1, AppendProperties DEF Returns, SendInv, SendTypeOK, Statuses
<1>3. StackInv'
  BY <1>1, <1>2, SenderTypes DEF StackInv, Sent
<1>4. MovesOn
  BY <1>1, SenderTypes DEF MovesOn
<1> QED
  BY <1>1, <1>3, <1>4, NothingLeft DEF SenderStep

LEMMA TooLongSender ==
  ASSUME Orderly, SendInv, StackInv, NEW n \in Lengths, SendTooLong(n)
  PROVE  SenderStep
<1>1. /\ txMessage' = NewMessage(n) /\ stack = {} /\ Returns("TOO_LONG")
      /\ UNCHANGED <<txFragmentCount, txFragmentBase, txFragmentsInTransit, stack>>
  BY DEF SendTooLong, Calls, Orderly
<1>2. Len(returned') = Len(returned) + 1
  BY <1>1, AppendProperties DEF Returns, SendInv, SendTypeOK, Statuses
<1>3. txMessage'.id = Len(returned) + 1
  BY <1>1 DEF NewMessage
<1>4. StackInv'
  BY <1>1, <1>2, <1>3, SenderTypes DEF StackInv
<1>5. MovesOn
  BY <1>3, SenderTypes DEF MovesOn, StackInv
<1> QED
  BY <1>1, <1>4, <1>5, NothingLeft DEF SenderStep

\* A window handed to a stack that holds nothing else
LEMMA WindowHanded ==
  ASSUME NEW valid \in BOOLEAN, NEW taken \in SUBSET NextWindow, NEW held,
         held = {}, SendNextFragments(valid, held, 0, taken),
         txMessage' \in Message, txMessage'.n < Byte,
         txFragmentCount' = txMessage'.n, txFragmentBase' \in Bases,
         txMessage'.id <= Len(returned')
  PROVE  StackInv' /\ LeftIsSent
<1>1. txFragmentBase' \in Nat /\ Byte \in Nat /\ Window \in 1 .. 8 /\ Window < Byte
  BY WindowSizes DEF Bases
<1>2. taken \in SUBSET WindowAt(txMessage', txMessage'.n, txFragmentBase')
  BY DEF NextWindow
<1>3. /\ IsFiniteSet(taken) /\ Cardinality(taken) \in 0 .. Window
      /\ \A f \in taken : /\ f.msg = txMessage'
                          /\ SentUpTo(f, txMessage', txFragmentBase')
                          /\ txFragmentBase' <= f.i
  BY <1>1, <1>2, TakenOfWindow
<1>4. stack' = taken /\ txFragmentsInTransit' = Cardinality(taken) % Byte
  BY <1>1, <1>3 DEF SendNextFragments
<1>5. txFragmentsInTransit' = Cardinality(taken)
  BY <1>1, <1>3, <1>4
<1>6. StackInv'
  BY <1>3, <1>4, <1>5 DEF StackInv, Sent
<1>7. LeftIsSent
  <2>1. stack' \ stack \in SUBSET WindowAt(txMessage', txMessage'.n, txFragmentBase')
    BY <1>2, <1>4
  <2> QED
    BY <1>1, <2>1, TakenOfWindow DEF LeftIsSent
<1> QED
  BY <1>6, <1>7

LEMMA UnicastSender ==
  ASSUME Orderly, SendInv, StackInv, NEW n \in Lengths, SendUnicast(n)
  PROVE  SenderStep
<1>1. PICK taken \in SUBSET NextWindow :
        /\ SendNextFragments(TRUE, stack, 0, taken)
        /\ Returns(IF taken = NextWindow THEN "SUCCESS" ELSE "FAILED")
  BY DEF SendUnicast
<1>2. /\ txMessage' = NewMessage(n) /\ stack = {} /\ n < Byte
      /\ txFragmentCount' = n /\ txFragmentBase' = 0
  BY WindowSizes DEF SendUnicast, Calls, Orderly
<1>3. NewMessage(n) \in Message /\ NewMessage(n).n = n
  BY NewMessageType DEF SendInv, SendUnicast
<1>4. Len(returned') = Len(returned) + 1
  BY <1>1, AppendProperties DEF Returns, SendInv, SendTypeOK, Statuses
<1>5. txMessage'.id = Len(returned) + 1
  BY <1>2 DEF NewMessage
<1>6. StackInv' /\ LeftIsSent
  <2>1. /\ txMessage' \in Message /\ txMessage'.n < Byte
        /\ txFragmentCount' = txMessage'.n /\ txFragmentBase' \in Bases
        /\ txMessage'.id <= Len(returned')
    BY <1>2, <1>3, <1>4, <1>5, ZeroIsBase, SenderTypes
  <2> QED
    BY <1>1, <1>2, <2>1, WindowHanded
<1>7. MovesOn
  BY <1>5, SenderTypes DEF MovesOn, StackInv
<1> QED
  BY <1>6, <1>7 DEF SenderStep

\* A report of a fragment that is not the last in transit
LEMMA LessInStack ==
  ASSUME SendInv, StackInv, NEW f \in stack
  PROVE  /\ IsFiniteSet(stack \ {f})
         /\ Cardinality(stack \ {f}) = Cardinality(stack) - 1
         /\ Cardinality(stack) >= 1 /\ txFragmentsInTransit >= 1
         /\ InTransitLess1 = txFragmentsInTransit - 1
<1>1. IsFiniteSet(stack \ {f}) /\ Cardinality(stack \ {f}) = Cardinality(stack) - 1
  BY SenderTypes, FS_RemoveElement
<1>2. Cardinality(stack \ {f}) \in Nat
  BY <1>1, FS_CardinalityType
<1>3. Cardinality(stack) >= 1 /\ txFragmentsInTransit >= 1
  BY <1>1, <1>2, SenderTypes, WindowSizes DEF StackInv
<1> QED
  BY <1>1, <1>3, SenderTypes, OneLess DEF InTransitLess1

LEMMA SentSender ==
  ASSUME SendInv, StackInv, NEW f \in stack, FragmentSent(f)
  PROVE  SenderStep
<1>1. /\ stack' = stack \ {f} /\ txFragmentsInTransit' = InTransitLess1
      /\ UNCHANGED <<txMessage, txFragmentCount, txFragmentBase, returned>>
  BY DEF FragmentSent
<1>0. /\ Cardinality(stack \ {f}) = Cardinality(stack) - 1
      /\ Cardinality(stack) \in Nat /\ txFragmentsInTransit \in Int
      /\ InTransitLess1 = txFragmentsInTransit - 1
  <2>1. Cardinality(stack) \in Nat /\ txFragmentsInTransit \in Int
    BY SenderTypes, WindowSizes
  <2> QED
    BY <2>1, LessInStack
<1>2. StackInv'
  BY <1>0, <1>1 DEF StackInv, Sent
<1>3. MovesOn
  BY <1>1, SenderTypes DEF MovesOn
<1> QED
  BY <1>1, <1>2, <1>3, NothingLeft DEF SenderStep

LEMMA FailedSender ==
  ASSUME SendInv, StackInv, NEW f \in stack, FragmentFailed(f)
  PROVE  SenderStep
<1>1. /\ stack' = stack \ {f}
      /\ UNCHANGED <<txMessage, txFragmentCount, txFragmentBase,
                     txFragmentsInTransit, returned>>
  BY DEF FragmentFailed
<1>0. /\ Cardinality(stack \ {f}) = Cardinality(stack) - 1
      /\ Cardinality(stack) \in Nat /\ txFragmentsInTransit \in Int
      /\ InTransitLess1 = txFragmentsInTransit - 1
  <2>1. Cardinality(stack) \in Nat /\ txFragmentsInTransit \in Int
    BY SenderTypes, WindowSizes
  <2> QED
    BY <2>1, LessInStack
<1>2. StackInv'
  BY <1>0, <1>1 DEF StackInv, Sent
<1>3. MovesOn
  BY <1>1, SenderTypes DEF MovesOn
<1> QED
  BY <1>1, <1>2, <1>3, NothingLeft DEF SenderStep

LEMMA WindowSender ==
  ASSUME Orderly, SendInv, StackInv, NEW f \in stack, WindowSent(f)
  PROVE  /\ SenderStep /\ stack = {f}
         /\ txFragmentBase' = txFragmentBase + Window
<1>1. PICK taken \in SUBSET NextWindow :
       SendNextFragments(sending, stack \ {f}, 0, taken)
  BY DEF WindowSent
<1>2. /\ UNCHANGED <<txMessage, txFragmentCount, returned>>
      /\ txFragmentBase' = (txFragmentBase + Window) % Byte
      /\ InTransitLess1 = 0
  BY DEF WindowSent
<1>3. stack \ {f} = {} /\ stack = {f}
  <2>1. Cardinality(stack \ {f}) = 0
    <3>1. /\ Cardinality(stack \ {f}) = Cardinality(stack) - 1
          /\ Cardinality(stack) \in Nat /\ Cardinality(stack) >= 1
          /\ txFragmentsInTransit \in Int
          /\ InTransitLess1 = txFragmentsInTransit - 1
      <4>1. Cardinality(stack) \in Nat /\ txFragmentsInTransit \in Int
        BY SenderTypes, WindowSizes
      <4> QED
        BY <4>1, LessInStack
    <3>2. Cardinality(stack) <= txFragmentsInTransit
      BY DEF StackInv
    <3> QED
      BY <1>2, <3>1, <3>2
  <2>2. stack \ {f} = {}
    BY <2>1, LessInStack, FS_EmptySet
  <2> QED
    BY <2>2
<1>4. /\ txMessage \in Message /\ txMessage.n < Byte /\ txMessage.n \in Lengths
      /\ txFragmentCount = txMessage.n
      /\ txFragmentBase < txMessage.n
  BY SenderTypes DEF StackInv, Message, Sent, SentUpTo, AnyFragment
<1>5. txMessage.n + Window <= Byte
  BY <1>4 DEF Orderly
<1>6. txFragmentBase' = txFragmentBase + Window
  <2>1. /\ txFragmentBase \in Nat /\ txMessage.n \in Nat
        /\ Window \in Nat /\ Byte \in Nat
    BY SenderTypes, WindowSizes
  <2>2. txFragmentBase + Window \in 0 .. Byte - 1
    BY <1>4, <1>5, <2>1
  <2>3. \A k \in 0 .. Byte - 1 : k % Byte = k
    BY <2>1
  <2> QED
    BY <1>2, <2>2, <2>3
<1>7. txFragmentBase' \in Bases
  BY <1>6, NextBase DEF StackInv
<1>8. StackInv' /\ LeftIsSent
  <2>1. sending \in BOOLEAN
    BY DEF SendInv, SendTypeOK
  <2>2. /\ txMessage' \in Message /\ txMessage'.n < Byte
        /\ txFragmentCount' = txMessage'.n
        /\ txMessage'.id <= Len(returned')
    BY <1>2, <1>4 DEF StackInv
  <2> QED
    BY <1>1, <1>3, <1>7, <2>1, <2>2, WindowHanded
<1>9. MovesOn
  <2>1. txFragmentBase \in Nat /\ Window \in Nat
    BY SenderTypes, WindowSizes
  <2> QED
    BY <1>2, <1>6, <2>1 DEF MovesOn
<1> QED
  BY <1>3, <1>6, <1>8, <1>9 DEF SenderStep

LEMMA CallSender ==
  ASSUME Orderly, SendInv, StackInv, Call
  PROVE  SenderStep
  BY RefusedSender, TooLongSender, UnicastSender DEF Call

LEMMA ReportSender ==
  ASSUME Orderly, SendInv, StackInv, NEW f \in stack,
         FragmentSent(f) \/ WindowSent(f) \/ FragmentFailed(f)
  PROVE  SenderStep
  BY SentSender, WindowSender, FailedSender

-----------------------------------------------------------------------------
(* The network.                                                            *)

\* The j-th element of a sequence without its i-th
Skipping(i, j) == IF j < i THEN j ELSE j + 1
Without(v, u, i) ==
  /\ Len(v) = Len(u) - 1
  /\ \A j \in 1 .. Len(u) - 1 : v[j] = u[Skipping(i, j)]

LEMMA RemoveAtElements ==
  ASSUME NEW S, NEW s \in Seq(S), NEW i \in 1 .. Len(s)
  PROVE  RemoveAt(s, i) \in Seq(S) /\ Without(RemoveAt(s, i), s, i)
<1> DEFINE a == SubSeq(s, 1, i - 1)
           b == SubSeq(s, i + 1, Len(s))
<1>1. Len(s) \in Nat /\ \A j \in 1 .. Len(s) : s[j] \in S
  BY ElementOfSeq, LenProperties
<1>2. /\ a \in Seq(S) /\ Len(a) = i - 1
      /\ \A j \in 1 .. i - 1 : a[j] = s[j]
  <2>1. /\ 1 \in Int /\ i - 1 \in Int /\ \A j \in 1 .. i - 1 : s[j] \in S
    BY <1>1
  <2>2. /\ a \in Seq(S)
        /\ Len(a) = IF 1 <= i - 1 THEN (i - 1) - 1 + 1 ELSE 0
        /\ \A j \in 1 .. (i - 1) - 1 + 1 : a[j] = s[1 + j - 1]
    BY <2>1, SubSeqProperties
  <2> QED
    BY <1>1, <2>2
<1>3. /\ b \in Seq(S) /\ Len(b) = Len(s) - i
      /\ \A j \in 1 .. Len(s) - i : b[j] = s[i + j]
  <2>1. /\ i + 1 \in Int /\ Len(s) \in Int
        /\ \A j \in i + 1 .. Len(s) : s[j] \in S
    BY <1>1
  <2>2. /\ b \in Seq(S)
        /\ Len(b) = IF i + 1 <= Len(s) THEN Len(s) - (i + 1) + 1 ELSE 0
        /\ \A j \in 1 .. Len(s) - (i + 1) + 1 : b[j] = s[(i + 1) + j - 1]
    BY <2>1, SubSeqProperties
  <2> QED
    BY <1>1, <2>2
<1>4. RemoveAt(s, i) = a \o b
  BY DEF RemoveAt
<1> HIDE DEF a, b
<1>5. /\ a \o b \in Seq(S) /\ Len(a \o b) = Len(a) + Len(b)
      /\ \A j \in 1 .. Len(a) + Len(b) :
           (a \o b)[j] = IF j <= Len(a) THEN a[j] ELSE b[j - Len(a)]
  BY <1>2, <1>3, ConcatProperties
<1>6. ASSUME NEW j \in 1 .. Len(s) - 1
      PROVE  (a \o b)[j] = s[Skipping(i, j)]
  <2>1. CASE j < i
    BY <1>1, <1>2, <1>3, <1>5, <2>1 DEF Skipping
  <2>2. CASE ~(j < i)
    <3>1. j - (i - 1) \in 1 .. Len(s) - i /\ i + (j - (i - 1)) = j + 1
      BY <1>1, <2>2
    <3>2. (a \o b)[j] = b[j - (i - 1)]
      BY <1>1, <1>2, <1>3, <1>5, <2>2
    <3> QED
      BY <1>3, <2>2, <3>1, <3>2 DEF Skipping
  <2> QED
    BY <2>1, <2>2
<1> QED
  BY <1>1, <1>2, <1>3, <1>4, <1>5, <1>6 DEF Without

\* A message's window goes on to another, and u is of that one.
GoesOn(old, low, m, base) ==
  \A f : SentUpTo(f, old, low) => SentUpTo(f, m, base)
OfWindow(u, m, base) ==
  /\ u \in Seq(AnyFragment)
  /\ \A k \in 1 .. Len(u) :
       u[k].msg = m /\ SentUpTo(u[k], m, base) /\ base <= u[k].i

LEMMA LineExtended ==
  ASSUME NEW c, NEW old, NEW low, Line(c, old, low),
         NEW m, NEW base \in Bases, GoesOn(old, low, m, base),
         NEW u, OfWindow(u, m, base)
  PROVE  /\ Line(c \o u, m, base)
         /\ \A k \in 1 .. Len(c \o u) :
              \/ k \in 1 .. Len(c) /\ (c \o u)[k] = c[k]
              \/ (c \o u)[k].msg = m /\ base <= (c \o u)[k].i
<1> DEFINE d == c \o u
<1>1. /\ c \in Seq(AnyFragment) /\ Len(c) \in Nat /\ Len(u) \in Nat
      /\ \A k \in 1 .. Len(c) : SentUpTo(c[k], old, low)
      /\ u \in Seq(AnyFragment)
  BY LenProperties DEF Line, OfWindow
<1>2. /\ d \in Seq(AnyFragment) /\ Len(d) = Len(c) + Len(u)
      /\ \A k \in 1 .. Len(c) + Len(u) :
           d[k] = IF k <= Len(c) THEN c[k] ELSE u[k - Len(c)]
  BY <1>1, ConcatProperties
<1>3. ASSUME NEW k \in 1 .. Len(d)
      PROVE  \/ k \in 1 .. Len(c) /\ d[k] = c[k]
             \/ /\ k > Len(c) /\ k - Len(c) \in 1 .. Len(u)
                /\ d[k] = u[k - Len(c)]
  BY <1>1, <1>2
<1> HIDE DEF d
<1>4. ASSUME NEW k \in 1 .. Len(d)
      PROVE  /\ SentUpTo(d[k], m, base)
             /\ k \notin 1 .. Len(c) => d[k].msg = m /\ base <= d[k].i
  BY <1>1, <1>3 DEF GoesOn, OfWindow
<1>5. ASSUME NEW j \in 1 .. Len(d), NEW k \in 1 .. Len(d), j < k, d[j].msg = d[k].msg
      PROVE  NotBefore(d[j], d[k])
  <2>1. CASE k \in 1 .. Len(c)
    <3>1. j \in 1 .. Len(c)
      BY <1>1, <1>5, <2>1
    <3>2. d[j] = c[j] /\ d[k] = c[k]
      BY <1>1, <1>3, <2>1, <3>1
    <3> QED
      BY <1>5, <2>1, <3>1, <3>2 DEF Line
  <2>2. CASE k \notin 1 .. Len(c)
    <3>1. d[k].msg = m /\ base <= d[k].i
      BY <1>4, <2>2
    <3>2. SentUpTo(d[j], m, base) /\ SentUpTo(d[k], m, base)
      BY <1>4
    <3>3. d[j].i \in Nat /\ d[j].i < base + Window /\ d[k].i \in Nat
      BY <1>5, <3>1, <3>2 DEF SentUpTo, AnyFragment
    <3>4. ASSUME NEW b \in Bases, b <= d[j].i  PROVE b <= d[k].i
      <4>1. b \in Nat /\ base \in Nat /\ Window \in Nat
        BY WindowSizes DEF Bases
      <4>2. b < base + Window
        BY <3>3, <3>4, <4>1
      <4>3. b <= base
        BY <4>2, BasesApart
      <4> QED
        BY <3>1, <3>3, <4>1, <4>3
    <3> QED
      BY <3>4 DEF NotBefore
  <2> QED
    BY <2>1, <2>2
<1>6. Line(d, m, base)
  BY <1>2, <1>4, <1>5 DEF Line
<1>7. ASSUME NEW k \in 1 .. Len(d)
      PROVE  \/ k \in 1 .. Len(c) /\ d[k] = c[k]
             \/ d[k].msg = m /\ base <= d[k].i
  BY <1>1, <1>3, <1>4
<1> QED
  BY <1>6, <1>7 DEF d

LEMMA LineWithout ==
  ASSUME NEW c, NEW m, NEW base, Line(c, m, base), NEW k \in 1 .. Len(c)
  PROVE  /\ Line(RemoveAt(c, k), m, base)
         /\ \A j \in 1 .. Len(RemoveAt(c, k)) :
              /\ Skipping(k, j) \in 1 .. Len(c) /\ (k = 1 => Skipping(k, j) > 1)
              /\ RemoveAt(c, k)[j] = c[Skipping(k, j)]
<1> DEFINE d == RemoveAt(c, k)
<1>1. c \in Seq(AnyFragment) /\ Len(c) \in Nat
  BY LenProperties DEF Line
<1>2. d \in Seq(AnyFragment) /\ Without(d, c, k)
  BY <1>1, RemoveAtElements
<1> HIDE DEF d
<1>3. ASSUME NEW j \in 1 .. Len(d)
      PROVE  /\ Skipping(k, j) \in 1 .. Len(c) /\ (k = 1 => Skipping(k, j) > 1)
             /\ d[j] = c[Skipping(k, j)]
  BY <1>1, <1>2 DEF Without, Skipping
<1>4. \A j \in 1 .. Len(d) : SentUpTo(d[j], m, base)
  BY <1>3 DEF Line
<1>5. ASSUME NEW j \in 1 .. Len(d), NEW l \in 1 .. Len(d), j < l, d[j].msg = d[l].msg
      PROVE  NotBefore(d[j], d[l])
  <2>1. Skipping(k, j) < Skipping(k, l)
    BY <1>1, <1>2, <1>5 DEF Skipping, Without
  <2>2. /\ Skipping(k, j) \in 1 .. Len(c) /\ d[j] = c[Skipping(k, j)]
        /\ Skipping(k, l) \in 1 .. Len(c) /\ d[l] = c[Skipping(k, l)]
    BY <1>3
  <2> QED
    BY <1>5, <2>1, <2>2 DEF Line
<1> QED
  BY <1>2, <1>3, <1>4, <1>5 DEF Line, d

-----------------------------------------------------------------------------
(* Places in the buffer: how many stored fragments are before one.         *)

Place(S, i) == Cardinality({j \in S : j < i}) + 1

LEMMA PlaceBounds ==
  ASSUME NEW n \in Nat, NEW S \in SUBSET (0 .. n - 1), NEW i \in Nat
  PROVE  /\ IsFiniteSet(S) /\ Cardinality(S) \in 0 .. n
         /\ IsFiniteSet({j \in S : j < i})
         /\ Place(S, i) \in 1 .. Cardinality(S) + 1
         /\ Place(S, i) = Cardinality({j \in S : j < i}) + 1
<1> DEFINE B == {j \in S : j < i}
<1>1. IsFiniteSet(0 .. n - 1) /\ Cardinality(0 .. n - 1) = n
  <2>1. 0 \in Int /\ n - 1 \in Int
    OBVIOUS
  <2>2. /\ IsFiniteSet(0 .. n - 1)
        /\ Cardinality(0 .. n - 1) = IF 0 > n - 1 THEN 0 ELSE (n - 1) - 0 + 1
    BY <2>1, FS_Interval
  <2>3. (0 > n - 1 => n = 0) /\ (n - 1) - 0 + 1 = n
    OBVIOUS
  <2> QED
    BY <2>2, <2>3
<1>2. IsFiniteSet(S) /\ Cardinality(S) <= n /\ Cardinality(S) \in Nat
  BY <1>1, FS_Subset, FS_CardinalityType
<1>3. B \in SUBSET S
  OBVIOUS
<1>4. IsFiniteSet(B) /\ Cardinality(B) <= Cardinality(S) /\ Cardinality(B) \in Nat
  BY <1>2, <1>3, FS_Subset, FS_CardinalityType
<1>5. Place(S, i) = Cardinality(B) + 1
  BY DEF Place
<1> HIDE DEF B
<1>6. /\ Cardinality(S) \in 0 .. n
      /\ Place(S, i) \in 1 .. Cardinality(S) + 1
  BY <1>2, <1>4, <1>5
<1> QED
  BY <1>2, <1>4, <1>5, <1>6 DEF B

\* A fragment after a stored one is placed after it, ...
LEMMA PlaceAfter ==
  ASSUME NEW n \in Nat, NEW S \in SUBSET (0 .. n - 1),
         NEW a \in S, NEW b \in Nat, a < b
  PROVE  Place(S, a) < Place(S, b)
<1> DEFINE A == {j \in S : j < a}
           B == {j \in S : j < b}
<1>1. a \in Nat
  OBVIOUS
<1>2. IsFiniteSet(A) /\ IsFiniteSet(B)
  BY <1>1, PlaceBounds
<1>3. A \cup {a} \in SUBSET B /\ a \notin A
  <2>1. ASSUME NEW j \in A  PROVE j \in B
    <3>1. j \in Nat /\ j < a /\ j \in S
      OBVIOUS
    <3>2. j < b
      BY <1>1, <3>1
    <3> QED
      BY <3>1, <3>2
  <2>2. a \in B /\ a \notin A
    BY <1>1
  <2> QED
    BY <2>1, <2>2
<1>4. Cardinality(A \cup {a}) = Cardinality(A) + 1
  BY <1>2, <1>3, FS_AddElement
<1>5. Cardinality(A \cup {a}) <= Cardinality(B)
  BY <1>2, <1>3, FS_Subset
<1>6. Cardinality(A) \in Nat /\ Cardinality(B) \in Nat
  BY <1>2, FS_CardinalityType
<1>7. Place(S, a) = Cardinality(A) + 1 /\ Place(S, b) = Cardinality(B) + 1
  BY DEF Place
<1> HIDE DEF A, B
<1> QED
  BY <1>4, <1>5, <1>6, <1>7

\* ... one before another is not placed after it, ...
LEMMA PlaceBefore ==
  ASSUME NEW n \in Nat, NEW S \in SUBSET (0 .. n - 1),
         NEW a \in Nat, NEW b \in Nat, a <= b
  PROVE  Place(S, a) <= Place(S, b)
<1> DEFINE A == {j \in S : j < a}
           B == {j \in S : j < b}
<1>1. IsFiniteSet(A) /\ IsFiniteSet(B)
  BY PlaceBounds
<1>2. A \in SUBSET B
  <2>1. ASSUME NEW j \in A  PROVE j \in B
    <3>1. j \in Nat
      OBVIOUS
    <3> QED
      BY <2>1, <3>1
  <2> QED
    BY <2>1
<1>3. Cardinality(A) <= Cardinality(B)
  BY <1>1, <1>2, FS_Subset
<1>4. Cardinality(A) \in Nat /\ Cardinality(B) \in Nat
  BY <1>1, FS_CardinalityType
<1>5. Place(S, a) = Cardinality(A) + 1 /\ Place(S, b) = Cardinality(B) + 1
  BY DEF Place
<1> HIDE DEF A, B
<1> QED
  BY <1>3, <1>4, <1>5

\* ... and a new one moves those after it by one place.
LEMMA PlaceMoved ==
  ASSUME NEW n \in Nat, NEW S \in SUBSET (0 .. n - 1),
         NEW i \in 0 .. n - 1, i \notin S, NEW j \in Nat
  PROVE  Place(S \cup {i}, j) = IF i < j THEN Place(S, j) + 1 ELSE Place(S, j)
<1> DEFINE A == {k \in S : k < j}
           B == {k \in S \cup {i} : k < j}
<1>1. IsFiniteSet(A) /\ i \in Nat
  BY PlaceBounds
<1>2. i \notin A
  OBVIOUS
<1>3. B = IF i < j THEN A \cup {i} ELSE A
  OBVIOUS
<1>4. Cardinality(A \cup {i}) = Cardinality(A) + 1 /\ Cardinality(A) \in Nat
  BY <1>1, <1>2, FS_AddElement, FS_CardinalityType
<1>5. Place(S, j) = Cardinality(A) + 1 /\ Place(S \cup {i}, j) = Cardinality(B) + 1
  BY DEF Place
<1> HIDE DEF A, B
<1> QED
  BY <1>3, <1>4, <1>5

LEMMA PlaceInAll ==
  ASSUME NEW n \in Nat, NEW i \in 0 .. n - 1
  PROVE  Place(0 .. n - 1, i) = i + 1
<1>1. {j \in 0 .. n - 1 : j < i} = 0 .. i - 1
  OBVIOUS
<1>2. Cardinality(0 .. i - 1) = i
  <2>1. 0 \in Int /\ i - 1 \in Int /\ i \in Nat
    OBVIOUS
  <2>2. Cardinality(0 .. i - 1) = IF 0 > i - 1 THEN 0 ELSE (i - 1) - 0 + 1
    BY <2>1, FS_Interval
  <2> QED
    BY <2>1, <2>2
<1> QED
  BY <1>1, <1>2 DEF Place

\* What InsertAt of the community modules does
Inserted(v, s, p, e) ==
  /\ Len(v) = Len(s) + 1
  /\ \A k \in 1 .. p - 1 : v[k] = s[k]
  /\ v[p] = e
  /\ \A k \in p + 1 .. Len(s) + 1 : v[k] = s[k - 1]

LEMMA InsertAtElements ==
  ASSUME NEW S, NEW s \in Seq(S), NEW p \in 1 .. Len(s) + 1, NEW e \in S
  PROVE  /\ InsertAt(s, p, e) \in Seq(S)
         /\ Inserted(InsertAt(s, p, e), s, p, e)
<1> DEFINE a == SubSeq(s, 1, p - 1)
           o == <<e>>
           b == SubSeq(s, p, Len(s))
<1>1. Len(s) \in Nat /\ \A j \in 1 .. Len(s) : s[j] \in S
  BY ElementOfSeq, LenProperties
<1>2. /\ a \in Seq(S) /\ Len(a) = p - 1
      /\ \A j \in 1 .. p - 1 : a[j] = s[j]
  <2>1. /\ 1 \in Int /\ p - 1 \in Int /\ \A j \in 1 .. p - 1 : s[j] \in S
    BY <1>1
  <2>2. /\ a \in Seq(S)
        /\ Len(a) = IF 1 <= p - 1 THEN (p - 1) - 1 + 1 ELSE 0
        /\ \A j \in 1 .. (p - 1) - 1 + 1 : a[j] = s[1 + j - 1]
    BY <2>1, SubSeqProperties
  <2> QED
    BY <1>1, <2>2
<1>3. /\ b \in Seq(S) /\ Len(b) = Len(s) - p + 1
      /\ \A j \in 1 .. Len(s) - p + 1 : b[j] = s[p + j - 1]
  <2>1. /\ p \in Int /\ Len(s) \in Int
        /\ \A j \in p .. Len(s) : s[j] \in S
    BY <1>1
  <2>2. /\ b \in Seq(S)
        /\ Len(b) = IF p <= Len(s) THEN Len(s) - p + 1 ELSE 0
        /\ \A j \in 1 .. Len(s) - p + 1 : b[j] = s[p + j - 1]
    BY <2>1, SubSeqProperties
  <2> QED
    BY <1>1, <2>2
<1>4. o \in Seq(S) /\ Len(o) = 1 /\ o[1] = e
  OBVIOUS
<1>5. InsertAt(s, p, e) = (a \o o) \o b
  BY DEF InsertAt
<1> HIDE DEF a, b, o
<1>6. /\ a \o o \in Seq(S) /\ Len(a \o o) = p
      /\ \A k \in 1 .. p : (a \o o)[k] = IF k < p THEN s[k] ELSE e
  <2>1. /\ a \o o \in Seq(S) /\ Len(a \o o) = Len(a) + Len(o)
        /\ \A k \in 1 .. Len(a) + Len(o) :
             (a \o o)[k] = IF k <= Len(a) THEN a[k] ELSE o[k - Len(a)]
    BY <1>2, <1>4, ConcatProperties
  <2>2. ASSUME NEW k \in 1 .. p  PROVE (a \o o)[k] = IF k < p THEN s[k] ELSE e
    <3>1. CASE k < p
      BY <1>1, <1>2, <1>4, <2>1, <3>1
    <3>2. CASE k = p
      <4>1. k \in 1 .. Len(a) + Len(o) /\ ~(k <= Len(a)) /\ k - Len(a) = 1
        BY <1>2, <1>4, <3>2, Len(s) \in Nat, p \in Nat
      <4>2. (a \o o)[k] = o[1]
        BY <2>1, <4>1
      <4> QED
        BY <1>1, <1>4, <3>2, <4>2
    <3>3. k < p \/ k = p
      OBVIOUS
    <3> QED
      BY <3>1, <3>2, <3>3
  <2> QED
    BY <1>1, <1>2, <1>4, <2>1, <2>2
<1> DEFINE c == a \o o
<1> HIDE DEF c
<1>7. /\ c \in Seq(S) /\ Len(c) = p
      /\ \A k \in 1 .. p : c[k] = IF k < p THEN s[k] ELSE e
  BY <1>6 DEF c
<1>8. /\ c \o b \in Seq(S) /\ Len(c \o b) = Len(c) + Len(b)
      /\ \A k \in 1 .. Len(c) + Len(b) :
           (c \o b)[k] = IF k <= Len(c) THEN c[k] ELSE b[k - Len(c)]
  BY <1>3, <1>7, ConcatProperties
<1>9. ASSUME NEW k \in 1 .. Len(s) + 1
      PROVE  (c \o b)[k] = IF k < p THEN s[k] ELSE IF k = p THEN e ELSE s[k - 1]
  <2>1. CASE k <= p
    <3>1. k \in 1 .. p /\ k \in 1 .. Len(c) + Len(b) /\ k <= Len(c)
      BY <1>1, <1>3, <1>7, <2>1
    <3>2. (c \o b)[k] = c[k]
      BY <1>8, <3>1
    <3>3. c[k] = IF k < p THEN s[k] ELSE e
      BY <1>7, <3>1
    <3>4. ~(k < p) => k = p
      BY <1>1, <2>1
    <3> QED
      BY <3>2, <3>3, <3>4
  <2>2. CASE k > p
    <3>1. k - p \in 1 .. Len(s) - p + 1 /\ p + (k - p) - 1 = k - 1
      BY <1>1, <2>2
    <3>2. (c \o b)[k] = b[k - p]
      BY <1>1, <1>3, <1>7, <1>8, <2>2
    <3> QED
      BY <1>3, <2>2, <3>1, <3>2
  <2>3. k <= p \/ k > p
    BY <1>1
  <2> QED
    BY <2>1, <2>2, <2>3
<1> HIDE DEF c
<1>10. Len(c \o b) = Len(s) + 1
  BY <1>1, <1>3, <1>7, <1>8
<1>11. ASSUME NEW k \in 1 .. p - 1  PROVE (c \o b)[k] = s[k]
  <2>1. k \in 1 .. Len(s) + 1 /\ k < p
    BY <1>1
  <2> QED
    BY <1>9, <2>1
<1>12. (c \o b)[p] = e
  <2>1. p \in 1 .. Len(s) + 1 /\ ~(p < p)
    BY <1>1
  <2> QED
    BY <1>9, <2>1
<1>13. ASSUME NEW k \in p + 1 .. Len(s) + 1  PROVE (c \o b)[k] = s[k - 1]
  <2>1. k \in 1 .. Len(s) + 1 /\ ~(k < p) /\ k # p
    BY <1>1
  <2> QED
    BY <1>9, <2>1
<1> QED
  BY <1>5, <1>8, <1>10, <1>11, <1>12, <1>13 DEF c, Inserted

-----------------------------------------------------------------------------
(* The receiver: a fragment of the message it puts together arrives.       *)

\* The mask covers what is beyond the window, and nothing in it.
LEMMA OutsideWindow ==
  ASSUME Orderly, NEW m \in Message, m.n < Byte,
         NEW base \in Bases, base < m.n,
         NEW expected, expected = m.n \/ expected = Byte - 1,
         NEW i \in Nat, base <= i, i < base + Window, i < m.n
  PROVE  i - base \in Bits \ MaskAt(base, expected) /\ i % Window = i - base
<1>1. /\ m.n \in Nat /\ base \in Nat /\ m.n + Window <= Byte
      /\ Window \in 1 .. 8 /\ Byte \in Nat /\ expected \in Nat
  BY MessageNumbers, WindowSizes DEF Orderly, Bases
<1>2. i - base \in Bits /\ i % Window = i - base
  BY <1>1, PlaceInWindow DEF Bits
<1>3. CASE expected < base + Window
  <2>1. expected = m.n
    BY <1>1, <1>3
  <2>2. expected % Window = m.n - base
    BY <1>1, <1>3, <2>1, PlaceInWindow
  <2>3. ~(i - base >= m.n - base)
    BY <1>1
  <2> QED
    BY <1>2, <1>3, <2>2, <2>3 DEF MaskAt
<1>4. CASE ~(expected < base + Window)
  <2>1. ~(i - base >= Window)
    BY <1>1
  <2> QED
    BY <1>2, <1>4, <2>1 DEF MaskAt
<1> QED
  BY <1>3, <1>4

LEMMA ReceiverNumbers ==
  ASSUME NEW r, Gathered(r)
  PROVE  /\ r.source \in Message /\ r.source.n \in Nat
         /\ r.base \in Nat /\ r.base \in Bases
         /\ r.stored \in SUBSET (0 .. r.source.n - 1)
         /\ IsFiniteSet(r.stored) /\ Cardinality(r.stored) \in 0 .. r.source.n
         /\ r.expected = r.source.n \/ r.expected = Byte - 1
<1>1. r.source \in Message /\ r.source.n \in Nat
  BY MessageNumbers DEF Gathered, Receiver
<1>2. r.stored \in SUBSET (0 .. r.source.n - 1)
  BY DEF Gathered
<1>3. IsFiniteSet(r.stored) /\ Cardinality(r.stored) \in 0 .. r.source.n
  BY <1>1, <1>2, PlaceBounds, 0 \in Nat
<1> QED
  BY <1>1, <1>2, <1>3 DEF Gathered, Bases

\* Of a fragment of the window the mask says whether it is stored.
LEMMA MaskOfStored ==
  ASSUME Orderly, NEW r, Gathered(r),
         NEW i \in Nat, r.base <= i, i < r.base + Window, i < r.source.n
  PROVE  /\ Bit(i) = i - r.base /\ Bit(i) \in Bits
         /\ Bit(i) \in r.mask <=> i \in r.stored
<1> DEFINE shown == {j - r.base : j \in {k \in r.stored : r.base <= k}}
<1>1. /\ r.base \in Nat /\ r.stored \in SUBSET (0 .. r.source.n - 1)
      /\ r.mask = MaskAt(r.base, r.expected) \cup shown
  BY ReceiverNumbers DEF Gathered
<1>2. i - r.base \in Bits \ MaskAt(r.base, r.expected) /\ i % Window = i - r.base
  BY ReceiverNumbers, OutsideWindow DEF Gathered
<1>3. i - r.base \in shown <=> i \in r.stored
  <2>1. ASSUME i - r.base \in shown  PROVE i \in r.stored
    <3>1. PICK j \in r.stored : r.base <= j /\ i - r.base = j - r.base
      BY <2>1
    <3>2. j \in Int
      BY <1>1
    <3>3. i = j
      BY <1>1, <3>1, <3>2
    <3> QED
      BY <3>3
  <2> QED
    BY <2>1
<1> HIDE DEF shown
<1> QED
  BY <1>1, <1>2, <1>3 DEF Bit

\* A mask without a gap has the window stored.
LEMMA WindowFull ==
  ASSUME Orderly, NEW r, Gathered(r), r.mask = Bits,
         NEW i \in Nat, i < r.base + Window, i < r.source.n
  PROVE  i \in r.stored
<1>1. CASE r.base <= i
  BY <1>1, MaskOfStored
<1>2. CASE ~(r.base <= i)
  <2>1. i \in 0 .. r.base - 1
    BY <1>2, ReceiverNumbers
  <2> QED
    BY <2>1 DEF Gathered
<1> QED
  BY <1>1, <1>2

LEMMA NothingStored ==
  ASSUME NEW m \in Message, m.n < Byte
  PROVE  LET r == [Idle EXCEPT !.source = m] IN
           /\ Gathered(r) /\ ~Complete(r) /\ r.base = 0 /\ r.source = m
           /\ r.stored = {}
<1> DEFINE r == [Idle EXCEPT !.source = m]
<1>1. /\ m.n \in Nat /\ m.n >= 1 /\ Byte \in Nat /\ Window \in Nat /\ Byte >= 1
      /\ MaskAt(0, Byte - 1) \subseteq Bits /\ 0 \in Bases
  BY MessageNumbers, WindowSizes, ZeroIsBase DEF MaskAt
<1>2. r = [source |-> m, base |-> 0, expected |-> Byte - 1, received |-> 0,
           mask |-> MaskAt(0, Byte - 1), stored |-> {}, buffer |-> <<>>]
  <2> DEFINE mask == MaskAt(0, Byte - 1)
             none == << >>
             last == Byte - 1
  <2>1. Idle = [source |-> NoMessage, base |-> 0, expected |-> last,
                received |-> 0, mask |-> mask, stored |-> {}, buffer |-> none]
    BY DEF Idle
  <2> HIDE DEF mask, none, last
  <2>2. r = [source |-> m, base |-> 0, expected |-> last,
             received |-> 0, mask |-> mask, stored |-> {}, buffer |-> none]
    BY <2>1
  <2> QED
    BY <2>2 DEF mask, none, last
<1> HIDE DEF r
<1>3. r \in Receiver
  BY <1>1, <1>2 DEF Receiver
<1>4. Cardinality({}) = 0
  BY FS_EmptySet
<1>5. {i - r.base : i \in {j \in r.stored : r.base <= j}} = {}
  BY <1>2
<1>6. Gathered(r)
  BY <1>1, <1>2, <1>3, <1>4, <1>5 DEF Gathered
<1>7. ~Complete(r)
  <2>1. 0 \in 0 .. m.n - 1
    BY <1>1
  <2> QED
    BY <1>2, <2>1 DEF Complete
<1> QED
  BY <1>2, <1>6, <1>7 DEF r

\* The window goes on only when it is complete.
LEMMA AdvancedStep ==
  ASSUME Orderly, NEW r, Gathered(r), ~Complete(r),
         NEW i \in Nat, r.base <= i, i < r.source.n
  PROVE  LET a == Advanced(r, i) IN
           /\ Gathered(a) /\ ~Complete(a)
           /\ a.source = r.source /\ a.stored = r.stored
           /\ r.base <= a.base /\ a.base <= i
<1> DEFINE a == Advanced(r, i)
           next == r.base + Window
<1>1. CASE ~(r.mask = Bits /\ next <= i)
  <2>1. a = r
    BY <1>1 DEF Advanced
  <2> QED
    BY <2>1, ReceiverNumbers
<1>2. CASE r.mask = Bits /\ next <= i
  <2>1. /\ r \in Receiver /\ r.base \in Bases /\ r.base \in Nat
        /\ r.source \in Message /\ r.source.n \in Nat /\ r.source.n < Byte
        /\ r.stored \in SUBSET (0 .. r.source.n - 1)
        /\ Byte \in Nat /\ Window \in 1 .. 8
    BY ReceiverNumbers, WindowSizes DEF Gathered
  <2>2. next \in Bases /\ next \in Nat /\ next % Byte = next /\ next < r.source.n
    BY <1>2, <2>1, NextBase
  <2>3. MaskAt(next, r.expected) \subseteq Bits
    BY DEF MaskAt
  <2>4. a = [r EXCEPT !.base = next, !.mask = MaskAt(next, r.expected)]
    BY <1>2, <2>2 DEF Advanced
  <2>5. /\ a \in Receiver /\ a.base = next /\ a.mask = MaskAt(next, r.expected)
        /\ a.source = r.source /\ a.stored = r.stored /\ a.expected = r.expected
        /\ a.received = r.received /\ a.buffer = r.buffer
    BY <2>1, <2>2, <2>3, <2>4 DEF Receiver
  <2> HIDE DEF a, next
  <2>6. \A j \in r.stored : j < next
    BY DEF Gathered, next
  <2>7. 0 .. next - 1 \subseteq r.stored
    <3>1. ASSUME NEW j \in 0 .. next - 1  PROVE j \in r.stored
      <4>1. j \in Nat /\ j < r.base + Window /\ j < r.source.n
        BY <2>1, <2>2 DEF next
      <4> QED
        BY <1>2, <4>1, WindowFull
    <3> QED
      BY <3>1
  <2>8. {j \in a.stored : a.base <= j} = {}
    BY <2>1, <2>2, <2>5, <2>6
  <2>9. {j - a.base : j \in {k \in a.stored : a.base <= k}} = {}
    BY <2>8
  <2>10. \A j \in a.stored : j < a.base + Window
    BY <2>1, <2>2, <2>5, <2>6
  <2>11. \A k \in 1 .. Len(a.buffer) :
           a.buffer[k] \in a.stored /\ PlaceOf(a, a.buffer[k]) = k
    BY <2>5 DEF Gathered, PlaceOf
  <2>12. Gathered(a)
    BY <2>1, <2>2, <2>5, <2>7, <2>9, <2>10, <2>11 DEF Gathered
  <2>13. ~Complete(a)
    BY <2>5 DEF Complete
  <2>14. r.base <= a.base /\ a.base <= i
    BY <1>2, <2>1, <2>2, <2>5 DEF next
  <2> QED
    BY <2>5, <2>12, <2>13, <2>14 DEF a
<1> QED
  BY <1>1, <1>2

\* A fragment is stored at its place, and its bit is set.
LEMMA StoredStep ==
  ASSUME Orderly, NEW r, Gathered(r), NEW i \in Nat, i \notin r.stored,
         r.base <= i, i < r.base + Window, i < r.source.n
  PROVE  LET t == Marked(Counted(r, r.source, i), i, TRUE) IN
           /\ Gathered(t) /\ t.source = r.source /\ t.base = r.base
           /\ t.stored = r.stored \cup {i}
<1> DEFINE m == r.source
           n == r.source.n
           S == r.stored \cup {i}
           p == Place(r.stored, i)
           expected == IF i = 0 THEN m.n ELSE r.expected
           t == Marked(Counted(r, m, i), i, TRUE)
           b == InsertAt(r.buffer, p, i)
<1>1. /\ r \in Receiver /\ m \in Message /\ n \in Nat /\ n < Byte
      /\ r.base \in Bases /\ r.base \in Nat
      /\ r.stored \in SUBSET (0 .. n - 1)
      /\ IsFiniteSet(r.stored) /\ Cardinality(r.stored) \in 0 .. n
      /\ r.expected = n \/ r.expected = Byte - 1
      /\ Byte \in Nat /\ Window \in 1 .. 8 /\ BufferSize \in Nat
      /\ Window <= n /\ n <= BufferSize /\ n + Window <= Byte
  BY ReceiverNumbers, MessageNumbers, WindowSizes DEF Gathered, Orderly
<1>2. S \in SUBSET (0 .. n - 1)
  BY <1>1
<1>3. /\ Cardinality(S) = Cardinality(r.stored) + 1
      /\ Cardinality(S) \in 0 .. n
  <2>1. Cardinality(S) = Cardinality(r.stored) + 1
    BY <1>1, FS_AddElement
  <2>2. Cardinality(S) \in 0 .. n
    BY <1>1, <1>2, PlaceBounds, 0 \in Nat
  <2> QED
    BY <2>1, <2>2
<1>4. p \in 1 .. Cardinality(r.stored) + 1
  BY <1>1, PlaceBounds
<1>5. /\ r.buffer \in Seq(Nat) /\ Len(r.buffer) = Cardinality(r.stored)
      /\ \A k \in 1 .. Len(r.buffer) :
           r.buffer[k] \in r.stored /\ Place(r.stored, r.buffer[k]) = k
  BY DEF Gathered, Receiver, PlaceOf, Place
<1>6. /\ b \in Seq(Nat) /\ Len(b) = Len(r.buffer) + 1
      /\ \A k \in 1 .. p - 1 : b[k] = r.buffer[k]
      /\ b[p] = i
      /\ \A k \in p + 1 .. Len(r.buffer) + 1 : b[k] = r.buffer[k - 1]
  <2>1. p \in 1 .. Len(r.buffer) + 1 /\ r.buffer \in Seq(Nat) /\ i \in Nat
    BY <1>4, <1>5
  <2> DEFINE s == r.buffer
  <2>2. p \in 1 .. Len(s) + 1 /\ s \in Seq(Nat) /\ b = InsertAt(s, p, i)
    BY <2>1
  <2> HIDE DEF b, p, s
  <2>3. b \in Seq(Nat) /\ Inserted(b, s, p, i)
    BY <2>2, InsertAtElements
  <2> QED
    BY <2>3 DEF s, Inserted
<1>7. FirstUnits(b, BufferSize) = b
  <2>1. Len(b) \in Nat /\ (Len(b) < BufferSize \/ Len(b) = BufferSize)
    BY <1>1, <1>3, <1>5, <1>6
  <2>2. FirstUnits(b, BufferSize) = SubSeq(b, 1, Len(b))
    BY <2>1 DEF FirstUnits
  <2> QED
    BY <1>6, <2>2, SubSeqFull
<1>8. Bit(i) = i - r.base /\ Bit(i) \in Bits
  BY MaskOfStored
<1>9. Counted(r, m, i) = [r EXCEPT !.expected = expected]
  <2>1. CASE i = 0
    <3>1. ~(m.n < Window)
      BY <1>1
    <3>2. [r EXCEPT !.expected = m.n, !.mask = r.mask] = [r EXCEPT !.expected = m.n]
      BY <1>1 DEF Receiver
    <3> QED
      BY <2>1, <3>1, <3>2 DEF Counted
  <2>2. CASE i # 0
    <3>1. Counted(r, m, i) = r
      BY <2>2 DEF Counted
    <3>2. [r EXCEPT !.expected = r.expected] = r
      BY <1>1 DEF Receiver
    <3> QED
      BY <2>2, <3>1, <3>2
  <2> QED
    BY <2>1, <2>2
<1>10. /\ t \in Receiver /\ t.source = m /\ t.base = r.base
       /\ t.expected = expected /\ t.received = Cardinality(S)
       /\ t.mask = r.mask \cup {i - r.base} /\ t.stored = S /\ t.buffer = b
  <2> DEFINE c == [r EXCEPT !.expected = expected]
  <2>1. expected \in Nat
    BY <1>1
  <2> HIDE DEF expected
  <2>2. /\ c \in Receiver /\ c.expected = expected /\ c.source = m
        /\ c.base = r.base /\ c.received = Cardinality(r.stored)
        /\ c.mask = r.mask /\ c.stored = r.stored /\ c.buffer = r.buffer
    BY <1>1, <2>1 DEF Receiver, Gathered
  <2>3. (c.received + 1) % Byte = Cardinality(S)
    <3>1. Cardinality(S) \in 0 .. Byte - 1
      BY <1>1, <1>3
    <3>2. \A k \in 0 .. Byte - 1 : k % Byte = k
      BY <1>1
    <3> QED
      BY <1>3, <2>2, <3>1, <3>2
  <2>4. PlaceOf(c, i) = p
    BY <2>2 DEF PlaceOf, Place
  <2> HIDE DEF c, p, b
  <2>5. t = [Store(c, i) EXCEPT !.mask = Store(c, i).mask \cup {Bit(i)}]
    BY <1>9 DEF Marked, c, t
  <2>6. Store(c, i) = [c EXCEPT !.received = Cardinality(S), !.stored = S,
                                !.buffer = b]
    BY <1>7, <2>2, <2>3, <2>4 DEF Store, b
  <2>7. S \in SUBSET Nat /\ Cardinality(S) \in Nat /\ r.mask \cup {i - r.base} \in SUBSET Bits
    BY <1>1, <1>2, <1>3, <1>8 DEF Receiver
  <2> HIDE DEF t
  <2>8. t = [c EXCEPT !.received = Cardinality(S), !.stored = S,
                      !.buffer = b, !.mask = r.mask \cup {i - r.base}]
    BY <1>8, <2>2, <2>5, <2>6 DEF Receiver
  <2> QED
    BY <1>6, <2>2, <2>7, <2>8 DEF Receiver
<1> HIDE DEF t, b, p
<1>11. \A j \in t.stored : j < t.base + Window
  BY <1>1, <1>10 DEF Gathered
<1>12. 0 .. t.base - 1 \subseteq t.stored
  BY <1>10 DEF Gathered
<1>13. t.expected = IF 0 \in t.stored THEN n ELSE Byte - 1
  <2>1. CASE i = 0
    BY <1>10, <2>1
  <2>2. CASE i # 0
    <3>1. 0 \in t.stored <=> 0 \in r.stored
      BY <1>10, <2>2
    <3> QED
      BY <1>10, <2>2, <3>1 DEF Gathered
  <2> QED
    BY <2>1, <2>2
<1>14. MaskAt(t.base, t.expected) = MaskAt(r.base, r.expected)
  <2>1. CASE i = 0
    <3>1. r.base = 0
      BY <1>1, <2>1
    <3>2. ~(n < 0 + Window) /\ ~(Byte - 1 < 0 + Window)
      BY <1>1, WindowSizes
    <3>3. MaskAt(0, n) = MaskAt(0, Byte - 1)
      BY <3>2 DEF MaskAt
    <3> QED
      BY <1>1, <1>10, <2>1, <3>1, <3>3
  <2>2. CASE i # 0
    BY <1>10, <2>2
  <2> QED
    BY <2>1, <2>2
<1>15. {j - t.base : j \in {k \in t.stored : t.base <= k}} =
         {j - r.base : j \in {k \in r.stored : r.base <= k}} \cup {i - r.base}
  BY <1>10
<1>16. t.mask = MaskAt(t.base, t.expected)
                  \cup {j - t.base : j \in {k \in t.stored : t.base <= k}}
  <2>1. r.mask = MaskAt(r.base, r.expected)
                   \cup {j - r.base : j \in {k \in r.stored : r.base <= k}}
    BY DEF Gathered
  <2> QED
    BY <1>10, <1>14, <1>15, <2>1
<1>17. ASSUME NEW k \in 1 .. Len(t.buffer)
       PROVE  t.buffer[k] \in t.stored /\ PlaceOf(t, t.buffer[k]) = k
  <2>1. /\ k \in 1 .. Len(r.buffer) + 1 /\ Len(r.buffer) \in Nat
        /\ p \in 1 .. Len(r.buffer) + 1 /\ PlaceOf(t, b[k]) = Place(S, b[k])
        /\ p = Place(r.stored, i)
    BY <1>3, <1>4, <1>5, <1>6, <1>10, LenProperties DEF PlaceOf, Place, p
  <2>2. i \in 0 .. n - 1
    BY <1>1
  <2>3. CASE k < p
    <3>1. k \in 1 .. Len(r.buffer) /\ b[k] = r.buffer[k]
      <4>1. k \in 1 .. p - 1 /\ k \in 1 .. Len(r.buffer)
        BY ONLY <2>1, <2>3
      <4>2. \A l \in 1 .. p - 1 : b[l] = r.buffer[l]
        BY <1>6
      <4> QED
        BY ONLY <4>1, <4>2
    <3>2. b[k] \in r.stored /\ b[k] \in Nat /\ Place(r.stored, b[k]) = k
      <4>1. r.stored \in SUBSET Nat
        BY <1>1
      <4>2. \A l \in 1 .. Len(r.buffer) :
              r.buffer[l] \in r.stored /\ Place(r.stored, r.buffer[l]) = l
        BY <1>5
      <4> QED
        BY ONLY <3>1, <4>1, <4>2
    <3>3. ~(i < b[k])
      <4>1. SUFFICES ASSUME i < b[k]  PROVE FALSE
        OBVIOUS
      <4>2. /\ n \in Nat /\ r.stored \in SUBSET (0 .. n - 1)
            /\ i \in Nat /\ b[k] \in Nat /\ i <= b[k]
        BY <1>1, <3>2, <4>1
      <4>3. Place(r.stored, i) <= Place(r.stored, b[k])
        BY ONLY <4>2, PlaceBefore
      <4> QED
        BY <2>1, <2>3, <3>2, <4>3
    <3>4. Place(S, b[k]) = k
      BY <1>1, <2>2, <3>2, <3>3, PlaceMoved
    <3> QED
      BY <1>10, <2>1, <3>2, <3>4
  <2>4. CASE k = p
    <3>1. b[k] = i
      BY <1>6, <2>1, <2>4
    <3>2. /\ n \in Nat /\ r.stored \in SUBSET (0 .. n - 1)
          /\ i \in Nat /\ ~(i < i) /\ i \notin r.stored
      BY <1>1
    <3>3. Place(S, i) = Place(r.stored, i)
      BY ONLY <2>2, <3>2, PlaceMoved DEF S
    <3>4. Place(S, i) = p
      BY <2>1, <3>3
    <3> QED
      BY <1>10, <2>1, <2>4, <3>1, <3>4
  <2>5. CASE k > p
    <3>1. k - 1 \in 1 .. Len(r.buffer) /\ b[k] = r.buffer[k - 1]
      <4>1. k \in p + 1 .. Len(r.buffer) + 1 /\ k - 1 \in 1 .. Len(r.buffer)
        BY ONLY <2>1, <2>5
      <4>2. \A l \in p + 1 .. Len(r.buffer) + 1 : b[l] = r.buffer[l - 1]
        BY <1>6
      <4> QED
        BY ONLY <4>1, <4>2
    <3>2. b[k] \in r.stored /\ b[k] \in Nat /\ Place(r.stored, b[k]) = k - 1
      <4>1. r.stored \in SUBSET Nat
        BY <1>1
      <4>2. \A l \in 1 .. Len(r.buffer) :
              r.buffer[l] \in r.stored /\ Place(r.stored, r.buffer[l]) = l
        BY <1>5
      <4>3. /\ r.buffer[k - 1] \in r.stored
            /\ Place(r.stored, r.buffer[k - 1]) = k - 1
        BY ONLY <3>1, <4>2
      <4> QED
        BY ONLY <3>1, <4>1, <4>3
    <3>3. i < b[k]
      <4>1. SUFFICES ASSUME b[k] < i  PROVE FALSE
        BY <3>2
      <4>2. Place(r.stored, b[k]) < Place(r.stored, i)
        BY <1>1, <3>2, <4>1, PlaceAfter
      <4> QED
        BY <2>1, <2>5, <3>2, <4>2
    <3>4. Place(S, b[k]) = (k - 1) + 1
      BY <1>1, <2>2, <3>2, <3>3, PlaceMoved
    <3> QED
      BY <1>10, <2>1, <3>2, <3>4
  <2>6. k < p \/ k = p \/ k > p
    BY <2>1
  <2> QED
    BY <2>3, <2>4, <2>5, <2>6
<1>18. Len(t.buffer) = Cardinality(t.stored)
  BY <1>3, <1>5, <1>6, <1>10
<1>19. r.base < n
  BY DEF Gathered
<1>20. Gathered(t)
  BY <1>1, <1>2, <1>10, <1>11, <1>12, <1>13, <1>16, <1>17, <1>18, <1>19 DEF Gathered
<1> QED
  BY <1>10, <1>20 DEF t

\* A fragment received again changes nothing.
LEMMA RepeatedStep ==
  ASSUME Orderly, NEW r, Gathered(r), NEW i \in r.stored,
         r.base <= i, i < r.base + Window
  PROVE  Marked(Counted(r, r.source, i), i, FALSE) = r
<1>1. /\ r \in Receiver /\ i \in Nat /\ i < r.source.n
      /\ r.source.n >= Window
  BY ReceiverNumbers, MessageNumbers DEF Gathered, Orderly
<1>2. Bit(i) \in r.mask
  BY <1>1, MaskOfStored
<1>3. Counted(r, r.source, i) = r
  <2>1. CASE i = 0
    <3>1. r.expected = r.source.n
      BY <2>1 DEF Gathered
    <3>2. ~(r.source.n < Window)
      BY <1>1, ReceiverNumbers, WindowSizes
    <3>3. [r EXCEPT !.expected = r.source.n, !.mask = r.mask] = r
      BY <1>1, <3>1 DEF Receiver
    <3> QED
      BY <2>1, <3>2, <3>3 DEF Counted
  <2>2. CASE i # 0
    BY <2>2 DEF Counted
  <2> QED
    BY <2>1, <2>2
<1>4. r.mask \cup {Bit(i)} = r.mask
  BY <1>2
<1>5. [r EXCEPT !.mask = r.mask] = r
  BY <1>1 DEF Receiver
<1> QED
  BY <1>3, <1>4, <1>5 DEF Marked

\* The counter says when a message is complete, and then the buffer has it all,
\* in order.
LEMMA CompleteIsWhole ==
  ASSUME Orderly, NEW r, Gathered(r)
  PROVE  /\ r.received = r.expected <=> Complete(r)
         /\ Complete(r) => ContentOf(r) = InOrder(r.source.n)
<1> DEFINE n == r.source.n
<1>1. /\ n \in Nat /\ n >= 1 /\ n + Window <= Byte /\ Byte \in Nat
      /\ Window \in 1 .. 8 /\ r.received = Cardinality(r.stored)
      /\ r.stored \in SUBSET (0 .. n - 1)
      /\ Cardinality(r.stored) \in 0 .. n
      /\ r.expected = IF 0 \in r.stored THEN n ELSE Byte - 1
  BY ReceiverNumbers, MessageNumbers, WindowSizes DEF Gathered, Orderly
<1>2. IsFiniteSet(0 .. n - 1) /\ Cardinality(0 .. n - 1) = n
  <2>1. 0 \in Int /\ n - 1 \in Int /\ ~(0 > n - 1) /\ (n - 1) - 0 + 1 = n
    BY <1>1
  <2> QED
    BY <2>1, FS_Interval
<1>3. 0 \in 0 .. n - 1
  BY <1>1
<1> HIDE DEF n
<1>4. Cardinality(r.stored) = n <=> Complete(r)
  <2>1. ASSUME Cardinality(r.stored) = n  PROVE r.stored = 0 .. n - 1
    BY <1>1, <1>2, <2>1, FS_Subset
  <2> QED
    BY <1>2, <2>1 DEF Complete, n
<1>5. r.received = r.expected <=> Complete(r)
  <2>1. CASE 0 \in r.stored
    BY <1>1, <1>4, <2>1
  <2>2. CASE 0 \notin r.stored
    <3>1. ~Complete(r)
      BY <1>3, <2>2 DEF Complete, n
    <3>2. Cardinality(r.stored) < Byte - 1
      BY <1>1, <1>4, <3>1
    <3> QED
      BY <1>1, <2>2, <3>1, <3>2
  <2> QED
    BY <2>1, <2>2
<1>6. ASSUME Complete(r)  PROVE ContentOf(r) = InOrder(n)
  <2> DEFINE b == r.buffer
  <2>1. /\ r.stored = 0 .. n - 1 /\ r.expected = n
        /\ {j \in r.stored : j < r.expected} = 0 .. n - 1
    BY <1>1, <1>3, <1>6 DEF Complete, n
  <2>2. /\ b \in Seq(Nat) /\ Len(b) = n
        /\ \A k \in 1 .. n : b[k] \in 0 .. n - 1 /\ PlaceOf(r, b[k]) = k
    BY <1>2, <2>1 DEF Gathered, Receiver
  <2>3. ContentOf(r) = FirstUnits(b, n)
    BY <1>2, <2>1 DEF ContentOf
  <2> HIDE DEF b
  <2>4. ContentOf(r) = b
    BY <1>1, <2>2, <2>3, SubSeqFull DEF FirstUnits
  <2>5. ASSUME NEW k \in 1 .. n  PROVE b[k] = k - 1
    <3>1. b[k] \in 0 .. n - 1 /\ PlaceOf(r, b[k]) = k
      BY <2>2
    <3>2. PlaceOf(r, b[k]) = Place(0 .. n - 1, b[k])
      BY <2>1 DEF PlaceOf, Place
    <3>3. Place(0 .. n - 1, b[k]) = b[k] + 1
      BY <1>1, <3>1, PlaceInAll
    <3> QED
      BY <1>1, <3>1, <3>2, <3>3
  <2>6. b = [k \in 1 .. n |-> b[k]]
    BY <2>2, LenProperties
  <2> QED
    BY <2>4, <2>5, <2>6 DEF InOrder
<1> QED
  BY <1>5, <1>6 DEF n

\* What a fragment adds to a receiver that goes on with its message
Adds(r, t, m, i) ==
  /\ t.source = m /\ Gathered(t) /\ t.base <= i
  /\ t.stored \subseteq (IF r.source = m THEN r.stored ELSE {}) \cup {i}
  /\ r.source = m => r.stored \subseteq t.stored /\ r.base <= t.base
  /\ i < t.base + Window => i \in t.stored
  /\ ~(i < t.base + Window) => ~Complete(t)

\* Any fragment of a message that is not of a window already left: only the first
\* one can be too much.
LEMMA AfterStep ==
  ASSUME Orderly, Between(rx),
         NEW m \in Message, m.n < Byte, NEW i \in Nat, i < m.n,
         rx.source = m => rx.base <= i
  PROVE  LET t == After(m, i) IN
           \/ t.source = NoMessage /\ i = 0
           \/ t = rx /\ rx.source # m /\ (rx.source = NoMessage => Window <= i)
           \/ /\ rx.source = m \/ (rx.source = NoMessage /\ i < Window)
              /\ Adds(rx, t, m, i)
<1> DEFINE begun == Begun(rx, m, i)
           advanced == Advanced(begun, i)
           new == Bit(i) \notin advanced.mask
           counted == Counted(advanced, m, i)
           t == After(m, i)
<1>1. m # NoMessage /\ m.n \in Nat /\ Window \in Nat
  BY MessageNumbers, WindowSizes DEF NoMessage
<1>2. t = IF begun.source # m THEN begun
          ELSE IF advanced.base + Window <= i THEN advanced
          ELSE IF TooMuch(counted, m, i, new)
                 THEN [counted EXCEPT !.source = NoMessage]
          ELSE Marked(counted, i, new)
  BY DEF After
<1>3. CASE begun.source # m
  <2>1. ASSUME rx.source = NoMessage /\ i < Window  PROVE FALSE
    <3>1. begun = [Idle EXCEPT !.source = m]
      BY <2>1 DEF Begun
    <3> QED
      BY <1>3, <3>1, NothingStored
  <2>2. begun = rx
    BY <2>1 DEF Begun
  <2>3. rx.source = NoMessage => Window <= i
    BY <1>1, <2>1
  <2> QED
    BY <1>2, <1>3, <2>2, <2>3
<1>4. CASE begun.source = m
  <2>1. /\ Gathered(begun) /\ ~Complete(begun) /\ begun.base <= i
        /\ rx.source = m \/ (rx.source = NoMessage /\ i < Window)
        /\ rx.source = m => begun = rx
        /\ rx.source # m => begun.stored = {}
    <3>1. CASE rx.source = NoMessage /\ i < Window
      <4>1. begun = [Idle EXCEPT !.source = m]
        BY <3>1 DEF Begun
      <4> QED
        BY <1>1, <3>1, <4>1, NothingStored
    <3>2. CASE ~(rx.source = NoMessage /\ i < Window)
      <4>1. begun = rx
        BY <3>2 DEF Begun
      <4>2. rx.source = m
        BY <1>4, <4>1
      <4>3. Gathered(rx) /\ ~Complete(rx) /\ rx.base <= i
        BY <1>1, <4>2 DEF Between
      <4> HIDE DEF begun
      <4> QED
        BY <4>1, <4>2, <4>3
    <3> QED
      BY <3>1, <3>2
  <2> HIDE DEF begun
  <2>2. /\ Gathered(advanced) /\ ~Complete(advanced)
        /\ advanced.source = m /\ advanced.base <= i
        /\ advanced.stored = begun.stored /\ begun.base <= advanced.base
    BY <1>4, <2>1, AdvancedStep
  <2> HIDE DEF advanced
  <2>3. ASSUME NEW u, u.source = m, Gathered(u), u.base = advanced.base,
               u.stored = advanced.stored \/ u.stored = advanced.stored \cup {i},
               i < u.base + Window => i \in u.stored,
               ~(i < u.base + Window) => ~Complete(u)
        PROVE  Adds(rx, u, m, i)
    <3>1. u.base <= i /\ (rx.source = m => rx.base <= u.base)
      BY <2>1, <2>2, <2>3
    <3>2. /\ u.stored \subseteq (IF rx.source = m THEN rx.stored ELSE {}) \cup {i}
          /\ rx.source = m => rx.stored \subseteq u.stored
      BY <2>1, <2>2, <2>3
    <3> QED
      BY <2>3, <3>1, <3>2 DEF Adds
  <2>4. CASE advanced.base + Window <= i
    <3>1. t = advanced
      BY <1>2, <1>4, <2>4
    <3>2. ~(i < advanced.base + Window)
      BY <1>1, <2>2, <2>4, ReceiverNumbers
    <3>3. Adds(rx, advanced, m, i)
      BY <2>2, <2>3, <3>2
    <3> QED
      BY <2>1, <3>1, <3>3
  <2>5. CASE ~(advanced.base + Window <= i)
    <3>1. i < advanced.base + Window
      BY <2>2, <2>5, ReceiverNumbers, WindowSizes
    <3>2. new <=> i \notin advanced.stored
      BY <2>2, <3>1, MaskOfStored
    <3>3. CASE TooMuch(counted, m, i, new)
      <4>1. t = [counted EXCEPT !.source = NoMessage]
        BY <1>2, <1>4, <2>5, <3>3
      <4>2. counted = advanced
              \/ counted = [advanced EXCEPT !.expected = m.n,
                              !.mask = IF m.n < Window
                                         THEN MaskAt(advanced.base, m.n)
                                         ELSE advanced.mask]
        BY DEF Counted
      <4>3. /\ counted.source = m /\ t.source = NoMessage
            /\ counted.stored = advanced.stored
        BY <2>2, <4>1, <4>2 DEF Gathered, Receiver
      <4>4. PlaceOf(counted, i) <= BufferSize
        <5> DEFINE J == {j \in advanced.stored : j < i}
        <5>1. advanced.stored \in SUBSET (0 .. m.n - 1)
          BY <2>2, ReceiverNumbers
        <5>2. J \in SUBSET (0 .. i - 1)
          BY <1>1, <5>1
        <5>3. IsFiniteSet(0 .. i - 1) /\ Cardinality(0 .. i - 1) = i
          BY FS_Interval
        <5>4. Cardinality(J) <= i /\ Cardinality(J) \in Nat
          BY <5>2, <5>3, FS_Subset, FS_CardinalityType
        <5>5. m.n <= BufferSize /\ BufferSize \in Nat
          BY MessageNumbers, WindowSizes DEF Orderly
        <5>6. PlaceOf(counted, i) = Cardinality(J) + 1
          BY <4>3 DEF PlaceOf
        <5> HIDE DEF J
        <5> QED
          BY <1>1, <5>4, <5>5, <5>6
      <4>5. i = 0
        <5>1. PlaceOf(counted, i) \in Nat
          <6>1. advanced.stored \in SUBSET (0 .. m.n - 1)
                /\ IsFiniteSet(advanced.stored)
            BY <2>2, ReceiverNumbers
          <6>2. IsFiniteSet({j \in advanced.stored : j < i})
            BY <6>1, FS_Subset
          <6> QED
            BY <4>3, <6>2, FS_CardinalityType DEF PlaceOf
        <5> QED
          BY <3>3, <4>4, <5>1, WindowSizes DEF TooMuch
      <4> QED
        BY <4>3, <4>5
    <3>4. CASE ~TooMuch(counted, m, i, new)
      <4>1. t = Marked(counted, i, new)
        BY <1>2, <1>4, <2>5, <3>4
      <4>2. CASE new
        <5>1. t = Marked(Counted(advanced, advanced.source, i), i, TRUE)
          BY <2>2, <4>1, <4>2 DEF Marked
        <5>2. i \notin advanced.stored /\ i < advanced.source.n
          BY <2>2, <3>2, <4>2
        <5> HIDE DEF t
        <5>3. /\ Gathered(t) /\ t.source = m /\ t.base = advanced.base
              /\ t.stored = advanced.stored \cup {i}
          BY <2>2, <3>1, <5>1, <5>2, StoredStep
        <5>4. Adds(rx, t, m, i)
          BY <2>3, <3>1, <5>3
        <5> QED
          BY <2>1, <5>4 DEF t
      <4>3. CASE ~new
        <5>1. t = Marked(Counted(advanced, advanced.source, i), i, FALSE)
          BY <2>2, <4>1, <4>3 DEF Marked
        <5>2. i \in advanced.stored
          BY <3>2, <4>3
        <5>3. t = advanced
          BY <2>2, <3>1, <5>1, <5>2, RepeatedStep
        <5>4. Adds(rx, advanced, m, i)
          BY <2>2, <2>3, <3>1, <5>2
        <5> QED
          BY <2>1, <5>3, <5>4
      <4> QED
        BY <4>2, <4>3
    <3> QED
      BY <3>3, <3>4
  <2> QED
    BY <2>4, <2>5
<1> QED
  BY <1>3, <1>4

\* ... leaves the receiver between two fragments, and what it passes on is whole.
LEMMA IncomingStep ==
  ASSUME Orderly, Between(rx), WholeMessages,
         NEW m \in Message, m.n < Byte, NEW i \in Nat, i < m.n,
         rx.source = m => rx.base <= i, IncomingMessage(m, i)
  PROVE  /\ WholeMessages' /\ Between(rx)'
         /\ \/ rx'.source = NoMessage
            \/ rx' = rx /\ rx.source # m
            \/ rx'.source = m /\ rx'.base <= i
<1> DEFINE t == After(m, i)
<1>1. m # NoMessage
  BY MessageNumbers DEF NoMessage
<1>2. \/ t.source = NoMessage
      \/ t = rx /\ rx.source # m
      \/ /\ t.source = m /\ Gathered(t) /\ t.base <= i
         /\ ~Kept(m, i) => ~Complete(t)
  <2>1. \/ t.source = NoMessage
        \/ t = rx /\ rx.source # m
        \/ Adds(rx, t, m, i)
    BY AfterStep
  <2> QED
    BY <2>1 DEF Adds, Kept
<1>3. Kept(m, i) => t.source = m
  BY DEF Kept
<1> HIDE DEF t
<1>4. CASE Whole(m, i)
  <2>1. t.source = m /\ t.received = t.expected
    BY <1>3, <1>4 DEF Whole, t
  <2>2. Gathered(t)
    BY <1>1, <1>2, <2>1
  <2>3. ContentOf(t) = InOrder(m.n)
    BY <2>1, <2>2, CompleteIsWhole
  <2>4. /\ rx' = [t EXCEPT !.source = NoMessage]
        /\ delivered' = delivered \cup {[msg |-> m, content |-> ContentOf(t)]}
    BY <1>4 DEF IncomingMessage, t
  <2>5. rx'.source = NoMessage
    BY <2>2, <2>4 DEF Gathered, Receiver
  <2>6. WholeMessages'
    BY <2>3, <2>4 DEF WholeMessages
  <2> QED
    BY <2>5, <2>6 DEF Between
<1>5. CASE ~Whole(m, i)
  <2>1. rx' = t /\ delivered' = delivered
    BY <1>5 DEF IncomingMessage, t
  <2>2. WholeMessages'
    BY <2>1 DEF WholeMessages
  <2>3. CASE t.source = m /\ Gathered(t) /\ t.base <= i
    <3>1. ~Complete(t)
      <4>1. CASE Kept(m, i)
        <5>1. ~(t.received = t.expected)
          BY <1>5, <4>1 DEF Whole, t
        <5> QED
          BY <2>3, <5>1, CompleteIsWhole
      <4>2. CASE ~Kept(m, i)
        BY <1>1, <1>2, <2>3, <4>2
      <4> QED
        BY <4>1, <4>2
    <3> QED
      BY <2>1, <2>2, <2>3, <3>1 DEF Between
  <2>4. CASE t.source = NoMessage
    BY <2>1, <2>2, <2>4 DEF Between
  <2>5. CASE t = rx /\ rx.source # m
    BY <2>1, <2>2, <2>5 DEF Between
  <2> QED
    BY <1>2, <2>3, <2>4, <2>5
<1> QED
  BY <1>4, <1>5

-----------------------------------------------------------------------------
(* The steps together.                                                     *)

LEMMA MessageOrNone ==
  ASSUME NEW m \in Message \cup {NoMessage}
  PROVE  m.id \in Nat /\ m.n \in Nat
<1>1. CASE m \in Message
  BY <1>1, MessageNumbers
<1>2. CASE m = NoMessage
  BY <1>2 DEF NoMessage
<1> QED
  BY <1>1, <1>2

LEMMA ConcatNothing ==
  ASSUME NEW S, NEW s \in Seq(S)
  PROVE  s \o <<>> = s /\ <<>> \in Seq(S) /\ Len(<<>>) = 0
  BY ConcatEmptySeq, EmptySeq

LEMMA ConcatOne ==
  ASSUME NEW S, NEW s \in Seq(S), NEW e \in S
  PROVE  /\ Append(s, e) = s \o <<e>> /\ <<e>> \in Seq(S)
         /\ Len(<<e>>) = 1 /\ <<e>>[1] = e
  OBVIOUS

\* A step of the sender that sends u, of its present window
LEMMA SenderMoves ==
  ASSUME FragInv, SenderStep, SendInv', rx' = rx,
         NEW u \in Seq(AnyFragment), channel' = channel \o u,
         \A k \in 1 .. Len(u) :
           /\ u[k].msg = txMessage' /\ txFragmentBase' <= u[k].i
           /\ SentUpTo(u[k], txMessage', txFragmentBase')
  PROVE  LineInv' /\ RecvInv'
<1>1. /\ txMessage.id \in Nat /\ txFragmentBase \in Nat
      /\ txMessage'.id \in Nat /\ txFragmentBase' \in Nat
      /\ txFragmentBase' \in Bases
  <2>1. txMessage.id \in Nat /\ txFragmentBase \in Nat
    BY SenderTypes DEF FragInv
  <2>2. txMessage' \in Message \cup {NoMessage}
    BY DEF SendInv, SendTypeOK
  <2>3. txMessage'.id \in Nat
    BY <2>2, MessageOrNone
  <2>4. txFragmentBase' \in Bases
    BY DEF SenderStep, StackInv, Bases
  <2> QED
    BY <2>1, <2>3, <2>4 DEF Bases
<1>2. ASSUME NEW f, SentUpTo(f, txMessage, txFragmentBase)
      PROVE  SentUpTo(f, txMessage', txFragmentBase')
  BY <1>1, <1>2, SentLater DEF SenderStep, MovesOn
<1>3. Line(channel, txMessage, txFragmentBase)
  BY DEF FragInv, LineInv
<1>4. /\ Line(channel', txMessage', txFragmentBase')
      /\ \A k \in 1 .. Len(channel') :
           \/ k \in 1 .. Len(channel) /\ channel'[k] = channel[k]
           \/ channel'[k].msg = txMessage' /\ txFragmentBase' <= channel'[k].i
  <2>1. GoesOn(txMessage, txFragmentBase, txMessage', txFragmentBase')
    BY <1>2 DEF GoesOn
  <2>2. OfWindow(u, txMessage', txFragmentBase')
    BY DEF OfWindow
  <2> QED
    BY <1>1, <1>3, <2>1, <2>2, LineExtended
<1>5. ASSUME rx.source # NoMessage  PROVE RecvInv'
  <2>1. /\ rx.source.id \in Nat /\ rx.source.id <= txMessage.id
        /\ rx.base \in Nat
        /\ rx.source = txMessage => rx.base <= txFragmentBase
    BY <1>5, ReceiverNumbers, MessageNumbers DEF FragInv, Between, RecvInv
  <2>2. /\ rx.source.id <= txMessage'.id
        /\ rx.source = txMessage' => rx.base <= txFragmentBase'
    BY <1>1, <2>1 DEF SenderStep, MovesOn
  <2>3. ASSUME NEW k \in 1 .. Len(channel'), channel'[k].msg = rx.source
        PROVE  rx.base <= channel'[k].i
    <3>1. CASE k \in 1 .. Len(channel) /\ channel'[k] = channel[k]
      BY <1>5, <2>3, <3>1 DEF FragInv, RecvInv
    <3>2. CASE channel'[k].msg = txMessage' /\ txFragmentBase' <= channel'[k].i
      <4>1. channel'[k].i \in Nat
        BY <1>4 DEF Line, SentUpTo, AnyFragment
      <4> QED
        BY <1>1, <2>1, <2>2, <2>3, <3>2, <4>1
    <3> QED
      BY <1>4, <3>1, <3>2
  <2> QED
    BY <2>2, <2>3 DEF RecvInv
<1>6. ASSUME rx.source = NoMessage  PROVE RecvInv'
  BY <1>6 DEF RecvInv
<1> QED
  BY <1>4, <1>5, <1>6 DEF LineInv

\* What the stack has just taken leaves.
LEMMA TransmittedStep ==
  ASSUME FragInv, SenderStep, SendInv', rx' = rx, Transmitted
  PROVE  LineInv' /\ RecvInv'
<1> DEFINE n == Cardinality(stack' \ stack)
           u == [k \in 1 .. n |-> Fragment(txMessage', txFragmentBase' + k - 1)]
<1>1. n \in Nat
  BY FS_Difference, FS_CardinalityType DEF SendInv
<1>2. txFragmentBase' \in Nat
  BY DEF SenderStep, StackInv, Bases
<1>3. ASSUME NEW k \in 1 .. n
      PROVE  /\ u[k] \in AnyFragment
             /\ u[k].msg = txMessage' /\ txFragmentBase' <= u[k].i
             /\ SentUpTo(u[k], txMessage', txFragmentBase')
  <2>1. u[k] = Fragment(txMessage', txFragmentBase' + k - 1)
    OBVIOUS
  <2>2. SentUpTo(u[k], txMessage', txFragmentBase')
    BY <2>1 DEF SenderStep, LeftIsSent
  <2>3. u[k].msg = txMessage' /\ u[k].i = txFragmentBase' + k - 1
    BY <2>1 DEF Fragment
  <2> HIDE DEF u
  <2> QED
    BY <1>1, <1>2, <2>2, <2>3 DEF SentUpTo
<1>4. u \in Seq(AnyFragment) /\ Len(u) = n
  <2>1. u = [k \in 1 .. n |-> u[k]]
    OBVIOUS
  <2> HIDE DEF u, n
  <2>2. u \in [1 .. n -> AnyFragment]
    BY ONLY <1>3, <2>1
  <2> QED
    BY ONLY <1>1, <2>2, LenProperties
<1>5. channel' = channel \o u
  BY DEF Transmitted
<1> HIDE DEF u
<1> QED
  BY <1>3, <1>4, <1>5, SenderMoves

LEMMA CallsKeep ==
  ASSUME Orderly, FragInv, SendInv', SenderCalls
  PROVE  FragInv'
<1>1. Call /\ Transmitted /\ rx' = rx /\ delivered' = delivered
  BY DEF SenderCalls, recvVars
<1>2. SenderStep
  BY <1>1, CallSender DEF FragInv
<1>3. LineInv' /\ RecvInv'
  BY <1>1, <1>2, TransmittedStep
<1> QED
  BY <1>1, <1>2, <1>3 DEF FragInv, SenderStep, Between, WholeMessages

LEMMA ReportsSentKeep ==
  ASSUME Orderly, FragInv, SendInv', ReportsSent
  PROVE  FragInv'
<1>1. /\ \E f \in stack : FragmentSent(f) \/ WindowSent(f)
      /\ Transmitted /\ rx' = rx /\ delivered' = delivered
  BY DEF ReportsSent, recvVars
<1>2. SenderStep
  BY <1>1, ReportSender DEF FragInv
<1>3. LineInv' /\ RecvInv'
  BY <1>1, <1>2, TransmittedStep
<1> QED
  BY <1>1, <1>2, <1>3 DEF FragInv, SenderStep, Between, WholeMessages

LEMMA ReportsFailedKeep ==
  ASSUME Orderly, FragInv, SendInv', ReportsFailed
  PROVE  FragInv'
<1>1. /\ \E f \in stack : FragmentFailed(f)
      /\ channel' = channel /\ rx' = rx /\ delivered' = delivered
  BY DEF ReportsFailed, recvVars
<1>2. SenderStep
  BY <1>1, ReportSender DEF FragInv
<1>3. /\ channel' = channel \o <<>> /\ <<>> \in Seq(AnyFragment)
      /\ \A k \in 1 .. Len(<<>>) : FALSE
  BY <1>1, ConcatNothing DEF FragInv, LineInv, Line
<1>4. LineInv' /\ RecvInv'
  <2> DEFINE u == <<>>
  <2>1. /\ channel' = channel \o u /\ u \in Seq(AnyFragment)
        /\ \A k \in 1 .. Len(u) : FALSE
    BY <1>3
  <2> HIDE DEF u
  <2> QED
    BY <1>1, <1>2, <2>1, SenderMoves
<1> QED
  BY <1>1, <1>2, <1>4 DEF FragInv, SenderStep, Between, WholeMessages

\* A fragment the stack holds is sent again.
LEMMA ResendKeeps ==
  ASSUME Orderly, FragInv, SendInv', Resend
  PROVE  FragInv'
<1>1. PICK f \in stack : channel' = Append(channel, f)
  BY DEF Resend
<1>2. /\ UNCHANGED <<txMessage, txFragmentCount, txFragmentBase,
                     txFragmentsInTransit, stack, returned>>
      /\ rx' = rx /\ delivered' = delivered
  BY DEF Resend, sendVars, recvVars
<1>3. SenderStep
  <2>1. StackInv'
    BY <1>2 DEF FragInv, StackInv, Sent
  <2>2. MovesOn
    BY <1>2, SenderTypes DEF FragInv, MovesOn
  <2> QED
    BY <1>2, <2>1, <2>2, NothingLeft DEF SenderStep
<1>4. /\ f.msg = txMessage' /\ txFragmentBase' <= f.i
      /\ SentUpTo(f, txMessage', txFragmentBase')
      /\ f \in AnyFragment
  BY <1>2 DEF FragInv, StackInv, Sent, SentUpTo
<1>5. LineInv' /\ RecvInv'
  <2> DEFINE u == <<f>>
  <2>1. /\ channel' = channel \o u /\ u \in Seq(AnyFragment)
        /\ Len(u) = 1 /\ u[1] = f
    BY <1>1, <1>4, ConcatOne DEF FragInv, LineInv, Line
  <2> HIDE DEF u
  <2>2. \A k \in 1 .. Len(u) : u[k] = f
    BY <2>1
  <2> QED
    BY <1>2, <1>3, <1>4, <2>1, <2>2, SenderMoves
<1> QED
  BY <1>2, <1>3, <1>5 DEF FragInv, SenderStep, Between, WholeMessages

\* The sender's part when only the line and the receiver change
LEMMA SenderStill ==
  ASSUME FragInv, UNCHANGED sendVars
  PROVE  StackInv' /\ UNCHANGED <<txMessage, txFragmentBase>>
  BY DEF FragInv, StackInv, Sent, sendVars

LEMMA LosesKeeps ==
  ASSUME FragInv, SendInv', LosesFragment
  PROVE  FragInv'
<1>1. /\ \E k \in DOMAIN channel : channel' = RemoveAt(channel, k)
      /\ UNCHANGED sendVars /\ rx' = rx /\ delivered' = delivered
  BY DEF LosesFragment, recvVars
<1>2. Line(channel, txMessage, txFragmentBase)
  BY DEF FragInv, LineInv
<1>3. PICK k \in 1 .. Len(channel) : channel' = RemoveAt(channel, k)
  BY <1>1, <1>2, LenProperties DEF Line
<1>4. /\ Line(channel', txMessage, txFragmentBase)
      /\ \A j \in 1 .. Len(channel') :
           /\ Skipping(k, j) \in 1 .. Len(channel)
           /\ channel'[j] = channel[Skipping(k, j)]
  BY <1>2, <1>3, LineWithout
<1>5. StackInv' /\ UNCHANGED <<txMessage, txFragmentBase>>
  BY <1>1, SenderStill
<1>6. RecvInv'
  BY <1>1, <1>4, <1>5 DEF FragInv, RecvInv
<1> QED
  BY <1>1, <1>4, <1>5, <1>6 DEF FragInv, LineInv, Between, WholeMessages

\* The first fragment under way arrives.
LEMMA ArrivesKeeps ==
  ASSUME Orderly, FragInv, SendInv', FragmentArrives
  PROVE  FragInv'
<1>1. Line(channel, txMessage, txFragmentBase)
  BY DEF FragInv, LineInv
<1>2. /\ 1 \in 1 .. Len(channel) /\ channel' = RemoveAt(channel, 1)
      /\ IncomingMessage(channel[1].msg, channel[1].i)
      /\ UNCHANGED sendVars
  BY <1>1, LenProperties DEF FragmentArrives, Orderly, Line
<1> DEFINE f == channel[1]
           m == f.msg
           i == f.i
<1>3. /\ m \in Message /\ i \in Nat /\ m.n < Byte /\ i < m.n
      /\ m.id <= txMessage.id
      /\ m = txMessage => i < txFragmentBase + Window
  BY <1>1, <1>2 DEF Line, SentUpTo, AnyFragment
<1>4. /\ Line(channel', txMessage, txFragmentBase)
      /\ \A j \in 1 .. Len(channel') :
           /\ Skipping(1, j) \in 1 .. Len(channel) /\ Skipping(1, j) > 1
           /\ channel'[j] = channel[Skipping(1, j)]
  BY <1>1, <1>2, LineWithout
<1>5. StackInv' /\ UNCHANGED <<txMessage, txFragmentBase>>
  BY <1>2, SenderStill
<1>6. rx.source = m => rx.base <= i
  <2>1. m # NoMessage
    BY <1>3, MessageNumbers DEF NoMessage
  <2> QED
    BY <1>2, <2>1 DEF FragInv, RecvInv
<1>7. IncomingMessage(m, i)
  BY <1>2
<1>8. ASSUME NEW j \in 1 .. Len(channel'), channel'[j].msg = m
      PROVE  \A b \in Bases : b <= i => b <= channel'[j].i
  <2>1. /\ Skipping(1, j) \in 1 .. Len(channel) /\ 1 < Skipping(1, j)
        /\ channel'[j] = channel[Skipping(1, j)]
    BY <1>4, <1>8
  <2> QED
    BY <1>1, <1>2, <1>8, <2>1 DEF Line, NotBefore
<1> HIDE DEF m, i, f
<1>9. /\ WholeMessages' /\ Between(rx)'
      /\ \/ rx'.source = NoMessage
         \/ rx' = rx /\ rx.source # m
         \/ rx'.source = m /\ rx'.base <= i
  BY <1>3, <1>6, <1>7, IncomingStep DEF FragInv
<1>10. RecvInv'
  <2>1. CASE rx'.source = NoMessage
    BY <2>1 DEF RecvInv
  <2>2. CASE rx' = rx
    BY <1>4, <1>5, <2>2 DEF FragInv, RecvInv
  <2>3. CASE rx'.source = m /\ rx'.source # NoMessage /\ rx'.base <= i
    <3>1. rx'.base \in Bases /\ rx'.base \in Nat
      BY <1>9, <2>3, ReceiverNumbers DEF Between
    <3>2. ASSUME m = txMessage  PROVE rx'.base <= txFragmentBase
      <4>1. txFragmentBase \in Bases /\ txFragmentBase \in Nat /\ Window \in Nat
        BY WindowSizes DEF FragInv, StackInv, Bases
      <4>2. rx'.base < txFragmentBase + Window
        BY <1>3, <2>3, <3>1, <3>2, <4>1
      <4> QED
        BY <3>1, <4>1, <4>2, BasesApart
    <3> QED
      BY <1>3, <1>5, <1>8, <2>3, <3>1, <3>2 DEF RecvInv
  <2> QED
    BY <1>9, <2>1, <2>2, <2>3
<1> QED
  BY <1>4, <1>5, <1>9, <1>10 DEF FragInv, LineInv

LEMMA AbortsKeep ==
  ASSUME FragInv, SendInv', ReceiverAborts
  PROVE  FragInv'
<1>1. /\ rx.source # NoMessage /\ rx' = [rx EXCEPT !.source = NoMessage]
      /\ delivered' = delivered /\ channel' = channel /\ UNCHANGED sendVars
  BY DEF ReceiverAborts, AbortReception
<1>2. StackInv' /\ UNCHANGED <<txMessage, txFragmentBase>>
  BY <1>1, SenderStill
<1>3. rx'.source = NoMessage
  BY <1>1 DEF FragInv, Between, Gathered, Receiver
<1> QED
  BY <1>1, <1>2, <1>3
     DEF FragInv, LineInv, RecvInv, Between, WholeMessages

LEMMA FragInvStep ==
  ASSUME Orderly, FragInv, [FragNext]_fragVars
  PROVE  FragInv'
<1>1. SendInv'
  BY FragStepIsSendStep, SendInvStep DEF FragInv
<1>2. CASE UNCHANGED fragVars
  <2>1. UNCHANGED sendVars /\ rx' = rx /\ delivered' = delivered /\ channel' = channel
    BY <1>2 DEF fragVars, recvVars
  <2>2. StackInv' /\ UNCHANGED <<txMessage, txFragmentBase>>
    BY <2>1, SenderStill
  <2> QED
    BY <1>1, <2>1, <2>2 DEF FragInv, LineInv, RecvInv, Between, WholeMessages
<1>3. CASE FragNext
  BY <1>1, <1>3, CallsKeep, ReportsSentKeep, ReportsFailedKeep, ResendKeeps,
     LosesKeeps, ArrivesKeeps, AbortsKeep DEF FragNext
<1> QED
  BY <1>2, <1>3

LEMMA FragInvInit == FragInit => FragInv
<1> SUFFICES ASSUME FragInit  PROVE FragInv
  OBVIOUS
<1>1. SendInv
  BY InitStep DEF FragInit
<1>2. StackInv
  <2>1. /\ txMessage = NoMessage /\ returned = <<>> /\ txFragmentBase = 0
        /\ stack = {} /\ txFragmentsInTransit = 0
    BY DEF FragInit, SendInit
  <2>2. txMessage.id <= Len(returned) /\ Cardinality(stack) = 0
    BY <2>1, FS_EmptySet DEF NoMessage
  <2> QED
    BY <2>1, <2>2, ZeroIsBase DEF StackInv
<1>3. LineInv
  <2>1. channel = <<>> /\ channel \in Seq(AnyFragment) /\ Len(channel) = 0
    BY DEF FragInit
  <2> QED
    BY <2>1 DEF LineInv, Line
<1>4. rx.source = NoMessage /\ delivered = {}
  BY DEF FragInit, RecvInit, Idle
<1> QED
  BY <1>1, <1>2, <1>3, <1>4 DEF FragInv, Between, RecvInv, WholeMessages

\* The invariant of sender, network and receiver together.
THEOREM FragInvariant == ASSUME Orderly PROVE FragSpec => []FragInv
<1>1. FragInv /\ [FragNext]_fragVars => FragInv'
  BY FragInvStep
<1> QED
  BY <1>1, FragInvInit, PTL DEF FragSpec

\* What emAfFragmentationIncomingMessage passes on is made of every fragment of
\* its message, in order, whatever is lost, sent again or given up.
THEOREM PassedOnIsWhole == ASSUME Orderly PROVE FragSpec => []WholeMessages
<1>1. FragInv => WholeMessages
  BY DEF FragInv
<1> QED
  BY <1>1, FragInvariant, PTL

-----------------------------------------------------------------------------
(* A message reported as sent was received.                                *)

\* Messages longer than a window, or windows so small that the two fragments
\* of one make a message
Telling == \A n \in Lengths : n < Byte => Window < n \/ Window <= 2

Received(m) == \E d \in delivered : d.msg = m /\ d.content = InOrder(m.n)

\* The sender is in its last window: the fragments of it, and those no reply
\* has acknowledged
LastWindow == txMessage.n <= txFragmentBase + Window
OfLast == txFragmentBase .. txMessage.n - 1
Unanswered(i) == Fragment(txMessage, i) \in stack \ acked

\* In the first window fragment 0 is not answered without the other.  In a later
\* one what was answered is at the receiver, or none was, or the receiver gave
\* up when one was missing and cannot begin again.
StillMissing ==
  IF txFragmentBase = 0 THEN Unanswered(0)
  ELSE \/ /\ rx.source = txMessage /\ rx.base = txFragmentBase
          /\ \A i \in OfLast : i \in rx.stored \/ Unanswered(i)
       \/ \A i \in OfLast : Unanswered(i)
       \/ /\ rx.source # txMessage
          /\ \E i \in OfLast : Unanswered(i)
          /\ \A k \in 1 .. Len(channel) :
               channel[k].msg = txMessage => Window <= channel[k].i

\* Of a window the stack did not take to its end, no reply speaks.
CutShort ==
  /\ acked = {}
  /\ \A f \in stack : f.i # txMessage.n - 1
  /\ \A k \in 1 .. Len(channel) :
       channel[k].msg = txMessage => channel[k].i # txMessage.n - 1
  /\ rx.source = txMessage => txMessage.n - 1 \notin rx.stored

AnswerInv ==
  /\ acked \subseteq stack
  /\ sending /\ txMessage.n < Byte /\ LastWindow /\ ~Received(txMessage)
       => StillMissing
  /\ ~sending /\ stack # {} /\ LastWindow
       => Cardinality(stack) < txFragmentsInTransit \/ CutShort

\* What a reply acknowledges is stored, and in the last window it means that the
\* last fragment is.
LEMMA ReplyMeans ==
  ASSUME Orderly, NEW t, Gathered(t), NEW i \in Nat, i \in t.stored,
         t.base <= i, i < t.base + Window
  PROVE  /\ \A b \in t.mask \cap (0 .. Window - 1) :
              t.base + b < t.source.n => t.base + b \in t.stored
         /\ \/ i = t.expected - 1
            \/ t.mask \cup (0 .. Bit(i) - 1) = Bits
            => (t.source.n <= t.base + Window => t.source.n - 1 \in t.stored)
<1> DEFINE n == t.source.n
<1>1. /\ t.base \in Nat /\ n \in Nat /\ n >= 1 /\ t.base < n
      /\ n + Window <= Byte /\ Window \in 1 .. 8 /\ Byte \in Nat
      /\ t.expected = n \/ t.expected = Byte - 1
      /\ i < n
  <2>1. /\ t.base \in Nat /\ t.source \in Message /\ n < Byte
        /\ t.stored \in SUBSET (0 .. n - 1)
        /\ t.expected = n \/ t.expected = Byte - 1
    BY ReceiverNumbers DEF Gathered
  <2>2. n \in Nat /\ n >= 1 /\ n + Window <= Byte
    BY <2>1, MessageNumbers DEF Orderly
  <2> QED
    BY <2>1, <2>2, WindowSizes DEF Gathered
<1>2. ASSUME NEW b \in t.mask \cap (0 .. Window - 1), t.base + b < n
      PROVE  t.base + b \in t.stored
  <2>1. /\ t.base + b \in Nat /\ t.base <= t.base + b
        /\ t.base + b < t.base + Window /\ (t.base + b) - t.base = b
    BY <1>1
  <2>2. Bit(t.base + b) = b
    BY <1>2, <2>1, MaskOfStored
  <2> QED
    BY <1>2, <2>1, <2>2, MaskOfStored
<1>3. ASSUME n <= t.base + Window, i = t.expected - 1  PROVE n - 1 \in t.stored
  <2>1. i = n - 1
    BY <1>1, <1>3
  <2> QED
    BY <2>1
<1>4. ASSUME n <= t.base + Window, t.mask \cup (0 .. Bit(i) - 1) = Bits
      PROVE  n - 1 \in t.stored
  <2>1. n - 1 \in Nat /\ t.base <= n - 1 /\ n - 1 < t.base + Window /\ n - 1 < n
    BY <1>1, <1>4
  <2>2. Bit(n - 1) = n - 1 - t.base /\ Bit(n - 1) \in Bits
    BY <2>1, MaskOfStored
  <2>3. Bit(i) = i - t.base
    BY <1>1, MaskOfStored
  <2>4. Bit(n - 1) \notin 0 .. Bit(i) - 1
    BY <1>1, <2>2, <2>3
  <2>5. Bit(n - 1) \in t.mask
    BY <1>4, <2>2, <2>4
  <2> QED
    BY <2>1, <2>5, MaskOfStored
<1> QED
  BY <1>2, <1>3, <1>4

\* Fragments of other messages, and those that cannot begin one
LEMMA Ignored ==
  ASSUME NEW m \in Message, NEW i \in Nat, rx.source # m,
         rx.source # NoMessage \/ Window <= i
  PROVE  After(m, i) = rx /\ ~Kept(m, i)
<1>1. Begun(rx, m, i) = rx
  BY WindowSizes DEF Begun
<1>2. After(m, i) = rx
  BY <1>1 DEF After
<1> QED
  BY <1>2 DEF Kept

\* What happens when fragment i of m arrives, beyond the receiver
Arrives(m, i) ==
  /\ m \in Message /\ i \in Nat /\ m.n < Byte /\ i < m.n
  /\ rx.source = m => rx.base <= i
  /\ txMessage # NoMessage
  /\ m = txMessage => i < txFragmentBase + Window
  /\ \E k \in 1 .. Len(channel) : channel[k].msg = m /\ channel[k].i = i
  /\ IncomingMessage(m, i)
  /\ UNCHANGED sendVars
  /\ acked \subseteq acked'
  /\ \A g \in acked' \ acked : /\ Replies(m, i) /\ g \in stack /\ g.msg = m
                               /\ g.i \in Acknowledged(m, i)
  /\ \A j \in 1 .. Len(channel') :
       \E k \in 1 .. Len(channel) : channel'[j] = channel[k]

LEMMA SomeArrives ==
  ASSUME Orderly, FragInv, FragmentArrives
  PROVE  \E m, i : Arrives(m, i)
<1>1. Line(channel, txMessage, txFragmentBase)
  BY DEF FragInv, LineInv
<1> DEFINE f == channel[1]
           m == f.msg
           i == f.i
           replied == {g \in stack : g.msg = m /\ g.i \in Acknowledged(m, i)}
<1>2. /\ 1 \in 1 .. Len(channel) /\ channel' = RemoveAt(channel, 1)
      /\ IncomingMessage(m, i)
      /\ UNCHANGED sendVars
      /\ IF ~Replies(m, i) THEN acked' = acked
         ELSE acked' = acked \cup replied \/ acked' = acked
  BY <1>1, LenProperties DEF FragmentArrives, Orderly, Line
<1>3. /\ m \in Message /\ i \in Nat /\ m.n < Byte /\ i < m.n
      /\ m.id <= txMessage.id
      /\ m = txMessage => i < txFragmentBase + Window
  BY <1>1, <1>2 DEF Line, SentUpTo, AnyFragment
<1>4. ASSUME NEW j \in 1 .. Len(channel')
      PROVE  \E k \in 1 .. Len(channel) : channel'[j] = channel[k]
  BY <1>1, <1>2, LineWithout
<1>5. m # NoMessage /\ txMessage # NoMessage
  BY <1>3, MessageNumbers DEF NoMessage
<1>6. rx.source = m => rx.base <= i
  BY <1>2, <1>5 DEF FragInv, RecvInv
<1>7. acked \subseteq acked' /\ \A g \in acked' \ acked : Replies(m, i) /\ g \in replied
  BY <1>2
<1>8. \E k \in 1 .. Len(channel) : channel[k].msg = m /\ channel[k].i = i
  BY <1>2
<1> HIDE DEF m, i
<1> QED
  BY <1>2, <1>3, <1>4, <1>5, <1>6, <1>7, <1>8 DEF Arrives

\* What a fragment leaves of an answer: the last window stays as it was sent.
LEMMA SenderTold ==
  ASSUME UNCHANGED sendVars
  PROVE  /\ LastWindow' <=> LastWindow
         /\ OfLast' = OfLast
         /\ UNCHANGED <<sending, txMessage, txFragmentBase, stack,
                        txFragmentsInTransit, reports>>
  BY DEF sendVars, LastWindow, OfLast

LEMMA OtherArrives ==
  ASSUME Orderly, FragInv, AnswerInv, NEW m, NEW i, Arrives(m, i), m # txMessage
  PROVE  AnswerInv'
<1>1. /\ UNCHANGED <<sending, txMessage, txFragmentBase, stack,
                     txFragmentsInTransit>>
      /\ (LastWindow' <=> LastWindow) /\ OfLast' = OfLast
  BY SenderTold DEF Arrives
<1>2. acked' = acked
  <2>1. \A g \in stack : g.msg = txMessage
    BY DEF FragInv, StackInv
  <2> QED
    BY <2>1 DEF Arrives
<1>3. rx'.source = txMessage => rx' = rx
  <2>1. CASE rx.source = txMessage
    <3>1. After(m, i) = rx /\ ~Kept(m, i)
      BY <2>1, Ignored DEF Arrives
    <3>2. rx' = rx
      BY <3>1 DEF Arrives, IncomingMessage, Whole
    <3> QED
      BY <3>2
  <2>2. CASE rx.source # txMessage
    <3>1. \/ rx'.source = NoMessage
          \/ rx' = rx
          \/ rx'.source = m
      BY IncomingStep DEF FragInv, Arrives
    <3> QED
      BY <2>2, <3>1 DEF Arrives
  <2> QED
    BY <2>1, <2>2
<1>4. rx.source = txMessage => rx' = rx
  <2>1. ASSUME rx.source = txMessage  PROVE rx' = rx
    <3>1. After(m, i) = rx /\ ~Kept(m, i)
      BY <2>1, Ignored DEF Arrives
    <3> QED
      BY <3>1 DEF Arrives, IncomingMessage, Whole
  <2> QED
    BY <2>1
<1>5. Received(txMessage) => Received(txMessage)'
  BY <1>1 DEF Arrives, IncomingMessage, Received
<1>6. \A j \in 1 .. Len(channel') :
        \E k \in 1 .. Len(channel) : channel'[j] = channel[k]
  BY DEF Arrives
<1>7. \A j : Unanswered(j)' <=> Unanswered(j)
  BY <1>1, <1>2 DEF Unanswered
<1>8. StillMissing => StillMissing'
  BY <1>1, <1>3, <1>4, <1>6, <1>7 DEF StillMissing
<1>9. CutShort => CutShort'
  BY <1>1, <1>2, <1>3, <1>6 DEF CutShort
<1> QED
  BY <1>1, <1>2, <1>5, <1>8, <1>9 DEF AnswerInv

\* Fragment i of the present message is kept: what is acknowledged is stored.
LEMMA KeptMeans ==
  ASSUME Orderly, FragInv, NEW m, NEW i, Arrives(m, i), Kept(m, i)
  PROVE  LET t == After(m, i) IN
           /\ Adds(rx, t, m, i) /\ i \in t.stored
           /\ rx.source = m \/ (rx.source = NoMessage /\ i < Window)
           /\ \A j \in Acknowledged(m, i) : j < m.n => j \in t.stored
           /\ Replies(m, i) /\ m.n <= t.base + Window => m.n - 1 \in t.stored
<1> DEFINE t == After(m, i)
<1>1. /\ m \in Message /\ m.n < Byte /\ i \in Nat /\ i < m.n /\ Between(rx)
      /\ rx.source = m => rx.base <= i
  BY DEF Arrives, FragInv
<1>2. t.source = m /\ i < t.base + Window /\ m # NoMessage
  BY <1>1, MessageNumbers DEF Kept, NoMessage
<1>3. /\ rx.source = m \/ (rx.source = NoMessage /\ i < Window)
      /\ Adds(rx, t, m, i)
  <2>1. \/ t.source = NoMessage /\ i = 0
        \/ t = rx /\ rx.source # m /\ (rx.source = NoMessage => Window <= i)
        \/ /\ rx.source = m \/ (rx.source = NoMessage /\ i < Window)
           /\ Adds(rx, t, m, i)
    BY <1>1, AfterStep
  <2> HIDE DEF t
  <2> QED
    BY <1>2, <2>1
<1>4. Acknowledged(m, i) = {t.base + b : b \in t.mask \cap (0 .. Window - 1)}
  BY DEF Acknowledged
<1>5. Replies(m, i) => (i = t.expected - 1 \/ t.mask \cup (0 .. Bit(i) - 1) = Bits)
  BY DEF Replies
<1> HIDE DEF t
<1>6. Gathered(t) /\ t.base <= i /\ i \in t.stored
  BY <1>2, <1>3 DEF Adds
<1>7. /\ \A b \in t.mask \cap (0 .. Window - 1) : t.base + b < m.n => t.base + b \in t.stored
      /\ Replies(m, i) /\ m.n <= t.base + Window => m.n - 1 \in t.stored
  BY <1>1, <1>2, <1>5, <1>6, ReplyMeans
<1> QED
  BY <1>3, <1>4, <1>6, <1>7 DEF t

\* A message that is whole is passed on, whole.
LEMMA PassesOn ==
  ASSUME Orderly, FragInv, NEW i, Arrives(txMessage, i), txMessage' = txMessage,
         Whole(txMessage, i)
  PROVE  Received(txMessage)'
<1> DEFINE d == [msg |-> txMessage, content |-> ContentOf(After(txMessage, i))]
<1>1. d \in delivered' /\ d.msg = txMessage
  BY DEF Arrives, IncomingMessage
<1>2. WholeMessages'
  BY IncomingStep DEF Arrives, FragInv
<1> HIDE DEF d
<1> QED
  BY <1>1, <1>2 DEF WholeMessages, Received

\* In a later window
LEMMA LaterWindow ==
  ASSUME Orderly, FragInv, AnswerInv, NEW i, Arrives(txMessage, i),
         sending, LastWindow, txFragmentBase # 0, StillMissing,
         ~Received(txMessage)'
  PROVE  StillMissing'
<1> DEFINE m == txMessage
           base == txFragmentBase
           t == After(m, i)
<1>1. /\ UNCHANGED <<sending, txMessage, txFragmentBase, stack>> /\ OfLast' = OfLast
  BY SenderTold DEF Arrives
<1>2. /\ m \in Message /\ m.n \in Nat /\ m # NoMessage /\ m.n < Byte
      /\ i \in Nat /\ i < m.n /\ i < base + Window
      /\ base \in Bases /\ base \in Nat /\ Window \in Nat /\ Window >= 1
      /\ m.n <= base + Window
      /\ OfLast = base .. m.n - 1
  <2>1. m \in Message /\ i \in Nat /\ m # NoMessage /\ i < m.n /\ i < base + Window
        /\ m.n < Byte
    BY DEF Arrives
  <2>2. base \in Bases /\ base \in Nat
    BY DEF FragInv, StackInv, Bases
  <2> QED
    BY <2>1, <2>2, MessageNumbers, WindowSizes DEF LastWindow, OfLast
<1>3. Window <= base
  <2>1. SUFFICES ASSUME base < 0 + Window  PROVE FALSE
    BY <1>2
  <2>2. base <= 0
    BY <1>2, <2>1, ZeroIsBase, BasesApart
  <2> QED
    BY <1>2, <2>2
<1>4. ~Whole(m, i) /\ rx' = t
  BY <1>1, PassesOn DEF Arrives, IncomingMessage
<1>5. ASSUME NEW j \in OfLast, Unanswered(j), ~Unanswered(j)'
      PROVE  Kept(m, i) /\ j \in Acknowledged(m, i) /\ j \in t.stored
  <2>1. Fragment(m, j) \in acked' \ acked
    BY <1>1, <1>5 DEF Unanswered
  <2>2. Replies(m, i) /\ j \in Acknowledged(m, i)
    BY <2>1 DEF Arrives, Fragment
  <2>3. Kept(m, i)
    BY <2>2 DEF Replies
  <2>4. j < m.n
    BY <1>2
  <2> QED
    BY <2>2, <2>3, <2>4, KeptMeans
<1>7. CASE rx.source = m /\ rx.base = base /\ \A j \in OfLast : j \in rx.stored \/ Unanswered(j)
  <2>1. Adds(rx, t, m, i)
    <3>1. base <= i
      BY <1>7 DEF Arrives
    <3>2. i # 0
      BY <1>2, <1>3, <3>1
    <3>3. \/ t.source = NoMessage /\ i = 0
          \/ t = rx /\ rx.source # m
          \/ Adds(rx, t, m, i)
      BY <1>2, AfterStep DEF Arrives, FragInv
    <3> QED
      BY <1>7, <3>2, <3>3
  <2> HIDE DEF t
  <2>2. t.source = m /\ t.base <= i /\ rx.base <= t.base /\ rx.stored \subseteq t.stored
        /\ Gathered(t)
    BY <1>7, <2>1 DEF Adds
  <2>3. t.base = base
    <3>1. t.base \in Bases /\ t.base \in Nat
      BY <2>2, ReceiverNumbers
    <3>2. t.base < base + Window
      BY <1>2, <2>2, <3>1
    <3>3. t.base <= base
      BY <1>2, <3>1, <3>2, BasesApart
    <3> QED
      BY <1>2, <1>7, <2>2, <3>1, <3>3
  <2>4. \A j \in OfLast : j \in t.stored \/ Unanswered(j)'
    BY <1>5, <1>7, <2>2
  <2> QED
    BY <1>1, <1>2, <1>4, <2>2, <2>3, <2>4 DEF StillMissing
<1>8. CASE \A j \in OfLast : Unanswered(j)
  <2>1. CASE \A j \in OfLast : Unanswered(j)'
    BY <1>1, <2>1 DEF StillMissing
  <2>2. CASE \E j \in OfLast : ~Unanswered(j)'
    <3>1. PICK j \in OfLast : ~Unanswered(j)'
      BY <2>2
    <3>2. Kept(m, i) /\ j \in Acknowledged(m, i)
      BY <1>5, <1>8, <3>1
    <3>3. Adds(rx, t, m, i)
      BY <3>2, KeptMeans
    <3>4. Acknowledged(m, i) = {t.base + b : b \in t.mask \cap (0 .. Window - 1)}
      BY DEF Acknowledged
    <3> HIDE DEF t
    <3>5. t.source = m /\ Gathered(t) /\ t.base <= i
      BY <3>3 DEF Adds
    <3>6. t.base \in Bases /\ t.base \in Nat
      BY <3>5, ReceiverNumbers
    <3>7. j < t.base + Window /\ base <= j /\ j \in Nat
      BY <1>2, <3>2, <3>4, <3>6
    <3>8. base <= t.base
      BY <1>2, <3>6, <3>7, BasesApart
    <3>9. t.base <= base
      BY <1>2, <3>5, <3>6, BasesApart
    <3>10. t.base = base
      BY <1>2, <3>6, <3>8, <3>9
    <3>11. \A l \in OfLast : l \in t.stored \/ Unanswered(l)'
      BY <1>5, <1>8
    <3> QED
      BY <1>1, <1>2, <1>4, <3>5, <3>10, <3>11 DEF StillMissing
  <2> QED
    BY <2>1, <2>2
<1>9. CASE /\ rx.source # m /\ \E j \in OfLast : Unanswered(j)
           /\ \A k \in 1 .. Len(channel) : channel[k].msg = m => Window <= channel[k].i
  <2>1. Window <= i
    BY <1>9 DEF Arrives
  <2>2. After(m, i) = rx /\ ~Kept(m, i)
    BY <1>2, <1>9, <2>1, Ignored
  <2>3. \E j \in OfLast : Unanswered(j)'
    BY <1>5, <1>9, <2>2
  <2>4. \A k \in 1 .. Len(channel') : channel'[k].msg = m => Window <= channel'[k].i
    BY <1>9 DEF Arrives
  <2> QED
    BY <1>1, <1>4, <1>9, <2>2, <2>3, <2>4 DEF StillMissing
<1> QED
  BY <1>2, <1>7, <1>8, <1>9 DEF StillMissing

\* In the first window
LEMMA FirstWindow ==
  ASSUME Orderly, Telling, FragInv, AnswerInv, NEW i, Arrives(txMessage, i),
         sending, LastWindow, txFragmentBase = 0, StillMissing,
         ~Received(txMessage)'
  PROVE  StillMissing'
<1> DEFINE m == txMessage
           t == After(m, i)
<1>1. UNCHANGED <<sending, txMessage, txFragmentBase, stack>>
  BY SenderTold DEF Arrives
<1>2. /\ m \in Message /\ m.n \in Nat /\ m.n >= 1 /\ m.n = Window /\ Window <= 2
      /\ Window \in Nat
  <2>1. m \in Message /\ m.n < Byte
    BY DEF Arrives
  <2>2. m.n <= Window /\ m.n \in Nat /\ m.n >= 1 /\ Window \in Nat
    BY <2>1, MessageNumbers, WindowSizes DEF LastWindow
  <2>3. Window <= m.n /\ (Window < m.n \/ Window <= 2)
    BY <2>1, MessageNumbers DEF Orderly, Telling
  <2> QED
    BY <2>1, <2>2, <2>3
<1>3. ~Whole(m, i)
  BY <1>1, PassesOn
<1>4. ASSUME ~Unanswered(0)'  PROVE FALSE
  <2>1. Unanswered(0)
    BY DEF StillMissing
  <2>2. Fragment(m, 0) \in acked' \ acked
    BY <1>1, <1>4, <2>1 DEF Unanswered
  <2>3. Replies(m, i) /\ 0 \in Acknowledged(m, i)
    BY <2>2 DEF Arrives, Fragment
  <2>4. Kept(m, i)
    BY <2>3 DEF Replies
  <2>5. 0 \in t.stored /\ Adds(rx, t, m, i)
        /\ (m.n <= t.base + Window => m.n - 1 \in t.stored)
    BY <1>2, <2>3, <2>4, KeptMeans
  <2>6. t.received # t.expected
    BY <1>3, <2>4 DEF Whole
  <2> HIDE DEF t
  <2>7. t.source = m /\ Gathered(t)
    BY <2>5 DEF Adds
  <2>8. t.base \in Nat /\ t.stored \in SUBSET (0 .. m.n - 1)
    BY <2>7, ReceiverNumbers
  <2>9. m.n - 1 \in t.stored
    BY <1>2, <2>5, <2>8
  <2>10. t.stored = 0 .. m.n - 1
    <3>1. \A j \in 0 .. m.n - 1 : j = 0 \/ j = m.n - 1
      BY <1>2
    <3> HIDE DEF m
    <3> QED
      BY <2>5, <2>8, <2>9, <3>1
  <2>11. Complete(t)
    BY <2>7, <2>10 DEF Complete
  <2> QED
    BY <2>6, <2>7, <2>11, CompleteIsWhole
<1> QED
  BY <1>1, <1>4 DEF StillMissing

\* Of a window cut short nothing is ever answered.
LEMMA StaysCutShort ==
  ASSUME Orderly, FragInv, NEW i, Arrives(txMessage, i), LastWindow, CutShort
  PROVE  CutShort'
<1> DEFINE m == txMessage
           t == After(m, i)
           last == m.n - 1
<1>1. UNCHANGED <<sending, txMessage, txFragmentBase, stack>>
  BY SenderTold DEF Arrives
<1>2. /\ m \in Message /\ m.n \in Nat /\ m # NoMessage /\ m.n < Byte
      /\ i \in Nat /\ i < m.n /\ m.n <= txFragmentBase + Window
      /\ (rx.source = m => rx.base <= i) /\ Between(rx)
  BY MessageNumbers DEF Arrives, LastWindow, FragInv
<1>3. i # last /\ (rx.source = m => last \notin rx.stored)
  BY DEF Arrives, CutShort
<1>4. t.source = m => last \notin t.stored
  <2>1. \/ t.source = NoMessage
        \/ t = rx /\ rx.source # m
        \/ Adds(rx, t, m, i)
    BY <1>2, AfterStep
  <2> HIDE DEF t, last
  <2> QED
    BY <1>2, <1>3, <2>1 DEF Adds
<1>5. \A g \in acked' : FALSE
  <2>1. SUFFICES ASSUME NEW g \in acked'  PROVE FALSE
    OBVIOUS
  <2>2. Replies(m, i) /\ g.i \in Acknowledged(m, i) /\ g \in stack
    BY DEF Arrives, CutShort
  <2>3. Kept(m, i)
    BY <2>2 DEF Replies
  <2>4. /\ Adds(rx, t, m, i)
        /\ Replies(m, i) /\ m.n <= t.base + Window => last \in t.stored
    BY <2>3, KeptMeans
  <2>5. Acknowledged(m, i) = {t.base + b : b \in t.mask \cap (0 .. Window - 1)}
    BY DEF Acknowledged
  <2> HIDE DEF t
  <2>6. t.source = m /\ Gathered(t) /\ t.base \in Nat /\ t.base \in Bases
    BY <2>4, ReceiverNumbers DEF Adds
  <2>7. txFragmentBase \in Bases /\ txFragmentBase \in Nat /\ Window \in Nat
        /\ txFragmentBase <= g.i /\ g.i \in Nat
    BY <2>2, WindowSizes DEF FragInv, StackInv, Bases, Sent, SentUpTo, AnyFragment
  <2>8. g.i < t.base + Window
    BY <2>2, <2>5, <2>6, <2>7
  <2>9. txFragmentBase <= t.base
    BY <2>6, <2>7, <2>8, BasesApart
  <2> QED
    BY <1>2, <1>4, <2>2, <2>4, <2>6, <2>7, <2>9
<1>6. rx'.source = m => last \notin rx'.stored
  <2>1. rx' = t \/ rx' = [t EXCEPT !.source = NoMessage]
    BY DEF Arrives, IncomingMessage
  <2>2. t.source = NoMessage \/ t = rx \/ Gathered(t)
    BY <1>2, AfterStep DEF Adds
  <2> HIDE DEF t
  <2>3. CASE rx' = t
    BY <1>4, <2>3
  <2>4. CASE rx' = [t EXCEPT !.source = NoMessage] /\ rx' # t
    <3>1. Whole(m, i)
      BY <2>4 DEF Arrives, IncomingMessage, t
    <3>2. Gathered(t)
      BY <3>1, KeptMeans DEF Whole, Adds, t
    <3>3. rx'.source = NoMessage
      BY <2>4, <3>2 DEF Gathered, Receiver
    <3> QED
      BY <1>2, <3>3
  <2> QED
    BY <2>1, <2>3, <2>4
<1>7. /\ \A f \in stack : f.i # last
      /\ \A k \in 1 .. Len(channel') : channel'[k].msg = m => channel'[k].i # last
  BY DEF Arrives, CutShort
<1>8. acked' = {}
  BY <1>5
<1> QED
  BY <1>1, <1>6, <1>7, <1>8 DEF CutShort

LEMMA OwnArrives ==
  ASSUME Orderly, Telling, FragInv, AnswerInv, NEW i, Arrives(txMessage, i)
  PROVE  AnswerInv'
<1>1. /\ UNCHANGED <<sending, txMessage, txFragmentBase, stack,
                     txFragmentsInTransit>>
      /\ (LastWindow' <=> LastWindow)
  BY SenderTold DEF Arrives
<1>2. acked' \subseteq stack'
  BY <1>1 DEF Arrives, AnswerInv
<1>3. Received(txMessage) => Received(txMessage)'
  BY <1>1 DEF Arrives, IncomingMessage, Received
<1>4. ASSUME sending, txMessage.n < Byte, LastWindow, ~Received(txMessage)'
      PROVE  StillMissing'
  <2>1. StillMissing
    BY <1>3, <1>4 DEF AnswerInv
  <2> QED
    BY <1>4, <2>1, FirstWindow, LaterWindow
<1>5. ASSUME LastWindow, CutShort  PROVE CutShort'
  BY <1>5, StaysCutShort
<1> QED
  BY <1>1, <1>2, <1>4, <1>5 DEF AnswerInv

LEMMA ArrivesAnswered ==
  ASSUME Orderly, Telling, FragInv, AnswerInv, FragmentArrives
  PROVE  AnswerInv'
<1>1. PICK m, i : Arrives(m, i)
  BY SomeArrives
<1> QED
  BY <1>1, OtherArrives, OwnArrives

LEMMA AbortsAnswered ==
  ASSUME Orderly, FragInv, AnswerInv, ReceiverAborts
  PROVE  AnswerInv'
<1>1. /\ UNCHANGED sendVars /\ channel' = channel /\ acked' = acked
      /\ delivered' = delivered
      /\ rx.source # NoMessage /\ rx' = [rx EXCEPT !.source = NoMessage]
  BY DEF ReceiverAborts, AbortReception
<1>2. /\ UNCHANGED <<sending, txMessage, txFragmentBase, stack,
                     txFragmentsInTransit>>
      /\ (LastWindow' <=> LastWindow) /\ OfLast' = OfLast
  BY <1>1, SenderTold
<1>3. Gathered(rx) /\ ~Complete(rx) /\ rx'.source = NoMessage
  BY <1>1 DEF FragInv, Between, Gathered, Receiver
<1>4. \A j : Unanswered(j)' <=> Unanswered(j)
  BY <1>1, <1>2 DEF Unanswered
<1>5. Received(txMessage)' <=> Received(txMessage)
  BY <1>1, <1>2 DEF Received
<1>6. stack # {} => txMessage # NoMessage
  BY MessageNumbers DEF FragInv, SendInv, NoMessage
<1>7. ASSUME sending, LastWindow, StillMissing  PROVE StillMissing'
  <2>1. CASE txFragmentBase = 0
    BY <1>2, <1>4, <1>7, <2>1 DEF StillMissing
  <2>2. CASE /\ txFragmentBase # 0 /\ rx.source = txMessage /\ rx.base = txFragmentBase
             /\ \A j \in OfLast : j \in rx.stored \/ Unanswered(j)
    <3>1. /\ txFragmentBase \in Bases /\ txFragmentBase \in Nat
          /\ txMessage.n \in Nat /\ Window \in Nat
      BY SenderTypes, WindowSizes DEF FragInv, StackInv
    <3>2. Window <= txFragmentBase
      <4>1. SUFFICES ASSUME txFragmentBase < 0 + Window  PROVE FALSE
        BY <3>1
      <4>2. txFragmentBase <= 0
        BY <3>1, <4>1, ZeroIsBase, BasesApart
      <4> QED
        BY <2>2, <3>1, <4>2
    <3>3. PICK j \in 0 .. txMessage.n - 1 : j \notin rx.stored
      BY <1>3, <2>2 DEF Complete, Gathered
    <3>4. j \in OfLast
      <4>1. j \notin 0 .. txFragmentBase - 1
        BY <1>3, <2>2, <3>3 DEF Gathered
      <4> QED
        BY <3>1, <4>1 DEF OfLast
    <3>5. Unanswered(j)
      BY <2>2, <3>3, <3>4
    <3>6. \A k \in 1 .. Len(channel) :
            channel[k].msg = txMessage => Window <= channel[k].i
      <4>1. SUFFICES ASSUME NEW k \in 1 .. Len(channel), channel[k].msg = txMessage
                     PROVE  Window <= channel[k].i
        OBVIOUS
      <4>2. txFragmentBase <= channel[k].i /\ channel[k].i \in Nat
        BY <1>1, <2>2, <4>1
           DEF FragInv, RecvInv, LineInv, Line, SentUpTo, AnyFragment
      <4> QED
        BY <3>1, <3>2, <4>2
    <3>7. rx'.source # txMessage
      BY <1>1, <1>3, <2>2
    <3> QED
      BY <1>1, <1>2, <1>4, <2>2, <3>4, <3>5, <3>6, <3>7 DEF StillMissing
  <2>3. CASE \A j \in OfLast : Unanswered(j)
    BY <1>2, <1>4, <1>7, <2>3 DEF StillMissing
  <2>4. CASE /\ rx.source # txMessage /\ \E j \in OfLast : Unanswered(j)
             /\ \A k \in 1 .. Len(channel) :
                  channel[k].msg = txMessage => Window <= channel[k].i
    <3>1. txMessage # NoMessage
      BY <1>6, <2>4 DEF Unanswered
    <3> QED
      BY <1>1, <1>2, <1>3, <1>4, <1>7, <2>4, <3>1 DEF StillMissing
  <2> QED
    BY <1>7, <2>1, <2>2, <2>3, <2>4 DEF StillMissing
<1>8. ASSUME stack # {}, CutShort  PROVE CutShort'
  BY <1>1, <1>2, <1>3, <1>6, <1>8 DEF CutShort
<1> QED
  BY <1>1, <1>2, <1>5, <1>7, <1>8 DEF AnswerInv

LEMMA LosesAnswered ==
  ASSUME FragInv, AnswerInv, LosesFragment
  PROVE  AnswerInv'
<1>1. /\ \E k \in DOMAIN channel : channel' = RemoveAt(channel, k)
      /\ UNCHANGED sendVars /\ rx' = rx /\ delivered' = delivered /\ acked' = acked
  BY DEF LosesFragment, recvVars
<1>2. Line(channel, txMessage, txFragmentBase)
  BY DEF FragInv, LineInv
<1>3. PICK k \in 1 .. Len(channel) : channel' = RemoveAt(channel, k)
  BY <1>1, <1>2, LenProperties DEF Line
<1>4. \A j \in 1 .. Len(channel') :
        \E l \in 1 .. Len(channel) : channel'[j] = channel[l]
  BY <1>2, <1>3, LineWithout
<1>5. /\ UNCHANGED <<sending, txMessage, txFragmentBase, stack,
                     txFragmentsInTransit>>
      /\ (LastWindow' <=> LastWindow) /\ OfLast' = OfLast
  BY <1>1, SenderTold
<1>6. \A j : Unanswered(j)' <=> Unanswered(j)
  BY <1>1, <1>5 DEF Unanswered
<1>7. Received(txMessage)' <=> Received(txMessage)
  BY <1>1, <1>5 DEF Received
<1>8. StillMissing => StillMissing'
  BY <1>1, <1>4, <1>5, <1>6 DEF StillMissing
<1>9. CutShort => CutShort'
  BY <1>1, <1>4, <1>5 DEF CutShort
<1> QED
  BY <1>1, <1>5, <1>7, <1>8, <1>9 DEF AnswerInv

\* A fragment that no reply has acknowledged is sent again.
LEMMA ResendAnswered ==
  ASSUME FragInv, AnswerInv, Resend
  PROVE  AnswerInv'
<1>1. PICK f \in stack \ acked : channel' = Append(channel, f)
  BY DEF Resend
<1>2. /\ UNCHANGED sendVars /\ rx' = rx /\ delivered' = delivered /\ acked' = acked
  BY DEF Resend, recvVars
<1>3. /\ UNCHANGED <<sending, txMessage, txFragmentBase, stack,
                     txFragmentsInTransit>>
      /\ (LastWindow' <=> LastWindow) /\ OfLast' = OfLast
  BY <1>2, SenderTold
<1>4. f \in AnyFragment /\ txFragmentBase <= f.i /\ f.i \in Nat
  BY DEF FragInv, StackInv, Sent, SentUpTo, AnyFragment
<1>5. \A j \in 1 .. Len(channel') :
        \/ channel'[j] = f
        \/ j \in 1 .. Len(channel) /\ channel'[j] = channel[j]
  <2>1. channel \in Seq(AnyFragment)
    BY DEF FragInv, LineInv, Line
  <2> QED
    BY ONLY <1>1, <1>4, <2>1, AppendProperties, LenProperties
<1>6. \A j : Unanswered(j)' <=> Unanswered(j)
  BY <1>2, <1>3 DEF Unanswered
<1>7. Received(txMessage)' <=> Received(txMessage)
  BY <1>2, <1>3 DEF Received
<1>8. txFragmentBase # 0 => Window <= txFragmentBase
  <2>1. /\ txFragmentBase \in Bases /\ txFragmentBase \in Nat /\ Window \in Nat
    BY WindowSizes DEF FragInv, StackInv, Bases
  <2>2. txFragmentBase < 0 + Window => txFragmentBase <= 0
    BY <2>1, ZeroIsBase, BasesApart
  <2> QED
    BY <2>1, <2>2
<1>9. StillMissing => StillMissing'
  <2>1. txFragmentBase # 0 => Window <= f.i
    BY <1>4, <1>8, WindowSizes DEF FragInv, StackInv, Bases
  <2>2. CASE txFragmentBase = 0
    BY <1>3, <1>6, <2>2 DEF StillMissing
  <2>3. CASE txFragmentBase # 0
    <3>1. (\A k \in 1 .. Len(channel) :
             channel[k].msg = txMessage => Window <= channel[k].i)
          => (\A k \in 1 .. Len(channel') :
               channel'[k].msg = txMessage => Window <= channel'[k].i)
      BY <1>5, <2>1, <2>3
    <3> QED
      BY <1>2, <1>3, <1>6, <2>3, <3>1 DEF StillMissing
  <2> QED
    BY <2>2, <2>3
<1>10. CutShort => CutShort'
  <2>1. CutShort => f.i # txMessage.n - 1
    BY DEF CutShort
  <2> QED
    BY <1>2, <1>3, <1>5, <2>1 DEF CutShort
<1> QED
  BY <1>2, <1>3, <1>7, <1>9, <1>10 DEF AnswerInv

-----------------------------------------------------------------------------
(* The reports.                                                            *)

LEMMA NothingSent ==
  ASSUME FragInv, Transmitted, stack' \subseteq stack
  PROVE  channel' = channel
<1> DEFINE u == [k \in 1 .. Cardinality(stack' \ stack) |->
                   Fragment(txMessage', txFragmentBase' + k - 1)]
<1>1. u = << >>
  <2>1. Cardinality(stack' \ stack) = 0
    BY NothingLeft
  <2>2. u = [k \in 1 .. 0 |-> Fragment(txMessage', txFragmentBase' + k - 1)]
    BY <2>1
  <2>3. u \in [1 .. 0 -> AnyFragment]
    <3>1. 1 .. 0 = {}
      OBVIOUS
    <3>2. u = [k \in {} |-> u[k]]
      BY <2>2, <3>1
    <3> HIDE DEF u
    <3> QED
      BY ONLY <3>1, <3>2
  <2> HIDE DEF u
  <2>4. u \in Seq(AnyFragment) /\ Len(u) = 0
    BY ONLY <2>3, LenProperties
  <2> QED
    BY ONLY <2>4, EmptySeq
<1>2. channel' = channel \o u
  BY DEF Transmitted
<1> HIDE DEF u
<1>3. channel \in Seq(AnyFragment)
  BY DEF FragInv, LineInv, Line
<1> QED
  BY <1>1, <1>2, <1>3, ConcatNothing

\* A part of a window, counted from its base, does not reach beyond it.
LEMMA TakenBelow ==
  ASSUME NEW m, NEW count \in Nat, NEW base \in Nat,
         NEW T \in SUBSET WindowAt(m, m.n, base), \A f \in T : f.i < count
  PROVE  IsFiniteSet(T) /\ \A k \in 1 .. Cardinality(T) : base + k - 1 < count
<1> DEFINE number == [f \in T |-> f.i]
<1>1. \A f \in T : f = Fragment(m, f.i) /\ f.i \in base .. count - 1
  BY WindowSizes DEF WindowAt, Fragment
<1>2. number \in Injection(T, base .. count - 1)
  <2>1. number \in [T -> base .. count - 1]
    BY <1>1
  <2>2. ASSUME NEW f \in T, NEW g \in T, number[f] = number[g]  PROVE f = g
    BY <1>1, <2>2
  <2> QED
    BY <2>1, <2>2 DEF Injection, IsInjective
<1>3. /\ IsFiniteSet(base .. count - 1)
      /\ Cardinality(base .. count - 1) =
           IF base > count - 1 THEN 0 ELSE (count - 1) - base + 1
  <2>1. base \in Int /\ count - 1 \in Int
    OBVIOUS
  <2> QED
    BY <2>1, FS_Interval
<1>4. /\ IsFiniteSet(T) /\ Cardinality(T) <= Cardinality(base .. count - 1)
      /\ Cardinality(T) \in Nat
  BY <1>2, <1>3, FS_Injection, FS_CardinalityType
<1> QED
  BY <1>3, <1>4

\* The stack takes a part of the last window, to which nothing else belongs.
LEMMA PartTaken ==
  ASSUME FragInv, NEW taken \in SUBSET NextWindow, taken # NextWindow,
         \A f \in taken, g \in NextWindow \ taken : f.i < g.i,
         txMessage' \in Message, txFragmentCount' = txMessage'.n,
         txFragmentBase' \in Nat, LastWindow', stack' = taken,
         Transmitted, acked' = {}, rx' = rx,
         \A k \in 1 .. Len(channel) :
           channel[k].msg = txMessage' => channel[k].i < txFragmentBase',
         rx.source = txMessage' => \A i \in rx.stored : i < txFragmentBase'
  PROVE  CutShort'
<1> DEFINE m == txMessage'
           base == txFragmentBase'
           last == txMessage'.n - 1
           T == stack' \ stack
           u == [k \in 1 .. Cardinality(T) |-> Fragment(m, base + k - 1)]
<1>1. m.n \in Nat /\ base \in Nat /\ Window \in Nat /\ last \in Int
      /\ NextWindow = WindowAt(m, m.n, base)
  BY MessageNumbers, WindowSizes DEF NextWindow
<1>2. ASSUME NEW g \in NextWindow
      PROVE  g.i \in Nat /\ base <= g.i /\ g.i <= last
  <2>1. PICK j \in {l \in base .. base + Window - 1 : l < m.n} : g = Fragment(m, j)
    BY <1>1 DEF WindowAt
  <2>2. g.i = j /\ j \in Nat /\ base <= j /\ j <= last
    BY <1>1, <2>1 DEF Fragment
  <2> QED
    BY <2>2
<1>3. PICK g \in NextWindow \ taken : TRUE
  OBVIOUS
<1>4. last \in Nat /\ base <= last
  BY <1>1, <1>2, <1>3
<1>5. \A f \in taken : f.i < last
  BY <1>1, <1>2, <1>3
<1>6. IsFiniteSet(T) /\ \A k \in 1 .. Cardinality(T) : base + k - 1 < last
  <2>1. T \in SUBSET WindowAt(m, m.n, base) /\ \A f \in T : f.i < last
    BY <1>1, <1>5
  <2> HIDE DEF T, base, last, m
  <2> QED
    BY <1>1, <1>4, <2>1, TakenBelow
<1>7. channel \in Seq(AnyFragment)
  BY DEF FragInv, LineInv, Line
<1>8. Cardinality(T) \in Nat
  BY <1>6, FS_CardinalityType
<1>9. ASSUME NEW k \in 1 .. Cardinality(T)
      PROVE  u[k] \in AnyFragment /\ u[k].i # last
  <2>1. u[k] = Fragment(m, base + k - 1)
    OBVIOUS
  <2>2. base + k - 1 \in Nat /\ base + k - 1 < last
    <3>1. k \in 1 .. Cardinality(T) /\ base \in Nat
      BY <1>1
    <3> HIDE DEF base, last, T, u
    <3>2. k \in Nat /\ k >= 1
      BY ONLY <1>8, <3>1
    <3>3. base + k - 1 < last
      BY <1>6, <3>1
    <3> QED
      BY ONLY <3>1, <3>2, <3>3
  <2> HIDE DEF u, base, last
  <2> QED
    BY <1>4, <2>1, <2>2 DEF Fragment, AnyFragment
<1>10. u \in Seq(AnyFragment) /\ Len(u) = Cardinality(T)
  <2> DEFINE n == Cardinality(T)
  <2>1. u = [k \in 1 .. n |-> u[k]] /\ n \in Nat
    BY <1>8
  <2>2. \A k \in 1 .. n : u[k] \in AnyFragment
    BY <1>9
  <2> HIDE DEF u, n
  <2>3. u \in [1 .. n -> AnyFragment]
    BY ONLY <2>1, <2>2
  <2>4. u \in Seq(AnyFragment) /\ Len(u) = n
    BY ONLY <2>1, <2>3, LenProperties
  <2> QED
    BY <2>4 DEF n
<1>11. channel' = channel \o u
  BY DEF Transmitted
<1> HIDE DEF u, T
<1>12. \A k \in 1 .. Len(channel') :
         \/ k \in 1 .. Len(channel) /\ channel'[k] = channel[k]
         \/ k - Len(channel) \in 1 .. Cardinality(T) /\ channel'[k] = u[k - Len(channel)]
  <2>2. /\ Len(channel \o u) = Len(channel) + Len(u)
        /\ Len(channel) \in Nat /\ Len(u) \in Nat
        /\ \A k \in 1 .. Len(channel) + Len(u) :
             (channel \o u)[k] = IF k <= Len(channel) THEN channel[k]
                                 ELSE u[k - Len(channel)]
    BY ONLY <1>7, <1>10, ConcatProperties, LenProperties
  <2> QED
    BY ONLY <1>10, <1>11, <2>2
<1>13. ASSUME NEW k \in 1 .. Len(channel'), channel'[k].msg = m
       PROVE  channel'[k].i # last
  BY <1>1, <1>4, <1>9, <1>12, <1>13
<1>14. rx'.source = m => last \notin rx'.stored
  BY <1>1, <1>4
<1> QED
  BY <1>1, <1>2, <1>5, <1>13, <1>14 DEF CutShort

LEMMA OneReported ==
  ASSUME SendInv, StackInv, NEW f \in stack
  PROVE  /\ Cardinality(stack \ {f}) = Cardinality(stack) - 1
         /\ InTransitLess1 = txFragmentsInTransit - 1
         /\ Cardinality(stack) \in Nat /\ txFragmentsInTransit \in Int
<1>1. Cardinality(stack) \in Nat /\ txFragmentsInTransit \in Int
  BY SenderTypes, WindowSizes
<1> QED
  BY <1>1, LessInStack

\* A fragment given up: fewer are in the stack than are counted.
LEMMA FailedAnswered ==
  ASSUME FragInv, AnswerInv, ReportsFailed
  PROVE  AnswerInv'
<1>1. PICK f \in stack \ acked : FragmentFailed(f)
  BY DEF ReportsFailed
<1>2. /\ stack' = stack \ {f} /\ sending' = FALSE /\ acked' = acked
      /\ txFragmentsInTransit' = txFragmentsInTransit
  BY <1>1 DEF FragmentFailed, ReportsFailed
<1>3. Cardinality(stack') < txFragmentsInTransit'
  <2>1. /\ Cardinality(stack \ {f}) = Cardinality(stack) - 1
        /\ Cardinality(stack) \in Nat /\ txFragmentsInTransit \in Int
    BY OneReported DEF FragInv
  <2> QED
    BY <1>2, <2>1 DEF FragInv, StackInv
<1> QED
  BY <1>1, <1>2, <1>3 DEF AnswerInv

\* A fragment reported as sent was acknowledged: those that were not stay.
LEMMA SentAnswered ==
  ASSUME FragInv, AnswerInv, Transmitted, UNCHANGED recvVars,
         NEW f \in stack \cap acked, FragmentSent(f), acked' = acked \ {f}
  PROVE  AnswerInv' /\ reports' = reports
<1>1. /\ stack' = stack \ {f} /\ txFragmentsInTransit' = InTransitLess1
      /\ UNCHANGED <<sending, txMessage, txFragmentBase, reports>>
  BY DEF FragmentSent
<1>2. channel' = channel /\ rx' = rx /\ delivered' = delivered
  BY <1>1, NothingSent DEF recvVars
<1>3. (LastWindow' <=> LastWindow) /\ OfLast' = OfLast
  BY <1>1 DEF LastWindow, OfLast
<1>4. \A j : Unanswered(j)' <=> Unanswered(j)
  BY <1>1 DEF Unanswered
<1>5. Received(txMessage)' <=> Received(txMessage)
  BY <1>1, <1>2 DEF Received
<1>6. StillMissing => StillMissing'
  BY <1>1, <1>2, <1>3, <1>4 DEF StillMissing
<1>7. ~CutShort
  BY DEF CutShort
<1>8. Cardinality(stack) < txFragmentsInTransit
      => Cardinality(stack') < txFragmentsInTransit'
  <2>1. /\ Cardinality(stack \ {f}) = Cardinality(stack) - 1
        /\ InTransitLess1 = txFragmentsInTransit - 1
        /\ Cardinality(stack) \in Nat /\ txFragmentsInTransit \in Int
    BY OneReported DEF FragInv
  <2> QED
    BY <1>1, <2>1
<1> QED
  BY <1>1, <1>3, <1>5, <1>6, <1>7, <1>8 DEF AnswerInv

\* The last fragment of a message is reported as sent: the message was received.
LEMMA LastReported ==
  ASSUME FragInv, AnswerInv, LastWindow, NEW f \in acked, stack = {f},
         txFragmentsInTransit = 1
  PROVE  Received(txMessage)
<1>1. SUFFICES ASSUME ~Received(txMessage)  PROVE FALSE
  OBVIOUS
<1>2. /\ txMessage.n < Byte /\ txMessage.n \in Nat /\ sending \in BOOLEAN
      /\ txFragmentBase \in Nat /\ txFragmentBase < txMessage.n
  BY SenderTypes
     DEF FragInv, SendInv, SendTypeOK, StackInv, Sent, SentUpTo, AnyFragment
<1>3. \A j : ~Unanswered(j)
  BY DEF Unanswered
<1>4. CASE sending
  <2>1. StillMissing
    BY <1>1, <1>2, <1>4 DEF AnswerInv
  <2>2. txFragmentBase \in OfLast
    BY <1>2 DEF OfLast
  <2>3. /\ rx.source = txMessage /\ rx.base = txFragmentBase
        /\ OfLast \subseteq rx.stored
    BY <1>3, <2>1, <2>2 DEF StillMissing
  <2>4. Gathered(rx) /\ ~Complete(rx)
    BY <1>2, <2>3, SenderTypes, MessageNumbers DEF FragInv, Between, NoMessage
  <2>5. 0 .. txMessage.n - 1 \subseteq (0 .. txFragmentBase - 1) \cup OfLast
    BY <1>2 DEF OfLast
  <2> QED
    BY <2>3, <2>4, <2>5 DEF Gathered, Complete
<1>5. CASE ~sending
  <2>1. Cardinality(stack) = 1
    BY FS_Singleton
  <2>2. ~CutShort
    BY DEF CutShort
  <2> QED
    BY <1>5, <2>1, <2>2 DEF AnswerInv
<1> QED
  BY <1>2, <1>4, <1>5

\* A window sent to its end
LEMMA WindowAnswered ==
  ASSUME Orderly, FragInv, AnswerInv, Transmitted, UNCHANGED recvVars,
         NEW f \in stack \cap acked, WindowSent(f), acked' = acked \ {f}
  PROVE  /\ AnswerInv'
         /\ \/ reports' = reports \/ Report("FAILED")
            \/ Report("SUCCESS") /\ Received(txMessage)'
<1>1. PICK taken \in SUBSET NextWindow :
       /\ SendNextFragments(sending, stack \ {f}, 0, taken)
       /\ IF taken = NextWindow /\ taken # {} THEN UNCHANGED <<sending, reports>>
          ELSE /\ sending' = FALSE
               /\ IF taken = NextWindow THEN Report("SUCCESS")
                  ELSE IF sending THEN Report("FAILED")
                  ELSE UNCHANGED reports
  BY DEF WindowSent
<1>2. /\ UNCHANGED <<txMessage, txFragmentCount>> /\ rx' = rx
      /\ delivered' = delivered /\ stack = {f} /\ InTransitLess1 = 0
      /\ txFragmentBase' = txFragmentBase + Window
  BY WindowSender DEF WindowSent, FragInv, recvVars
<1>3. acked' = {} /\ stack' = taken /\ (~sending => taken = {})
      /\ (\A g \in taken, h \in NextWindow \ taken : g.i < h.i)
  BY <1>1, <1>2 DEF AnswerInv, SendNextFragments
<1>4. /\ txMessage \in Message /\ txMessage.n \in Nat /\ txMessage.n < Byte
      /\ txFragmentCount = txMessage.n /\ txMessage # NoMessage
      /\ txFragmentBase \in Nat /\ Window \in Nat /\ Window >= 1
      /\ txFragmentsInTransit = 1
  <2>1. /\ txMessage \in Message /\ txMessage.n \in Nat /\ txMessage.n < Byte
        /\ txFragmentBase \in Nat /\ txFragmentsInTransit \in Int
        /\ InTransitLess1 = txFragmentsInTransit - 1
    BY SenderTypes, OneReported DEF FragInv
  <2>2. txFragmentCount = txMessage.n
    BY DEF FragInv, StackInv
  <2> QED
    BY <1>2, <2>1, <2>2, WindowSizes, MessageNumbers DEF NoMessage
<1>5. CASE taken = NextWindow /\ taken # {}
  <2>1. sending /\ sending' = sending /\ reports' = reports
    BY <1>1, <1>3, <1>5
  <2>2. ASSUME LastWindow', NEW j \in OfLast'  PROVE Unanswered(j)'
    <3>1. j \in txFragmentBase' .. txFragmentBase' + Window - 1 /\ j < txMessage'.n
      BY <1>2, <1>4, <2>2 DEF LastWindow, OfLast
    <3>2. Fragment(txMessage', j) \in NextWindow
      BY <1>2, <1>4, <3>1 DEF NextWindow, WindowAt
    <3> QED
      BY <1>3, <1>5, <3>2 DEF Unanswered
  <2>3. LastWindow' => StillMissing'
    BY <1>2, <1>4, <2>2 DEF StillMissing
  <2> QED
    BY <1>3, <2>1, <2>3 DEF AnswerInv
<1>6. CASE taken = NextWindow /\ taken = {}
  <2>1. sending' = FALSE /\ Report("SUCCESS")
    BY <1>1, <1>6
  <2>2. AnswerInv'
    BY <1>3, <1>6, <2>1 DEF AnswerInv
  <2>3. LastWindow
    <3>1. SUFFICES ASSUME ~LastWindow  PROVE FALSE
      OBVIOUS
    <3>2. txFragmentBase' \in txFragmentBase' .. txFragmentBase' + Window - 1
          /\ txFragmentBase' < txMessage'.n
      BY <1>2, <1>4, <3>1 DEF LastWindow
    <3>3. Fragment(txMessage', txFragmentBase') \in NextWindow
      BY <1>2, <1>4, <3>2 DEF NextWindow, WindowAt
    <3> QED
      BY <1>6, <3>3
  <2>4. Received(txMessage)
    BY <1>2, <1>4, <2>3, LastReported
  <2> QED
    BY <1>2, <2>1, <2>2, <2>4 DEF Received
<1>7. CASE taken # NextWindow
  <2>1. sending' = FALSE /\ (reports' = reports \/ Report("FAILED"))
    BY <1>1, <1>7
  <2>2. ASSUME NEW k \in 1 .. Len(channel), channel[k].msg = txMessage'
        PROVE  channel[k].i < txFragmentBase'
    BY <1>2, <2>2 DEF FragInv, LineInv, Line, SentUpTo
  <2>3. ASSUME rx.source = txMessage', NEW i \in rx.stored
        PROVE  i < txFragmentBase'
    <3>1. Gathered(rx) /\ rx.base <= txFragmentBase
      BY <1>2, <1>4, <2>3 DEF FragInv, Between, RecvInv
    <3>2. rx.base \in Nat /\ rx.stored \in SUBSET (0 .. rx.source.n - 1)
      BY <3>1, ReceiverNumbers
    <3>3. i \in Nat /\ i < rx.base + Window
      BY <2>3, <3>1, <3>2 DEF Gathered
    <3>4. /\ txFragmentBase \in Nat /\ Window \in Nat
          /\ txFragmentBase' = txFragmentBase + Window
      BY <1>2, <1>4
    <3> QED
      BY ONLY <3>1, <3>2, <3>3, <3>4
  <2>4. txMessage' \in Message /\ txFragmentCount' = txMessage'.n
        /\ txFragmentBase' \in Nat
    BY <1>2, <1>4
  <2>5. LastWindow' => CutShort'
    BY <1>2, <1>3, <1>7, <2>2, <2>3, <2>4, PartTaken
  <2> QED
    BY <1>3, <2>1, <2>5 DEF AnswerInv
<1> QED
  BY <1>5, <1>6, <1>7

\* A new message is answered nowhere yet.
LEMMA UnicastAnswered ==
  ASSUME Orderly, FragInv, AnswerInv, Transmitted, rx' = rx, acked' = acked,
         NEW n \in Lengths, SendUnicast(n)
  PROVE  AnswerInv'
<1>1. PICK taken \in SUBSET NextWindow :
        /\ SendNextFragments(TRUE, stack, 0, taken)
        /\ sending' = (taken = NextWindow)
  BY DEF SendUnicast
<1>2. /\ txMessage' = NewMessage(n) /\ stack = {}
      /\ txFragmentCount' = n /\ txFragmentBase' = 0
  BY DEF SendUnicast, Calls, Orderly
<1>3. /\ txMessage' \in Message /\ txMessage'.n = n /\ txMessage' # NoMessage
      /\ txMessage'.id = Len(returned) + 1
  <2>1. NewMessage(n) \in Message /\ NewMessage(n).n = n
    BY NewMessageType DEF FragInv, SendInv, SendUnicast
  <2> QED
    BY <1>2, <2>1, MessageNumbers DEF NewMessage, NoMessage
<1>4. acked' = {} /\ stack' = taken
      /\ (\A g \in taken, h \in NextWindow \ taken : g.i < h.i)
  BY <1>1, <1>2 DEF AnswerInv, SendNextFragments
<1>5. n \in Nat /\ n >= 1 /\ Window \in Nat /\ Window >= 1
  BY FragmentsAssumption DEF FragmentsAssumption
<1>6. CASE taken = NextWindow
  <2>1. 0 \in txFragmentBase' .. txFragmentBase' + Window - 1 /\ 0 < txFragmentCount'
    BY <1>2, <1>5
  <2>2. Fragment(txMessage', 0) \in NextWindow
    BY <2>1 DEF NextWindow, WindowAt
  <2>3. StillMissing'
    BY <1>2, <1>4, <1>6, <2>2 DEF StillMissing, Unanswered
  <2> QED
    BY <1>1, <1>4, <1>6, <2>3 DEF AnswerInv
<1>7. CASE taken # NextWindow
  <2>1. /\ txMessage.id \in Nat /\ Len(returned) \in Nat
        /\ txMessage.id <= Len(returned)
    BY SenderTypes DEF FragInv, StackInv
  <2>2. ASSUME NEW k \in 1 .. Len(channel), channel[k].msg = txMessage'
        PROVE  FALSE
    BY <1>3, <2>1, <2>2 DEF FragInv, LineInv, Line, SentUpTo
  <2>3. rx.source # txMessage'
    BY <1>3, <2>1 DEF FragInv, RecvInv
  <2>4. txFragmentCount' = txMessage'.n /\ txFragmentBase' \in Nat
    BY <1>2, <1>3
  <2>5. LastWindow' => CutShort'
    BY <1>3, <1>4, <1>7, <2>2, <2>3, <2>4, PartTaken
  <2> QED
    BY <1>1, <1>4, <1>7, <2>5 DEF AnswerInv
<1> QED
  BY <1>6, <1>7

LEMMA CallsAnswered ==
  ASSUME Orderly, FragInv, AnswerInv, SenderCalls
  PROVE  AnswerInv' /\ reports' = reports
<1>1. /\ Call /\ Transmitted /\ UNCHANGED recvVars /\ acked' = acked
      /\ rx' = rx /\ delivered' = delivered
  BY DEF SenderCalls, recvVars
<1>2. CASE SendRefused
  <2>1. /\ UNCHANGED <<sending, txMessage, txFragmentBase, stack,
                       txFragmentsInTransit, reports>>
    BY <1>2 DEF SendRefused
  <2>2. channel' = channel
    BY <1>1, <2>1, NothingSent
  <2> QED
    BY <1>1, <2>1, <2>2
       DEF AnswerInv, LastWindow, OfLast, Received, StillMissing, Unanswered,
           CutShort
<1>3. ASSUME NEW n \in Lengths, SendTooLong(n)
      PROVE  AnswerInv' /\ reports' = reports
  <2>1. /\ stack = {} /\ stack' = stack /\ sending' = TRUE /\ txMessage'.n = n
        /\ n > Byte - 1 /\ reports' = reports
    BY <1>3 DEF SendTooLong, Calls, Orderly, NewMessage
  <2>2. ~(n < Byte)
    BY <2>1, FragmentsAssumption DEF FragmentsAssumption
  <2> QED
    BY <1>1, <2>1, <2>2 DEF AnswerInv
<1>4. ASSUME NEW n \in Lengths, SendUnicast(n)
      PROVE  AnswerInv' /\ reports' = reports
  BY <1>1, <1>4, UnicastAnswered DEF SendUnicast
<1> QED
  BY <1>1, <1>2, <1>3, <1>4 DEF Call

-----------------------------------------------------------------------------

\* What a report adds
LEMMA OneMoreReport ==
  ASSUME SendTypeOK, NEW s \in {"SUCCESS", "FAILED"}, Report(s),
         NEW id \in 1 .. MaxSends, "SUCCESS" \in Range(reports'[id])
  PROVE  \/ "SUCCESS" \in Range(reports[id])
         \/ s = "SUCCESS" /\ id = txMessage'.id
<1>1. /\ reports[id] \in Seq({"SUCCESS", "FAILED"})
      /\ reports'[id] = IF id = txMessage'.id THEN Append(reports[id], s)
                                             ELSE reports[id]
  BY DEF SendTypeOK, Report
<1>2. CASE id # txMessage'.id
  BY <1>1, <1>2
<1>3. CASE id = txMessage'.id
  <2> DEFINE r == reports[id]
  <2>1. r \in Seq({"SUCCESS", "FAILED"}) /\ reports'[id] = Append(r, s)
    BY <1>1, <1>3
  <2> HIDE DEF r
  <2>2. /\ Len(Append(r, s)) = Len(r) + 1 /\ Len(r) \in Nat
        /\ \A k \in 1 .. Len(r) : Append(r, s)[k] = r[k]
        /\ Append(r, s)[Len(r) + 1] = s
        /\ DOMAIN Append(r, s) = 1 .. Len(r) + 1 /\ DOMAIN r = 1 .. Len(r)
    BY ONLY <2>1, AppendProperties, LenProperties
  <2>3. PICK k \in 1 .. Len(r) + 1 : Append(r, s)[k] = "SUCCESS"
    BY <2>1, <2>2 DEF Range
  <2>4. CASE k \in 1 .. Len(r)
    BY <2>2, <2>3, <2>4 DEF Range, r
  <2>5. CASE k = Len(r) + 1
    BY <1>3, <2>2, <2>3, <2>5
  <2> QED
    BY <2>2, <2>4, <2>5
<1> QED
  BY <1>2, <1>3

\* Success is reported of what was received, and what was passed on stays so.
LEMMA SuccessStep ==
  ASSUME FragInv, SuccessIsDelivered, delivered \subseteq delivered',
         \/ reports' = reports \/ Report("FAILED")
         \/ Report("SUCCESS") /\ Received(txMessage)'
  PROVE  SuccessIsDelivered'
<1>1. SUFFICES ASSUME NEW id \in 1 .. MaxSends, "SUCCESS" \in Range(reports'[id])
               PROVE  \E d \in delivered' : d.msg.id = id
                                            /\ d.content = InOrder(d.msg.n)
  BY DEF SuccessIsDelivered
<1>2. CASE "SUCCESS" \in Range(reports[id])
  BY <1>2 DEF SuccessIsDelivered
<1>3. CASE "SUCCESS" \notin Range(reports[id])
  <2>1. Received(txMessage)' /\ id = txMessage'.id
    BY <1>1, <1>3, OneMoreReport DEF FragInv, SendInv
  <2> QED
    BY <2>1 DEF Received
<1> QED
  BY <1>2, <1>3

LEMMA AnswerInvStep ==
  ASSUME Orderly, Telling, FragInv, AnswerInv, SuccessIsDelivered,
         [FragNext]_fragVars
  PROVE  AnswerInv' /\ SuccessIsDelivered'
<1>1. CASE SenderCalls
  BY <1>1, CallsAnswered, SuccessStep DEF SenderCalls, recvVars
<1>2. CASE ReportsSent
  <2>1. PICK f \in stack \cap acked :
          (FragmentSent(f) \/ WindowSent(f)) /\ acked' = acked \ {f}
    BY <1>2 DEF ReportsSent
  <2>2. Transmitted /\ UNCHANGED recvVars /\ delivered' = delivered
    BY <1>2 DEF ReportsSent, recvVars
  <2>3. AnswerInv' /\ \/ reports' = reports \/ Report("FAILED")
                      \/ Report("SUCCESS") /\ Received(txMessage)'
    BY <2>1, <2>2, SentAnswered, WindowAnswered
  <2> QED
    BY <2>2, <2>3, SuccessStep
<1>3. CASE ReportsFailed
  <2>1. /\ delivered' = delivered
        /\ reports' = reports \/ Report("FAILED")
    BY <1>3 DEF ReportsFailed, FragmentFailed, recvVars
  <2> QED
    BY <1>3, <2>1, FailedAnswered, SuccessStep
<1>4. CASE Resend \/ LosesFragment \/ ReceiverAborts
  <2>1. delivered' = delivered /\ reports' = reports
    BY <1>4 DEF Resend, LosesFragment, ReceiverAborts, AbortReception,
                sendVars, recvVars
  <2> QED
    BY <1>4, <2>1, ResendAnswered, LosesAnswered, AbortsAnswered, SuccessStep
<1>5. CASE FragmentArrives
  <2>1. delivered \subseteq delivered' /\ reports' = reports
    BY <1>5 DEF FragmentArrives, IncomingMessage, sendVars
  <2> QED
    BY <1>5, <2>1, ArrivesAnswered, SuccessStep
<1>6. CASE UNCHANGED fragVars
  BY <1>6 DEF fragVars, sendVars, recvVars, AnswerInv, LastWindow, OfLast,
              Received, StillMissing, Unanswered, CutShort, SuccessIsDelivered
<1> QED
  BY <1>1, <1>2, <1>3, <1>4, <1>5, <1>6 DEF FragNext

LEMMA AnswerInvInit == FragInit => AnswerInv /\ SuccessIsDelivered
<1> SUFFICES ASSUME FragInit  PROVE AnswerInv /\ SuccessIsDelivered
  OBVIOUS
<1>1. AnswerInv
  BY DEF FragInit, SendInit, AnswerInv
<1>2. \A id \in 1 .. MaxSends : Range(reports[id]) = {}
  BY DEF FragInit, SendInit, Range
<1> QED
  BY <1>1, <1>2 DEF SuccessIsDelivered

\* The window that ends a message stays unanswered, in the way StillMissing and
\* CutShort say, until the message was received.
THEOREM AnswerInvariant ==
  ASSUME Orderly, Telling
  PROVE  FragSpec => [](FragInv /\ AnswerInv /\ SuccessIsDelivered)
<1>1. (FragInv /\ AnswerInv /\ SuccessIsDelivered) /\ [FragNext]_fragVars
      => (FragInv /\ AnswerInv /\ SuccessIsDelivered)'
  BY FragInvStep, AnswerInvStep
<1> QED
  BY <1>1, FragInvInit, AnswerInvInit, PTL DEF FragSpec

\* The application is told EMBER_SUCCESS only of a message that was received,
\* whole.
THEOREM SuccessWasReceived ==
  ASSUME Orderly, Telling  PROVE FragSpec => []SuccessIsDelivered
  BY AnswerInvariant, PTL

-----------------------------------------------------------------------------
(* OTA: what the client keeps, in its variables and in storage.            *)

\* A device with pages meets one version only, as it is not disturbed.
VersionsFor(build) == IF UsesPages(build) THEN {1} ELSE Versions
FilesFor(build) == VersionsFor(build) \cup {None}

OtaPage == [status : {"NONE", "WAITING", "RETRY"}, base : Nat,
            received : SUBSET Nat]
StorageFor(build) == [stored : [Offsets -> FilesFor(build)], savedOffset : Nat,
                  hasFullImage : BOOLEAN]
CommandsFor(build) ==
  [is : {"query", "end"}, file : FilesFor(build)] \cup [is : {"end failed"}]
    \cup [is : {"block"}, file : FilesFor(build), offset : Nat]
    \cup [is : {"page"}, file : FilesFor(build), offset : Offsets]
AnswersFor(build) ==
  [is : {"offer"}, file : FilesFor(build)]
    \cup [is : {"data"}, file : VersionsFor(build), offset : Offsets]
    \cup [is : {"default"}, to : {"block", "page", "end"},
          status : {"NO_IMAGE_AVAILABLE", "UNSUP", "FAILURE", "NOT_FOUND", "ABORT"}]
    \cup [is : {"wait", "notify"}]
    \cup [is : {"end"}, file : FilesFor(build), upgrade : {"NOW", "LATER"}]

\* The types of a device but for what it sends
OtaDevice(build) ==
  [build : {build}, state : States, waitingForResponse : BOOLEAN,
   tick : BOOLEAN, errors : Nat, offset : Nat, file : FilesFor(build),
   usePageRequest : BOOLEAN, page : OtaPage, storage : StorageFor(build),
   running : FilesFor(build), out : Seq(CommandsFor(build))]
DeviceTypes(d) == d.build \in AllBuilds /\ d \in OtaDevice(d.build)

Stored(d, b) == d.storage.stored[b]
FullTo(d, n) == \A b \in Offsets : b < n => Stored(d, b) # None

\* The page under way, of this download or of one before: what is in front of
\* it and what of it was received is in storage.
PageKept(d) ==
  d.page.status # "NONE" =>
    /\ d.usePageRequest /\ ~d.storage.hasFullImage
    /\ d.page.base \in Offsets /\ FullTo(d, d.page.base)
    /\ \A k \in d.page.received :
         d.page.base + k \in Offsets => Stored(d, d.page.base + k) # None
    /\ ~AllBlocksReceived(d.page)
    /\ d.offset <= d.page.base + NumBlocksReceived(d.page)

\* What holds whatever the client is at: by pages, what is in front of the
\* offset is stored; by blocks, what is in front of the saved offset is of one
\* version, so that a reboot may go on from there.
AtRest(d) ==
  /\ DeviceTypes(d)
  /\ UsesPages(d.build) => FullTo(d, d.offset) /\ PageKept(d)
  /\ ~UsesPages(d.build) =>
       /\ ~d.usePageRequest /\ d.page.status = "NONE"
       /\ \A b \in Offsets :
            b < d.storage.savedOffset => Stored(d, b) = Stored(d, 0)

\* ... in a download, ...
Loading(d) ==
  /\ UsesPages(d.build) =>
       ~d.storage.hasFullImage /\ (d.usePageRequest => d.offset < Blocks)
  /\ ~UsesPages(d.build) =>
       /\ d.storage.savedOffset <= d.offset
       /\ \A b \in Offsets : b < d.offset => Stored(d, b) = d.file

\* ... after it, ...
Loaded(d) ==
  /\ d.storage.savedOffset >= Blocks /\ d.file # None
  /\ \A b \in Offsets : Stored(d, b) = d.file

\* ... and before: with pages there is nothing to go on with.
Fresh(d) ==
  UsesPages(d.build) =>
    /\ d.page.status = "NONE"
    /\ \/ d.storage.savedOffset = 0
       \/ d.storage.savedOffset >= Blocks /\ FullTo(d, Blocks)

OtaOK(d) ==
  /\ AtRest(d)
  /\ d.state = "DOWNLOAD" => Loading(d)
  /\ d.state \in {"VERIFY_IMAGE", "WAITING_FOR_UPGRADE", "COUNTDOWN"} => Loaded(d)
  /\ d.state = "DISCOVER_SERVER" => Fresh(d)

\* Out of reset nothing is scheduled.
Unscheduled(d) == d.state = "DISCOVER_SERVER" => ~d.tick

OtaInv ==
  /\ OtaOK(device) /\ Unscheduled(device)
  /\ offered \in VersionsFor(device.build)
  /\ serving \in [file : FilesFor(device.build), base : Nat, sent : Nat]
  /\ toServer \in Seq(CommandsFor(device.build))
  /\ toClient \in Seq(AnswersFor(device.build))
  /\ lastSent \in Seq(AnswersFor(device.build))
-----------------------------------------------------------------------------
(* Constants, and the blocks of a page.                                    *)

LEMMA OtaLimits ==
  /\ Blocks \in Nat \ {0} /\ SaveRate \in Nat /\ PageBlocks \in Nat \ {0}
  /\ DownloadErrorThreshold \in Nat /\ UpgradeWaitThreshold \in Nat
  /\ None = 0 /\ Offsets = 0 .. Blocks - 1 /\ 0 \in Offsets
  /\ \A build \in AllBuilds :
       /\ VersionsFor(build) \subseteq Nat \ {0} /\ None \notin VersionsFor(build)
       /\ UsesPages(build) => VersionsFor(build) = {1}
       /\ ~UsesPages(build) => VersionsFor(build) = Versions
<1>1. \A build \in AllBuilds : VersionsFor(build) \subseteq Nat \ {0}
  BY StorageAssumption DEF StorageAssumption, VersionsFor
<1>2. Blocks \in Nat \ {0} /\ 0 \in Offsets
  BY StorageAssumption DEF StorageAssumption, Offsets
<1> QED
  BY <1>1, <1>2, StorageAssumption, ClientAssumption
     DEF StorageAssumption, ClientAssumption, VersionsFor, None, Offsets

\* Naturals have a least one.
LEMMA LeastOfNats ==
  ASSUME NEW S, S \subseteq Nat, S # {}
  PROVE  Min(S) \in S /\ \A y \in S : Min(S) <= y
<1> DEFINE Below(i) == {j \in S : j < i}
<1>1. PICK n \in S : n \in Nat
  OBVIOUS
<1> DEFINE F == 0 .. n
           T == {Below(i) : i \in S \cap F}
<1>2. IsFiniteSet(F)
  BY FS_Interval
<1>3. FiniteSubsetsOf(F) = SUBSET F
  BY <1>2, FS_FiniteSubsetsOfFinite
<1>4. T \subseteq FiniteSubsetsOf(F)
  <2>1. ASSUME NEW i \in S \cap F, NEW j \in Below(i)  PROVE j \in F
    <3>1. i \in 0 .. n /\ j \in Nat /\ j < i
      BY <2>1
    <3> QED
      BY <1>1, <3>1
  <2> QED
    BY <1>3, <2>1
<1>5. T # {}
  <2>1. n \in S \cap F
    BY <1>1
  <2> QED
    BY <2>1
<1>6. PICK X \in T : \A Y \in T : ~(<<Y, X>> \in StrictSubsetOrdering(F))
  BY <1>2, <1>4, <1>5, FS_StrictSubsetOrderingWellFounded, WFMin
<1>7. PICK x \in S \cap F : X = Below(x)
  OBVIOUS
<1>8. ASSUME NEW y \in S  PROVE x <= y
  <2>1. SUFFICES ASSUME y < x  PROVE FALSE
    BY <1>8
  <2>2. y \in Below(x) /\ y \notin Below(y)
    BY <2>1
  <2>3. \A j \in S : j < y => j < x
    BY <2>1
  <2>4. Below(y) \subseteq Below(x)
    BY <2>3
  <2>5. y \in S \cap F
    <3>1. x \in 0 .. n /\ y \in Nat
      BY <1>8
    <3> QED
      BY <1>1, <1>8, <2>1, <3>1
  <2>6. Below(x) \in SUBSET F /\ Below(y) \in SUBSET F
    <3>1. Below(x) \in T /\ Below(y) \in T
      BY <2>5
    <3> HIDE DEF Below, T, F
    <3> QED
      BY <1>3, <1>4, <3>1
  <2>7. Below(y) \in T
    BY <2>5
  <2> HIDE DEF Below, T, F
  <2>8. <<Below(y), X>> \in StrictSubsetOrdering(F)
    BY <1>7, <2>2, <2>4, <2>6 DEF StrictSubsetOrdering
  <2> QED
    BY <1>6, <2>7, <2>8
<1> QED
  BY <1>8 DEF Min

\* A set of numbers up to n has a greatest one.
LEMMA MaxUpTo ==
  ASSUME NEW n \in Nat, NEW S, S \subseteq 0 .. n, S # {}
  PROVE  Max(S) \in S /\ \A y \in S : y <= Max(S)
<1> DEFINE T == {n - x : x \in S}
           x0 == n - Min(T)
<1>1. /\ \A x \in S : x \in 0 .. n
      /\ T \subseteq Nat /\ T # {}
  <2>1. \A x \in S : x \in 0 .. n /\ n - x \in Nat
    OBVIOUS
  <2> QED
    BY <2>1
<1>2. Min(T) \in T /\ \A y \in T : Min(T) <= y
  BY <1>1, LeastOfNats
<1>3. x0 \in S /\ \A y \in S : x0 >= y
  <2>1. PICK x \in S : Min(T) = n - x
    BY <1>2
  <2>2. x0 = x
    BY <1>1, <2>1
  <2>3. ASSUME NEW y \in S  PROVE x >= y
    <3>1. n - y \in T /\ y \in 0 .. n /\ x \in 0 .. n
      BY <1>1
    <3>2. n - x <= n - y
      BY <1>2, <2>1, <3>1
    <3> QED
      BY <3>1, <3>2
  <2> QED
    BY <2>2, <2>3
<1> HIDE DEF x0
<1> QED
  BY <1>3 DEF Max


\* emAfGetPageBlocksReceived and the like: up to the first block missed
LEMMA PageCount ==
  ASSUME NEW page \in OtaPage, page.base \in Offsets
  PROVE  LET k == BlocksInThisPage(page)
             n == NumBlocksReceived(page)
         IN  /\ k \in Nat \ {0} /\ k <= PageBlocks /\ page.base + k <= Blocks
             /\ k = PageBlocks \/ page.base + k = Blocks
             /\ n \in 0 .. k /\ 0 .. n - 1 \subseteq page.received
             /\ \A m \in 0 .. k : 0 .. m - 1 \subseteq page.received => m <= n
<1> DEFINE k == BlocksInThisPage(page)
           S == {m \in 0 .. k : 0 .. m - 1 \subseteq page.received}
           rest == Blocks - page.base
<1>1. /\ Blocks \in Nat /\ page.base \in Nat /\ rest \in Nat \ {0}
      /\ PageBlocks \in Nat \ {0}
  BY OtaLimits
<1>2. k \in {PageBlocks, rest} /\ k <= PageBlocks /\ k <= rest
  <2> HIDE DEF rest
  <2>1. {PageBlocks, rest} \subseteq Nat /\ {PageBlocks, rest} # {}
    BY <1>1
  <2>2. Min({PageBlocks, rest}) \in {PageBlocks, rest}
        /\ \A y \in {PageBlocks, rest} : Min({PageBlocks, rest}) <= y
    BY <2>1, LeastOfNats
  <2> QED
    BY <2>2 DEF BlocksInThisPage, rest
<1>3. /\ k \in Nat \ {0} /\ k <= PageBlocks /\ page.base + k <= Blocks
      /\ k = PageBlocks \/ page.base + k = Blocks
  <2> HIDE DEF k
  <2> QED
    BY <1>1, <1>2
<1> HIDE DEF k, rest
<1>4. 0 \in S
  BY <1>3
<1>5. S \subseteq 0 .. k
  OBVIOUS
<1>6. Max(S) \in S /\ \A y \in S : y <= Max(S)
  <2> HIDE DEF S
  <2> QED
    BY <1>3, <1>4, <1>5, MaxUpTo
<1>7. NumBlocksReceived(page) = Max(S)
  BY DEF NumBlocksReceived, k
<1> HIDE DEF S
<1>8. /\ Max(S) \in 0 .. k /\ 0 .. Max(S) - 1 \subseteq page.received
      /\ \A m \in 0 .. k : 0 .. m - 1 \subseteq page.received => m <= Max(S)
  BY <1>6 DEF S
<1> QED
  BY <1>3, <1>7, <1>8 DEF k

-----------------------------------------------------------------------------
(* What the invariant is about, and what is sent.                          *)

SameImage(d, t) ==
  /\ t.build = d.build /\ t.offset = d.offset /\ t.storage = d.storage
  /\ t.usePageRequest = d.usePageRequest /\ t.page = d.page

LEMMA SameAtRest ==
  ASSUME NEW d, AtRest(d), NEW t, SameImage(d, t), DeviceTypes(t)
  PROVE  /\ AtRest(t)
         /\ Fresh(d) => Fresh(t)
         /\ t.file = d.file => (Loading(d) => Loading(t)) /\ (Loaded(d) => Loaded(t))
<1> USE DEF SameImage
<1>1. AtRest(t)
  BY DEF AtRest, FullTo, Stored, PageKept
<1>2. Fresh(d) => Fresh(t)
  BY DEF Fresh, FullTo, Stored
<1>3. ASSUME t.file = d.file, Loading(d)  PROVE Loading(t)
  BY <1>3 DEF Loading, Stored
<1>4. ASSUME t.file = d.file, Loaded(d)  PROVE Loaded(t)
  BY <1>4 DEF Loaded, Stored
<1> QED
  BY <1>1, <1>2, <1>3, <1>4

Unchanged(d, t) == SameImage(d, t) /\ t.state = d.state /\ t.file = d.file

LEMMA SameOK ==
  ASSUME NEW d, OtaOK(d), NEW t, Unchanged(d, t), DeviceTypes(t)
  PROVE  OtaOK(t)
  BY SameAtRest DEF OtaOK, Unchanged

\* setTimer
LEMMA TimerTypes ==
  ASSUME NEW d, DeviceTypes(d), NEW nonZero
  PROVE  /\ DeviceTypes(SetTimer(d, nonZero)) /\ Unchanged(d, SetTimer(d, nonZero))
         /\ SetTimer(d, nonZero).errors = d.errors
<1> DEFINE t == [d EXCEPT !.tick = TRUE]
<1>1. d \in OtaDevice(d.build) /\ d.build \in AllBuilds
  BY DEF DeviceTypes
<1>2. t \in OtaDevice(d.build) /\ t.build = d.build
  BY <1>1 DEF OtaDevice
<1>3. Unchanged(d, t) /\ Unchanged(d, d) /\ t.errors = d.errors
  BY <1>1 DEF OtaDevice, Unchanged, SameImage
<1>4. SetTimer(d, nonZero) \in {t, d}
  BY DEF SetTimer
<1> HIDE DEF t
<1> QED
  BY <1>1, <1>2, <1>3, <1>4 DEF DeviceTypes

\* sendMessage
LEMMA CommandSent ==
  ASSUME NEW d, DeviceTypes(d), NEW message \in CommandsFor(d.build), NEW timer
  PROVE  /\ DeviceTypes(SendMessage(d, message, timer))
         /\ Unchanged(d, SendMessage(d, message, timer))
<1> DEFINE waits == message.is # "end failed"
           out == Append(d.out, message)
           t == [d EXCEPT !.waitingForResponse = waits, !.out = out]
<1>1. d \in OtaDevice(d.build) /\ d.build \in AllBuilds
  BY DEF DeviceTypes
<1>2. waits \in BOOLEAN /\ out \in Seq(CommandsFor(d.build))
  BY <1>1 DEF OtaDevice
<1>3. SendMessage(d, message, timer) = SetTimer(t, timer)
  BY <1>1 DEF SendMessage, OtaDevice
<1> HIDE DEF waits, out
<1>4. t \in OtaDevice(d.build) /\ t.build = d.build
  BY <1>1, <1>2 DEF OtaDevice
<1>5. Unchanged(d, t)
  BY <1>1 DEF OtaDevice, Unchanged, SameImage
<1> HIDE DEF t
<1>6. DeviceTypes(t)
  BY <1>1, <1>4 DEF DeviceTypes
<1>7. DeviceTypes(SetTimer(t, timer)) /\ Unchanged(t, SetTimer(t, timer))
  BY <1>6, TimerTypes
<1> QED
  BY <1>3, <1>5, <1>7 DEF Unchanged, SameImage

\* In no state in particular is anything said of the state.
LEMMA Querying ==
  ASSUME NEW d, AtRest(d), d.state = "QUERY_NEXT_IMAGE"
  PROVE  OtaOK(d)
  BY DEF OtaOK

\* queryNextImage
LEMMA QueryNextImageStep ==
  ASSUME NEW d, AtRest(d), NEW timeoutReached
  PROVE  OtaOK(QueryNextImage(d, timeoutReached))
<1> DEFINE q == [d EXCEPT !.state = "QUERY_NEXT_IMAGE"]
           r == [q EXCEPT !.errors = 0, !.file = d.running]
           m == [is |-> "query", file |-> d.running]
<1>1. DeviceTypes(d) /\ d \in OtaDevice(d.build) /\ d.build \in AllBuilds
  BY DEF AtRest, DeviceTypes
<1>2. q \in OtaDevice(d.build) /\ q.build = d.build
  BY <1>1 DEF OtaDevice, States
<1>3. SameImage(d, q) /\ q.state = "QUERY_NEXT_IMAGE"
  BY <1>1 DEF OtaDevice, SameImage
<1>4. r \in OtaDevice(d.build) /\ r.build = d.build /\ SameImage(d, r)
      /\ r.state = "QUERY_NEXT_IMAGE"
  BY <1>1 DEF OtaDevice, SameImage, States
<1>5. m \in CommandsFor(d.build)
  BY <1>1 DEF OtaDevice, CommandsFor
<1> HIDE DEF q, r, m
<1>6. DeviceTypes(q) /\ DeviceTypes(r) /\ AtRest(q) /\ AtRest(r)
  BY <1>1, <1>2, <1>3, <1>4, SameAtRest DEF DeviceTypes
<1>7. OtaOK(SetTimer(q, TRUE))
  BY <1>3, <1>6, TimerTypes, SameOK, Querying
<1>8. OtaOK(SendMessage(r, m, TRUE))
  BY <1>4, <1>5, <1>6, CommandSent, SameOK, Querying
<1>9. QueryNextImage(d, timeoutReached) \in {SetTimer(q, TRUE), SendMessage(r, m, TRUE)}
  BY DEF QueryNextImage, q, r, m
<1> QED
  BY <1>7, <1>8, <1>9

\* requestUpgrade
LEMMA RequestUpgradeStep ==
  ASSUME NEW d, AtRest(d), Loaded(d)
  PROVE  OtaOK(RequestUpgrade(d))
<1> DEFINE u == [d EXCEPT !.state = "WAITING_FOR_UPGRADE"]
           m == [is |-> "end", file |-> d.file]
<1>1. DeviceTypes(d) /\ d \in OtaDevice(d.build) /\ d.build \in AllBuilds
  BY DEF AtRest, DeviceTypes
<1>2. u \in OtaDevice(d.build) /\ u.build = d.build
  BY <1>1 DEF OtaDevice, States
<1>3. SameImage(d, u) /\ u.state = "WAITING_FOR_UPGRADE" /\ u.file = d.file
  BY <1>1 DEF OtaDevice, SameImage
<1>4. m \in CommandsFor(d.build)
  BY <1>1 DEF OtaDevice, CommandsFor
<1> HIDE DEF u, m
<1>5. DeviceTypes(u) /\ AtRest(u) /\ Loaded(u)
  BY <1>1, <1>2, <1>3, SameAtRest DEF DeviceTypes
<1>6. OtaOK(u)
  BY <1>3, <1>5 DEF OtaOK
<1>7. OtaOK(SendMessage(u, m, TRUE))
  BY <1>2, <1>4, <1>5, <1>6, CommandSent, SameOK
<1> QED
  BY <1>7 DEF RequestUpgrade, u, m

\* downloadAndVerifyFinish
LEMMA FinishStep ==
  ASSUME NEW d, AtRest(d),
         NEW result \in {"SUCCESS", "CLIENT_ABORTED", "SERVER_ABORTED", "VERIFY_FAILED"},
         result = "SUCCESS" => Loaded(d),
         d.state \in {"DISCOVER_SERVER", "QUERY_NEXT_IMAGE"} => OtaOK(d)
  PROVE  OtaOK(DownloadAndVerifyFinish(d, result))
<1>1. DeviceTypes(d) /\ d \in OtaDevice(d.build) /\ d.build \in AllBuilds
  BY DEF AtRest, DeviceTypes
<1>2. CASE d.state \in {"DISCOVER_SERVER", "QUERY_NEXT_IMAGE"}
  BY <1>2 DEF DownloadAndVerifyFinish
<1>3. CASE /\ d.state \notin {"DISCOVER_SERVER", "QUERY_NEXT_IMAGE"}
           /\ result = "SUCCESS"
  <2> DEFINE e == [d EXCEPT !.errors = 0]
  <2>1. e \in OtaDevice(d.build) /\ e.build = d.build
    BY <1>1 DEF OtaDevice
  <2>2. SameImage(d, e) /\ e.file = d.file
    BY <1>1 DEF OtaDevice, SameImage
  <2>3. DownloadAndVerifyFinish(d, result) = RequestUpgrade(e)
    BY <1>3 DEF DownloadAndVerifyFinish
  <2> HIDE DEF e
  <2>4. AtRest(e) /\ Loaded(e)
    BY <1>1, <1>3, <2>1, <2>2, SameAtRest DEF DeviceTypes
  <2> QED
    BY <2>3, <2>4, RequestUpgradeStep
<1>4. CASE /\ d.state \notin {"DISCOVER_SERVER", "QUERY_NEXT_IMAGE"}
           /\ result # "SUCCESS"
  <2> DEFINE m == [is |-> "end failed"]
             told == IF result = "SERVER_ABORTED" THEN d ELSE SendMessage(d, m, TRUE)
             e == [told EXCEPT !.waitingForResponse = FALSE]
  <2>1. m \in CommandsFor(d.build)
    BY DEF CommandsFor
  <2>2. DownloadAndVerifyFinish(d, result) = QueryNextImage(e, FALSE)
    BY <1>4 DEF DownloadAndVerifyFinish
  <2> HIDE DEF m
  <2>3. DeviceTypes(told) /\ SameImage(d, told)
    BY <1>1, <2>1, CommandSent DEF Unchanged, SameImage
  <2> HIDE DEF told
  <2>4. told \in OtaDevice(d.build) /\ told.build = d.build
    BY <2>3 DEF DeviceTypes, SameImage
  <2>5. e \in OtaDevice(d.build) /\ e.build = d.build
    BY <2>4 DEF OtaDevice
  <2>6. SameImage(d, e)
    BY <2>3, <2>4 DEF OtaDevice, SameImage
  <2> HIDE DEF e
  <2>7. AtRest(e)
    BY <1>1, <2>5, <2>6, SameAtRest DEF DeviceTypes
  <2> QED
    BY <2>2, <2>7, QueryNextImageStep
<1> QED
  BY <1>2, <1>3, <1>4

-----------------------------------------------------------------------------
(* Asking for blocks and pages.                                            *)

\* requestBlock ...
LEMMA RequestBlockStep ==
  ASSUME NEW d, OtaOK(d)
  PROVE  OtaOK(RequestBlock(d))
<1> DEFINE m == [is |-> "block", file |-> d.file, offset |-> d.offset]
<1>1. DeviceTypes(d) /\ d \in OtaDevice(d.build)
  BY DEF OtaOK, AtRest, DeviceTypes
<1>2. m \in CommandsFor(d.build)
  BY <1>1 DEF OtaDevice, CommandsFor
<1> HIDE DEF m
<1>3. OtaOK(SendMessage(d, m, HasDelay(d.build)))
  BY <1>1, <1>2, CommandSent, SameOK
<1> QED
  BY <1>3 DEF RequestBlock, m

\* ... and requestPage: only with pages, and only of what there is
LEMMA RequestPageStep ==
  ASSUME NEW d, OtaOK(d), d.state = "DOWNLOAD", d.usePageRequest,
         d.page.status = "NONE"
  PROVE  OtaOK(RequestPage(d))
<1> DEFINE page == [status |-> "WAITING", base |-> d.offset, received |-> {}]
           t == [d EXCEPT !.page = page]
           m == [is |-> "page", file |-> d.file, offset |-> d.offset]
<1>1. /\ DeviceTypes(d) /\ d \in OtaDevice(d.build) /\ d.build \in AllBuilds
      /\ AtRest(d) /\ Loading(d)
  BY DEF OtaOK, AtRest, DeviceTypes
<1>2. UsesPages(d.build) /\ ~d.storage.hasFullImage /\ FullTo(d, d.offset)
  BY <1>1 DEF AtRest, Loading
<1>3. d.offset \in Offsets
  BY <1>1, <1>2, OtaLimits DEF Loading, OtaDevice
<1>4. page \in OtaPage
  BY <1>3, OtaLimits DEF OtaPage
<1>5. m \in CommandsFor(d.build)
  BY <1>1, <1>3 DEF OtaDevice, CommandsFor
<1>6. ~AllBlocksReceived(page) /\ d.offset <= page.base + NumBlocksReceived(page)
  <2> DEFINE n == NumBlocksReceived(page)
  <2>1. /\ BlocksInThisPage(page) \in Nat \ {0}
        /\ n \in 0 .. BlocksInThisPage(page) /\ 0 .. n - 1 \subseteq {}
    BY <1>3, <1>4, PageCount
  <2> HIDE DEF n
  <2>2. n = 0
    <3>1. n > 0 => 0 \in 0 .. n - 1
      BY <2>1
    <3> QED
      BY <2>1, <3>1
  <2> QED
    BY <1>3, <2>1, <2>2, OtaLimits DEF AllBlocksReceived, n
<1>7. page.status = "WAITING" /\ page.base = d.offset /\ page.received = {}
  OBVIOUS
<1> HIDE DEF page, m
<1>8. t \in OtaDevice(d.build) /\ t.build = d.build
  BY <1>1, <1>4 DEF OtaDevice
<1>9. /\ t.page = page /\ t.storage = d.storage /\ t.offset = d.offset
      /\ t.usePageRequest = TRUE /\ t.state = "DOWNLOAD" /\ t.file = d.file
  BY <1>1 DEF OtaDevice
<1>10. RequestPage(d) = SendMessage(t, m, TRUE)
  BY DEF RequestPage, InitPageRequest, page, m
<1> HIDE DEF t
<1>11. DeviceTypes(t) /\ FullTo(t, t.offset)
  BY <1>1, <1>2, <1>8, <1>9 DEF DeviceTypes, FullTo, Stored
<1>12. PageKept(t)
  BY <1>2, <1>3, <1>6, <1>7, <1>9 DEF PageKept, FullTo, Stored
<1>13. OtaOK(t)
  BY <1>1, <1>2, <1>8, <1>9, <1>11, <1>12 DEF OtaOK, AtRest, Loading
<1> QED
  BY <1>5, <1>8, <1>10, <1>11, <1>13, CommandSent, SameOK

\* requestMissedBlock: the offset goes to the first block missed, in front of
\* which all is stored.
LEMMA RequestMissedStep ==
  ASSUME NEW d, OtaOK(d), d.state = "DOWNLOAD", d.usePageRequest,
         d.page.status # "NONE"
  PROVE  OtaOK(RequestMissedBlock(d))
<1> DEFINE n == NumBlocksReceived(d.page)
           errors == d.errors + 1
           delay == HasDelay(d.build)
<1>1. /\ DeviceTypes(d) /\ d \in OtaDevice(d.build) /\ d.build \in AllBuilds
      /\ AtRest(d) /\ Loading(d) /\ d.page \in OtaPage
  BY DEF OtaOK, AtRest, DeviceTypes, OtaDevice
<1>2. UsesPages(d.build) /\ PageKept(d) /\ d.page.base \in Offsets
  BY <1>1 DEF AtRest, PageKept
<1>3. /\ n \in Nat /\ n < BlocksInThisPage(d.page)
      /\ BlocksInThisPage(d.page) \in Nat
      /\ d.page.base + BlocksInThisPage(d.page) <= Blocks
      /\ 0 .. n - 1 \subseteq d.page.received
  <2>1. /\ n \in 0 .. BlocksInThisPage(d.page) /\ BlocksInThisPage(d.page) \in Nat
        /\ d.page.base + BlocksInThisPage(d.page) <= Blocks
        /\ 0 .. n - 1 \subseteq d.page.received
    BY <1>1, <1>2, PageCount
  <2>2. n # BlocksInThisPage(d.page)
    BY <1>2 DEF PageKept, AllBlocksReceived
  <2> HIDE DEF n
  <2> QED
    BY <2>1, <2>2
<1> HIDE DEF n
<1>4. errors \in Nat
  BY <1>1 DEF OtaDevice
<1> HIDE DEF errors, delay
<1>5. CASE d.page.status # "RETRY"
  <2> DEFINE t == [d EXCEPT !.errors = errors]
  <2>1. RequestMissedBlock(d) = SetTimer(t, delay)
    BY <1>5 DEF RequestMissedBlock, errors, delay
  <2>2. t \in OtaDevice(d.build) /\ t.build = d.build
    BY <1>1, <1>4 DEF OtaDevice
  <2>3. Unchanged(d, t)
    BY <1>1 DEF OtaDevice, Unchanged, SameImage
  <2> HIDE DEF t
  <2>4. DeviceTypes(t) /\ OtaOK(t)
    BY <1>1, <2>2, <2>3, SameOK DEF DeviceTypes
  <2> QED
    BY <2>1, <2>4, TimerTypes, SameOK
<1>6. CASE d.page.status = "RETRY" /\ n = 0
  <2> DEFINE page == [d.page EXCEPT !.status = "NONE"]
             t == [d EXCEPT !.page = page, !.errors = errors]
  <2>1. RequestMissedBlock(d) = SetTimer(t, delay)
    <3>1. AbortPageRequest(d) = [d EXCEPT !.page = page]
      BY <1>1 DEF AbortPageRequest, OtaDevice
    <3>2. [AbortPageRequest(d) EXCEPT !.errors = @ + 1] = t
      BY <1>1, <3>1 DEF OtaDevice, errors
    <3> HIDE DEF t
    <3> QED
      BY <1>6, <3>2 DEF RequestMissedBlock, n, delay
  <2>2. page \in OtaPage /\ page.status = "NONE"
    BY <1>1 DEF OtaPage
  <2> HIDE DEF page
  <2>3. t \in OtaDevice(d.build) /\ t.build = d.build
    BY <1>1, <1>4, <2>2 DEF OtaDevice
  <2>4. /\ t.page = page /\ t.storage = d.storage /\ t.offset = d.offset
        /\ t.usePageRequest = TRUE /\ t.state = "DOWNLOAD"
    BY <1>1 DEF OtaDevice
  <2> HIDE DEF t
  <2>5. DeviceTypes(t) /\ OtaOK(t)
    BY <1>1, <1>2, <2>2, <2>3, <2>4
       DEF OtaOK, AtRest, DeviceTypes, Loading, PageKept, FullTo, Stored
  <2> QED
    BY <2>1, <2>5, TimerTypes, SameOK
<1>7. CASE d.page.status = "RETRY" /\ n # 0
  <2> DEFINE first == d.page.base + n
             t == [d EXCEPT !.offset = first]
  <2>1. first \in Nat /\ first < Blocks
    BY <1>1, <1>2, <1>3, OtaLimits
  <2>2. RequestMissedBlock(d) = RequestBlock(t)
    <3>1. ~AllBlocksReceived(d.page)
      BY <1>2 DEF PageKept
    <3>2. [[d EXCEPT !.offset = d.page.base + NumBlocksReceived(d.page)] EXCEPT
             !.page.status = IF AllBlocksReceived(d.page) THEN "COMPLETE" ELSE @] = t
      BY <1>1, <3>1 DEF OtaDevice, OtaPage, n
    <3> HIDE DEF t
    <3> QED
      BY <1>7, <3>2 DEF RequestMissedBlock, n
  <2> HIDE DEF first
  <2>3. t \in OtaDevice(d.build) /\ t.build = d.build
    BY <1>1, <2>1 DEF OtaDevice
  <2>4. /\ t.page = d.page /\ t.storage = d.storage /\ t.offset = first
        /\ t.usePageRequest = TRUE /\ t.state = "DOWNLOAD"
    BY <1>1 DEF OtaDevice
  <2> HIDE DEF t
  <2>5. ASSUME NEW b \in Offsets, b < first  PROVE Stored(d, b) # None
    <3>1. CASE b < d.page.base
      BY <1>2, <1>7, <3>1 DEF PageKept, FullTo
    <3>2. CASE ~(b < d.page.base)
      <4> DEFINE i == b - d.page.base
      <4>1. i \in 0 .. n - 1 /\ d.page.base + i = b
        BY <1>1, <1>2, <1>3, <2>5, <3>2, OtaLimits DEF first
      <4> HIDE DEF i
      <4> QED
        BY <1>2, <1>3, <1>7, <4>1 DEF PageKept
    <3> QED
      BY <3>1, <3>2
  <2>6. PageKept(t)
    BY <1>1, <1>2, <1>3, <1>7, <2>4, OtaLimits
       DEF PageKept, FullTo, Stored, first, n
  <2>7. OtaOK(t)
    <3>1. FullTo(t, t.offset)
      BY <2>4, <2>5 DEF FullTo, Stored
    <3> QED
      BY <1>1, <1>2, <2>1, <2>3, <2>4, <2>6, <3>1
         DEF OtaOK, AtRest, DeviceTypes, Loading
  <2> QED
    BY <2>2, <2>7, RequestBlockStep
<1> QED
  BY <1>5, <1>6, <1>7

\* continueImageDownload
LEMMA ContinueStep ==
  ASSUME NEW d0, AtRest(d0), Loading(d0)
  PROVE  OtaOK(ContinueImageDownload(d0))
<1> DEFINE d == [d0 EXCEPT !.state = "DOWNLOAD"]
<1>1. DeviceTypes(d0) /\ d0 \in OtaDevice(d0.build) /\ d0.build \in AllBuilds
  BY DEF AtRest, DeviceTypes
<1>2. d \in OtaDevice(d0.build) /\ d.build = d0.build
  BY <1>1 DEF OtaDevice, States
<1>3. SameImage(d0, d) /\ d.state = "DOWNLOAD" /\ d.file = d0.file
  BY <1>1 DEF OtaDevice, SameImage
<1>4. ContinueImageDownload(d0) \in
        {DownloadAndVerifyFinish(d, "CLIENT_ABORTED"), RequestBlock(d)}
      \/ /\ d.usePageRequest /\ d.page.status = "NONE"
         /\ ContinueImageDownload(d0) = RequestPage(d)
      \/ /\ d.usePageRequest /\ d.page.status # "NONE"
         /\ ContinueImageDownload(d0) = RequestMissedBlock(d)
  <2> HIDE DEF d
  <2>1. ContinueImageDownload(d0) =
          IF d.errors >= DownloadErrorThreshold
          THEN DownloadAndVerifyFinish(d, "CLIENT_ABORTED")
          ELSE IF ~ d.usePageRequest THEN RequestBlock(d)
          ELSE IF d.page.status = "NONE" THEN RequestPage(d)
          ELSE RequestMissedBlock(d)
    BY DEF ContinueImageDownload, d
  <2> QED
    BY <2>1
<1> HIDE DEF d
<1>5. AtRest(d) /\ Loading(d) /\ OtaOK(d)
  BY <1>1, <1>2, <1>3, SameAtRest DEF DeviceTypes, OtaOK
<1>6. OtaOK(DownloadAndVerifyFinish(d, "CLIENT_ABORTED"))
  BY <1>5, FinishStep
<1>7. OtaOK(RequestBlock(d))
  BY <1>5, RequestBlockStep
<1> QED
  BY <1>3, <1>4, <1>5, <1>6, <1>7, RequestPageStep, RequestMissedStep

-----------------------------------------------------------------------------
(* The storage.                                                            *)

\* emAfStorageWriteTempData and what it notes of it
LEMMA WriteStep ==
  ASSUME NEW build, NEW s \in StorageFor(build), NEW b \in Offsets,
         NEW v \in FilesFor(build)
  PROVE  LET w == WriteTempData(s, b, v) IN
           /\ w \in StorageFor(build) /\ w.hasFullImage = s.hasFullImage
           /\ w.stored = [s.stored EXCEPT ![b] = v]
           /\ w.savedOffset \in {s.savedOffset, b}
           /\ b = 0 => w.savedOffset = 0
<1> DEFINE stored == [s.stored EXCEPT ![b] = v]
           r == [s EXCEPT !.stored = stored]
           w == WriteTempData(s, b, v)
<1>1. b \in Nat
  BY OtaLimits
<1>2. stored \in [Offsets -> FilesFor(build)]
  BY DEF StorageFor
<1> HIDE DEF stored
<1>3. r \in StorageFor(build) /\ [r EXCEPT !.savedOffset = b] \in StorageFor(build)
  BY <1>1, <1>2 DEF StorageFor
<1>4. w \in {r, [r EXCEPT !.savedOffset = b]} /\ (b = 0 => w = [r EXCEPT !.savedOffset = b])
  BY DEF WriteTempData, UpdateDownloadOffset, stored
<1>5. /\ r.stored = stored /\ r.hasFullImage = s.hasFullImage
      /\ r.savedOffset = s.savedOffset
      /\ [r EXCEPT !.savedOffset = b].stored = stored
      /\ [r EXCEPT !.savedOffset = b].savedOffset = b
      /\ [r EXCEPT !.savedOffset = b].hasFullImage = s.hasFullImage
  BY DEF StorageFor
<1> HIDE DEF r
<1> QED
  BY <1>3, <1>4, <1>5 DEF w, stored

\* ... and what becomes of an image when the next download begins
LEMMA ClearStep ==
  ASSUME NEW build, NEW s \in StorageFor(build)
  PROVE  LET c == ClearTempData(DeleteImage(s)) IN
           /\ c \in StorageFor(build) /\ c.hasFullImage = FALSE
           /\ c.savedOffset = 0
           /\ ~s.hasFullImage => c.stored = s.stored
<1> DEFINE t == WriteTempData(s, 0, None)
           wiped == [[t EXCEPT !.hasFullImage = FALSE] EXCEPT !.savedOffset = 0]
           e == DeleteImage(s)
           c == [[e EXCEPT !.hasFullImage = FALSE] EXCEPT !.savedOffset = 0]
<1>1. t \in StorageFor(build)
  BY WriteStep, OtaLimits DEF FilesFor
<1>2. e = IF s.hasFullImage THEN wiped ELSE s
  BY DEF DeleteImage, UpdateDownloadOffset
<1> HIDE DEF t
<1>3. wiped \in StorageFor(build)
  BY <1>1 DEF StorageFor
<1> HIDE DEF wiped, e
<1>4. e \in StorageFor(build) /\ (~s.hasFullImage => e = s)
  BY <1>2, <1>3
<1>5. ClearTempData(e) = c
  BY DEF ClearTempData, UpdateDownloadOffset
<1>6. /\ c \in StorageFor(build) /\ c.hasFullImage = FALSE
      /\ c.savedOffset = 0 /\ c.stored = e.stored
  BY <1>4 DEF StorageFor
<1> HIDE DEF c
<1> QED
  BY <1>4, <1>5, <1>6 DEF e

\* The flag alone is found anew.
SameBlocks(s, t) == t.stored = s.stored /\ t.savedOffset = s.savedOffset

LEMMA CheckStep ==
  ASSUME NEW build, NEW s \in StorageFor(build)
  PROVE  /\ CheckTempData(s) \in StorageFor(build) /\ SameBlocks(s, CheckTempData(s))
         /\ StorageInit(s) \in StorageFor(build) /\ SameBlocks(s, StorageInit(s))
<1> DEFINE y == [s EXCEPT !.hasFullImage = TRUE]
           n == [s EXCEPT !.hasFullImage = FALSE]
           valid == HeaderIsValid(s)
           i == [s EXCEPT !.hasFullImage = valid]
<1>1. /\ y \in StorageFor(build) /\ SameBlocks(s, y)
      /\ n \in StorageFor(build) /\ SameBlocks(s, n)
  BY DEF StorageFor, SameBlocks
<1>2. CheckTempData(s) \in {y, n, s}
  BY DEF CheckTempData
<1>3. valid \in BOOLEAN
  BY DEF HeaderIsValid
<1>4. StorageInit(s) = i
  BY DEF StorageInit
<1> HIDE DEF valid
<1>5. i \in StorageFor(build) /\ SameBlocks(s, i) /\ SameBlocks(s, s)
  BY <1>3 DEF StorageFor, SameBlocks
<1> HIDE DEF y, n, i
<1> QED
  BY <1>1, <1>2, <1>4, <1>5

\* A device of which the flag was found anew, and no page is under way
LEMMA CheckedAtRest ==
  ASSUME NEW d, AtRest(d), d.page.status = "NONE", NEW t, DeviceTypes(t),
         t.build = d.build, t.offset = d.offset, SameBlocks(d.storage, t.storage),
         t.usePageRequest = d.usePageRequest, t.page = d.page
  PROVE  /\ AtRest(t)
         /\ Fresh(d) => Fresh(t)
         /\ t.file = d.file => (Loaded(d) => Loaded(t))
<1> USE DEF SameBlocks
<1>1. AtRest(t)
  BY DEF AtRest, FullTo, Stored, PageKept
<1>2. Fresh(d) => Fresh(t)
  BY DEF Fresh, FullTo, Stored
<1>3. ASSUME t.file = d.file, Loaded(d)  PROVE Loaded(t)
  BY <1>3 DEF Loaded, Stored
<1> QED
  BY <1>1, <1>2, <1>3

\* startImageVerification
LEMMA VerificationStep ==
  ASSUME NEW d, AtRest(d), d.page.status = "NONE",
         d.storage.savedOffset >= Blocks => Loaded(d)
  PROVE  OtaOK(StartImageVerification(d))
<1> DEFINE checked == CheckTempData(d.storage)
           v == [d EXCEPT !.state = "VERIFY_IMAGE", !.storage = checked]
<1>1. DeviceTypes(d) /\ d \in OtaDevice(d.build) /\ d.storage \in StorageFor(d.build)
  BY DEF AtRest, DeviceTypes, OtaDevice
<1>2. checked \in StorageFor(d.build) /\ SameBlocks(d.storage, checked)
  BY <1>1, CheckStep
<1>3. [d EXCEPT !.state = "VERIFY_IMAGE", !.storage = CheckTempData(@)] = v
  BY <1>1 DEF OtaDevice
<1> HIDE DEF checked
<1>4. v \in OtaDevice(d.build) /\ v.build = d.build
  BY <1>1, <1>2 DEF OtaDevice, States
<1>5. /\ v.offset = d.offset /\ v.storage = checked /\ v.page = d.page
      /\ v.usePageRequest = d.usePageRequest /\ v.file = d.file
      /\ v.state = "VERIFY_IMAGE"
  BY <1>1 DEF OtaDevice
<1> HIDE DEF v
<1>6. DeviceTypes(v) /\ AtRest(v) /\ (Loaded(d) => Loaded(v))
  BY <1>1, <1>2, <1>4, <1>5, CheckedAtRest DEF DeviceTypes
<1>7. CASE TempData(d.storage) = "SUCCESS"
  <2>1. Loaded(d)
    BY <1>7 DEF TempData
  <2>2. OtaOK(v)
    BY <1>5, <1>6, <2>1 DEF OtaOK
  <2>3. StartImageVerification(d) = SetTimer(v, TRUE)
    BY <1>3, <1>7 DEF StartImageVerification
  <2> QED
    BY <1>6, <2>2, <2>3, TimerTypes, SameOK
<1>8. CASE TempData(d.storage) # "SUCCESS"
  <2>1. StartImageVerification(d) = DownloadAndVerifyFinish(v, "VERIFY_FAILED")
    BY <1>3, <1>8 DEF StartImageVerification
  <2> QED
    BY <1>5, <1>6, <2>1, FinishStep
<1> QED
  BY <1>7, <1>8

-----------------------------------------------------------------------------
(* Starting, ticking, running the upgrade.                                 *)

\* A device out of reset; one with pages has loaded what it has, or nothing.
LEMMA RebootStep ==
  ASSUME NEW d, AtRest(d), UsesPages(d.build) => Loaded(d)
  PROVE  OtaOK(Reboot(d))
<1> DEFINE kept == StorageInit(d.storage)
           pages == UsesPages(d.build)
           t == [d EXCEPT !.state = "DISCOVER_SERVER", !.waitingForResponse = FALSE,
                   !.tick = FALSE, !.errors = 0, !.offset = 0, !.file = None,
                   !.usePageRequest = pages, !.page = NoPage, !.storage = kept]
<1>1. /\ DeviceTypes(d) /\ d \in OtaDevice(d.build) /\ d.storage \in StorageFor(d.build)
      /\ d.build \in AllBuilds
  BY DEF AtRest, DeviceTypes, OtaDevice
<1>2. kept \in StorageFor(d.build) /\ SameBlocks(d.storage, kept)
  BY <1>1, CheckStep
<1>3. Reboot(d) = t
  BY <1>1 DEF Reboot, OtaDevice
<1>4. pages \in BOOLEAN /\ NoPage \in OtaPage /\ NoPage.status = "NONE"
  BY DEF UsesPages, NoPage, OtaPage
<1> HIDE DEF kept, pages
<1>5. t \in OtaDevice(d.build) /\ t.build = d.build
  BY <1>1, <1>2, <1>4 DEF OtaDevice, States, FilesFor
<1>6. /\ t.offset = 0 /\ t.storage = kept /\ t.page = NoPage
      /\ t.usePageRequest = pages /\ t.state = "DISCOVER_SERVER"
  BY <1>1 DEF OtaDevice
<1> HIDE DEF t
<1>7. DeviceTypes(t) /\ FullTo(t, t.offset) /\ PageKept(t)
  BY <1>1, <1>4, <1>5, <1>6, OtaLimits DEF DeviceTypes, FullTo, PageKept
<1>8. AtRest(t)
  BY <1>2, <1>4, <1>5, <1>6, <1>7 DEF AtRest, SameBlocks, Stored, pages
<1>9. Fresh(t)
  BY <1>2, <1>4, <1>5, <1>6 DEF Fresh, Loaded, SameBlocks, FullTo, Stored
<1> QED
  BY <1>3, <1>6, <1>8, <1>9 DEF OtaOK

\* runUpgrade
LEMMA RunUpgradeStep ==
  ASSUME NEW d, AtRest(d), Loaded(d), NEW launched \in BOOLEAN
  PROVE  OtaOK(RunUpgrade(d, launched))
<1> DEFINE version == VersionStored(d.storage)
           t == [d EXCEPT !.running = version]
<1>1. DeviceTypes(d) /\ d \in OtaDevice(d.build) /\ d.storage \in StorageFor(d.build)
  BY DEF AtRest, DeviceTypes, OtaDevice
<1>2. version \in FilesFor(d.build)
  BY <1>1, OtaLimits DEF VersionStored, StorageFor, FilesFor
<1> HIDE DEF version
<1>3. t \in OtaDevice(d.build) /\ t.build = d.build
  BY <1>1, <1>2 DEF OtaDevice
<1>4. SameImage(d, t) /\ t.file = d.file
  BY <1>1 DEF OtaDevice, SameImage
<1>5. AtRest(t) /\ Loaded(t)
  BY <1>1, <1>3, <1>4, SameAtRest DEF DeviceTypes
<1>6. OtaOK(Reboot(t))
  BY <1>5, RebootStep
<1> QED
  BY <1>6, QueryNextImageStep DEF RunUpgrade, version

\* determineNextState
LEMMA DetermineStep ==
  ASSUME NEW d0, OtaOK(d0), d0.state = "DISCOVER_SERVER"
  PROVE  OtaOK(DetermineNextState(d0))
<1> DEFINE s == d0.storage
           found == TempData(s)
           checked == CheckTempData(s)
           file == IF found = "ERROR" THEN d0.file ELSE s.stored[0]
           d == [d0 EXCEPT !.storage = checked, !.file = file]
           p == [d EXCEPT !.offset = checked.savedOffset, !.errors = 0,
                          !.state = "DOWNLOAD"]
           v == [d EXCEPT !.state = "VERIFY_IMAGE"]
<1>1. /\ DeviceTypes(d0) /\ d0 \in OtaDevice(d0.build) /\ s \in StorageFor(d0.build)
      /\ AtRest(d0) /\ Fresh(d0) /\ d0.build \in AllBuilds
      /\ d0.page.status = "NONE"
  BY DEF OtaOK, AtRest, DeviceTypes, OtaDevice, Fresh
<1>2. /\ checked \in StorageFor(d0.build) /\ SameBlocks(s, checked)
      /\ checked.savedOffset \in Nat /\ s.savedOffset \in Nat
  BY <1>1, CheckStep DEF StorageFor
<1>3. file \in FilesFor(d0.build)
  BY <1>1, OtaLimits DEF StorageFor, OtaDevice
<1>4. DetermineNextState(d0) =
        CASE found = "PARTIAL" -> ContinueImageDownload(p)
          [] found = "SUCCESS" /\ d.file # d.running -> StartImageVerification(v)
          [] OTHER -> QueryNextImage(d, TRUE)
  <2>1. [d0 EXCEPT !.storage = CheckTempData(@),
                   !.file = IF found = "ERROR" THEN @ ELSE d0.storage.stored[0]] = d
    BY <1>1 DEF OtaDevice
  <2>2. [d EXCEPT !.offset = d.storage.savedOffset, !.errors = 0,
                  !.state = "DOWNLOAD"] = p
    BY <1>1 DEF OtaDevice
  <2> HIDE DEF d, p, v, found
  <2> QED
    BY <2>1, <2>2 DEF DetermineNextState, v, found, s
<1> HIDE DEF checked, file
<1>5. d \in OtaDevice(d0.build) /\ p \in OtaDevice(d0.build) /\ v \in OtaDevice(d0.build)
  <2>1. d \in OtaDevice(d0.build)
    BY <1>1, <1>2, <1>3 DEF OtaDevice
  <2> HIDE DEF d
  <2> QED
    BY <1>2, <2>1 DEF OtaDevice, States
<1>6. /\ d.build = d0.build /\ d.offset = d0.offset /\ d.storage = checked
      /\ d.file = file /\ d.page = d0.page /\ d.usePageRequest = d0.usePageRequest
  BY <1>1 DEF OtaDevice
<1>7. /\ p.build = d0.build /\ p.offset = checked.savedOffset /\ p.storage = checked
      /\ p.file = file /\ p.page = d0.page /\ p.usePageRequest = d0.usePageRequest
  BY <1>1 DEF OtaDevice
<1>8. /\ v.build = d0.build /\ v.offset = d0.offset /\ v.storage = checked
      /\ v.file = file /\ v.page = d0.page /\ v.usePageRequest = d0.usePageRequest
      /\ v.state = "VERIFY_IMAGE"
  BY <1>1 DEF OtaDevice
<1> HIDE DEF d, p, v
<1>9. DeviceTypes(d) /\ DeviceTypes(p) /\ DeviceTypes(v)
  BY <1>1, <1>5, <1>6, <1>7, <1>8 DEF DeviceTypes
<1>10. AtRest(d) /\ AtRest(v)
  BY <1>1, <1>2, <1>6, <1>8, <1>9, CheckedAtRest
<1>11. CASE found = "PARTIAL"
  <2>1. /\ s.savedOffset > 1 /\ s.savedOffset < Blocks
        /\ s.stored[0] # None /\ file = s.stored[0]
    BY <1>2, <1>11, OtaLimits DEF TempData, HeaderIsValid, file
  <2>2. ~UsesPages(d0.build)
    BY <1>1, <1>2, <2>1, OtaLimits DEF Fresh
  <2>3. AtRest(p)
    BY <1>1, <1>2, <1>7, <1>9, <2>2 DEF AtRest, SameBlocks, Stored
  <2>4. Loading(p)
    BY <1>1, <1>2, <1>7, <2>1, <2>2 DEF AtRest, Loading, SameBlocks, Stored
  <2> QED
    BY <1>4, <1>11, <2>3, <2>4, ContinueStep
<1>12. CASE found = "SUCCESS" /\ d.file # d.running
  <2>1. s.savedOffset >= Blocks /\ s.stored[0] # None /\ file = s.stored[0]
    BY <1>2, <1>12, OtaLimits DEF TempData, HeaderIsValid, file
  <2>2. ASSUME NEW b \in Offsets  PROVE s.stored[b] = file
    <3>1. b < s.savedOffset /\ b < Blocks
      BY <1>2, <2>1, OtaLimits
    <3>2. CASE UsesPages(d0.build)
      <4>1. s.stored[b] # None /\ s.stored[0] # None
        BY <1>1, <2>1, <3>1, <3>2, OtaLimits DEF Fresh, FullTo, Stored
      <4>2. s.stored[b] \in {1, None} /\ s.stored[0] \in {1, None}
        BY <1>1, <3>2, OtaLimits DEF StorageFor, FilesFor
      <4> QED
        BY <2>1, <4>1, <4>2
    <3>3. CASE ~UsesPages(d0.build)
      BY <1>1, <2>1, <3>1, <3>3 DEF AtRest, Stored
    <3> QED
      BY <3>2, <3>3
  <2>3. Loaded(v)
    BY <1>2, <1>8, <2>1, <2>2 DEF Loaded, SameBlocks, Stored
  <2>4. OtaOK(StartImageVerification(v))
    BY <1>1, <1>8, <1>10, <2>3, VerificationStep
  <2> QED
    BY <1>4, <1>12, <2>4
<1>13. CASE ~(found = "PARTIAL") /\ ~(found = "SUCCESS" /\ d.file # d.running)
  BY <1>4, <1>10, <1>13, QueryNextImageStep
<1> QED
  BY <1>11, <1>12, <1>13

-----------------------------------------------------------------------------
(* A device stays of its build, and has nothing scheduled out of reset.    *)

Fields(d) == {"build", "state", "tick", "page", "storage", "out"} \subseteq DOMAIN d
AsBuilt(d, t) == Fields(t) /\ t.build = d.build
Onward(d, t) == AsBuilt(d, t) /\ t.state # "DISCOVER_SERVER"

LEMMA SendKept ==
  ASSUME NEW d, Fields(d)
  PROVE  /\ \A z : AsBuilt(d, SetTimer(d, z)) /\ SetTimer(d, z).state = d.state
         /\ \A m, z : AsBuilt(d, SendMessage(d, m, z)) /\ SendMessage(d, m, z).state = d.state
<1>1. ASSUME NEW e, Fields(e), NEW z
      PROVE  AsBuilt(e, SetTimer(e, z)) /\ SetTimer(e, z).state = e.state
  BY <1>1 DEF Fields, AsBuilt, SetTimer
<1>2. ASSUME NEW m, NEW z
      PROVE  AsBuilt(d, SendMessage(d, m, z)) /\ SendMessage(d, m, z).state = d.state
  <2> DEFINE waits == m.is # "end failed"
             out == Append(d.out, m)
             t == [d EXCEPT !.waitingForResponse = waits, !.out = out]
  <2>1. SendMessage(d, m, z) = SetTimer(t, z)
    BY DEF SendMessage, Fields
  <2> HIDE DEF waits, out
  <2>2. AsBuilt(d, t) /\ t.state = d.state
    BY DEF Fields, AsBuilt
  <2> HIDE DEF t
  <2> QED
    BY <1>1, <2>1, <2>2 DEF AsBuilt
<1> QED
  BY <1>1, <1>2

LEMMA EndKept ==
  ASSUME NEW d, Fields(d)
  PROVE  /\ \A r : Onward(d, QueryNextImage(d, r))
         /\ Onward(d, RequestUpgrade(d))
         /\ \A r : IF d.state = "DISCOVER_SERVER" THEN DownloadAndVerifyFinish(d, r) = d
                   ELSE Onward(d, DownloadAndVerifyFinish(d, r))
<1>1. ASSUME NEW e, Fields(e), NEW r
      PROVE  Onward(e, QueryNextImage(e, r)) /\ Onward(e, RequestUpgrade(e))
  <2> DEFINE q == [e EXCEPT !.state = "QUERY_NEXT_IMAGE"]
             p == [q EXCEPT !.errors = 0, !.file = e.running]
             u == [e EXCEPT !.state = "WAITING_FOR_UPGRADE"]
  <2>1. Onward(e, q) /\ Onward(e, p) /\ Onward(e, u)
    BY <1>1 DEF Onward, AsBuilt, Fields
  <2>2. QueryNextImage(e, r) = IF r THEN SendMessage(p, [is |-> "query", file |-> e.running], TRUE)
                               ELSE SetTimer(q, TRUE)
    BY DEF QueryNextImage
  <2>3. RequestUpgrade(e) = SendMessage(u, [is |-> "end", file |-> e.file], TRUE)
    BY DEF RequestUpgrade
  <2> HIDE DEF q, p, u
  <2>4. Fields(q) /\ Fields(p) /\ Fields(u)
    BY <2>1 DEF Onward, AsBuilt
  <2>5. AsBuilt(q, SetTimer(q, TRUE)) /\ SetTimer(q, TRUE).state = q.state
    BY <2>4, SendKept
  <2>6. \A m : AsBuilt(p, SendMessage(p, m, TRUE)) /\ SendMessage(p, m, TRUE).state = p.state
    BY <2>4, SendKept
  <2>7. \A m : AsBuilt(u, SendMessage(u, m, TRUE)) /\ SendMessage(u, m, TRUE).state = u.state
    BY <2>4, SendKept
  <2> QED
    BY <2>1, <2>2, <2>3, <2>5, <2>6, <2>7 DEF Onward, AsBuilt
<1>2. ASSUME NEW r, d.state # "DISCOVER_SERVER"
      PROVE  Onward(d, DownloadAndVerifyFinish(d, r))
  <2> DEFINE m == [is |-> "end failed"]
             told == IF r = "SERVER_ABORTED" THEN d ELSE SendMessage(d, m, TRUE)
             e == [told EXCEPT !.waitingForResponse = FALSE]
             f == [d EXCEPT !.errors = 0]
  <2>1. DownloadAndVerifyFinish(d, r) \in {d, RequestUpgrade(f), QueryNextImage(e, FALSE)}
    BY DEF DownloadAndVerifyFinish
  <2> HIDE DEF m
  <2>2. AsBuilt(d, told)
    BY SendKept DEF AsBuilt
  <2> HIDE DEF told
  <2>3. AsBuilt(d, e) /\ AsBuilt(d, f)
    BY <2>2 DEF AsBuilt, Fields
  <2> HIDE DEF e, f
  <2>4. Onward(f, RequestUpgrade(f)) /\ Onward(e, QueryNextImage(e, FALSE))
    BY <1>1, <2>3 DEF AsBuilt
  <2>5. AsBuilt(d, d)
    BY DEF AsBuilt
  <2> QED
    BY <1>2, <2>1, <2>3, <2>4, <2>5 DEF Onward, AsBuilt
<1>3. ASSUME NEW r, d.state = "DISCOVER_SERVER"
      PROVE  DownloadAndVerifyFinish(d, r) = d
  BY <1>3 DEF DownloadAndVerifyFinish
<1> QED
  BY <1>1, <1>2, <1>3

LEMMA LoadKept ==
  ASSUME NEW d, Fields(d)
  PROVE  /\ Onward(d, ContinueImageDownload(d))
         /\ Onward(d, StartImageVerification(d))
<1>1. ASSUME NEW e, Fields(e)
      PROVE  AsBuilt(e, RequestBlock(e)) /\ RequestBlock(e).state = e.state
  BY <1>1, SendKept DEF RequestBlock
<1>2. ASSUME NEW e, Fields(e)
      PROVE  AsBuilt(e, RequestPage(e)) /\ RequestPage(e).state = e.state
  <2> DEFINE page == [status |-> "WAITING", base |-> e.offset, received |-> {}]
             t == [e EXCEPT !.page = page]
  <2> HIDE DEF page
  <2>1. AsBuilt(e, t) /\ t.state = e.state
    BY <1>2 DEF AsBuilt, Fields
  <2>2. RequestPage(e) = SendMessage(t, [is |-> "page", file |-> e.file,
                                         offset |-> e.offset], TRUE)
    BY DEF RequestPage, InitPageRequest, page
  <2> HIDE DEF t
  <2>3. \A m : AsBuilt(t, SendMessage(t, m, TRUE)) /\ SendMessage(t, m, TRUE).state = t.state
    BY <2>1, SendKept DEF AsBuilt
  <2> QED
    BY <2>1, <2>2, <2>3 DEF AsBuilt
<1>3. ASSUME NEW e, Fields(e)
      PROVE  AsBuilt(e, RequestMissedBlock(e)) /\ RequestMissedBlock(e).state = e.state
  <2> DEFINE z == HasDelay(e.build)
             offset == e.page.base + NumBlocksReceived(e.page)
             a == [e EXCEPT !.errors = @ + 1]
             b == [[e EXCEPT !.page.status = "NONE"] EXCEPT !.errors = @ + 1]
             c == [[e EXCEPT !.offset = offset] EXCEPT !.page.status =
                     IF AllBlocksReceived(e.page) THEN "COMPLETE" ELSE @]
  <2>1. RequestMissedBlock(e) \in {SetTimer(a, z), SetTimer(b, z), RequestBlock(c)}
    BY DEF RequestMissedBlock, AbortPageRequest
  <2> HIDE DEF offset, z
  <2>2. /\ AsBuilt(e, a) /\ a.state = e.state
        /\ AsBuilt(e, b) /\ b.state = e.state
        /\ AsBuilt(e, c) /\ c.state = e.state
    BY <1>3 DEF AsBuilt, Fields
  <2> HIDE DEF a, b, c
  <2> QED
    BY <1>1, <2>1, <2>2, SendKept DEF AsBuilt
<1>4. Onward(d, ContinueImageDownload(d))
  <2> DEFINE e == [d EXCEPT !.state = "DOWNLOAD"]
  <2>1. Onward(d, e)
    BY DEF Onward, AsBuilt, Fields
  <2>2. ContinueImageDownload(d) \in
          {DownloadAndVerifyFinish(e, "CLIENT_ABORTED"), RequestBlock(e),
           RequestPage(e), RequestMissedBlock(e)}
    BY DEF ContinueImageDownload
  <2> HIDE DEF e
  <2> QED
    BY <1>1, <1>2, <1>3, <2>1, <2>2, EndKept DEF Onward, AsBuilt
<1>5. Onward(d, StartImageVerification(d))
  <2> DEFINE e == [d EXCEPT !.state = "VERIFY_IMAGE", !.storage = CheckTempData(@)]
  <2>1. Onward(d, e)
    BY DEF Onward, AsBuilt, Fields
  <2>2. StartImageVerification(d) \in
          {SetTimer(e, TRUE), DownloadAndVerifyFinish(e, "VERIFY_FAILED")}
    BY DEF StartImageVerification
  <2> HIDE DEF e
  <2>3. AsBuilt(e, SetTimer(e, TRUE)) /\ SetTimer(e, TRUE).state = e.state
    BY <2>1, SendKept DEF Onward, AsBuilt
  <2>4. Onward(e, DownloadAndVerifyFinish(e, "VERIFY_FAILED"))
    BY <2>1, EndKept DEF Onward, AsBuilt
  <2> QED
    BY <2>1, <2>2, <2>3, <2>4 DEF Onward, AsBuilt
<1> QED
  BY <1>4, <1>5

LEMMA RunKept ==
  ASSUME NEW d, Fields(d)
  PROVE  /\ AsBuilt(d, Reboot(d)) /\ Unscheduled(Reboot(d))
         /\ \A r : AsBuilt(d, RunUpgrade(d, r)) /\ Unscheduled(RunUpgrade(d, r))
         /\ Onward(d, DetermineNextState(d))
<1>1. ASSUME NEW e, Fields(e)  PROVE AsBuilt(e, Reboot(e)) /\ ~Reboot(e).tick
  BY <1>1 DEF AsBuilt, Fields, Reboot
<1>2. ASSUME NEW r  PROVE AsBuilt(d, RunUpgrade(d, r)) /\ Unscheduled(RunUpgrade(d, r))
  <2> DEFINE e == [d EXCEPT !.running = VersionStored(d.storage)]
  <2>1. AsBuilt(d, e)
    BY DEF AsBuilt, Fields
  <2>2. RunUpgrade(d, r) \in {Reboot(e), QueryNextImage(d, FALSE)}
    BY DEF RunUpgrade
  <2> HIDE DEF e
  <2> QED
    BY <1>1, <2>1, <2>2, EndKept DEF Onward, AsBuilt, Unscheduled
<1>3. Onward(d, DetermineNextState(d))
  <2> DEFINE s == CheckTempData(d.storage)
             file == IF TempData(d.storage) = "ERROR" THEN d.file ELSE d.storage.stored[0]
             e == [d EXCEPT !.storage = CheckTempData(@),
                            !.file = IF TempData(d.storage) = "ERROR" THEN @
                                     ELSE d.storage.stored[0]]
             p == [e EXCEPT !.offset = e.storage.savedOffset, !.errors = 0,
                            !.state = "DOWNLOAD"]
             v == [e EXCEPT !.state = "VERIFY_IMAGE"]
  <2>1. AsBuilt(d, e)
    BY DEF AsBuilt, Fields
  <2>2. DetermineNextState(d) =
          CASE TempData(d.storage) = "PARTIAL" -> ContinueImageDownload(p)
            [] TempData(d.storage) = "SUCCESS" /\ e.file # e.running ->
                 StartImageVerification(v)
            [] OTHER -> QueryNextImage(e, TRUE)
    BY DEF DetermineNextState
  <2> HIDE DEF e
  <2>3. AsBuilt(e, p) /\ AsBuilt(e, v)
    BY <2>1 DEF AsBuilt, Fields
  <2> HIDE DEF p, v
  <2>4. DetermineNextState(d) \in {ContinueImageDownload(p), StartImageVerification(v),
                                   QueryNextImage(e, TRUE)}
    BY <2>2
  <2>5. Onward(p, ContinueImageDownload(p)) /\ Onward(v, StartImageVerification(v))
        /\ Onward(e, QueryNextImage(e, TRUE))
    BY <2>1, <2>3, EndKept, LoadKept DEF AsBuilt
  <2> QED
    BY <2>1, <2>3, <2>4, <2>5 DEF Onward, AsBuilt
<1> QED
  BY <1>1, <1>2, <1>3 DEF Unscheduled

-----------------------------------------------------------------------------
(* Blocks coming in.                                                       *)

LEMMA HasFields ==
  ASSUME NEW d, DeviceTypes(d)
  PROVE  Fields(d)
  BY DEF DeviceTypes, OtaDevice, Fields

\* The flag of a page under way says no more than that it is under way.
LEMMA PageStatus ==
  ASSUME NEW d, OtaOK(d), d.page.status # "NONE", NEW t, DeviceTypes(t),
         t.build = d.build, t.state = d.state, t.offset = d.offset, t.file = d.file,
         t.storage = d.storage, t.usePageRequest = d.usePageRequest,
         t.page.base = d.page.base, t.page.received = d.page.received
  PROVE  OtaOK(t)
<1>1. UsesPages(d.build)
  BY DEF OtaOK, AtRest
<1>2. NumBlocksReceived(t.page) = NumBlocksReceived(d.page)
      /\ BlocksInThisPage(t.page) = BlocksInThisPage(d.page)
  BY DEF NumBlocksReceived, BlocksInThisPage
<1>3. AtRest(t)
  BY <1>1, <1>2 DEF OtaOK, AtRest, PageKept, FullTo, Stored, AllBlocksReceived
<1>4. Loading(d) => Loading(t)
  BY <1>1 DEF Loading
<1>5. Loaded(d) => Loaded(t)
  BY DEF Loaded, Stored
<1>6. d.state # "DISCOVER_SERVER"
  BY <1>1 DEF OtaOK, Fresh
<1> QED
  BY <1>3, <1>4, <1>5, <1>6 DEF OtaOK

\* The blocks up to next are in, and what follows of it
LEMMA BlockStoredStep ==
  ASSUME NEW d, AtRest(d), Loading(d), d.state = "DOWNLOAD", d.file # None,
         NEW next \in Nat, NEW timer,
         UsesPages(d.build) =>
           /\ FullTo(d, next)
           /\ d.page.status # "NONE" =>
                next < Blocks /\ next <= d.page.base + NumBlocksReceived(d.page),
         ~UsesPages(d.build) =>
           d.offset <= next /\ \A b \in Offsets : b < next => Stored(d, b) = d.file
  PROVE  OtaOK(BlockStored(d, next, timer)) /\ Onward(d, BlockStored(d, next, timer))
<1> DEFINE a == [d EXCEPT !.offset = next]
           s == [d.storage EXCEPT !.savedOffset = next]
           f == [a EXCEPT !.storage = s]
<1>1. /\ DeviceTypes(d) /\ d \in OtaDevice(d.build) /\ d.build \in AllBuilds
      /\ d.storage \in StorageFor(d.build) /\ d.file \in FilesFor(d.build)
      /\ d.offset \in Nat
  BY DEF AtRest, DeviceTypes, OtaDevice
<1>2. a \in OtaDevice(d.build)
  BY <1>1 DEF OtaDevice
<1>3. s \in StorageFor(d.build) /\ s.stored = d.storage.stored /\ s.savedOffset = next
      /\ FinishDownload(d.storage, next) = s
  BY <1>1 DEF StorageFor, FinishDownload, UpdateDownloadOffset
<1>4. BlockStored(d, next, timer) =
        IF next >= Blocks THEN StartImageVerification(f)
        ELSE IF timer THEN SetTimer(a, TRUE) ELSE ContinueImageDownload(a)
  <2>1. [a EXCEPT !.storage = FinishDownload(@, next)] = f
    BY <1>1, <1>3 DEF OtaDevice
  <2> HIDE DEF a, f
  <2> QED
    BY <2>1 DEF BlockStored, a
<1> HIDE DEF s
<1>5. f \in OtaDevice(d.build)
  <2> HIDE DEF a
  <2> QED
    BY <1>2, <1>3 DEF OtaDevice
<1>6. /\ a.build = d.build /\ a.offset = next /\ a.storage = d.storage
      /\ a.file = d.file /\ a.page = d.page /\ a.usePageRequest = d.usePageRequest
      /\ a.state = "DOWNLOAD"
      /\ f.build = d.build /\ f.offset = next /\ f.storage = s
      /\ f.file = d.file /\ f.page = d.page /\ f.usePageRequest = d.usePageRequest
      /\ f.state = "DOWNLOAD"
  BY <1>1 DEF OtaDevice
<1> HIDE DEF a, f
<1>7. DeviceTypes(a) /\ DeviceTypes(f)
  BY <1>1, <1>2, <1>5, <1>6 DEF DeviceTypes
<1>8. CASE next >= Blocks
  <2>1. d.page.status = "NONE"
    BY <1>1, <1>8, OtaLimits DEF AtRest
  <2>2. ASSUME NEW b \in Offsets  PROVE Stored(f, b) = f.file
    <3>1. b < next
      BY <1>8, OtaLimits
    <3>2. CASE UsesPages(d.build)
      <4>1. Stored(d, b) # None
        BY <3>1, <3>2 DEF FullTo
      <4>2. Stored(d, b) \in {1, None} /\ d.file \in {1, None}
        BY <1>1, <3>2, OtaLimits DEF StorageFor, FilesFor, Stored
      <4> QED
        BY <1>3, <1>6, <4>1, <4>2 DEF Stored
    <3>3. CASE ~UsesPages(d.build)
      BY <1>3, <1>6, <3>1, <3>3 DEF Stored
    <3> QED
      BY <3>2, <3>3
  <2>3. Loaded(f)
    BY <1>3, <1>6, <1>8, <2>2 DEF Loaded
  <2>4. AtRest(f)
    BY <1>6, <1>7, <2>1, <2>2, OtaLimits DEF AtRest, PageKept, FullTo
  <2>5. OtaOK(StartImageVerification(f))
    BY <1>6, <2>1, <2>3, <2>4, VerificationStep
  <2>6. Onward(f, StartImageVerification(f))
    BY <1>7, HasFields, LoadKept
  <2> QED
    BY <1>4, <1>6, <1>8, <2>5, <2>6 DEF Onward, AsBuilt
<1>9. CASE next < Blocks
  <2>1. AtRest(a)
    BY <1>6, <1>7 DEF AtRest, PageKept, FullTo, Stored
  <2>2. Loading(a)
    <3>1. d.storage.savedOffset \in Nat
      BY <1>1 DEF StorageFor
    <3> QED
      BY <1>1, <1>6, <1>9, <3>1 DEF Loading, Stored
  <2>3. OtaOK(a)
    BY <1>6, <2>1, <2>2 DEF OtaOK
  <2>4. OtaOK(SetTimer(a, TRUE)) /\ OtaOK(ContinueImageDownload(a))
    BY <1>7, <2>1, <2>2, <2>3, TimerTypes, SameOK, ContinueStep
  <2>5. Fields(a) /\ ~(next >= Blocks)
    BY <1>7, <1>9, HasFields, OtaLimits
  <2>6. Onward(a, SetTimer(a, TRUE)) /\ Onward(a, ContinueImageDownload(a))
    BY <1>6, <2>5, SendKept, LoadKept DEF Onward
  <2> QED
    BY <1>4, <1>6, <2>4, <2>5, <2>6 DEF Onward, AsBuilt
<1> QED
  BY <1>8, <1>9, OtaLimits

\* A block of the file asked for is in: no block is lost by it, and by blocks
\* it is the one at the offset.
Wrote(d, offset, v) ==
  [d EXCEPT !.errors = 0, !.storage = WriteTempData(@, offset, v)]

LEMMA WroteStep ==
  ASSUME NEW d, OtaOK(d), d.state = "DOWNLOAD",
         NEW offset \in Offsets, NEW v \in VersionsFor(d.build), v = d.file,
         ~UsesPages(d.build) => offset = d.offset,
         NEW t, t = Wrote(d, offset, v)
  PROVE  /\ OtaOK(t) /\ t.state = "DOWNLOAD" /\ t.build = d.build
         /\ t.file = d.file /\ t.offset = d.offset /\ t.page = d.page
         /\ t.usePageRequest = d.usePageRequest
         /\ Stored(t, offset) = v
         /\ \A b \in Offsets : Stored(d, b) # None => Stored(t, b) # None
         /\ ~UsesPages(d.build) =>
              \A b \in Offsets : b < offset + 1 => Stored(t, b) = t.file
<1> DEFINE w == WriteTempData(d.storage, offset, v)
           new == [d EXCEPT !.errors = 0, !.storage = w]
<1>1. /\ DeviceTypes(d) /\ d \in OtaDevice(d.build) /\ d.build \in AllBuilds
      /\ d.storage \in StorageFor(d.build) /\ d.offset \in Nat
      /\ AtRest(d) /\ Loading(d)
  BY DEF OtaOK, AtRest, DeviceTypes, OtaDevice
<1>2. t = new
  BY <1>1 DEF Wrote, OtaDevice
<1>3. /\ w \in StorageFor(d.build) /\ w.hasFullImage = d.storage.hasFullImage
      /\ w.stored = [d.storage.stored EXCEPT ![offset] = v]
      /\ w.savedOffset \in {d.storage.savedOffset, offset}
  BY <1>1, WriteStep DEF FilesFor
<1> HIDE DEF w
<1>4. new \in OtaDevice(d.build)
  BY <1>1, <1>3 DEF OtaDevice
<1>5. /\ t \in OtaDevice(d.build)
      /\ t.build = d.build /\ t.offset = d.offset /\ t.storage = w
      /\ t.file = d.file /\ t.page = d.page /\ t.usePageRequest = d.usePageRequest
      /\ t.state = "DOWNLOAD"
  <2>1. /\ new.build = d.build /\ new.offset = d.offset /\ new.storage = w
        /\ new.file = d.file /\ new.page = d.page
        /\ new.usePageRequest = d.usePageRequest /\ new.state = "DOWNLOAD"
    BY <1>1 DEF OtaDevice
  <2> HIDE DEF new
  <2> QED
    BY <1>2, <1>4, <2>1
<1> HIDE DEF new
<1>6. DeviceTypes(t)
  BY <1>1, <1>5 DEF DeviceTypes
<1>7. \A b \in Offsets : Stored(t, b) = IF b = offset THEN v ELSE Stored(d, b)
  BY <1>1, <1>3, <1>5 DEF Stored, StorageFor
<1>8. v # None
  BY <1>1, OtaLimits
<1>9. \A b \in Offsets : Stored(d, b) # None => Stored(t, b) # None
  BY <1>7, <1>8
<1>10. CASE UsesPages(d.build)
  <2>1. FullTo(t, t.offset)
    BY <1>1, <1>5, <1>9, <1>10 DEF AtRest, FullTo
  <2>2. PageKept(t)
    BY <1>1, <1>3, <1>5, <1>9, <1>10 DEF AtRest, PageKept, FullTo
  <2>3. OtaOK(t)
    BY <1>1, <1>3, <1>5, <1>6, <1>10, <2>1, <2>2 DEF OtaOK, AtRest, Loading
  <2> QED
    BY <1>5, <1>7, <1>9, <1>10, <2>3
<1>11. CASE ~UsesPages(d.build)
  <2>1. w.savedOffset \in Nat /\ w.savedOffset <= offset /\ d.storage.savedOffset \in Nat
    BY <1>1, <1>3, <1>11, OtaLimits DEF Loading, StorageFor
  <2>2. ASSUME NEW b \in Offsets, b < offset + 1  PROVE Stored(t, b) = t.file
    <3>1. CASE b = offset
      BY <1>5, <1>7, <3>1
    <3>2. CASE b # offset
      <4>1. b < offset
        BY <2>2, <3>2, OtaLimits
      <4> QED
        BY <1>1, <1>5, <1>7, <1>11, <3>2, <4>1 DEF Loading
    <3> QED
      BY <3>1, <3>2
  <2>3. Loading(t)
    BY <1>5, <1>11, <2>1, <2>2, OtaLimits DEF Loading
  <2>4. ASSUME NEW b \in Offsets, b < t.storage.savedOffset
        PROVE  Stored(t, b) = Stored(t, 0)
    <3>1. b < offset + 1 /\ 0 < offset + 1 /\ 0 \in Offsets
      BY <1>5, <2>1, <2>4, OtaLimits
    <3>2. Stored(t, b) = t.file /\ Stored(t, 0) = t.file
      BY <2>2, <3>1
    <3> QED
      BY <3>2
  <2>5. AtRest(t)
    BY <1>1, <1>5, <1>6, <1>11, <2>4 DEF AtRest
  <2>6. OtaOK(t)
    BY <1>5, <2>3, <2>5 DEF OtaOK
  <2> QED
    BY <1>5, <1>7, <1>9, <2>2, <2>6
<1> QED
  BY <1>10, <1>11

\* A block of the page under way is in; t is the device with the block noted.
LEMMA NotedStep ==
  ASSUME NEW d, OtaOK(d), d.state = "DOWNLOAD", UsesPages(d.build),
         d.page.status # "NONE", NEW offset \in Offsets, Stored(d, offset) # None
  PROVE  LET t == NoteReceivedBlock(d, offset) IN
         /\ OtaOK(t) /\ t.state = "DOWNLOAD" /\ t.build = d.build /\ t.file = d.file
         /\ t.page.status \in {d.page.status, "NONE"}
         /\ t.page.status = "NONE" => FullTo(t, t.page.base + PageBlocks)
         /\ t.page.status # "NONE" /\ offset = d.offset =>
              FullTo(t, offset + 1) /\ offset + 1 < Blocks
              /\ offset + 1 <= t.page.base + NumBlocksReceived(t.page)
<1> DEFINE k == offset - d.page.base
           got == d.page.received \cup {k}
           noted == [d.page EXCEPT !.received = got]
           closed == [noted EXCEPT !.status = "NONE"]
           n == [d EXCEPT !.page = noted]
           c == [n EXCEPT !.page = closed]
           num == NumBlocksReceived(d.page)
           size == BlocksInThisPage(d.page)
<1>1. /\ DeviceTypes(d) /\ d \in OtaDevice(d.build) /\ d.build \in AllBuilds
      /\ d.storage \in StorageFor(d.build) /\ d.offset \in Nat /\ d.page \in OtaPage
      /\ AtRest(d) /\ Loading(d) /\ PageKept(d) /\ d.page.base \in Offsets
      /\ FullTo(d, d.offset) /\ FullTo(d, d.page.base)
  BY DEF OtaOK, AtRest, DeviceTypes, OtaDevice, PageKept
<1>2. /\ size \in Nat \ {0} /\ size <= PageBlocks /\ d.page.base + size <= Blocks
      /\ size = PageBlocks \/ d.page.base + size = Blocks
      /\ num \in 0 .. size /\ 0 .. num - 1 \subseteq d.page.received
      /\ num < size /\ d.offset <= d.page.base + num
  <2>1. num # size
    BY <1>1 DEF PageKept, AllBlocksReceived
  <2>2. /\ size \in Nat \ {0} /\ size <= PageBlocks /\ d.page.base + size <= Blocks
        /\ size = PageBlocks \/ d.page.base + size = Blocks
        /\ num \in 0 .. size /\ 0 .. num - 1 \subseteq d.page.received
    BY <1>1, PageCount
  <2> HIDE DEF num, size
  <2> QED
    BY <1>1, <2>1, <2>2 DEF PageKept, num
<1> HIDE DEF num, size
<1>3. CASE offset < d.page.base
  <2>1. NoteReceivedBlock(d, offset) = d
    BY <1>3 DEF NoteReceivedBlock
  <2>2. ASSUME offset = d.offset
        PROVE  FullTo(d, offset + 1) /\ offset + 1 < Blocks
               /\ offset + 1 <= d.page.base + num
    <3>1. offset + 1 <= d.page.base
      BY <1>1, <1>3, OtaLimits
    <3> QED
      BY <1>1, <1>2, <3>1, OtaLimits DEF FullTo
  <2> QED
    BY <2>1, <2>2 DEF num
<1>4. CASE offset >= d.page.base
  <2>1. k \in Nat /\ d.page.base + k = offset /\ d.page.base \in Nat /\ offset \in Nat
    BY <1>1, <1>4, OtaLimits
  <2> HIDE DEF k
  <2>2. noted \in OtaPage /\ closed \in OtaPage
    BY <1>1, <2>1 DEF OtaPage
  <2>3. /\ noted.base = d.page.base /\ noted.received = got
        /\ noted.status = d.page.status
        /\ closed.base = d.page.base /\ closed.status = "NONE"
    BY <1>1 DEF OtaPage
  <2>4. NoteReceivedBlock(d, offset) = IF AllBlocksReceived(noted) THEN c ELSE n
    <3>1. [d EXCEPT !.page.received = @ \union {offset - d.page.base}] = n
      BY <1>1 DEF OtaDevice, OtaPage, k
    <3>2. n.page = noted /\ [n EXCEPT !.page.status = "NONE"] = c
      BY <1>1 DEF OtaDevice
    <3> HIDE DEF n, c, noted, closed
    <3>3. NoteReceivedBlock(d, offset) =
            IF offset < d.page.base THEN d
            ELSE IF AllBlocksReceived(n.page) THEN AbortPageRequest(n) ELSE n
      BY <3>1 DEF NoteReceivedBlock
    <3>4. AbortPageRequest(n) = c
      BY <3>2 DEF AbortPageRequest
    <3>5. ~(offset < d.page.base)
      BY <1>4, <2>1
    <3> QED
      BY <3>2, <3>3, <3>4, <3>5
  <2>5. BlocksInThisPage(noted) = size
    BY <2>3 DEF BlocksInThisPage, size
  <2>6. /\ NumBlocksReceived(noted) \in 0 .. size
        /\ 0 .. NumBlocksReceived(noted) - 1 \subseteq got
        /\ \A m \in 0 .. size : 0 .. m - 1 \subseteq got => m <= NumBlocksReceived(noted)
    BY <1>1, <2>2, <2>3, <2>5, PageCount
  <2>7. num <= NumBlocksReceived(noted)
    <3> HIDE DEF noted
    <3> QED
      BY <1>2, <2>6
  <2>8. ASSUME NEW i \in got, d.page.base + i \in Offsets
        PROVE  Stored(d, d.page.base + i) # None
    BY <1>1, <2>1, <2>8 DEF PageKept
  <2>9. /\ n \in OtaDevice(d.build) /\ c \in OtaDevice(d.build)
    <3> HIDE DEF noted, closed
    <3> QED
      BY <1>1, <2>2 DEF OtaDevice
  <2>10. /\ n.build = d.build /\ n.offset = d.offset /\ n.storage = d.storage
         /\ n.file = d.file /\ n.page = noted /\ n.usePageRequest = d.usePageRequest
         /\ n.state = "DOWNLOAD"
         /\ c.build = d.build /\ c.offset = d.offset /\ c.storage = d.storage
         /\ c.file = d.file /\ c.page = closed /\ c.usePageRequest = d.usePageRequest
         /\ c.state = "DOWNLOAD"
    <3> HIDE DEF noted, closed
    <3> QED
      BY <1>1 DEF OtaDevice
  <2> HIDE DEF n, c, noted, closed, got
  <2>11. DeviceTypes(n) /\ DeviceTypes(c)
    BY <1>1, <2>9, <2>10 DEF DeviceTypes
  <2>12. CASE AllBlocksReceived(noted)
    <3>1. 0 .. size - 1 \subseteq got
      BY <2>5, <2>6, <2>12 DEF AllBlocksReceived
    <3>2. ASSUME NEW b \in Offsets, b < c.page.base + PageBlocks
          PROVE  Stored(c, b) # None
      <4>1. CASE b < d.page.base
        BY <1>1, <2>10, <4>1 DEF FullTo, Stored
      <4>2. CASE b >= d.page.base
        <5> DEFINE i == b - d.page.base
        <5>1. /\ b \in Nat /\ b < Blocks /\ b < d.page.base + PageBlocks
              /\ PageBlocks \in Nat /\ Blocks \in Nat
          BY <2>3, <2>10, <3>2, OtaLimits
        <5>2. b < d.page.base + size
          BY <1>2, <5>1
        <5>3. i \in 0 .. size - 1 /\ d.page.base + i = b
          BY <1>2, <2>1, <4>2, <5>1, <5>2
        <5> HIDE DEF i
        <5> QED
          BY <2>8, <2>10, <3>1, <5>3 DEF Stored
      <4> QED
        BY <2>1, <4>1, <4>2, OtaLimits
    <3>3. AtRest(c) /\ Loading(c)
      BY <1>1, <2>3, <2>10, <2>11 DEF AtRest, Loading, PageKept, FullTo, Stored
    <3>4. OtaOK(c)
      BY <2>10, <3>3 DEF OtaOK
    <3> QED
      BY <2>3, <2>4, <2>10, <2>12, <3>2, <3>4 DEF FullTo
  <2>13. CASE ~AllBlocksReceived(noted)
    <3>1. NumBlocksReceived(noted) < size
      BY <1>2, <2>5, <2>6, <2>13 DEF AllBlocksReceived
    <3>2. PageKept(n)
      <4>1. n.offset <= n.page.base + NumBlocksReceived(n.page)
        BY <1>1, <1>2, <2>1, <2>3, <2>6, <2>7, <2>10
      <4>2. \A i \in n.page.received :
              n.page.base + i \in Offsets => Stored(n, n.page.base + i) # None
        BY <2>3, <2>8, <2>10 DEF Stored
      <4> QED
        BY <1>1, <2>3, <2>10, <2>13, <4>1, <4>2 DEF PageKept, FullTo, Stored
    <3>3. AtRest(n) /\ Loading(n)
      BY <1>1, <2>10, <2>11, <3>2 DEF AtRest, Loading, FullTo, Stored
    <3>4. OtaOK(n)
      BY <2>10, <3>3 DEF OtaOK
    <3>5. ASSUME offset = d.offset
          PROVE  FullTo(n, offset + 1) /\ offset + 1 < Blocks
                 /\ offset + 1 <= n.page.base + NumBlocksReceived(n.page)
      <4>1. k <= num
        BY <1>2, <2>1, <3>5
      <4>2. ASSUME NEW i \in 0 .. (k + 1) - 1  PROVE i \in got
        <5>1. CASE i = k
          BY <5>1 DEF got
        <5>2. CASE i # k
          <6>1. i \in 0 .. num - 1
            BY <1>2, <2>1, <4>1, <4>2, <5>2
          <6> QED
            BY <1>2, <6>1 DEF got
        <5> QED
          BY <5>1, <5>2
      <4>3. k + 1 \in 0 .. size
        BY <1>2, <2>1, <4>1
      <4>4. 0 .. (k + 1) - 1 \subseteq got
        BY <4>2
      <4>5. k + 1 <= NumBlocksReceived(noted)
        BY <2>6, <4>3, <4>4
      <4>6. /\ offset + 1 < Blocks
            /\ offset + 1 <= n.page.base + NumBlocksReceived(n.page)
        <5> DEFINE m == NumBlocksReceived(noted)
        <5>1. m \in Nat /\ m < size /\ k + 1 <= m
          BY <1>2, <2>6, <3>1, <4>5
        <5>2. n.page.base = d.page.base /\ NumBlocksReceived(n.page) = m
          BY <2>3, <2>10
        <5> HIDE DEF m
        <5>3. Blocks \in Nat
          BY OtaLimits
        <5> QED
          BY <1>2, <2>1, <5>1, <5>2, <5>3
      <4>7. ASSUME NEW b \in Offsets, b < offset + 1  PROVE Stored(n, b) # None
        <5>1. b = offset \/ b < offset
          BY <2>1, <4>7, OtaLimits
        <5> QED
          BY <1>1, <2>10, <3>5, <5>1 DEF FullTo, Stored
      <4> QED
        BY <4>6, <4>7 DEF FullTo
    <3> QED
      BY <2>3, <2>4, <2>10, <2>13, <3>4, <3>5, <1>4
  <2> QED
    BY <2>12, <2>13
<1> QED
  BY <1>1, <1>3, <1>4, OtaLimits

\* imageBlockResponseParse
LEMMA ImageBlockStep ==
  ASSUME NEW d, OtaOK(d), d.state = "DOWNLOAD", NEW m,
         m.offset \in Offsets, m.file \in VersionsFor(d.build)
  PROVE  OtaOK(ImageBlockResponse(d, m)) /\ Onward(d, ImageBlockResponse(d, m))
<1> DEFINE t == [d EXCEPT !.errors = 0, !.storage = WriteTempData(@, m.offset, m.file)]
           noted == NoteReceivedBlock(t, m.offset)
           delay == HasDelay(d.build)
           ignored == \/ ~ (d.usePageRequest /\ d.page.status = "WAITING")
                         /\ m.offset # d.offset
                      \/ m.file # d.file
           inPage == d.usePageRequest /\ d.page.status # "NONE"
<1>1. /\ DeviceTypes(d) /\ d.build \in AllBuilds /\ AtRest(d) /\ Fields(d)
      /\ d.page.status \in {"NONE", "WAITING", "RETRY"} /\ m.offset \in Nat
      /\ Onward(d, d)
  BY HasFields, OtaLimits DEF OtaOK, AtRest, DeviceTypes, OtaDevice, OtaPage, Onward, AsBuilt
<1>2. ImageBlockResponse(d, m) =
        IF ignored THEN d
        ELSE IF ~inPage THEN BlockStored(t, m.offset + 1, delay)
        ELSE IF noted.page.status = "WAITING" THEN noted
        ELSE IF noted.page.status = "NONE"
        THEN BlockStored(noted, noted.page.base + PageBlocks, delay)
        ELSE BlockStored(noted, m.offset + 1, TRUE)
  <2> HIDE DEF noted, t, delay
  <2> QED
    BY DEF ImageBlockResponse, noted, t, delay
<1>3. CASE ignored
  BY <1>1, <1>2, <1>3
<1>4. CASE ~ignored
  <2>1. m.file = d.file /\ d.file # None
    BY <1>1, <1>4, OtaLimits
  <2>2. ~UsesPages(d.build) => m.offset = d.offset
    BY <1>1, <1>4 DEF AtRest
  <2>3. /\ OtaOK(t) /\ t.state = "DOWNLOAD" /\ t.build = d.build
        /\ t.file = d.file /\ t.offset = d.offset /\ t.page = d.page
        /\ t.usePageRequest = d.usePageRequest
        /\ Stored(t, m.offset) # None
        /\ \A b \in Offsets : Stored(d, b) # None => Stored(t, b) # None
        /\ ~UsesPages(d.build) =>
             \A b \in Offsets : b < m.offset + 1 => Stored(t, b) = t.file
    <3>1. t = Wrote(d, m.offset, m.file)
      BY DEF Wrote
    <3> HIDE DEF t
    <3> QED
      BY <2>1, <2>2, <3>1, WroteStep
  <2> HIDE DEF t
  <2>4. AtRest(t) /\ Loading(t) /\ DeviceTypes(t)
    BY <2>3 DEF OtaOK, AtRest
  <2>5. CASE ~inPage
    <3>1. m.offset = d.offset /\ d.page.status = "NONE"
      BY <1>1, <1>4, <2>5 DEF AtRest, PageKept
    <3>2. ASSUME UsesPages(d.build)  PROVE FullTo(t, m.offset + 1)
      <4>1. FullTo(t, m.offset)
        BY <2>3, <2>4, <3>1, <3>2 DEF AtRest
      <4>2. ASSUME NEW b \in Offsets, b < m.offset + 1  PROVE b = m.offset \/ b < m.offset
        BY <1>1, <4>2, OtaLimits
      <4> QED
        BY <2>3, <4>1, <4>2 DEF FullTo
    <3>3. m.offset + 1 \in Nat /\ t.offset <= m.offset + 1
      BY <1>1, <2>3, <3>1
    <3>4. OtaOK(BlockStored(t, m.offset + 1, delay))
          /\ Onward(t, BlockStored(t, m.offset + 1, delay))
      <4> HIDE DEF delay
      <4> QED
        BY <2>1, <2>3, <2>4, <3>1, <3>2, <3>3, BlockStoredStep
    <3> QED
      BY <1>2, <1>4, <2>3, <2>5, <3>4 DEF Onward, AsBuilt
  <2>6. CASE inPage
    <3>1. UsesPages(d.build)
      BY <1>1, <2>6 DEF AtRest
    <3>2. /\ OtaOK(noted) /\ noted.state = "DOWNLOAD" /\ noted.build = d.build
          /\ noted.file = d.file
          /\ noted.page.status \in {d.page.status, "NONE"}
          /\ noted.page.status = "NONE" => FullTo(noted, noted.page.base + PageBlocks)
          /\ noted.page.status # "NONE" /\ m.offset = d.offset =>
               FullTo(noted, m.offset + 1) /\ m.offset + 1 < Blocks
               /\ m.offset + 1 <= noted.page.base + NumBlocksReceived(noted.page)
      BY <2>3, <2>6, <3>1, NotedStep
    <3> HIDE DEF noted, delay
    <3>3. AtRest(noted) /\ Loading(noted) /\ DeviceTypes(noted) /\ Fields(noted)
      BY <3>2, HasFields DEF OtaOK, AtRest
    <3>4. CASE noted.page.status = "WAITING"
      BY <1>2, <1>4, <2>6, <3>2, <3>3, <3>4 DEF Onward, AsBuilt
    <3>5. CASE noted.page.status = "NONE"
      <4>1. noted.page.base \in Nat
        BY <3>3 DEF DeviceTypes, OtaDevice, OtaPage
      <4>2. noted.page.base + PageBlocks \in Nat
        BY <4>1, OtaLimits
      <4>3. OtaOK(BlockStored(noted, noted.page.base + PageBlocks, delay))
            /\ Onward(noted, BlockStored(noted, noted.page.base + PageBlocks, delay))
        BY <2>1, <3>1, <3>2, <3>3, <3>5, <4>2, BlockStoredStep
      <4> QED
        BY <1>2, <1>4, <2>6, <3>2, <3>5, <4>3 DEF Onward, AsBuilt
    <3>6. CASE noted.page.status = "RETRY"
      <4>1. d.page.status = "RETRY" /\ m.offset = d.offset
        BY <1>4, <3>2, <3>6
      <4>2. m.offset + 1 \in Nat
        BY <1>1
      <4>3. OtaOK(BlockStored(noted, m.offset + 1, TRUE))
            /\ Onward(noted, BlockStored(noted, m.offset + 1, TRUE))
        BY <2>1, <3>1, <3>2, <3>3, <3>6, <4>1, <4>2, BlockStoredStep
      <4> QED
        BY <1>2, <1>4, <2>6, <3>2, <3>6, <4>3 DEF Onward, AsBuilt
    <3> QED
      BY <1>1, <3>2, <3>4, <3>5, <3>6
  <2> QED
    BY <2>5, <2>6
<1> QED
  BY <1>3, <1>4

\* startDownload: the storage is cleared, the page, if one is under way from a
\* download before, is not.
LEMMA StartStep ==
  ASSUME NEW d, OtaOK(d), NEW version \in FilesFor(d.build)
  PROVE  OtaOK(StartDownload(d, version)) /\ Onward(d, StartDownload(d, version))
<1> DEFINE s == ClearTempData(DeleteImage(d.storage))
           t == [d EXCEPT !.storage = s, !.file = version, !.offset = 0, !.errors = 0]
<1>1. /\ DeviceTypes(d) /\ d \in OtaDevice(d.build) /\ d.build \in AllBuilds
      /\ d.storage \in StorageFor(d.build) /\ AtRest(d)
  BY DEF OtaOK, AtRest, DeviceTypes, OtaDevice
<1>2. /\ s \in StorageFor(d.build) /\ s.hasFullImage = FALSE /\ s.savedOffset = 0
      /\ ~d.storage.hasFullImage => s.stored = d.storage.stored
  BY <1>1, ClearStep
<1>3. StartDownload(d, version) = ContinueImageDownload(t)
  BY <1>1 DEF StartDownload, OtaDevice
<1> HIDE DEF s
<1>4. t \in OtaDevice(d.build)
  BY <1>1, <1>2 DEF OtaDevice
<1>5. /\ t.build = d.build /\ t.offset = 0 /\ t.storage = s /\ t.file = version
      /\ t.page = d.page /\ t.usePageRequest = d.usePageRequest
  BY <1>1 DEF OtaDevice
<1> HIDE DEF t
<1>6. DeviceTypes(t) /\ Fields(t)
  BY <1>1, <1>4, <1>5, HasFields DEF DeviceTypes
<1>7. \A b \in Offsets : ~(b < 0)
  BY OtaLimits
<1>8. Blocks \in Nat /\ 0 < Blocks
  BY OtaLimits
<1>9. ASSUME UsesPages(d.build)  PROVE PageKept(t)
  <2>1. SUFFICES ASSUME d.page.status # "NONE"  PROVE PageKept(t)
    BY <1>5 DEF PageKept
  <2>2. PageKept(d) /\ s.stored = d.storage.stored /\ d.page.base \in Offsets
        /\ d.page \in OtaPage
    BY <1>1, <1>2, <1>9, <2>1 DEF AtRest, PageKept, OtaDevice
  <2>3. NumBlocksReceived(d.page) \in Nat /\ d.page.base \in Nat
    BY <2>2, PageCount, OtaLimits
  <2> QED
    BY <1>2, <1>5, <2>1, <2>2, <2>3 DEF PageKept, FullTo, Stored
<1>10. AtRest(t)
  BY <1>1, <1>2, <1>5, <1>6, <1>7, <1>9 DEF AtRest, FullTo
<1>11. Loading(t)
  BY <1>2, <1>5, <1>7, <1>8 DEF Loading
<1> QED
  BY <1>3, <1>5, <1>6, <1>10, <1>11, ContinueStep, LoadKept DEF Onward, AsBuilt

\* upgradeEndResponseParse
LEMMA UpgradeEndStep ==
  ASSUME NEW d, OtaOK(d), d.state = "WAITING_FOR_UPGRADE", NEW m
  PROVE  OtaOK(UpgradeEndResponse(d, m)) /\ Onward(d, UpgradeEndResponse(d, m))
<1> DEFINE state == IF m.upgrade = "NOW" THEN "COUNTDOWN" ELSE "WAITING_FOR_UPGRADE"
           t == [d EXCEPT !.state = state]
<1>1. /\ DeviceTypes(d) /\ d \in OtaDevice(d.build) /\ d.build \in AllBuilds
      /\ AtRest(d) /\ Loaded(d) /\ Fields(d) /\ Onward(d, d)
  BY HasFields DEF OtaOK, AtRest, DeviceTypes, Onward, AsBuilt
<1>2. UpgradeEndResponse(d, m) = IF m.file # d.file THEN d ELSE SetTimer(t, TRUE)
  BY <1>1 DEF UpgradeEndResponse, OtaDevice
<1>3. state \in {"COUNTDOWN", "WAITING_FOR_UPGRADE"}
  OBVIOUS
<1> HIDE DEF state
<1>4. t \in OtaDevice(d.build) /\ t.build = d.build /\ SameImage(d, t)
      /\ t.file = d.file /\ t.state = state
  BY <1>1, <1>3 DEF OtaDevice, States, SameImage
<1> HIDE DEF t
<1>5. DeviceTypes(t) /\ AtRest(t) /\ Loaded(t)
  BY <1>1, <1>4, SameAtRest DEF DeviceTypes
<1>6. OtaOK(t) /\ Fields(t)
  BY <1>3, <1>4, <1>5, HasFields DEF OtaOK
<1>7. OtaOK(SetTimer(t, TRUE)) /\ AsBuilt(t, SetTimer(t, TRUE))
      /\ SetTimer(t, TRUE).state = state
  BY <1>4, <1>5, <1>6, TimerTypes, SameOK, SendKept
<1> QED
  BY <1>1, <1>2, <1>3, <1>4, <1>7 DEF Onward, AsBuilt

\* defaultResponse
LEMMA DefaultStep ==
  ASSUME NEW d, OtaOK(d), NEW m
  PROVE  /\ OtaOK(DefaultResponse(d, m)) /\ AsBuilt(d, DefaultResponse(d, m))
         /\ Unscheduled(d) => Unscheduled(DefaultResponse(d, m))
<1> DEFINE page == [d.page EXCEPT !.status = "NONE"]
           t == [d EXCEPT !.page = page, !.usePageRequest = FALSE]
           f == DownloadAndVerifyFinish(d, "SERVER_ABORTED")
<1>1. /\ DeviceTypes(d) /\ d \in OtaDevice(d.build) /\ d.build \in AllBuilds
      /\ AtRest(d) /\ Fields(d) /\ AsBuilt(d, d)
  BY HasFields DEF OtaOK, AtRest, DeviceTypes, AsBuilt
<1>2. /\ OtaOK(f) /\ AsBuilt(d, f)
      /\ Unscheduled(d) => Unscheduled(f)
  BY <1>1, FinishStep, EndKept DEF Onward, Unscheduled, AsBuilt
<1>3. \/ DefaultResponse(d, m) \in {d, f}
      \/ /\ d.usePageRequest /\ d.page.status # "NONE"
         /\ DefaultResponse(d, m) = ContinueImageDownload(t)
  <2>1. [AbortPageRequest(d) EXCEPT !.usePageRequest = FALSE] = t
    BY <1>1 DEF AbortPageRequest, OtaDevice
  <2> HIDE DEF t, f
  <2> QED
    BY <2>1 DEF DefaultResponse, f
<1>4. ASSUME d.usePageRequest, d.page.status # "NONE"
      PROVE  OtaOK(ContinueImageDownload(t)) /\ Onward(d, ContinueImageDownload(t))
  <2>1. page \in OtaPage /\ page.status = "NONE"
    BY <1>1 DEF OtaDevice, OtaPage
  <2> HIDE DEF page
  <2>2. t \in OtaDevice(d.build)
    BY <1>1, <2>1 DEF OtaDevice
  <2>3. /\ t.build = d.build /\ t.offset = d.offset /\ t.storage = d.storage
        /\ t.page = page /\ ~t.usePageRequest
    BY <1>1 DEF OtaDevice
  <2> HIDE DEF t
  <2>4. UsesPages(d.build) /\ ~d.storage.hasFullImage /\ FullTo(d, d.offset)
    BY <1>1, <1>4 DEF AtRest, PageKept
  <2>5. DeviceTypes(t) /\ Fields(t)
    BY <1>1, <2>2, <2>3, HasFields DEF DeviceTypes
  <2>6. AtRest(t) /\ Loading(t)
    BY <2>1, <2>3, <2>4, <2>5 DEF AtRest, Loading, PageKept, FullTo, Stored
  <2> QED
    BY <2>3, <2>5, <2>6, ContinueStep, LoadKept DEF Onward, AsBuilt
<1> HIDE DEF f, t
<1> QED
  BY <1>1, <1>2, <1>3, <1>4 DEF Onward, Unscheduled

\* commandParse, for the answers a client of its build may get
LEMMA CommandStep ==
  ASSUME NEW d0, OtaOK(d0), Unscheduled(d0), NEW m \in AnswersFor(d0.build)
  PROVE  LET t == CommandParse(d0, m) IN OtaOK(t) /\ AsBuilt(d0, t) /\ Unscheduled(t)
<1> DEFINE d == [d0 EXCEPT !.waitingForResponse = FALSE]
<1>1. /\ DeviceTypes(d0) /\ d0 \in OtaDevice(d0.build) /\ d0.build \in AllBuilds
      /\ Fields(d0) /\ AsBuilt(d0, d0)
  BY HasFields DEF OtaOK, AtRest, DeviceTypes, AsBuilt
<1>2. d \in OtaDevice(d0.build) /\ d.build = d0.build /\ Unchanged(d0, d)
      /\ d.tick = d0.tick /\ d.state = d0.state
  BY <1>1 DEF OtaDevice, Unchanged, SameImage
<1>3. CommandParse(d0, m) =
        CASE d.state = "DISCOVER_SERVER" /\ m.is # "default" -> d0
          [] m.is = "default" -> DefaultResponse(d0, m)
          [] m.is = "notify" /\ d.state = "QUERY_NEXT_IMAGE" -> QueryNextImage(d, TRUE)
          [] m.is = "offer" /\ d.state = "QUERY_NEXT_IMAGE" ->
               QueryNextImageResponse(d, m.file)
          [] m.is = "data" /\ d.state = "DOWNLOAD" -> ImageBlockResponse(d, m)
          [] m.is = "wait" /\ d.state = "DOWNLOAD" -> SetTimer(d, TRUE)
          [] m.is = "end" /\ d.state = "WAITING_FOR_UPGRADE" -> UpgradeEndResponse(d, m)
          [] OTHER -> d
  BY DEF CommandParse
<1> HIDE DEF d
<1>4. DeviceTypes(d) /\ OtaOK(d) /\ AtRest(d) /\ Fields(d)
  BY <1>1, <1>2, SameOK, HasFields DEF DeviceTypes, OtaOK
<1>5. /\ OtaOK(DefaultResponse(d0, m)) /\ AsBuilt(d0, DefaultResponse(d0, m))
      /\ Unscheduled(DefaultResponse(d0, m))
  BY DefaultStep
<1>6. \A r : OtaOK(QueryNextImage(d, r)) /\ Onward(d, QueryNextImage(d, r))
  BY <1>4, QueryNextImageStep, EndKept
<1>7. ASSUME m.is = "offer"
      PROVE  OtaOK(QueryNextImageResponse(d, m.file))
             /\ Onward(d, QueryNextImageResponse(d, m.file))
  <2>1. m.file \in FilesFor(d.build)
    BY <1>2, <1>7 DEF AnswersFor
  <2> QED
    BY <1>4, <1>6, <2>1, StartStep DEF QueryNextImageResponse
<1>8. ASSUME m.is = "data", d.state = "DOWNLOAD"
      PROVE  OtaOK(ImageBlockResponse(d, m)) /\ Onward(d, ImageBlockResponse(d, m))
  <2>1. m.file \in VersionsFor(d.build) /\ m.offset \in Offsets
    BY <1>2, <1>8 DEF AnswersFor
  <2> QED
    BY <1>4, <1>8, <2>1, ImageBlockStep
<1>9. OtaOK(SetTimer(d, TRUE)) /\ AsBuilt(d, SetTimer(d, TRUE))
      /\ SetTimer(d, TRUE).state = d.state
  BY <1>4, TimerTypes, SameOK, SendKept
<1>10. d.state = "WAITING_FOR_UPGRADE" =>
         OtaOK(UpgradeEndResponse(d, m)) /\ Onward(d, UpgradeEndResponse(d, m))
  BY <1>4, UpgradeEndStep
<1> QED
  BY <1>1, <1>2, <1>3, <1>4, <1>5, <1>6, <1>7, <1>8, <1>9, <1>10
     DEF Onward, AsBuilt, Unscheduled

\* The cluster tick
LEMMA TickStep ==
  ASSUME NEW d0, OtaOK(d0), Unscheduled(d0), d0.tick, NEW good \in BOOLEAN
  PROVE  LET t == Tick(d0, good) IN OtaOK(t) /\ AsBuilt(d0, t) /\ Unscheduled(t)
<1> DEFINE e == [d0 EXCEPT !.tick = FALSE]
           retry == [e.page EXCEPT !.status = "RETRY"]
           d == IF e.page.status = "WAITING" THEN [e EXCEPT !.page = retry] ELSE e
           errors == d.errors + 1
           late == [d EXCEPT !.errors = errors, !.waitingForResponse = FALSE]
<1>1. /\ DeviceTypes(d0) /\ d0 \in OtaDevice(d0.build) /\ d0.build \in AllBuilds
      /\ Fields(d0)
  BY HasFields DEF OtaOK, AtRest, DeviceTypes
<1>2. d0.state # "DISCOVER_SERVER"
  BY DEF Unscheduled
<1>3. e \in OtaDevice(d0.build) /\ e.build = d0.build /\ Unchanged(d0, e)
  BY <1>1 DEF OtaDevice, Unchanged, SameImage
<1>4. PageRequestTimerExpired(e) = d
  BY <1>1 DEF PageRequestTimerExpired, OtaDevice
<1> HIDE DEF e
<1>5. DeviceTypes(e) /\ OtaOK(e) /\ e.page \in OtaPage /\ e.state = d0.state
  BY <1>1, <1>3, SameOK DEF DeviceTypes, OtaDevice, Unchanged
<1>6. DeviceTypes(d) /\ OtaOK(d) /\ d.build = d0.build /\ d.state = d0.state
      /\ d \in OtaDevice(d0.build)
  <2>1. CASE e.page.status = "WAITING"
    <3> DEFINE r == [e EXCEPT !.page = retry]
    <3>1. retry \in OtaPage /\ retry.base = e.page.base
          /\ retry.received = e.page.received
      BY <1>5 DEF OtaPage
    <3> HIDE DEF retry
    <3>2. r \in OtaDevice(d0.build)
      BY <1>3, <3>1 DEF OtaDevice
    <3>3. /\ r.build = e.build /\ r.state = e.state /\ r.offset = e.offset
          /\ r.file = e.file /\ r.storage = e.storage /\ r.page = retry
          /\ r.usePageRequest = e.usePageRequest
      BY <1>3 DEF OtaDevice
    <3> HIDE DEF r
    <3>4. DeviceTypes(r)
      BY <1>1, <1>3, <3>2, <3>3 DEF DeviceTypes
    <3>5. OtaOK(r)
      BY <1>5, <2>1, <3>1, <3>3, <3>4, PageStatus
    <3> QED
      BY <1>3, <1>5, <2>1, <3>2, <3>3, <3>4, <3>5 DEF r
  <2>2. CASE e.page.status # "WAITING"
    BY <1>3, <1>5, <2>2
  <2> QED
    BY <2>1, <2>2
<1>7. Tick(d0, good) =
        CASE d.waitingForResponse -> SetTimer(late, TRUE)
          [] ~ d.waitingForResponse /\ d.state = "QUERY_NEXT_IMAGE" ->
               QueryNextImage(d, TRUE)
          [] ~ d.waitingForResponse /\ d.state = "DOWNLOAD" -> ContinueImageDownload(d)
          [] ~ d.waitingForResponse /\ d.state = "VERIFY_IMAGE" ->
               DownloadAndVerifyFinish(d, IF good THEN "SUCCESS" ELSE "VERIFY_FAILED")
          [] ~ d.waitingForResponse /\ d.state = "WAITING_FOR_UPGRADE" ->
               IF d.errors >= UpgradeWaitThreshold
               THEN RunUpgrade(d, good) ELSE RequestUpgrade(d)
          [] ~ d.waitingForResponse /\ d.state = "COUNTDOWN" -> RunUpgrade(d, good)
  <2>1. [d EXCEPT !.errors = @ + 1, !.waitingForResponse = FALSE] = late
    OBVIOUS
  <2> HIDE DEF d, late
  <2> QED
    BY <1>4, <2>1 DEF Tick, e
<1> HIDE DEF d
<1>8. Fields(d) /\ AtRest(d) /\ d.state \in States /\ d.waitingForResponse \in BOOLEAN
  BY <1>6, HasFields DEF OtaOK, OtaDevice
<1>9. OtaOK(SetTimer(late, TRUE)) /\ Onward(d, SetTimer(late, TRUE))
  <2>0. errors \in Nat
    BY <1>6 DEF OtaDevice
  <2> HIDE DEF errors
  <2>1. late \in OtaDevice(d0.build) /\ late.build = d0.build /\ Unchanged(d, late)
    BY <1>6, <2>0 DEF OtaDevice, Unchanged, SameImage
  <2> HIDE DEF late
  <2>2. DeviceTypes(late) /\ OtaOK(late) /\ Fields(late)
    BY <1>1, <1>6, <2>1, SameOK, HasFields DEF DeviceTypes
  <2>3. OtaOK(SetTimer(late, TRUE)) /\ AsBuilt(late, SetTimer(late, TRUE))
        /\ SetTimer(late, TRUE).state = late.state
    BY <2>2, TimerTypes, SameOK, SendKept
  <2> QED
    BY <1>2, <1>6, <2>1, <2>3 DEF Onward, AsBuilt, Unchanged
<1>10. OtaOK(QueryNextImage(d, TRUE)) /\ Onward(d, QueryNextImage(d, TRUE))
  BY <1>8, QueryNextImageStep, EndKept
<1>11. d.state = "DOWNLOAD" =>
         OtaOK(ContinueImageDownload(d)) /\ Onward(d, ContinueImageDownload(d))
  BY <1>6, <1>8, ContinueStep, LoadKept DEF OtaOK
<1>12. ASSUME d.state = "VERIFY_IMAGE", NEW r \in {"SUCCESS", "VERIFY_FAILED"}
       PROVE  OtaOK(DownloadAndVerifyFinish(d, r))
              /\ Onward(d, DownloadAndVerifyFinish(d, r))
  <2>1. Loaded(d)
    BY <1>6, <1>12 DEF OtaOK
  <2> QED
    BY <1>6, <1>8, <1>12, <2>1, FinishStep, EndKept
<1>13. ASSUME d.state \in {"WAITING_FOR_UPGRADE", "COUNTDOWN"}
       PROVE  /\ OtaOK(RunUpgrade(d, good)) /\ AsBuilt(d, RunUpgrade(d, good))
              /\ Unscheduled(RunUpgrade(d, good))
              /\ OtaOK(RequestUpgrade(d)) /\ Onward(d, RequestUpgrade(d))
  <2>1. Loaded(d)
    BY <1>6, <1>13 DEF OtaOK
  <2> QED
    BY <1>8, <2>1, RunUpgradeStep, RunKept, RequestUpgradeStep, EndKept
<1> HIDE DEF late
<1> QED
  BY <1>2, <1>6, <1>7, <1>8, <1>9, <1>10, <1>11, <1>12, <1>13
     DEF Onward, AsBuilt, Unscheduled, States

-----------------------------------------------------------------------------
(* The steps.                                                              *)

Undisturbed == DisturbedBuilds \subseteq {"blocks"}

LEMMA OtaInit ==
  ASSUME Init
  PROVE  OtaInv
<1>1. PICK build \in Builds : device = NewDevice(build)
  BY DEF Init
<1>2. build \in AllBuilds /\ 1 \in VersionsFor(build)
  BY DownloadAssumption DEF DownloadAssumption, VersionsFor
<1>3. /\ NoPage \in OtaPage /\ NoPage.status = "NONE"
      /\ UsesPages(build) \in BOOLEAN
      /\ EmptyStorage \in StorageFor(build)
      /\ EmptyStorage.savedOffset = 0
      /\ \A b \in Offsets : EmptyStorage.stored[b] = None
  BY OtaLimits DEF NoPage, OtaPage, UsesPages, EmptyStorage, StorageFor, FilesFor
<1>4. device \in OtaDevice(build)
  BY <1>1, <1>2, <1>3 DEF NewDevice, OtaDevice, States, FilesFor
<1>5. /\ device.build = build /\ device.state = "DISCOVER_SERVER" /\ ~device.tick
      /\ device.offset = 0 /\ device.storage = EmptyStorage /\ device.page = NoPage
      /\ device.usePageRequest = UsesPages(build)
  BY <1>1 DEF NewDevice
<1>6. DeviceTypes(device) /\ FullTo(device, device.offset) /\ PageKept(device)
  BY <1>2, <1>3, <1>4, <1>5, OtaLimits DEF DeviceTypes, FullTo, PageKept
<1>7. OtaOK(device) /\ Unscheduled(device)
  BY <1>3, <1>5, <1>6, OtaLimits DEF OtaOK, AtRest, Fresh, Unscheduled, Stored
<1> QED
  BY <1>2, <1>5, <1>7, OtaLimits DEF Init, OtaInv, NotServing, FilesFor

\* The device is d now, and what it sent is on its way.
LEMMA BecomesStep ==
  ASSUME OtaInv, NEW d, OtaOK(d), Unscheduled(d), AsBuilt(device, d), Becomes(d)
  PROVE  /\ OtaOK(device') /\ Unscheduled(device)' /\ device'.build = device.build
         /\ toServer' \in Seq(CommandsFor(device.build))
<1> DEFINE sent == << >>
           t == [d EXCEPT !.out = sent]
<1>1. DeviceTypes(d) /\ d \in OtaDevice(d.build) /\ d.build \in AllBuilds
      /\ d.build = device.build
  BY DEF OtaOK, AtRest, DeviceTypes, AsBuilt
<1>2. sent \in Seq(CommandsFor(d.build))
  OBVIOUS
<1>3. device' = t /\ toServer' = toServer \o d.out
  BY DEF Becomes
<1> HIDE DEF sent
<1>6. t \in OtaDevice(d.build) /\ t.build = d.build
  BY <1>1, <1>2 DEF OtaDevice
<1>7. Unchanged(d, t) /\ t.tick = d.tick
  BY <1>1 DEF OtaDevice, Unchanged, SameImage
<1> HIDE DEF t
<1>4. OtaOK(t) /\ Unscheduled(t)
  BY <1>1, <1>6, <1>7, SameOK DEF DeviceTypes, Unscheduled, Unchanged
<1>5. toServer \o d.out \in Seq(CommandsFor(device.build))
  BY <1>1 DEF OtaInv, OtaDevice
<1> QED
  BY <1>1, <1>3, <1>4, <1>5, <1>6 DEF Unscheduled

LEMMA RespondsStep ==
  ASSUME OtaInv, NEW rs \in Seq(AnswersFor(device.build)), Responds(rs)
  PROVE  /\ toClient' \in Seq(AnswersFor(device.build))
         /\ lastSent' \in Seq(AnswersFor(device.build))
<1> DEFINE A == AnswersFor(device.build)
<1>1. toClient \in Seq(A) /\ lastSent \in Seq(A) /\ rs \in Seq(A)
  BY DEF OtaInv
<1> HIDE DEF A
<1>2. CASE rs = << >>
  BY <1>1, <1>2 DEF Responds, A
<1>3. CASE rs # << >>
  <2>1. Len(rs) \in DOMAIN rs
    BY <1>1, <1>3
  <2>2. rs[Len(rs)] \in A
    BY <1>1, <2>1
  <2> QED
    BY <1>1, <1>3, <2>2 DEF Responds, A
<1> QED
  BY <1>2, <1>3

\* What the server answers with
LEMMA AnswerTypes ==
  ASSUME NEW build
  PROVE  /\ \A f \in FilesFor(build) : [is |-> "offer", file |-> f] \in AnswersFor(build)
         /\ \A f \in VersionsFor(build), b \in Offsets : Data(f, b) \in AnswersFor(build)
         /\ \A to \in {"block", "page", "end"},
               status \in {"NO_IMAGE_AVAILABLE", "UNSUP", "FAILURE", "NOT_FOUND", "ABORT"} :
              Default(to, status) \in AnswersFor(build)
         /\ \A is \in {"wait", "notify"} : [is |-> is] \in AnswersFor(build)
         /\ \A f \in FilesFor(build), u \in {"NOW", "LATER"} :
              [is |-> "end", file |-> f, upgrade |-> u] \in AnswersFor(build)
<1>1. \A f \in FilesFor(build) : [is |-> "offer", file |-> f] \in AnswersFor(build)
  BY DEF AnswersFor
<1>2. \A f \in VersionsFor(build), b \in Offsets : Data(f, b) \in AnswersFor(build)
  BY DEF AnswersFor, Data
<1>3. \A to \in {"block", "page", "end"},
         status \in {"NO_IMAGE_AVAILABLE", "UNSUP", "FAILURE", "NOT_FOUND", "ABORT"} :
        Default(to, status) \in AnswersFor(build)
  BY DEF AnswersFor, Default
<1>4. \A is \in {"wait", "notify"} : [is |-> is] \in AnswersFor(build)
  BY DEF AnswersFor
<1>5. \A f \in FilesFor(build), u \in {"NOW", "LATER"} :
        [is |-> "end", file |-> f, upgrade |-> u] \in AnswersFor(build)
  BY DEF AnswersFor
<1> QED
  BY <1>1, <1>2, <1>3, <1>4, <1>5

ServingFor(build) == [file : FilesFor(build), base : Nat, sent : Nat]

LEMMA PageAfterTypes ==
  ASSUME NEW build, NEW page \in ServingFor(build)
  PROVE  PageAfterBlock(page) \in ServingFor(build)
         /\ NotServing \in ServingFor(build)
  BY OtaLimits DEF PageAfterBlock, NotServing, ServingFor, FilesFor

\* The server answers what it is asked.
LEMMA ServerHandlesStep ==
  ASSUME OtaInv, ServerHandles
  PROVE  OtaInv'
<1> DEFINE build == device.build
           m == Head(toServer)
<1>1. /\ toServer \in Seq(CommandsFor(build)) /\ toServer # << >>
      /\ toServer' = Tail(toServer) /\ UNCHANGED <<device, offered>>
      /\ offered \in VersionsFor(build) /\ serving \in ServingFor(build)
  BY DEF OtaInv, ServerHandles, ServingFor
<1>2. m \in CommandsFor(build) /\ toServer' \in Seq(CommandsFor(build))
  BY <1>1
<1>3. offered \in FilesFor(build) /\ None \in FilesFor(build)
      /\ \A v \in VersionsFor(build) : v \in FilesFor(build)
  BY <1>1 DEF FilesFor
<1> HIDE DEF m
<1>4. ASSUME QueryHandled(m)
      PROVE  /\ serving' \in ServingFor(build)
             /\ \E rs \in Seq(AnswersFor(build)) : Responds(rs)
  <2> DEFINE r == [is |-> "offer", file |-> IF offered > m.file THEN offered ELSE None]
  <2>1. r \in AnswersFor(build)
    BY <1>3, AnswerTypes
  <2>2. Responds(<<r>>) /\ serving' = serving
    BY <1>4 DEF QueryHandled
  <2> HIDE DEF r
  <2>3. <<r>> \in Seq(AnswersFor(build))
    BY <2>1
  <2> QED
    BY <1>1, <2>2, <2>3
<1>5. ASSUME BlockRequestHandled(m)
      PROVE  /\ serving' \in ServingFor(build)
             /\ \E rs \in Seq(AnswersFor(build)) : Responds(rs)
  <2> DEFINE r == IF m.file = offered /\ m.offset < Blocks
                  THEN Data(m.file, m.offset)
                  ELSE Default("block", "NO_IMAGE_AVAILABLE")
             w == [is |-> "wait"]
  <2>1. m.is = "block" /\ serving' = serving /\ (Responds(<<r>>) \/ Responds(<<w>>))
    BY <1>5 DEF BlockRequestHandled
  <2>2. m.offset \in Nat
    BY <1>2, <2>1 DEF CommandsFor
  <2>3. m.offset < Blocks => m.offset \in Offsets
    BY <2>2, OtaLimits
  <2>4. r \in AnswersFor(build) /\ w \in AnswersFor(build)
    BY <1>1, <2>3, AnswerTypes
  <2> HIDE DEF r, w
  <2>5. <<r>> \in Seq(AnswersFor(build)) /\ <<w>> \in Seq(AnswersFor(build))
    BY <2>4
  <2> QED
    BY <1>1, <2>1, <2>5
<1>6. ASSUME PageRequestHandled(m)
      PROVE  /\ serving' \in ServingFor(build)
             /\ \E rs \in Seq(AnswersFor(build)) : Responds(rs)
  <2> DEFINE page == [file |-> m.file, base |-> m.offset, sent |-> 0]
             status == CASE ~ servesPages -> "UNSUP"
                         [] servesPages /\ serving # NotServing -> "FAILURE"
                         [] OTHER -> "NOT_FOUND"
             x == Data(m.file, m.offset)
             y == Default("page", status)
  <2>1. /\ m.is = "page"
        /\ \/ /\ m.file = offered /\ Responds(<<x, x>>)
              /\ serving' = PageAfterBlock(page)
           \/ Responds(<<y>>) /\ serving' = serving
    BY <1>6 DEF PageRequestHandled
  <2>2. m.offset \in Offsets /\ m.offset \in Nat /\ m.file \in FilesFor(build)
    <3>1. m \in [is : {"page"}, file : FilesFor(build), offset : Offsets]
      BY <1>2, <2>1 DEF CommandsFor
    <3> QED
      BY <3>1, OtaLimits
  <2>3. page \in ServingFor(build)
    BY <2>2 DEF ServingFor
  <2>4. status \in {"UNSUP", "FAILURE", "NOT_FOUND"}
    OBVIOUS
  <2>5. m.file = offered => x \in AnswersFor(build)
    BY <1>1, <2>2, AnswerTypes
  <2>6. y \in AnswersFor(build)
    <3> HIDE DEF status
    <3> QED
      BY <2>4, AnswerTypes
  <2> HIDE DEF x, y, page
  <2>7. /\ <<y>> \in Seq(AnswersFor(build))
        /\ m.file = offered => <<x, x>> \in Seq(AnswersFor(build))
    BY <2>5, <2>6
  <2>8. PageAfterBlock(page) \in ServingFor(build)
    BY <2>3, PageAfterTypes
  <2> QED
    BY <1>1, <2>1, <2>7, <2>8
<1>7. ASSUME UpgradeEndHandled(m)
      PROVE  /\ serving' \in ServingFor(build)
             /\ \E rs \in Seq(AnswersFor(build)) : Responds(rs)
  <2> DEFINE x == [is |-> "end", file |-> m.file, upgrade |-> "NOW"]
             y == [is |-> "end", file |-> m.file, upgrade |-> "LATER"]
             z == Default("end", "ABORT")
  <2>1. /\ m.is = "end" /\ serving' = serving
        /\ Responds(<<x>>) \/ Responds(<<y>>) \/ Responds(<<z>>)
    BY <1>7 DEF UpgradeEndHandled
  <2>2. m.file \in FilesFor(build)
    BY <1>2, <2>1 DEF CommandsFor
  <2>3. x \in AnswersFor(build) /\ y \in AnswersFor(build) /\ z \in AnswersFor(build)
    BY <2>2, AnswerTypes
  <2> HIDE DEF x, y, z
  <2>4. /\ <<x>> \in Seq(AnswersFor(build)) /\ <<y>> \in Seq(AnswersFor(build))
        /\ <<z>> \in Seq(AnswersFor(build))
    BY <2>3
  <2> QED
    BY <1>1, <2>1, <2>4
<1>8. ASSUME FailureHandled(m)
      PROVE  /\ serving' \in ServingFor(build)
             /\ \E rs \in Seq(AnswersFor(build)) : Responds(rs)
  <2>1. << >> \in Seq(AnswersFor(build))
    OBVIOUS
  <2> QED
    BY <1>1, <1>8, <2>1 DEF FailureHandled
<1>9. /\ serving' \in ServingFor(build)
      /\ \E rs \in Seq(AnswersFor(build)) : Responds(rs)
  BY <1>4, <1>5, <1>6, <1>7, <1>8 DEF ServerHandles, m
<1>10. toClient' \in Seq(AnswersFor(build)) /\ lastSent' \in Seq(AnswersFor(build))
  BY <1>9, RespondsStep
<1> QED
  BY <1>1, <1>2, <1>9, <1>10 DEF OtaInv, ServingFor, Unscheduled

LEMMA ServerTickStep ==
  ASSUME OtaInv, ServerTick
  PROVE  OtaInv'
<1> DEFINE build == device.build
           offset == serving.base + serving.sent
           x == Data(serving.file, offset)
<1>1. /\ UNCHANGED <<device, offered, toServer>>
      /\ offered \in VersionsFor(build) /\ serving \in ServingFor(build)
      /\ \/ /\ serving.file = offered /\ offset < Blocks /\ Responds(<<x>>)
            /\ serving' = PageAfterBlock(serving)
         \/ Responds(<< >>) /\ serving' = NotServing
         \/ serving' = NotServing /\ UNCHANGED <<toClient, lastSent>>
  BY DEF OtaInv, ServerTick, ServingFor
<1>2. offset \in Nat
  BY <1>1 DEF ServingFor
<1> HIDE DEF offset
<1>3. serving.file = offered /\ offset < Blocks => x \in AnswersFor(build)
  <2>1. offset < Blocks => offset \in Offsets
    BY <1>2, OtaLimits
  <2> QED
    BY <1>1, <2>1, AnswerTypes
<1>4. serving' \in ServingFor(build)
  BY <1>1, PageAfterTypes
<1> HIDE DEF x
<1>5. /\ << >> \in Seq(AnswersFor(build))
      /\ serving.file = offered /\ offset < Blocks => <<x>> \in Seq(AnswersFor(build))
  BY <1>3
<1>6. toClient' \in Seq(AnswersFor(build)) /\ lastSent' \in Seq(AnswersFor(build))
  BY <1>1, <1>5, RespondsStep DEF OtaInv
<1> QED
  BY <1>1, <1>4, <1>6 DEF OtaInv, ServingFor, Unscheduled

\* An image replaced and a reboot are met by a client without pages alone.
LEMMA OtaStep ==
  ASSUME Undisturbed, OtaInv, [Next]_vars
  PROVE  OtaInv'
<1> DEFINE build == device.build
<1>1. /\ OtaOK(device) /\ Unscheduled(device) /\ build \in AllBuilds /\ AtRest(device)
      /\ Fields(device) /\ toClient \in Seq(AnswersFor(build))
      /\ toServer \in Seq(CommandsFor(build))
  BY HasFields DEF OtaInv, OtaOK, AtRest, DeviceTypes
<1>2. build \in DisturbedBuilds => ~UsesPages(build)
  BY DEF Undisturbed, UsesPages
<1>3. ASSUME OtaOK(device'), Unscheduled(device)', device'.build = build,
             toServer' \in Seq(CommandsFor(build)), UNCHANGED <<offered, serving, lastSent>>,
             toClient' \in Seq(AnswersFor(build))
      PROVE  OtaInv'
  BY <1>3 DEF OtaInv
<1>4. CASE DiscoversServer
  <2> DEFINE d == DetermineNextState(device)
  <2>1. OtaOK(d) /\ AsBuilt(device, d) /\ Unscheduled(d)
    BY <1>1, <1>4, DetermineStep, RunKept DEF DiscoversServer, Onward, Unscheduled
  <2>2. Becomes(d) /\ UNCHANGED <<offered, serving, lastSent, toClient>>
    BY <1>4 DEF DiscoversServer
  <2> HIDE DEF d
  <2> QED
    BY <1>1, <1>3, <2>1, <2>2, BecomesStep
<1>5. CASE ClientTick
  <2>1. PICK good \in BOOLEAN : Becomes(Tick(device, good))
    BY <1>5 DEF ClientTick
  <2>2. device.tick /\ UNCHANGED <<offered, serving, lastSent, toClient>>
    BY <1>5 DEF ClientTick
  <2> DEFINE d == Tick(device, good)
  <2>3. OtaOK(d) /\ AsBuilt(device, d) /\ Unscheduled(d)
    BY <1>1, <2>2, TickStep
  <2> HIDE DEF d
  <2> QED
    BY <1>1, <1>3, <2>1, <2>2, <2>3, BecomesStep DEF d
<1>6. CASE ClientReceives
  <2> DEFINE m == Head(toClient)
             d == CommandParse(device, m)
  <2>1. toClient # << >> /\ toClient' = Tail(toClient) /\ Becomes(d)
        /\ UNCHANGED <<offered, serving, lastSent>>
    BY <1>6 DEF ClientReceives
  <2>2. m \in AnswersFor(build) /\ toClient' \in Seq(AnswersFor(build))
    BY <1>1, <2>1
  <2> HIDE DEF m
  <2>3. OtaOK(d) /\ AsBuilt(device, d) /\ Unscheduled(d)
    BY <1>1, <2>2, CommandStep
  <2> HIDE DEF d
  <2> QED
    BY <1>3, <2>1, <2>2, <2>3, BecomesStep
<1>7. CASE DeviceReboots
  <2> DEFINE d == Reboot(device)
  <2>1. Becomes(d) /\ UNCHANGED <<offered, serving, lastSent, toClient>>
        /\ build \in DisturbedBuilds
    BY <1>7 DEF DeviceReboots
  <2>2. OtaOK(d) /\ AsBuilt(device, d) /\ Unscheduled(d)
    BY <1>1, <1>2, <2>1, RebootStep, RunKept
  <2> HIDE DEF d
  <2> QED
    BY <1>1, <1>3, <2>1, <2>2, BecomesStep
<1>8. CASE ImageReplaced
  <2>1. offered' \in VersionsFor(build)
    BY <1>1, <1>2, <1>8, OtaLimits DEF ImageReplaced
  <2> QED
    BY <1>8, <2>1 DEF ImageReplaced, OtaInv, Unscheduled
<1>9. CASE ImageNotify
  <2> DEFINE r == [is |-> "notify"]
  <2>1. r \in AnswersFor(build) /\ Responds(<<r>>)
        /\ UNCHANGED <<device, offered, serving, toServer>>
    BY <1>9, AnswerTypes DEF ImageNotify
  <2> HIDE DEF r
  <2>2. <<r>> \in Seq(AnswersFor(build))
    BY <2>1
  <2>3. toClient' \in Seq(AnswersFor(build)) /\ lastSent' \in Seq(AnswersFor(build))
    BY <2>1, <2>2, RespondsStep
  <2> QED
    BY <2>1, <2>3 DEF OtaInv, Unscheduled
<1>10. CASE Loses
  <2>1. /\ UNCHANGED <<device, offered, serving, lastSent>>
        /\ \/ toServer # << >> /\ toServer' = Tail(toServer) /\ UNCHANGED toClient
           \/ toClient # << >> /\ toClient' = Tail(toClient) /\ UNCHANGED toServer
    BY <1>10 DEF Loses
  <2>2. toServer' \in Seq(CommandsFor(build)) /\ toClient' \in Seq(AnswersFor(build))
    <3>1. CASE /\ toServer # << >> /\ toServer' = Tail(toServer) /\ UNCHANGED toClient
      BY <1>1, <3>1
    <3>2. CASE /\ toClient # << >> /\ toClient' = Tail(toClient) /\ UNCHANGED toServer
      BY <1>1, <3>2
    <3> QED
      BY <2>1, <3>1, <3>2
  <2> QED
    BY <1>1, <1>3, <2>1, <2>2 DEF Unscheduled
<1>11. CASE UNCHANGED vars
  BY <1>11 DEF vars, OtaInv, Unscheduled
<1> QED
  BY <1>4, <1>5, <1>6, <1>7, <1>8, <1>9, <1>10, <1>11, ServerHandlesStep, ServerTickStep
     DEF Next

-----------------------------------------------------------------------------
(* The theorems.                                                           *)

\* Whatever is lost, put off, aborted or repeated on the way, what the client
\* counts as stored is stored: the offset it asks for next has nothing missing
\* in front of it, a page under way is no further than its blocks, and by
\* blocks the offset kept over a reboot has one version in front of it
\* (ota-client.c, ota-client-page-request.c, ota-storage-simple-eeprom.c).
\* A client that asks for pages is taken to be let run, by an image that stays
\* the same: its blocks come in any order, and an offset saved past one that
\* was missed is gone on from.
THEOREM OtaInvariant ==
  ASSUME DisturbedBuilds \subseteq {"blocks"}
  PROVE  Spec => []OtaInv
<1>1. Init => OtaInv
  BY OtaInit
<1>2. OtaInv /\ [Next]_vars => OtaInv'
  BY OtaStep DEF Undisturbed
<1> QED
  BY <1>1, <1>2, PTL DEF Spec

\* An image a client has verified and asks to run is whole and of the version
\* it says it is, for images, pages, save rates and thresholds of every size.
THEOREM VerifiedIsWhole ==
  ASSUME DisturbedBuilds \subseteq {"blocks"}
  PROVE  Spec => []WholeImage
<1>1. OtaInv => WholeImage
  BY DEF OtaInv, OtaOK, Loaded, WholeImage, Stored
<1> QED
  BY <1>1, OtaInvariant, PTL
=============================================================================
