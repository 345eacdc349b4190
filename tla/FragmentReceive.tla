-------------------------- MODULE FragmentReceive --------------------------
(***************************************************************************)
(* The receiving half of app/framework/util/fragmentation.c: fragments of  *)
(* one message at a time are put together in a buffer; the others, and     *)
(* those beyond the present window, are dropped.  A fragment is one unit   *)
(* of the buffer.                                                          *)
(***************************************************************************)
EXTENDS Fragments, SequencesExt

CONSTANTS
  MaxReceived, \* EMBER_AF_FRAGMENTATION_MAXIMUM_RECEIVED_FRAGMENTS
  BufferSize   \* EMBER_AF_FRAGMENT_BUFFER_SIZE

ASSUME FragmentReceiveAssumption == MaxReceived \in Nat /\ BufferSize \in Nat

VARIABLES
  rx,          \* the rxFragment... variables and the buffer
  delivered    \* what was passed on: the message and what it was made of

recvVars == <<rx, delivered>>

Bits == 0 .. 7

\* setFragmentMask: the bits above the window, or above the last fragment
MaskAt(base, expected) ==
  {b \in Bits : b >= IF expected < base + Window THEN expected % Window
                                                  ELSE Window}

Idle == [source |-> NoMessage, base |-> 0, expected |-> Byte - 1, received |-> 0,
         mask |-> MaskAt(0, Byte - 1), stored |-> {}, buffer |-> <<>>]

RecvTypeOK ==
  /\ rx.source \in Message \cup {NoMessage}
  /\ rx.base \in 0 .. Byte - 1 /\ rx.expected \in 0 .. Byte - 1
  /\ rx.received \in 0 .. Byte - 1 /\ rx.mask \subseteq Bits
  /\ rx.stored \subseteq 0 .. Byte - 1
  /\ rx.buffer \in Seq(0 .. Byte - 1) /\ Len(rx.buffer) <= BufferSize

RecvInit == rx = Idle /\ delivered = {}

-----------------------------------------------------------------------------

\* Fragment i of m arrives while r is received.  A first fragment ...
Begun(r, m, i) ==
  IF r.source = NoMessage /\ i < Window THEN [Idle EXCEPT !.source = m] ELSE r

\* ... the first one beyond a window that is complete ...
Advanced(r, i) ==
  IF r.mask = Bits /\ r.base + Window <= i
    THEN LET base == (r.base + Window) % Byte IN
           [r EXCEPT !.base = base, !.mask = MaskAt(base, r.expected)]
    ELSE r

\* ... fragment 0, which says how many there are, before or after others
Counted(r, m, i) ==
  IF i = 0 THEN [r EXCEPT !.expected = m.n,
                          !.mask = IF m.n < Window THEN MaskAt(r.base, m.n)
                                                     ELSE @]
  ELSE r

\* storeRxFragment: the buffer holds the fragments in order, without gaps
PlaceOf(r, i) == Cardinality({j \in r.stored : j < i}) + 1
FirstUnits(s, n) == SubSeq(s, 1, IF Len(s) < n THEN Len(s) ELSE n)
Store(r, i) ==
  [r EXCEPT !.received = (@ + 1) % Byte,
            !.stored = @ \cup {i},
            !.buffer = FirstUnits(InsertAt(@, PlaceOf(r, i), i), BufferSize)]

Bit(i) == i % Window

\* mutant: a fragment received again is counted again
Marked_CountsAgain(r, i, new) == [Store(r, i) EXCEPT !.mask = @ \cup {Bit(i)}]
Marked(r, i, new) ==
  [(IF new THEN Store(r, i) ELSE r) EXCEPT !.mask = @ \cup {Bit(i)}]

TooMuch(r, m, i, new) == \/ i = 0 /\ m.n > MaxReceived
                         \/ new /\ PlaceOf(r, i) > BufferSize

\* The receiver after fragment i of m, or as much of it as the drops leave.
\* Whether i is new is read before fragment 0 sets the mask again.
After(m, i) ==
  LET begun == Begun(rx, m, i)
      advanced == Advanced(begun, i)
      new == Bit(i) \notin advanced.mask
      counted == Counted(advanced, m, i) IN
    IF begun.source # m THEN begun
    ELSE IF advanced.base + Window <= i THEN advanced
    ELSE IF TooMuch(counted, m, i, new)
           THEN [counted EXCEPT !.source = NoMessage]
    ELSE Marked(counted, i, new)

\* Fragment i of m belongs to the present window and is not too much
Kept(m, i) == After(m, i).source = m /\ i < After(m, i).base + Window

\* A reply acknowledges, by their numbers, the fragments of the mask
Replies(m, i) ==
  LET r == After(m, i) IN
    /\ Kept(m, i)
    /\ i = r.expected - 1 \/ r.mask \cup (0 .. Bit(i) - 1) = Bits
Acknowledged(m, i) ==
  LET r == After(m, i) IN {r.base + b : b \in r.mask \cap (0 .. Window - 1)}

Whole(m, i) == /\ Kept(m, i)
               /\ After(m, i).received = After(m, i).expected
ContentOf(r) ==
  FirstUnits(r.buffer, Cardinality({j \in r.stored : j < r.expected}))

\* emAfFragmentationIncomingMessage
IncomingMessage(m, i) ==
  /\ rx' = IF Whole(m, i) THEN [After(m, i) EXCEPT !.source = NoMessage]
                          ELSE After(m, i)
  /\ delivered' = IF Whole(m, i)
                    THEN delivered \cup
                           {[msg |-> m, content |-> ContentOf(After(m, i))]}
                    ELSE delivered

\* emAfFragmentationAbortReception, when the event of that name runs
AbortReception ==
  /\ rx.source # NoMessage
  /\ rx' = [rx EXCEPT !.source = NoMessage]
  /\ UNCHANGED delivered

-----------------------------------------------------------------------------

InOrder(n) == [k \in 1 .. n |-> k - 1]

\* A message passed on is the whole message, every fragment at its place.
WholeMessages == \A d \in delivered : d.content = InOrder(d.msg.n)
=============================================================================
