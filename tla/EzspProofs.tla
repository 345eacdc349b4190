----------------------------- MODULE EzspProofs -----------------------------
(***************************************************************************)
(* Proofs about the host's side of EZSP over the UART, for receive pools   *)
(* of every size and any number of commands, callbacks and failures.       *)
(***************************************************************************)
EXTENDS Ezsp, SequenceTheorems, FiniteSetTheorems, TLAPS

\* The callbacks and the responses among the frames of u
CallbacksOf(u) == {k \in DOMAIN u : Async(u[k])}
ResponsesOf(u) == {k \in DOMAIN u : ~Async(u[k])}

\* The callbacks of u are those after the first to the last, in order
Numbered(u, first, last) ==
  /\ \A k \in CallbacksOf(u) : u[k].n \in first + 1 .. last
  /\ \A m \in first + 1 .. last : \E k \in CallbacksOf(u) : u[k].n = m
  /\ \A j, k \in CallbacksOf(u) : j < k => u[j].n < u[k].n

\* The commands q on their way and the responses of u: at most one of both,
\* that of command n, and none when no command is being sent.
OneCommand(u, q, sends, n) ==
  /\ ~sends => q = <<>> /\ ResponsesOf(u) = {}
  /\ \A k \in ResponsesOf(u) : u[k].n = n
  /\ \A k \in DOMAIN q : q[k] = n
  /\ Len(q) <= 1 /\ (q # <<>> => ResponsesOf(u) = {})
  /\ \A j, k \in ResponsesOf(u) : j = k

\* Callbacks have the numbers of callbacks that were made.
MadeOnly(u) == \A k \in CallbacksOf(u) : u[k].n \in 1 .. MaxCallbacks

\* What was dispatched: the callbacks after the first, in order
InOrder(s, first) == \A k \in DOMAIN s : s[k] = first + k

\* A frame partly read into a buffer has its place in the pool.
RoomForPart == Free(rxQueue, reading) >= 0

Session ==
  ~ncpNeedsResetAndInit =>
    /\ InOrder(dispatched, before) /\ before + Len(dispatched) <= callbacks
    /\ Numbered(Unread, before + Len(dispatched), callbacks)
    /\ OneCommand(Unread, toNcp, sendingCommand, commands)

EzspInv ==
  /\ EzspTypeOK /\ RoomForPart
  /\ MadeOnly(Unread)
  /\ sendingCommand => waitingForResponse
  /\ Session

-----------------------------------------------------------------------------
(* Sequences of frames from which one is taken.                            *)

\* Where in u the j-th of the others is, once the i-th was taken
Skipping(i, j) == IF j < i THEN j ELSE j + 1

\* v is u without its i-th
Without(v, u, i) ==
  /\ Len(v) = Len(u) - 1
  /\ \A j \in 1 .. Len(u) - 1 : v[j] = u[Skipping(i, j)]

\* RemoveAt of the community modules does just that.
LEMMA RemoveAtElements ==
  ASSUME NEW S, NEW s \in Seq(S), NEW i \in 1 .. Len(s)
  PROVE  RemoveAt(s, i) \in Seq(S) /\ Without(RemoveAt(s, i), s, i)
<1> DEFINE a == SubSeq(s, 1, i - 1)
           b == SubSeq(s, i + 1, Len(s))
<1>1. Len(s) \in Nat /\ \A j \in 1 .. Len(s) : s[j] \in S
  BY ElementOfSeq, LenProperties
<1>2. /\ a \in Seq(S) /\ Len(a) = i - 1
      /\ \A j \in 1 .. i - 1 : a[j] = s[j]
  <2>1. /\ 1 \in Int /\ i - 1 \in Int /\ \A j \in 1 .. i - 1 : s[j] \in S
    BY <1>1
  <2>2. /\ a \in Seq(S)
        /\ Len(a) = IF 1 <= i - 1 THEN (i - 1) - 1 + 1 ELSE 0
        /\ \A j \in 1 .. (i - 1) - 1 + 1 : a[j] = s[1 + j - 1]
    BY <2>1, SubSeqProperties
  <2> QED
    BY <1>1, <2>2
<1>3. /\ b \in Seq(S) /\ Len(b) = Len(s) - i
      /\ \A j \in 1 .. Len(s) - i : b[j] = s[i + j]
  <2>1. /\ i + 1 \in Int /\ Len(s) \in Int
        /\ \A j \in i + 1 .. Len(s) : s[j] \in S
    BY <1>1
  <2>2. /\ b \in Seq(S)
        /\ Len(b) = IF i + 1 <= Len(s) THEN Len(s) - (i + 1) + 1 ELSE 0
        /\ \A j \in 1 .. Len(s) - (i + 1) + 1 : b[j] = s[(i + 1) + j - 1]
    BY <2>1, SubSeqProperties
  <2> QED
    BY <1>1, <2>2
<1>4. RemoveAt(s, i) = a \o b
  BY DEF RemoveAt
<1> HIDE DEF a, b
<1>5. /\ a \o b \in Seq(S) /\ Len(a \o b) = Len(a) + Len(b)
      /\ \A j \in 1 .. Len(a) + Len(b) :
           (a \o b)[j] = IF j <= Len(a) THEN a[j] ELSE b[j - Len(a)]
  BY <1>2, <1>3, ConcatProperties
<1>6. ASSUME NEW j \in 1 .. Len(s) - 1
      PROVE  (a \o b)[j] = s[Skipping(i, j)]
  <2>1. CASE j < i
    BY <1>1, <1>2, <1>3, <1>5, <2>1 DEF Skipping
  <2>2. CASE ~(j < i)
    <3>1. j - (i - 1) \in 1 .. Len(s) - i /\ i + (j - (i - 1)) = j + 1
      BY <1>1, <2>2
    <3>2. (a \o b)[j] = b[j - (i - 1)]
      BY <1>1, <1>2, <1>3, <1>5, <2>2
    <3> QED
      BY <1>3, <2>2, <3>1, <3>2 DEF Skipping
  <2> QED
    BY <2>1, <2>2
<1> QED
  BY <1>1, <1>2, <1>3, <1>4, <1>5, <1>6 DEF Without

\* Joined to what follows it, it is still without the i-th.
LEMMA JoinedWithout ==
  ASSUME NEW S, NEW s \in Seq(S), NEW t \in Seq(S), NEW i \in 1 .. Len(s)
  PROVE  Without(RemoveAt(s, i) \o t, s \o t, i)
<1> DEFINE r == RemoveAt(s, i)
<1>1. r \in Seq(S) /\ Without(r, s, i)
  BY RemoveAtElements
<1> HIDE DEF r
<1>2. Len(s) \in Nat /\ Len(t) \in Nat /\ Len(r) = Len(s) - 1
  BY <1>1, LenProperties DEF Without
<1>3. /\ r \o t \in Seq(S) /\ Len(r \o t) = Len(r) + Len(t)
      /\ \A j \in 1 .. Len(r) + Len(t) :
           (r \o t)[j] = IF j <= Len(r) THEN r[j] ELSE t[j - Len(r)]
  BY <1>1, ConcatProperties
<1>4. /\ s \o t \in Seq(S) /\ Len(s \o t) = Len(s) + Len(t)
      /\ \A j \in 1 .. Len(s) + Len(t) :
           (s \o t)[j] = IF j <= Len(s) THEN s[j] ELSE t[j - Len(s)]
  BY ConcatProperties
<1>5. ASSUME NEW j \in 1 .. Len(s \o t) - 1
      PROVE  (r \o t)[j] = (s \o t)[Skipping(i, j)]
  <2>1. CASE j < i
    <3>1. j \in 1 .. Len(s) - 1 /\ Skipping(i, j) = j
      BY <1>2, <2>1 DEF Skipping
    <3>2. r[j] = s[j]
      BY <1>1, <3>1 DEF Without
    <3> QED
      BY <1>2, <1>3, <1>4, <3>1, <3>2
  <2>2. CASE ~(j < i) /\ j <= Len(r)
    <3>1. j \in 1 .. Len(s) - 1 /\ Skipping(i, j) = j + 1
      BY <1>2, <2>2 DEF Skipping
    <3>2. r[j] = s[j + 1]
      BY <1>1, <3>1 DEF Without
    <3> QED
      BY <1>2, <1>3, <1>4, <2>2, <3>1, <3>2
  <2>3. CASE ~(j <= Len(r))
    <3>1. Skipping(i, j) = j + 1 /\ j - Len(r) = (j + 1) - Len(s)
      BY <1>2, <2>3 DEF Skipping
    <3> QED
      BY <1>2, <1>3, <1>4, <2>3, <3>1
  <2> QED
    BY <2>1, <2>2, <2>3
<1>6. Len(r \o t) = Len(s \o t) - 1
  BY <1>2, <1>3, <1>4
<1>7. Without(r \o t, s \o t, i)
  BY <1>5, <1>6 DEF Without
<1> QED
  BY <1>7 DEF r

\* The others keep their order, and none is left out.
LEMMA SkippingIsIncreasing ==
  ASSUME NEW n \in Nat, NEW i \in 1 .. n
  PROVE  /\ \A j \in 1 .. n - 1 : Skipping(i, j) \in 1 .. n /\ Skipping(i, j) # i
         /\ \A j, k \in 1 .. n - 1 : j < k => Skipping(i, j) < Skipping(i, k)
         /\ \A k \in 1 .. n : k # i => \E j \in 1 .. n - 1 : Skipping(i, j) = k
<1>1. ASSUME NEW k \in 1 .. n, k # i
      PROVE  \E j \in 1 .. n - 1 : Skipping(i, j) = k
  <2>1. CASE k < i
    <3>1. k \in 1 .. n - 1 /\ Skipping(i, k) = k
      BY <2>1 DEF Skipping
    <3> QED
      BY <3>1
  <2>2. CASE k > i
    <3>1. k - 1 \in 1 .. n - 1 /\ Skipping(i, k - 1) = k
      BY <2>2 DEF Skipping
    <3> QED
      BY <3>1
  <2> QED
    BY <1>1, <2>1, <2>2
<1> QED
  BY <1>1 DEF Skipping

LEMMA FrameFields ==
  ASSUME NEW u \in Seq(Frame)
  PROVE  /\ Len(u) \in Nat /\ DOMAIN u = 1 .. Len(u)
         /\ \A k \in 1 .. Len(u) : u[k] \in Frame /\ u[k].n \in Nat
<1>1. Len(u) \in Nat /\ DOMAIN u = 1 .. Len(u)
  BY LenProperties
<1>2. ASSUME NEW k \in 1 .. Len(u)  PROVE u[k] \in Frame /\ u[k].n \in Nat
  <2>1. u[k] \in Frame
    BY ElementOfSeq
  <2> QED
    BY <2>1 DEF Frame
<1> QED
  BY <1>1, <1>2

\* Taking a response leaves the callbacks numbered.
LEMMA ResponseTaken ==
  ASSUME NEW u \in Seq(Frame), NEW v \in Seq(Frame), NEW i \in 1 .. Len(u),
         Without(v, u, i), ~Async(u[i]), NEW a \in Nat, NEW b \in Nat,
         Numbered(u, a, b)
  PROVE  Numbered(v, a, b)
<1> DEFINE n == Len(u)
<1>1. /\ n \in Nat /\ DOMAIN u = 1 .. n
      /\ DOMAIN v = 1 .. n - 1
      /\ \A j \in 1 .. n - 1 : v[j] = u[Skipping(i, j)]
      /\ \A k \in 1 .. n : u[k].n \in Nat
  BY FrameFields DEF Without
<1>2. /\ i \in 1 .. n
      /\ \A j \in 1 .. n - 1 : Skipping(i, j) \in 1 .. n /\ Skipping(i, j) # i
      /\ \A j, k \in 1 .. n - 1 : j < k => Skipping(i, j) < Skipping(i, k)
      /\ \A k \in 1 .. n : k # i => \E j \in 1 .. n - 1 : Skipping(i, j) = k
  BY <1>1, SkippingIsIncreasing
<1> HIDE DEF n
<1>3. \A j \in CallbacksOf(v) : j \in 1 .. n - 1 /\ Skipping(i, j) \in CallbacksOf(u)
  BY <1>1, <1>2 DEF CallbacksOf
<1>4. \A k \in CallbacksOf(v) : v[k].n \in a + 1 .. b
  BY <1>1, <1>3 DEF Numbered
<1>5. ASSUME NEW m \in a + 1 .. b
      PROVE  \E k \in CallbacksOf(v) : v[k].n = m
  <2>1. PICK k \in CallbacksOf(u) : u[k].n = m
    BY DEF Numbered
  <2>2. k \in 1 .. n /\ k # i /\ Async(u[k])
    BY <1>1, <2>1 DEF CallbacksOf
  <2>3. PICK j \in 1 .. n - 1 : Skipping(i, j) = k
    BY <1>2, <2>2
  <2>4. v[j] = u[k] /\ j \in CallbacksOf(v)
    BY <1>1, <2>2, <2>3 DEF CallbacksOf
  <2> QED
    BY <2>1, <2>4
<1>6. ASSUME NEW j \in CallbacksOf(v), NEW k \in CallbacksOf(v), j < k
      PROVE  v[j].n < v[k].n
  <2>1. Skipping(i, j) < Skipping(i, k)
    BY <1>2, <1>3, <1>6
  <2>2. u[Skipping(i, j)].n < u[Skipping(i, k)].n
    BY <1>3, <2>1 DEF Numbered
  <2> QED
    BY <1>1, <1>3, <2>2
<1> QED
  BY <1>4, <1>5, <1>6 DEF Numbered

\* The callback at the head is the next, and leaves those after it.
LEMMA CallbackTaken ==
  ASSUME NEW u \in Seq(Frame), NEW v \in Seq(Frame), u # <<>>,
         Without(v, u, 1), Async(u[1]), NEW a \in Nat, NEW b \in Nat,
         Numbered(u, a, b)
  PROVE  u[1].n = a + 1 /\ a + 1 <= b /\ Numbered(v, a + 1, b)
<1> DEFINE n == Len(u)
<1>1. /\ n \in Nat /\ n > 0 /\ DOMAIN u = 1 .. n
      /\ DOMAIN v = 1 .. n - 1
      /\ \A k \in 1 .. n : u[k].n \in Nat
  BY FrameFields, EmptySeq DEF Without
<1>2. \A j \in 1 .. n - 1 : v[j] = u[j + 1]
  BY <1>1 DEF Without, Skipping
<1> HIDE DEF n
<1>3. 1 \in CallbacksOf(u)
  BY <1>1 DEF CallbacksOf
<1>4. u[1].n \in a + 1 .. b
  BY <1>3 DEF Numbered
<1>5. ASSUME NEW k \in CallbacksOf(u), k # 1  PROVE u[1].n < u[k].n
  <2>1. 1 < k
    BY <1>1, <1>5 DEF CallbacksOf
  <2> QED
    BY <1>3, <2>1 DEF Numbered
<1>6. u[1].n = a + 1
  <2>1. PICK k \in CallbacksOf(u) : u[k].n = a + 1
    BY <1>4 DEF Numbered
  <2> QED
    BY <1>4, <1>5, <2>1
<1>7. \A j \in CallbacksOf(v) : /\ j \in 1 .. n - 1 /\ j + 1 \in CallbacksOf(u)
                                /\ v[j] = u[j + 1]
  BY <1>1, <1>2 DEF CallbacksOf
<1>8. ASSUME NEW j \in CallbacksOf(v)
      PROVE  v[j].n \in (a + 1) + 1 .. b
  <2>1. u[j + 1].n \in a + 1 .. b /\ u[1].n < u[j + 1].n
    BY <1>5, <1>7 DEF Numbered
  <2> QED
    BY <1>6, <1>7, <2>1
<1>9. ASSUME NEW m \in (a + 1) + 1 .. b
      PROVE  \E k \in CallbacksOf(v) : v[k].n = m
  <2>1. PICK k \in CallbacksOf(u) : u[k].n = m
    BY DEF Numbered
  <2>2. k \in 2 .. n /\ Async(u[k])
    BY <1>1, <1>6, <2>1 DEF CallbacksOf
  <2>3. k - 1 \in 1 .. n - 1 /\ (k - 1) + 1 = k
    BY <1>1, <2>2
  <2>4. v[k - 1] = u[k] /\ k - 1 \in CallbacksOf(v)
    BY <1>1, <1>2, <2>2, <2>3 DEF CallbacksOf
  <2> QED
    BY <2>1, <2>4
<1>10. ASSUME NEW j \in CallbacksOf(v), NEW k \in CallbacksOf(v), j < k
       PROVE  v[j].n < v[k].n
  <2>1. j + 1 < k + 1
    BY <1>7, <1>10
  <2> QED
    BY <1>7, <2>1 DEF Numbered
<1> QED
  BY <1>4, <1>6, <1>8, <1>9, <1>10 DEF Numbered

\* A frame that arrives: behind all others
LEMMA Arrived ==
  ASSUME NEW u \in Seq(Frame), NEW f \in Frame
  PROVE  /\ Append(u, f) \in Seq(Frame)
         /\ DOMAIN Append(u, f) = 1 .. Len(u) + 1
         /\ \A k \in 1 .. Len(u) : Append(u, f)[k] = u[k]
         /\ Append(u, f)[Len(u) + 1] = f
<1>1. Append(u, f) \in Seq(Frame) /\ Len(Append(u, f)) = Len(u) + 1
  BY AppendProperties
<1>2. DOMAIN Append(u, f) = 1 .. Len(u) + 1
  BY <1>1, FrameFields
<1> QED
  BY <1>1, <1>2, AppendProperties

LEMMA ResponseArrived ==
  ASSUME NEW u \in Seq(Frame), NEW f \in Frame, ~Async(f),
         NEW a \in Nat, NEW b \in Nat
  PROVE  /\ CallbacksOf(Append(u, f)) = CallbacksOf(u)
         /\ ResponsesOf(Append(u, f)) = ResponsesOf(u) \cup {Len(u) + 1}
         /\ Numbered(u, a, b) => Numbered(Append(u, f), a, b)
<1> DEFINE v == Append(u, f)
<1>1. /\ Len(u) \in Nat /\ DOMAIN u = 1 .. Len(u)
      /\ DOMAIN v = 1 .. Len(u) + 1
      /\ \A k \in 1 .. Len(u) : v[k] = u[k]
      /\ v[Len(u) + 1] = f
  BY Arrived, FrameFields
<1> HIDE DEF v
<1>2. /\ CallbacksOf(v) = CallbacksOf(u)
      /\ ResponsesOf(v) = ResponsesOf(u) \cup {Len(u) + 1}
  BY <1>1 DEF CallbacksOf, ResponsesOf
<1>3. \A k \in CallbacksOf(u) : v[k] = u[k]
  BY <1>1 DEF CallbacksOf
<1>4. Numbered(u, a, b) => Numbered(v, a, b)
  BY <1>2, <1>3 DEF Numbered
<1> QED
  BY <1>2, <1>4 DEF v

LEMMA CallbackArrived ==
  ASSUME NEW u \in Seq(Frame), NEW f \in Frame, Async(f),
         NEW a \in Nat, NEW b \in Nat, f.n = b + 1, a <= b
  PROVE  /\ CallbacksOf(Append(u, f)) = CallbacksOf(u) \cup {Len(u) + 1}
         /\ ResponsesOf(Append(u, f)) = ResponsesOf(u)
         /\ Numbered(u, a, b) => Numbered(Append(u, f), a, b + 1)
<1> DEFINE v == Append(u, f)
           last == Len(u) + 1
<1>1. /\ Len(u) \in Nat /\ DOMAIN u = 1 .. Len(u)
      /\ DOMAIN v = 1 .. last
      /\ \A k \in 1 .. Len(u) : v[k] = u[k] /\ k < last
      /\ v[last] = f
  BY Arrived, FrameFields
<1>2. last \in Nat /\ last = Len(u) + 1
  BY <1>1
<1> HIDE DEF v, last
<1>3. /\ CallbacksOf(v) = CallbacksOf(u) \cup {last}
      /\ ResponsesOf(v) = ResponsesOf(u)
  BY <1>1, <1>2 DEF CallbacksOf, ResponsesOf
<1>4. \A k \in CallbacksOf(u) : v[k] = u[k] /\ k \in Nat /\ k < last
  BY <1>1 DEF CallbacksOf
<1>5. ASSUME Numbered(u, a, b)  PROVE Numbered(v, a, b + 1)
  <2>1. \A k \in CallbacksOf(v) : v[k].n \in a + 1 .. b + 1
    BY <1>1, <1>3, <1>4, <1>5 DEF Numbered
  <2>2. ASSUME NEW m \in a + 1 .. b + 1
        PROVE  \E k \in CallbacksOf(v) : v[k].n = m
    <3>1. CASE m = b + 1
      BY <1>1, <1>3, <3>1
    <3>2. CASE m # b + 1
      <4>1. m \in a + 1 .. b
        BY <3>2
      <4> QED
        BY <1>3, <1>4, <1>5, <4>1 DEF Numbered
    <3> QED
      BY <3>1, <3>2
  <2>3. ASSUME NEW j \in CallbacksOf(v), NEW k \in CallbacksOf(v), j < k
        PROVE  v[j].n < v[k].n
    <3>1. j \in CallbacksOf(u)
      BY <1>2, <1>3, <1>4, <2>3
    <3>2. CASE k \in CallbacksOf(u)
      BY <1>4, <1>5, <2>3, <3>1, <3>2 DEF Numbered
    <3>3. CASE k = last
      <4>1. u[j].n \in a + 1 .. b
        BY <1>5, <3>1 DEF Numbered
      <4> QED
        BY <1>1, <1>4, <3>1, <3>3, <4>1
    <3> QED
      BY <1>3, <3>2, <3>3
  <2> QED
    BY <2>1, <2>2, <2>3 DEF Numbered
<1> QED
  BY <1>3, <1>5 DEF v, last

\* What is left of frames that were made was made.
LEMMA MadeOnlyTaken ==
  ASSUME NEW u \in Seq(Frame), NEW v \in Seq(Frame), NEW i \in 1 .. Len(u),
         Without(v, u, i), MadeOnly(u)
  PROVE  MadeOnly(v)
<1>1. /\ Len(u) \in Nat /\ DOMAIN u = 1 .. Len(u)
      /\ DOMAIN v = 1 .. Len(u) - 1
      /\ \A j \in 1 .. Len(u) - 1 : v[j] = u[Skipping(i, j)]
  BY FrameFields DEF Without
<1>2. \A j \in 1 .. Len(u) - 1 : Skipping(i, j) \in 1 .. Len(u)
  BY <1>1, SkippingIsIncreasing
<1> QED
  BY <1>1, <1>2 DEF MadeOnly, CallbacksOf

\* Taking a callback leaves the responses; taking the response, none.
LEMMA CommandAfterTaken ==
  ASSUME NEW u \in Seq(Frame), NEW v \in Seq(Frame), NEW i \in 1 .. Len(u),
         Without(v, u, i), NEW q, NEW n, NEW sends \in BOOLEAN,
         NEW sent \in BOOLEAN, ~sent, OneCommand(u, q, sends, n)
  PROVE  /\ Async(u[i]) => OneCommand(v, q, sends, n)
         /\ ~Async(u[i]) => OneCommand(v, q, sent, n)
<1> DEFINE m == Len(u)
<1>1. /\ m \in Nat /\ DOMAIN u = 1 .. m
      /\ DOMAIN v = 1 .. m - 1
      /\ \A j \in 1 .. m - 1 : v[j] = u[Skipping(i, j)]
  BY FrameFields DEF Without
<1>2. /\ i \in 1 .. m
      /\ \A j \in 1 .. m - 1 : Skipping(i, j) \in 1 .. m /\ Skipping(i, j) # i
      /\ \A j, k \in 1 .. m - 1 : j < k => Skipping(i, j) < Skipping(i, k)
  BY <1>1, SkippingIsIncreasing
<1> HIDE DEF m
<1>3. \A j \in ResponsesOf(v) :
        /\ j \in 1 .. m - 1 /\ Skipping(i, j) \in ResponsesOf(u)
        /\ v[j] = u[Skipping(i, j)] /\ Skipping(i, j) # i
  BY <1>1, <1>2 DEF ResponsesOf
<1>4. ASSUME NEW j \in ResponsesOf(v), NEW k \in ResponsesOf(v), j # k
      PROVE  FALSE
  <2>1. Skipping(i, j) = Skipping(i, k)
    BY <1>3 DEF OneCommand
  <2>2. j \in 1 .. m - 1 /\ k \in 1 .. m - 1 /\ (j < k \/ k < j)
    BY <1>1, <1>3, <1>4
  <2>3. /\ Skipping(i, j) \in Nat /\ Skipping(i, k) \in Nat
        /\ Skipping(i, j) < Skipping(i, k) \/ Skipping(i, k) < Skipping(i, j)
    BY <1>1, <1>2, <2>2
  <2> QED
    BY <2>1, <2>3
<1>5. \A j \in ResponsesOf(v) : v[j].n = n
  BY <1>3 DEF OneCommand
<1>6. ResponsesOf(u) = {} => ResponsesOf(v) = {}
  BY <1>3
<1>7. ASSUME ~Async(u[i])
      PROVE  i \in ResponsesOf(u) /\ ResponsesOf(v) = {} /\ q = <<>>
  <2>1. i \in ResponsesOf(u)
    BY <1>1, <1>2, <1>7 DEF ResponsesOf
  <2> QED
    BY <1>3, <2>1 DEF OneCommand
<1> QED
  BY <1>4, <1>5, <1>6, <1>7 DEF OneCommand

\* The NCP answers the command there is.
LEMMA CommandAnswered ==
  ASSUME NEW u \in Seq(Frame), NEW f \in Frame, ~Async(f),
         NEW S, NEW q \in Seq(S), q # <<>>, f.n = Head(q),
         NEW sends \in BOOLEAN, NEW n, OneCommand(u, q, sends, n)
  PROVE  OneCommand(Append(u, f), Tail(q), sends, n)
<1> DEFINE v == Append(u, f)
           last == Len(u) + 1
<1>1. /\ Len(u) \in Nat /\ DOMAIN u = 1 .. Len(u)
      /\ DOMAIN v = 1 .. last
      /\ \A k \in 1 .. Len(u) : v[k] = u[k] /\ k < last
      /\ v[last] = f /\ last = Len(u) + 1
  BY Arrived, FrameFields
<1>2. Len(q) \in Nat /\ Len(q) # 0 /\ DOMAIN q = 1 .. Len(q)
  BY EmptySeq, LenProperties
<1>3. Len(q) = 1 /\ ResponsesOf(u) = {} /\ (~sends => FALSE)
  BY <1>2 DEF OneCommand
<1>4. Tail(q) = <<>> /\ Head(q) = n
  <2>1. Tail(q) \in Seq(S) /\ Len(Tail(q)) = 0
    BY <1>3, HeadTailProperties
  <2>2. Tail(q) = <<>>
    BY <2>1, EmptySeq
  <2>3. Head(q) = q[1] /\ 1 \in DOMAIN q
    BY <1>2, <1>3
  <2> QED
    BY <2>2, <2>3 DEF OneCommand
<1>5. last \in 1 .. last
  BY <1>1
<1> HIDE DEF v, last
<1>6. ASSUME NEW k \in ResponsesOf(v)  PROVE k = last
  <2>1. k \in 1 .. last /\ ~Async(v[k])
    BY <1>1 DEF ResponsesOf
  <2>2. CASE k \in 1 .. Len(u)
    <3>1. k \in ResponsesOf(u)
      BY <1>1, <2>1, <2>2 DEF ResponsesOf
    <3> QED
      BY <1>3, <3>1
  <2> QED
    BY <1>1, <2>1, <2>2
<1>7. OneCommand(v, <<>>, sends, n)
  <2>1. Len(<<>>) = 0 /\ DOMAIN <<>> = {}
    OBVIOUS
  <2>2. \A k \in ResponsesOf(v) : v[k].n = n
    BY <1>1, <1>4, <1>6
  <2>3. \A j, k \in ResponsesOf(v) : j = k
    BY <1>6
  <2> QED
    BY <1>3, <2>1, <2>2, <2>3 DEF OneCommand
<1> QED
  BY <1>4, <1>7 DEF v, last

\* A callback that arrives changes nothing of it.
LEMMA CommandBesideCallback ==
  ASSUME NEW u \in Seq(Frame), NEW f \in Frame, Async(f), NEW q,
         NEW sends \in BOOLEAN, NEW n, OneCommand(u, q, sends, n)
  PROVE  OneCommand(Append(u, f), q, sends, n)
<1> DEFINE v == Append(u, f)
           last == Len(u) + 1
<1>1. /\ Len(u) \in Nat /\ DOMAIN u = 1 .. Len(u)
      /\ DOMAIN v = 1 .. last
      /\ \A k \in 1 .. Len(u) : v[k] = u[k] /\ k < last
      /\ v[last] = f /\ last = Len(u) + 1
  BY Arrived, FrameFields
<1> HIDE DEF v, last
<1>2. ResponsesOf(v) = ResponsesOf(u)
  BY <1>1 DEF ResponsesOf
<1>3. \A k \in ResponsesOf(u) : v[k] = u[k]
  BY <1>1 DEF ResponsesOf
<1>4. OneCommand(v, q, sends, n)
  BY <1>2, <1>3 DEF OneCommand
<1> QED
  BY <1>4 DEF v

\* When none is sent, the next may be.
LEMMA CommandSent ==
  ASSUME NEW u, NEW S, NEW m \in S, NEW q, NEW n, OneCommand(u, q, FALSE, n)
  PROVE  OneCommand(u, Append(q, m), TRUE, m)
<1>1. q = <<>> /\ ResponsesOf(u) = {}
  BY DEF OneCommand
<1>2. Append(q, m) = <<m>>
  BY <1>1
<1>3. Len(<<m>>) = 1 /\ DOMAIN <<m>> = {1} /\ <<m>>[1] = m
  OBVIOUS
<1>4. OneCommand(u, <<m>>, TRUE, m)
  BY <1>1, <1>3 DEF OneCommand
<1> QED
  BY <1>2, <1>4

-----------------------------------------------------------------------------
(* What a poll finds in the queue.                                         *)

LEMMA UnreadType ==
  ASSUME EzspTypeOK
  PROVE  /\ rxQueue \in Seq(Frame) /\ toHost \in Seq(Frame)
         /\ Unread \in Seq(Frame)
BY ConcatProperties DEF EzspTypeOK, Unread

\* Reading moves at most one frame of the link into the queue, and only if
\* there is a buffer for it.
LEMMA ReadIntoQueue ==
  ASSUME EzspTypeOK, RoomForPart, FrameRead \/ PartRead \/ NothingRead
  PROVE  /\ Queue \in Seq(Frame) /\ toHost' \in Seq(Frame)
         /\ Queue \o toHost' = Unread
         /\ Free(Queue, reading') >= 0
         /\ reading' \in {"nothing", "buffered", "unbuffered"}
         /\ failures' \in 0 .. MaxFailures
<1>1. /\ RxPool \in Nat /\ MaxFailures \in Nat
      /\ rxQueue \in Seq(Frame) /\ toHost \in Seq(Frame)
      /\ Len(rxQueue) \in Nat /\ Len(toHost) \in Nat
      /\ failures \in 0 .. MaxFailures
      /\ reading \in {"nothing", "buffered", "unbuffered"}
      /\ Free(rxQueue, reading) \in Int
  BY EzspAssumption, LenProperties DEF EzspAssumption, EzspTypeOK, Free
<1>2. CASE FrameRead
  <2> DEFINE f == Head(toHost)
             q == Append(rxQueue, f)
  <2>1. /\ toHost # <<>> /\ toHost' = Tail(toHost)
        /\ reading' = "nothing" /\ failures' = failures
        /\ reading = "buffered" \/ Free(rxQueue, reading) > 0
    BY <1>2 DEF FrameRead
  <2>2. /\ f \in Frame /\ toHost' \in Seq(Frame)
        /\ Len(toHost') = Len(toHost) - 1
        /\ \A i \in 1 .. Len(toHost') : toHost'[i] = toHost[i + 1]
    BY <1>1, <2>1, HeadTailProperties
  <2>3. Queue = q
    BY <1>1, <2>2 DEF Queue
  <2>4. f = toHost[1] /\ Len(toHost) >= 1
    <3>1. Len(toHost) # 0
      BY <1>1, <2>1, EmptySeq
    <3> QED
      BY <1>1, <3>1
  <2> HIDE DEF f
  <2>5. /\ q \in Seq(Frame) /\ Len(q) = Len(rxQueue) + 1
        /\ \A i \in 1 .. Len(rxQueue) : q[i] = rxQueue[i]
        /\ q[Len(rxQueue) + 1] = f
    BY <1>1, <2>2, AppendProperties
  <2> HIDE DEF q
  <2>6. q \o toHost' = Unread
    <3>1. /\ q \o toHost' \in Seq(Frame)
          /\ Len(q \o toHost') = Len(rxQueue) + Len(toHost)
          /\ \A i \in 1 .. Len(rxQueue) + Len(toHost) :
               (q \o toHost')[i] = IF i <= Len(q) THEN q[i]
                                                  ELSE toHost'[i - Len(q)]
      <4>1. /\ q \o toHost' \in Seq(Frame)
            /\ Len(q \o toHost') = Len(q) + Len(toHost')
            /\ \A i \in 1 .. Len(q) + Len(toHost') :
                 (q \o toHost')[i] = IF i <= Len(q) THEN q[i]
                                                    ELSE toHost'[i - Len(q)]
        BY <2>2, <2>5, ConcatProperties
      <4>2. Len(q) + Len(toHost') = Len(rxQueue) + Len(toHost)
        BY <1>1, <2>2, <2>5
      <4> QED
        BY <4>1, <4>2
    <3>2. /\ Unread \in Seq(Frame)
          /\ Len(Unread) = Len(rxQueue) + Len(toHost)
          /\ \A i \in 1 .. Len(rxQueue) + Len(toHost) :
               Unread[i] = IF i <= Len(rxQueue) THEN rxQueue[i]
                                                ELSE toHost[i - Len(rxQueue)]
      BY <1>1, ConcatProperties DEF Unread
    <3>3. ASSUME NEW i \in 1 .. Len(rxQueue) + Len(toHost)
          PROVE  (q \o toHost')[i] = Unread[i]
      <4> DEFINE n == Len(rxQueue)
      <4>0. n \in Nat /\ i \in Nat /\ i >= 1 /\ Len(q) = n + 1
        BY <1>1, <2>5
      <4>1. CASE i <= Len(rxQueue)
        <5>1. i \in 1 .. n /\ i <= Len(q)
          BY <4>0, <4>1
        <5> QED
          BY <2>5, <3>1, <3>2, <4>1, <5>1
      <4>2. CASE i = Len(rxQueue) + 1
        <5>1. i - Len(rxQueue) = 1 /\ i <= Len(q) /\ ~(i <= Len(rxQueue))
          BY <1>1, <2>5, <4>2
        <5> QED
          BY <2>4, <2>5, <3>1, <3>2, <4>2, <5>1
      <4>3. CASE i > Len(rxQueue) + 1
        <5>1. /\ ~(i <= Len(q)) /\ ~(i <= Len(rxQueue))
              /\ i - Len(q) \in 1 .. Len(toHost')
              /\ (i - Len(q)) + 1 = i - Len(rxQueue)
          BY <1>1, <2>2, <2>5, <4>3
        <5> QED
          BY <2>2, <3>1, <3>2, <5>1
      <4> HIDE DEF n
      <4>4. i <= n \/ i = n + 1 \/ i > n + 1
        BY <4>0
      <4> QED
        BY <4>1, <4>2, <4>3, <4>4 DEF n
    <3>4. Len(q \o toHost') = Len(Unread)
      BY <3>1, <3>2
    <3>5. \A i \in 1 .. Len(q \o toHost') : (q \o toHost')[i] = Unread[i]
      BY <3>1, <3>3
    <3> QED
      BY <3>1, <3>2, <3>4, <3>5, SeqEqual
  <2>7. Free(q, reading') >= 0
    BY <1>1, <2>1, <2>5 DEF Free, RoomForPart
  <2> QED
    BY <1>1, <2>1, <2>2, <2>3, <2>5, <2>6, <2>7
<1>3. CASE PartRead \/ NothingRead
  <2>1. toHost' = toHost
    BY <1>3 DEF PartRead, NothingRead
  <2>2. Queue = rxQueue
    BY <2>1 DEF Queue
  <2>3. CASE PartRead
    <3>1. CASE reading = "nothing"
      <4>1. /\ reading' = IF Free(rxQueue, reading) > 0 THEN "buffered"
                                                        ELSE "unbuffered"
            /\ failures' = failures
        BY <2>3, <3>1 DEF PartRead
      <4>2. Free(rxQueue, reading') >= 0
        BY <1>1, <3>1, <4>1 DEF Free, RoomForPart
      <4> QED
        BY <1>1, <2>1, <2>2, <4>1, <4>2 DEF Unread
    <3>2. CASE reading # "nothing"
      <4>1. reading' = "nothing" /\ failures < MaxFailures
            /\ failures' = failures + 1
        BY <2>3, <3>2 DEF PartRead
      <4>2. Free(rxQueue, reading') >= 0
        BY <1>1, <4>1 DEF Free, RoomForPart
      <4> QED
        BY <1>1, <2>1, <2>2, <4>1, <4>2 DEF Unread
    <3> QED
      BY <3>1, <3>2
  <2>4. CASE NothingRead
    BY <1>1, <2>1, <2>2, <2>4 DEF NothingRead, Unread, RoomForPart
  <2> QED
    BY <1>3, <2>3, <2>4
<1> QED
  BY <1>2, <1>3

\* Finitely many naturals have a least one.
LEMMA LeastIs ==
  ASSUME NEW S, S \subseteq Nat, S # {}, IsFiniteSet(S)
  PROVE  \E x \in S : \A y \in S : x <= y
<1> DEFINE Below(i) == {j \in S : j < i}
           T == {Below(i) : i \in S}
<1>1. T \subseteq FiniteSubsetsOf(S) /\ T # {}
  <2>1. FiniteSubsetsOf(S) = SUBSET S
    BY FS_FiniteSubsetsOfFinite
  <2>2. T \subseteq FiniteSubsetsOf(S)
    BY <2>1
  <2>3. T # {}
    OBVIOUS
  <2> QED
    BY <2>2, <2>3
<1>2. PICK X \in T : \A Y \in T : ~(<<Y, X>> \in StrictSubsetOrdering(S))
  BY <1>1, FS_StrictSubsetOrderingWellFounded, WFMin
<1>3. PICK x \in S : X = Below(x)
  OBVIOUS
<1>4. ASSUME NEW y \in S  PROVE x <= y
  <2>1. SUFFICES ASSUME y < x  PROVE FALSE
    BY <1>4
  <2>2. y \in Below(x) /\ y \notin Below(y) /\ Below(y) \in T
    <3>1. Below(y) \in T
      OBVIOUS
    <3>2. y \in Below(x) /\ y \notin Below(y)
      BY <2>1
    <3> QED
      BY <3>1, <3>2
  <2>3. Below(y) \subseteq Below(x)
    <3>1. \A j \in S : j < y => j < x
      BY <2>1
    <3> QED
      BY <3>1
  <2>4. Below(x) \in SUBSET S /\ Below(y) \in SUBSET S
    OBVIOUS
  <2> HIDE DEF Below, T
  <2>5. <<Below(y), X>> \in StrictSubsetOrdering(S)
    BY <1>3, <2>2, <2>3, <2>4 DEF StrictSubsetOrdering
  <2> QED
    BY <1>2, <2>2, <2>5
<1> QED
  BY <1>4

\* The frame chosen is the first that may be taken: any while no response is
\* waited for, else the first response.
LEMMA ChosenIsFirst ==
  ASSUME Queue \in Seq(Frame), waitingForResponse \in BOOLEAN
  PROVE  /\ Chosen \in 0 .. Len(Queue)
         /\ Chosen # 0 /\ waitingForResponse => ~Async(Queue[Chosen])
         /\ Chosen # 0 /\ ~waitingForResponse => Chosen = 1
<1> DEFINE q == Queue
<1>1. Len(q) \in Nat /\ DOMAIN q = 1 .. Len(q)
  BY LenProperties
<1>2. Eligible = {k \in 1 .. Len(q) : ~(waitingForResponse /\ Async(q[k]))}
  BY <1>1 DEF Eligible
<1> HIDE DEF q
<1>3. CASE Eligible = {}
  BY <1>1, <1>3 DEF Chosen, q
<1>4. CASE Eligible # {}
  <2>1. Eligible \subseteq Nat
    BY <1>1, <1>2
  <2>2. \E k \in Eligible : \A j \in Eligible : k <= j
    <3>1. IsFiniteSet(1 .. Len(q))
      BY <1>1, FS_Interval
    <3>2. IsFiniteSet(Eligible)
      BY <1>2, <3>1, FS_Subset
    <3> QED
      BY <1>4, <2>1, <3>2, LeastIs
  <2>3. Chosen \in Eligible /\ \A j \in Eligible : Chosen <= j
    BY <1>4, <2>2 DEF Chosen
  <2>4. ASSUME ~waitingForResponse  PROVE Chosen = 1
    <3>1. Chosen \in 1 .. Len(q) /\ 1 \in Eligible
      BY <1>1, <1>2, <2>3, <2>4
    <3> QED
      BY <1>1, <2>3, <3>1
  <2>5. Chosen \in 1 .. Len(q) /\ (waitingForResponse => ~Async(q[Chosen]))
    BY <1>2, <2>3
  <2> QED
    BY <1>1, <2>4, <2>5 DEF q
<1> QED
  BY <1>3, <1>4

\* What the poll leaves in the queue: all but the frame chosen, and but the
\* one dropped, if any.
LEMMA LeftInQueue ==
  ASSUME NEW t \in Seq(Frame), Queue \in Seq(Frame), waitingForResponse \in BOOLEAN,
         MadeOnly(Queue \o t)
  PROVE  /\ QueueLeft \in Seq(Frame) /\ Len(QueueLeft) <= Len(Queue)
         /\ MadeOnly(QueueLeft \o t)
         /\ Dropped = 0 /\ Chosen = 0 => QueueLeft = Queue
         /\ Dropped = 0 /\ Chosen # 0 => Without(QueueLeft \o t, Queue \o t, Chosen)
<1> DEFINE q == Queue
           c == Chosen
           d == Dropped
           passed == IF c = 0 THEN q ELSE RemoveAt(q, c)
<1>1. q \in Seq(Frame) /\ Len(q) \in Nat /\ c \in 0 .. Len(q)
  BY ChosenIsFirst, LenProperties
<1>2. d = 0 \/ d = (IF c = 0 THEN Len(q) ELSE c - 1)
  BY DEF Dropped
<1>3. QueueLeft = IF d = 0 THEN passed ELSE RemoveAt(passed, d)
  BY DEF QueueLeft
<1>4. MadeOnly(q \o t)
  OBVIOUS
<1>5. SUFFICES
        /\ QueueLeft \in Seq(Frame) /\ Len(QueueLeft) <= Len(q)
        /\ MadeOnly(QueueLeft \o t)
        /\ d = 0 /\ c = 0 => QueueLeft = q
        /\ d = 0 /\ c # 0 => Without(QueueLeft \o t, q \o t, c)
  OBVIOUS
<1> HIDE DEF q, c, d
<1>6. /\ passed \in Seq(Frame) /\ MadeOnly(passed \o t)
      /\ Len(passed) = IF c = 0 THEN Len(q) ELSE Len(q) - 1
      /\ c # 0 => Without(passed \o t, q \o t, c)
  <2>1. CASE c = 0
    BY <1>1, <1>4, <2>1
  <2>2. CASE c # 0
    <3>1. c \in 1 .. Len(q) /\ passed = RemoveAt(q, c)
      BY <1>1, <2>2
    <3>2. passed \in Seq(Frame) /\ Without(passed, q, c)
      BY <1>1, <3>1, RemoveAtElements
    <3>3. Without(passed \o t, q \o t, c)
      BY <1>1, <3>1, JoinedWithout
    <3>4. /\ q \o t \in Seq(Frame) /\ passed \o t \in Seq(Frame)
          /\ Len(q \o t) = Len(q) + Len(t) /\ Len(t) \in Nat
      BY <1>1, <3>2, ConcatProperties, LenProperties
    <3>5. c \in 1 .. Len(q \o t)
      BY <1>1, <3>1, <3>4
    <3>6. MadeOnly(passed \o t)
      BY <1>4, <3>3, <3>4, <3>5, MadeOnlyTaken
    <3> QED
      BY <2>2, <3>2, <3>3, <3>6 DEF Without
  <2> QED
    BY <2>1, <2>2
<1>7. CASE d = 0
  BY <1>1, <1>3, <1>6, <1>7
<1>8. CASE d # 0
  <2> DEFINE left == RemoveAt(passed, d)
  <2>1. d \in 1 .. Len(passed)
    BY <1>1, <1>2, <1>6, <1>8
  <2>2. QueueLeft = left
    BY <1>3, <1>8
  <2> HIDE DEF passed
  <2>3. left \in Seq(Frame) /\ Without(left, passed, d)
    BY <1>6, <2>1, RemoveAtElements
  <2>4. Without(left \o t, passed \o t, d)
    BY <1>6, <2>1, JoinedWithout
  <2>5. /\ passed \o t \in Seq(Frame) /\ left \o t \in Seq(Frame)
        /\ Len(passed \o t) = Len(passed) + Len(t)
        /\ Len(t) \in Nat /\ Len(passed) \in Nat
    BY <1>6, <2>3, ConcatProperties, LenProperties
  <2>6. d \in 1 .. Len(passed \o t)
    BY <2>1, <2>5
  <2> HIDE DEF left
  <2>7. MadeOnly(left \o t)
    BY <1>6, <2>4, <2>5, <2>6, MadeOnlyTaken
  <2>8. Len(left) <= Len(q)
    BY <1>1, <1>6, <2>3, <2>5 DEF Without
  <2> QED
    BY <1>8, <2>2, <2>3, <2>7, <2>8
<1> QED
  BY <1>7, <1>8

\* A poll that reports no error dropped nothing, and took the response of the
\* command being sent or, when none is, a callback.
LEMMA PollWithoutError ==
  ASSUME EzspTypeOK, sendingCommand => waitingForResponse, Poll,
         ~ncpNeedsResetAndInit', Queue \in Seq(Frame)
  PROVE  /\ ~ncpNeedsResetAndInit /\ Dropped = 0
         /\ \/ /\ Chosen = 0
               /\ dispatched' = dispatched /\ sendingCommand' = sendingCommand
            \/ /\ Chosen # 0 /\ ~Async(Queue[Chosen])
               /\ sendingCommand /\ ~sendingCommand'
               /\ dispatched' = dispatched
            \/ /\ Chosen = 1 /\ Async(Queue[Chosen])
               /\ ~sendingCommand /\ ~sendingCommand'
               /\ dispatched' = Append(dispatched, Queue[Chosen].n)
<1>1. /\ waitingForResponse \in BOOLEAN /\ sendingCommand \in BOOLEAN
      /\ ncpNeedsResetAndInit \in BOOLEAN
  BY DEF EzspTypeOK
<1>2. CASE Chosen = 0
  BY <1>1, <1>2 DEF Poll, ErrorHandler
<1>3. CASE Chosen # 0
  <2>1. Taken(Queue[Chosen]) /\ waitingForResponse' = FALSE
    BY <1>3 DEF Poll
  <2>2. /\ waitingForResponse => ~Async(Queue[Chosen])
        /\ ~waitingForResponse => Chosen = 1
    BY <1>1, <1>3, ChosenIsFirst
  <2>3. /\ ~waitingForResponse => Dropped = 0
    BY DEF Dropped
  <2> DEFINE f == Queue[Chosen]
  <2> HIDE DEF f
  <2>4. Taken(f)
    BY <2>1 DEF f
  <2>5. /\ ~f.flagged
        /\ sendingCommand => ~sendingCommand' /\ dispatched' = dispatched
        /\ Dropped = 0 /\ ncpNeedsResetAndInit' = ncpNeedsResetAndInit
        /\ ~sendingCommand =>
             ~sendingCommand' /\ Async(f) /\ dispatched' = Append(dispatched, f.n)
    BY <1>1, <2>4 DEF Taken, ErrorHandler, CommandFails
  <2> QED
    BY <1>1, <1>3, <2>2, <2>5 DEF f
<1> QED
  BY <1>2, <1>3

-----------------------------------------------------------------------------
(* The invariant is inductive.                                             *)

\* The bounds of the model are numbers.
LEMMA Bounds ==
  /\ RxPool \in Nat /\ RxPool >= 1 /\ MaxCommands \in Nat
  /\ MaxCallbacks \in Nat /\ MaxFailures \in Nat /\ MaxTimeouts \in Nat
BY EzspAssumption DEF EzspAssumption

\* Nothing is unread in a new session, and no callback of it was dispatched.
LEMMA NewSessionStep ==
  ASSUME EzspTypeOK, NewSession, callbacks' = callbacks
  PROVE  /\ rxQueue' \in Seq(Frame) /\ Len(rxQueue') <= RxPool
         /\ toHost' \in Seq(Frame)
         /\ reading' \in {"nothing", "buffered", "unbuffered"}
         /\ dispatched' \in Seq(1 .. MaxCallbacks)
         /\ toNcp' \in Seq(1 .. MaxCommands)
         /\ before' \in 0 .. callbacks'
         /\ RoomForPart' /\ MadeOnly(Unread')
         /\ InOrder(dispatched', before')
         /\ before' + Len(dispatched') <= callbacks'
         /\ Numbered(Unread', before' + Len(dispatched'), callbacks')
         /\ \A sends, n : OneCommand(Unread', toNcp', sends, n)
<1>1. /\ rxQueue' = <<>> /\ toHost' = <<>> /\ reading' = "nothing"
      /\ dispatched' = <<>> /\ toNcp' = <<>> /\ before' = callbacks
  BY DEF NewSession
<1>2. callbacks \in Nat /\ RxPool \in Nat
  BY Bounds DEF EzspTypeOK
<1>3. Unread' = <<>>
  BY <1>1 DEF Unread
<1>4. Len(<<>>) = 0 /\ DOMAIN <<>> = {}
  OBVIOUS
<1>5. CallbacksOf(<<>>) = {} /\ ResponsesOf(<<>>) = {}
  BY <1>4 DEF CallbacksOf, ResponsesOf
<1>6. MadeOnly(Unread')
  BY <1>3, <1>5 DEF MadeOnly
<1>7. Numbered(Unread', before' + Len(dispatched'), callbacks')
  <2>1. callbacks + 0 + 1 .. callbacks = {}
    BY <1>2
  <2> QED
    BY <1>1, <1>2, <1>3, <1>4, <1>5, <2>1 DEF Numbered
<1>8. \A sends, n : OneCommand(Unread', toNcp', sends, n)
  BY <1>1, <1>3, <1>4, <1>5 DEF OneCommand
<1>9. RoomForPart'
  BY <1>1, <1>2, <1>4 DEF RoomForPart, Free
<1>10. InOrder(dispatched', before')
  BY <1>1, <1>4 DEF InOrder
<1>11. /\ rxQueue' \in Seq(Frame) /\ toHost' \in Seq(Frame)
       /\ dispatched' \in Seq(1 .. MaxCallbacks)
       /\ toNcp' \in Seq(1 .. MaxCommands)
  BY <1>1, EmptySeq
<1> QED
  BY <1>1, <1>2, <1>4, <1>6, <1>7, <1>8, <1>9, <1>10, <1>11

\* A step that leaves the frames, the numbers and the queues as they are
LEMMA FramesKept ==
  ASSUME EzspInv,
         UNCHANGED <<rxQueue, toHost, reading, dispatched, toNcp, callbacks,
                     before>>
  PROVE  /\ RoomForPart' /\ MadeOnly(Unread') /\ Unread' = Unread
         /\ rxQueue' \in Seq(Frame) /\ Len(rxQueue') <= RxPool
         /\ toHost' \in Seq(Frame)
         /\ reading' \in {"nothing", "buffered", "unbuffered"}
         /\ dispatched' \in Seq(1 .. MaxCallbacks)
         /\ toNcp' \in Seq(1 .. MaxCommands)
         /\ before' \in 0 .. callbacks' /\ callbacks' \in 0 .. MaxCallbacks
<1>1. Unread' = Unread
  BY DEF Unread
<1>2. RoomForPart'
  BY DEF EzspInv, RoomForPart, Free
<1> QED
  BY <1>1, <1>2 DEF EzspInv, EzspTypeOK

LEMMA InitStep == Init => EzspInv
<1> SUFFICES ASSUME Init  PROVE EzspInv
  OBVIOUS
<1>1. /\ rxQueue = <<>> /\ toHost = <<>> /\ reading = "nothing"
      /\ dispatched = <<>> /\ toNcp = <<>> /\ before = 0 /\ callbacks = 0
      /\ Len(<<>>) = 0 /\ DOMAIN <<>> = {}
  BY DEF Init
<1>2. Unread = <<>>
  BY <1>1 DEF Unread
<1>3. CallbacksOf(<<>>) = {} /\ ResponsesOf(<<>>) = {}
  BY <1>1 DEF CallbacksOf, ResponsesOf
<1>4. /\ rxQueue \in Seq(Frame) /\ toHost \in Seq(Frame)
      /\ dispatched \in Seq(1 .. MaxCallbacks)
      /\ toNcp \in Seq(1 .. MaxCommands)
  BY <1>1, EmptySeq
<1>5. EzspTypeOK
  <2>1. {sendingCommand, waitingForResponse, ncpNeedsResetAndInit, connected}
          \subseteq BOOLEAN
    BY DEF Init
  <2>2. answer = NoAnswer /\ commands = 0 /\ failures = 0 /\ timeouts = 0
    BY DEF Init
  <2>3. Len(rxQueue) <= RxPool
    BY <1>1, Bounds
  <2>4. /\ commands \in 0 .. MaxCommands /\ failures \in 0 .. MaxFailures
        /\ timeouts \in 0 .. MaxTimeouts
    BY <2>2, Bounds
  <2>5. callbacks \in 0 .. MaxCallbacks /\ before \in 0 .. callbacks
    BY <1>1, Bounds
  <2> QED
    BY <1>1, <1>4, <2>1, <2>2, <2>3, <2>4, <2>5 DEF EzspTypeOK
<1>6. RoomForPart /\ MadeOnly(Unread) /\ InOrder(dispatched, before)
  BY <1>1, <1>2, <1>3, Bounds DEF RoomForPart, Free, MadeOnly, InOrder
<1>7. Numbered(Unread, 0, 0)
  <2>1. 0 + 1 .. 0 = {}
    OBVIOUS
  <2> QED
    BY <1>2, <1>3, <2>1 DEF Numbered
<1>8. OneCommand(Unread, toNcp, sendingCommand, commands)
  BY <1>1, <1>2, <1>3 DEF OneCommand
<1>9. Session
  BY <1>1, <1>6, <1>7, <1>8 DEF Session
<1> QED
  BY <1>5, <1>6, <1>9 DEF EzspInv, Init

\* ashReceiveExec and the look at the queue
LEMMA PollStep ==
  ASSUME EzspInv, FrameRead \/ PartRead \/ NothingRead, Poll
  PROVE  EzspInv'
<1> DEFINE q == Queue
           t == toHost'
           c == Chosen
           u == Unread
           v == Unread'
<1>1. EzspTypeOK /\ RoomForPart /\ MadeOnly(u)
  BY DEF EzspInv
<1>2. /\ q \in Seq(Frame) /\ t \in Seq(Frame) /\ q \o t = u
      /\ Free(q, reading') >= 0
      /\ reading' \in {"nothing", "buffered", "unbuffered"}
      /\ failures' \in 0 .. MaxFailures
  BY <1>1, ReadIntoQueue
<1>3. /\ waitingForResponse \in BOOLEAN /\ sendingCommand \in BOOLEAN
      /\ ncpNeedsResetAndInit \in BOOLEAN
      /\ sendingCommand => waitingForResponse
  BY DEF EzspInv, EzspTypeOK
<1>4. /\ rxQueue' = QueueLeft
      /\ waitingForResponse' = (waitingForResponse /\ c = 0)
      /\ UNCHANGED <<connected, commands, callbacks, before, toNcp, timeouts>>
  BY DEF Poll
<1>5. v = QueueLeft \o t
  BY <1>4 DEF Unread
<1>6. /\ QueueLeft \in Seq(Frame) /\ Len(QueueLeft) <= Len(q)
      /\ MadeOnly(v)
      /\ Dropped = 0 /\ c = 0 => QueueLeft = q
      /\ Dropped = 0 /\ c # 0 => Without(v, u, c)
  <2>1. MadeOnly(Queue \o t)
    BY <1>1, <1>2
  <2>2. /\ QueueLeft \in Seq(Frame) /\ Len(QueueLeft) <= Len(Queue)
        /\ MadeOnly(QueueLeft \o t)
        /\ Dropped = 0 /\ Chosen = 0 => QueueLeft = Queue
        /\ Dropped = 0 /\ Chosen # 0 =>
             Without(QueueLeft \o t, Queue \o t, Chosen)
    BY <1>2, <1>3, <2>1, LeftInQueue
  <2> QED
    BY <1>2, <1>5, <2>2
<1>7. c \in 0 .. Len(q) /\ Len(q) \in Nat
  BY <1>2, <1>3, ChosenIsFirst, LenProperties
<1>8. RoomForPart' /\ Len(rxQueue') <= RxPool
  <2>1. Len(QueueLeft) \in Nat /\ Len(QueueLeft) <= Len(q)
    BY <1>6, LenProperties
  <2>2. /\ Free(q, reading') =
             RxPool - Len(q) - (IF reading' = "buffered" THEN 1 ELSE 0)
        /\ Free(rxQueue', reading') =
             RxPool - Len(QueueLeft) - (IF reading' = "buffered" THEN 1 ELSE 0)
    BY <1>4 DEF Free
  <2> HIDE DEF q
  <2>3. Free(rxQueue', reading') >= 0
    BY <1>2, <1>7, <2>1, <2>2, Bounds
  <2>4. Len(QueueLeft) <= RxPool
    BY <1>2, <1>7, <2>1, <2>2, Bounds
  <2> QED
    BY <1>4, <2>3, <2>4 DEF RoomForPart, Free
<1>9. /\ u \in Seq(Frame) /\ v \in Seq(Frame)
      /\ c # 0 => c \in 1 .. Len(u) /\ u[c] = q[c] /\ u # <<>>
                  /\ q[c] \in Frame
  <2>1. u \in Seq(Frame) /\ v \in Seq(Frame)
    BY <1>1, <1>2, <1>5, <1>6, UnreadType, ConcatProperties
  <2>2. /\ Len(u) = Len(q) + Len(t) /\ Len(t) \in Nat
        /\ \A i \in 1 .. Len(q) + Len(t) :
             u[i] = IF i <= Len(q) THEN q[i] ELSE t[i - Len(q)]
    BY <1>2, ConcatProperties, LenProperties
  <2> HIDE DEF q, u, c
  <2>3. ASSUME c # 0  PROVE c \in 1 .. Len(u) /\ u[c] = q[c] /\ u # <<>>
    <3>1. c \in 1 .. Len(q) + Len(t) /\ c <= Len(q)
      BY <1>7, <2>2, <2>3
    <3>2. Len(u) # 0
      BY <1>7, <2>2, <3>1
    <3>3. u # <<>>
      BY <3>2
    <3> QED
      BY <2>2, <3>1, <3>3
  <2>4. ASSUME c # 0  PROVE q[c] \in Frame
    <3>1. c \in 1 .. Len(q)
      BY <1>7, <2>4
    <3> QED
      BY <1>2, <3>1, ElementOfSeq
  <2> QED
    BY <2>1, <2>3, <2>4
<1>10. /\ sendingCommand' \in BOOLEAN /\ ncpNeedsResetAndInit' \in BOOLEAN
       /\ answer' \in Frame \cup {NoAnswer}
       /\ sendingCommand' => waitingForResponse'
       /\ \/ dispatched' = dispatched
          \/ /\ c # 0 /\ Async(q[c]) /\ dispatched' = Append(dispatched, q[c].n)
  <2>1. answer \in Frame \cup {NoAnswer}
    BY <1>1 DEF EzspTypeOK
  <2>2. CASE c = 0
    BY <1>3, <1>4, <2>1, <2>2 DEF Poll, ErrorHandler
  <2>3. CASE c # 0
    <3>1. Taken(q[c])
      BY <2>3 DEF Poll
    <3> DEFINE f == q[c]
    <3>2. f \in Frame /\ Taken(f)
      BY <1>9, <2>3, <3>1
    <3> HIDE DEF f
    <3>3. /\ sendingCommand' \in BOOLEAN /\ ncpNeedsResetAndInit' \in BOOLEAN
          /\ answer' \in Frame \cup {NoAnswer} /\ ~sendingCommand'
          /\ \/ dispatched' = dispatched
             \/ Async(f) /\ dispatched' = Append(dispatched, f.n)
      BY <1>3, <2>1, <3>2 DEF Taken, ErrorHandler, CommandFails
    <3> QED
      BY <2>3, <3>3 DEF f
  <2> QED
    BY <2>2, <2>3
<1>11. dispatched' \in Seq(1 .. MaxCallbacks)
  <2>1. dispatched \in Seq(1 .. MaxCallbacks)
    BY <1>1 DEF EzspTypeOK
  <2>2. CASE c # 0 /\ Async(q[c]) /\ dispatched' = Append(dispatched, q[c].n)
    <3>1. c \in CallbacksOf(u)
      <4>1. c \in DOMAIN u /\ Async(u[c])
        BY <1>9, <2>2, LenProperties
      <4> QED
        BY <4>1 DEF CallbacksOf
    <3>2. q[c].n \in 1 .. MaxCallbacks
      BY <1>1, <1>9, <2>2, <3>1 DEF MadeOnly
    <3> QED
      BY <2>1, <2>2, <3>2, AppendProperties
  <2> QED
    BY <1>10, <2>1, <2>2
<1>12. EzspTypeOK'
  <2>1. /\ {sendingCommand', waitingForResponse', ncpNeedsResetAndInit',
            connected'} \subseteq BOOLEAN
    BY <1>1, <1>3, <1>4, <1>10 DEF EzspTypeOK
  <2>2. rxQueue' \in Seq(Frame) /\ toHost' \in Seq(Frame)
    BY <1>2, <1>4, <1>6
  <2> QED
    BY <1>1, <1>2, <1>4, <1>8, <1>10, <1>11, <2>1, <2>2 DEF EzspTypeOK
<1>13. ASSUME ~ncpNeedsResetAndInit'
       PROVE  /\ InOrder(dispatched', before')
              /\ before' + Len(dispatched') <= callbacks'
              /\ Numbered(v, before' + Len(dispatched'), callbacks')
              /\ OneCommand(v, toNcp', sendingCommand', commands')
  <2> DEFINE n == Len(dispatched)
             a == before + n
             s == sendingCommand
             s1 == sendingCommand'
  <2>1. /\ ~ncpNeedsResetAndInit /\ Dropped = 0
        /\ \/ c = 0 /\ dispatched' = dispatched /\ s1 = s
           \/ /\ c # 0 /\ ~Async(q[c]) /\ s /\ ~s1
              /\ dispatched' = dispatched
           \/ /\ c = 1 /\ Async(q[c]) /\ ~s /\ ~s1
              /\ dispatched' = Append(dispatched, q[c].n)
    BY <1>1, <1>2, <1>3, <1>13, PollWithoutError
  <2>2. /\ InOrder(dispatched, before) /\ a <= callbacks
        /\ Numbered(u, a, callbacks)
        /\ OneCommand(u, toNcp, s, commands)
    BY <2>1 DEF EzspInv, Session
  <2>3. /\ before \in Nat /\ callbacks \in Nat /\ n \in Nat /\ a \in Nat
        /\ dispatched \in Seq(1 .. MaxCallbacks) /\ DOMAIN dispatched = 1 .. n
        /\ a = before + n
    <3>1. dispatched \in Seq(1 .. MaxCallbacks)
      BY <1>1 DEF EzspTypeOK
    <3>2. n \in Nat /\ DOMAIN dispatched = 1 .. n
      BY <3>1, LenProperties
    <3> QED
      BY <1>1, <3>1, <3>2, Bounds DEF EzspTypeOK
  <2>4. s \in BOOLEAN /\ s1 \in BOOLEAN
    BY <1>3, <1>10
  <2>5. SUFFICES /\ InOrder(dispatched', before)
                 /\ before + Len(dispatched') <= callbacks
                 /\ Numbered(v, before + Len(dispatched'), callbacks)
                 /\ OneCommand(v, toNcp, s1, commands)
    BY <1>4
  <2>6. CASE c = 0 /\ dispatched' = dispatched /\ s1 = s
    <3>1. v = u
      BY <1>2, <1>5, <1>6, <2>1, <2>6
    <3> QED
      BY <2>2, <2>6, <3>1
  <2> HIDE DEF a, n, s, s1
  <2>7. CASE c # 0 /\ ~Async(q[c]) /\ s /\ ~s1 /\ dispatched' = dispatched
    <3>1. Without(v, u, c) /\ c \in 1 .. Len(u) /\ ~Async(u[c])
      BY <1>6, <1>9, <2>1, <2>7
    <3> HIDE DEF u, v, c
    <3>2. Numbered(v, a, callbacks)
      BY <1>9, <2>2, <2>3, <3>1, ResponseTaken
    <3>3. OneCommand(v, toNcp, s1, commands)
      <4>1. /\ u \in Seq(Frame) /\ v \in Seq(Frame) /\ ~s1
            /\ OneCommand(u, toNcp, s, commands)
        BY <1>9, <2>2, <2>7
      <4>2. ~Async(u[c]) => OneCommand(v, toNcp, s1, commands)
        BY <2>4, <3>1, <4>1, CommandAfterTaken
      <4> QED
        BY <3>1, <4>2
    <3> QED
      BY <2>2, <2>7, <3>2, <3>3 DEF a, n
  <2>8. CASE /\ c = 1 /\ Async(q[c]) /\ ~s /\ ~s1
             /\ dispatched' = Append(dispatched, q[c].n)
    <3>1. /\ Without(v, u, 1) /\ 1 \in 1 .. Len(u) /\ Async(u[1]) /\ u # <<>>
          /\ u[1] = q[c] /\ c # 0
      BY <1>6, <1>9, <2>1, <2>8
    <3> HIDE DEF u, v, c, q
    <3>2. u[1].n = a + 1 /\ a + 1 <= callbacks /\ Numbered(v, a + 1, callbacks)
      BY <1>9, <2>2, <2>3, <3>1, CallbackTaken
    <3>3. OneCommand(v, toNcp, s1, commands)
      <4>1. s1 = s
        BY <2>4, <2>8
      <4> QED
        BY <1>9, <2>2, <2>4, <2>8, <3>1, <4>1, CommandAfterTaken
    <3>4. dispatched' = Append(dispatched, a + 1)
      BY <2>8, <3>1, <3>2
    <3>5. /\ Len(dispatched') = n + 1 /\ DOMAIN dispatched' = 1 .. n + 1
          /\ \A k \in 1 .. n : dispatched'[k] = dispatched[k]
          /\ dispatched'[n + 1] = a + 1
      <4>1. dispatched \in Seq(Nat) /\ a + 1 \in Nat
        <5>1. 1 .. MaxCallbacks \subseteq Nat /\ a + 1 \in Nat
          BY <2>3, Bounds
        <5> QED
          BY <2>3, <5>1, SeqMonotonic
      <4>2. /\ dispatched' \in Seq(Nat) /\ Len(dispatched') = n + 1
            /\ \A k \in 1 .. n : dispatched'[k] = dispatched[k]
            /\ dispatched'[n + 1] = a + 1
        BY <3>4, <4>1, AppendProperties DEF n
      <4> QED
        BY <4>2, LenProperties
    <3>6. InOrder(dispatched', before)
      <4>1. ASSUME NEW k \in 1 .. n + 1  PROVE dispatched'[k] = before + k
        <5>1. CASE k = n + 1
          BY <2>3, <3>5, <5>1
        <5>2. CASE k # n + 1
          <6>1. k \in 1 .. n
            BY <2>3, <5>2
          <6> QED
            BY <2>2, <2>3, <3>5, <6>1 DEF InOrder
        <5> QED
          BY <5>1, <5>2
      <4> QED
        BY <3>5, <4>1 DEF InOrder
    <3>7. before + Len(dispatched') = a + 1
      BY <2>3, <3>5
    <3> QED
      BY <3>2, <3>3, <3>6, <3>7
  <2> QED
    BY <2>1, <2>6, <2>7, <2>8
<1>14. Session'
  BY <1>13 DEF Session
<1> QED
  BY <1>6, <1>8, <1>10, <1>12, <1>14 DEF EzspInv

\* An error was reported, or none is claimed: what is left to show
LEMMA ErrorStep ==
  ASSUME EzspInv, ErrorHandler,
         {sendingCommand', waitingForResponse', connected'} \subseteq BOOLEAN,
         sendingCommand' => waitingForResponse',
         rxQueue' \in Seq(Frame), Len(rxQueue') <= RxPool,
         toHost' \in Seq(Frame),
         reading' \in {"nothing", "buffered", "unbuffered"},
         answer' \in Frame \cup {NoAnswer},
         dispatched' \in Seq(1 .. MaxCallbacks),
         toNcp' \in Seq(1 .. MaxCommands), commands' \in 0 .. MaxCommands,
         callbacks' \in 0 .. MaxCallbacks, before' \in 0 .. callbacks',
         failures' \in 0 .. MaxFailures, timeouts' \in 0 .. MaxTimeouts,
         RoomForPart', MadeOnly(Unread')
  PROVE  EzspInv'
<1>1. ncpNeedsResetAndInit' = TRUE
  BY DEF ErrorHandler
<1>2. EzspTypeOK'
  BY <1>1 DEF EzspTypeOK
<1>3. Session'
  BY <1>1 DEF Session
<1> QED
  BY <1>2, <1>3 DEF EzspInv

\* The parts of the type invariant that a step may leave alone
LEMMA Typed ==
  ASSUME EzspInv
  PROVE  /\ {sendingCommand, waitingForResponse, ncpNeedsResetAndInit,
             connected} \subseteq BOOLEAN
         /\ sendingCommand => waitingForResponse
         /\ rxQueue \in Seq(Frame) /\ Len(rxQueue) <= RxPool
         /\ toHost \in Seq(Frame)
         /\ reading \in {"nothing", "buffered", "unbuffered"}
         /\ answer \in Frame \cup {NoAnswer}
         /\ dispatched \in Seq(1 .. MaxCallbacks)
         /\ toNcp \in Seq(1 .. MaxCommands) /\ commands \in 0 .. MaxCommands
         /\ callbacks \in 0 .. MaxCallbacks /\ before \in 0 .. callbacks
         /\ failures \in 0 .. MaxFailures /\ timeouts \in 0 .. MaxTimeouts
         /\ RoomForPart /\ MadeOnly(Unread)
BY DEF EzspInv, EzspTypeOK

\* One more failure, or time out, of those there may be
LEMMA OneMore ==
  ASSUME NEW m \in Nat, NEW k \in 0 .. m, k < m
  PROVE  k + 1 \in 0 .. m
OBVIOUS

LEMMA PollUnconnectedStep ==
  ASSUME EzspInv, PollUnconnected
  PROVE  EzspInv'
<1>1. /\ ErrorHandler /\ sendingCommand' = FALSE /\ answer' = answer
      /\ UNCHANGED <<waitingForResponse, commands, callbacks, failures, timeouts>>
  BY DEF PollUnconnected, CommandFails
<1>2. CASE NewSession
  <2>1. connected' = TRUE
    BY <1>2 DEF NewSession
  <2> QED
    BY <1>1, <1>2, <2>1, NewSessionStep, ErrorStep, Typed DEF EzspInv
<1>3. CASE UNCHANGED <<connected, rxQueue, reading, dispatched, toNcp, toHost,
                       before>>
  BY <1>1, <1>3, FramesKept, ErrorStep, Typed
<1> QED
  BY <1>2, <1>3 DEF PollUnconnected

LEMMA PollFatalStep ==
  ASSUME EzspInv, PollFatal
  PROVE  EzspInv'
<1>1. /\ ErrorHandler /\ sendingCommand' = FALSE /\ answer' = answer
      /\ connected' = FALSE
      /\ UNCHANGED <<waitingForResponse, rxQueue, reading, dispatched, commands,
                     callbacks, before, toNcp, toHost, timeouts>>
  BY DEF PollFatal, CommandFails
<1>2. failures' \in 0 .. MaxFailures
  BY OneMore, Typed, Bounds DEF PollFatal
<1> QED
  BY <1>1, <1>2, FramesKept, ErrorStep, Typed

LEMMA PollNoSpaceStep ==
  ASSUME EzspInv, PollNoSpace
  PROVE  EzspInv'
<1>1. /\ ErrorHandler /\ sendingCommand' = FALSE /\ answer' = answer
      /\ reading = "unbuffered" /\ reading' = "nothing"
      /\ UNCHANGED <<waitingForResponse, connected, rxQueue, dispatched, commands,
                     callbacks, before, toNcp, toHost, failures, timeouts>>
  BY DEF PollNoSpace, CommandFails
<1>2. Unread' = Unread
  BY <1>1 DEF Unread
<1>3. RoomForPart'
  BY <1>1, Typed DEF RoomForPart, Free
<1> QED
  BY <1>1, <1>2, <1>3, ErrorStep, Typed

LEMMA PollTimesOutStep ==
  ASSUME EzspInv, PollTimesOut
  PROVE  EzspInv'
<1>1. /\ ErrorHandler /\ sendingCommand' = FALSE /\ answer' = answer
      /\ waitingForResponse' = FALSE /\ rxQueue' = Queue
      /\ FrameRead \/ NothingRead
      /\ UNCHANGED <<connected, dispatched, commands, callbacks, before, toNcp>>
  BY DEF PollTimesOut, CommandFails
<1>2. /\ Queue \in Seq(Frame) /\ toHost' \in Seq(Frame)
      /\ Queue \o toHost' = Unread
      /\ Free(Queue, reading') >= 0
      /\ reading' \in {"nothing", "buffered", "unbuffered"}
      /\ failures' \in 0 .. MaxFailures
  BY <1>1, ReadIntoQueue DEF EzspInv
<1>3. Unread' = Unread /\ RoomForPart'
  BY <1>1, <1>2 DEF Unread, RoomForPart, Free
<1>4. timeouts' \in 0 .. MaxTimeouts
  BY OneMore, Typed, Bounds DEF PollTimesOut
<1>5. rxQueue' \in Seq(Frame) /\ Len(rxQueue') <= RxPool
  <2>1. rxQueue' \in Seq(Frame) /\ Len(rxQueue') \in Nat
    BY <1>1, <1>2, LenProperties
  <2> QED
    BY <1>3, <2>1, Bounds DEF RoomForPart, Free
<1> QED
  BY <1>1, <1>2, <1>3, <1>4, <1>5, ErrorStep, Typed

LEMMA CommandUnconnectedStep ==
  ASSUME EzspInv, CommandUnconnected
  PROVE  EzspInv'
<1>1. /\ ErrorHandler /\ answer' = NoAnswer
      /\ UNCHANGED <<sendingCommand, waitingForResponse, callbacks, failures,
                     timeouts>>
  BY DEF CommandUnconnected
<1>2. commands' \in 0 .. MaxCommands
  BY OneMore, Typed, Bounds DEF CommandUnconnected
<1>3. CASE NewSession
  <2>1. connected' = TRUE
    BY <1>3 DEF NewSession
  <2> QED
    BY <1>1, <1>2, <1>3, <2>1, NewSessionStep, ErrorStep, Typed DEF EzspInv
<1>4. CASE UNCHANGED <<connected, rxQueue, reading, dispatched, toNcp, toHost,
                       before>>
  BY <1>1, <1>2, <1>4, FramesKept, ErrorStep, Typed
<1> QED
  BY <1>3, <1>4 DEF CommandUnconnected

LEMMA CommandStep ==
  ASSUME EzspInv, Command
  PROVE  EzspInv'
<1>1. /\ ~sendingCommand /\ commands' = commands + 1
      /\ sendingCommand' = TRUE /\ waitingForResponse' = TRUE
      /\ answer' = NoAnswer /\ toNcp' = Append(toNcp, commands')
      /\ UNCHANGED <<ncpNeedsResetAndInit, connected, rxQueue, reading,
                     dispatched, callbacks, before, toHost, failures, timeouts>>
  BY DEF Command
<1>2. commands' \in 1 .. MaxCommands
  BY <1>1, Typed, Bounds DEF Command
<1>3. toNcp' \in Seq(1 .. MaxCommands)
  BY <1>1, <1>2, Typed, AppendProperties
<1>4. /\ Unread' = Unread /\ RoomForPart' /\ MadeOnly(Unread')
  <2>1. Unread' = Unread
    BY <1>1 DEF Unread
  <2>2. RoomForPart'
    BY <1>1, Typed DEF RoomForPart, Free
  <2> QED
    BY <2>1, <2>2, Typed
<1>5. EzspTypeOK'
  <2>1. commands' \in 0 .. MaxCommands
    BY <1>2
  <2>2. answer' \in Frame \cup {NoAnswer}
    BY <1>1
  <2>3. {sendingCommand', waitingForResponse', ncpNeedsResetAndInit',
         connected'} \subseteq BOOLEAN
    BY <1>1, Typed
  <2> QED
    BY <1>1, <1>3, <2>1, <2>2, <2>3, Typed DEF EzspTypeOK
<1>6. ASSUME ~ncpNeedsResetAndInit
      PROVE  OneCommand(Unread, toNcp', sendingCommand', commands')
  <2> DEFINE m == commands'
  <2>1. OneCommand(Unread, toNcp, sendingCommand, commands)
    BY <1>6 DEF EzspInv, Session
  <2>2. sendingCommand = FALSE /\ m \in 1 .. MaxCommands
    BY <1>1, <1>2, Typed
  <2>3. OneCommand(Unread, toNcp, FALSE, commands)
    BY <2>1, <2>2
  <2> HIDE DEF m
  <2>4. OneCommand(Unread, Append(toNcp, m), TRUE, m)
    BY <2>2, <2>3, CommandSent
  <2> QED
    BY <1>1, <2>4 DEF m
<1>7. Session'
  BY <1>1, <1>4, <1>6 DEF EzspInv, Session
<1> QED
  BY <1>1, <1>4, <1>5, <1>7 DEF EzspInv

LEMMA ResetAndInitStep ==
  ASSUME EzspInv, ResetAndInit
  PROVE  EzspInv'
<1>1. /\ NewSession /\ ncpNeedsResetAndInit' = FALSE
      /\ UNCHANGED <<sendingCommand, waitingForResponse, answer, commands,
                     callbacks, failures, timeouts>>
  BY DEF ResetAndInit
<1>2. connected' = TRUE
  BY <1>1 DEF NewSession
<1>3. /\ rxQueue' \in Seq(Frame) /\ Len(rxQueue') <= RxPool
      /\ toHost' \in Seq(Frame)
      /\ reading' \in {"nothing", "buffered", "unbuffered"}
      /\ dispatched' \in Seq(1 .. MaxCallbacks)
      /\ toNcp' \in Seq(1 .. MaxCommands)
      /\ before' \in 0 .. callbacks'
      /\ RoomForPart' /\ MadeOnly(Unread')
      /\ InOrder(dispatched', before')
      /\ before' + Len(dispatched') <= callbacks'
      /\ Numbered(Unread', before' + Len(dispatched'), callbacks')
      /\ OneCommand(Unread', toNcp', sendingCommand', commands')
  BY <1>1, NewSessionStep DEF EzspInv
<1>4. {sendingCommand', waitingForResponse', ncpNeedsResetAndInit',
       connected'} \subseteq BOOLEAN
  BY <1>1, <1>2, Typed
<1>5. EzspTypeOK'
  BY <1>1, <1>3, <1>4, Typed DEF EzspTypeOK
<1>6. Session'
  BY <1>3 DEF Session
<1> QED
  BY <1>1, <1>3, <1>5, <1>6, Typed DEF EzspInv

\* A frame the NCP sends is the last of the unread.
LEMMA SentToHost ==
  ASSUME EzspInv, NEW f \in Frame, toHost' = Append(toHost, f), UNCHANGED host,
         Async(f) => f.n \in 1 .. MaxCallbacks
  PROVE  /\ Unread' = Append(Unread, f) /\ toHost' \in Seq(Frame)
         /\ RoomForPart' /\ MadeOnly(Unread')
<1>1. rxQueue' = rxQueue /\ reading' = reading
  BY DEF host
<1>2. rxQueue \in Seq(Frame) /\ toHost \in Seq(Frame) /\ Unread \in Seq(Frame)
  BY UnreadType DEF EzspInv
<1>3. toHost' \in Seq(Frame)
  BY <1>2, AppendProperties
<1>4. Append(toHost, f) = toHost \o <<f>> /\ <<f>> \in Seq(Frame)
  BY <1>2, AppendIsConcat
<1>5. Unread' = Append(Unread, f)
  <2>1. rxQueue \o (toHost \o <<f>>) = (rxQueue \o toHost) \o <<f>>
    BY <1>2, <1>4, ConcatAssociative
  <2>2. Append(Unread, f) = Unread \o <<f>>
    BY <1>2, AppendIsConcat
  <2> QED
    BY <1>1, <1>4, <2>1, <2>2 DEF Unread
<1>6. RoomForPart'
  BY <1>1, Typed DEF RoomForPart, Free
<1>7. MadeOnly(Append(Unread, f))
  <2> DEFINE u == Unread
             v == Append(u, f)
  <2>1. /\ Len(u) \in Nat /\ DOMAIN u = 1 .. Len(u)
        /\ DOMAIN v = 1 .. Len(u) + 1
        /\ \A k \in 1 .. Len(u) : v[k] = u[k]
        /\ v[Len(u) + 1] = f
    BY <1>2, Arrived, FrameFields
  <2>2. MadeOnly(u)
    BY Typed
  <2> HIDE DEF u, v
  <2>3. ASSUME NEW k \in CallbacksOf(v)  PROVE v[k].n \in 1 .. MaxCallbacks
    <3>1. k \in 1 .. Len(u) + 1 /\ Async(v[k])
      BY <2>1 DEF CallbacksOf
    <3>2. CASE k \in 1 .. Len(u)
      <4>1. k \in CallbacksOf(u)
        BY <2>1, <3>1, <3>2 DEF CallbacksOf
      <4> QED
        BY <2>1, <2>2, <3>2, <4>1 DEF MadeOnly
    <3>3. CASE k = Len(u) + 1
      BY <2>1, <3>1, <3>3
    <3> QED
      BY <2>1, <3>1, <3>2, <3>3
  <2>4. MadeOnly(v)
    BY <2>3 DEF MadeOnly
  <2> QED
    BY <2>4 DEF u, v
<1> QED
  BY <1>3, <1>5, <1>6, <1>7

LEMMA NcpRespondsStep ==
  ASSUME EzspInv, NcpResponds
  PROVE  EzspInv'
<1>1. PICK flagged \in BOOLEAN :
        /\ failures + (IF flagged THEN 1 ELSE 0) <= MaxFailures
        /\ failures' = failures + (IF flagged THEN 1 ELSE 0)
        /\ toHost' = Append(toHost, [kind |-> "response", n |-> Head(toNcp),
                                     flagged |-> flagged])
  BY DEF NcpResponds
<1> DEFINE f == [kind |-> "response", n |-> Head(toNcp), flagged |-> flagged]
<1>2. /\ toNcp # <<>> /\ toNcp' = Tail(toNcp)
      /\ UNCHANGED <<host, callbacks, before>>
  BY DEF NcpResponds
<1>3. /\ toNcp \in Seq(1 .. MaxCommands)
      /\ Head(toNcp) \in 1 .. MaxCommands /\ toNcp' \in Seq(1 .. MaxCommands)
  BY <1>2, Typed, HeadTailProperties
<1>4. f \in Frame /\ ~Async(f) /\ f.n = Head(toNcp)
  BY <1>3 DEF Frame, Async
<1>5. toHost' = Append(toHost, f)
  BY <1>1
<1> HIDE DEF f
<1>6. /\ Unread' = Append(Unread, f) /\ toHost' \in Seq(Frame)
      /\ RoomForPart' /\ MadeOnly(Unread')
  BY <1>2, <1>4, <1>5, SentToHost
<1>7. /\ UNCHANGED <<sendingCommand, waitingForResponse, ncpNeedsResetAndInit,
                     connected, rxQueue, reading, answer, dispatched, commands,
                     timeouts>>
  BY <1>2 DEF host
<1>8. failures' \in 0 .. MaxFailures
  BY <1>1, Typed, Bounds
<1>9. EzspTypeOK'
  BY <1>2, <1>3, <1>6, <1>7, <1>8, Typed DEF EzspTypeOK
<1>10. ASSUME ~ncpNeedsResetAndInit'
       PROVE  /\ InOrder(dispatched', before')
              /\ before' + Len(dispatched') <= callbacks'
              /\ Numbered(Unread', before' + Len(dispatched'), callbacks')
              /\ OneCommand(Unread', toNcp', sendingCommand', commands')
  <2> DEFINE u == Unread
             a == before + Len(dispatched)
  <2>1. /\ InOrder(dispatched, before) /\ a <= callbacks
        /\ Numbered(u, a, callbacks)
        /\ OneCommand(u, toNcp, sendingCommand, commands)
    BY <1>7, <1>10 DEF EzspInv, Session
  <2>2. a \in Nat /\ callbacks \in Nat /\ u \in Seq(Frame)
    <3>1. before \in Nat /\ callbacks \in Nat /\ Len(dispatched) \in Nat
      BY Typed, Bounds, LenProperties
    <3> QED
      BY <3>1, UnreadType DEF EzspInv
  <2> HIDE DEF u, a
  <2>3. Numbered(Append(u, f), a, callbacks)
    BY <1>4, <2>1, <2>2, ResponseArrived
  <2>4. OneCommand(Append(u, f), Tail(toNcp), sendingCommand, commands)
    BY <1>2, <1>3, <1>4, <2>1, <2>2, Typed, CommandAnswered
  <2> QED
    BY <1>2, <1>6, <1>7, <2>1, <2>3, <2>4 DEF u, a
<1>11. Session'
  BY <1>10 DEF Session
<1> QED
  BY <1>6, <1>7, <1>9, <1>11, Typed DEF EzspInv

LEMMA NcpCallsBackStep ==
  ASSUME EzspInv, NcpCallsBack
  PROVE  EzspInv'
<1> DEFINE f == [kind |-> "callback", n |-> callbacks + 1, flagged |-> FALSE]
<1>1. /\ callbacks < MaxCallbacks /\ callbacks' = callbacks + 1
      /\ toHost' = Append(toHost, f)
      /\ UNCHANGED <<host, before, toNcp, failures>>
  BY DEF NcpCallsBack
<1>2. /\ callbacks \in Nat /\ callbacks + 1 \in 1 .. MaxCallbacks
      /\ before \in 0 .. callbacks
  BY <1>1, Typed, Bounds
<1>3. f \in Frame /\ Async(f) /\ f.n = callbacks + 1
  BY <1>2 DEF Frame, Async
<1> HIDE DEF f
<1>4. /\ Unread' = Append(Unread, f) /\ toHost' \in Seq(Frame)
      /\ RoomForPart' /\ MadeOnly(Unread')
  BY <1>1, <1>2, <1>3, SentToHost
<1>5. /\ UNCHANGED <<sendingCommand, waitingForResponse, ncpNeedsResetAndInit,
                     connected, rxQueue, reading, answer, dispatched, commands,
                     timeouts>>
  BY <1>1 DEF host
<1>6. callbacks' \in 0 .. MaxCallbacks /\ before' \in 0 .. callbacks'
  BY <1>1, <1>2
<1>7. EzspTypeOK'
  BY <1>1, <1>4, <1>5, <1>6, Typed DEF EzspTypeOK
<1>8. ASSUME ~ncpNeedsResetAndInit'
      PROVE  /\ InOrder(dispatched', before')
             /\ before' + Len(dispatched') <= callbacks'
             /\ Numbered(Unread', before' + Len(dispatched'), callbacks')
             /\ OneCommand(Unread', toNcp', sendingCommand', commands')
  <2> DEFINE u == Unread
             a == before + Len(dispatched)
  <2>1. /\ InOrder(dispatched, before) /\ a <= callbacks
        /\ Numbered(u, a, callbacks)
        /\ OneCommand(u, toNcp, sendingCommand, commands)
    BY <1>5, <1>8 DEF EzspInv, Session
  <2>2. a \in Nat /\ u \in Seq(Frame)
    <3>1. before \in Nat /\ Len(dispatched) \in Nat
      BY <1>2, Typed, LenProperties
    <3> QED
      BY <3>1, UnreadType DEF EzspInv
  <2> HIDE DEF u, a
  <2>3. Numbered(Append(u, f), a, callbacks + 1)
    BY <1>2, <1>3, <2>1, <2>2, CallbackArrived
  <2>4. OneCommand(Append(u, f), toNcp, sendingCommand, commands)
    BY <1>3, <2>1, <2>2, Typed, CommandBesideCallback
  <2>5. a <= callbacks + 1
    BY <1>2, <2>1, <2>2
  <2> QED
    BY <1>1, <1>4, <1>5, <2>1, <2>3, <2>4, <2>5 DEF u, a
<1>9. Session'
  BY <1>8 DEF Session
<1> QED
  BY <1>4, <1>5, <1>7, <1>9, Typed DEF EzspInv

LEMMA StutterStep ==
  ASSUME EzspInv, UNCHANGED vars
  PROVE  EzspInv'
<1>1. UNCHANGED <<sendingCommand, waitingForResponse, ncpNeedsResetAndInit,
                  connected, rxQueue, reading, answer, dispatched, commands,
                  timeouts, callbacks, before, toNcp, toHost, failures>>
  BY DEF vars, host, ncp
<1>2. Unread' = Unread
  BY <1>1 DEF Unread
<1>3. EzspTypeOK'
  BY <1>1, Typed DEF EzspTypeOK
<1>4. RoomForPart' /\ MadeOnly(Unread')
  BY <1>1, <1>2, Typed DEF RoomForPart, Free
<1>5. Session'
  BY <1>1, <1>2 DEF EzspInv, Session
<1> QED
  BY <1>1, <1>3, <1>4, <1>5, Typed DEF EzspInv

LEMMA EzspStep == EzspInv /\ [Next]_vars => EzspInv'
<1> SUFFICES ASSUME EzspInv, [Next]_vars  PROVE EzspInv'
  OBVIOUS
<1>1. CASE PollReceives
  BY <1>1, PollStep DEF PollReceives
<1>2. CASE PollReads
  BY <1>2, PollStep DEF PollReads
<1>3. CASE PollQueue
  BY <1>3, PollStep DEF PollQueue
<1>4. CASE PollTimesOut
  BY <1>4, PollTimesOutStep
<1>5. CASE PollNoSpace
  BY <1>5, PollNoSpaceStep
<1>6. CASE PollFatal
  BY <1>6, PollFatalStep
<1>7. CASE PollUnconnected
  BY <1>7, PollUnconnectedStep
<1>8. CASE Command
  BY <1>8, CommandStep
<1>9. CASE CommandUnconnected
  BY <1>9, CommandUnconnectedStep
<1>10. CASE ResetAndInit
  BY <1>10, ResetAndInitStep
<1>11. CASE NcpResponds
  BY <1>11, NcpRespondsStep
<1>12. CASE NcpCallsBack
  BY <1>12, NcpCallsBackStep
<1>13. CASE UNCHANGED vars
  BY <1>13, StutterStep
<1> QED
  BY <1>1, <1>2, <1>3, <1>4, <1>5, <1>6, <1>7, <1>8, <1>9, <1>10, <1>11,
     <1>12, <1>13 DEF Next, HostPolls

-----------------------------------------------------------------------------
(* The theorems.                                                           *)

LEMMA EzspInvariant == Spec => []EzspInv
<1>1. Init => EzspInv
  BY InitStep
<1>2. EzspInv /\ [Next]_vars => EzspInv'
  BY EzspStep
<1> QED
  BY <1>1, <1>2, PTL DEF Spec

\* Types, and with them that the pool of receive buffers is never overdrawn:
\* ashReceiveExec queues no frame without a buffer.
THEOREM EzspTypes == Spec => []EzspTypeOK
<1>1. EzspInv => EzspTypeOK
  BY DEF EzspInv
<1> QED
  BY <1>1, EzspInvariant, PTL

LEMMA KeptBySession == EzspInv => CallbacksKept
<1> SUFFICES ASSUME EzspInv, ~ncpNeedsResetAndInit
             PROVE  /\ dispatched = [k \in DOMAIN dispatched |-> before + k]
                    /\ before + Len(dispatched) <= callbacks
                    /\ {Unread[k].n : k \in Pending}
                         = before + Len(dispatched) + 1 .. callbacks
                    /\ \A j, k \in Pending : j < k => Unread[j].n < Unread[k].n
  BY DEF CallbacksKept
<1> DEFINE a == before + Len(dispatched)
<1>1. /\ InOrder(dispatched, before) /\ a <= callbacks
      /\ Numbered(Unread, a, callbacks)
  BY DEF EzspInv, Session
<1>2. Pending = CallbacksOf(Unread)
  BY DEF Pending, CallbacksOf
<1>3. dispatched = [k \in DOMAIN dispatched |-> before + k]
  <2>1. dispatched = [k \in DOMAIN dispatched |-> dispatched[k]]
    <3>1. dispatched \in [1 .. Len(dispatched) -> 1 .. MaxCallbacks]
      BY Typed, LenProperties
    <3> QED
      BY <3>1
  <2> QED
    BY <1>1, <2>1 DEF InOrder
<1> HIDE DEF a
<1>4. {Unread[k].n : k \in Pending} = a + 1 .. callbacks
  BY <1>1, <1>2 DEF Numbered
<1>5. \A j, k \in Pending : j < k => Unread[j].n < Unread[k].n
  BY <1>1, <1>2 DEF Numbered
<1> QED
  BY <1>1, <1>3, <1>4, <1>5 DEF a

\* Unless an error is reported to the main loop, no callback of the NCP is lost,
\* dispatched twice or out of order, though sendCommand passes callbacks over
\* in the queue and drops one when the pool is used up.
THEOREM CallbacksNeverLost == Spec => []CallbacksKept
BY EzspInvariant, KeptBySession, PTL

\* The only answers are the frames that Taken finds chosen.
LEMMA AnswerOfPoll ==
  ASSUME EzspInv, FrameRead \/ PartRead \/ NothingRead, Poll,
         answer' # answer, ~ncpNeedsResetAndInit
  PROVE  answer'.kind = "response" /\ answer'.n = commands
<1> DEFINE c == Chosen
           q == Queue
           f == q[c]
           u == Unread
           t == toHost'
<1>1. EzspTypeOK /\ RoomForPart
  BY DEF EzspInv
<1>2. q \in Seq(Frame) /\ t \in Seq(Frame) /\ q \o t = u
  BY <1>1, ReadIntoQueue
<1>3. c # 0 /\ Taken(f)
  BY DEF Poll
<1>4. sendingCommand /\ answer' = f
  <2> HIDE DEF f
  <2> QED
    BY <1>3 DEF Taken, CommandFails
<1>5. ~Async(f) /\ c \in 1 .. Len(q)
  <2>1. waitingForResponse = TRUE
    BY <1>4, Typed
  <2>2. Chosen \in 0 .. Len(Queue) /\ Len(Queue) \in Nat /\ ~Async(Queue[Chosen])
    BY <1>2, <1>3, <2>1, ChosenIsFirst, LenProperties
  <2> QED
    BY <1>3, <2>2
<1>6. c \in ResponsesOf(u) /\ u[c] = f
  <2>1. /\ u \in Seq(Frame)
        /\ Len(u) = Len(q) + Len(t) /\ Len(t) \in Nat /\ Len(q) \in Nat
        /\ \A i \in 1 .. Len(q) + Len(t) :
             u[i] = IF i <= Len(q) THEN q[i] ELSE t[i - Len(q)]
    BY <1>2, ConcatProperties, LenProperties
  <2> HIDE DEF u, c, q
  <2>2. c \in 1 .. Len(u) /\ u[c] = f
    BY <1>5, <2>1
  <2>3. DOMAIN u = 1 .. Len(u)
    BY <2>1, LenProperties
  <2> QED
    BY <1>5, <2>2, <2>3 DEF ResponsesOf
<1>7. f.n = commands
  <2>1. OneCommand(u, toNcp, sendingCommand, commands)
    BY DEF EzspInv, Session
  <2> QED
    BY <1>6, <2>1 DEF OneCommand
<1>8. f.kind = "response"
  <2>1. f \in Frame
    BY <1>2, <1>5, ElementOfSeq
  <2> HIDE DEF f
  <2> QED
    BY <1>5, <2>1 DEF Frame, Async
<1> QED
  BY <1>4, <1>7, <1>8

LEMMA AnswerStep ==
  EzspInv /\ [Next]_vars =>
    (answer' # answer /\ answer' # NoAnswer /\ ~ncpNeedsResetAndInit =>
       answer'.kind = "response" /\ answer'.n = commands)
<1> SUFFICES ASSUME EzspInv, [Next]_vars, answer' # answer, answer' # NoAnswer,
                    ~ncpNeedsResetAndInit
             PROVE  answer'.kind = "response" /\ answer'.n = commands
  OBVIOUS
<1>1. CASE PollReceives
  BY <1>1, AnswerOfPoll DEF PollReceives
<1>2. CASE PollReads
  BY <1>2, AnswerOfPoll DEF PollReads
<1>3. CASE PollQueue
  BY <1>3, AnswerOfPoll DEF PollQueue
<1>4. CASE PollTimesOut \/ PollNoSpace \/ PollFatal \/ PollUnconnected
  BY <1>4 DEF PollTimesOut, PollNoSpace, PollFatal, PollUnconnected, CommandFails
<1>5. CASE Command \/ CommandUnconnected \/ ResetAndInit
  BY <1>5 DEF Command, CommandUnconnected, ResetAndInit
<1>6. CASE NcpResponds \/ NcpCallsBack \/ UNCHANGED vars
  BY <1>6 DEF NcpResponds, NcpCallsBack, vars, host
<1> QED
  BY <1>1, <1>2, <1>3, <1>4, <1>5, <1>6 DEF Next, HostPolls

\* Unless an error was reported since the NCP was reset, a command returns with
\* its own response: one given up on leaves none behind that the next one would
\* take, because whatever gives it up reports an error.
THEOREM AnswerIsOwn == Spec => OwnAnswer
<1>1. EzspInv /\ [Next]_vars =>
        [answer' # answer /\ answer' # NoAnswer /\ ~ncpNeedsResetAndInit =>
           answer'.kind = "response" /\ answer'.n = commands]_vars
  BY AnswerStep
<1> QED
  BY <1>1, EzspInvariant, PTL DEF Spec, OwnAnswer

=============================================================================
