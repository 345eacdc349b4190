-------------------------- MODULE TunnelingProofs --------------------------
(***************************************************************************)
(* Proofs about Tunneling, for any clients, servers and endpoints and for  *)
(* tables of every size.                                                   *)
(***************************************************************************)
EXTENDS Tunneling, FiniteSetTheorems, SequenceTheorems, TLAPS

\* Where commands of a kind are under way, and where clients have tunnels
Places(q, is) ==
  {x \in Pairs \X Nat : x[2] \in 1 .. Len(q[x[1]]) /\ q[x[1]][x[2]].is = is}
Held == {x \in Clients \X (1 .. ClientLimit) : opened[x[1]][x[2]].inUse}

\* Each request becomes at most one response, and that at most one tunnel: no
\* client can have more tunnels than were asked for.
Room ==
  /\ IsFiniteSet(Places(toServer, "request"))
  /\ IsFiniteSet(Places(toClient, "response"))
  /\ IsFiniteSet(Held)
  /\ Cardinality(Places(toServer, "request"))
       + Cardinality(Places(toClient, "response")) + Cardinality(Held) <= requests

\* m is of a kind and about the tunnel that d is about
Refers(m, d, kinds) ==
  /\ m.is \in kinds /\ m.tunnelId = d.tunnelId
  /\ m.clientEndpoint = d.clientEndpoint /\ m.serverEndpoint = d.serverEndpoint

NoError(q, from, d) ==
  \A k \in 1 .. Len(q) : k > from => ~Refers(q[k], d, {"error"})

\* The two sides come to agree on the tunnel of d: its response is on its way,
\* or the client has it, and no error is to come; or the client has given it up.
Announced(q, d) ==
  \E j \in 1 .. Len(q) : Refers(q[j], d, {"response"}) /\ NoError(q, j, d)
Known(q, table, p, d) ==
  (\E k \in 1 .. ClientLimit : Matches(table[k], p, d)) /\ NoError(q, 0, d)
GivenUp(q, d) == \E j \in 1 .. Len(q) : Refers(q[j], d, {"close", "error"})
Settled(qc, qs, table, p, d) ==
  Announced(qc, d) \/ Known(qc, table, p, d) \/ GivenUp(qs, d)

Holds(p, i) == served[p[2]][i].inUse /\ served[p[2]][i].client = p[1]
Through(p, i) == Sent("data", i, served[p[2]][i])

Agreed ==
  losses = 0 /\ ClientLimit >= MaxRequests =>
    \A p \in Pairs, i \in Ids :
      Holds(p, i) =>
        Settled(toClient[p], toServer[p], opened[p[1]], p, Through(p, i))

IInv == TypeOK /\ Room /\ Agreed

-----------------------------------------------------------------------------
(* Numbers and queues.                                                     *)

LEMMA Limits ==
  /\ ServerLimit \in Nat \ {0} /\ ClientLimit \in Nat \ {0}
  /\ MaxRequests \in Nat /\ MaxSends \in Nat /\ MaxLosses \in Nat
  /\ MaxIdle \in Nat
  BY TunnelingAssumption DEF TunnelingAssumption

\* The first of some numbers is one of them.
LEMMA FirstIn ==
  ASSUME NEW S, S \subseteq Int, S # {}, IsFiniteSet(S)
  PROVE  First(S) \in S
<1> DEFINE Below(i) == {j \in S : j < i}
           T == {Below(i) : i \in S}
<1>1. FiniteSubsetsOf(S) = SUBSET S
  BY FS_FiniteSubsetsOfFinite
<1>2. T \subseteq FiniteSubsetsOf(S)
  BY <1>1
<1>3. T # {}
  OBVIOUS
<1>4. PICK X \in T : \A Y \in T : ~(<<Y, X>> \in StrictSubsetOrdering(S))
  BY <1>2, <1>3, FS_StrictSubsetOrderingWellFounded, WFMin
<1>5. PICK x \in S : X = Below(x)
  OBVIOUS
<1>6. ASSUME NEW y \in S  PROVE x <= y
  <2>1. SUFFICES ASSUME y < x  PROVE FALSE
    BY <1>6
  <2>2. y \in Below(x) /\ y \notin Below(y)
    BY <2>1
  <2>3. \A j \in S : j < y => j < x
    BY <2>1
  <2>4. Below(y) \subseteq Below(x)
    BY <2>3
  <2>5. Below(x) \in SUBSET S /\ Below(y) \in SUBSET S
    OBVIOUS
  <2>6. Below(y) \in T
    OBVIOUS
  <2> HIDE DEF Below, T
  <2>7. <<Below(y), X>> \in StrictSubsetOrdering(S)
    BY <1>5, <2>2, <2>4, <2>5 DEF StrictSubsetOrdering
  <2> QED
    BY <1>4, <2>6, <2>7
<1> QED
  BY <1>6 DEF First

\* The first free entry of a table
LEMMA FirstFree ==
  ASSUME NEW n \in Nat, NEW table, DOMAIN table = 1 .. n \/ DOMAIN table = 0 .. n,
         FreeIn(table) # {}
  PROVE  First(FreeIn(table)) \in DOMAIN table /\ ~table[First(FreeIn(table))].inUse
<1>1. FreeIn(table) \subseteq DOMAIN table /\ DOMAIN table \subseteq Int
  BY DEF FreeIn
<1>2. IsFiniteSet(DOMAIN table)
  BY FS_Interval
<1>3. IsFiniteSet(FreeIn(table))
  BY <1>1, <1>2, FS_Subset
<1>4. First(FreeIn(table)) \in FreeIn(table)
  BY <1>1, <1>3, FirstIn
<1> QED
  BY <1>4 DEF FreeIn

Queues == [Pairs -> Seq(Command)]

\* A queue that takes a command, and one that gives its first
LEMMA PutQueue ==
  ASSUME NEW q \in Queues, NEW p \in Pairs, NEW m \in Command
  PROVE  LET q2 == [q EXCEPT ![p] = Append(q[p], m)] IN
           /\ q2 \in Queues
           /\ q2[p] = Append(q[p], m) /\ \A r \in Pairs : r # p => q2[r] = q[r]
  BY DEF Queues

LEMMA TakeQueue ==
  ASSUME NEW q \in Queues, NEW p \in Pairs, q[p] # <<>>
  PROVE  LET q2 == [q EXCEPT ![p] = Tail(q[p])] IN
           /\ q2 \in Queues /\ Head(q[p]) \in Command
           /\ q2[p] = Tail(q[p]) /\ \A r \in Pairs : r # p => q2[r] = q[r]
  BY DEF Queues

LEMMA PutPlaces ==
  ASSUME NEW q \in Queues, NEW p \in Pairs, NEW m \in Command, NEW is,
         IsFiniteSet(Places(q, is))
  PROVE  LET P == Places(q, is)
             P2 == Places([q EXCEPT ![p] = Append(q[p], m)], is) IN
           /\ IsFiniteSet(P2)
           /\ Cardinality(P2) <= Cardinality(P) + (IF m.is = is THEN 1 ELSE 0)
<1> DEFINE q2 == [q EXCEPT ![p] = Append(q[p], m)]
           P == Places(q, is)
           P2 == Places(q2, is)
           x == <<p, Len(q[p]) + 1>>
<1>1. /\ q[p] \in Seq(Command) /\ q2[p] = Append(q[p], m)
      /\ \A r \in Pairs : r # p => q2[r] = q[r]
  BY PutQueue DEF Queues
<1>2. /\ Len(q2[p]) = Len(q[p]) + 1 /\ Len(q[p]) \in Nat
      /\ \A k \in 1 .. Len(q[p]) : q2[p][k] = q[p][k]
      /\ q2[p][Len(q[p]) + 1] = m
  BY <1>1
<1>3. ASSUME NEW y \in P2  PROVE y \in P \/ (y = x /\ m.is = is)
  <2>1. y \in Pairs \X Nat /\ y[2] \in 1 .. Len(q2[y[1]]) /\ q2[y[1]][y[2]].is = is
    BY <1>3 DEF Places
  <2>2. CASE y[1] # p
    BY <1>1, <2>1, <2>2 DEF Places
  <2>3. CASE y[1] = p /\ y[2] \in 1 .. Len(q[p])
    BY <1>2, <2>1, <2>3 DEF Places
  <2>4. CASE y[1] = p /\ y[2] = Len(q[p]) + 1
    BY <1>2, <2>1, <2>4
  <2> QED
    BY <1>2, <2>1, <2>2, <2>3, <2>4
<1>4. /\ IsFiniteSet(P \cup {x})
      /\ Cardinality(P \cup {x}) <= Cardinality(P) + 1
      /\ Cardinality(P) \in Nat
  <2>1. Cardinality(P) \in Nat
    BY FS_CardinalityType
  <2>2. /\ IsFiniteSet(P \cup {x})
        /\ Cardinality(P \cup {x}) =
             IF x \in P THEN Cardinality(P) ELSE Cardinality(P) + 1
    BY FS_AddElement
  <2> QED
    BY <2>1, <2>2
<1>5. CASE m.is = is
  <2>1. P2 \in SUBSET (P \cup {x})
    BY <1>3
  <2>2. IsFiniteSet(P2) /\ Cardinality(P2) <= Cardinality(P \cup {x})
    BY <1>4, <2>1, FS_Subset
  <2>3. Cardinality(P2) \in Nat /\ Cardinality(P \cup {x}) \in Nat
    BY <1>4, <2>2, FS_CardinalityType
  <2> QED
    BY <1>4, <1>5, <2>2, <2>3
<1>6. CASE m.is # is
  <2>1. P2 \in SUBSET P
    BY <1>3, <1>6
  <2>2. IsFiniteSet(P2) /\ Cardinality(P2) <= Cardinality(P)
    BY <2>1, FS_Subset
  <2> QED
    BY <1>4, <1>6, <2>2
<1> QED
  BY <1>5, <1>6

LEMMA TakePlaces ==
  ASSUME NEW q \in Queues, NEW p \in Pairs, q[p] # <<>>, NEW is,
         IsFiniteSet(Places(q, is))
  PROVE  LET P == Places(q, is)
             P2 == Places([q EXCEPT ![p] = Tail(q[p])], is) IN
           /\ IsFiniteSet(P2)
           /\ Cardinality(P2) <=
                Cardinality(P) - (IF Head(q[p]).is = is THEN 1 ELSE 0)
<1> DEFINE q2 == [q EXCEPT ![p] = Tail(q[p])]
           P == Places(q, is)
           P2 == Places(q2, is)
           x == <<p, 1>>
           D == P \ {x}
           place == [y \in P2 |-> IF y[1] = p THEN <<p, y[2] + 1>> ELSE y]
<1>1. /\ q[p] \in Seq(Command) /\ q2[p] = Tail(q[p])
      /\ \A r \in Pairs : r # p => q2[r] = q[r]
  BY TakeQueue DEF Queues
<1>2. /\ Len(q2[p]) = Len(q[p]) - 1 /\ Len(q[p]) \in Nat /\ Len(q[p]) >= 1
      /\ \A k \in 1 .. Len(q2[p]) : q2[p][k] = q[p][k + 1]
      /\ q[p][1] = Head(q[p])
  <2>1. Len(q[p]) \in Nat \ {0} /\ q[p][1] = Head(q[p])
    BY <1>1, EmptySeq
  <2>2. /\ Len(Tail(q[p])) = Len(q[p]) - 1
        /\ \A k \in 1 .. Len(Tail(q[p])) : Tail(q[p])[k] = q[p][k + 1]
    BY <1>1, HeadTailProperties
  <2> HIDE DEF q2
  <2> QED
    BY <1>1, <2>1, <2>2
<1>3. ASSUME NEW y \in P2  PROVE place[y] \in D
  <2>1. y \in Pairs \X Nat /\ y[2] \in 1 .. Len(q2[y[1]]) /\ q2[y[1]][y[2]].is = is
    BY <1>3 DEF Places
  <2>2. CASE y[1] # p
    <3>1. place[y] = y /\ y # x /\ y \in P
      BY <1>1, <1>3, <2>1, <2>2 DEF Places
    <3> QED
      BY <3>1
  <2>3. CASE y[1] = p
    <3>1. y[2] + 1 \in 2 .. Len(q[p]) /\ q[p][y[2] + 1].is = is
      BY <1>2, <2>1, <2>3
    <3>2. <<p, y[2] + 1>> \in P /\ <<p, y[2] + 1>> # x
      BY <3>1 DEF Places
    <3> QED
      BY <1>3, <2>3, <3>2
  <2> QED
    BY <2>2, <2>3
<1>4. ASSUME NEW y \in P2, NEW z \in P2, place[y] = place[z]  PROVE y = z
  <2>1. y \in Pairs \X Nat /\ z \in Pairs \X Nat
    BY DEF Places
  <2> QED
    BY <1>4, <2>1
<1>5. place \in Injection(P2, D)
  BY <1>3, <1>4 DEF Injection, IsInjective
<1>6. /\ IsFiniteSet(D) /\ Cardinality(P) \in Nat
      /\ Cardinality(D) = IF x \in P THEN Cardinality(P) - 1 ELSE Cardinality(P)
  BY FS_RemoveElement, FS_CardinalityType
<1>7. IsFiniteSet(P2) /\ Cardinality(P2) <= Cardinality(D)
  BY <1>5, <1>6, FS_Injection
<1>8. Head(q[p]).is = is => x \in P
  BY <1>2 DEF Places
<1>9. Cardinality(P2) \in Nat /\ Cardinality(D) \in Nat
  BY <1>6, <1>7, FS_CardinalityType
<1> QED
  BY <1>6, <1>7, <1>8, <1>9

-----------------------------------------------------------------------------
(* The agreement on one tunnel, as queues and tables change.               *)

\* A command more to the server leaves it, unless to the client an error
LEMMA PutAtServerSettled ==
  ASSUME NEW qc, NEW qs \in Seq(Command), NEW table, NEW p, NEW d,
         NEW m \in Command, Settled(qc, qs, table, p, d)
  PROVE  Settled(qc, Append(qs, m), table, p, d)
<1>1. GivenUp(qs, d) => GivenUp(Append(qs, m), d)
  BY DEF GivenUp
<1> QED
  BY <1>1 DEF Settled

LEMMA PutAtClientSettled ==
  ASSUME NEW qc \in Seq(Command), NEW qs, NEW table, NEW p, NEW d,
         NEW m \in Command, ~Refers(m, d, {"error"}),
         Settled(qc, qs, table, p, d)
  PROVE  Settled(Append(qc, m), qs, table, p, d)
<1> DEFINE q2 == Append(qc, m)
<1>1. /\ Len(qc) \in Nat /\ Len(q2) = Len(qc) + 1 /\ q2[Len(qc) + 1] = m
      /\ \A k \in 1 .. Len(qc) : q2[k] = qc[k]
  OBVIOUS
<1> HIDE DEF q2
<1>2. ASSUME NEW j \in Nat, NoError(qc, j, d)  PROVE NoError(q2, j, d)
  <2> SUFFICES ASSUME NEW k \in 1 .. Len(q2), k > j
               PROVE  ~Refers(q2[k], d, {"error"})
    BY DEF NoError
  <2>1. CASE k = Len(qc) + 1
    BY <1>1, <2>1
  <2>2. CASE k \in 1 .. Len(qc)
    BY <1>1, <1>2, <2>2 DEF NoError
  <2> QED
    BY <1>1, <2>1, <2>2
<1>3. Announced(qc, d) => Announced(q2, d)
  BY <1>1, <1>2 DEF Announced
<1>4. Known(qc, table, p, d) => Known(q2, table, p, d)
  BY <1>2 DEF Known
<1> QED
  BY <1>3, <1>4 DEF Settled, q2

\* The server takes a command that does not give the tunnel up.
LEMMA TakeAtServerSettled ==
  ASSUME NEW qc, NEW qs \in Seq(Command), qs # <<>>, NEW table, NEW p, NEW d,
         ~Refers(Head(qs), d, {"close", "error"}),
         Settled(qc, qs, table, p, d)
  PROVE  Settled(qc, Tail(qs), table, p, d)
<1>1. /\ Len(qs) \in Nat \ {0} /\ Head(qs) = qs[1] /\ Len(Tail(qs)) = Len(qs) - 1
      /\ \A k \in 1 .. Len(Tail(qs)) : Tail(qs)[k] = qs[k + 1]
  BY EmptySeq, HeadTailProperties
<1>2. ASSUME GivenUp(qs, d)  PROVE GivenUp(Tail(qs), d)
  <2>1. PICK j \in 1 .. Len(qs) : Refers(qs[j], d, {"close", "error"})
    BY <1>2 DEF GivenUp
  <2>2. j # 1
    BY <1>1, <2>1
  <2>3. j - 1 \in 1 .. Len(Tail(qs)) /\ Tail(qs)[j - 1] = qs[j]
    BY <1>1, <2>2
  <2> QED
    BY <2>1, <2>3 DEF GivenUp
<1> QED
  BY <1>2 DEF Settled

\* The client takes a command: only the tunnel's response may make it known,
\* and then it has it.
LEMMA TakeAtClientSettled ==
  ASSUME NEW qc \in Seq(Command), qc # <<>>, NEW qs, NEW table, NEW table2,
         NEW p, NEW d,
         Refers(Head(qc), d, {"response"}) =>
           \E k \in 1 .. ClientLimit : Matches(table2[k], p, d),
         ~Refers(Head(qc), d, {"error"}) =>
           \A k \in 1 .. ClientLimit :
             Matches(table[k], p, d) => Matches(table2[k], p, d),
         Settled(qc, qs, table, p, d)
  PROVE  Settled(Tail(qc), qs, table2, p, d)
<1> DEFINE q2 == Tail(qc)
<1>1. /\ Len(qc) \in Nat \ {0} /\ Head(qc) = qc[1] /\ Len(q2) = Len(qc) - 1
      /\ \A k \in 1 .. Len(q2) : q2[k] = qc[k + 1]
  BY EmptySeq, HeadTailProperties
<1> HIDE DEF q2
<1>2. ASSUME NEW j \in Nat, NEW i \in Nat, i + 1 >= j, NoError(qc, j, d)
      PROVE  NoError(q2, i, d)
  <2> SUFFICES ASSUME NEW k \in 1 .. Len(q2), k > i
               PROVE  ~Refers(q2[k], d, {"error"})
    BY DEF NoError
  <2>1. k + 1 \in 1 .. Len(qc) /\ k + 1 > j /\ q2[k] = qc[k + 1]
    BY <1>1, <1>2
  <2> QED
    BY <1>2, <2>1 DEF NoError
<1>3. ASSUME Announced(qc, d)  PROVE Announced(q2, d) \/ Known(q2, table2, p, d)
  <2>1. PICK j \in 1 .. Len(qc) : Refers(qc[j], d, {"response"}) /\ NoError(qc, j, d)
    BY <1>3 DEF Announced
  <2>2. CASE j = 1
    <3>1. NoError(q2, 0, d)
      BY <1>2, <2>1, <2>2
    <3> QED
      BY <1>1, <2>1, <2>2, <3>1 DEF Known
  <2>3. CASE j # 1
    <3>1. j - 1 \in 1 .. Len(q2) /\ q2[j - 1] = qc[j] /\ j - 1 \in Nat /\ j \in Nat
      BY <1>1, <2>3
    <3>2. NoError(q2, j - 1, d)
      BY <1>2, <2>1, <3>1
    <3> QED
      BY <2>1, <3>1, <3>2 DEF Announced
  <2> QED
    BY <2>2, <2>3
<1>4. ASSUME Known(qc, table, p, d)  PROVE Known(q2, table2, p, d)
  <2>1. NoError(q2, 0, d)
    BY <1>2, <1>4 DEF Known
  <2>2. ~Refers(Head(qc), d, {"error"})
    BY <1>1, <1>4 DEF Known, NoError
  <2> QED
    BY <1>4, <2>1, <2>2 DEF Known
<1> QED
  BY <1>3, <1>4 DEF Settled, q2

-----------------------------------------------------------------------------
(* What a step leaves.                                                     *)

ServedTable == [Ids -> ServerTunnel \cup {Free}]

\* A tunnel that a server holds after the step is one that it held before.
TunnelsStay ==
  \A p \in Pairs, i \in Ids :
    Holds(p, i)' => Holds(p, i) /\ Through(p, i)' = Through(p, i)

LEMMA CloseInactive ==
  ASSUME TypeOK, NEW s \in Servers, NEW table \in ServedTable, NEW endpoint,
         NEW scheduled \in SUBSET ServerEndpoints,
         CloseInactiveTunnels(s, table, endpoint, scheduled)
  PROVE  /\ served' \in [Servers -> ServedTable]
         /\ tick' \in [Servers -> SUBSET ServerEndpoints]
         /\ \A r \in Servers : r # s => served'[r] = served[r]
         /\ \A i \in Ids : served'[s][i] = table[i] \/ served'[s][i] = Free
         /\ \A i \in Ids : ~table[i].inactive => served'[s][i] = table[i]
<1> DEFINE here == {i \in Ids : table[i].inUse /\ table[i].serverEndpoint = endpoint}
           inactive == {i \in here : table[i].inactive}
           left == [i \in Ids |-> IF i \in inactive THEN Free ELSE table[i]]
<1>0. /\ served \in [Servers -> ServedTable]
      /\ tick \in [Servers -> SUBSET ServerEndpoints]
  BY DEF TypeOK, ServedTable
<1>1. CASE endpoint \notin ServerEndpoints
  <2>1. /\ served' = [served EXCEPT ![s] = table]
        /\ tick' = [tick EXCEPT ![s] = scheduled]
    BY <1>1 DEF CloseInactiveTunnels
  <2> QED
    BY <1>0, <2>1
<1>2. CASE endpoint \in ServerEndpoints
  <2>1. /\ served' = [served EXCEPT ![s] = left]
        /\ tick' = [tick EXCEPT ![s] =
             scheduled \cup (IF here \ inactive = {} THEN {} ELSE {endpoint})]
    BY <1>2 DEF CloseInactiveTunnels
  <2>2. left \in ServedTable
    BY DEF ServedTable
  <2>3. /\ \A i \in Ids : left[i] = table[i] \/ left[i] = Free
        /\ \A i \in Ids : ~table[i].inactive => left[i] = table[i]
    OBVIOUS
  <2>4. scheduled \cup (IF here \ inactive = {} THEN {} ELSE {endpoint})
          \in SUBSET ServerEndpoints
    BY <1>2
  <2> HIDE DEF left
  <2> QED
    BY <1>0, <2>1, <2>2, <2>3, <2>4
<1> QED
  BY <1>1, <1>2

\* Room is left by a step that adds nothing without taking as much away.
LEMMA RoomStep ==
  ASSUME Room, requests \in Nat, requests' \in Nat,
         NEW a \in Int, NEW b \in Int, NEW c \in Int, a + b + c <= requests' - requests,
         IsFiniteSet(Places(toServer', "request")),
         IsFiniteSet(Places(toClient', "response")), IsFiniteSet(Held'),
         Cardinality(Places(toServer', "request")) <=
           Cardinality(Places(toServer, "request")) + a,
         Cardinality(Places(toClient', "response")) <=
           Cardinality(Places(toClient, "response")) + b,
         Cardinality(Held') <= Cardinality(Held) + c
  PROVE  Room'
<1> DEFINE asked == Cardinality(Places(toServer, "request"))
           answered == Cardinality(Places(toClient, "response"))
           held == Cardinality(Held)
<1>1. /\ asked \in Nat /\ answered \in Nat /\ held \in Nat
      /\ asked' \in Nat /\ answered' \in Nat /\ held' \in Nat
  BY FS_CardinalityType DEF Room
<1>2. asked + answered + held <= requests
  BY DEF Room
<1>3. asked' <= asked + a /\ answered' <= answered + b /\ held' <= held + c
  OBVIOUS
<1>4. asked' + answered' + held' <= requests'
  <2> HIDE DEF asked, answered, held
  <2>1. PICK x \in Nat, y \in Nat, z \in Nat, r \in Nat :
          x = asked' /\ y = answered' /\ z = held' /\ r = requests'
    BY <1>1
  <2>2. x <= asked + a /\ y <= answered + b /\ z <= held + c
        /\ a + b + c <= r - requests
    BY <1>3, <2>1
  <2>3. x + y + z <= r
    BY <1>1, <1>2, <2>2
  <2> QED
    BY <2>1, <2>3
<1> QED
  BY <1>4 DEF Room

LEMMA HeldFewer ==
  ASSUME IsFiniteSet(Held), Held' \subseteq Held
  PROVE  IsFiniteSet(Held') /\ Cardinality(Held') <= Cardinality(Held)
  BY FS_Subset

LEMMA HeldOneMore ==
  ASSUME IsFiniteSet(Held), NEW x, Held' \subseteq Held \cup {x}
  PROVE  IsFiniteSet(Held') /\ Cardinality(Held') <= Cardinality(Held) + 1
<1>1. /\ IsFiniteSet(Held \cup {x}) /\ Cardinality(Held) \in Nat
      /\ Cardinality(Held \cup {x}) = Cardinality(Held)
           \/ Cardinality(Held \cup {x}) = Cardinality(Held) + 1
  BY FS_AddElement, FS_CardinalityType
<1>2. /\ IsFiniteSet(Held')
      /\ Cardinality(Held') <= Cardinality(Held \cup {x})
  BY <1>1, FS_Subset
<1> QED
  BY <1>1, <1>2, FS_CardinalityType

\* Steps of a server alone
LEMMA ServerStepInv ==
  ASSUME IInv, TunnelsStay, UNCHANGED <<opened, toServer, toClient, requests, losses>>
  PROVE  Room' /\ Agreed'
<1>1. Held' = Held
  BY DEF Held
<1>2. Room'
  BY <1>1 DEF IInv, Room
<1>3. Agreed'
  <2> SUFFICES ASSUME losses = 0, ClientLimit >= MaxRequests,
                      NEW p \in Pairs, NEW i \in Ids, Holds(p, i)'
               PROVE  Settled(toClient[p], toServer[p], opened[p[1]], p, Through(p, i)')
    BY DEF Agreed
  <2> QED
    BY DEF TunnelsStay, IInv, Agreed
<1> QED
  BY <1>2, <1>3

-----------------------------------------------------------------------------
(* The server's steps.                                                     *)

LEMMA SentType ==
  ASSUME NEW is \in {"request", "response", "data", "error", "close"},
         NEW id \in Ids \cup {NoId}, NEW t,
         t.clientEndpoint \in ClientEndpoints, t.serverEndpoint \in ServerEndpoints
  PROVE  Sent(is, id, t) \in Command
  BY DEF Sent, Command

LEMMA CommandType ==
  ASSUME NEW m \in Command
  PROVE  /\ m.tunnelId \in Ids \cup {NoId}
         /\ m.clientEndpoint \in ClientEndpoints
         /\ m.serverEndpoint \in ServerEndpoints
  BY DEF Command

LEMMA QueueTypes == TypeOK => toServer \in Queues /\ toClient \in Queues
  BY DEF TypeOK, Queues

\* The command that a server or a client takes
LEMMA ServerTakes ==
  ASSUME TypeOK, NEW p \in Pairs, NEW m, TakeAtServer(p, m)
  PROVE  /\ m \in Command /\ m = Head(toServer[p]) /\ toServer[p] # <<>>
         /\ toServer' = [toServer EXCEPT ![p] = Tail(toServer[p])]
         /\ toServer' \in Queues /\ toServer'[p] = Tail(toServer[p])
         /\ \A r \in Pairs : r # p => toServer'[r] = toServer[r]
<1>1. /\ m = Head(toServer[p]) /\ toServer[p] # <<>>
      /\ toServer' = [toServer EXCEPT ![p] = Tail(toServer[p])]
  BY DEF TakeAtServer
<1>2. toServer \in Queues
  BY QueueTypes
<1> DEFINE q2 == [toServer EXCEPT ![p] = Tail(toServer[p])]
<1>3. /\ q2 \in Queues /\ Head(toServer[p]) \in Command
      /\ q2[p] = Tail(toServer[p]) /\ \A r \in Pairs : r # p => q2[r] = toServer[r]
  BY <1>1, <1>2, TakeQueue
<1> HIDE DEF q2
<1> QED
  BY <1>1, <1>3 DEF q2

LEMMA ClientTakes ==
  ASSUME TypeOK, NEW p \in Pairs, NEW m, TakeAtClient(p, m)
  PROVE  /\ m \in Command /\ m = Head(toClient[p]) /\ toClient[p] # <<>>
         /\ toClient' = [toClient EXCEPT ![p] = Tail(toClient[p])]
         /\ toClient' \in Queues /\ toClient'[p] = Tail(toClient[p])
         /\ \A r \in Pairs : r # p => toClient'[r] = toClient[r]
<1>1. /\ m = Head(toClient[p]) /\ toClient[p] # <<>>
      /\ toClient' = [toClient EXCEPT ![p] = Tail(toClient[p])]
  BY DEF TakeAtClient
<1>2. toClient \in Queues
  BY QueueTypes
<1> DEFINE q2 == [toClient EXCEPT ![p] = Tail(toClient[p])]
<1>3. /\ q2 \in Queues /\ Head(toClient[p]) \in Command
      /\ q2[p] = Tail(toClient[p]) /\ \A r \in Pairs : r # p => q2[r] = toClient[r]
  BY <1>1, <1>2, TakeQueue
<1> HIDE DEF q2
<1> QED
  BY <1>1, <1>3 DEF q2

LEMMA PairType ==
  ASSUME NEW p \in Pairs
  PROVE  p[1] \in Clients /\ p[2] \in Servers /\ p = <<p[1], p[2]>>
  BY DEF Pairs

\* The queues after a request
LEMMA RequestQueues ==
  ASSUME IInv, NEW p \in Pairs, NEW m, TakeAtServer(p, m), m.is = "request",
         NEW id \in Ids \cup {NoId}, SendToClient(p, Sent("response", id, m)),
         UNCHANGED <<opened, told, bounds>>
  PROVE  /\ toServer' \in Queues /\ toClient' \in Queues /\ Room'
         /\ Sent("response", id, m) \in Command
         /\ toClient'[p] = Append(toClient[p], Sent("response", id, m))
         /\ \A r \in Pairs : r # p => toClient'[r] = toClient[r]
<1> DEFINE r == Sent("response", id, m)
<1>1. TypeOK /\ Room /\ toServer \in Queues /\ toClient \in Queues
  BY QueueTypes DEF IInv
<1>2. /\ m \in Command /\ m = Head(toServer[p]) /\ toServer[p] # <<>>
      /\ toServer' = [toServer EXCEPT ![p] = Tail(toServer[p])]
      /\ toServer' \in Queues
  BY <1>1, ServerTakes
<1>3. r \in Command /\ r.is = "response"
  BY <1>2, CommandType, SentType DEF Sent
<1>4. toClient' = [toClient EXCEPT ![p] = Append(toClient[p], r)]
  BY DEF SendToClient
<1> HIDE DEF r
<1>5. /\ toClient' \in Queues /\ toClient'[p] = Append(toClient[p], r)
      /\ \A q \in Pairs : q # p => toClient'[q] = toClient[q]
  <2> DEFINE q2 == [toClient EXCEPT ![p] = Append(toClient[p], r)]
  <2>1. /\ q2 \in Queues /\ q2[p] = Append(toClient[p], r)
        /\ \A q \in Pairs : q # p => q2[q] = toClient[q]
    BY <1>1, <1>3, PutQueue
  <2> HIDE DEF q2
  <2> QED
    BY <1>4, <2>1 DEF q2
<1>6. /\ IsFiniteSet(Places(toServer', "request"))
      /\ Cardinality(Places(toServer', "request")) <=
           Cardinality(Places(toServer, "request")) - 1
  BY <1>1, <1>2, TakePlaces DEF Room
<1>7. /\ IsFiniteSet(Places(toClient', "response"))
      /\ Cardinality(Places(toClient', "response")) <=
           Cardinality(Places(toClient, "response")) + 1
  BY <1>1, <1>3, <1>4, PutPlaces DEF Room
<1>8. Held' = Held /\ requests' = requests /\ IsFiniteSet(Held)
  BY <1>1 DEF Held, bounds, Room
<1>9. Room'
  <2>1. requests \in Nat /\ Cardinality(Held) \in Nat
        /\ Cardinality(Places(toServer, "request")) \in Nat
    BY <1>1, FS_CardinalityType, Limits DEF TypeOK, Room
  <2>2. /\ (-1) + 1 + 0 <= requests - requests
        /\ Cardinality(Held) <= Cardinality(Held) + 0
        /\ Cardinality(Places(toServer, "request")) - 1
             = Cardinality(Places(toServer, "request")) + (-1)
    BY <2>1
  <2> QED
    BY <1>1, <1>6, <1>7, <1>8, <2>1, <2>2, RoomStep
<1> QED
  BY <1>2, <1>3, <1>5, <1>9 DEF r

\* What was agreed on before is settled after a request of any client.
LEMMA RequestSettled ==
  ASSUME IInv, losses = 0, ClientLimit >= MaxRequests,
         NEW p \in Pairs, NEW m, TakeAtServer(p, m), m.is = "request",
         NEW r \in Command, r.is = "response",
         toClient'[p] = Append(toClient[p], r),
         \A q \in Pairs : q # p => toClient'[q] = toClient[q],
         NEW p2 \in Pairs, NEW i \in Ids, Holds(p2, i)
  PROVE  Settled(toClient'[p2], toServer'[p2], opened[p2[1]], p2, Through(p2, i))
<1> DEFINE d == Through(p2, i)
<1>1. /\ toServer[p2] \in Seq(Command) /\ toClient[p2] \in Seq(Command) /\ TypeOK
      /\ Settled(toClient[p2], toServer[p2], opened[p2[1]], p2, d)
  BY QueueTypes DEF IInv, Agreed, Queues
<1>2. /\ m = Head(toServer[p]) /\ toServer[p] # <<>>
      /\ toServer'[p] = Tail(toServer[p])
      /\ \A q \in Pairs : q # p => toServer'[q] = toServer[q]
  BY <1>1, ServerTakes
<1> HIDE DEF d
<1>3. CASE p2 = p
  <2>1. ~Refers(r, d, {"error"}) /\ ~Refers(m, d, {"close", "error"})
    BY DEF Refers
  <2>2. Settled(Append(toClient[p], r), toServer[p], opened[p2[1]], p2, d)
    BY <1>1, <1>3, <2>1, PutAtClientSettled
  <2>3. Settled(Append(toClient[p], r), Tail(toServer[p]), opened[p2[1]], p2, d)
    BY <1>1, <1>2, <1>3, <2>1, <2>2, TakeAtServerSettled
  <2> QED
    BY <1>2, <1>3, <2>3 DEF d
<1>4. CASE p2 # p
  BY <1>1, <1>2, <1>4 DEF d
<1> QED
  BY <1>3, <1>4

LEMMA RefusedStep ==
  ASSUME IInv, NEW p \in Pairs, NEW m, TakeAtServer(p, m), m.is = "request",
         SendToClient(p, Sent("response", NoId, m)),
         UNCHANGED <<served, tick, opened, told, bounds>>
  PROVE  IInv'
<1>1. /\ toServer' \in Queues /\ toClient' \in Queues /\ Room'
      /\ Sent("response", NoId, m) \in Command
      /\ toClient'[p] = Append(toClient[p], Sent("response", NoId, m))
      /\ \A q \in Pairs : q # p => toClient'[q] = toClient[q]
  BY RequestQueues
<1>2. TypeOK'
  BY <1>1 DEF IInv, TypeOK, Queues, bounds
<1>3. Agreed'
  <2> SUFFICES ASSUME losses = 0, ClientLimit >= MaxRequests,
                      NEW p2 \in Pairs, NEW i \in Ids, Holds(p2, i)
               PROVE  Settled(toClient'[p2], toServer'[p2], opened[p2[1]], p2,
                              Through(p2, i))
    BY DEF Agreed, Holds, Through, bounds
  <2>1. Sent("response", NoId, m).is = "response"
    BY DEF Sent
  <2> QED
    BY <1>1, <2>1, RequestSettled
<1> QED
  BY <1>1, <1>2, <1>3 DEF IInv

LEMMA ServedType ==
  ASSUME TypeOK, NEW s \in Servers
  PROVE  /\ served \in [Servers -> ServedTable] /\ served[s] \in ServedTable
         /\ DOMAIN served[s] = 0 .. ServerLimit - 1
  BY DEF TypeOK, ServedTable, Ids

LEMMA AcceptedStep ==
  ASSUME IInv, NEW p \in Pairs, NEW m, TakeAtServer(p, m), m.is = "request",
         NEW i, i = First(FreeIn(served[p[2]])), FreeIn(served[p[2]]) # {},
         NEW tunnel,
         tunnel = [inUse |-> TRUE, client |-> p[1],
                   clientEndpoint |-> m.clientEndpoint,
                   serverEndpoint |-> m.serverEndpoint, inactive |-> FALSE],
         CloseInactiveTunnels(p[2], [served[p[2]] EXCEPT ![i] = tunnel],
                              m.clientEndpoint, tick[p[2]]),
         SendToClient(p, Sent("response", i, m)),
         UNCHANGED <<opened, told, bounds>>
  PROVE  IInv'
<1> DEFINE s == p[2]
           table == [served[s] EXCEPT ![i] = tunnel]
           r == Sent("response", i, m)
<1>1. /\ TypeOK /\ s \in Servers /\ p[1] \in Clients /\ p = <<p[1], s>>
      /\ served[s] \in ServedTable /\ m \in Command
  BY PairType, ServedType, ServerTakes DEF IInv
<1>2. i \in Ids
  <2>1. ServerLimit - 1 \in Nat
    BY Limits
  <2> QED
    BY <1>1, <2>1, ServedType, FirstFree DEF Ids
<1>3. tunnel \in ServerTunnel
  BY <1>1, CommandType DEF ServerTunnel
<1>4. table \in ServedTable
  BY <1>1, <1>2, <1>3 DEF ServedTable
<1>5. table[i] = tunnel /\ \A j \in Ids : j # i => table[j] = served[s][j]
  BY <1>1, <1>2 DEF ServedTable
<1>6. tick[s] \in SUBSET ServerEndpoints
  BY <1>1 DEF TypeOK
<1> HIDE DEF table
<1>7. /\ served' \in [Servers -> ServedTable]
      /\ tick' \in [Servers -> SUBSET ServerEndpoints]
      /\ \A q \in Servers : q # s => served'[q] = served[q]
      /\ \A j \in Ids : served'[s][j] = table[j] \/ served'[s][j] = Free
      /\ \A j \in Ids : ~table[j].inactive => served'[s][j] = table[j]
  BY <1>1, <1>4, <1>6, CloseInactive DEF table
<1>8. /\ toServer' \in Queues /\ toClient' \in Queues /\ Room' /\ r \in Command
      /\ toClient'[p] = Append(toClient[p], r)
      /\ \A q \in Pairs : q # p => toClient'[q] = toClient[q]
  BY <1>2, RequestQueues
<1>9. TypeOK'
  BY <1>1, <1>7, <1>8 DEF TypeOK, Queues, ServedTable, bounds
<1>10. Agreed'
  <2> SUFFICES ASSUME losses = 0, ClientLimit >= MaxRequests,
                      NEW p2 \in Pairs, NEW j \in Ids, Holds(p2, j)'
               PROVE  Settled(toClient'[p2], toServer'[p2], opened[p2[1]], p2,
                              Through(p2, j)')
    BY DEF Agreed, bounds
  <2>1. r.is = "response" /\ p2[1] \in Clients /\ p2[2] \in Servers /\ p2 = <<p2[1], p2[2]>>
    BY PairType DEF Sent
  <2>2. CASE p2[2] = s /\ j = i
    <3>1. served'[s][i] = tunnel
      BY <1>2, <1>5, <1>7
    <3>2. p2 = p
      BY <1>1, <2>1, <2>2, <3>1 DEF Holds
    <3>3. Refers(r, Through(p2, j)', {"response"})
      BY <2>2, <3>1 DEF Through, Refers, Sent
    <3>4. toClient[p] \in Seq(Command)
      BY <1>1 DEF TypeOK
    <3>5. /\ Len(Append(toClient[p], r)) = Len(toClient[p]) + 1
          /\ Append(toClient[p], r)[Len(toClient[p]) + 1] = r
          /\ Len(toClient[p]) \in Nat
      BY <1>8, <3>4
    <3>6. Announced(Append(toClient[p], r), Through(p2, j)')
      BY <3>3, <3>5 DEF Announced, NoError
    <3> QED
      BY <1>8, <3>2, <3>6 DEF Settled
  <2>3. CASE ~(p2[2] = s /\ j = i)
    <3>1. served'[p2[2]][j] = served[p2[2]][j] \/ served'[p2[2]][j] = Free
      BY <1>5, <1>7, <2>1, <2>3
    <3>2. Holds(p2, j) /\ Through(p2, j)' = Through(p2, j)
      BY <3>1 DEF Holds, Through, Free
    <3> QED
      BY <1>8, <2>1, <3>2, RequestSettled
  <2> QED
    BY <2>2, <2>3
<1> QED
  BY <1>8, <1>9, <1>10 DEF IInv

LEMMA RequestTunnelStep ==
  ASSUME IInv, NEW p \in Pairs, NEW m, RequestTunnel(p, m)
  PROVE  IInv'
<1> DEFINE i == First(FreeIn(served[p[2]]))
           tunnel == [inUse |-> TRUE, client |-> p[1],
                      clientEndpoint |-> m.clientEndpoint,
                      serverEndpoint |-> m.serverEndpoint, inactive |-> FALSE]
<1>1. CASE /\ SendToClient(p, Sent("response", NoId, m))
           /\ UNCHANGED <<served, tick>>
  BY <1>1, RefusedStep DEF RequestTunnel
<1>2. CASE /\ FreeIn(served[p[2]]) # {}
           /\ CloseInactiveTunnels(p[2], [served[p[2]] EXCEPT ![i] = tunnel],
                                   m.clientEndpoint, tick[p[2]])
           /\ SendToClient(p, Sent("response", i, m))
  BY <1>2, AcceptedStep DEF RequestTunnel
<1> QED
  BY <1>1, <1>2 DEF RequestTunnel

\* A command that is no request leaves no less room when it is taken.
LEMMA TakenRoom ==
  ASSUME IInv, NEW p \in Pairs, NEW m, TakeAtServer(p, m),
         UNCHANGED <<opened, requests>>,
         \/ UNCHANGED toClient
         \/ \E r \in Command : r.is = "error" /\ SendToClient(p, r)
  PROVE  Room'
<1>1. /\ TypeOK /\ Room /\ toServer \in Queues /\ toClient \in Queues
      /\ requests \in Nat
  BY QueueTypes, Limits DEF IInv, TypeOK
<1>2. /\ toServer' = [toServer EXCEPT ![p] = Tail(toServer[p])]
      /\ toServer[p] # <<>>
  BY <1>1, ServerTakes
<1>3. /\ Cardinality(Places(toServer, "request")) \in Nat
      /\ Cardinality(Places(toClient, "response")) \in Nat
      /\ Cardinality(Held) \in Nat
  BY <1>1, FS_CardinalityType DEF Room
<1>4. /\ IsFiniteSet(Places(toServer', "request"))
      /\ Cardinality(Places(toServer', "request")) <=
           Cardinality(Places(toServer, "request")) + 0
  <2>1. /\ IsFiniteSet(Places(toServer', "request"))
        /\ Cardinality(Places(toServer', "request")) <=
             Cardinality(Places(toServer, "request"))
               - (IF Head(toServer[p]).is = "request" THEN 1 ELSE 0)
    BY <1>1, <1>2, TakePlaces DEF Room
  <2>2. PICK n \in Nat : n = Cardinality(Places(toServer', "request"))
    BY <2>1, FS_CardinalityType
  <2> QED
    BY <1>3, <2>1, <2>2
<1>5. /\ IsFiniteSet(Places(toClient', "response"))
      /\ Cardinality(Places(toClient', "response")) <=
           Cardinality(Places(toClient, "response")) + 0
  <2>1. CASE UNCHANGED toClient
    BY <1>1, <1>3, <2>1 DEF Room
  <2>2. ASSUME NEW r \in Command, r.is = "error", SendToClient(p, r)
        PROVE  <1>5!1 /\ <1>5!2
    <3>1. toClient' = [toClient EXCEPT ![p] = Append(toClient[p], r)]
      BY <2>2 DEF SendToClient
    <3>2. r.is # "response"
      BY <2>2
    <3> QED
      BY <1>1, <3>1, <3>2, PutPlaces DEF Room
  <2> QED
    BY <2>1, <2>2
<1>6. Held' = Held /\ requests' = requests
  BY DEF Held
<1>7. 0 + 0 + 0 <= requests - requests /\ Cardinality(Held) <= Cardinality(Held) + 0
  BY <1>1, <1>3
<1> QED
  BY <1>1, <1>4, <1>5, <1>6, <1>7, RoomStep DEF Room

LEMMA CloseTunnelStep ==
  ASSUME IInv, NEW p \in Pairs, NEW m, CloseTunnel(p, m)
  PROVE  IInv'
<1> DEFINE s == p[2]
<1>1. /\ TypeOK /\ s \in Servers /\ TakeAtServer(p, m) /\ m.is \in {"close", "error"}
      /\ served \in [Servers -> ServedTable] /\ m \in Command
      /\ m = Head(toServer[p]) /\ toServer[p] # <<>>
      /\ toServer' \in Queues /\ toServer'[p] = Tail(toServer[p])
      /\ \A q \in Pairs : q # p => toServer'[q] = toServer[q]
      /\ UNCHANGED <<tick, opened, told, toClient, bounds>>
  BY PairType, ServedType, ServerTakes DEF IInv, CloseTunnel
<1>2. Room'
  BY <1>1, TakenRoom DEF bounds
<1>3. /\ served' \in [Servers -> ServedTable]
      /\ \A r \in Servers, i \in Ids :
           served'[r][i] = IF ServerFinds(p, m) /\ r = s /\ i = m.tunnelId
                             THEN Free ELSE served[r][i]
  <2>1. CASE ServerFinds(p, m)
    <3>1. /\ served' = [served EXCEPT ![s][m.tunnelId] = Free]
          /\ m.tunnelId \in Ids
      BY <2>1 DEF CloseTunnel, ServerFinds
    <3> QED
      BY <1>1, <2>1, <3>1 DEF ServedTable
  <2>2. CASE ~ServerFinds(p, m)
    BY <1>1, <2>2 DEF CloseTunnel
  <2> QED
    BY <2>1, <2>2
<1>4. TypeOK'
  BY <1>1, <1>3 DEF TypeOK, ServedTable, Queues, bounds
<1>5. Agreed'
  <2> SUFFICES ASSUME losses = 0, ClientLimit >= MaxRequests,
                      NEW p2 \in Pairs, NEW i \in Ids, Holds(p2, i)'
               PROVE  Settled(toClient[p2], toServer'[p2], opened[p2[1]], p2,
                              Through(p2, i)')
    BY <1>1 DEF Agreed, bounds
  <2> DEFINE d == Through(p2, i)
  <2>1. p2[1] \in Clients /\ p2[2] \in Servers /\ p2 = <<p2[1], p2[2]>>
    BY PairType
  <2>2. served'[p2[2]][i] = served[p2[2]][i]
        /\ ~(ServerFinds(p, m) /\ p2[2] = s /\ i = m.tunnelId)
    BY <1>3, <2>1 DEF Holds, Free
  <2>3. Holds(p2, i) /\ d' = d
    BY <2>2 DEF Holds, Through
  <2>4. Settled(toClient[p2], toServer[p2], opened[p2[1]], p2, d)
    BY <2>3 DEF IInv, Agreed
  <2>5. CASE p2 = p
    <3>1. ~Refers(m, d, {"close", "error"})
      BY <2>2, <2>3, <2>5 DEF Refers, ServerFinds, Holds, Through, Sent
    <3>2. toServer[p] \in Seq(Command)
      BY <1>1 DEF TypeOK
    <3> HIDE DEF d
    <3>3. Settled(toClient[p], Tail(toServer[p]), opened[p[1]], p, d)
      BY <1>1, <2>4, <2>5, <3>1, <3>2, TakeAtServerSettled
    <3> QED
      BY <1>1, <2>3, <2>5, <3>3 DEF d
  <2>6. CASE p2 # p
    BY <1>1, <2>3, <2>4, <2>6
  <2> QED
    BY <2>5, <2>6
<1> QED
  BY <1>2, <1>4, <1>5 DEF IInv

\* Activity, or its end, changes nothing else of a tunnel.
LEMMA ActivityStep ==
  ASSUME TypeOK, NEW s \in Servers, NEW i \in Ids, served[s][i].inUse,
         NEW b \in BOOLEAN, served' = [served EXCEPT ![s][i].inactive = b]
  PROVE  served' \in [Servers -> ServedTable] /\ TunnelsStay
<1>1. served \in [Servers -> ServedTable] /\ served[s] \in ServedTable
  BY ServedType
<1>2. served[s][i] \in ServerTunnel
  BY <1>1 DEF ServedTable, Free
<1>3. DEFINE t == [served[s][i] EXCEPT !.inactive = b]
<1>4. /\ t \in ServerTunnel /\ t.client = served[s][i].client
      /\ t.clientEndpoint = served[s][i].clientEndpoint
      /\ t.serverEndpoint = served[s][i].serverEndpoint
  BY <1>2 DEF ServerTunnel
<1>5. served' = [served EXCEPT ![s] = [served[s] EXCEPT ![i] = t]]
  OBVIOUS
<1> HIDE DEF t
<1>6. /\ served' \in [Servers -> ServedTable]
      /\ \A r \in Servers, j \in Ids :
           served'[r][j] = IF r = s /\ j = i THEN t ELSE served[r][j]
  BY <1>1, <1>4, <1>5 DEF ServedTable
<1>7. TunnelsStay
  <2> SUFFICES ASSUME NEW p \in Pairs, NEW j \in Ids, Holds(p, j)'
               PROVE  Holds(p, j) /\ Through(p, j)' = Through(p, j)
    BY DEF TunnelsStay
  <2>1. p[2] \in Servers
    BY PairType
  <2> QED
    BY <1>4, <1>6, <2>1 DEF Holds, Through, Sent
<1> QED
  BY <1>6, <1>7

LEMMA DataAtServerStep ==
  ASSUME IInv, NEW p \in Pairs, NEW m, TransferDataClientToServer(p, m)
  PROVE  IInv'
<1> DEFINE s == p[2]
           r == Sent("error", m.tunnelId, m)
<1>1. /\ TypeOK /\ s \in Servers /\ TakeAtServer(p, m) /\ m.is = "data"
      /\ served \in [Servers -> ServedTable] /\ m \in Command
      /\ m = Head(toServer[p]) /\ toServer[p] # <<>>
      /\ toServer' \in Queues /\ toServer'[p] = Tail(toServer[p])
      /\ \A q \in Pairs : q # p => toServer'[q] = toServer[q]
      /\ UNCHANGED <<tick, opened, told, bounds>>
      /\ toServer \in Queues /\ toClient \in Queues
  BY PairType, ServedType, ServerTakes, QueueTypes
     DEF IInv, TransferDataClientToServer
<1>2. r \in Command /\ r.is = "error"
  BY <1>1, CommandType, SentType DEF Sent
<1>3. \/ UNCHANGED toClient
      \/ ~ServerFinds(p, m) /\ UNCHANGED served /\ SendToClient(p, r)
  BY DEF TransferDataClientToServer
<1>4. Room'
  BY <1>1, <1>2, <1>3, TakenRoom DEF bounds
<1>5. served' \in [Servers -> ServedTable] /\ TunnelsStay
  <2>1. CASE ServerFinds(p, m)
    BY <1>1, <2>1, ActivityStep DEF TransferDataClientToServer, ServerFinds
  <2>2. CASE ~ServerFinds(p, m)
    BY <1>1, <2>2 DEF TransferDataClientToServer, TunnelsStay, Holds, Through
  <2> QED
    BY <2>1, <2>2
<1>6. /\ toClient' \in Queues
      /\ \A q \in Pairs : q # p => toClient'[q] = toClient[q]
      /\ \/ toClient'[p] = toClient[p]
         \/ ~ServerFinds(p, m) /\ toClient'[p] = Append(toClient[p], r)
  <2>1. CASE UNCHANGED toClient
    BY <1>1, <2>1
  <2>2. CASE ~ServerFinds(p, m) /\ SendToClient(p, r)
    <3> DEFINE q2 == [toClient EXCEPT ![p] = Append(toClient[p], r)]
    <3>1. toClient' = q2
      BY <2>2 DEF SendToClient
    <3>2. /\ q2 \in Queues /\ q2[p] = Append(toClient[p], r)
          /\ \A q \in Pairs : q # p => q2[q] = toClient[q]
      BY <1>1, <1>2, PutQueue
    <3> HIDE DEF q2
    <3> QED
      BY <2>2, <3>1, <3>2
  <2> QED
    BY <1>3, <2>1, <2>2
<1>7. TypeOK'
  BY <1>1, <1>5, <1>6 DEF TypeOK, ServedTable, Queues, bounds
<1>8. Agreed'
  <2> SUFFICES ASSUME losses = 0, ClientLimit >= MaxRequests,
                      NEW p2 \in Pairs, NEW i \in Ids, Holds(p2, i)'
               PROVE  Settled(toClient'[p2], toServer'[p2], opened[p2[1]], p2,
                              Through(p2, i)')
    BY <1>1 DEF Agreed, bounds
  <2> DEFINE d == Through(p2, i)
  <2>1. Holds(p2, i) /\ d' = d
    BY <1>5 DEF TunnelsStay
  <2>2. Settled(toClient[p2], toServer[p2], opened[p2[1]], p2, d)
    BY <2>1 DEF IInv, Agreed
  <2>3. CASE p2 = p
    <3>1. toServer[p] \in Seq(Command) /\ toClient[p] \in Seq(Command)
      BY <1>1 DEF TypeOK
    <3>2. ~ServerFinds(p, m) => ~Refers(r, d, {"error"})
      BY <2>1, <2>3 DEF Refers, ServerFinds, Holds, Through, Sent
    <3>3. ~Refers(m, d, {"close", "error"})
      BY <1>1 DEF Refers
    <3> HIDE DEF d, r
    <3>4. Settled(toClient'[p], toServer[p], opened[p[1]], p, d)
      BY <1>2, <1>6, <2>2, <2>3, <3>1, <3>2, PutAtClientSettled
    <3>5. Settled(toClient'[p], Tail(toServer[p]), opened[p[1]], p, d)
      BY <1>1, <3>1, <3>3, <3>4, TakeAtServerSettled
    <3> QED
      BY <1>1, <2>1, <2>3, <3>5 DEF d
  <2>4. CASE p2 # p
    BY <1>1, <1>6, <2>1, <2>2, <2>4
  <2> QED
    BY <2>3, <2>4
<1> QED
  BY <1>4, <1>7, <1>8 DEF IInv

\* Commands put in a queue that are neither requests nor responses take no room.
LEMMA PutRoom ==
  ASSUME IInv, NEW p \in Pairs, NEW r \in Command,
         r.is \in {"data", "error", "close"}, Held' \subseteq Held,
         UNCHANGED requests,
         \/ SendToServer(p, r) /\ UNCHANGED toClient
         \/ SendToClient(p, r) /\ UNCHANGED toServer
  PROVE  /\ Room' /\ toServer' \in Queues /\ toClient' \in Queues
         /\ \/ UNCHANGED toClient /\ toServer'[p] = Append(toServer[p], r)
            \/ UNCHANGED toServer /\ toClient'[p] = Append(toClient[p], r)
         /\ \A q \in Pairs : q # p =>
              toServer'[q] = toServer[q] /\ toClient'[q] = toClient[q]
<1> DEFINE s2 == [toServer EXCEPT ![p] = Append(toServer[p], r)]
           c2 == [toClient EXCEPT ![p] = Append(toClient[p], r)]
<1>1. /\ TypeOK /\ Room /\ toServer \in Queues /\ toClient \in Queues
      /\ requests \in Nat
  BY QueueTypes, Limits DEF IInv, TypeOK
<1>2. /\ Cardinality(Places(toServer, "request")) \in Nat
      /\ Cardinality(Places(toClient, "response")) \in Nat
      /\ Cardinality(Held) \in Nat
  BY <1>1, FS_CardinalityType DEF Room
<1>3. /\ s2 \in Queues /\ s2[p] = Append(toServer[p], r)
      /\ \A q \in Pairs : q # p => s2[q] = toServer[q]
  BY <1>1, PutQueue
<1>4. /\ c2 \in Queues /\ c2[p] = Append(toClient[p], r)
      /\ \A q \in Pairs : q # p => c2[q] = toClient[q]
  BY <1>1, PutQueue
<1>5. r.is # "request" /\ r.is # "response"
  OBVIOUS
<1>6. /\ IsFiniteSet(Places(s2, "request"))
      /\ Cardinality(Places(s2, "request")) <=
           Cardinality(Places(toServer, "request")) + 0
  BY <1>1, <1>5, PutPlaces DEF Room
<1>7. /\ IsFiniteSet(Places(c2, "response"))
      /\ Cardinality(Places(c2, "response")) <=
           Cardinality(Places(toClient, "response")) + 0
  BY <1>1, <1>5, PutPlaces DEF Room
<1>8. \/ toServer' = s2 /\ toClient' = toClient
      \/ toClient' = c2 /\ toServer' = toServer
  BY DEF SendToServer, SendToClient
<1> HIDE DEF s2, c2
<1>9. /\ toServer' \in Queues /\ toClient' \in Queues
      /\ \/ UNCHANGED toClient /\ toServer'[p] = Append(toServer[p], r)
         \/ UNCHANGED toServer /\ toClient'[p] = Append(toClient[p], r)
      /\ \A q \in Pairs : q # p =>
           toServer'[q] = toServer[q] /\ toClient'[q] = toClient[q]
  BY <1>1, <1>3, <1>4, <1>8
<1>10. /\ IsFiniteSet(Held') /\ Cardinality(Held') <= Cardinality(Held) + 0
  <2>1. IsFiniteSet(Held') /\ Cardinality(Held') <= Cardinality(Held)
    BY <1>1, HeldFewer DEF Room
  <2> QED
    BY <1>2, <2>1
<1>11. /\ 0 + 0 + 0 <= requests - requests /\ requests' = requests
       /\ Cardinality(Places(toServer, "request")) <=
            Cardinality(Places(toServer, "request")) + 0
       /\ Cardinality(Places(toClient, "response")) <=
            Cardinality(Places(toClient, "response")) + 0
  BY <1>1, <1>2
<1>12. CASE toServer' = s2 /\ toClient' = toClient
  BY <1>1, <1>6, <1>9, <1>10, <1>11, <1>12, RoomStep DEF Room
<1>13. CASE toClient' = c2 /\ toServer' = toServer
  BY <1>1, <1>7, <1>9, <1>10, <1>11, <1>13, RoomStep DEF Room
<1> QED
  BY <1>8, <1>9, <1>12, <1>13

LEMMA ServerTransferDataStep ==
  ASSUME IInv, NEW s \in Servers, NEW i \in Ids, ServerTransferData(s, i)
  PROVE  IInv'
<1> DEFINE p == <<served[s][i].client, s>>
           r == Sent("data", i, served[s][i])
<1>1. /\ TypeOK /\ served[s] \in ServedTable /\ served[s][i].inUse
      /\ served' = [served EXCEPT ![s][i].inactive = FALSE]
      /\ SendToClient(p, r)
      /\ UNCHANGED <<tick, opened, told, toServer, requests, losses, idles>>
      /\ sends < MaxSends /\ sends' = sends + 1
  BY ServedType DEF IInv, ServerTransferData
<1>2. served[s][i] \in ServerTunnel
  BY <1>1 DEF ServedTable, Free
<1>3. p \in Pairs
  BY <1>2 DEF ServerTunnel, Pairs
<1>4. r \in Command /\ r.is = "data"
  BY <1>2, SentType DEF ServerTunnel, Sent
<1>5. served' \in [Servers -> ServedTable] /\ TunnelsStay
  BY <1>1, ActivityStep
<1> HIDE DEF p, r
<1>6. /\ Room' /\ toServer' \in Queues /\ toClient' \in Queues
      /\ toClient'[p] = Append(toClient[p], r) \/ UNCHANGED toClient
      /\ \A q \in Pairs : q # p => toClient'[q] = toClient[q]
  <2>1. Held' \subseteq Held
    BY <1>1 DEF Held
  <2>2. toClient' = [toClient EXCEPT ![p] = Append(toClient[p], r)]
        /\ toClient \in Queues
    BY <1>1, QueueTypes DEF SendToClient
  <2> QED
    BY <1>1, <1>3, <1>4, <2>1, <2>2, PutRoom
<1>7. TypeOK'
  BY <1>1, <1>5, <1>6, Limits DEF TypeOK, ServedTable, Queues
<1>8. Agreed'
  <2> SUFFICES ASSUME losses = 0, ClientLimit >= MaxRequests,
                      NEW p2 \in Pairs, NEW j \in Ids, Holds(p2, j)'
               PROVE  Settled(toClient'[p2], toServer[p2], opened[p2[1]], p2,
                              Through(p2, j)')
    BY <1>1 DEF Agreed
  <2> DEFINE d == Through(p2, j)
  <2>1. Holds(p2, j) /\ d' = d
    BY <1>5 DEF TunnelsStay
  <2>2. Settled(toClient[p2], toServer[p2], opened[p2[1]], p2, d)
    BY <2>1 DEF IInv, Agreed
  <2>3. ~Refers(r, d, {"error"})
    BY <1>4 DEF Refers
  <2>4. toClient[p2] \in Seq(Command)
    BY <1>1 DEF TypeOK
  <2> HIDE DEF d
  <2>5. Settled(Append(toClient[p2], r), toServer[p2], opened[p2[1]], p2, d)
    BY <1>4, <2>2, <2>3, <2>4, PutAtClientSettled
  <2> QED
    BY <1>6, <2>1, <2>2, <2>5 DEF d
<1> QED
  BY <1>6, <1>7, <1>8 DEF IInv

\* Ticks and the attribute: tunnels are closed, none is opened.
LEMMA InactiveStep ==
  ASSUME IInv, NEW s \in Servers, NEW endpoint, NEW scheduled \in SUBSET ServerEndpoints,
         CloseInactiveTunnels(s, served[s], endpoint, scheduled),
         UNCHANGED <<opened, told, toServer, toClient, bounds>>
  PROVE  IInv'
<1>1. TypeOK /\ served[s] \in ServedTable
  BY ServedType DEF IInv
<1>2. /\ served' \in [Servers -> ServedTable]
      /\ tick' \in [Servers -> SUBSET ServerEndpoints]
      /\ \A r \in Servers : r # s => served'[r] = served[r]
      /\ \A i \in Ids : served'[s][i] = served[s][i] \/ served'[s][i] = Free
  BY <1>1, CloseInactive
<1>3. TunnelsStay
  <2> SUFFICES ASSUME NEW p \in Pairs, NEW i \in Ids, Holds(p, i)'
               PROVE  Holds(p, i) /\ Through(p, i)' = Through(p, i)
    BY DEF TunnelsStay
  <2>1. p[2] \in Servers
    BY PairType
  <2>2. served'[p[2]][i] = served[p[2]][i] \/ served'[p[2]][i] = Free
    BY <1>2, <2>1
  <2> QED
    BY <2>2 DEF Holds, Through, Free
<1>4. TypeOK'
  BY <1>1, <1>2 DEF TypeOK, ServedTable, bounds
<1> QED
  BY <1>3, <1>4, ServerStepInv DEF IInv, bounds

LEMMA ServerTickStep ==
  ASSUME IInv, NEW s \in Servers, ServerTick(s) \/ TimeoutChanged(s)
  PROVE  IInv'
<1>1. tick[s] \in SUBSET ServerEndpoints
  BY DEF IInv, TypeOK
<1>2. CASE ServerTick(s)
  BY <1>1, <1>2, InactiveStep DEF ServerTick
<1>3. CASE TimeoutChanged(s)
  BY <1>1, <1>3, InactiveStep DEF TimeoutChanged
<1> QED
  BY <1>2, <1>3

LEMMA BecomesInactiveStep ==
  ASSUME IInv, NEW s \in Servers, NEW i \in Ids, BecomesInactive(s, i)
  PROVE  IInv'
<1>1. served' \in [Servers -> ServedTable] /\ TunnelsStay
  BY ActivityStep DEF IInv, BecomesInactive
<1>2. TypeOK'
  BY <1>1, Limits DEF IInv, TypeOK, ServedTable, BecomesInactive
<1> QED
  BY <1>1, <1>2, ServerStepInv DEF IInv, BecomesInactive

-----------------------------------------------------------------------------
(* The client's steps.                                                     *)

OpenedTable == [1 .. ClientLimit -> ClientTunnel \cup {Free}]

LEMMA OpenedType ==
  ASSUME TypeOK, NEW c \in Clients
  PROVE  /\ opened \in [Clients -> OpenedTable] /\ opened[c] \in OpenedTable
         /\ DOMAIN opened[c] = 1 .. ClientLimit
  BY DEF TypeOK, OpenedTable

LEMMA AsksStep ==
  ASSUME IInv, NEW p \in Pairs, Asks(p)
  PROVE  IInv'
<1>1. PICK ce \in ClientEndpoints, se \in ServerEndpoints : AsksForTunnel(p, ce, se)
  BY DEF Asks
<1> DEFINE r == [is |-> "request", tunnelId |-> NoId, clientEndpoint |-> ce,
                 serverEndpoint |-> se]
           s2 == [toServer EXCEPT ![p] = Append(toServer[p], r)]
<1>2. /\ TypeOK /\ Room /\ toServer \in Queues /\ toClient \in Queues
      /\ requests \in Nat /\ requests < MaxRequests /\ requests' = requests + 1
      /\ toServer' = s2
      /\ UNCHANGED <<tables, toClient, sends, losses, idles>>
  BY <1>1, QueueTypes, Limits DEF IInv, TypeOK, AsksForTunnel, SendToServer
<1>3. r \in Command /\ r.is = "request"
  BY DEF Command
<1> HIDE DEF r
<1>4. /\ s2 \in Queues /\ s2[p] = Append(toServer[p], r)
      /\ \A q \in Pairs : q # p => s2[q] = toServer[q]
  <2>1. toServer \in Queues
    BY <1>2
  <2> QED
    BY <1>3, <2>1, PutQueue
<1>5. /\ IsFiniteSet(Places(s2, "request"))
      /\ Cardinality(Places(s2, "request")) <=
           Cardinality(Places(toServer, "request")) + 1
  BY <1>2, <1>3, PutPlaces DEF Room
<1> HIDE DEF s2
<1>6. Room'
  <2>1. /\ Cardinality(Places(toClient, "response")) \in Nat
        /\ Cardinality(Held) \in Nat
    BY <1>2, FS_CardinalityType DEF Room
  <2>2. Held' = Held
    BY <1>2 DEF Held, tables
  <2>3. /\ Cardinality(Places(toClient, "response")) <=
             Cardinality(Places(toClient, "response")) + 0
        /\ Cardinality(Held) <= Cardinality(Held) + 0
        /\ 1 + 0 + 0 <= (requests + 1) - requests /\ requests + 1 \in Nat
    BY <1>2, <2>1
  <2> QED
    BY <1>2, <1>5, <2>2, <2>3, RoomStep DEF Room
<1>7. requests' \in 0 .. MaxRequests
  BY <1>2, Limits
<1>8. TypeOK'
  BY <1>2, <1>4, <1>7 DEF TypeOK, Queues, tables
<1>9. Agreed'
  <2> SUFFICES ASSUME losses = 0, ClientLimit >= MaxRequests,
                      NEW p2 \in Pairs, NEW i \in Ids, Holds(p2, i)
               PROVE  Settled(toClient[p2], toServer'[p2], opened[p2[1]], p2,
                              Through(p2, i))
    BY <1>2 DEF Agreed, Holds, Through, tables
  <2> DEFINE d == Through(p2, i)
  <2>1. Settled(toClient[p2], toServer[p2], opened[p2[1]], p2, d)
    BY DEF IInv, Agreed
  <2>2. toServer[p2] \in Seq(Command)
    BY <1>2 DEF TypeOK
  <2> HIDE DEF d
  <2>3. Settled(toClient[p2], Append(toServer[p2], r), opened[p2[1]], p2, d)
    BY <1>3, <2>1, <2>2, PutAtServerSettled
  <2> QED
    BY <1>2, <1>4, <2>1, <2>3 DEF d
<1> QED
  BY <1>6, <1>8, <1>9 DEF IInv

\* A full table holds all the tunnels that were asked for.
LEMMA FullTable ==
  ASSUME IInv, NEW c \in Clients, FreeIn(opened[c]) = {}
  PROVE  ClientLimit <= Cardinality(Held)
<1> DEFINE entry == [k \in 1 .. ClientLimit |-> <<c, k>>]
<1>1. DOMAIN opened[c] = 1 .. ClientLimit /\ IsFiniteSet(Held)
  BY OpenedType DEF IInv, Room
<1>2. \A k \in 1 .. ClientLimit : opened[c][k].inUse
  BY <1>1 DEF FreeIn
<1>3. entry \in Injection(1 .. ClientLimit, Held)
  BY <1>2 DEF Held, Injection, IsInjective
<1>4. Cardinality(1 .. ClientLimit) <= Cardinality(Held)
  BY <1>1, <1>3, FS_Injection
<1>5. Cardinality(1 .. ClientLimit) = ClientLimit
  <2>1. ClientLimit \in Int /\ 1 \in Int /\ ~(1 > ClientLimit)
        /\ ClientLimit - 1 + 1 = ClientLimit
    BY Limits
  <2> QED
    BY <2>1, FS_Interval
<1> QED
  BY <1>4, <1>5

LEMMA ResponseStep ==
  ASSUME IInv, NEW p \in Pairs, NEW m, RequestTunnelResponse(p, m)
  PROVE  IInv'
<1> DEFINE c == p[1]
           free == FreeIn(opened[c])
           k == First(free)
           tunnel == [inUse |-> TRUE, server |-> p[2],
                      clientEndpoint |-> m.clientEndpoint,
                      serverEndpoint |-> m.serverEndpoint,
                      tunnelId |-> m.tunnelId]
<1>1. /\ TypeOK /\ Room /\ c \in Clients /\ p[2] \in Servers
      /\ opened \in [Clients -> OpenedTable] /\ DOMAIN opened[c] = 1 .. ClientLimit
      /\ m \in Command /\ m = Head(toClient[p]) /\ toClient[p] # <<>>
      /\ toClient' = [toClient EXCEPT ![p] = Tail(toClient[p])]
      /\ toClient' \in Queues /\ toClient'[p] = Tail(toClient[p])
      /\ \A q \in Pairs : q # p => toClient'[q] = toClient[q]
      /\ m.is = "response" /\ UNCHANGED <<served, tick, toServer, bounds>>
      /\ toServer \in Queues /\ toClient \in Queues /\ requests \in 0 .. MaxRequests
  BY PairType, OpenedType, ClientTakes, QueueTypes
     DEF IInv, RequestTunnelResponse, TypeOK
<1>2. free # {} => k \in 1 .. ClientLimit /\ ~opened[c][k].inUse
  BY <1>1, FirstFree, Limits
<1>3. m.tunnelId # NoId => tunnel \in ClientTunnel
  BY <1>1, CommandType DEF ClientTunnel
<1>4. opened' = IF m.tunnelId # NoId /\ free # {}
                  THEN [opened EXCEPT ![c] = [opened[c] EXCEPT ![k] = tunnel]]
                  ELSE opened
  BY DEF RequestTunnelResponse
<1>5. told' \in [Clients -> SUBSET (Ids \cup {NoId})]
  <2>1. m.tunnelId \in Ids \cup {NoId}
    BY <1>1, CommandType
  <2>2. told \in [Clients -> SUBSET (Ids \cup {NoId})]
    BY <1>1 DEF TypeOK
  <2> QED
    BY <1>1, <2>1, <2>2 DEF RequestTunnelResponse
<1> HIDE DEF k, free, tunnel
<1>6. /\ opened' \in [Clients -> OpenedTable]
      /\ \A e \in Clients, j \in 1 .. ClientLimit :
           opened'[e][j] = IF /\ m.tunnelId # NoId /\ free # {}
                              /\ e = c /\ j = k
                             THEN tunnel ELSE opened[e][j]
  BY <1>1, <1>2, <1>3, <1>4 DEF OpenedTable
<1>7. Held' \subseteq Held \cup {<<c, k>>}
  <2> SUFFICES ASSUME NEW x \in Held'  PROVE x \in Held \/ x = <<c, k>>
    OBVIOUS
  <2>1. /\ x \in Clients \X (1 .. ClientLimit) /\ opened'[x[1]][x[2]].inUse
        /\ x = <<x[1], x[2]>> /\ x[1] \in Clients /\ x[2] \in 1 .. ClientLimit
    BY DEF Held
  <2>2. CASE opened'[x[1]][x[2]] = opened[x[1]][x[2]]
    BY <2>1, <2>2 DEF Held
  <2>3. CASE x[1] = c /\ x[2] = k
    BY <2>1, <2>3
  <2> QED
    BY <1>6, <2>1, <2>2, <2>3
<1>8. /\ Cardinality(Places(toServer, "request")) \in Nat
      /\ Cardinality(Places(toClient, "response")) \in Nat
      /\ Cardinality(Held) \in Nat
  BY <1>1, FS_CardinalityType DEF Room
<1>9. /\ IsFiniteSet(Places(toClient', "response"))
      /\ Cardinality(Places(toClient', "response")) <=
           Cardinality(Places(toClient, "response")) - 1
  BY <1>1, TakePlaces DEF Room
<1>10. Room'
  <2>1. IsFiniteSet(Held') /\ Cardinality(Held') <= Cardinality(Held) + 1
    BY <1>1, <1>7, HeldOneMore DEF Room
  <2>2. /\ 0 + (-1) + 1 <= requests - requests /\ requests' = requests
        /\ requests \in Nat
        /\ Cardinality(Places(toServer, "request")) <=
             Cardinality(Places(toServer, "request")) + 0
        /\ Cardinality(Places(toClient, "response")) - 1 =
             Cardinality(Places(toClient, "response")) + (-1)
    BY <1>1, <1>8, Limits DEF bounds
  <2>3. Cardinality(Places(toClient', "response")) <=
          Cardinality(Places(toClient, "response")) + (-1)
    BY <1>9, <2>2
  <2>4. /\ IsFiniteSet(Places(toServer', "request"))
        /\ Cardinality(Places(toServer', "request")) <=
             Cardinality(Places(toServer, "request")) + 0
    BY <1>1, <2>2 DEF Room
  <2>5. /\ requests' \in Nat /\ -1 \in Int
        /\ 0 + (-1) + 1 <= requests' - requests
    BY <2>2
  <2>6. Room /\ IsFiniteSet(Places(toClient', "response"))
    BY <1>1, <1>9
  <2> QED
    BY <2>1, <2>2, <2>3, <2>4, <2>5, <2>6, RoomStep
<1>11. ClientLimit >= MaxRequests => free # {}
  <2> SUFFICES ASSUME ClientLimit >= MaxRequests, free = {}  PROVE FALSE
    OBVIOUS
  <2>1. ClientLimit <= Cardinality(Held)
    BY <1>1, FullTable DEF free
  <2>2. 1 <= Cardinality(Places(toClient, "response"))
    <3>1. PICK n \in Nat : n = Cardinality(Places(toClient', "response"))
      BY <1>9, FS_CardinalityType
    <3> QED
      BY <1>8, <1>9, <3>1
  <2> QED
    BY <1>1, <1>8, <2>1, <2>2, Limits DEF Room
<1>12. TypeOK'
  BY <1>1, <1>5, <1>6 DEF TypeOK, OpenedTable, Queues, bounds
<1>13. Agreed'
  <2> SUFFICES ASSUME losses = 0, ClientLimit >= MaxRequests,
                      NEW p2 \in Pairs, NEW i \in Ids, Holds(p2, i)
               PROVE  Settled(toClient'[p2], toServer[p2], opened'[p2[1]], p2,
                              Through(p2, i))
    BY <1>1 DEF Agreed, Holds, Through, bounds
  <2> DEFINE d == Through(p2, i)
  <2>1. Settled(toClient[p2], toServer[p2], opened[p2[1]], p2, d)
    BY DEF IInv, Agreed
  <2>2. p2[1] \in Clients
    BY PairType
  <2>3. \A j \in 1 .. ClientLimit :
          Matches(opened[p2[1]][j], p2, d) => Matches(opened'[p2[1]][j], p2, d)
    BY <1>2, <1>6, <2>2 DEF Matches
  <2>4. CASE p2 = p
    <3>1. Refers(Head(toClient[p]), d, {"response"}) =>
            \E j \in 1 .. ClientLimit : Matches(opened'[c][j], p, d)
      <4> SUFFICES ASSUME Refers(m, d, {"response"})
                   PROVE  Matches(opened'[c][k], p, d) /\ k \in 1 .. ClientLimit
        BY <1>1
      <4>1. m.tunnelId # NoId
        BY Limits DEF Refers, Through, Sent, Ids, NoId
      <4>2. opened'[c][k] = tunnel /\ k \in 1 .. ClientLimit
        BY <1>1, <1>2, <1>6, <1>11, <4>1
      <4> QED
        BY <4>2 DEF Matches, Refers, tunnel
    <3>2. toClient[p] \in Seq(Command)
      BY <1>1 DEF TypeOK
    <3> HIDE DEF d
    <3>3. Settled(Tail(toClient[p]), toServer[p], opened'[c], p, d)
      BY <1>1, <2>1, <2>3, <2>4, <3>1, <3>2, TakeAtClientSettled
    <3> QED
      BY <1>1, <2>4, <3>3 DEF d
  <2>5. CASE p2 # p
    <3>1. toClient'[p2] = toClient[p2]
      BY <1>1, <2>5
    <3> QED
      BY <2>1, <2>3, <3>1 DEF Settled, Known
  <2> QED
    BY <2>4, <2>5
<1> QED
  BY <1>10, <1>12, <1>13 DEF IInv

\* A command that is no response takes no room when the client takes it.
LEMMA ClientTakenRoom ==
  ASSUME IInv, NEW p \in Pairs, NEW m, TakeAtClient(p, m),
         Held' \subseteq Held, UNCHANGED requests,
         \/ UNCHANGED toServer
         \/ \E r \in Command : r.is = "error" /\ SendToServer(p, r)
  PROVE  Room'
<1>1. /\ TypeOK /\ Room /\ toServer \in Queues /\ toClient \in Queues
      /\ requests \in Nat
  BY QueueTypes, Limits DEF IInv, TypeOK
<1>2. /\ toClient' = [toClient EXCEPT ![p] = Tail(toClient[p])]
      /\ toClient[p] # <<>>
  BY <1>1, ClientTakes
<1>3. /\ Cardinality(Places(toServer, "request")) \in Nat
      /\ Cardinality(Places(toClient, "response")) \in Nat
      /\ Cardinality(Held) \in Nat
  BY <1>1, FS_CardinalityType DEF Room
<1>4. /\ IsFiniteSet(Places(toClient', "response"))
      /\ Cardinality(Places(toClient', "response")) <=
           Cardinality(Places(toClient, "response")) + 0
  <2>1. /\ IsFiniteSet(Places(toClient', "response"))
        /\ Cardinality(Places(toClient', "response")) <=
             Cardinality(Places(toClient, "response"))
               - (IF Head(toClient[p]).is = "response" THEN 1 ELSE 0)
    BY <1>1, <1>2, TakePlaces DEF Room
  <2>2. PICK n \in Nat : n = Cardinality(Places(toClient', "response"))
    BY <2>1, FS_CardinalityType
  <2> QED
    BY <1>3, <2>1, <2>2
<1>5. /\ IsFiniteSet(Places(toServer', "request"))
      /\ Cardinality(Places(toServer', "request")) <=
           Cardinality(Places(toServer, "request")) + 0
  <2>1. CASE UNCHANGED toServer
    BY <1>1, <1>3, <2>1 DEF Room
  <2>2. ASSUME NEW r \in Command, r.is = "error", SendToServer(p, r)
        PROVE  <1>5!1 /\ <1>5!2
    <3>1. toServer' = [toServer EXCEPT ![p] = Append(toServer[p], r)]
      BY <2>2 DEF SendToServer
    <3>2. r.is # "request"
      BY <2>2
    <3> QED
      BY <1>1, <3>1, <3>2, PutPlaces DEF Room
  <2> QED
    BY <2>1, <2>2
<1>6. IsFiniteSet(Held') /\ Cardinality(Held') <= Cardinality(Held) + 0
  <2>1. IsFiniteSet(Held') /\ Cardinality(Held') <= Cardinality(Held)
    BY <1>1, HeldFewer DEF Room
  <2> QED
    BY <1>3, <2>1
<1>7. 0 + 0 + 0 <= requests' - requests /\ requests' \in Nat
  <2>1. 0 + 0 + 0 <= requests - requests
    BY <1>1
  <2> QED
    BY <1>1, <2>1
<1> QED
  BY <1>1, <1>4, <1>5, <1>6, <1>7, RoomStep

LEMMA DataAtClientStep ==
  ASSUME IInv, NEW p \in Pairs, NEW m, TransferDataServerToClient(p, m)
  PROVE  IInv'
<1> DEFINE r == Sent("error", m.tunnelId, m)
           s2 == [toServer EXCEPT ![p] = Append(toServer[p], r)]
<1>1. /\ TypeOK /\ TakeAtClient(p, m) /\ m.is = "data" /\ m \in Command
      /\ m = Head(toClient[p]) /\ toClient[p] # <<>>
      /\ toClient' \in Queues /\ toClient'[p] = Tail(toClient[p])
      /\ \A q \in Pairs : q # p => toClient'[q] = toClient[q]
      /\ UNCHANGED <<tables, bounds>>
      /\ toServer \in Queues /\ toClient \in Queues
  BY ClientTakes, QueueTypes DEF IInv, TransferDataServerToClient
<1>2. r \in Command /\ r.is = "error"
  BY <1>1, CommandType, SentType DEF Sent
<1> HIDE DEF r
<1>3. UNCHANGED toServer \/ SendToServer(p, r)
  BY DEF TransferDataServerToClient, r
<1>4. Room'
  <2>1. Held' \subseteq Held /\ requests' = requests
    BY <1>1 DEF Held, tables, bounds
  <2> QED
    BY <1>1, <1>2, <1>3, <2>1, ClientTakenRoom
<1>5. /\ toServer' \in Queues
      /\ \A q \in Pairs : \/ toServer'[q] = toServer[q]
                          \/ toServer'[q] = Append(toServer[q], r)
  <2>1. CASE UNCHANGED toServer
    BY <1>1, <2>1
  <2>2. CASE SendToServer(p, r)
    <3>1. /\ s2 \in Queues /\ s2[p] = Append(toServer[p], r)
          /\ \A q \in Pairs : q # p => s2[q] = toServer[q]
      BY <1>1, <1>2, PutQueue
    <3>2. toServer' = s2
      BY <2>2 DEF SendToServer
    <3> HIDE DEF s2
    <3> QED
      BY <3>1, <3>2
  <2> QED
    BY <1>3, <2>1, <2>2
<1>6. TypeOK'
  BY <1>1, <1>5 DEF TypeOK, Queues, tables, bounds
<1>7. Agreed'
  <2> SUFFICES ASSUME losses = 0, ClientLimit >= MaxRequests,
                      NEW p2 \in Pairs, NEW i \in Ids, Holds(p2, i)
               PROVE  Settled(toClient'[p2], toServer'[p2], opened[p2[1]], p2,
                              Through(p2, i))
    BY <1>1 DEF Agreed, Holds, Through, tables, bounds
  <2> DEFINE d == Through(p2, i)
  <2>1. Settled(toClient[p2], toServer[p2], opened[p2[1]], p2, d)
    BY DEF IInv, Agreed
  <2>2. ~Refers(m, d, {"response"}) /\ ~Refers(m, d, {"error"})
    BY <1>1 DEF Refers
  <2>3. toServer[p2] \in Seq(Command) /\ toClient[p2] \in Seq(Command)
    BY <1>1 DEF TypeOK
  <2> HIDE DEF d
  <2>4. Settled(toClient'[p2], toServer[p2], opened[p2[1]], p2, d)
    <3>1. CASE p2 = p
      BY <1>1, <2>1, <2>2, <2>3, <3>1, TakeAtClientSettled
    <3>2. CASE p2 # p
      BY <1>1, <2>1, <3>2
    <3> QED
      BY <3>1, <3>2
  <2>5. Settled(toClient'[p2], Append(toServer[p2], r), opened[p2[1]], p2, d)
    BY <1>2, <2>3, <2>4, PutAtServerSettled
  <2> QED
    BY <1>5, <2>4, <2>5 DEF d
<1> QED
  BY <1>4, <1>6, <1>7 DEF IInv

\* An entry is freed.
Frees(c, k) == opened' = [opened EXCEPT ![c][k] = Free]

LEMMA FreedEntry ==
  ASSUME TypeOK, NEW c \in Clients, NEW k, Frees(c, k)
  PROVE  /\ opened' \in [Clients -> OpenedTable] /\ Held' \subseteq Held
         /\ \A e \in Clients, j \in 1 .. ClientLimit :
              ~(e = c /\ j = k) => opened'[e][j] = opened[e][j]
<1>1. opened \in [Clients -> OpenedTable] /\ opened[c] \in OpenedTable
  BY OpenedType
<1> DEFINE t == [opened[c] EXCEPT ![k] = Free]
<1>2. t \in OpenedTable /\ \A j \in 1 .. ClientLimit :
                             t[j] = IF j = k THEN Free ELSE opened[c][j]
  BY <1>1 DEF OpenedTable
<1>3. opened' = [opened EXCEPT ![c] = t]
  BY DEF Frees
<1> HIDE DEF t
<1>4. /\ opened' \in [Clients -> OpenedTable]
      /\ \A e \in Clients, j \in 1 .. ClientLimit :
           opened'[e][j] = IF e = c /\ j = k THEN Free ELSE opened[e][j]
  BY <1>1, <1>2, <1>3
<1>5. ASSUME NEW x \in Held'  PROVE x \in Held
  <2>1. x \in Clients \X (1 .. ClientLimit) /\ opened'[x[1]][x[2]].inUse
    BY DEF Held
  <2>2. opened'[x[1]][x[2]] = opened[x[1]][x[2]]
    BY <1>4, <2>1 DEF Free
  <2> QED
    BY <2>1, <2>2 DEF Held
<1> QED
  BY <1>4, <1>5

\* A tunnel stays settled while its entry stays where it was.
LEMMA TableSettled ==
  ASSUME NEW qc, NEW qs, NEW table, NEW table2, NEW p, NEW d,
         \A j \in 1 .. ClientLimit :
           Matches(table[j], p, d) => Matches(table2[j], p, d),
         Settled(qc, qs, table, p, d)
  PROVE  Settled(qc, qs, table2, p, d)
  BY DEF Settled, Known

LEMMA ErrorStep ==
  ASSUME IInv, NEW p \in Pairs, NEW m, TransferDataError(p, m)
  PROVE  IInv'
<1> DEFINE c == p[1]
           k == First(Candidates(p, m))
<1>1. /\ TypeOK /\ TakeAtClient(p, m) /\ m.is = "error" /\ m \in Command
      /\ m = Head(toClient[p]) /\ toClient[p] # <<>>
      /\ toClient' \in Queues /\ toClient'[p] = Tail(toClient[p])
      /\ \A q \in Pairs : q # p => toClient'[q] = toClient[q]
      /\ UNCHANGED <<served, tick, toServer, bounds>>
      /\ toServer \in Queues /\ toClient \in Queues
      /\ c \in Clients /\ p[2] \in Servers /\ p = <<c, p[2]>>
      /\ opened \in [Clients -> OpenedTable]
  BY ClientTakes, QueueTypes, PairType, OpenedType DEF IInv, TransferDataError
<1>2. told' \in [Clients -> SUBSET (Ids \cup {NoId})]
  <2>1. told \in [Clients -> SUBSET (Ids \cup {NoId})]
    BY <1>1 DEF TypeOK
  <2> QED
    BY <2>1 DEF TransferDataError
<1>3. \/ UNCHANGED opened
      \/ ClientFinds(p, m) /\ opened' = [opened EXCEPT ![c][k] = Free]
  BY DEF TransferDataError
<1> HIDE DEF k
<1>4. /\ opened' \in [Clients -> OpenedTable] /\ Held' \subseteq Held
      /\ \A e \in Clients, j \in 1 .. ClientLimit :
           \/ opened'[e][j] = opened[e][j]
           \/ e = c /\ j = k /\ Matches(opened[c][k], p, m)
  <2>1. CASE UNCHANGED opened
    BY <1>1, <2>1 DEF Held
  <2>2. CASE ClientFinds(p, m) /\ opened' = [opened EXCEPT ![c][k] = Free]
    <3>1. Matches(opened[c][k], p, m)
      BY <2>2 DEF ClientFinds, k
    <3>2. Frees(c, k) /\ TypeOK /\ c \in Clients
      BY <1>1, <2>2 DEF Frees
    <3> HIDE DEF c
    <3>3. /\ opened' \in [Clients -> OpenedTable] /\ Held' \subseteq Held
          /\ \A e \in Clients, j \in 1 .. ClientLimit :
               ~(e = c /\ j = k) => opened'[e][j] = opened[e][j]
      BY <3>2, FreedEntry
    <3> QED
      BY <3>1, <3>3
  <2> QED
    BY <1>3, <2>1, <2>2
<1>5. Room'
  BY <1>1, <1>4, ClientTakenRoom DEF bounds
<1>6. TypeOK'
  BY <1>1, <1>2, <1>4 DEF TypeOK, Queues, OpenedTable, bounds
<1>7. Agreed'
  <2> SUFFICES ASSUME losses = 0, ClientLimit >= MaxRequests,
                      NEW p2 \in Pairs, NEW i \in Ids, Holds(p2, i)
               PROVE  Settled(toClient'[p2], toServer[p2], opened'[p2[1]], p2,
                              Through(p2, i))
    BY <1>1 DEF Agreed, Holds, Through, bounds
  <2> DEFINE d == Through(p2, i)
  <2>1. Settled(toClient[p2], toServer[p2], opened[p2[1]], p2, d)
    BY DEF IInv, Agreed
  <2>2. ~Refers(m, d, {"response"}) /\ p2[1] \in Clients /\ p2 = <<p2[1], p2[2]>>
    BY <1>1, PairType DEF Refers
  <2>3. toClient[p2] \in Seq(Command)
    BY <1>1 DEF TypeOK
  <2> HIDE DEF d
  <2>4. ASSUME ~(p2 = p /\ Refers(m, d, {"error"})), NEW j \in 1 .. ClientLimit,
               Matches(opened[p2[1]][j], p2, d)
        PROVE  Matches(opened'[p2[1]][j], p2, d)
    <3>1. CASE opened'[p2[1]][j] = opened[p2[1]][j]
      BY <2>4, <3>1
    <3>2. CASE p2[1] = c /\ j = k /\ Matches(opened[c][k], p, m)
      BY <1>1, <2>2, <2>4, <3>2 DEF Matches, Refers
    <3> QED
      BY <1>4, <2>2, <3>1, <3>2
  <2>5. CASE p2 = p
    <3>1. Settled(Tail(toClient[p]), toServer[p], opened'[c], p, d)
      BY <1>1, <2>1, <2>2, <2>3, <2>4, <2>5, TakeAtClientSettled
    <3> QED
      BY <1>1, <2>5, <3>1 DEF d
  <2>6. CASE p2 # p
    <3>1. Settled(toClient[p2], toServer[p2], opened'[p2[1]], p2, d)
      BY <2>1, <2>4, <2>6, TableSettled
    <3> QED
      BY <1>1, <2>6, <3>1 DEF d
  <2> QED
    BY <2>5, <2>6
<1> QED
  BY <1>5, <1>6, <1>7 DEF IInv

\* The tunnel that the application means by an id is one.
LEMMA NamedFirst ==
  ASSUME TypeOK, NEW c \in Clients, NEW id, Named(c, id) # {}
  PROVE  LET k == First(Named(c, id)) IN
           /\ k \in 1 .. ClientLimit /\ opened[c][k] \in ClientTunnel
           /\ opened[c][k].inUse /\ opened[c][k].tunnelId = id
<1>1. opened[c] \in OpenedTable /\ DOMAIN opened[c] = 1 .. ClientLimit
  BY OpenedType
<1>2. Named(c, id) \in SUBSET (1 .. ClientLimit) /\ Named(c, id) \subseteq Int
  BY <1>1 DEF Named
<1>3. IsFiniteSet(1 .. ClientLimit)
  BY Limits, FS_Interval
<1>4. IsFiniteSet(Named(c, id))
  BY <1>2, <1>3, FS_Subset
<1>5. First(Named(c, id)) \in Named(c, id)
  BY <1>2, <1>4, FirstIn
<1> DEFINE k == First(Named(c, id))
<1>6. k \in 1 .. ClientLimit /\ opened[c][k].inUse /\ opened[c][k].tunnelId = id
  BY <1>1, <1>5 DEF Named
<1> HIDE DEF k
<1>7. opened[c][k] \in ClientTunnel
  <2>1. opened[c][k] \in ClientTunnel \cup {Free}
    BY <1>1, <1>6 DEF OpenedTable
  <2>2. ~Free.inUse
    BY DEF Free
  <2> QED
    BY <1>6, <2>1, <2>2
<1> QED
  BY <1>6, <1>7 DEF k

\* What a client's application sends goes to the server of its tunnel.
LEMMA ClientPuts ==
  ASSUME IInv, NEW c \in Clients, NEW t \in ClientTunnel, NEW is \in {"data", "close"},
         SendToServer(<<c, t.server>>, Sent(is, t.tunnelId, t)),
         Held' \subseteq Held, UNCHANGED <<toClient, requests>>
  PROVE  /\ Room' /\ toServer' \in Queues /\ <<c, t.server>> \in Pairs
         /\ Sent(is, t.tunnelId, t) \in Command
         /\ toServer'[<<c, t.server>>] =
              Append(toServer[<<c, t.server>>], Sent(is, t.tunnelId, t))
         /\ \A q \in Pairs : q # <<c, t.server>> => toServer'[q] = toServer[q]
<1> DEFINE p == <<c, t.server>>
           r == Sent(is, t.tunnelId, t)
           s2 == [toServer EXCEPT ![p] = Append(toServer[p], r)]
<1>1. p \in Pairs
  BY DEF ClientTunnel, Pairs
<1>2. r \in Command /\ r.is \in {"data", "close"}
  BY SentType DEF ClientTunnel, Sent
<1>3. toServer \in Queues
  BY QueueTypes DEF IInv
<1>4. toServer' = s2
  BY DEF SendToServer
<1> HIDE DEF p, r
<1>5. /\ s2 \in Queues /\ s2[p] = Append(toServer[p], r)
      /\ \A q \in Pairs : q # p => s2[q] = toServer[q]
  BY <1>1, <1>2, <1>3, PutQueue
<1>6. Room'
  <2>1. SendToServer(p, r)
    BY DEF p, r
  <2>2. r.is \in {"data", "error", "close"}
    BY <1>2
  <2> QED
    BY <1>1, <1>2, <2>1, <2>2, PutRoom
<1> HIDE DEF s2
<1> QED
  BY <1>1, <1>2, <1>4, <1>5, <1>6 DEF p, r

LEMMA ClientTransferDataStep ==
  ASSUME IInv, NEW c \in Clients, NEW id, ClientTransferData(c, id)
  PROVE  IInv'
<1> DEFINE t == opened[c][First(Named(c, id))]
           p == <<c, t.server>>
           r == Sent("data", t.tunnelId, t)
<1>1. TypeOK /\ t \in ClientTunnel /\ t.tunnelId = id
  BY NamedFirst DEF IInv, ClientTransferData
<1>2. /\ SendToServer(p, r) /\ sends < MaxSends /\ sends' = sends + 1
      /\ UNCHANGED <<tables, toClient, requests, losses, idles>>
  BY <1>1 DEF ClientTransferData
<1> HIDE DEF t
<1>3. /\ Room' /\ toServer' \in Queues /\ p \in Pairs /\ r \in Command
      /\ toServer'[p] = Append(toServer[p], r)
      /\ \A q \in Pairs : q # p => toServer'[q] = toServer[q]
  <2>1. Held' \subseteq Held
    BY <1>2 DEF Held, tables
  <2> QED
    BY <1>1, <1>2, <2>1, ClientPuts
<1> HIDE DEF p, r
<1>4. TypeOK'
  BY <1>1, <1>2, <1>3, Limits DEF TypeOK, Queues, tables
<1>5. Agreed'
  <2> SUFFICES ASSUME losses = 0, ClientLimit >= MaxRequests,
                      NEW p2 \in Pairs, NEW i \in Ids, Holds(p2, i)
               PROVE  Settled(toClient[p2], toServer'[p2], opened[p2[1]], p2,
                              Through(p2, i))
    BY <1>2 DEF Agreed, Holds, Through, tables
  <2> DEFINE d == Through(p2, i)
  <2>1. Settled(toClient[p2], toServer[p2], opened[p2[1]], p2, d)
    BY DEF IInv, Agreed
  <2>2. toServer[p2] \in Seq(Command)
    BY <1>1 DEF TypeOK
  <2> HIDE DEF d
  <2>3. Settled(toClient[p2], Append(toServer[p2], r), opened[p2[1]], p2, d)
    BY <1>3, <2>1, <2>2, PutAtServerSettled
  <2> QED
    BY <1>3, <2>1, <2>3 DEF d
<1> QED
  BY <1>3, <1>4, <1>5 DEF IInv

LEMMA ClientCloseTunnelStep ==
  ASSUME IInv, NEW c \in Clients, NEW id \in Ids, ClientCloseTunnel(c, id)
  PROVE  IInv'
<1> DEFINE k == First(Named(c, id))
           t == opened[c][k]
           p == <<c, t.server>>
           r == Sent("close", t.tunnelId, t)
<1>1. TypeOK /\ t \in ClientTunnel /\ t.tunnelId = id /\ k \in 1 .. ClientLimit
  BY NamedFirst DEF IInv, ClientCloseTunnel
<1>2. /\ SendToServer(p, r) /\ opened' = [opened EXCEPT ![c][k] = Free]
      /\ UNCHANGED <<served, tick, toClient, bounds>>
  BY <1>1 DEF ClientCloseTunnel
<1>3. told' \in [Clients -> SUBSET (Ids \cup {NoId})]
  <2>1. told \in [Clients -> SUBSET (Ids \cup {NoId})]
    BY <1>1 DEF TypeOK
  <2>2. told' = [told EXCEPT ![c] = IF Named(c, id) = {k} THEN told[c] \ {id} ELSE told[c]]
    BY DEF ClientCloseTunnel
  <2> HIDE DEF k
  <2> QED
    BY <2>1, <2>2
<1> HIDE DEF k
<1>4. /\ opened' \in [Clients -> OpenedTable] /\ Held' \subseteq Held
      /\ \A e \in Clients, j \in 1 .. ClientLimit :
           ~(e = c /\ j = k) => opened'[e][j] = opened[e][j]
  <2>1. TypeOK /\ Frees(c, k)
    BY <1>1, <1>2 DEF Frees
  <2> QED
    BY <2>1, FreedEntry
<1>5. /\ Room' /\ toServer' \in Queues /\ p \in Pairs /\ r \in Command
      /\ toServer'[p] = Append(toServer[p], r)
      /\ \A q \in Pairs : q # p => toServer'[q] = toServer[q]
  <2>1. requests' = requests
    BY <1>2 DEF bounds
  <2> HIDE DEF t
  <2> QED
    BY <1>1, <1>2, <1>4, <2>1, ClientPuts
<1>6. TypeOK'
  BY <1>1, <1>2, <1>3, <1>4, <1>5 DEF TypeOK, Queues, OpenedTable, bounds
<1>7. Agreed'
  <2> SUFFICES ASSUME losses = 0, ClientLimit >= MaxRequests,
                      NEW p2 \in Pairs, NEW i \in Ids, Holds(p2, i)
               PROVE  Settled(toClient[p2], toServer'[p2], opened'[p2[1]], p2,
                              Through(p2, i))
    BY <1>2 DEF Agreed, Holds, Through, bounds
  <2> DEFINE d == Through(p2, i)
  <2>1. Settled(toClient[p2], toServer[p2], opened[p2[1]], p2, d)
    BY DEF IInv, Agreed
  <2>2. /\ toServer[p2] \in Seq(Command) /\ p2[1] \in Clients
        /\ p2 = <<p2[1], p2[2]>>
    BY <1>1, PairType DEF TypeOK
  <2> HIDE DEF d
  <2>3. CASE p2[1] = c /\ Matches(t, p2, d)
    <3>1. p2 = p /\ Refers(r, d, {"close", "error"})
      BY <2>2, <2>3 DEF Matches, Refers, Sent
    <3>2. toServer[p] \in Seq(Command)
      BY <2>2, <3>1
    <3>3. /\ Len(Append(toServer[p], r)) = Len(toServer[p]) + 1
          /\ Append(toServer[p], r)[Len(toServer[p]) + 1] = r
          /\ Len(toServer[p]) \in Nat
      BY <1>5, <3>2
    <3> HIDE DEF p, r
    <3>4. GivenUp(Append(toServer[p], r), d)
      BY <3>1, <3>3 DEF GivenUp
    <3> QED
      BY <1>5, <3>1, <3>4 DEF Settled, d
  <2>4. CASE ~(p2[1] = c /\ Matches(t, p2, d))
    <3>1. \A j \in 1 .. ClientLimit :
            Matches(opened[p2[1]][j], p2, d) => Matches(opened'[p2[1]][j], p2, d)
      BY <1>4, <2>2, <2>4
    <3>2. Settled(toClient[p2], toServer[p2], opened'[p2[1]], p2, d)
      BY <2>1, <3>1, TableSettled
    <3> HIDE DEF p, r
    <3>3. Settled(toClient[p2], Append(toServer[p2], r), opened'[p2[1]], p2, d)
      BY <1>5, <2>2, <3>2, PutAtServerSettled
    <3> QED
      BY <1>5, <3>2, <3>3 DEF d
  <2> QED
    BY <2>3, <2>4
<1> QED
  BY <1>5, <1>6, <1>7 DEF IInv

-----------------------------------------------------------------------------
(* The network, and all the steps together.                                *)

LEMMA LosesStep ==
  ASSUME IInv, NEW p \in Pairs, Loses(p)
  PROVE  IInv'
<1>1. /\ TypeOK /\ Room /\ toServer \in Queues /\ toClient \in Queues
      /\ requests \in Nat /\ losses \in Nat
      /\ losses < MaxLosses /\ losses' = losses + 1
      /\ UNCHANGED <<tables, requests, sends, idles>>
  BY QueueTypes, Limits DEF IInv, TypeOK, Loses
<1>2. /\ Cardinality(Places(toServer, "request")) \in Nat
      /\ Cardinality(Places(toClient, "response")) \in Nat
      /\ Cardinality(Held) \in Nat
  BY <1>1, FS_CardinalityType DEF Room
<1>3. /\ toServer' \in Queues
      /\ IsFiniteSet(Places(toServer', "request"))
      /\ Cardinality(Places(toServer', "request")) <=
           Cardinality(Places(toServer, "request")) + 0
  <2>1. CASE UNCHANGED toServer
    BY <1>1, <1>2, <2>1 DEF Room
  <2>2. CASE /\ toServer[p] # <<>>
             /\ toServer' = [toServer EXCEPT ![p] = Tail(toServer[p])]
    <3>1. toServer' \in Queues
      BY <1>1, <2>2, TakeQueue
    <3>2. /\ IsFiniteSet(Places(toServer', "request"))
          /\ Cardinality(Places(toServer', "request")) <=
               Cardinality(Places(toServer, "request"))
                 - (IF Head(toServer[p]).is = "request" THEN 1 ELSE 0)
      BY <1>1, <2>2, TakePlaces DEF Room
    <3>3. PICK n \in Nat : n = Cardinality(Places(toServer', "request"))
      BY <3>2, FS_CardinalityType
    <3> QED
      BY <1>2, <3>1, <3>2, <3>3
  <2> QED
    BY <2>1, <2>2 DEF Loses
<1>4. /\ toClient' \in Queues
      /\ IsFiniteSet(Places(toClient', "response"))
      /\ Cardinality(Places(toClient', "response")) <=
           Cardinality(Places(toClient, "response")) + 0
  <2>1. CASE UNCHANGED toClient
    BY <1>1, <1>2, <2>1 DEF Room
  <2>2. CASE /\ toClient[p] # <<>>
             /\ toClient' = [toClient EXCEPT ![p] = Tail(toClient[p])]
    <3>1. toClient' \in Queues
      BY <1>1, <2>2, TakeQueue
    <3>2. /\ IsFiniteSet(Places(toClient', "response"))
          /\ Cardinality(Places(toClient', "response")) <=
               Cardinality(Places(toClient, "response"))
                 - (IF Head(toClient[p]).is = "response" THEN 1 ELSE 0)
      BY <1>1, <2>2, TakePlaces DEF Room
    <3>3. PICK n \in Nat : n = Cardinality(Places(toClient', "response"))
      BY <3>2, FS_CardinalityType
    <3> QED
      BY <1>2, <3>1, <3>2, <3>3
  <2> QED
    BY <2>1, <2>2 DEF Loses
<1>5. Room'
  <2>1. Held' = Held /\ requests' = requests /\ IsFiniteSet(Held)
    BY <1>1 DEF Held, tables, Room
  <2>2. 0 + 0 + 0 <= requests - requests /\ Cardinality(Held) <= Cardinality(Held) + 0
    BY <1>1, <1>2
  <2> QED
    BY <1>1, <1>3, <1>4, <2>1, <2>2, RoomStep
<1>6. losses' \in 0 .. MaxLosses /\ losses' # 0
  BY <1>1, Limits
<1>7. TypeOK'
  BY <1>1, <1>3, <1>4, <1>6 DEF TypeOK, Queues, tables
<1>8. Agreed'
  BY <1>6 DEF Agreed
<1> QED
  BY <1>5, <1>7, <1>8 DEF IInv

LEMMA InitStep == Init => IInv
<1> SUFFICES ASSUME Init  PROVE IInv
  OBVIOUS
<1>1. TypeOK
  <2>1. 0 \in 0 .. MaxRequests /\ 0 \in 0 .. MaxSends /\ 0 \in 0 .. MaxLosses
        /\ 0 \in 0 .. MaxIdle
    BY Limits
  <2> QED
    BY <2>1 DEF Init, TypeOK
<1>2. Room
  <2>1. Places(toServer, "request") = {} /\ Places(toClient, "response") = {}
    BY DEF Init, Places
  <2>2. Held = {}
    BY DEF Init, Held, Free
  <2>3. requests = 0
    BY DEF Init
  <2> QED
    BY <2>1, <2>2, <2>3, FS_EmptySet DEF Room
<1>3. Agreed
  <2>1. \A p \in Pairs, i \in Ids : ~Holds(p, i)
    BY PairType DEF Init, Holds, Free
  <2> QED
    BY <2>1 DEF Agreed
<1> QED
  BY <1>1, <1>2, <1>3 DEF IInv

LEMMA NextStep == IInv /\ [Next]_vars => IInv'
<1> SUFFICES ASSUME IInv, [Next]_vars  PROVE IInv'
  OBVIOUS
<1>1. ASSUME NEW p \in Pairs, ServerHandles(p)  PROVE IInv'
  BY <1>1, RequestTunnelStep, CloseTunnelStep, DataAtServerStep DEF ServerHandles
<1>2. ASSUME NEW p \in Pairs, ClientHandles(p)  PROVE IInv'
  BY <1>2, ResponseStep, DataAtClientStep, ErrorStep DEF ClientHandles
<1>3. ASSUME NEW p \in Pairs, Asks(p) \/ Loses(p)  PROVE IInv'
  BY <1>3, AsksStep, LosesStep
<1>4. ASSUME NEW c \in Clients, ClientUses(c)  PROVE IInv'
  BY <1>4, ClientTransferDataStep, ClientCloseTunnelStep DEF ClientUses
<1>5. ASSUME NEW s \in Servers, ServerUses(s) \/ ServerTick(s) \/ TimeoutChanged(s)
      PROVE  IInv'
  BY <1>5, ServerTransferDataStep, BecomesInactiveStep, ServerTickStep DEF ServerUses
<1>6. CASE UNCHANGED vars
  BY <1>6 DEF vars, tables, bounds, IInv, TypeOK, Room, Held, Agreed, Holds, Through
<1> QED
  BY <1>1, <1>2, <1>3, <1>4, <1>5, <1>6 DEF Next

LEMMA AgreedKnown == IInv => ServerTunnelsKnown
<1> SUFFICES ASSUME IInv, losses = 0, ClientLimit >= MaxRequests,
                    NEW p \in Pairs, toServer[p] = <<>>, toClient[p] = <<>>,
                    NEW i \in Ids, Holds(p, i)
             PROVE  \E k \in DOMAIN opened[p[1]] :
                      Matches(opened[p[1]][k], p, Through(p, i))
  BY DEF ServerTunnelsKnown, Holds, Through
<1>1. Settled(<<>>, <<>>, opened[p[1]], p, Through(p, i))
  BY DEF IInv, Agreed
<1>2. DOMAIN opened[p[1]] = 1 .. ClientLimit
  BY PairType, OpenedType DEF IInv
<1>3. Len(<<>>) = 0
  OBVIOUS
<1> QED
  BY <1>1, <1>2, <1>3 DEF Settled, Announced, Known, GivenUp

\* The tables and the commands of both plugins keep their types.
THEOREM TypesKept == Spec => []TypeOK
<1>1. IInv => TypeOK
  BY DEF IInv
<1> QED
  BY <1>1, InitStep, NextStep, PTL DEF Spec

\* No more tunnels, answers and requests than were asked for: a client with
\* entries for them all has one for each response that it takes.
THEOREM RoomKept == Spec => []Room
<1>1. IInv => Room
  BY DEF IInv
<1> QED
  BY <1>1, InitStep, NextStep, PTL DEF Spec

\* However requests, data, errors and closings cross, of any number of clients
\* and servers: when nothing was lost and nothing is under way between two of
\* them, the client knows every tunnel that the server holds for it.
THEOREM TunnelsAgreed == Spec => []ServerTunnelsKnown
  BY InitStep, NextStep, AgreedKnown, PTL DEF Spec
=============================================================================
