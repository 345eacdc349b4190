----------------------- MODULE KeyEstablishmentProofs -----------------------
(***************************************************************************)
(* Proofs about KeyEstablishment, for networks of every size, any number   *)
(* of sessions, and whatever is lost, doubled, late or refused.            *)
(*                                                                         *)
(* The argument is about confirmations: to know <<role, link>> is to have  *)
(* been in that role with that link.  G is a set of all that were ever     *)
(* made; no half of a link key, one node's ephemeral key, is in two.       *)
(***************************************************************************)
EXTENDS KeyEstablishment, FiniteSetTheorems, SequenceTheorems, TLAPS

Roles == {"initiator", "responder"}
Part == [node : Nodes \cup {None}, key : Nat]
Links == [initiator : Part, responder : Part]
Smacs == Roles \X Links

MaybeNode == Nodes \cup {None}
MaybeEp == Endpoints \cup {0}
MaybeSmac == {<<>>} \cup Smacs
MaybeLink == {<<>>} \cup Links
Operation == {"none", "keys", "smacs"}

NodeState ==
  [ep : Endpoints, ev : 0 .. 5, isInitiator : BOOLEAN, partner : MaybeNode,
   intra : BOOLEAN, partnerEp : MaybeEp, seqs : Seq(Nat), ticks : SUBSET Endpoints,
   cert : MaybeNode, pub : Nat, smac : MaybeSmac, own : Nat, link : MaybeLink,
   op : Operation, crypto : BOOLEAN, made : Nat, seq : Nat]

\* partner.isInitiator names the other's role
RoleOf(s) == IF s.isInitiator THEN "responder" ELSE "initiator"
Mine(n, s) == [node |-> n, key |-> s.own]
Party(g) == g[2][g[1]]

\* Messages of a session that are recorded up to an event
Recorded(ev, isInitiator) ==
  CASE ev = 0 -> NumSeqNumber
    [] ev = 1 -> IF isInitiator THEN 1 ELSE 0
    [] ev \in {2, 3} -> IF isInitiator THEN 2 ELSE 1
    [] OTHER -> IF isInitiator THEN 3 ELSE 2

Sole == \E e : Endpoints = {e}

\* What a node keeps, whatever has been confirmed
Shape(n, s) ==
  /\ s \in NodeState
  /\ s.partner # n /\ (s.partner = None => s.ev = NoEvent /\ s.op = "none")
  /\ s.intra => s.partnerEp \in Endpoints
  /\ Len(s.seqs) <= Recorded(s.ev, s.isInitiator)
  /\ s.isInitiator /\ s.ev \in 1 .. 3 => s.cert \in Nodes \ {n}
  /\ ~s.isInitiator /\ s.ev \in 2 .. 3 => s.cert \in Nodes \ {n}
  /\ Sole => s.ticks = IF s.ev # NoEvent THEN Endpoints ELSE {}

Unused(n, s, G) == s.own \in 1 .. s.made /\ \A g \in G : Party(g) # Mine(n, s)

\* Its ephemeral key is new until the secret is made; from then on it has a link
Bound(n, s, G) ==
  /\ s.ev = SendEphemeral => Unused(n, s, G)
  /\ s.ev \in {GenerateSecret, SendConfirm} => <<RoleOf(s), s.link>> \in G
  /\ s.ev = GenerateSecret /\ s.isInitiator => s.smac \in G
  /\ s.ev = SendConfirm => ~s.isInitiator /\ s.smac = Smac("responder", s.link)

\* What was confirmed, by whom
Confirmed(G, nd) ==
  /\ G \subseteq Smacs
  /\ \A g \in G : /\ g[2].initiator.node \in Nodes /\ g[2].responder.node \in Nodes
                  /\ g[2].initiator.node # g[2].responder.node
                  /\ Party(g).key \in 1 .. nd[Party(g).node].made
  /\ \A g, h \in G : Party(g) = Party(h) => g = h

MessageOK(m, G, A) ==
  /\ m.src \in Nodes /\ m.dst \in Nodes /\ m.src # m.dst
  /\ m.toServer \in BOOLEAN /\ m.intra \in BOOLEAN /\ m.seq \in Nat
  /\ m.cmd \in {"initiate", "ephemeral", "confirm", "terminate"}
  /\ m.intra => m.srcEp \in Endpoints /\ m.dstEp \in Endpoints
  /\ m.cmd = "ephemeral" => m.data \in Nat
  /\ m.cmd = "confirm" =>
       /\ m.data \in G
       /\ m.data[1] = IF m.toServer THEN "initiator" ELSE "responder"
       /\ ~m.toServer => m.data[2] \in A

StoredOK(k, G, A) ==
  /\ k.by \in Nodes /\ k.as \in Roles /\ k.key \in Links /\ k.kept \in BOOLEAN
  /\ k.as = "responder" => {<<"initiator", k.key>>, <<"responder", k.key>>} \subseteq G
  /\ k.as = "initiator" => k.key \in A

Taken(ks) == {k.key : k \in {l \in ks : l.as = "responder"}}

\* Nodes, messages and link keys agree with what was confirmed
Joint(G, nd, ms, ks) ==
  /\ nd \in [Nodes -> NodeState]
  /\ Confirmed(G, nd)
  /\ \A n \in Nodes : Shape(n, nd[n]) /\ Bound(n, nd[n], G)
  /\ \A m \in ms : MessageOK(m, G, Taken(ks))
  /\ \A k \in ks : StoredOK(k, G, Taken(ks))

\* A request that begins a session, and the keys a node may still make without
\* another one
Asks(m) == m.cmd = "initiate" /\ m.toServer
Asked(ms, n) == {m \in ms : Asks(m) /\ m.dst = n}
Owed(s) == s.made + (IF s.op = "keys" THEN 1 ELSE 0) + (IF s.ev = Begin THEN 1 ELSE 0)

Covered(nd, ms, c) == \A n \in Nodes : Owed(nd[n]) + Cardinality(Asked(ms, n)) <= c

KeInv ==
  /\ starts \in 0 .. MaxStarts /\ faults \in 0 .. MaxFaults
  /\ IsFiniteSet(net) /\ Covered(node, net, starts + faults)
  /\ \E G : Joint(G, node, net \cup unsent, stored)

-----------------------------------------------------------------------------
(* Single operators.                                                       *)

LEMMA Constants ==
  /\ None \notin Nodes /\ TrustCenter \in Nodes /\ Outside \subseteq Devices
  /\ MaxStarts \in Nat /\ MaxFaults \in Nat
  /\ NoEvent = 0 /\ Begin = 1 /\ GenerateKeys = 2 /\ SendEphemeral = 3
  /\ GenerateSecret = 4 /\ SendConfirm = 5 /\ ReceivedConfirm = 6 /\ NumSeqNumber = 4
  BY KeyEstablishmentAssumption DEF KeyEstablishmentAssumption, Nodes, NoEvent, Begin,
     GenerateKeys, SendEphemeral, GenerateSecret, SendConfirm, ReceivedConfirm, NumSeqNumber

\* The message a node sends to its partner
Msg(n, s, cmd, data) ==
  [src |-> n, dst |-> s.partner, cmd |-> cmd, toServer |-> ~s.isInitiator, data |-> data,
   intra |-> s.intra, seq |-> s.seq, srcEp |-> s.ep, dstEp |-> s.partnerEp]

Of(t, o, k) == [s |-> t, out |-> o, keys |-> k]

LEMMA Replaced ==
  ASSUME NEW t, NEW o, NEW k, NEW u, NEW p
  PROVE  /\ [Of(t, o, k) EXCEPT !.s = u] = Of(u, o, k)
         /\ [Of(t, o, k) EXCEPT !.out = p] = Of(t, p, k)
         /\ [Of(t, o, k) EXCEPT !.keys = p] = Of(t, o, p)
  BY DEF Of

LEMMA Sends ==
  ASSUME NEW n, NEW t \in NodeState, NEW o, NEW k, NEW cmd, NEW data
  PROVE  Send(n, Of(t, o, k), cmd, data)
           = Of([t EXCEPT !.seq = t.seq + 1], o \cup {Msg(n, t, cmd, data)}, k)
<1> DEFINE r == Of(t, o, k)
           u == [t EXCEPT !.seq = t.seq + 1]
           p == o \cup {Msg(n, t, cmd, data)}
<1>1. r.s = t /\ r.out = o /\ r.keys = k
  BY DEF Of
<1>2. Send(n, r, cmd, data) = [r EXCEPT !.s = u, !.out = p]
  BY <1>1 DEF Send, Msg
<1> HIDE DEF u, p
<1>3. [r EXCEPT !.s = u, !.out = p] = Of(u, p, k)
  <2>1. [r EXCEPT !.s = u, !.out = p] = [[r EXCEPT !.s = u] EXCEPT !.out = p]
    OBVIOUS
  <2>2. [r EXCEPT !.s = u] = Of(u, o, k)
    BY Replaced
  <2>3. [Of(u, o, k) EXCEPT !.out = p] = Of(u, p, k)
    BY Replaced
  <2> HIDE DEF r
  <2> QED
    BY <2>1, <2>2, <2>3
<1> QED
  BY <1>2, <1>3 DEF u, p

Scheduled(t, x, e) == [t EXCEPT !.ticks = t.ticks \cup x, !.ev = e]
Scheduling(r, x, e) == [r EXCEPT !.s.ticks = @ \cup x, !.s.ev = e]

LEMMA Proceeds ==
  ASSUME NEW t \in NodeState, NEW o, NEW k, NEW e, NEW x
  PROVE  Scheduling(Of(t, o, k), x, e) = Of(Scheduled(t, x, e), o, k)
<1> DEFINE r == Of(t, o, k)
           u == [t EXCEPT !.ticks = t.ticks \cup x]
           v == [u EXCEPT !.ev = e]
<1>1. r.s = t /\ r.out = o /\ r.keys = k
  BY DEF Of
<1>2. [r EXCEPT !.s.ticks = @ \cup x] = [r EXCEPT !.s = u]
  BY <1>1
<1> HIDE DEF u
<1>3. [r EXCEPT !.s = u] = Of(u, o, k)
  BY DEF Of
<1>4. [Of(u, o, k) EXCEPT !.s.ev = e] = [Of(u, o, k) EXCEPT !.s = v]
  BY DEF Of
<1> HIDE DEF v
<1>5. [Of(u, o, k) EXCEPT !.s = v] = Of(v, o, k)
  BY DEF Of
<1> QED
  BY <1>2, <1>3, <1>4, <1>5 DEF u, v, Scheduling, Scheduled

\* What the end of a session leaves
Ended(s, t) ==
  /\ t \in NodeState /\ t.ev = NoEvent /\ t.partner = s.partner /\ t.intra = s.intra
  /\ t.partnerEp = s.partnerEp /\ t.seqs = s.seqs /\ t.ticks = s.ticks \ {s.ep}
  /\ t.op = s.op /\ t.made = s.made

LEMMA Clears ==
  ASSUME NEW s \in NodeState, NEW q \in Nat
  PROVE  Ended(s, Clear([s EXCEPT !.seq = q])) /\ Ended(s, Clear(s))
<1>1. ASSUME NEW r \in NodeState  PROVE Ended(r, Clear(r))
  <2> DEFINE ti == r.ticks \ {r.ep}
             z == 0
             em == <<>>
             t == [r EXCEPT !.isInitiator = TRUE, !.ev = z, !.cert = None, !.pub = z,
                            !.smac = em, !.own = z, !.link = em, !.ticks = ti]
  <2>1. Clear(r) = t
    BY Constants DEF Clear
  <2>2. /\ ti \in SUBSET Endpoints /\ z \in Nat /\ z \in 0 .. 5 /\ em \in MaybeSmac
        /\ em \in MaybeLink /\ None \in MaybeNode
    BY DEF NodeState, MaybeSmac, MaybeLink, MaybeNode
  <2>3. z = NoEvent
    BY Constants
  <2> HIDE DEF ti, z, em
  <2>4. t \in NodeState
    BY <2>2 DEF NodeState
  <2>5. /\ t.ev = z /\ t.partner = r.partner /\ t.intra = r.intra
        /\ t.partnerEp = r.partnerEp /\ t.seqs = r.seqs /\ t.ticks = ti
        /\ t.op = r.op /\ t.made = r.made
    BY DEF NodeState
  <2> QED
    BY <2>1, <2>3, <2>4, <2>5 DEF Ended, ti
<1> DEFINE r == [s EXCEPT !.seq = q]
<1>2. r \in NodeState
  BY DEF NodeState
<1>3. /\ r.partner = s.partner /\ r.intra = s.intra /\ r.partnerEp = s.partnerEp
      /\ r.seqs = s.seqs /\ r.ticks = s.ticks /\ r.ep = s.ep /\ r.op = s.op /\ r.made = s.made
  BY DEF NodeState
<1> HIDE DEF r
<1>4. Ended(s, Clear(r))
  BY <1>1, <1>2, <1>3 DEF Ended
<1> QED
  BY <1>1, <1>4 DEF r

Keys(n, s, why, f) ==
  IF why = "established"
  THEN {[by |-> n, as |-> RoleOf(s), key |-> s.link, kept |-> ~f]} ELSE {}

\* The partner is told, if it is
Telling(n, s, o, p, why, f) ==
  \/ p = o
  \/ /\ p = o \cup {Msg(n, s, "terminate", <<>>)}
     /\ why = "established" \/ why \in Told
     /\ s.isInitiator \/ s.ev # NoEvent
     /\ why = "established" => s.isInitiator /\ f

LEMMA Cleans ==
  ASSUME NEW n, NEW s \in NodeState, NEW o, NEW why, NEW f \in BOOLEAN
  PROVE  \E t, p : /\ Cleanup(n, Of(s, o, {}), why, f) = Of(t, p, Keys(n, s, why, f))
                   /\ Ended(s, t) /\ Telling(n, s, o, p, why, f)
<1> DEFINE r == Of(s, o, {})
           done == why = "established"
           telling == /\ IF done THEN f /\ s.isInitiator ELSE why \in Told
                      /\ s.isInitiator \/ s.ev # NoEvent
           u == [s EXCEPT !.seq = s.seq + 1]
           q == o \cup {Msg(n, s, "terminate", <<>>)}
           told == IF telling THEN Of(u, q, {}) ELSE r
           k == {[by |-> n, as |-> RoleOf(s), key |-> s.link, kept |-> ~f]}
<1>1. r.s = s /\ r.out = o /\ r.keys = {}
  BY DEF Of
<1>2. Send(n, r, "terminate", <<>>) = Of(u, q, {})
  BY Sends
<1>3. told.s = (IF telling THEN u ELSE s) /\ told.keys = {}
  BY <1>1 DEF Of
<1>4. Cleanup(n, r, why, f) =
        [told EXCEPT !.s = Clear(@), !.keys = IF done THEN @ \cup k ELSE @]
  BY <1>1, <1>2 DEF Cleanup, RoleOf
<1> DEFINE t == Clear(told.s)
           kk == IF done THEN k ELSE {}
           p == IF telling THEN q ELSE o
<1>5. [told EXCEPT !.s = Clear(@), !.keys = IF done THEN @ \cup k ELSE @]
        = [told EXCEPT !.s = t, !.keys = kk]
  BY <1>3
<1>6. told = Of(told.s, p, {})
  BY <1>1, <1>3 DEF Of
<1>7. Ended(s, t)
  <2>1. s.seq + 1 \in Nat
    BY DEF NodeState
  <2>2. Ended(s, Clear(u)) /\ Ended(s, Clear(s))
    BY <2>1, Clears
  <2> HIDE DEF u
  <2> QED
    BY <1>3, <2>2
<1>8. p = o \/ (p = q /\ telling)
  OBVIOUS
<1>9. kk = Keys(n, s, why, f) /\ Telling(n, s, o, p, why, f)
  BY <1>8 DEF Keys, Telling
<1> HIDE DEF t, kk, told, p, k
<1>10. [told EXCEPT !.s = t, !.keys = kk] = Of(t, p, kk)
  <2> DEFINE v == told.s
  <2>1. told = Of(v, p, {})
    BY <1>6
  <2> HIDE DEF v
  <2>2. [told EXCEPT !.s = t, !.keys = kk] = [[told EXCEPT !.s = t] EXCEPT !.keys = kk]
    OBVIOUS
  <2>3. [Of(v, p, {}) EXCEPT !.s = t] = Of(t, p, {})
    BY Replaced
  <2>4. [Of(t, p, {}) EXCEPT !.keys = kk] = Of(t, p, kk)
    BY DEF Of
  <2> QED
    BY <2>1, <2>2, <2>3, <2>4
<1>11. Cleanup(n, r, why, f) = Of(t, p, Keys(n, s, why, f))
  BY <1>4, <1>5, <1>9, <1>10
<1> QED
  BY <1>7, <1>9, <1>11

-----------------------------------------------------------------------------
(* What a handler leaves, for the node and for the others.                 *)

\* A new link, of the ephemeral key the node has not used
Extends(n, s, G, H) ==
  \/ H = G
  \/ /\ Unused(n, s, G)
     /\ \E k \in Links :
          /\ H = G \cup {<<RoleOf(s), k>>} /\ k[RoleOf(s)] = Mine(n, s)
          /\ k.initiator.node \in Nodes /\ k.responder.node \in Nodes
          /\ k.initiator.node # k.responder.node

Outcome(n, s, r, G, H, A) ==
  /\ Extends(n, s, G, H)
  /\ Shape(n, r.s) /\ Bound(n, r.s, H) /\ r.s.made = s.made
  /\ IsFiniteSet(r.out) /\ \A m \in r.out : MessageOK(m, H, A \cup Taken(r.keys))
  /\ \/ r.keys = {}
     \/ \E k : r.keys = {k} /\ StoredOK(k, H, A)

\* What a handler may start from
Known(n, s) ==
  /\ s \in NodeState /\ s.partner \in Nodes \ {n} /\ (s.intra => s.partnerEp \in Endpoints)
  /\ Len(s.seqs) <= NumSeqNumber

LEMMA TellsWell ==
  ASSUME NEW n \in Nodes, NEW s, Known(n, s), NEW cmd, NEW data, NEW G, NEW A,
         cmd \in {"initiate", "ephemeral", "confirm", "terminate"},
         cmd = "ephemeral" => data \in Nat,
         cmd = "confirm" => /\ data \in G /\ data[1] = RoleOf(s)
                            /\ s.isInitiator => data[2] \in A
  PROVE  MessageOK(Msg(n, s, cmd, data), G, A)
<1> DEFINE m == Msg(n, s, cmd, data)
<1>1. /\ m.src = n /\ m.dst = s.partner /\ m.cmd = cmd /\ m.toServer = ~s.isInitiator
      /\ m.data = data /\ m.intra = s.intra /\ m.seq = s.seq /\ m.srcEp = s.ep
      /\ m.dstEp = s.partnerEp
  BY DEF Msg
<1>2. /\ s.ep \in Endpoints /\ s.seq \in Nat /\ s.intra \in BOOLEAN /\ s.isInitiator \in BOOLEAN
      /\ s.partner \in Nodes /\ s.partner # n /\ (s.intra => s.partnerEp \in Endpoints)
  BY DEF Known, NodeState
<1> HIDE DEF m
<1>3. m.toServer \in BOOLEAN
  BY <1>1, <1>2
<1>4. m.cmd = "confirm" => m.data[1] = IF m.toServer THEN "initiator" ELSE "responder"
  BY <1>1, <1>2 DEF RoleOf
<1>5. MessageOK(m, G, A)
  BY <1>1, <1>2, <1>3, <1>4 DEF MessageOK
<1> QED
  BY <1>5 DEF m

LEMMA Settles ==
  ASSUME NEW n, NEW s \in NodeState, NEW t, Ended(s, t), s.partner # n,
         s.partner = None => s.op = "none", s.intra => s.partnerEp \in Endpoints,
         Len(s.seqs) <= NumSeqNumber
  PROVE  /\ Shape(n, t) /\ Owed(t) <= Owed(s) /\ t.made = s.made
         /\ \A G : Bound(n, t, G)
<1>1. /\ s.ep \in Endpoints /\ s.ticks \subseteq Endpoints /\ s.made \in Nat /\ t.ev = 0
      /\ t \in NodeState
  BY Constants DEF NodeState, Ended
<1>2. Sole => t.ticks = {}
  <2>1. ASSUME NEW e, Endpoints = {e}  PROVE s.ticks \ {s.ep} = {}
    BY <1>1, <2>1
  <2> QED
    BY <2>1 DEF Sole, Ended
<1>3. Shape(n, t)
  BY <1>1, <1>2, Constants DEF Shape, Ended, Recorded
<1>4. \A G : Bound(n, t, G)
  BY <1>1, Constants DEF Bound
<1>5. Owed(t) <= Owed(s) /\ t.made = s.made
  BY <1>1, Constants DEF Owed, Ended
<1> QED
  BY <1>3, <1>4, <1>5

LEMMA Stops ==
  ASSUME NEW n \in Nodes, NEW s \in NodeState, NEW why, why # "established", NEW G, NEW A,
         s.partner # n, s.partner = None => s.op = "none",
         s.intra => s.partnerEp \in Endpoints, Len(s.seqs) <= NumSeqNumber,
         why \in Told /\ (s.isInitiator \/ s.ev # NoEvent) => s.partner # None
  PROVE  LET r == Stop(n, s, why) IN
         /\ Outcome(n, s, r, G, G, A) /\ Owed(r.s) <= Owed(s)
         /\ \A m \in r.out : ~Asks(m)
<1> DEFINE r == Stop(n, s, why)
<1>1. r = Cleanup(n, Of(s, {}, {}), why, FALSE)
  BY DEF Stop, Result, Of
<1>2. PICK t, p :
        /\ Cleanup(n, Of(s, {}, {}), why, FALSE) = Of(t, p, Keys(n, s, why, FALSE))
        /\ Ended(s, t) /\ Telling(n, s, {}, p, why, FALSE)
  BY Cleans
<1>3. r.s = t /\ r.out = p /\ r.keys = {}
  <2>1. r = Of(t, p, Keys(n, s, why, FALSE))
    BY <1>1, <1>2
  <2>2. Keys(n, s, why, FALSE) = {}
    BY DEF Keys
  <2> HIDE DEF r
  <2> QED
    BY <2>1, <2>2 DEF Of
<1>4. /\ Shape(n, t) /\ Owed(t) <= Owed(s) /\ t.made = s.made
      /\ Bound(n, t, G)
  BY <1>2, Settles
<1>5. ASSUME p # {}
      PROVE  /\ p = {Msg(n, s, "terminate", <<>>)}
             /\ MessageOK(Msg(n, s, "terminate", <<>>), G, A \cup Taken({}))
  <2>1. s.partner # None /\ s.partner \in MaybeNode
    BY <1>2, <1>5 DEF NodeState, Telling
  <2>2. Known(n, s)
    BY <2>1 DEF Known, MaybeNode
  <2> QED
    BY <1>2, <1>5, <2>2, TellsWell DEF Telling
<1>6. ~Asks(Msg(n, s, "terminate", <<>>))
  BY DEF Asks, Msg
<1>7. IsFiniteSet(p)
  BY <1>5, FS_EmptySet, FS_Singleton
<1>8. Outcome(n, s, r, G, G, A)
  BY <1>3, <1>4, <1>5, <1>7 DEF Outcome, Extends
<1> QED
  BY <1>3, <1>4, <1>5, <1>6, <1>8

-----------------------------------------------------------------------------
(* The steps of a session.                                                 *)

\* A step that did not end the session
Marked(t, e) == Scheduled(t, {t.ep}, e)

\* The two agree in all but the tick and the step.
Keeps(t, u, e) ==
  /\ u \in NodeState /\ u.ev = e /\ u.isInitiator = t.isInitiator /\ u.partner = t.partner
  /\ u.intra = t.intra /\ u.partnerEp = t.partnerEp /\ u.seqs = t.seqs /\ u.cert = t.cert
  /\ u.smac = t.smac /\ u.own = t.own /\ u.link = t.link /\ u.op = t.op /\ u.made = t.made
  /\ Sole => u.ticks = Endpoints

LEMMA Marks ==
  ASSUME NEW t \in NodeState, NEW e \in 1 .. 5
  PROVE  Keeps(t, Marked(t, e), e)
<1> DEFINE ti == t.ticks \cup {t.ep}
           u == [t EXCEPT !.ticks = ti, !.ev = e]
<1>1. ti \in SUBSET Endpoints /\ e \in 0 .. 5
  BY DEF NodeState
<1>2. Sole => ti = Endpoints
  <2>1. ASSUME NEW x, Endpoints = {x}  PROVE ti = Endpoints
    BY <1>1, <2>1
  <2> QED
    BY <2>1 DEF Sole
<1>3. Marked(t, e) = u
  BY DEF Marked, Scheduled
<1> HIDE DEF ti
<1>4. u \in NodeState
  BY <1>1 DEF NodeState
<1>5. /\ u.ev = e /\ u.isInitiator = t.isInitiator /\ u.partner = t.partner
      /\ u.intra = t.intra /\ u.partnerEp = t.partnerEp /\ u.seqs = t.seqs /\ u.cert = t.cert
      /\ u.smac = t.smac /\ u.own = t.own /\ u.link = t.link /\ u.op = t.op /\ u.made = t.made
      /\ u.ticks = ti
  BY DEF NodeState
<1> HIDE DEF u
<1> QED
  BY <1>2, <1>3, <1>4, <1>5 DEF Keeps

LEMMA Shapes ==
  ASSUME NEW n, NEW t, Known(n, t), NEW e \in 1 .. 5, NEW u, Keeps(t, u, e),
         Len(t.seqs) <= Recorded(e, t.isInitiator),
         t.isInitiator /\ e \in 1 .. 3 => t.cert \in Nodes \ {n},
         ~t.isInitiator /\ e \in 2 .. 3 => t.cert \in Nodes \ {n}
  PROVE  Shape(n, u)
  BY Constants DEF Known, Keeps, Shape

\* Which messages ask for a session
Asking(n, r) == \E y : y.dst # n /\ \A x \in r.out : Asks(x) => x = y

LEMMA Begins ==
  ASSUME NEW n \in Nodes, NEW s, Known(n, s), s.ev = NoEvent, NEW m, NEW f, NEW G, NEW A,
         Len(s.seqs) <= Recorded(Begin, s.isInitiator),
         s.isInitiator => m.src \in Nodes \ {n}
  PROVE  LET r == Proceed(n, s, Begin, m, f) IN
         /\ Outcome(n, s, r, G, G, A) /\ Owed(r.s) <= Owed(s) + 1 /\ Asking(n, r)
         /\ s.isInitiator => \A x \in r.out : ~Asks(x)
<1> DEFINE r == Proceed(n, s, Begin, m, f)
           c == IF s.isInitiator THEN m.src ELSE s.cert
           t == [s EXCEPT !.cert = c]
           v == [t EXCEPT !.seq = t.seq + 1]
           u == Marked(v, 1)
           y == Msg(n, t, "initiate", <<>>)
<1>0. s \in NodeState /\ s.seq \in Nat /\ s.made \in Nat /\ s.cert \in MaybeNode
  BY DEF Known, NodeState
<1>1. t = IF s.isInitiator THEN [s EXCEPT !.cert = m.src] ELSE s
  BY <1>0 DEF NodeState
<1>2. c \in MaybeNode
  BY <1>0 DEF MaybeNode
<1>3. Perform(n, s, Begin, m, f) = Send(n, Of(t, {}, {}), "initiate", <<>>)
  <2> HIDE DEF t
  <2> QED
    BY <1>1, Constants DEF Perform, Result, Of
<1> HIDE DEF c
<1>4. t \in NodeState
  BY <1>0, <1>2 DEF NodeState
<1>5. /\ t.partner = s.partner /\ t.intra = s.intra /\ t.partnerEp = s.partnerEp
      /\ t.seqs = s.seqs /\ t.isInitiator = s.isInitiator /\ t.made = s.made
      /\ t.op = s.op /\ t.cert = c /\ t.seq = s.seq /\ t.ep = s.ep
  BY <1>0 DEF NodeState
<1> HIDE DEF t
<1>6. v \in NodeState
  <2>1. t.seq + 1 \in Nat
    BY <1>0, <1>5
  <2> QED
    BY <1>4, <2>1 DEF NodeState
<1>7. /\ v.partner = s.partner /\ v.intra = s.intra /\ v.partnerEp = s.partnerEp
      /\ v.seqs = s.seqs /\ v.isInitiator = s.isInitiator /\ v.made = s.made
      /\ v.op = s.op /\ v.cert = c /\ v.ep = s.ep
  BY <1>4, <1>5 DEF NodeState
<1>8. Send(n, Of(t, {}, {}), "initiate", <<>>) = Of(v, {y}, {})
  <2>1. Send(n, Of(t, {}, {}), "initiate", <<>>) = Of(v, {} \cup {y}, {})
    BY <1>4, Sends
  <2> QED
    BY <2>1
<1> HIDE DEF v, y
<1>9. r = Of(u, {y}, {})
  <2>1. Proceed(n, s, Begin, m, f) = Scheduling(Of(v, {y}, {}), {s.ep}, Begin)
    <3>1. Proceed(n, s, Begin, m, f) = Scheduling(Perform(n, s, Begin, m, f), {s.ep}, Begin)
      BY Constants DEF Proceed, Scheduling
    <3> QED
      BY <1>3, <1>8, <3>1
  <2>2. Scheduling(Of(v, {y}, {}), {s.ep}, Begin)
          = Of(Scheduled(v, {s.ep}, Begin), {y}, {})
    BY <1>6, Proceeds
  <2> QED
    BY <1>7, <2>1, <2>2, Constants DEF Marked
<1>10. r.s = u /\ r.out = {y} /\ r.keys = {}
  <2> HIDE DEF r, u
  <2> QED
    BY <1>9 DEF Of
<1>11. Keeps(v, u, 1)
  BY <1>6, Marks
<1> HIDE DEF r, u
<1>12. Known(n, t) /\ Known(n, v)
  BY <1>4, <1>5, <1>6, <1>7 DEF Known
<1>13. Shape(n, u)
  <2>1. v.isInitiator => v.cert \in Nodes \ {n}
    BY <1>7 DEF c
  <2> QED
    BY <1>7, <1>11, <1>12, <2>1, Shapes, Constants
<1>14. u.ev = 1 /\ u.made = s.made /\ u.op = s.op
  BY <1>7, <1>11 DEF Keeps
<1>15. Bound(n, u, G) /\ Owed(u) <= Owed(s) + 1
  BY <1>0, <1>14, Constants DEF Bound, Owed
<1>16. MessageOK(y, G, A \cup Taken({}))
  BY <1>12, TellsWell DEF y
<1>17. y.dst # n /\ (s.isInitiator => ~Asks(y))
  BY <1>5, Constants DEF y, Msg, Asks, Known
<1>18. IsFiniteSet({y})
  BY FS_Singleton
<1>19. Outcome(n, s, r, G, G, A)
  BY <1>10, <1>13, <1>14, <1>15, <1>16, <1>18 DEF Outcome, Extends
<1>20. Asking(n, r) /\ (s.isInitiator => \A x \in r.out : ~Asks(x))
  BY <1>10, <1>17 DEF Asking
<1> QED
  BY <1>10, <1>15, <1>19, <1>20 DEF r

\* A step that goes on, and what it leaves
Going(n, s, e, m, f, t, o) ==
  /\ e \in 1 .. 5 /\ t \in NodeState /\ t.ep = s.ep
  /\ Perform(n, s, e, m, f) = Of(t, o, {})
  /\ e = SendConfirm => ~s.isInitiator
  /\ e \in {GenerateKeys, GenerateSecret} => s.op = "none"

Gone(r, t, o, e) ==
  r.s = Marked(t, e) /\ r.out = o /\ r.keys = {} /\ Keeps(t, Marked(t, e), e)

LEMMA GoesOn ==
  ASSUME NEW n, NEW s, NEW e, NEW m, NEW f, NEW t, NEW o, Going(n, s, e, m, f, t, o)
  PROVE  Gone(Proceed(n, s, e, m, f), t, o, e)
<1> DEFINE r == Proceed(n, s, e, m, f)
<1>1. r = Scheduling(Of(t, o, {}), {s.ep}, e)
  BY Constants DEF Proceed, Scheduling, Going
<1>2. Scheduling(Of(t, o, {}), {s.ep}, e) = Of(Scheduled(t, {s.ep}, e), o, {})
  BY Proceeds DEF Going
<1>3. r = Of(Marked(t, e), o, {})
  BY <1>1, <1>2 DEF Marked, Going
<1> HIDE DEF r
<1>4. r.s = Marked(t, e) /\ r.out = o /\ r.keys = {}
  BY <1>3 DEF Of
<1>5. Keeps(t, Marked(t, e), e)
  BY Marks DEF Going
<1>6. Gone(r, t, o, e)
  BY <1>4, <1>5 DEF Gone
<1> QED
  BY <1>6 DEF r

LEMMA MakesKeys ==
  ASSUME NEW n \in Nodes, NEW s, Known(n, s), s.ev = Begin, NEW m, NEW f, NEW G, NEW A,
         Len(s.seqs) <= Recorded(GenerateKeys, s.isInitiator),
         s.isInitiator => m.data \in Nat /\ s.cert \in Nodes \ {n},
         ~s.isInitiator => m.src \in Nodes \ {n}
  PROVE  LET r == Proceed(n, s, GenerateKeys, m, f) IN
         /\ Outcome(n, s, r, G, G, A) /\ Owed(r.s) <= Owed(s)
         /\ \A x \in r.out : ~Asks(x)
<1> DEFINE r == Proceed(n, s, GenerateKeys, m, f)
           b == IF s.isInitiator THEN m.data ELSE s.pub
           c == IF s.isInitiator THEN s.cert ELSE m.src
           t == [s EXCEPT !.pub = b, !.cert = c]
           v == [t EXCEPT !.op = "keys", !.crypto = TRUE]
           u == Marked(v, 2)
<1>0. s \in NodeState /\ s.made \in Nat
  BY DEF Known, NodeState
<1>1. b \in Nat /\ c \in MaybeNode /\ c \in Nodes \ {n}
  BY <1>0 DEF MaybeNode, NodeState
<1>2. StorePartner(s, m) = t
  <2>1. CASE s.isInitiator
    BY <1>0, <2>1 DEF StorePartner, NodeState
  <2>2. CASE ~s.isInitiator
    BY <1>0, <2>2 DEF StorePartner, NodeState
  <2> QED
    BY <2>1, <2>2
<1>3. Perform(n, s, GenerateKeys, m, f)
        = IF s.op # "none" THEN Stop(n, t, "noLocalResources") ELSE Of(v, {}, {})
  <2> HIDE DEF t
  <2> QED
    BY <1>2, Constants DEF Perform, StartKeys, Result, Of
<1> HIDE DEF b, c
<1>4. t \in NodeState
  BY <1>0, <1>1 DEF NodeState
<1>5. /\ t.partner = s.partner /\ t.intra = s.intra /\ t.partnerEp = s.partnerEp
      /\ t.seqs = s.seqs /\ t.isInitiator = s.isInitiator /\ t.made = s.made
      /\ t.op = s.op /\ t.cert = c /\ t.ep = s.ep /\ t.ev = s.ev
  BY <1>0 DEF NodeState
<1> HIDE DEF t
<1>6. CASE s.op # "none"
  <2>1. r = Stop(n, t, "noLocalResources")
    BY <1>3, <1>6, Constants DEF Proceed
  <2>2. /\ t.partner # n /\ t.partner # None /\ (t.intra => t.partnerEp \in Endpoints)
        /\ Len(t.seqs) <= NumSeqNumber
    BY <1>5, Constants DEF Known
  <2> DEFINE x == Stop(n, t, "noLocalResources")
  <2>3. /\ Outcome(n, t, x, G, G, A) /\ Owed(x.s) <= Owed(t)
        /\ \A y \in x.out : ~Asks(y)
    BY <1>4, <2>2, Stops
  <2> HIDE DEF r, x
  <2>4. Outcome(n, s, x, G, G, A)
    BY <1>5, <2>3 DEF Outcome, Extends
  <2>5. Owed(t) = Owed(s)
    BY <1>5 DEF Owed
  <2> QED
    BY <2>1, <2>3, <2>4, <2>5 DEF r, x
<1>7. CASE s.op = "none"
  <2>1. v \in NodeState
    <3>1. "keys" \in Operation
      BY DEF Operation
    <3> QED
      BY <1>4, <3>1 DEF NodeState
  <2>2. /\ v.partner = s.partner /\ v.intra = s.intra /\ v.partnerEp = s.partnerEp
        /\ v.seqs = s.seqs /\ v.isInitiator = s.isInitiator /\ v.made = s.made
        /\ v.op = "keys" /\ v.cert = c /\ v.ep = s.ep
    BY <1>4, <1>5 DEF NodeState
  <2> HIDE DEF v
  <2>3. Known(n, v)
    BY <2>1, <2>2 DEF Known
  <2>4. Perform(n, s, 2, m, f) = Of(v, {}, {})
    BY <1>3, <1>7, Constants
  <2>5. /\ Proceed(n, s, 2, m, f).s = u /\ Proceed(n, s, 2, m, f).out = {}
        /\ Proceed(n, s, 2, m, f).keys = {} /\ Keeps(v, u, 2)
    <3>1. Going(n, s, 2, m, f, v, {})
      BY <1>7, <2>1, <2>2, <2>4, Constants DEF Going
    <3>2. Gone(Proceed(n, s, 2, m, f), v, {}, 2)
      BY <3>1, GoesOn
    <3> QED
      BY <3>2 DEF Gone
  <2>6. r.s = u /\ r.out = {} /\ r.keys = {}
    BY <2>5, Constants
  <2> HIDE DEF r, u
  <2>7. Shape(n, u)
    BY <1>1, <2>2, <2>3, <2>5, Shapes, Constants
  <2>8. u.ev = 2 /\ u.made = s.made /\ u.op = "keys"
    BY <2>2, <2>5 DEF Keeps
  <2>9. Bound(n, u, G) /\ Owed(u) <= Owed(s)
    BY <1>0, <1>7, <2>8, Constants DEF Bound, Owed
  <2>10. Outcome(n, s, r, G, G, A)
    BY <2>6, <2>7, <2>8, <2>9, FS_EmptySet DEF Outcome, Extends
  <2> QED
    BY <2>6, <2>9, <2>10 DEF r
<1> QED
  BY <1>6, <1>7

LEMMA SendsKey ==
  ASSUME NEW n \in Nodes, NEW s, Known(n, s), s.ev = GenerateKeys, NEW m, NEW f, NEW G, NEW A,
         Len(s.seqs) <= Recorded(SendEphemeral, s.isInitiator),
         s.cert \in Nodes \ {n}, Unused(n, s, G)
  PROVE  LET r == Proceed(n, s, SendEphemeral, m, f) IN
         /\ Outcome(n, s, r, G, G, A) /\ Owed(r.s) <= Owed(s)
         /\ \A x \in r.out : ~Asks(x)
<1> DEFINE r == Proceed(n, s, SendEphemeral, m, f)
           v == [s EXCEPT !.seq = s.seq + 1]
           u == Marked(v, 3)
           y == Msg(n, s, "ephemeral", s.own)
<1>0. s \in NodeState /\ s.made \in Nat /\ s.own \in Nat /\ s.seq + 1 \in Nat
  BY DEF Known, NodeState
<1>1. Perform(n, s, 3, m, f) = Of(v, {y}, {})
  <2>1. Perform(n, s, 3, m, f) = Send(n, Of(s, {}, {}), "ephemeral", s.own)
    BY Constants DEF Perform, Result, Of
  <2>2. Send(n, Of(s, {}, {}), "ephemeral", s.own) = Of(v, {} \cup {y}, {})
    BY <1>0, Sends
  <2> QED
    BY <2>1, <2>2
<1>2. v \in NodeState
  BY <1>0 DEF NodeState
<1>3. /\ v.partner = s.partner /\ v.intra = s.intra /\ v.partnerEp = s.partnerEp
      /\ v.seqs = s.seqs /\ v.isInitiator = s.isInitiator /\ v.made = s.made
      /\ v.op = s.op /\ v.cert = s.cert /\ v.ep = s.ep /\ v.own = s.own
  BY <1>0 DEF NodeState
<1> HIDE DEF v, y
<1>4. Known(n, v)
  BY <1>2, <1>3 DEF Known
<1>5. /\ Proceed(n, s, 3, m, f).s = u /\ Proceed(n, s, 3, m, f).out = {y}
      /\ Proceed(n, s, 3, m, f).keys = {} /\ Keeps(v, u, 3)
  <2>1. Going(n, s, 3, m, f, v, {y})
    BY <1>1, <1>2, <1>3, Constants DEF Going
  <2>2. Gone(Proceed(n, s, 3, m, f), v, {y}, 3)
    BY <2>1, GoesOn
  <2> QED
    BY <2>2 DEF Gone
<1>6. r.s = u /\ r.out = {y} /\ r.keys = {}
  BY <1>5, Constants
<1> HIDE DEF r, u
<1>7. Shape(n, u)
  BY <1>3, <1>4, <1>5, Shapes, Constants
<1>8. u.ev = 3 /\ u.made = s.made /\ u.op = s.op /\ u.own = s.own
  BY <1>3, <1>5 DEF Keeps
<1>9. Bound(n, u, G)
  BY <1>8, Constants DEF Bound, Unused, Mine
<1>10. Owed(u) <= Owed(s)
  BY <1>0, <1>8, Constants DEF Owed
<1>11. MessageOK(y, G, A \cup Taken({}))
  BY <1>0, TellsWell DEF y
<1>12. ~Asks(y) /\ IsFiniteSet({y})
  BY FS_Singleton DEF y, Asks, Msg
<1>13. Outcome(n, s, r, G, G, A)
  BY <1>6, <1>7, <1>8, <1>9, <1>11, <1>12 DEF Outcome, Extends
<1> QED
  BY <1>6, <1>10, <1>12, <1>13 DEF r

\* What a handler may do, that costs d keys a node may still make
Handles(n, s, r, G, A, d) ==
  /\ \E H : Outcome(n, s, r, G, H, A)
  /\ Owed(r.s) <= Owed(s) + d
  /\ \A x \in r.out : ~Asks(x)

LEMMA Fails ==
  ASSUME NEW n \in Nodes, NEW s, NEW t, Known(n, t), NEW why, why # "established",
         NEW G, NEW A, t.made = s.made, t.op = s.op, t.ev = s.ev
  PROVE  Handles(n, s, Stop(n, t, why), G, A, 0)
<1> DEFINE r == Stop(n, t, why)
<1>1. /\ t \in NodeState /\ t.partner # n /\ t.partner # None /\ Len(t.seqs) <= NumSeqNumber
      /\ t.intra => t.partnerEp \in Endpoints
      /\ t.made \in Nat
  BY Constants DEF Known, NodeState
<1>2. Outcome(n, t, r, G, G, A) /\ Owed(r.s) <= Owed(t) /\ \A x \in r.out : ~Asks(x)
  BY <1>1, Stops
<1> HIDE DEF r
<1>3. Outcome(n, s, r, G, G, A)
  BY <1>2 DEF Outcome, Extends
<1>4. Owed(t) = Owed(s) /\ Owed(t) \in Int /\ Owed(r.s) \in Int
  <2>1. r.s.made = t.made
    BY <1>2 DEF Outcome
  <2> QED
    BY <1>1, <2>1 DEF Owed
<1>5. Owed(r.s) <= Owed(s) + 0
  BY <1>2, <1>4
<1>6. Handles(n, s, r, G, A, 0)
  BY <1>2, <1>3, <1>5 DEF Handles
<1> QED
  BY <1>6 DEF r

LEMMA MakesSecret ==
  ASSUME NEW n \in Nodes, NEW s, Known(n, s), s.ev = SendEphemeral, NEW m, NEW f,
         NEW G, NEW A, G \subseteq Smacs,
         Len(s.seqs) <= Recorded(GenerateSecret, s.isInitiator),
         s.cert \in Nodes \ {n}, Unused(n, s, G),
         s.isInitiator => m.data \in G, ~s.isInitiator => m.data \in Nat
  PROVE  Handles(n, s, Proceed(n, s, GenerateSecret, m, f), G, A, 0)
<1> DEFINE r == Proceed(n, s, GenerateSecret, m, f)
           b == IF s.isInitiator THEN s.pub ELSE m.data
           c == IF s.isInitiator THEN m.data ELSE s.smac
           t == [s EXCEPT !.pub = b, !.smac = c]
           l == LinkOf(n, t)
           z == 0
           v == [t EXCEPT !.link = l, !.cert = None, !.pub = z, !.op = "smacs", !.crypto = TRUE]
           u == Marked(v, 4)
<1>0. /\ s \in NodeState /\ s.made \in Nat /\ s.pub \in Nat /\ s.smac \in MaybeSmac
      /\ s.own \in Nat
  BY DEF Known, NodeState
<1>1. b \in Nat /\ c \in MaybeSmac
  BY <1>0 DEF MaybeSmac
<1>2. t = IF s.isInitiator THEN [s EXCEPT !.smac = m.data] ELSE [s EXCEPT !.pub = m.data]
  <2>1. CASE s.isInitiator
    BY <1>0, <2>1 DEF NodeState
  <2>2. CASE ~s.isInitiator
    BY <1>0, <2>2 DEF NodeState
  <2> QED
    BY <2>1, <2>2
<1>3. Perform(n, s, 4, m, f)
        = IF s.op # "none" THEN Stop(n, t, "noLocalResources") ELSE Of(v, {}, {})
  <2> HIDE DEF t
  <2> QED
    BY <1>2, Constants DEF Perform, StartSmacs, Result, Of
<1> HIDE DEF b, c
<1>4. t \in NodeState
  BY <1>0, <1>1 DEF NodeState
<1>5. /\ t.partner = s.partner /\ t.intra = s.intra /\ t.partnerEp = s.partnerEp
      /\ t.seqs = s.seqs /\ t.isInitiator = s.isInitiator /\ t.made = s.made
      /\ t.op = s.op /\ t.cert = s.cert /\ t.ep = s.ep /\ t.ev = s.ev /\ t.own = s.own
      /\ t.smac = c /\ t.pub = b
  BY <1>0 DEF NodeState
<1> HIDE DEF t
<1>6. CASE s.op # "none"
  <2>1. r = Stop(n, t, "noLocalResources")
    BY <1>3, <1>6, Constants DEF Proceed
  <2>2. Known(n, t)
    BY <1>4, <1>5 DEF Known
  <2>3. Handles(n, s, Stop(n, t, "noLocalResources"), G, A, 0)
    BY <1>5, <2>2, Fails
  <2> QED
    BY <2>1, <2>3
<1>7. CASE s.op = "none"
  <2>1. /\ l \in Links /\ l[RoleOf(s)] = Mine(n, s) /\ l.initiator.node \in Nodes
        /\ l.responder.node \in Nodes /\ l.initiator.node # l.responder.node
    <3> DEFINE mine == [node |-> n, key |-> s.own]
               theirs == [node |-> s.cert, key |-> b]
    <3>1. mine \in Part /\ theirs \in Part
      BY <1>0, <1>1 DEF Part
    <3>2. l = IF s.isInitiator THEN [initiator |-> theirs, responder |-> mine]
                               ELSE [initiator |-> mine, responder |-> theirs]
      BY <1>5 DEF LinkOf
    <3>3. mine.node = n /\ theirs.node = s.cert /\ mine = Mine(n, s)
      BY DEF Mine
    <3> HIDE DEF l, mine, theirs
    <3> QED
      BY <3>1, <3>2, <3>3 DEF Links, RoleOf
  <2> HIDE DEF l
  <2>2. z \in Nat /\ "smacs" \in Operation /\ l \in MaybeLink /\ None \in MaybeNode
    BY <2>1 DEF Operation, MaybeLink, MaybeNode
  <2> HIDE DEF z
  <2>3. v \in NodeState
    BY <1>4, <2>2 DEF NodeState
  <2>4. /\ v.partner = s.partner /\ v.intra = s.intra /\ v.partnerEp = s.partnerEp
        /\ v.seqs = s.seqs /\ v.isInitiator = s.isInitiator /\ v.made = s.made
        /\ v.op = "smacs" /\ v.ep = s.ep /\ v.link = l /\ v.smac = c
    BY <1>4, <1>5 DEF NodeState
  <2>5. Perform(n, s, 4, m, f) = Of(v, {}, {})
    BY <1>3, <1>7 DEF l, z
  <2> HIDE DEF v
  <2>6. Known(n, v)
    BY <2>3, <2>4 DEF Known
  <2>7. Gone(Proceed(n, s, 4, m, f), v, {}, 4)
    <3>1. Going(n, s, 4, m, f, v, {})
      BY <1>7, <2>3, <2>4, <2>5, Constants DEF Going
    <3> QED
      BY <3>1, GoesOn
  <2>8. r.s = u /\ r.out = {} /\ r.keys = {} /\ Keeps(v, u, 4)
    BY <2>7, Constants DEF Gone
  <2> HIDE DEF r, u
  <2> DEFINE H == G \cup {<<RoleOf(s), l>>}
  <2>9. Extends(n, s, G, H)
    BY <2>1 DEF Extends
  <2>10. Shape(n, u)
    BY <2>4, <2>6, <2>8, Shapes, Constants
  <2>11. /\ u.ev = 4 /\ u.made = s.made /\ u.op = "smacs" /\ u.link = l /\ u.smac = c
         /\ u.isInitiator = s.isInitiator
    BY <2>4, <2>8 DEF Keeps
  <2>12. RoleOf(u) = RoleOf(s) /\ (s.isInitiator => c \in G)
    BY <2>11 DEF RoleOf, c
  <2>13. Bound(n, u, H)
    BY <2>11, <2>12, Constants DEF Bound
  <2>14. Owed(u) <= Owed(s) + 0
    BY <1>0, <1>7, <2>11, Constants DEF Owed
  <2>15. Outcome(n, s, r, G, H, A)
    BY <2>8, <2>9, <2>10, <2>11, <2>13, FS_EmptySet DEF Outcome
  <2>16. Handles(n, s, r, G, A, 0)
    BY <2>8, <2>14, <2>15 DEF Handles
  <2> QED
    BY <2>16 DEF r
<1> QED
  BY <1>6, <1>7

\* The end of a session that made a link key
LEMMA Establishes ==
  ASSUME NEW n \in Nodes, NEW s, Known(n, s), NEW o, NEW f \in BOOLEAN, NEW G, NEW A, NEW k,
         k = [by |-> n, as |-> RoleOf(s), key |-> s.link, kept |-> ~f], StoredOK(k, G, A),
         IsFiniteSet(o), \A x \in o : MessageOK(x, G, A \cup Taken({k})) /\ ~Asks(x)
  PROVE  Handles(n, s, Cleanup(n, Of(s, o, {}), "established", f), G, A, 0)
<1> DEFINE r == Cleanup(n, Of(s, o, {}), "established", f)
           y == Msg(n, s, "terminate", <<>>)
<1>0. /\ s \in NodeState /\ s.partner # n /\ s.partner # None /\ Len(s.seqs) <= NumSeqNumber
      /\ s.intra => s.partnerEp \in Endpoints
      /\ s.made \in Nat
  BY Constants DEF Known, NodeState
<1>1. PICK t, p :
        /\ r = Of(t, p, Keys(n, s, "established", f))
        /\ Ended(s, t) /\ Telling(n, s, o, p, "established", f)
  BY <1>0, Cleans
<1>2. Keys(n, s, "established", f) = {k}
  BY DEF Keys
<1> HIDE DEF r
<1>3. r.s = t /\ r.out = p /\ r.keys = {k}
  BY <1>1, <1>2 DEF Of
<1>4. Shape(n, t) /\ Owed(t) <= Owed(s) /\ t.made = s.made /\ Bound(n, t, G)
  BY <1>0, <1>1, Settles
<1>5. MessageOK(y, G, A \cup Taken({k})) /\ ~Asks(y)
  <2>1. MessageOK(y, G, A \cup Taken({k}))
    BY TellsWell
  <2> QED
    BY <2>1 DEF Asks, Msg
<1> HIDE DEF y
<1>6. p = o \/ p = o \cup {y}
  BY <1>1 DEF Telling, y
<1>7. IsFiniteSet(p)
  BY <1>6, FS_AddElement
<1>8. \A x \in p : MessageOK(x, G, A \cup Taken({k})) /\ ~Asks(x)
  BY <1>5, <1>6
<1>9. Outcome(n, s, r, G, G, A)
  BY <1>3, <1>4, <1>7, <1>8 DEF Outcome, Extends
<1>10. Owed(t) <= Owed(s) + 0
  BY <1>0, <1>4 DEF Owed
<1>11. Handles(n, s, r, G, A, 0)
  BY <1>3, <1>8, <1>9, <1>10 DEF Handles
<1> QED
  BY <1>11 DEF r

LEMMA Confirms ==
  ASSUME NEW n \in Nodes, NEW s, Known(n, s), s.ev = GenerateSecret, NEW m, NEW f \in BOOLEAN,
         NEW G, NEW A, G \subseteq Smacs,
         Len(s.seqs) <= Recorded(SendConfirm, s.isInitiator),
         <<RoleOf(s), s.link>> \in G, s.isInitiator => s.smac \in G
  PROVE  Handles(n, s, Proceed(n, s, SendConfirm, m, f), G, A, 0)
<1> DEFINE r == Proceed(n, s, SendConfirm, m, f)
<1>0. /\ s \in NodeState /\ s.made \in Nat /\ s.seq + 1 \in Nat /\ s.isInitiator \in BOOLEAN
      /\ s.link \in Links
  BY DEF Known, NodeState, Smacs
<1>1. CASE ~s.isInitiator
  <2> DEFINE c == Smac("responder", s.link)
             t == [s EXCEPT !.smac = c]
             v == [t EXCEPT !.seq = t.seq + 1]
             y == Msg(n, t, "confirm", Smac("initiator", s.link))
             u == Marked(v, 5)
  <2>1. c \in MaybeSmac
    BY <1>0 DEF MaybeSmac, Smacs, Smac, Roles
  <2> HIDE DEF c
  <2>2. t \in NodeState
    BY <1>0, <2>1 DEF NodeState
  <2>3. /\ t.partner = s.partner /\ t.intra = s.intra /\ t.partnerEp = s.partnerEp
        /\ t.seqs = s.seqs /\ t.isInitiator = s.isInitiator /\ t.made = s.made
        /\ t.op = s.op /\ t.ep = s.ep /\ t.link = s.link /\ t.smac = c /\ t.seq = s.seq
    BY <1>0 DEF NodeState
  <2>4. Perform(n, s, 5, m, f) = Send(n, Of(t, {}, {}), "confirm", Smac("initiator", s.link))
    BY <1>1, Constants DEF Perform, Confirm, Result, Of, c
  <2> HIDE DEF t
  <2>5. v \in NodeState
    BY <1>0, <2>2, <2>3 DEF NodeState
  <2>6. /\ v.partner = s.partner /\ v.intra = s.intra /\ v.partnerEp = s.partnerEp
        /\ v.seqs = s.seqs /\ v.isInitiator = s.isInitiator /\ v.made = s.made
        /\ v.op = s.op /\ v.ep = s.ep /\ v.link = s.link /\ v.smac = c
    BY <2>2, <2>3 DEF NodeState
  <2>7. Send(n, Of(t, {}, {}), "confirm", Smac("initiator", s.link)) = Of(v, {y}, {})
    <3>1. Send(n, Of(t, {}, {}), "confirm", Smac("initiator", s.link)) = Of(v, {} \cup {y}, {})
      BY <2>2, Sends
    <3> QED
      BY <3>1
  <2> HIDE DEF v, y
  <2>8. Known(n, t) /\ Known(n, v)
    BY <2>2, <2>3, <2>5, <2>6 DEF Known
  <2>9. Gone(Proceed(n, s, 5, m, f), v, {y}, 5)
    <3>1. Going(n, s, 5, m, f, v, {y})
      BY <1>1, <2>4, <2>5, <2>6, <2>7, Constants DEF Going
    <3> QED
      BY <3>1, GoesOn
  <2>10. r.s = u /\ r.out = {y} /\ r.keys = {} /\ Keeps(v, u, 5)
    BY <2>9, Constants DEF Gone
  <2> HIDE DEF r, u
  <2>11. Shape(n, u)
    BY <2>6, <2>8, <2>10, Shapes, Constants
  <2>12. /\ u.ev = 5 /\ u.made = s.made /\ u.op = s.op /\ u.link = s.link /\ u.smac = c
         /\ u.isInitiator = s.isInitiator
    BY <2>6, <2>10 DEF Keeps
  <2>13. Bound(n, u, G) /\ Owed(u) <= Owed(s) + 0
    BY <1>0, <1>1, <2>12, Constants DEF Bound, Owed, RoleOf, c
  <2>14. MessageOK(y, G, A \cup Taken({}))
    <3> DEFINE d == Smac("initiator", s.link)
    <3>1. d \in G /\ d[1] = RoleOf(t) /\ ~t.isInitiator
      BY <1>1, <2>3 DEF Smac, RoleOf
    <3> HIDE DEF d
    <3>2. MessageOK(Msg(n, t, "confirm", d), G, A \cup Taken({}))
      BY <2>8, <3>1, TellsWell
    <3> QED
      BY <3>2 DEF y, d
  <2>15. ~Asks(y) /\ IsFiniteSet({y})
    BY FS_Singleton DEF y, Asks, Msg
  <2>16. Outcome(n, s, r, G, G, A)
    BY <2>10, <2>11, <2>12, <2>13, <2>14, <2>15 DEF Outcome, Extends
  <2>17. Handles(n, s, r, G, A, 0)
    BY <2>10, <2>13, <2>15, <2>16 DEF Handles
  <2> QED
    BY <2>17 DEF r
<1>2. CASE s.isInitiator /\ s.smac # Smac("initiator", s.link)
  <2>1. r = Stop(n, s, "badConfirm")
    BY <1>2, Constants DEF Proceed, Perform, Confirm
  <2>2. Handles(n, s, Stop(n, s, "badConfirm"), G, A, 0)
    BY Fails
  <2> QED
    BY <2>1, <2>2
<1>3. CASE s.isInitiator /\ s.smac = Smac("initiator", s.link)
  <2> DEFINE d == Smac("responder", s.link)
             y == Msg(n, s, "confirm", d)
             v == [s EXCEPT !.seq = s.seq + 1]
             k == [by |-> n, as |-> "responder", key |-> s.link, kept |-> ~f]
             x == Cleanup(n, Of(v, {y}, {}), "established", f)
  <2>1. d \in G /\ d[1] = RoleOf(s) /\ d[2] = s.link
    BY <1>3 DEF Smac, RoleOf
  <2>2. {<<"initiator", s.link>>, <<"responder", s.link>>} \subseteq G
    BY <1>3 DEF Smac, RoleOf
  <2>3. k.by = n /\ k.as = "responder" /\ k.key = s.link /\ k.kept \in BOOLEAN
    OBVIOUS
  <2>4. r = Cleanup(n, Send(n, Of(s, {}, {}), "confirm", d), "established", f)
    BY <1>3, Constants DEF Proceed, Perform, Confirm, Result, Of
  <2>5. Send(n, Of(s, {}, {}), "confirm", d) = Of(v, {y}, {})
    <3>1. Send(n, Of(s, {}, {}), "confirm", d) = Of(v, {} \cup {y}, {})
      BY <1>0, Sends
    <3> QED
      BY <3>1
  <2>6. v \in NodeState
    BY <1>0 DEF NodeState
  <2>7. /\ v.partner = s.partner /\ v.intra = s.intra /\ v.partnerEp = s.partnerEp
        /\ v.seqs = s.seqs /\ v.isInitiator = s.isInitiator /\ v.made = s.made
        /\ v.op = s.op /\ v.ev = s.ev /\ v.link = s.link
    BY <1>0 DEF NodeState
  <2> HIDE DEF v, d
  <2>8. Known(n, v)
    BY <2>6, <2>7 DEF Known
  <2>9. k = [by |-> n, as |-> RoleOf(v), key |-> v.link, kept |-> ~f]
    BY <1>3, <2>7 DEF RoleOf
  <2> HIDE DEF k
  <2>10. StoredOK(k, G, A)
    BY <1>0, <2>2, <2>3 DEF StoredOK, Roles
  <2>11. s.link \in A \cup Taken({k})
    BY <2>3 DEF Taken
  <2>12. MessageOK(y, G, A \cup Taken({k})) /\ ~Asks(y)
    <3> DEFINE B == A \cup Taken({k})
               cmd == "confirm"
    <3>1. /\ cmd \in {"initiate", "ephemeral", "confirm", "terminate"} /\ cmd # "ephemeral"
          /\ d \in G /\ d[1] = RoleOf(s) /\ d[2] \in B
      BY <2>1, <2>11
    <3> HIDE DEF B, cmd
    <3>2. MessageOK(Msg(n, s, cmd, d), G, B)
      BY <3>1, TellsWell
    <3> QED
      BY <3>2 DEF Asks, Msg, B, cmd
  <2> HIDE DEF y
  <2>13. IsFiniteSet({y})
    BY FS_Singleton
  <2>14. Handles(n, v, x, G, A, 0)
    BY <2>8, <2>9, <2>10, <2>12, <2>13, Establishes
  <2> HIDE DEF x
  <2>15. Owed(v) = Owed(s)
    BY <2>7 DEF Owed
  <2>16. PICK H : Outcome(n, v, x, G, H, A)
    BY <2>14 DEF Handles
  <2>17. v.own = s.own
    BY <1>0 DEF NodeState, v
  <2>18. Outcome(n, s, x, G, H, A)
    BY <2>7, <2>16, <2>17 DEF Outcome, Extends, Unused, Mine, RoleOf
  <2>19. Handles(n, s, x, G, A, 0)
    BY <2>14, <2>15, <2>18 DEF Handles
  <2> QED
    BY <2>4, <2>5, <2>19 DEF x
<1> QED
  BY <1>1, <1>2, <1>3

LEMMA Receives ==
  ASSUME NEW n \in Nodes, NEW s, Known(n, s), NEW m, NEW f \in BOOLEAN, NEW G, NEW A,
         G \subseteq Smacs, ~s.isInitiator, s.smac = Smac("responder", s.link),
         m.data \in G, m.data[2] \in A
  PROVE  Handles(n, s, Proceed(n, s, ReceivedConfirm, m, f), G, A, 0)
<1> DEFINE r == Proceed(n, s, ReceivedConfirm, m, f)
<1>1. CASE m.data # s.smac
  <2>1. r = Stop(n, s, "badConfirm")
    BY <1>1, Constants DEF Proceed, Perform
  <2>2. Handles(n, s, Stop(n, s, "badConfirm"), G, A, 0)
    BY Fails
  <2> QED
    BY <2>1, <2>2
<1>2. CASE m.data = s.smac
  <2> DEFINE k == [by |-> n, as |-> "initiator", key |-> s.link, kept |-> ~f]
             o == {}
  <2>1. r = Cleanup(n, Of(s, o, {}), "established", f)
    BY <1>2, Constants DEF Proceed, Perform, Result, Of
  <2>2. k.by = n /\ k.as = "initiator" /\ k.key = s.link /\ k.kept \in BOOLEAN
    OBVIOUS
  <2>3. k = [by |-> n, as |-> RoleOf(s), key |-> s.link, kept |-> ~f]
    BY DEF RoleOf
  <2> HIDE DEF k
  <2>4. s.link \in Links /\ s.link \in A
    BY <1>2 DEF Smac, Smacs
  <2>5. StoredOK(k, G, A)
    BY <2>2, <2>4 DEF StoredOK, Roles
  <2>6. IsFiniteSet(o) /\ \A x \in o : MessageOK(x, G, A \cup Taken({k})) /\ ~Asks(x)
    BY FS_EmptySet
  <2> HIDE DEF o
  <2>7. Handles(n, s, Cleanup(n, Of(s, o, {}), "established", f), G, A, 0)
    BY <2>3, <2>5, <2>6, Establishes
  <2> QED
    BY <2>1, <2>7
<1> QED
  BY <1>1, <1>2

\* What a step in its turn finds
Ready(n, s, e, m, G, A) ==
  /\ e <= SendConfirm => Len(s.seqs) <= Recorded(e, s.isInitiator)
  /\ e = Begin => (s.isInitiator => m.src \in Nodes \ {n})
  /\ e = GenerateKeys => /\ s.isInitiator => m.data \in Nat /\ s.cert \in Nodes \ {n}
                         /\ ~s.isInitiator => m.src \in Nodes \ {n}
  /\ e \in {SendEphemeral, GenerateSecret} => s.cert \in Nodes \ {n} /\ Unused(n, s, G)
  /\ e = GenerateSecret => /\ s.isInitiator => m.data \in G
                           /\ ~s.isInitiator => m.data \in Nat
  /\ e = SendConfirm => <<RoleOf(s), s.link>> \in G /\ (s.isInitiator => s.smac \in G)
  /\ e = ReceivedConfirm => /\ ~s.isInitiator /\ s.smac = Smac("responder", s.link)
                            /\ m.data \in G /\ m.data[2] \in A

LEMMA OutOfTurn ==
  ASSUME NEW n, NEW s, NEW e, NEW m, NEW v
  PROVE  \/ \E why \in {"invalidMessage", "notAllowed", "noLocalResources"} :
              Machine(n, s, e, m, v) = Stop(n, s, why)
         \/ /\ e = s.ev + 1
            /\ \E f \in BOOLEAN : Machine(n, s, e, m, v) = Proceed(n, s, e, m, f)
<1> DEFINE f == v = "storeFails"
<1>1. CASE Machine(n, s, e, m, v) = Proceed(n, s, e, m, f) /\ e = s.ev + 1
  <2>1. f \in BOOLEAN
    OBVIOUS
  <2> HIDE DEF f
  <2> QED
    BY <1>1, <2>1
<1>2. CASE ~(Machine(n, s, e, m, v) = Proceed(n, s, e, m, f) /\ e = s.ev + 1)
  BY <1>2 DEF Machine
<1> QED
  BY <1>1, <1>2

LEMMA Weaker ==
  ASSUME NEW n, NEW s, NEW r, NEW G, NEW A, s.made \in Nat, Handles(n, s, r, G, A, 0)
  PROVE  Handles(n, s, r, G, A, 1)
<1>1. PICK H : Outcome(n, s, r, G, H, A)
  BY DEF Handles
<1>2. r.s.made = s.made
  BY <1>1 DEF Outcome
<1>3. Owed(r.s) <= Owed(s) + 0 /\ Owed(r.s) \in Int /\ Owed(s) \in Int
  BY <1>2 DEF Handles, Owed
<1> QED
  BY <1>3 DEF Handles

LEMMA MachineHandles ==
  ASSUME NEW n \in Nodes, NEW s, Known(n, s), NEW e \in 1 .. 6, NEW m, NEW v, NEW G, NEW A,
         G \subseteq Smacs, e = s.ev + 1 => Ready(n, s, e, m, G, A), e # Begin \/ s.isInitiator
  PROVE  Handles(n, s, Machine(n, s, e, m, v), G, A, IF e = Begin THEN 1 ELSE 0)
<1> DEFINE r == Machine(n, s, e, m, v)
<1>0. s \in NodeState /\ s.ev \in 0 .. 5 /\ s.made \in Nat
  BY DEF Known, NodeState
<1>1. CASE \E why \in {"invalidMessage", "notAllowed", "noLocalResources"} :
             r = Stop(n, s, why)
  <2>1. PICK why \in {"invalidMessage", "notAllowed", "noLocalResources"} : r = Stop(n, s, why)
    BY <1>1
  <2>2. why # "established"
    OBVIOUS
  <2>3. Handles(n, s, Stop(n, s, why), G, A, 0)
    BY <2>2, Fails
  <2> HIDE DEF r
  <2>4. Handles(n, s, r, G, A, 0)
    BY <2>1, <2>3
  <2>5. Handles(n, s, r, G, A, 1)
    BY <1>0, <2>4, Weaker
  <2>6. Handles(n, s, r, G, A, IF e = Begin THEN 1 ELSE 0)
    BY <2>4, <2>5
  <2> QED
    BY <2>6 DEF r
<1>2. CASE /\ e = s.ev + 1
           /\ \E f \in BOOLEAN : r = Proceed(n, s, e, m, f)
  <2>1. PICK f \in BOOLEAN : r = Proceed(n, s, e, m, f)
    BY <1>2
  <2>2. Ready(n, s, e, m, G, A)
    BY <1>2
  <2> HIDE DEF r
  <2>3. CASE e = 1
    <3> DEFINE x == Proceed(n, s, Begin, m, f)
    <3>1. s.ev = NoEvent /\ Len(s.seqs) <= Recorded(Begin, s.isInitiator)
          /\ (s.isInitiator => m.src \in Nodes \ {n})
      BY <1>0, <1>2, <2>2, <2>3, Constants DEF Ready
    <3>2. /\ Outcome(n, s, x, G, G, A) /\ Owed(x.s) <= Owed(s) + 1
          /\ s.isInitiator => \A y \in x.out : ~Asks(y)
      BY <3>1, Begins
    <3> HIDE DEF x
    <3>3. Handles(n, s, x, G, A, 1)
      BY <2>3, <3>2, Constants DEF Handles
    <3>4. r = x /\ e = Begin
      BY <2>1, <2>3, Constants DEF x
    <3> QED
      BY <3>3, <3>4 DEF r
  <2>4. CASE e = 2
    <3> DEFINE x == Proceed(n, s, GenerateKeys, m, f)
    <3>1. s.ev = Begin /\ Len(s.seqs) <= Recorded(GenerateKeys, s.isInitiator)
          /\ (s.isInitiator => m.data \in Nat /\ s.cert \in Nodes \ {n})
          /\ (~s.isInitiator => m.src \in Nodes \ {n})
      BY <1>0, <1>2, <2>2, <2>4, Constants DEF Ready
    <3>2. Outcome(n, s, x, G, G, A) /\ Owed(x.s) <= Owed(s) /\ \A y \in x.out : ~Asks(y)
      BY <3>1, MakesKeys
    <3> HIDE DEF x
    <3>3. r = x /\ e # Begin /\ x.s.made = s.made
      BY <2>1, <2>4, <3>2, Constants DEF x, Outcome
    <3>4. Owed(x.s) <= Owed(s) + 0
      BY <1>0, <3>2, <3>3 DEF Owed
    <3>5. Handles(n, s, x, G, A, 0)
      BY <3>2, <3>4 DEF Handles
    <3> QED
      BY <3>3, <3>5 DEF r
  <2>5. CASE e = 3
    <3> DEFINE x == Proceed(n, s, SendEphemeral, m, f)
    <3>1. s.ev = GenerateKeys /\ Len(s.seqs) <= Recorded(SendEphemeral, s.isInitiator)
          /\ s.cert \in Nodes \ {n} /\ Unused(n, s, G)
      BY <1>0, <1>2, <2>2, <2>5, Constants DEF Ready
    <3>2. Outcome(n, s, x, G, G, A) /\ Owed(x.s) <= Owed(s) /\ \A y \in x.out : ~Asks(y)
      BY <3>1, SendsKey
    <3> HIDE DEF x
    <3>3. r = x /\ e # Begin /\ x.s.made = s.made
      BY <2>1, <2>5, <3>2, Constants DEF x, Outcome
    <3>4. Owed(x.s) <= Owed(s) + 0
      BY <1>0, <3>2, <3>3 DEF Owed
    <3>5. Handles(n, s, x, G, A, 0)
      BY <3>2, <3>4 DEF Handles
    <3> QED
      BY <3>3, <3>5 DEF r
  <2>6. CASE e = 4
    <3>1. s.ev = SendEphemeral /\ Len(s.seqs) <= Recorded(GenerateSecret, s.isInitiator)
          /\ s.cert \in Nodes \ {n} /\ Unused(n, s, G)
          /\ (s.isInitiator => m.data \in G) /\ (~s.isInitiator => m.data \in Nat)
      BY <1>0, <1>2, <2>2, <2>6, Constants DEF Ready
    <3>2. Handles(n, s, Proceed(n, s, GenerateSecret, m, f), G, A, 0)
      BY <3>1, MakesSecret
    <3>3. r = Proceed(n, s, GenerateSecret, m, f) /\ e # Begin
      BY <2>1, <2>6, Constants
    <3> QED
      BY <3>2, <3>3 DEF r
  <2>7. CASE e = 5
    <3>1. s.ev = GenerateSecret /\ Len(s.seqs) <= Recorded(SendConfirm, s.isInitiator)
          /\ <<RoleOf(s), s.link>> \in G /\ (s.isInitiator => s.smac \in G)
      BY <1>0, <1>2, <2>2, <2>7, Constants DEF Ready
    <3>2. Handles(n, s, Proceed(n, s, SendConfirm, m, f), G, A, 0)
      BY <3>1, Confirms
    <3>3. r = Proceed(n, s, SendConfirm, m, f) /\ e # Begin
      BY <2>1, <2>7, Constants
    <3> QED
      BY <3>2, <3>3 DEF r
  <2>8. CASE e = 6
    <3>1. ~s.isInitiator /\ s.smac = Smac("responder", s.link)
          /\ m.data \in G /\ m.data[2] \in A
      BY <1>2, <2>2, <2>8, Constants DEF Ready
    <3>2. Handles(n, s, Proceed(n, s, ReceivedConfirm, m, f), G, A, 0)
      BY <3>1, Receives
    <3>3. r = Proceed(n, s, ReceivedConfirm, m, f) /\ e # Begin
      BY <2>1, <2>8, Constants
    <3> QED
      BY <3>2, <3>3 DEF r
  <2> QED
    BY <2>3, <2>4, <2>5, <2>6, <2>7, <2>8
<1> QED
  BY <1>1, <1>2, OutOfTurn

-----------------------------------------------------------------------------
(* The handlers.                                                           *)

\* The two agree in what a session rests on
Alike(s, t) ==
  /\ t.ev = s.ev /\ t.cert = s.cert /\ t.pub = s.pub /\ t.smac = s.smac /\ t.own = s.own
  /\ t.link = s.link /\ t.op = s.op /\ t.made = s.made /\ t.ticks = s.ticks

SameSession(s, t) ==
  /\ Alike(s, t) /\ t.isInitiator = s.isInitiator /\ t.partner = s.partner
  /\ t.intra = s.intra /\ t.partnerEp = s.partnerEp

LEMMA Rests ==
  ASSUME NEW n, NEW s, NEW t \in NodeState, SameSession(s, t), t.seqs = s.seqs,
         NEW o, NEW G, NEW A, Shape(n, s), Bound(n, s, G), IsFiniteSet(o),
         \A x \in o : MessageOK(x, G, A) /\ ~Asks(x)
  PROVE  Handles(n, s, Of(t, o, {}), G, A, 0)
<1> DEFINE r == Of(t, o, {})
<1>1. r.s = t /\ r.out = o /\ r.keys = {}
  BY DEF Of
<1> HIDE DEF r
<1>2. Shape(n, t) /\ Bound(n, t, G) /\ s.made \in Nat
  BY DEF Shape, Bound, SameSession, Alike, Unused, Mine, RoleOf, NodeState
<1>3. A \cup Taken({}) = A
  BY DEF Taken
<1>4. Outcome(n, s, r, G, G, A)
  BY <1>1, <1>2, <1>3 DEF Outcome, Extends, SameSession, Alike
<1>5. Owed(t) <= Owed(s) + 0
  BY <1>2 DEF Owed, SameSession, Alike
<1>6. Handles(n, s, r, G, A, 0)
  BY <1>1, <1>4, <1>5 DEF Handles
<1> QED
  BY <1>6 DEF r

LEMMA Remembers ==
  ASSUME NEW t \in NodeState, NEW m, m.seq \in Nat
  PROVE  /\ Remember(t, m) \in NodeState /\ SameSession(t, Remember(t, m))
         /\ Len(Remember(t, m).seqs) <= Len(t.seqs) + 1
<1> DEFINE q == Append(t.seqs, m.seq)
           u == [t EXCEPT !.seqs = q]
<1>1. t.seqs \in Seq(Nat)
  BY DEF NodeState
<1>2. q \in Seq(Nat) /\ Len(q) = Len(t.seqs) + 1
  BY <1>1
<1>3. Remember(t, m) = IF t.intra THEN u ELSE t
  BY DEF Remember
<1> HIDE DEF q
<1>4. u \in NodeState
  BY <1>2 DEF NodeState
<1>5. SameSession(t, u) /\ u.seqs = q
  BY DEF NodeState, SameSession, Alike
<1>6. SameSession(t, t)
  BY DEF SameSession, Alike
<1> HIDE DEF u
<1> QED
  BY <1>1, <1>2, <1>3, <1>4, <1>5, <1>6

\* What setPartnerFromCommand leaves
Turned(s, m, t) ==
  /\ t \in NodeState /\ Alike(s, t) /\ t.seqs = s.seqs /\ t.isInitiator
  /\ t.partner = m.src /\ t.partner \in Nodes \ {m.dst}
  /\ t.intra => t.partnerEp \in Endpoints

LEMMA SetsPartner ==
  ASSUME NEW s \in NodeState, NEW m, NEW G, NEW A, MessageOK(m, G, A)
  PROVE  Turned(s, m, SetPartner(s, m))
<1> DEFINE x == m.intra
           p == m.src
           y == IF m.intra THEN m.srcEp ELSE s.partnerEp
           z == IF m.intra THEN m.dstEp ELSE s.ep
           t == [s EXCEPT !.isInitiator = TRUE, !.intra = x, !.partner = p,
                          !.partnerEp = y, !.ep = z]
<1>1. SetPartner(s, m) = t
  BY DEF SetPartner
<1>2. /\ x \in BOOLEAN /\ p \in MaybeNode /\ y \in MaybeEp /\ z \in Endpoints
      /\ p \in Nodes \ {m.dst} /\ (x => y \in Endpoints)
  BY DEF MessageOK, MaybeNode, MaybeEp, NodeState
<1> HIDE DEF x, p, y, z
<1>3. t \in NodeState
  BY <1>2 DEF NodeState
<1>4. /\ Alike(s, t) /\ t.seqs = s.seqs /\ t.isInitiator /\ t.partner = p /\ t.intra = x
      /\ t.partnerEp = y
  BY DEF NodeState, Alike
<1> HIDE DEF t
<1> QED
  BY <1>1, <1>2, <1>3, <1>4 DEF p, Turned

\* The second node is told, and nothing else changes but the endpoint
Refused(s, r, G, A) ==
  \E x, q, y :
    /\ x \in Endpoints /\ q \in Nat
    /\ r = Of([s EXCEPT !.ep = x, !.seq = q], {y}, {})
    /\ MessageOK(y, G, A) /\ ~Asks(y)

LEMMA Refuses ==
  ASSUME NEW n \in Nodes, NEW s \in NodeState, NEW m, NEW G, NEW A, MessageOK(m, G, A),
         m.dst = n, Len(s.seqs) <= NumSeqNumber
  PROVE  Refused(s, Refuse(n, s, m), G, A)
<1> DEFINE t == SetPartner(s, m)
           y == Msg(n, t, "terminate", <<>>)
           v == [t EXCEPT !.seq = t.seq + 1]
           r == Of(v, {y}, {})
<1>1. /\ t \in NodeState /\ t.seqs = s.seqs /\ t.partner \in Nodes \ {n}
      /\ (t.intra => t.partnerEp \in Endpoints)
  <2>1. Turned(s, m, t)
    BY SetsPartner
  <2> HIDE DEF t
  <2> QED
    BY <2>1 DEF Turned
<1>2. Refuse(n, s, m) = [Send(n, Result(t), "terminate", <<>>) EXCEPT
        !.s = [s EXCEPT !.ep = Send(n, Result(t), "terminate", <<>>).s.ep,
                        !.seq = Send(n, Result(t), "terminate", <<>>).s.seq]]
  BY DEF Refuse
<1> HIDE DEF t
<1>3. Send(n, Result(t), "terminate", <<>>) = r
  <2>1. Send(n, Of(t, {}, {}), "terminate", <<>>) = Of(v, {} \cup {y}, {})
    BY <1>1, Sends
  <2> QED
    BY <2>1 DEF Result, Of
<1>4. v.ep \in Endpoints /\ v.seq \in Nat
  BY <1>1 DEF NodeState
<1>5. Known(n, t)
  BY <1>1 DEF Known
<1>6. MessageOK(y, G, A) /\ ~Asks(y)
  <2>1. MessageOK(y, G, A)
    BY <1>5, TellsWell
  <2> QED
    BY <2>1 DEF Asks, Msg
<1> HIDE DEF v, y
<1> DEFINE u == [s EXCEPT !.ep = v.ep, !.seq = v.seq]
<1>7. r.s = v
  BY DEF Of
<1>8. Refuse(n, s, m) = [r EXCEPT !.s = u]
  BY <1>2, <1>3, <1>7
<1>9. [r EXCEPT !.s = u] = Of(u, {y}, {})
  <2> DEFINE o == {y}
             k == {}
  <2> HIDE DEF u, o, k
  <2>1. [Of(v, o, k) EXCEPT !.s = u] = Of(u, o, k)
    BY Replaced
  <2> QED
    BY <2>1 DEF o, k
<1> QED
  BY <1>4, <1>6, <1>8, <1>9 DEF Refused

LEMMA RefusedHandles ==
  ASSUME NEW n \in Nodes, NEW s, Shape(n, s), NEW m, NEW G, NEW A, Bound(n, s, G),
         MessageOK(m, G, A), m.dst = n
  PROVE  Handles(n, s, Refuse(n, s, m), G, A, 0)
<1>1. s \in NodeState /\ Len(s.seqs) <= NumSeqNumber
  <2>1. s \in NodeState /\ s.seqs \in Seq(Nat)
    BY DEF Shape, NodeState
  <2> QED
    BY <2>1, Constants DEF Shape, Recorded
<1>2. PICK x, q, y :
        /\ x \in Endpoints /\ q \in Nat
        /\ Refuse(n, s, m) = Of([s EXCEPT !.ep = x, !.seq = q], {y}, {})
        /\ MessageOK(y, G, A) /\ ~Asks(y)
  <2>1. Refused(s, Refuse(n, s, m), G, A)
    BY <1>1, Refuses
  <2> QED
    BY <2>1 DEF Refused
<1> DEFINE u == [s EXCEPT !.ep = x, !.seq = q]
           o == {y}
<1>3. u \in NodeState
  BY <1>1, <1>2 DEF NodeState
<1>4. SameSession(s, u) /\ u.seqs = s.seqs
  BY <1>1, <1>2 DEF NodeState, SameSession, Alike
<1>5. IsFiniteSet(o) /\ \A z \in o : MessageOK(z, G, A) /\ ~Asks(z)
  BY <1>2, FS_Singleton
<1> HIDE DEF u, o
<1>6. Handles(n, s, Of(u, o, {}), G, A, 0)
  BY <1>3, <1>4, <1>5, Rests
<1> QED
  BY <1>2, <1>6 DEF u, o

\* What an action does for a node: the handler may start from a state it has
\* changed already
Serves(n, s, r, G, A, d) ==
  /\ \E t, H : t.made \in Nat /\ s.made <= t.made /\ Outcome(n, t, r, G, H, A)
  /\ Owed(r.s) <= Owed(s) + d
  /\ \A x \in r.out : ~Asks(x)

LEMMA HandlesServes ==
  ASSUME NEW n, NEW s, NEW t, NEW r, NEW G, NEW A, NEW d \in {0, 1}, Handles(n, t, r, G, A, d),
         s \in NodeState, t \in NodeState, s.made <= t.made, Owed(t) <= Owed(s)
  PROVE  Serves(n, s, r, G, A, d)
<1>1. PICK H : Outcome(n, t, r, G, H, A)
  BY DEF Handles
<1>2. s.made \in Nat /\ t.made \in Nat /\ r.s.made = t.made
  BY <1>1 DEF NodeState, Outcome
<1>3. Owed(r.s) <= Owed(s) + d
  <2>1. Owed(r.s) \in Int /\ Owed(s) \in Int /\ Owed(t) \in Int
    BY <1>2 DEF Owed
  <2>2. Owed(r.s) <= Owed(t) + d
    BY DEF Handles
  <2> QED
    BY <2>1, <2>2
<1> QED
  BY <1>1, <1>2, <1>3 DEF Serves, Handles

LEMMA Shaped ==
  ASSUME NEW n, NEW s, Shape(n, s)
  PROVE  /\ s \in NodeState /\ s.ev \in 0 .. 5 /\ s.made \in Nat /\ s.isInitiator \in BOOLEAN
         /\ Len(s.seqs) \in Nat /\ Len(s.seqs) <= NumSeqNumber
         /\ s.ev # NoEvent => Known(n, s) /\ Len(s.seqs) <= 3
         /\ s.op # "none" => Known(n, s)
<1>1. /\ s \in NodeState /\ s.ev \in 0 .. 5 /\ s.made \in Nat /\ s.isInitiator \in BOOLEAN
      /\ s.seqs \in Seq(Nat) /\ s.partner \in MaybeNode
  BY DEF Shape, NodeState
<1>2. Len(s.seqs) \in Nat /\ Len(s.seqs) <= NumSeqNumber
  BY <1>1, Constants DEF Shape, Recorded
<1>3. s.ev # NoEvent => Len(s.seqs) <= 3
  BY <1>1, <1>2, Constants DEF Shape, Recorded
<1>4. s.partner # None => Known(n, s)
  BY <1>1, <1>2 DEF Shape, Known, MaybeNode
<1> QED
  BY <1>1, <1>2, <1>3, <1>4 DEF Shape

\* The command begins a session
LEMMA Invites ==
  ASSUME NEW n \in Nodes, NEW s, Shape(n, s), NEW m, NEW v, NEW G, NEW A, G \subseteq Smacs,
         MessageOK(m, G, A), m.dst = n, m.cmd # "terminate", ~InSession(s)
  PROVE  Serves(n, s, Machine(n, Admit(s, m), EventOf(m), m, v), G, A,
                IF Asks(m) THEN 1 ELSE 0)
<1> DEFINE p == SetPartner(s, m)
           z == <<>>
           q == [p EXCEPT !.seqs = z]
           t == Remember(q, m)
           e == EventOf(m)
           d == IF e = Begin THEN 1 ELSE 0
<1>1. s \in NodeState /\ s.ev = 0 /\ s.made \in Nat
  BY Shaped, Constants DEF InSession
<1>2. /\ p \in NodeState /\ Alike(s, p) /\ p.isInitiator /\ p.partner = m.src
      /\ p.partner \in Nodes \ {n} /\ (p.intra => p.partnerEp \in Endpoints)
  <2>1. Turned(s, m, p)
    BY <1>1, SetsPartner
  <2> HIDE DEF p
  <2> QED
    BY <2>1 DEF Turned
<1>3. Admit(s, m) = t
  BY DEF Admit
<1> HIDE DEF p
<1>4. z \in Seq(Nat) /\ Len(z) = 0
  OBVIOUS
<1> HIDE DEF z
<1>5. q \in NodeState
  BY <1>2, <1>4 DEF NodeState
<1>6. SameSession(p, q) /\ q.seqs = z
  BY <1>2 DEF NodeState, SameSession, Alike
<1> HIDE DEF q
<1>7. t \in NodeState /\ SameSession(q, t) /\ Len(t.seqs) <= 1
  <2>1. m.seq \in Nat
    BY DEF MessageOK
  <2>2. t \in NodeState /\ SameSession(q, t) /\ Len(t.seqs) <= Len(q.seqs) + 1
    BY <1>5, <2>1, Remembers
  <2> HIDE DEF t
  <2> QED
    BY <1>4, <1>6, <2>2
<1> HIDE DEF t
<1>8. /\ t.ev = 0 /\ t.isInitiator /\ t.partner = m.src /\ t.partner \in Nodes \ {n}
      /\ (t.intra => t.partnerEp \in Endpoints) /\ t.made = s.made /\ t.op = s.op
  BY <1>1, <1>2, <1>6, <1>7 DEF SameSession, Alike
<1>9. Len(t.seqs) \in Nat
  BY <1>7 DEF NodeState
<1>10. Known(n, t)
  BY <1>7, <1>8, <1>9, Constants DEF Known
<1>11. e \in {1, 2, 4, 6} /\ (e = Begin <=> Asks(m))
  BY Constants DEF EventOf, MessageOK, Asks
<1> HIDE DEF e
<1>12. e = t.ev + 1 => Ready(n, t, e, m, G, A)
  <2>1. CASE e = 1
    BY <1>7, <1>8, <2>1, Constants DEF Ready, Recorded
  <2>2. CASE e # 1
    BY <1>8, <2>2
  <2> QED
    BY <2>1, <2>2
<1>13. Handles(n, t, Machine(n, t, e, m, v), G, A, d)
  BY <1>8, <1>10, <1>11, <1>12, MachineHandles
<1>14. d \in {0, 1} /\ d = IF Asks(m) THEN 1 ELSE 0
  BY <1>11
<1> HIDE DEF d
<1>15. s.made <= t.made /\ Owed(t) <= Owed(s)
  BY <1>1, <1>8, Constants DEF Owed
<1>16. Serves(n, s, Machine(n, t, e, m, v), G, A, d)
  BY <1>1, <1>7, <1>13, <1>14, <1>15, HandlesServes
<1> QED
  BY <1>3, <1>14, <1>16 DEF e

\* The partner's command
LEMMA Continues ==
  ASSUME NEW n \in Nodes, NEW s, Shape(n, s), NEW m, NEW v, NEW G, NEW A, G \subseteq Smacs,
         Bound(n, s, G), MessageOK(m, G, A), m.dst = n, m.cmd # "terminate",
         InSession(s), FromPartner(s, m)
  PROVE  Serves(n, s, Machine(n, Admit(s, m), EventOf(m), m, v), G, A,
                IF Asks(m) THEN 1 ELSE 0)
<1> DEFINE t == Remember(s, m)
           e == EventOf(m)
           d == IF e = Begin THEN 1 ELSE 0
<1>1. /\ s \in NodeState /\ s.ev \in 1 .. 5 /\ s.made \in Nat /\ Len(s.seqs) \in Nat
      /\ Known(n, s) /\ Len(s.seqs) <= 3 /\ s.isInitiator \in BOOLEAN
  BY Shaped, Constants DEF InSession
<1>2. Admit(s, m) = t
  BY DEF Admit
<1>3. /\ t \in NodeState /\ SameSession(s, t) /\ Len(t.seqs) <= Len(s.seqs) + 1
  BY <1>1, Remembers DEF MessageOK
<1> HIDE DEF t
<1>4. /\ t.ev = s.ev /\ t.isInitiator = s.isInitiator /\ t.partner = s.partner
      /\ t.intra = s.intra /\ t.partnerEp = s.partnerEp /\ t.made = s.made /\ t.op = s.op
      /\ t.cert = s.cert /\ t.own = s.own /\ t.smac = s.smac /\ t.link = s.link
  BY <1>3 DEF SameSession, Alike
<1>5. Len(t.seqs) \in Nat
  BY <1>3 DEF NodeState
<1>6. Known(n, t)
  BY <1>1, <1>3, <1>4, <1>5, Constants DEF Known
<1>7. e \in {1, 2, 4, 6} /\ (e = Begin <=> Asks(m))
  BY Constants DEF EventOf, MessageOK, Asks
<1>8. /\ s.isInitiator = m.toServer /\ m.src \in Nodes \ {n} /\ Len(s.seqs) <= Recorded(s.ev, s.isInitiator)
  BY DEF FromPartner, MessageOK, Shape
<1>9. e = t.ev + 1 => Ready(n, t, e, m, G, A)
  <2>1. CASE e = 1
    BY <1>1, <1>4, <2>1
  <2>2. CASE e = 2 /\ s.ev = 1
    <3>1. Len(t.seqs) <= Recorded(2, s.isInitiator)
      BY <1>1, <1>3, <1>5, <1>8, <2>2, Constants DEF Recorded
    <3>2. s.isInitiator => m.data \in Nat /\ s.cert \in Nodes \ {n}
      BY <1>1, <1>8, <2>2, Constants DEF EventOf, MessageOK, Shape
    <3> HIDE DEF e
    <3> QED
      BY <1>4, <1>8, <2>2, <3>1, <3>2, Constants DEF Ready
  <2>3. CASE e = 4 /\ s.ev = 3
    <3>1. Len(t.seqs) <= Recorded(4, s.isInitiator)
      BY <1>1, <1>3, <1>5, <1>8, <2>3, Constants DEF Recorded
    <3>2. (s.isInitiator => m.data \in G) /\ (~s.isInitiator => m.data \in Nat)
      BY <1>1, <1>8, <2>3, Constants DEF EventOf, MessageOK
    <3>3. s.cert \in Nodes \ {n}
      BY <1>1, <2>3 DEF Shape
    <3>4. Unused(n, t, G)
      BY <1>4, <2>3, Constants DEF Bound, Unused, Mine
    <3> HIDE DEF e
    <3> QED
      BY <1>4, <2>3, <3>1, <3>2, <3>3, <3>4, Constants DEF Ready
  <2>4. CASE e = 6 /\ s.ev = 5
    <3>1. ~s.isInitiator /\ s.smac = Smac("responder", s.link)
      BY <2>4, Constants DEF Bound
    <3>2. m.data \in G /\ m.data[2] \in A
      BY <1>8, <2>4, <3>1, Constants DEF EventOf, MessageOK
    <3> HIDE DEF e
    <3> QED
      BY <1>4, <2>4, <3>1, <3>2, Constants DEF Ready
  <2> HIDE DEF e
  <2> QED
    BY <1>4, <1>7, <2>1, <2>2, <2>3, <2>4, <1>1
<1> HIDE DEF e
<1>10. e = Begin => t.isInitiator
  BY <1>4, <1>7, <1>8 DEF Asks
<1>11. Handles(n, t, Machine(n, t, e, m, v), G, A, d)
  BY <1>6, <1>7, <1>9, <1>10, MachineHandles
<1>12. d \in {0, 1} /\ d = IF Asks(m) THEN 1 ELSE 0
  BY <1>7
<1> HIDE DEF d
<1>13. s.made <= t.made /\ Owed(t) <= Owed(s)
  BY <1>1, <1>4, Constants DEF Owed
<1>14. Serves(n, s, Machine(n, t, e, m, v), G, A, d)
  BY <1>1, <1>3, <1>11, <1>12, <1>13, HandlesServes
<1> QED
  BY <1>2, <1>12, <1>14 DEF e

LEMMA Commands ==
  ASSUME NEW n \in Nodes, NEW s, Shape(n, s), NEW m, NEW v, NEW G, NEW A, G \subseteq Smacs,
         Bound(n, s, G), MessageOK(m, G, A), m.dst = n, m.cmd # "terminate"
  PROVE  Serves(n, s, Command(n, s, m, v), G, A, IF Asks(m) THEN 1 ELSE 0)
<1> DEFINE d == IF Asks(m) THEN 1 ELSE 0
<1>0. s \in NodeState /\ s.made \in Nat /\ d \in {0, 1}
  BY Shaped
<1>1. ASSUME NEW r, Handles(n, s, r, G, A, 0)
      PROVE  Serves(n, s, r, G, A, d)
  <2>1. Handles(n, s, r, G, A, d)
    BY <1>0, <1>1, Weaker
  <2>2. s.made <= s.made /\ Owed(s) <= Owed(s)
    BY <1>0 DEF Owed
  <2> HIDE DEF d
  <2> QED
    BY <1>0, <2>1, <2>2, HandlesServes
<1>2. CASE IsDuplicate(s, m)
  <2> DEFINE o == {}
  <2>1. Command(n, s, m, v) = Of(s, o, {})
    BY <1>2 DEF Command, Result, Of
  <2>2. IsFiniteSet(o) /\ \A x \in o : MessageOK(x, G, A) /\ ~Asks(x)
    BY FS_EmptySet
  <2> HIDE DEF o
  <2>3. Handles(n, s, Of(s, o, {}), G, A, 0)
    <3>1. SameSession(s, s)
      BY DEF SameSession, Alike
    <3> QED
      BY <1>0, <2>2, <3>1, Rests
  <2> HIDE DEF d
  <2> QED
    BY <1>1, <2>1, <2>3 DEF d
<1>3. CASE ~IsDuplicate(s, m) /\ IsSecond(s, m)
  <2>1. Command(n, s, m, v) = Refuse(n, s, m)
    BY <1>3 DEF Command
  <2>2. Handles(n, s, Refuse(n, s, m), G, A, 0)
    BY RefusedHandles
  <2> QED
    BY <1>1, <2>1, <2>2
<1>4. CASE ~IsDuplicate(s, m) /\ ~IsSecond(s, m)
  <2>1. Command(n, s, m, v) = Machine(n, Admit(s, m), EventOf(m), m, v)
    BY <1>4 DEF Command
  <2>2. CASE InSession(s)
    <3>1. FromPartner(s, m)
      BY <1>4, <2>2 DEF IsSecond
    <3> QED
      BY <2>1, <2>2, <3>1, Continues
  <2>3. CASE ~InSession(s)
    BY <2>1, <2>3, Invites
  <2> QED
    BY <2>2, <2>3
<1> QED
  BY <1>2, <1>3, <1>4

\* Nothing happens to the node
LEMMA Unmoved ==
  ASSUME NEW n \in Nodes, NEW s, Shape(n, s), NEW G, NEW A, Bound(n, s, G)
  PROVE  Serves(n, s, Result(s), G, A, 0)
<1> DEFINE o == {}
           d == 0
<1>1. /\ s \in NodeState /\ s.made <= s.made /\ Owed(s) <= Owed(s) /\ SameSession(s, s)
      /\ IsFiniteSet(o) /\ \A x \in o : MessageOK(x, G, A) /\ ~Asks(x)
  BY Shaped, FS_EmptySet DEF Owed, SameSession, Alike
<1> HIDE DEF o
<1>2. Handles(n, s, Of(s, o, {}), G, A, d)
  BY <1>1, Rests
<1>3. d \in {0, 1}
  OBVIOUS
<1> HIDE DEF d
<1>4. Serves(n, s, Of(s, o, {}), G, A, d)
  BY <1>1, <1>2, <1>3, HandlesServes
<1> QED
  BY <1>4 DEF Result, Of, o, d

\* A session or an operation ends, from a state that was changed before
LEMMA Quits ==
  ASSUME NEW n \in Nodes, NEW s, Shape(n, s), NEW t \in NodeState, NEW why,
         why # "established", NEW G, NEW A, t.made = s.made, Owed(t) <= Owed(s),
         t.partner = s.partner, t.intra = s.intra, t.partnerEp = s.partnerEp,
         Len(t.seqs) <= NumSeqNumber, s.partner = None => t.op = "none",
         s.partner = None => why \notin Told
  PROVE  Serves(n, s, Stop(n, t, why), G, A, 0)
<1> DEFINE r == Stop(n, t, why)
<1>1. /\ s.made \in Nat /\ s.partner # n
      /\ t.intra => t.partnerEp \in Endpoints
  BY Shaped DEF Shape
<1>2. Outcome(n, t, r, G, G, A) /\ Owed(r.s) <= Owed(t) /\ \A m \in r.out : ~Asks(m)
  BY <1>1, Stops
<1> HIDE DEF r
<1>3. r.s.made = t.made
  BY <1>2 DEF Outcome
<1>4. Owed(r.s) <= Owed(s) + 0
  <2>1. Owed(r.s) \in Int /\ Owed(t) \in Int /\ Owed(s) \in Int
    BY <1>1, <1>3 DEF Owed
  <2> QED
    BY <1>2, <2>1
<1>5. s.made <= t.made /\ t.made \in Nat
  BY <1>1
<1>6. Serves(n, s, r, G, A, 0)
  BY <1>2, <1>4, <1>5 DEF Serves
<1> QED
  BY <1>6 DEF r

LEMMA Terminations ==
  ASSUME NEW n \in Nodes, NEW s, Shape(n, s), NEW m, NEW G, NEW A, Bound(n, s, G),
         MessageOK(m, G, A)
  PROVE  Serves(n, s, Terminated(n, s, m), G, A, 0)
<1>1. CASE InSession(s) /\ FromPartner(s, m)
  <2> DEFINE t == Remember(s, m)
             why == "partnerTerminated"
  <2>1. /\ s \in NodeState /\ s.made \in Nat /\ Len(s.seqs) \in Nat /\ Len(s.seqs) <= 3
        /\ Known(n, s)
    BY <1>1, Shaped DEF InSession
  <2>2. t \in NodeState /\ SameSession(s, t) /\ Len(t.seqs) <= Len(s.seqs) + 1
    BY <2>1, Remembers DEF MessageOK
  <2>3. Terminated(n, s, m) = Stop(n, t, why)
    BY <1>1 DEF Terminated
  <2> HIDE DEF t
  <2>4. Len(t.seqs) \in Nat
    BY <2>2 DEF NodeState
  <2>5. /\ t.made = s.made /\ Owed(t) <= Owed(s) /\ t.partner = s.partner /\ t.intra = s.intra
        /\ t.partnerEp = s.partnerEp /\ Len(t.seqs) <= NumSeqNumber /\ s.partner # None
    BY <2>1, <2>2, <2>4, Constants DEF SameSession, Alike, Owed, Known
  <2>6. why # "established"
    OBVIOUS
  <2> HIDE DEF why
  <2>7. Serves(n, s, Stop(n, t, why), G, A, 0)
    BY <2>2, <2>5, <2>6, Quits
  <2> QED
    BY <2>3, <2>7
<1>2. CASE ~(InSession(s) /\ FromPartner(s, m))
  <2>1. Terminated(n, s, m) = Result(s)
    BY <1>2 DEF Terminated
  <2>2. Serves(n, s, Result(s), G, A, 0)
    BY Unmoved
  <2> QED
    BY <2>1, <2>2
<1> QED
  BY <1>1, <1>2

\* The handlers of the two operations
LEMMA KeysMade ==
  ASSUME NEW n \in Nodes, NEW s, Shape(n, s), s.op = "keys", NEW v, NEW G, NEW A,
         G \subseteq Smacs, \A g \in G : Party(g) = [node |-> n, key |-> s.made + 1] => FALSE
  PROVE  LET t == [s EXCEPT !.op = "none", !.crypto = FALSE, !.made = @ + 1,
                            !.own = s.made + 1]
         IN Serves(n, s, Machine(n, t, SendEphemeral, NoMessage, v), G, A, 0)
<1> DEFINE q == s.made + 1
           o == "none"
           t == [s EXCEPT !.op = o, !.crypto = FALSE, !.made = q, !.own = q]
           d == 0
<1>1. s \in NodeState /\ s.made \in Nat /\ s.ev \in 0 .. 5 /\ Len(s.seqs) \in Nat /\ Known(n, s)
  BY Shaped
<1>2. /\ t \in NodeState /\ t.op = "none" /\ t.made = s.made + 1 /\ t.own = q
      /\ t.ev = s.ev /\ t.isInitiator = s.isInitiator /\ t.partner = s.partner
      /\ t.intra = s.intra /\ t.partnerEp = s.partnerEp /\ t.seqs = s.seqs
      /\ t.cert = s.cert /\ t.smac = s.smac /\ t.link = s.link
  <2>1. q \in Nat /\ o \in Operation
    BY <1>1 DEF Operation
  <2> HIDE DEF q, o
  <2>2. t \in NodeState
    BY <1>1, <2>1 DEF NodeState
  <2>3. /\ t.op = o /\ t.made = q /\ t.own = q
        /\ t.ev = s.ev /\ t.isInitiator = s.isInitiator /\ t.partner = s.partner
        /\ t.intra = s.intra /\ t.partnerEp = s.partnerEp /\ t.seqs = s.seqs
        /\ t.cert = s.cert /\ t.smac = s.smac /\ t.link = s.link
    BY <1>1 DEF NodeState
  <2> HIDE DEF t
  <2> QED
    BY <2>2, <2>3 DEF q, o
<1>3. t = [s EXCEPT !.op = "none", !.crypto = FALSE, !.made = @ + 1, !.own = s.made + 1]
  OBVIOUS
<1> HIDE DEF t
<1>4. Known(n, t)
  BY <1>1, <1>2 DEF Known
<1>5. SendEphemeral = t.ev + 1 => Ready(n, t, SendEphemeral, NoMessage, G, A)
  <2>1. CASE s.ev = 2
    <3>1. Len(t.seqs) <= Recorded(3, t.isInitiator) /\ t.cert \in Nodes \ {n}
      BY <1>1, <1>2, <2>1 DEF Shape, Recorded, NodeState
    <3>2. Unused(n, t, G)
      BY <1>1, <1>2 DEF Unused, Mine
    <3> QED
      BY <3>1, <3>2, Constants DEF Ready
  <2>2. CASE s.ev # 2
    BY <1>1, <1>2, <2>2, Constants
  <2> QED
    BY <2>1, <2>2
<1>6. Handles(n, t, Machine(n, t, SendEphemeral, NoMessage, v), G, A, d)
  <2>1. SendEphemeral \in 1 .. 6 /\ SendEphemeral # Begin
    BY Constants
  <2>2. Handles(n, t, Machine(n, t, SendEphemeral, NoMessage, v), G, A,
                IF SendEphemeral = Begin THEN 1 ELSE 0)
    BY <1>4, <1>5, <2>1, MachineHandles
  <2> QED
    BY <2>1, <2>2
<1>7. s.made <= t.made /\ Owed(t) <= Owed(s) /\ d \in {0, 1}
  BY <1>1, <1>2 DEF Owed
<1> HIDE DEF d
<1>8. Serves(n, s, Machine(n, t, SendEphemeral, NoMessage, v), G, A, d)
  BY <1>1, <1>2, <1>6, <1>7, HandlesServes
<1> QED
  BY <1>3, <1>8 DEF d

LEMMA SmacsMade ==
  ASSUME NEW n \in Nodes, NEW s, Shape(n, s), s.op # "none", NEW v, NEW G, NEW A,
         G \subseteq Smacs, Bound(n, s, G)
  PROVE  LET t == [s EXCEPT !.op = "none", !.crypto = FALSE] IN
         /\ Serves(n, s, Machine(n, t, SendConfirm, NoMessage, v), G, A, 0)
         /\ Serves(n, s, Stop(n, t, "noLocalResources"), G, A, 0)
<1> DEFINE o == "none"
           t == [s EXCEPT !.op = o, !.crypto = FALSE]
           d == 0
           why == "noLocalResources"
<1>1. s \in NodeState /\ s.made \in Nat /\ s.ev \in 0 .. 5 /\ Len(s.seqs) \in Nat
      /\ Len(s.seqs) <= NumSeqNumber /\ Known(n, s)
  BY Shaped
<1>2. o = "none" /\ o \in Operation
  BY DEF Operation
<1> HIDE DEF o
<1>3. /\ t \in NodeState /\ t.op = "none" /\ t.made = s.made
      /\ t.ev = s.ev /\ t.isInitiator = s.isInitiator /\ t.partner = s.partner
      /\ t.intra = s.intra /\ t.partnerEp = s.partnerEp /\ t.seqs = s.seqs
      /\ t.cert = s.cert /\ t.smac = s.smac /\ t.link = s.link
  <2>1. t \in NodeState
    BY <1>1, <1>2 DEF NodeState
  <2> QED
    BY <1>1, <1>2, <2>1 DEF NodeState
<1> HIDE DEF t
<1>4. Known(n, t)
  BY <1>1, <1>2, <1>3 DEF Known
<1>5. SendConfirm = t.ev + 1 => Ready(n, t, SendConfirm, NoMessage, G, A)
  <2>1. CASE s.ev = 4
    <3>1. Len(t.seqs) <= Recorded(5, t.isInitiator)
      BY <1>1, <1>2, <1>3, <2>1 DEF Shape, Recorded, NodeState
    <3>2. <<RoleOf(s), s.link>> \in G /\ (s.isInitiator => s.smac \in G) /\ RoleOf(t) = RoleOf(s)
      BY <1>2, <1>3, <2>1, Constants DEF Bound, RoleOf
    <3> QED
      BY <1>2, <1>3, <3>1, <3>2, Constants DEF Ready
  <2>2. CASE s.ev # 4
    BY <1>1, <1>2, <1>3, <2>2, Constants
  <2> QED
    BY <2>1, <2>2
<1>6. Handles(n, t, Machine(n, t, SendConfirm, NoMessage, v), G, A, d)
  <2>1. SendConfirm \in 1 .. 6 /\ SendConfirm # Begin
    BY Constants
  <2>2. Handles(n, t, Machine(n, t, SendConfirm, NoMessage, v), G, A,
                IF SendConfirm = Begin THEN 1 ELSE 0)
    BY <1>4, <1>5, <2>1, MachineHandles
  <2> QED
    BY <2>1, <2>2
<1>7. s.made <= t.made /\ Owed(t) <= Owed(s) /\ d \in {0, 1} /\ t.made = s.made /\ t \in NodeState
  BY <1>1, <1>2, <1>3 DEF Owed
<1>8. Serves(n, s, Stop(n, t, why), G, A, 0)
  <2>1. why # "established" /\ s.partner # None
    BY <1>1, Constants DEF Known
  <2> HIDE DEF why, d
  <2> QED
    BY <1>1, <1>2, <1>3, <1>7, <2>1, Quits
<1> HIDE DEF d
<1>9. Serves(n, s, Machine(n, t, SendConfirm, NoMessage, v), G, A, d)
  BY <1>1, <1>6, <1>7, HandlesServes
<1> QED
  BY <1>8, <1>9 DEF d, why, t, o

\* A session that is begun here: another node may be asked
Opens(n, s, r, G, A) ==
  /\ \E t, H : t.made \in Nat /\ s.made <= t.made /\ Outcome(n, t, r, G, H, A)
  /\ Owed(r.s) <= Owed(s) + 1
  /\ Asking(n, r)

LEMMA Starts ==
  ASSUME NEW n \in Nodes, NEW s, Shape(n, s), ~InSession(s), NEW p \in Nodes, p # n,
         NEW e \in Endpoints, NEW i \in BOOLEAN, NEW v, NEW G, NEW A, G \subseteq Smacs
  PROVE  LET t == [s EXCEPT !.isInitiator = FALSE, !.intra = i, !.partner = p,
                            !.partnerEp = IF i THEN e ELSE @, !.seqs = <<>>]
         IN Opens(n, s, Machine(n, t, Begin, NoMessage, v), G, A)
<1> DEFINE y == IF i THEN e ELSE s.partnerEp
           z == <<>>
           t == [s EXCEPT !.isInitiator = FALSE, !.intra = i, !.partner = p,
                          !.partnerEp = y, !.seqs = z]
           r == Machine(n, t, Begin, NoMessage, v)
<1>1. s \in NodeState /\ s.ev = 0 /\ s.made \in Nat
  BY Shaped, Constants DEF InSession
<1>2. y \in MaybeEp /\ p \in MaybeNode /\ (i => y \in Endpoints) /\ z \in Seq(Nat) /\ Len(z) = 0
  BY <1>1 DEF MaybeEp, MaybeNode, NodeState
<1> HIDE DEF y, z
<1>3. t \in NodeState
  BY <1>1, <1>2 DEF NodeState
<1>4. /\ t.isInitiator = FALSE /\ t.intra = i /\ t.partner = p /\ t.partnerEp = y /\ t.seqs = z
      /\ t.ev = s.ev /\ t.op = s.op /\ t.made = s.made
  BY <1>1 DEF NodeState
<1> HIDE DEF t
<1>5. Known(n, t)
  BY <1>2, <1>3, <1>4, Constants DEF Known
<1>6. \E d \in {0, 1} : /\ \E H : Outcome(n, t, r, G, H, A)
                        /\ Owed(r.s) <= Owed(t) + d /\ Asking(n, r)
  <2>1. CASE \E why \in {"invalidMessage", "notAllowed", "noLocalResources"} :
               r = Stop(n, t, why)
    <3>1. PICK why \in {"invalidMessage", "notAllowed", "noLocalResources"} : r = Stop(n, t, why)
      BY <2>1
    <3>2. why # "established"
      OBVIOUS
    <3>3. Handles(n, t, Stop(n, t, why), G, A, 0)
      BY <1>5, <3>2, Fails
    <3>4. \E x : x.dst # n
      <4>1. [dst |-> None].dst # n
        BY Constants
      <4> QED
        BY <4>1
    <3> HIDE DEF r
    <3>5. Handles(n, t, r, G, A, 0)
      BY <3>1, <3>3
    <3> QED
      BY <3>4, <3>5 DEF Handles, Asking
  <2>2. CASE /\ Begin = t.ev + 1
             /\ \E f \in BOOLEAN : r = Proceed(n, t, Begin, NoMessage, f)
    <3>1. PICK f \in BOOLEAN : r = Proceed(n, t, Begin, NoMessage, f)
      BY <2>2
    <3> DEFINE x == Proceed(n, t, Begin, NoMessage, f)
    <3>2. t.ev = NoEvent /\ Len(t.seqs) <= Recorded(Begin, t.isInitiator) /\ ~t.isInitiator
      BY <1>1, <1>2, <1>4, Constants DEF Recorded
    <3>3. /\ Outcome(n, t, x, G, G, A) /\ Owed(x.s) <= Owed(t) + 1 /\ Asking(n, x)
      BY <1>5, <3>2, Begins
    <3> HIDE DEF r, x
    <3>4. r = x
      BY <3>1 DEF x
    <3> QED
      BY <3>3, <3>4
  <2> HIDE DEF r
  <2> QED
    BY <2>1, <2>2, OutOfTurn DEF r
<1> HIDE DEF r
<1>7. Owed(r.s) <= Owed(s) + 1
  <2>1. PICK d \in {0, 1} : Owed(r.s) <= Owed(t) + d /\ \E H : Outcome(n, t, r, G, H, A)
    BY <1>6
  <2>2. r.s.made = t.made
    BY <2>1 DEF Outcome
  <2>3. Owed(r.s) \in Int /\ Owed(t) = Owed(s) /\ Owed(s) \in Int
    BY <1>1, <1>4, <2>2 DEF Owed
  <2> QED
    BY <2>1, <2>3
<1>8. s.made <= t.made /\ t.made \in Nat
  BY <1>1, <1>4
<1>9. Opens(n, s, r, G, A)
  BY <1>6, <1>7, <1>8 DEF Opens
<1>10. t = [s EXCEPT !.isInitiator = FALSE, !.intra = i, !.partner = p,
                     !.partnerEp = IF i THEN e ELSE @, !.seqs = <<>>]
  BY DEF t, y, z
<1> QED
  BY <1>9, <1>10 DEF r

-----------------------------------------------------------------------------
(* One step of one node, for all.                                          *)

LEMMA MessagesStay ==
  ASSUME NEW m, NEW G, NEW A, NEW H, NEW B, MessageOK(m, G, A), G \subseteq H, A \subseteq B
  PROVE  MessageOK(m, H, B)
  BY DEF MessageOK

LEMMA KeysStay ==
  ASSUME NEW k, NEW G, NEW A, NEW H, NEW B, StoredOK(k, G, A), G \subseteq H, A \subseteq B
  PROVE  StoredOK(k, H, B)
  BY DEF StoredOK

LEMMA TakenAll ==
  ASSUME NEW ks, NEW x
  PROVE  Taken(ks \cup x) = Taken(ks) \cup Taken(x)
  BY DEF Taken

LEMMA JointKept ==
  ASSUME NEW G, NEW H, NEW nd, NEW ms, NEW ks, Joint(G, nd, ms, ks),
         NEW n \in Nodes, NEW t, NEW r, t.made \in Nat, nd[n].made <= t.made,
         Outcome(n, t, r, G, H, Taken(ks)), NEW out, out \subseteq ms \cup r.out
  PROVE  Joint(H, [nd EXCEPT ![n] = r.s], out, ks \cup r.keys)
<1> DEFINE ed == [nd EXCEPT ![n] = r.s]
           A == Taken(ks)
           B == Taken(ks \cup r.keys)
<1>1. /\ nd \in [Nodes -> NodeState] /\ r.s \in NodeState /\ r.s.made = t.made
      /\ Confirmed(G, nd) /\ Extends(n, t, G, H)
  BY DEF Joint, Outcome, Shape
<1>2. /\ ed \in [Nodes -> NodeState] /\ ed[n] = r.s
      /\ \A x \in Nodes : x # n => ed[x] = nd[x]
  BY <1>1
<1>3. \A x \in Nodes : nd[x].made \in Nat /\ ed[x].made \in Nat /\ nd[x].made <= ed[x].made
  <2>1. \A x \in Nodes : nd[x].made \in Nat
    BY <1>1 DEF NodeState
  <2> HIDE DEF ed
  <2> QED
    BY <1>1, <1>2, <2>1
<1> HIDE DEF ed
<1>4. G \subseteq H /\ A \subseteq B
  <2>1. G \subseteq H
    BY <1>1 DEF Extends
  <2> QED
    BY <2>1, TakenAll
<1>5. ASSUME H = G
      PROVE  Confirmed(H, ed) /\ \A x \in Nodes : x # n => Bound(x, ed[x], H)
  <2>1. Confirmed(H, ed)
    <3>1. ASSUME NEW g \in G  PROVE Party(g).key \in 1 .. ed[Party(g).node].made
      <4>1. Party(g).node \in Nodes /\ Party(g).key \in 1 .. nd[Party(g).node].made
        BY <1>1 DEF Confirmed, Smacs, Roles, Party
      <4> QED
        BY <1>3, <4>1
    <3> QED
      BY <1>1, <1>5, <3>1 DEF Confirmed
  <2>2. \A x \in Nodes : x # n => Bound(x, ed[x], H)
    BY <1>2, <1>5 DEF Joint
  <2> QED
    BY <2>1, <2>2
<1>6. ASSUME H # G
      PROVE  Confirmed(H, ed) /\ \A x \in Nodes : x # n => Bound(x, ed[x], H)
  <2>1. PICK k \in Links :
          /\ H = G \cup {<<RoleOf(t), k>>} /\ k[RoleOf(t)] = Mine(n, t)
          /\ k.initiator.node \in Nodes /\ k.responder.node \in Nodes
          /\ k.initiator.node # k.responder.node
    BY <1>1, <1>6 DEF Extends
  <2> DEFINE y == <<RoleOf(t), k>>
  <2>2. Unused(n, t, G)
    BY <1>1, <1>6 DEF Extends
  <2>3. y \in Smacs /\ y[2] = k /\ Party(y) = Mine(n, t)
    BY <2>1 DEF Smacs, Roles, RoleOf, Party
  <2>4. Mine(n, t).node = n /\ Mine(n, t).key = t.own
    BY DEF Mine
  <2> HIDE DEF y
  <2>5. Confirmed(H, ed)
    <3>1. ASSUME NEW g \in G  PROVE Party(g).key \in 1 .. ed[Party(g).node].made
      <4>1. Party(g).node \in Nodes /\ Party(g).key \in 1 .. nd[Party(g).node].made
        BY <1>1 DEF Confirmed, Smacs, Roles, Party
      <4> QED
        BY <1>3, <4>1
    <3>2. Party(y).key \in 1 .. ed[Party(y).node].made
      BY <1>1, <1>2, <2>2, <2>3, <2>4 DEF Unused
    <3>3. H = G \cup {y} /\ H \subseteq Smacs
      BY <1>1, <2>1, <2>3 DEF Confirmed, y
    <3>4. \A g, h \in H : Party(g) = Party(h) => g = h
      <4>1. \A g \in G : Party(g) # Party(y)
        BY <2>2, <2>3 DEF Unused
      <4> QED
        BY <1>1, <3>3, <4>1 DEF Confirmed
    <3>5. \A g \in H : /\ g[2].initiator.node \in Nodes /\ g[2].responder.node \in Nodes
                       /\ g[2].initiator.node # g[2].responder.node
      BY <1>1, <2>1, <2>3, <3>3 DEF Confirmed
    <3> QED
      BY <3>1, <3>2, <3>3, <3>4, <3>5 DEF Confirmed
  <2>6. ASSUME NEW x \in Nodes, x # n  PROVE Bound(x, ed[x], H)
    <3>1. Bound(x, nd[x], G) /\ ed[x] = nd[x]
      BY <1>2, <2>6 DEF Joint
    <3>2. Mine(x, nd[x]) # Party(y)
      BY <2>3, <2>4, <2>6 DEF Mine
    <3>3. H = G \cup {y}
      BY <2>1 DEF y
    <3>4. Unused(x, nd[x], G) => Unused(x, nd[x], H)
      BY <3>2, <3>3 DEF Unused
    <3> QED
      BY <3>1, <3>3, <3>4 DEF Bound
  <2> QED
    BY <2>5, <2>6
<1>7. Confirmed(H, ed) /\ \A x \in Nodes : x # n => Bound(x, ed[x], H)
  BY <1>5, <1>6
<1>8. \A x \in Nodes : Shape(x, ed[x]) /\ Bound(x, ed[x], H)
  <2>1. Shape(n, r.s) /\ Bound(n, r.s, H)
    BY DEF Outcome
  <2>2. \A x \in Nodes : x # n => Shape(x, ed[x])
    BY <1>2 DEF Joint
  <2> QED
    BY <1>2, <1>7, <2>1, <2>2
<1>9. \A m \in out : MessageOK(m, H, B)
  <2>1. ASSUME NEW m \in ms  PROVE MessageOK(m, H, B)
    <3>1. MessageOK(m, G, A)
      BY DEF Joint
    <3> HIDE DEF A, B
    <3> QED
      BY <1>4, <3>1, MessagesStay
  <2>2. ASSUME NEW m \in r.out  PROVE MessageOK(m, H, B)
    <3>1. MessageOK(m, H, A \cup Taken(r.keys))
      BY DEF Outcome
    <3> QED
      BY <3>1, TakenAll
  <2> QED
    BY <2>1, <2>2
<1>10. \A k \in ks \cup r.keys : StoredOK(k, H, B)
  <2>1. ASSUME NEW k \in ks  PROVE StoredOK(k, H, B)
    <3>1. StoredOK(k, G, A)
      BY DEF Joint
    <3> HIDE DEF A, B
    <3> QED
      BY <1>4, <3>1, KeysStay
  <2>2. ASSUME NEW k \in r.keys  PROVE StoredOK(k, H, B)
    <3>1. StoredOK(k, H, A)
      BY DEF Outcome
    <3> HIDE DEF A, B
    <3> QED
      BY <1>4, <3>1, KeysStay
  <2> QED
    BY <2>1, <2>2
<1>11. Joint(H, ed, out, ks \cup r.keys)
  BY <1>2, <1>7, <1>8, <1>9, <1>10 DEF Joint
<1> QED
  BY <1>11 DEF ed

\* The keys that may still be made are covered by what has begun and failed
LEMMA Counts ==
  ASSUME NEW ms, IsFiniteSet(ms), NEW x
  PROVE  IsFiniteSet(Asked(ms, x)) /\ Cardinality(Asked(ms, x)) \in Nat
<1>1. Asked(ms, x) \subseteq ms
  BY DEF Asked
<1> QED
  BY <1>1, FS_Subset, FS_CardinalityType

LEMMA CoveredKept ==
  ASSUME NEW nd \in [Nodes -> NodeState], NEW ms, IsFiniteSet(ms), NEW c \in Nat,
         Covered(nd, ms, c), NEW n \in Nodes, NEW u \in NodeState, NEW d \in {0, 1},
         Owed(u) <= Owed(nd[n]) + d, NEW sent, sent \subseteq ms, NEW out, IsFiniteSet(out),
         NEW b \in Nat,
         \/ c + d <= b /\ \A x \in out : ~Asks(x)
         \/ /\ c <= b /\ \A x \in out : ~Asks(x)
            /\ \E m \in ms \ sent : Asks(m) /\ m.dst = n
         \/ /\ c + 1 <= b /\ d = 1
            /\ \E y : y.dst # n /\ \A x \in out : Asks(x) => x = y
  PROVE  /\ Covered([nd EXCEPT ![n] = u], sent \cup out, b)
         /\ IsFiniteSet(sent \cup out)
<1> DEFINE new == sent \cup out
           ed == [nd EXCEPT ![n] = u]
<1>1. IsFiniteSet(sent) /\ IsFiniteSet(new)
  BY FS_Subset, FS_Union
<1>2. /\ ed[n] = u /\ \A x \in Nodes : x # n => ed[x] = nd[x]
      /\ \A x \in Nodes : ed[x] \in NodeState
  OBVIOUS
<1> HIDE DEF ed
<1>3. ASSUME NEW s \in NodeState  PROVE Owed(s) \in Int
  <2>1. s.made \in Nat
    BY DEF NodeState
  <2> QED
    BY <2>1 DEF Owed
<1> DEFINE k(x) == Cardinality(Asked(ms, x))
           l(x) == Cardinality(Asked(new, x))
<1>4. ASSUME NEW x \in Nodes
      PROVE  /\ k(x) \in Nat /\ l(x) \in Nat /\ IsFiniteSet(Asked(ms, x))
             /\ Owed(nd[x]) + k(x) <= c
  BY <1>1, Counts DEF Covered
<1>5. ASSUME \A x \in out : ~Asks(x)
      PROVE  \A x \in Nodes : Asked(new, x) \subseteq Asked(ms, x)
  BY <1>5 DEF Asked
<1>6. ASSUME NEW x \in Nodes, NEW z, IsFiniteSet(z), Asked(new, x) \subseteq z
      PROVE  l(x) <= Cardinality(z)
  BY <1>6, FS_Subset
<1>7. ASSUME NEW x \in Nodes  PROVE Owed(ed[x]) + l(x) <= b
  <2>1. /\ Owed(ed[x]) \in Int /\ Owed(nd[x]) \in Int
        /\ Owed(ed[x]) <= Owed(nd[x]) + d
        /\ x # n => Owed(ed[x]) <= Owed(nd[x])
    <3>1. nd[x] \in NodeState /\ ed[x] \in NodeState
      BY <1>2
    <3>2. Owed(ed[x]) \in Int /\ Owed(nd[x]) \in Int
      BY <1>3, <3>1
    <3>3. CASE x = n
      BY <1>2, <3>2, <3>3
    <3>4. CASE x # n
      BY <1>2, <3>2, <3>4
    <3> QED
      BY <3>2, <3>3, <3>4
  <2>2. k(x) \in Nat /\ l(x) \in Nat /\ Owed(nd[x]) + k(x) <= c /\ IsFiniteSet(Asked(ms, x))
    BY <1>4
  <2>3. CASE c + d <= b /\ \A y \in out : ~Asks(y)
    <3>1. l(x) <= k(x)
      BY <1>5, <1>6, <2>2, <2>3
    <3> HIDE DEF k, l
    <3> QED
      BY <2>1, <2>2, <2>3, <3>1
  <2>4. CASE /\ c <= b /\ \A y \in out : ~Asks(y)
             /\ \E m \in ms \ sent : Asks(m) /\ m.dst = n
    <3>1. l(x) <= k(x)
      BY <1>5, <1>6, <2>2, <2>4
    <3>2. CASE x # n
      <4> HIDE DEF k, l
      <4> QED
        BY <2>1, <2>2, <2>4, <3>1, <3>2
    <3>3. CASE x = n
      <4>1. PICK m \in ms \ sent : Asks(m) /\ m.dst = n
        BY <2>4
      <4>2. m \in Asked(ms, x)
        BY <3>3, <4>1 DEF Asked
      <4>3. Asked(new, x) \subseteq Asked(ms, x) \ {m}
        <5>1. m \notin out
          BY <2>4, <4>1
        <5> QED
          BY <1>5, <2>4, <4>1, <5>1 DEF Asked
      <4>4. Cardinality(Asked(ms, x) \ {m}) = k(x) - 1 /\ IsFiniteSet(Asked(ms, x) \ {m})
        BY <2>2, <4>2, FS_RemoveElement
      <4>5. l(x) <= k(x) - 1
        BY <1>6, <4>3, <4>4
      <4> HIDE DEF k, l
      <4> QED
        BY <2>1, <2>2, <2>4, <4>5
    <3> QED
      BY <3>2, <3>3
  <2>5. CASE /\ c + 1 <= b /\ d = 1
             /\ \E y : y.dst # n /\ \A z \in out : Asks(z) => z = y
    <3>1. PICK y : y.dst # n /\ \A z \in out : Asks(z) => z = y
      BY <2>5
    <3>2. CASE x = n
      <4>1. Asked(new, x) \subseteq Asked(ms, x)
        BY <3>1, <3>2 DEF Asked
      <4>2. l(x) <= k(x)
        BY <1>6, <2>2, <4>1
      <4> HIDE DEF k, l
      <4> QED
        BY <2>1, <2>2, <2>5, <4>2
    <3>3. CASE x # n
      <4>1. Asked(new, x) \subseteq Asked(ms, x) \cup {y}
        BY <3>1 DEF Asked
      <4>2. IsFiniteSet(Asked(ms, x) \cup {y}) /\ Cardinality(Asked(ms, x) \cup {y}) <= k(x) + 1
        <5> DEFINE z == Asked(ms, x)
        <5>1. IsFiniteSet(z) /\ Cardinality(z) \in Nat /\ k(x) = Cardinality(z)
          BY <2>2
        <5> HIDE DEF z
        <5>2. /\ IsFiniteSet(z \cup {y})
              /\ Cardinality(z \cup {y})
                   = IF y \in z THEN Cardinality(z) ELSE Cardinality(z) + 1
          BY <5>1, FS_AddElement
        <5>3. IsFiniteSet(z \cup {y}) /\ Cardinality(z \cup {y}) <= k(x) + 1
          <6> HIDE DEF k
          <6> QED
            BY <5>1, <5>2
        <5> QED
          BY <5>3 DEF z
      <4>3. l(x) <= Cardinality(Asked(ms, x) \cup {y})
        BY <1>6, <4>1, <4>2
      <4>4. Cardinality(Asked(ms, x) \cup {y}) \in Nat
        BY <4>2, FS_CardinalityType
      <4>5. l(x) <= k(x) + 1
        BY <2>2, <4>2, <4>3, <4>4
      <4> HIDE DEF k, l
      <4> QED
        BY <2>1, <2>2, <2>5, <3>3, <4>5
    <3> QED
      BY <3>2, <3>3
  <2> QED
    BY <2>3, <2>4, <2>5
<1>8. Covered(ed, new, b)
  BY <1>7 DEF Covered
<1> QED
  BY <1>1, <1>8 DEF ed

-----------------------------------------------------------------------------
(* The actions: each lets one node take one step.                          *)

Holds(G) ==
  /\ Joint(G, node, net \cup unsent, stored)
  /\ starts \in 0 .. MaxStarts /\ faults \in 0 .. MaxFaults

\* What a step costs is paid by a start, a fault, or the request it answers
Pays(n, sent, d) ==
  \/ starts + faults + d <= starts' + faults'
  \/ /\ starts + faults <= starts' + faults'
     /\ \E m \in net \ sent : Asks(m) /\ m.dst = n

Acting(G) ==
  /\ starts' \in 0 .. MaxStarts /\ faults' \in 0 .. MaxFaults
  /\ unsent' \subseteq unsent \cup net
  /\ \E n, r, sent :
       /\ n \in Nodes /\ Took(n, r, sent) /\ sent \subseteq net
       /\ \/ \E d \in {0, 1} : Serves(n, node[n], r, G, Accepted, d) /\ Pays(n, sent, d)
          \/ /\ Opens(n, node[n], r, G, Accepted)
             /\ starts + faults + 1 <= starts' + faults'

LEMMA Each ==
  ASSUME NEW G, Holds(G)
  PROVE  /\ node \in [Nodes -> NodeState] /\ G \subseteq Smacs /\ Confirmed(G, node)
         /\ \A n \in Nodes : Shape(n, node[n]) /\ Bound(n, node[n], G)
         /\ \A m \in net \cup unsent : MessageOK(m, G, Accepted) /\ m.src \in Nodes /\ m.dst \in Nodes
  BY DEF Holds, Joint, Confirmed, Accepted, Taken, MessageOK

LEMMA HandledServes ==
  ASSUME NEW G, Holds(G), NEW m \in net, NEW v
  PROVE  /\ m.dst \in Nodes
         /\ Serves(m.dst, node[m.dst], Handled(m, v), G, Accepted, IF Asks(m) THEN 1 ELSE 0)
<1> DEFINE n == m.dst
           s == node[n]
<1>1. /\ n \in Nodes /\ Shape(n, s) /\ Bound(n, s, G) /\ MessageOK(m, G, Accepted)
      /\ G \subseteq Smacs
  BY Each
<1>2. CASE m.cmd = "terminate"
  <2>1. Handled(m, v) = Terminated(n, s, m) /\ ~Asks(m)
    BY <1>2 DEF Handled, Asks
  <2>2. Serves(n, s, Terminated(n, s, m), G, Accepted, 0)
    BY <1>1, Terminations
  <2> QED
    BY <1>1, <2>1, <2>2
<1>3. CASE m.cmd # "terminate"
  <2>1. Handled(m, v) = Command(n, s, m, v)
    BY <1>3 DEF Handled
  <2>2. n = m.dst
    OBVIOUS
  <2> HIDE DEF n, s
  <2>3. Serves(n, s, Command(n, s, m, v), G, Accepted, IF Asks(m) THEN 1 ELSE 0)
    BY <1>1, <1>3, <2>2, Commands
  <2> QED
    BY <1>1, <2>1, <2>3 DEF n, s
<1> QED
  BY <1>2, <1>3

\* The framework frees the processor
LEMMA Frees ==
  ASSUME NEW n \in Nodes, NEW s, Shape(n, s), NEW G, NEW A, Bound(n, s, G)
  PROVE  /\ Serves(n, s, Result([s EXCEPT !.op = "none"]), G, A, 0)
         /\ Serves(n, s, Result([s EXCEPT !.crypto = FALSE]), G, A, 0)
<1>0. s \in NodeState /\ s.made \in Nat
  BY Shaped
<1>1. ASSUME NEW t \in NodeState, t.op \in {"none", s.op}, t.ev = s.ev, t.cert = s.cert,
             t.smac = s.smac, t.own = s.own, t.link = s.link, t.made = s.made,
             t.ticks = s.ticks, t.isInitiator = s.isInitiator, t.partner = s.partner,
             t.intra = s.intra, t.partnerEp = s.partnerEp, t.seqs = s.seqs
      PROVE  Serves(n, s, Result(t), G, A, 0)
  <2> DEFINE r == Result(t)
  <2>1. r.s = t /\ r.out = {} /\ r.keys = {}
    BY DEF Result
  <2> HIDE DEF r
  <2>2. Shape(n, t)
    BY <1>1 DEF Shape
  <2>3. Bound(n, t, G)
    BY <1>1 DEF Bound, Unused, Mine, RoleOf
  <2>4. Outcome(n, t, r, G, G, A)
    BY <2>1, <2>2, <2>3, FS_EmptySet DEF Outcome, Extends
  <2>5. Owed(t) <= Owed(s) + 0 /\ s.made <= t.made /\ t.made \in Nat
    BY <1>0, <1>1 DEF Owed
  <2>6. Serves(n, s, r, G, A, 0)
    BY <2>1, <2>4, <2>5 DEF Serves
  <2> QED
    BY <2>6 DEF r
<1>2. Serves(n, s, Result([s EXCEPT !.op = "none"]), G, A, 0)
  <2> DEFINE o == "none"
             t == [s EXCEPT !.op = o]
  <2>1. o \in Operation /\ o = "none"
    BY DEF Operation
  <2> HIDE DEF o
  <2>2. t \in NodeState
    BY <1>0, <2>1 DEF NodeState
  <2>3. /\ t.op \in {"none", s.op} /\ t.ev = s.ev /\ t.cert = s.cert
        /\ t.smac = s.smac /\ t.own = s.own /\ t.link = s.link /\ t.made = s.made
        /\ t.ticks = s.ticks /\ t.isInitiator = s.isInitiator /\ t.partner = s.partner
        /\ t.intra = s.intra /\ t.partnerEp = s.partnerEp /\ t.seqs = s.seqs
    BY <1>0, <2>1 DEF NodeState
  <2> HIDE DEF t
  <2>4. Serves(n, s, Result(t), G, A, 0)
    BY <1>1, <2>2, <2>3
  <2> QED
    BY <2>4 DEF t, o
<1>3. Serves(n, s, Result([s EXCEPT !.crypto = FALSE]), G, A, 0)
  <2> DEFINE t == [s EXCEPT !.crypto = FALSE]
  <2>1. t \in NodeState
    BY <1>0 DEF NodeState
  <2>2. /\ t.op \in {"none", s.op} /\ t.ev = s.ev /\ t.cert = s.cert
        /\ t.smac = s.smac /\ t.own = s.own /\ t.link = s.link /\ t.made = s.made
        /\ t.ticks = s.ticks /\ t.isInitiator = s.isInitiator /\ t.partner = s.partner
        /\ t.intra = s.intra /\ t.partnerEp = s.partnerEp /\ t.seqs = s.seqs
    BY <1>0 DEF NodeState
  <2> HIDE DEF t
  <2>3. Serves(n, s, Result(t), G, A, 0)
    BY <1>1, <2>1, <2>2
  <2> QED
    BY <2>3 DEF t
<1> QED
  BY <1>2, <1>3

LEMMA FaultPays ==
  ASSUME NEW G, Holds(G), starts' = starts, Fault, NEW n, NEW sent, NEW d \in {0, 1}
  PROVE  starts' \in 0 .. MaxStarts /\ faults' \in 0 .. MaxFaults /\ Pays(n, sent, d)
  BY Constants DEF Holds, Fault, Pays

LEMMA NothingPays ==
  ASSUME NEW G, Holds(G), starts' = starts, UNCHANGED faults \/ Fault, NEW n, NEW sent
  PROVE  starts' \in 0 .. MaxStarts /\ faults' \in 0 .. MaxFaults /\ Pays(n, sent, 0)
  BY Constants DEF Holds, Fault, Pays

LEMMA StartActs ==
  ASSUME NEW G, Holds(G), NEW n \in Nodes, NEW p \in Nodes, NEW e \in Endpoints, NEW v,
         Start(n, p, e, v)
  PROVE  Acting(G)
<1> DEFINE i == {n, p} \cap Outside = {}
           t == [node[n] EXCEPT !.isInitiator = FALSE, !.intra = i, !.partner = p,
                                !.partnerEp = IF i THEN e ELSE @, !.seqs = <<>>]
           r == Machine(n, t, Begin, NoMessage, v)
<1>1. /\ ~InSession(node[n]) /\ p # n /\ starts < MaxStarts /\ starts' = starts + 1
      /\ (UNCHANGED faults \/ Fault) /\ Took(n, r, net) /\ unsent' = unsent
  BY DEF Start, Verdict
<1>2. Shape(n, node[n]) /\ G \subseteq Smacs /\ i \in BOOLEAN
  BY Each
<1> HIDE DEF i
<1>3. Opens(n, node[n], r, G, Accepted)
  BY <1>1, <1>2, Starts
<1> HIDE DEF r
<1>4. /\ starts + faults + 1 <= starts' + faults'
      /\ starts' \in 0 .. MaxStarts /\ faults' \in 0 .. MaxFaults
  BY <1>1, Constants DEF Holds, Fault
<1> QED
  BY <1>1, <1>3, <1>4 DEF Acting

LEMMA MessageActs ==
  ASSUME NEW G, Holds(G), NEW m \in net, NEW v,
         Deliver(m, v) \/ Double(m) \/ Unacked(m) \/ LoseInterPan(m)
  PROVE  Acting(G)
<1> DEFINE n == m.dst
           d == IF Asks(m) THEN 1 ELSE 0
<1>1. d \in {0, 1}
  OBVIOUS
<1>2. \A w : n \in Nodes /\ Serves(n, node[n], Handled(m, w), G, Accepted, d)
  BY HandledServes
<1>3. CASE Deliver(m, v)
  <2>1. /\ starts' = starts /\ (UNCHANGED faults \/ Fault) /\ unsent' = unsent
        /\ Took(n, Handled(m, v), net \ {m})
    BY <1>3 DEF Deliver, Verdict
  <2>2. /\ starts' \in 0 .. MaxStarts /\ faults' \in 0 .. MaxFaults
        /\ Pays(n, net \ {m}, 0) /\ starts + faults <= starts' + faults'
    BY <2>1, NothingPays DEF Fault, Holds
  <2>3. Pays(n, net \ {m}, d)
    <3>1. CASE Asks(m)
      BY <2>2, <3>1 DEF Pays
    <3>2. CASE ~Asks(m)
      BY <2>2, <3>2
    <3> QED
      BY <3>1, <3>2
  <2> QED
    BY <1>1, <1>2, <2>1, <2>2, <2>3 DEF Acting
<1>4. CASE Double(m)
  <2>1. /\ starts' = starts /\ Fault /\ unsent' = unsent /\ Took(n, Handled(m, "ok"), net)
    BY <1>4 DEF Double
  <2>2. starts' \in 0 .. MaxStarts /\ faults' \in 0 .. MaxFaults /\ Pays(n, net, d)
    BY <1>1, <2>1, FaultPays
  <2> QED
    BY <1>1, <1>2, <2>1, <2>2 DEF Acting
<1>5. ASSUME starts' = starts, UNCHANGED faults \/ Fault, unsent' \subseteq unsent \cup net,
             net' = net \ {m}, node' = node, stored' = stored
      PROVE  Acting(G)
  <2> DEFINE r == Result(node[n])
             sent == net \ {m}
             z == 0
  <2>1. n \in Nodes /\ node \in [Nodes -> NodeState] /\ Shape(n, node[n]) /\ Bound(n, node[n], G)
    BY Each
  <2>2. Serves(n, node[n], r, G, Accepted, z)
    BY <2>1, Unmoved
  <2>3. r.s = node[n] /\ r.out = {} /\ r.keys = {}
    BY DEF Result
  <2>4. Took(n, r, sent)
    <3> HIDE DEF r
    <3> QED
      BY <1>5, <2>1, <2>3 DEF Took
  <2>5. starts' \in 0 .. MaxStarts /\ faults' \in 0 .. MaxFaults /\ Pays(n, sent, z)
    BY <1>5, NothingPays
  <2>6. sent \subseteq net /\ z \in {0, 1}
    OBVIOUS
  <2> HIDE DEF r, sent, z
  <2> QED
    BY <1>5, <2>1, <2>2, <2>4, <2>5, <2>6 DEF Acting
<1>6. CASE Unacked(m)
  <2>1. /\ starts' = starts /\ Fault /\ unsent' \subseteq unsent \cup net
        /\ \/ net' = net \ {m} /\ node' = node /\ stored' = stored
           \/ Took(n, Handled(m, "ok"), net \ {m})
    BY <1>6 DEF Unacked
  <2>2. CASE Took(n, Handled(m, "ok"), net \ {m})
    <3>1. starts' \in 0 .. MaxStarts /\ faults' \in 0 .. MaxFaults /\ Pays(n, net \ {m}, d)
      BY <1>1, <2>1, FaultPays
    <3> QED
      BY <1>1, <1>2, <2>1, <2>2, <3>1 DEF Acting
  <2>3. CASE net' = net \ {m} /\ node' = node /\ stored' = stored
    BY <1>5, <2>1, <2>3
  <2> QED
    BY <2>1, <2>2, <2>3
<1>7. CASE LoseInterPan(m)
  BY <1>5, <1>7 DEF LoseInterPan
<1> QED
  BY <1>3, <1>4, <1>6, <1>7

\* Where nothing need be paid
LEMMA QuietActs ==
  ASSUME NEW G, Holds(G), NEW n \in Nodes, NEW r, Took(n, r, net), starts' = starts,
         UNCHANGED faults \/ Fault, unsent' \subseteq unsent \cup net,
         Serves(n, node[n], r, G, Accepted, 0)
  PROVE  Acting(G)
<1>1. starts' \in 0 .. MaxStarts /\ faults' \in 0 .. MaxFaults /\ Pays(n, net, 0)
  BY NothingPays
<1>2. net \subseteq net
  OBVIOUS
<1> QED
  BY <1>1, <1>2 DEF Acting

LEMMA SentActs ==
  ASSUME NEW G, Holds(G), NEW m \in unsent, MessageSent(m)
  PROVE  Acting(G)
<1> DEFINE n == m.src
           s == node[n]
           x == s.intra /\ InSession(s) /\ s.partner = m.dst
           r == IF x THEN Stop(n, s, "sendFailure") ELSE Result(s)
<1>1. n \in Nodes /\ Shape(n, s) /\ Bound(n, s, G)
  BY Each
<1>2. /\ Took(n, r, net) /\ starts' = starts /\ faults' = faults
      /\ unsent' \subseteq unsent \cup net
  BY DEF MessageSent
<1> HIDE DEF n
<1>3. Serves(n, s, r, G, Accepted, 0)
  <2>1. CASE x
    <3> DEFINE why == "sendFailure"
    <3>1. /\ s \in NodeState /\ Len(s.seqs) <= NumSeqNumber /\ s.partner # None
          /\ Owed(s) <= Owed(s) /\ why # "established"
      BY <1>1, <2>1, Shaped, Constants DEF InSession, Known, Owed
    <3> HIDE DEF why
    <3>2. Serves(n, s, Stop(n, s, why), G, Accepted, 0)
      BY <1>1, <3>1, Quits
    <3> QED
      BY <2>1, <3>2 DEF why
  <2>2. CASE ~x
    <3> HIDE DEF s
    <3>1. Serves(n, s, Result(s), G, Accepted, 0)
      BY <1>1, Unmoved
    <3> QED
      BY <2>2, <3>1
  <2> QED
    BY <2>1, <2>2
<1> HIDE DEF r
<1> QED
  BY <1>1, <1>2, <1>3, QuietActs

LEMMA TickActs ==
  ASSUME NEW G, Holds(G), NEW n \in Nodes, NEW e \in Endpoints, Tick(n, e)
  PROVE  Acting(G)
<1> DEFINE s == node[n]
           x == s.ticks \ {e}
           t == [s EXCEPT !.ticks = x]
           why == "timeout"
           r == Stop(n, t, why)
<1>1. Shape(n, s)
  BY Each
<1>2. /\ Took(n, r, net) /\ starts' = starts /\ (UNCHANGED faults \/ Fault)
      /\ unsent' \subseteq unsent \cup net
  BY DEF Tick
<1>3. s \in NodeState /\ s.made \in Nat /\ Len(s.seqs) <= NumSeqNumber
  BY <1>1, Shaped
<1> HIDE DEF s
<1>4. x \in SUBSET Endpoints
  BY <1>3 DEF NodeState
<1> HIDE DEF x
<1>5. /\ t \in NodeState /\ t.made = s.made /\ t.partner = s.partner /\ t.intra = s.intra
      /\ t.partnerEp = s.partnerEp /\ t.seqs = s.seqs /\ t.op = s.op /\ t.ev = s.ev
  BY <1>3, <1>4 DEF NodeState
<1> HIDE DEF t
<1>6. Owed(t) <= Owed(s) /\ (s.partner = None => t.op = "none")
  BY <1>1, <1>3, <1>5 DEF Owed, Shape
<1>7. why # "established" /\ why \notin Told
  BY DEF Told
<1> HIDE DEF why
<1>8. Serves(n, s, r, G, Accepted, 0)
  BY <1>1, <1>3, <1>5, <1>6, <1>7, Quits
<1> HIDE DEF r
<1> QED
  BY <1>2, <1>8, QuietActs DEF s

LEMMA OperationActs ==
  ASSUME NEW G, Holds(G), NEW n \in Nodes, NEW v,
         KeysDone(n, v) \/ SmacsDone(n, v) \/ OperationFails(n)
  PROVE  Acting(G)
<1> DEFINE s == node[n]
           t == [s EXCEPT !.op = "none", !.crypto = FALSE]
           u == [s EXCEPT !.op = "none", !.crypto = FALSE, !.made = @ + 1, !.own = s.made + 1]
<1>1. Shape(n, s) /\ Bound(n, s, G) /\ G \subseteq Smacs /\ Confirmed(G, node)
  BY Each
<1>2. /\ starts' = starts /\ (UNCHANGED faults \/ Fault) /\ unsent' \subseteq unsent \cup net
  BY DEF KeysDone, SmacsDone, OperationFails, Verdict
<1>3. CASE KeysDone(n, v)
  <2> DEFINE r == Machine(n, u, SendEphemeral, NoMessage, v)
  <2>1. s.op = "keys" /\ Took(n, r, net)
    BY <1>3 DEF KeysDone
  <2>2. ASSUME NEW g \in G, Party(g) = [node |-> n, key |-> s.made + 1]  PROVE FALSE
    <3>1. Party(g).node = n /\ Party(g).key = s.made + 1
      BY <2>2
    <3>2. s.made \in Nat
      BY <1>1, Shaped
    <3> QED
      BY <1>1, <3>1, <3>2 DEF Confirmed
  <2> HIDE DEF s
  <2>3. Serves(n, s, r, G, Accepted, 0)
    BY <1>1, <2>1, <2>2, KeysMade
  <2> HIDE DEF r
  <2> QED
    BY <1>2, <2>1, <2>3, QuietActs DEF s
<1>4. CASE SmacsDone(n, v)
  <2> DEFINE r == Machine(n, t, SendConfirm, NoMessage, v)
  <2>1. s.op # "none" /\ Took(n, r, net)
    BY <1>4 DEF SmacsDone
  <2> HIDE DEF s
  <2>2. Serves(n, s, r, G, Accepted, 0)
    BY <1>1, <2>1, SmacsMade
  <2> HIDE DEF r
  <2> QED
    BY <1>2, <2>1, <2>2, QuietActs DEF s
<1>5. CASE OperationFails(n)
  <2> DEFINE r == Stop(n, t, "noLocalResources")
  <2>1. s.op # "none" /\ Took(n, r, net)
    BY <1>5 DEF OperationFails
  <2> HIDE DEF s
  <2>2. Serves(n, s, r, G, Accepted, 0)
    BY <1>1, <2>1, SmacsMade
  <2> HIDE DEF r
  <2> QED
    BY <1>2, <2>1, <2>2, QuietActs DEF s
<1> QED
  BY <1>3, <1>4, <1>5

LEMMA FreeActs ==
  ASSUME NEW G, Holds(G), NEW n \in Nodes, OperationUnheard(n) \/ CryptoTimeout(n)
  PROVE  Acting(G)
<1> DEFINE s == node[n]
           t == [s EXCEPT !.op = "none"]
           u == [s EXCEPT !.crypto = FALSE]
<1>1. Shape(n, s) /\ Bound(n, s, G) /\ node \in [Nodes -> NodeState]
  BY Each
<1>2. /\ starts' = starts /\ (UNCHANGED faults \/ Fault) /\ unsent' \subseteq unsent \cup net
      /\ net' = net /\ stored' = stored
  BY DEF OperationUnheard, CryptoTimeout
<1>3. node' = [node EXCEPT ![n] = t] \/ node' = [node EXCEPT ![n] = u]
  BY DEF OperationUnheard, CryptoTimeout
<1>4. Serves(n, s, Result(t), G, Accepted, 0) /\ Serves(n, s, Result(u), G, Accepted, 0)
  <2> HIDE DEF s
  <2> QED
    BY <1>1, Frees
<1> HIDE DEF t, u
<1>5. PICK w : node' = [node EXCEPT ![n] = w] /\ Serves(n, s, Result(w), G, Accepted, 0)
  BY <1>3, <1>4
<1> DEFINE r == Result(w)
<1>6. r.s = w /\ r.out = {} /\ r.keys = {}
  BY DEF Result
<1>7. Serves(n, s, r, G, Accepted, 0)
  BY <1>5
<1> HIDE DEF r
<1>8. Took(n, r, net)
  BY <1>2, <1>5, <1>6 DEF Took
<1> QED
  BY <1>2, <1>7, <1>8, QuietActs

LEMMA NextActs ==
  ASSUME NEW G, Holds(G), Next
  PROVE  Acting(G)
<1>1. CASE \E n, p \in Nodes, e \in Endpoints, v \in Verdicts(Begin) : Start(n, p, e, v)
  BY <1>1, StartActs
<1>2. CASE \E m \in net : \/ \E v \in Verdicts(ReceivedConfirm)
                                       \cup Verdicts(Begin) : Deliver(m, v)
                          \/ Double(m) \/ Unacked(m) \/ LoseInterPan(m)
  <2>1. PICK m \in net : \E v : Deliver(m, v) \/ Double(m) \/ Unacked(m) \/ LoseInterPan(m)
    BY <1>2
  <2> QED
    BY <2>1, MessageActs
<1>3. CASE \E m \in unsent : MessageSent(m)
  BY <1>3, SentActs
<1>4. CASE \E n \in Nodes, e \in Endpoints : Tick(n, e)
  BY <1>4, TickActs
<1>5. CASE \E n \in Nodes : \E v : KeysDone(n, v) \/ SmacsDone(n, v) \/ OperationFails(n)
  <2>1. PICK n \in Nodes : \E v : KeysDone(n, v) \/ SmacsDone(n, v) \/ OperationFails(n)
    BY <1>5
  <2> QED
    BY <2>1, OperationActs
<1>6. CASE \E n \in Nodes : OperationUnheard(n) \/ CryptoTimeout(n)
  BY <1>6, FreeActs
<1> QED
  BY <1>1, <1>2, <1>3, <1>4, <1>5, <1>6 DEF Next

-----------------------------------------------------------------------------
(* The invariant.                                                          *)

\* What a step stores
Stores(H) ==
  /\ Joint(H, node', net' \cup unsent', stored')
  /\ \E x : /\ stored' = stored \cup x
            /\ \/ x = {}
               \/ \E k : x = {k} /\ StoredOK(k, H, Accepted)

LEMMA ActingStores ==
  ASSUME NEW G, Holds(G), Acting(G)
  PROVE  \E H : Stores(H)
<1>1. PICK n, r, sent :
        /\ n \in Nodes /\ Took(n, r, sent) /\ sent \subseteq net
        /\ \/ \E d \in {0, 1} : Serves(n, node[n], r, G, Accepted, d)
           \/ Opens(n, node[n], r, G, Accepted)
  BY DEF Acting
<1>2. PICK t, H : t.made \in Nat /\ node[n].made <= t.made /\ Outcome(n, t, r, G, H, Accepted)
  BY <1>1 DEF Serves, Opens
<1>3. /\ node' = [node EXCEPT ![n] = r.s] /\ net' = sent \cup r.out
      /\ stored' = stored \cup r.keys /\ unsent' \subseteq unsent \cup net
  BY <1>1 DEF Took, Acting
<1> DEFINE ms == net \cup unsent
           out == net' \cup unsent'
<1>4. out \subseteq ms \cup r.out
  BY <1>1, <1>3
<1>5. Accepted = Taken(stored)
  BY DEF Accepted, Taken
<1>6. Joint(G, node, ms, stored)
  BY DEF Holds
<1> HIDE DEF ms, out
<1>7. Joint(H, [node EXCEPT ![n] = r.s], out, stored \cup r.keys)
  BY <1>1, <1>2, <1>4, <1>5, <1>6, JointKept
<1>8. Joint(H, node', out, stored')
  BY <1>3, <1>7
<1>9. \/ r.keys = {}
      \/ \E k : r.keys = {k} /\ StoredOK(k, H, Accepted)
  BY <1>2 DEF Outcome
<1> QED
  BY <1>3, <1>8, <1>9 DEF Stores, out

LEMMA ActingCovered ==
  ASSUME NEW G, Holds(G), Acting(G), IsFiniteSet(net), Covered(node, net, starts + faults)
  PROVE  IsFiniteSet(net') /\ Covered(node', net', starts' + faults')
<1>1. PICK n, r, sent :
        /\ n \in Nodes /\ Took(n, r, sent) /\ sent \subseteq net
        /\ \/ \E d \in {0, 1} : Serves(n, node[n], r, G, Accepted, d) /\ Pays(n, sent, d)
           \/ /\ Opens(n, node[n], r, G, Accepted)
              /\ starts + faults + 1 <= starts' + faults'
  BY DEF Acting
<1>2. PICK t, H : Outcome(n, t, r, G, H, Accepted)
  BY <1>1 DEF Serves, Opens
<1> DEFINE out == r.out
           u == r.s
           c == starts + faults
           b == starts' + faults'
<1>3. IsFiniteSet(out) /\ u \in NodeState /\ node \in [Nodes -> NodeState]
  BY <1>2, Each DEF Outcome, Shape
<1>4. c \in Nat /\ b \in Nat
  <2>1. starts \in 0 .. MaxStarts /\ faults \in 0 .. MaxFaults
    BY DEF Holds
  <2>2. starts' \in 0 .. MaxStarts /\ faults' \in 0 .. MaxFaults
    BY DEF Acting
  <2>3. starts \in Nat /\ faults \in Nat /\ starts' \in Nat /\ faults' \in Nat
    BY <2>1, <2>2, Constants
  <2>4. c \in Nat
    BY <2>3
  <2>5. b \in Nat
    <3>1. \A x, y \in Nat : x + y \in Nat
      OBVIOUS
    <3> QED
      BY <2>3, <3>1, Zenon
  <2> QED
    BY <2>4, <2>5
<1>5. PICK d \in {0, 1} :
        /\ Owed(u) <= Owed(node[n]) + d
        /\ \/ c + d <= b /\ \A x \in out : ~Asks(x)
           \/ /\ c <= b /\ \A x \in out : ~Asks(x)
              /\ \E m \in net \ sent : Asks(m) /\ m.dst = n
           \/ /\ c + 1 <= b /\ d = 1
              /\ \E y : y.dst # n /\ \A x \in out : Asks(x) => x = y
  <2>1. CASE \E d \in {0, 1} : Serves(n, node[n], r, G, Accepted, d) /\ Pays(n, sent, d)
    BY <2>1 DEF Serves, Pays
  <2>2. CASE /\ Opens(n, node[n], r, G, Accepted)
             /\ starts + faults + 1 <= starts' + faults'
    BY <2>2 DEF Opens, Asking
  <2> QED
    BY <1>1, <2>1, <2>2
<1>6. node' = [node EXCEPT ![n] = u] /\ net' = sent \cup out
  BY <1>1 DEF Took
<1>7. Covered(node, net, c)
  OBVIOUS
<1> HIDE DEF out, u, c, b
<1>8. /\ Covered([node EXCEPT ![n] = u], sent \cup out, b)
      /\ IsFiniteSet(sent \cup out)
  <2> DEFINE w == node
             v == net
  <2>1. /\ w \in [Nodes -> NodeState] /\ IsFiniteSet(v) /\ Covered(w, v, c) /\ sent \subseteq v
        /\ Owed(u) <= Owed(w[n]) + d
        /\ \/ c + d <= b /\ \A x \in out : ~Asks(x)
           \/ /\ c <= b /\ \A x \in out : ~Asks(x)
              /\ \E m \in v \ sent : Asks(m) /\ m.dst = n
           \/ /\ c + 1 <= b /\ d = 1
              /\ \E y : y.dst # n /\ \A x \in out : Asks(x) => x = y
    BY <1>1, <1>3, <1>5, <1>7
  <2> HIDE DEF w, v
  <2>2. /\ Covered([w EXCEPT ![n] = u], sent \cup out, b)
        /\ IsFiniteSet(sent \cup out)
    <3>1. n \in Nodes
      BY <1>1
    <3> QED
      BY <1>3, <1>4, <2>1, <3>1, CoveredKept
  <2> QED
    BY <2>2 DEF w
<1> QED
  BY <1>6, <1>8 DEF b

LEMMA KeInit == Init => KeInv
<1> SUFFICES ASSUME Init  PROVE KeInv
  OBVIOUS
<1> DEFINE p == CHOOSE e \in Endpoints : \A f \in Endpoints : f <= e
           z == 0
           em == <<>>
           none == "none"
           s == [ep |-> p, ev |-> z, isInitiator |-> TRUE, partner |-> None,
                 intra |-> FALSE, partnerEp |-> z, seqs |-> em, ticks |-> {},
                 cert |-> None, pub |-> z, smac |-> em,
                 own |-> z, link |-> em, op |-> none, crypto |-> FALSE,
                 made |-> z, seq |-> z]
<1>1. s = Idle
  BY Constants DEF Idle
<1>2. p \in Endpoints
  BY KeyEstablishmentAssumption DEF KeyEstablishmentAssumption
<1>3. /\ z \in Nat /\ z \in 0 .. 5 /\ z \in MaybeEp /\ em \in Seq(Nat) /\ em \in MaybeSmac
      /\ em \in MaybeLink /\ none \in Operation /\ None \in MaybeNode /\ Len(em) = 0
  BY DEF MaybeEp, MaybeSmac, MaybeLink, Operation, MaybeNode
<1> HIDE DEF p, em, none, z
<1>4. s \in NodeState
  BY <1>2, <1>3 DEF NodeState
<1>5. /\ s.ev = z /\ s.partner = None /\ s.intra = FALSE /\ s.seqs = em /\ s.ticks = {}
      /\ s.op = none /\ s.made = z
  OBVIOUS
<1> HIDE DEF s
<1>6. ASSUME NEW n \in Nodes
      PROVE  Shape(n, s) /\ Bound(n, s, {})
  <2>1. Shape(n, s)
    BY <1>3, <1>4, <1>5, Constants DEF Shape, Recorded, none, z
  <2>2. Bound(n, s, {})
    BY <1>5, Constants DEF Bound, z
  <2> QED
    BY <2>1, <2>2
<1>7. node = [n \in Nodes |-> s] /\ net = {} /\ unsent = {} /\ stored = {}
      /\ starts = 0 /\ faults = 0
  BY <1>1 DEF Init
<1>8. Joint({}, node, net \cup unsent, stored)
  BY <1>4, <1>6, <1>7 DEF Joint, Confirmed
<1>9. ASSUME NEW n \in Nodes  PROVE Owed(node[n]) + Cardinality(Asked(net, n)) <= starts + faults
  <2>1. node[n] = s /\ Owed(s) = 0
    BY <1>5, <1>7, Constants DEF Owed, none, z
  <2>2. Asked(net, n) = {} /\ Cardinality({}) = 0
    BY <1>7, FS_EmptySet DEF Asked
  <2> QED
    BY <1>7, <2>1, <2>2
<1>10. IsFiniteSet(net)
  BY <1>7, FS_EmptySet
<1> QED
  BY <1>7, <1>8, <1>9, <1>10, Constants DEF KeInv, Covered

LEMMA KeNext == KeInv /\ [Next]_vars => KeInv'
<1>1. ASSUME KeInv, Next  PROVE KeInv'
  <2>1. PICK G : Joint(G, node, net \cup unsent, stored)
    BY <1>1 DEF KeInv
  <2>2. Holds(G)
    BY <1>1, <2>1 DEF KeInv, Holds
  <2>3. Acting(G)
    BY <1>1, <2>2, NextActs
  <2>4. \E H : Joint(H, node', net' \cup unsent', stored')
    BY <2>2, <2>3, ActingStores DEF Stores
  <2>5. IsFiniteSet(net') /\ Covered(node', net', starts' + faults')
    BY <1>1, <2>2, <2>3, ActingCovered DEF KeInv
  <2>6. starts' \in 0 .. MaxStarts /\ faults' \in 0 .. MaxFaults
    BY <2>3 DEF Acting
  <2> QED
    BY <2>4, <2>5, <2>6 DEF KeInv
<1>2. ASSUME KeInv, UNCHANGED vars  PROVE KeInv'
  BY <1>2 DEF KeInv, vars
<1> QED
  BY <1>1, <1>2

\* The invariant holds (KeyEstablishment.Spec).
THEOREM KeInvariant == Spec => []KeInv
  BY KeInit, KeNext, PTL DEF Spec

\* The types, and that the array of sequence numbers is never overrun, whoever
\* sends what (key-establishment.c:171, 351).
THEOREM KeTypes == Spec => []KeTypeOK
<1>1. KeInv => KeTypeOK
  <2> SUFFICES ASSUME KeInv  PROVE KeTypeOK
    OBVIOUS
  <2>1. PICK G : Joint(G, node, net \cup unsent, stored)
    BY DEF KeInv
  <2>2. ASSUME NEW n \in Nodes
        PROVE  /\ node[n].ev \in NoEvent .. SendConfirm
               /\ node[n].partner \in Nodes \cup {None}
               /\ Len(node[n].seqs) <= NumSeqNumber
               /\ node[n].ticks \subseteq Endpoints /\ node[n].ep \in Endpoints
               /\ node[n].op \in {"none", "keys", "smacs"}
    <3>1. Shape(n, node[n])
      BY <2>1 DEF Joint
    <3> QED
      BY <3>1, Shaped, Constants DEF NodeState, MaybeNode, Operation
  <2>3. \A k \in stored : k.by \in Nodes /\ k.as \in {"initiator", "responder"}
    BY <2>1 DEF Joint, StoredOK, Roles
  <2> QED
    BY <2>2, <2>3 DEF KeInv, KeTypeOK
<1> QED
  BY <1>1, KeInvariant, PTL

-----------------------------------------------------------------------------
(* Both ends agree.                                                        *)

\* No half of a link key that was confirmed is in another one
LEMMA FreshKey ==
  ASSUME NEW H, NEW nd, Confirmed(H, nd), NEW k, NEW a, k # a,
         {<<"initiator", k>>, <<"responder", k>>, <<"initiator", a>>, <<"responder", a>>} \subseteq H
  PROVE  {k.initiator, k.responder} \cap {a.initiator, a.responder} = {}
<1> DEFINE ki == <<"initiator", k>>
           kr == <<"responder", k>>
           ai == <<"initiator", a>>
           ar == <<"responder", a>>
<1>1. /\ Party(ki) = k.initiator /\ Party(kr) = k.responder
      /\ Party(ai) = a.initiator /\ Party(ar) = a.responder
  BY DEF Party
<1>2. ki # ai /\ ki # ar /\ kr # ai /\ kr # ar
  OBVIOUS
<1>3. ki \in H /\ kr \in H /\ ai \in H /\ ar \in H
  OBVIOUS
<1> HIDE DEF ki, kr, ai, ar
<1>4. /\ Party(ki) # Party(ai) /\ Party(ki) # Party(ar)
      /\ Party(kr) # Party(ai) /\ Party(kr) # Party(ar)
  BY <1>2, <1>3 DEF Confirmed
<1> QED
  BY <1>1, <1>4

LEMMA StoresAgree ==
  ASSUME KeInv', NEW H, Stores(H)
  PROVE  Agreement!Next \/ UNCHANGED <<Accepted, Completed>>
<1>1. PICK x : /\ stored' = stored \cup x
               /\ \/ x = {}
                  \/ \E k : x = {k} /\ StoredOK(k, H, Accepted)
  BY DEF Stores
<1>2. CASE x = {}
  BY <1>1, <1>2 DEF Accepted, Completed
<1>3. ASSUME NEW k, x = {k}, StoredOK(k, H, Accepted)
      PROVE  Agreement!Next \/ UNCHANGED <<Accepted, Completed>>
  <2>1. CASE k.as = "initiator"
    <3>1. k.key \in Accepted
      BY <1>3, <2>1 DEF StoredOK
    <3>2. Accepted' = Accepted
      BY <1>1, <1>3, <2>1 DEF Accepted
    <3>3. Completed' = IF k.kept THEN Completed \cup {k.key} ELSE Completed
      BY <1>1, <1>3, <2>1 DEF Completed
    <3>4. CASE ~k.kept \/ k.key \in Completed
      BY <3>2, <3>3, <3>4
    <3>5. CASE k.kept /\ k.key \notin Completed
      BY <3>1, <3>2, <3>3, <3>5 DEF Agreement!Next, Agreement!Complete
    <3> QED
      BY <3>4, <3>5
  <2>2. CASE k.as = "responder"
    <3>1. Completed' = Completed
      BY <1>1, <1>3, <2>2 DEF Completed
    <3>2. Accepted' = Accepted \cup {k.key}
      BY <1>1, <1>3, <2>2 DEF Accepted
    <3>3. CASE k.key \in Accepted
      BY <3>1, <3>2, <3>3
    <3>4. CASE k.key \notin Accepted
      <4> DEFINE q == k.key
                 qi == <<"initiator", q>>
                 qr == <<"responder", q>>
      <4>1. /\ Confirmed(H, node')
            /\ \A l \in stored' : StoredOK(l, H, Taken(stored'))
            /\ node' \in [Nodes -> NodeState]
        BY DEF Stores, Joint
      <4>2. q \in Links /\ qi \in H /\ qr \in H
        BY <1>3, <2>2 DEF StoredOK
      <4>3. ASSUME NEW a \in Accepted
            PROVE  {q.initiator, q.responder} \cap {a.initiator, a.responder} = {}
        <5>1. PICK l \in stored : l.as = "responder" /\ a = l.key
          BY DEF Accepted
        <5>2. StoredOK(l, H, Taken(stored')) /\ q # a
          BY <1>1, <3>4, <4>1
        <5>3. {<<"initiator", a>>, <<"responder", a>>} \subseteq H
          BY <5>1, <5>2 DEF StoredOK
        <5>4. {qi, qr, <<"initiator", a>>, <<"responder", a>>} \subseteq H
          BY <4>2, <5>3
        <5> HIDE DEF q
        <5> QED
          BY <4>1, <5>2, <5>4, FreshKey
      <4>4. \A g \in H : /\ Party(g).node \in Nodes
                         /\ Party(g).key \in 1 .. MaxStarts + MaxFaults
        <5> SUFFICES ASSUME NEW g \in H
                     PROVE  /\ Party(g).node \in Nodes
                            /\ Party(g).key \in 1 .. MaxStarts + MaxFaults
          OBVIOUS
        <5> DEFINE n == Party(g).node
                   c == Cardinality(Asked(net', n))
                   m == node'[n].made
                   o == Owed(node'[n])
        <5>1. n \in Nodes /\ Party(g).key \in 1 .. m
          BY <4>1 DEF Confirmed, Smacs, Roles, Party
        <5>2. IsFiniteSet(net') /\ Covered(node', net', starts' + faults')
              /\ starts' \in 0 .. MaxStarts /\ faults' \in 0 .. MaxFaults
          BY DEF KeInv
        <5>3. o + c <= starts' + faults'
          BY <5>1, <5>2 DEF Covered
        <5>4. c \in Nat
          BY <5>2, Counts
        <5>5. m \in Nat
          BY <4>1, <5>1 DEF NodeState
        <5>6. o \in Nat /\ m <= o
          BY <5>5 DEF Owed
        <5> HIDE DEF n, c, m, o
        <5>7. m <= MaxStarts + MaxFaults
          <6>1. PICK p, f : p = starts' /\ f = faults'
            OBVIOUS
          <6>2. p \in 0 .. MaxStarts /\ f \in 0 .. MaxFaults /\ o + c <= p + f
            BY <5>2, <5>3, <6>1, Zenon
          <6> QED
            BY <5>4, <5>5, <5>6, <6>2, Constants
        <5> QED
          BY <5>1, <5>5, <5>7, Constants DEF n
      <4>5. q.initiator.node # q.responder.node
        BY <4>1, <4>2 DEF Confirmed
      <4>6. Party(qi) = q.initiator /\ Party(qr) = q.responder
        BY DEF Party
      <4>7. q \in Agreement!LinkKey
        <5>1. q.initiator \in Part /\ q.responder \in Part
              /\ q = [initiator |-> q.initiator, responder |-> q.responder]
          BY <4>2 DEF Links
        <5>2. q.initiator.node \in Nodes /\ q.initiator.key \in 1 .. MaxStarts + MaxFaults
          BY <4>2, <4>4, <4>6
        <5>3. q.responder.node \in Nodes /\ q.responder.key \in 1 .. MaxStarts + MaxFaults
          BY <4>2, <4>4, <4>6
        <5>4. \A y \in Part : y = [node |-> y.node, key |-> y.key]
          BY DEF Part
        <5> DEFINE i == q.initiator
                   r == q.responder
        <5>5. i \in Agreement!Half /\ r \in Agreement!Half
          BY <5>1, <5>2, <5>3, <5>4 DEF Agreement!Half
        <5> HIDE DEF i, r
        <5>6. q = [initiator |-> i, responder |-> r]
          BY <5>1 DEF i, r
        <5> HIDE DEF q
        <5> QED
          BY <5>5, <5>6 DEF Agreement!LinkKey
      <4>8. Agreement!Fresh(q)
        BY <4>3, <4>5 DEF Agreement!Fresh
      <4> HIDE DEF q
      <4>9. Agreement!Accept
        BY <3>1, <3>2, <4>7, <4>8 DEF Agreement!Accept, q
      <4> QED
        BY <4>9 DEF Agreement!Next
    <3> QED
      BY <3>3, <3>4
  <2> QED
    BY <1>3, <2>1, <2>2 DEF StoredOK, Roles
<1> QED
  BY <1>1, <1>2, <1>3

\* Both ends agree, whatever is lost, doubled, late or refused: an initiator
\* has only keys that its partner has accepted, and no ephemeral key is in two
\* (key-establishment.c:446-596).
THEOREM BothEndsAgree == Spec => ImplementsAgreement
<1>1. Init => Agreement!Init
  BY DEF Init, Agreement!Init, Accepted, Completed
<1>2. KeInv /\ KeInv' /\ [Next]_vars => [Agreement!Next]_<<Accepted, Completed>>
  <2>1. ASSUME KeInv, KeInv', Next
        PROVE  Agreement!Next \/ UNCHANGED <<Accepted, Completed>>
    <3>1. PICK G : Joint(G, node, net \cup unsent, stored)
      BY <2>1 DEF KeInv
    <3>2. Holds(G)
      BY <2>1, <3>1 DEF KeInv, Holds
    <3>3. Acting(G)
      BY <2>1, <3>2, NextActs
    <3>4. PICK H : Stores(H)
      BY <3>2, <3>3, ActingStores
    <3> QED
      BY <2>1, <3>4, StoresAgree
  <2>2. ASSUME UNCHANGED vars  PROVE UNCHANGED <<Accepted, Completed>>
    BY <2>2 DEF vars, Accepted, Completed
  <2> QED
    BY <2>1, <2>2
<1> QED
  BY <1>1, <1>2, KeInvariant, PTL DEF Spec, ImplementsAgreement, Agreement!Spec,
     Agreement!agreementVars

-----------------------------------------------------------------------------
(* A node that has the cluster on one endpoint only.  With more, a refused *)
(* command moves the endpoint and both of these fail (NoStrayTick).        *)

\* A session has the tick that ends it, and no tick outlives its session
\* (key-establishment.c:558, 574).
THEOREM TickIsOfSession ==
  ASSUME Sole
  PROVE  Spec => []TickOfSession
<1>1. KeInv => TickOfSession
  <2> SUFFICES ASSUME KeInv, NEW n \in Nodes
               PROVE  node[n].ticks = IF InSession(node[n]) THEN {node[n].ep} ELSE {}
    BY DEF TickOfSession
  <2>1. PICK G : Joint(G, node, net \cup unsent, stored)
    BY DEF KeInv
  <2>2. Shape(n, node[n])
    BY <2>1 DEF Joint
  <2>3. node[n].ep \in Endpoints
    BY <2>2, Shaped DEF NodeState
  <2>4. PICK e : Endpoints = {e}
    BY DEF Sole
  <2> QED
    BY <2>2, <2>3, <2>4 DEF Shape, Sole, InSession
<1> QED
  BY <1>1, KeInvariant, PTL

\* The command of a node that is not the partner leaves a session as it is
\* (key-establishment.c:316-335).
THEOREM SecondNodeIsHarmless ==
  ASSUME Sole
  PROVE  Spec => SecondIsHarmless
<1> DEFINE A(m) == LET s == node[m.dst] IN
                   (InSession(s) /\ m.src # s.partner /\ Deliver(m, "ok"))
                     => node'[m.dst] = [s EXCEPT !.seq = node'[m.dst].seq]
<1>1. ASSUME KeInv, NEW m \in net, InSession(node[m.dst]), m.src # node[m.dst].partner,
             Deliver(m, "ok")
      PROVE  node'[m.dst] = [node[m.dst] EXCEPT !.seq = node'[m.dst].seq]
  <2>1. PICK G : Joint(G, node, net \cup unsent, stored)
    BY <1>1 DEF KeInv
  <2>2. Holds(G)
    BY <1>1, <2>1 DEF KeInv, Holds
  <2> DEFINE n == m.dst
             s == node[n]
             r == Handled(m, "ok")
  <2>3. /\ n \in Nodes /\ Shape(n, s) /\ MessageOK(m, G, Accepted) /\ m \in net
        /\ node \in [Nodes -> NodeState]
    BY <2>2, Each
  <2>4. node'[n] = r.s
    BY <1>1, <2>3 DEF Deliver, Took
  <2>5. s \in NodeState /\ Len(s.seqs) <= NumSeqNumber
    BY <2>3, Shaped
  <2>6. \E q \in Nat : r.s = [s EXCEPT !.seq = q]
    <3>1. ~FromPartner(s, m)
      BY <1>1 DEF FromPartner
    <3>2. CASE m.cmd = "terminate"
      <4>1. r.s = s
        BY <3>1, <3>2 DEF Handled, Terminated, Result
      <4>2. s = [s EXCEPT !.seq = s.seq] /\ s.seq \in Nat
        BY <2>5 DEF NodeState
      <4> QED
        BY <4>1, <4>2
    <3>3. CASE m.cmd # "terminate"
      <4>1. r = Refuse(n, s, m)
        BY <1>1, <3>1, <3>3 DEF Handled, Command, IsDuplicate, IsSecond
      <4>2. n = m.dst
        OBVIOUS
      <4> HIDE DEF n, s, r
      <4>3. Refused(s, Refuse(n, s, m), G, Accepted)
        BY <2>3, <2>5, <4>2, Refuses
      <4>4. PICK x, q, y :
              /\ x \in Endpoints /\ q \in Nat
              /\ r = Of([s EXCEPT !.ep = x, !.seq = q], {y}, {})
        BY <4>1, <4>3 DEF Refused
      <4>5. r.s = [s EXCEPT !.ep = x, !.seq = q]
        BY <4>4 DEF Of
      <4>6. s.ep \in Endpoints
        BY <2>5 DEF NodeState
      <4>7. s.ep = x
        BY <4>4, <4>6 DEF Sole
      <4>8. [s EXCEPT !.ep = x, !.seq = q] = [s EXCEPT !.seq = q]
        BY <2>5, <4>7 DEF NodeState
      <4> QED
        BY <4>4, <4>5, <4>8
    <3> QED
      BY <3>2, <3>3
  <2> HIDE DEF r
  <2>7. PICK q \in Nat : r.s = [s EXCEPT !.seq = q]
    BY <2>6
  <2>8. r.s.seq = q
    BY <2>5, <2>7 DEF NodeState
  <2> QED
    BY <2>4, <2>7, <2>8
<1>2. KeInv /\ [Next]_vars => [\A m \in net : A(m)]_vars
  BY <1>1
<1> QED
  BY <1>2, KeInvariant, PTL DEF SecondIsHarmless, Spec
=============================================================================
