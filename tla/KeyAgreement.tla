---------------------------- MODULE KeyAgreement ----------------------------
(***************************************************************************)
(* What a key establishment promises, whatever is lost on the way: a link  *)
(* key is made of one ephemeral key of each of two partners, each used for *)
(* no other link key; the responder accepts it first, and the initiator    *)
(* stores only what its partner has accepted.  The responder may be left   *)
(* with a key its partner never got; an initiator never has one that its   *)
(* partner has not confirmed.                                              *)
(***************************************************************************)
EXTENDS Naturals

CONSTANTS Parties, Ephemeral   \* the nodes, and the ephemeral keys they make

VARIABLES
  accepted,    \* link keys the responder has accepted
  complete     \* link keys the initiator has stored too

agreementVars == <<accepted, complete>>

Half == [node : Parties, key : Ephemeral]
LinkKey == [initiator : Half, responder : Half]

Fresh(k) == /\ k.initiator.node # k.responder.node
            /\ \A a \in accepted : {k.initiator, k.responder}
                                     \cap {a.initiator, a.responder} = {}

Init == accepted = {} /\ complete = {}

Accept == \E k \in LinkKey :
  /\ Fresh(k)
  /\ accepted' = accepted \cup {k} /\ UNCHANGED complete

Complete == \E k \in accepted \ complete :
  complete' = complete \cup {k} /\ UNCHANGED accepted

Next == Accept \/ Complete

Spec == Init /\ [][Next]_agreementVars
=============================================================================
