---------------------------- MODULE MCNetworkFind ----------------------------
(***************************************************************************)
(* Three channels of which the outer two echo each other, and a network on *)
(* each of them; the one in the middle shares it with a closed one.        *)
(***************************************************************************)
EXTENDS NetworkFind

MCEcho == [c \in {1, 3} |-> 4 - c]

Net(e, p, c, o) == [epid |-> e, panId |-> p, channel |-> c, open |-> o]
MCNetworks == {Net(1, 1, 1, TRUE), Net(2, 2, 3, TRUE), Net(3, 1, 2, FALSE),
               Net(4, 2, 2, TRUE)}

=============================================================================
