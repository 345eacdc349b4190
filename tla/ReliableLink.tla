---------------------------- MODULE ReliableLink ----------------------------
(***************************************************************************)
(* What ASH promises to the layer above it: while the link is up, each     *)
(* direction delivers what was accepted, in order, each frame once.  When  *)
(* the link goes down whatever was not delivered is lost, and it comes up  *)
(* again with nothing in it but what the NCP, the first to know, already   *)
(* accepted.                                                               *)
(***************************************************************************)
EXTENDS Naturals, Sequences

CONSTANT Payload
VARIABLES up,                 \* the link is up
          sentDown, gotDown,  \* host to NCP: accepted and delivered
          sentUp, gotUp       \* NCP to host

vars == <<up, sentDown, gotDown, sentUp, gotUp>>

Empty == sentDown = <<>> /\ gotDown = <<>> /\ sentUp = <<>> /\ gotUp = <<>>

Init == up = FALSE /\ Empty

\* The link comes up, perhaps after a loss nobody saw in between
Connect == /\ up' = TRUE
           /\ sentDown' = <<>> /\ gotDown' = <<>>
           /\ sentUp' \in Seq(Payload) /\ gotUp' = <<>>

Lose == /\ up /\ up' = FALSE
        /\ sentDown' = <<>> /\ gotDown' = <<>>
        /\ sentUp' = <<>> /\ gotUp' = <<>>

\* (That the sequence changes is implied by the conjunct after it; stated
\* first, it spares the check of most steps.)
SendDown == /\ up /\ sentDown' # sentDown
            /\ \E m \in Payload : sentDown' = Append(sentDown, m)
            /\ UNCHANGED <<up, gotDown, sentUp, gotUp>>

DeliverDown == /\ up /\ gotDown' # gotDown /\ Len(gotDown) < Len(sentDown)
               /\ gotDown' = Append(gotDown, sentDown[Len(gotDown) + 1])
               /\ UNCHANGED <<up, sentDown, sentUp, gotUp>>

SendUp == /\ up /\ sentUp' # sentUp
          /\ \E m \in Payload : sentUp' = Append(sentUp, m)
          /\ UNCHANGED <<up, sentDown, gotDown, gotUp>>

DeliverUp == /\ up /\ gotUp' # gotUp /\ Len(gotUp) < Len(sentUp)
             /\ gotUp' = Append(gotUp, sentUp[Len(gotUp) + 1])
             /\ UNCHANGED <<up, sentDown, gotDown, sentUp>>

Next == Connect \/ Lose \/ SendDown \/ DeliverDown \/ SendUp \/ DeliverUp

Spec == Init /\ [][Next]_vars
=============================================================================
