--------------------------- MODULE Fragmentation ---------------------------
(***************************************************************************)
(* A sender (FragmentSend) and a receiver (FragmentReceive) of long        *)
(* messages, with the two network stacks and the network between them.     *)
(* These are not in the repository: they are modelled from what            *)
(* fragmentation.c expects of them.  A fragment the stack takes is sent,   *)
(* sent again while no reply acknowledges it, and reported as sent once a  *)
(* reply does, as failed otherwise.  Fragments and replies may be lost,    *)
(* and with Reorder fragments may overtake each other.                     *)
(***************************************************************************)
EXTENDS FragmentSend, FragmentReceive

CONSTANTS
  MaxFaults,    \* fragments and replies lost (bound)
  MaxResends,   \* fragments sent again (bound)
  MaxAborts,    \* times the receiver's timer runs out (bound)
  Reorder       \* fragments may arrive out of order

ASSUME FragmentationAssumption ==
  /\ MaxFaults \in Nat /\ MaxResends \in Nat /\ MaxAborts \in Nat
  /\ Reorder \in BOOLEAN

VARIABLES
  channel,    \* fragments on their way
  acked,      \* fragments of the stack that a reply acknowledged
  faults, resends, aborts    \* counters for the bounds

counters == <<faults, resends, aborts>>
fragVars == <<sendVars, recvVars, channel, acked, counters>>

FragInit ==
  /\ SendInit /\ RecvInit
  /\ channel = <<>> /\ acked = {} /\ faults = 0 /\ resends = 0 /\ aborts = 0

\* What the stack has just taken leaves in order
Transmitted ==
  channel' = channel \o [k \in 1 .. Cardinality(stack' \ stack) |->
                           Fragment(txMessage', txFragmentBase' + k - 1)]

SenderCalls ==
  /\ Call /\ Transmitted
  /\ UNCHANGED <<recvVars, acked, counters>>

ReportsSent ==
  /\ \E f \in stack \cap acked :
       /\ FragmentSent(f) \/ WindowSent(f)
       /\ acked' = acked \ {f}
  /\ Transmitted
  /\ UNCHANGED <<recvVars, counters>>

\* Not while a copy is under way, unless the network delays it beyond reason
ReportsFailed ==
  /\ \E f \in stack \ acked :
       /\ Reorder \/ f \notin Range(channel)
       /\ FragmentFailed(f)
  /\ UNCHANGED <<recvVars, channel, acked, counters>>

Resend ==
  /\ resends < MaxResends /\ resends' = resends + 1
  /\ \E f \in stack \ acked : channel' = Append(channel, f)
  /\ UNCHANGED <<sendVars, recvVars, acked, faults, aborts>>

LosesFragment ==
  /\ faults < MaxFaults /\ faults' = faults + 1
  /\ \E k \in DOMAIN channel : channel' = RemoveAt(channel, k)
  /\ UNCHANGED <<sendVars, recvVars, acked, resends, aborts>>

FragmentArrives ==
  \E k \in (IF Reorder THEN DOMAIN channel ELSE DOMAIN channel \cap {1}) :
    LET f == channel[k]
        replied == {g \in stack : g.msg = f.msg
                                  /\ g.i \in Acknowledged(f.msg, f.i)} IN
      /\ channel' = RemoveAt(channel, k)
      /\ IncomingMessage(f.msg, f.i)
      /\ IF ~Replies(f.msg, f.i) THEN UNCHANGED <<acked, faults>>
         ELSE \/ acked' = acked \cup replied /\ UNCHANGED faults
              \/ /\ faults < MaxFaults /\ faults' = faults + 1
                 /\ UNCHANGED acked
      /\ UNCHANGED <<sendVars, resends, aborts>>

ReceiverAborts ==
  /\ aborts < MaxAborts /\ aborts' = aborts + 1
  /\ AbortReception
  /\ UNCHANGED <<sendVars, channel, acked, faults, resends>>

FragNext == \/ SenderCalls \/ ReportsSent \/ ReportsFailed
            \/ Resend \/ LosesFragment \/ FragmentArrives \/ ReceiverAborts

FragSpec == FragInit /\ [][FragNext]_fragVars

\* Fragments arrive or are lost, and the stack reports every fragment
Fairness == /\ WF_fragVars(FragmentArrives)
            /\ WF_fragVars(ReportsSent) /\ WF_fragVars(ReportsFailed)

FairFragSpec == FragSpec /\ Fairness

FragTypeOK == SendTypeOK /\ RecvTypeOK

-----------------------------------------------------------------------------
(* Properties.                                                             *)

\* A message reported as sent was received, whole.
SuccessIsDelivered ==
  \A id \in 1 .. MaxSends :
    "SUCCESS" \in Range(reports[id]) =>
      \E d \in delivered : d.msg.id = id /\ d.content = InOrder(d.msg.n)

\* Every message accepted is reported in the end.
AllReported ==
  \A id \in 1 .. MaxSends :
    id <= Len(returned) /\ returned[id] = "SUCCESS" ~> reports[id] # <<>>
=============================================================================
