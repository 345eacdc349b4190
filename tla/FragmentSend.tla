---------------------------- MODULE FragmentSend ----------------------------
(***************************************************************************)
(* The sending half of app/framework/util/fragmentation.c: a long message  *)
(* is handed to the network stack a window of fragments at a time, the     *)
(* next window once the stack has reported every fragment of the last one. *)
(* Calls and reports come from one thread, so each is one action.          *)
(*                                                                         *)
(* The stack is external: it may refuse a fragment, and it reports every   *)
(* fragment it took once, delivered or not.                                *)
(***************************************************************************)
EXTENDS Fragments

CONSTANTS
  Refusals,    \* fragments the stack may refuse (bound)
  Patient      \* the application waits until the stack holds no fragment

ASSUME FragmentSendAssumption == Refusals \in Nat /\ Patient \in BOOLEAN

VARIABLES
  sending,               \* txMessageType # 0xFF
  txMessage,             \* txBuffer and txBufLen
  txFragmentCount, txFragmentBase, txFragmentsInTransit,
  stack,                 \* fragments the stack has taken and not reported
  refused,               \* fragments refused so far, for the bound
  returned,              \* what the calls so far returned
  reports                \* what was reported of each of their messages

sendVars == <<sending, txMessage, txFragmentCount, txFragmentBase,
              txFragmentsInTransit, stack, refused, returned, reports>>

Statuses == {"SUCCESS", "FAILED", "LIMIT", "TOO_LONG"}

SendTypeOK ==
  /\ sending \in BOOLEAN /\ txMessage \in Message \cup {NoMessage}
  /\ txFragmentCount \in 0 .. Byte - 1 /\ txFragmentBase \in 0 .. Byte - 1
  /\ txFragmentsInTransit \in 0 .. Byte - 1
  /\ stack \subseteq UNION {FragmentsOf(m) : m \in Message}
  /\ refused \in 0 .. Refusals
  /\ returned \in Seq(Statuses) /\ Len(returned) <= MaxSends
  /\ reports \in [1 .. MaxSends -> Seq({"SUCCESS", "FAILED"})]

SendInit ==
  /\ sending = FALSE /\ txMessage = NoMessage
  /\ txFragmentCount = 0 /\ txFragmentBase = 0 /\ txFragmentsInTransit = 0
  /\ stack = {} /\ refused = 0
  /\ returned = <<>> /\ reports = [id \in 1 .. MaxSends |-> <<>>]

Report(status) == reports' = [reports EXCEPT ![txMessage'.id] = Append(@, status)]

-----------------------------------------------------------------------------

\* The fragments of the window at base
WindowAt(m, count, base) ==
  {Fragment(m, i) : i \in {j \in base .. base + Window - 1 : j < count}}

NextWindow == WindowAt(txMessage', txFragmentCount', txFragmentBase')

\* sendNextFragments: the stack takes `taken', all of the window unless it
\* refuses a fragment (which ends the loop; it always refuses type 0xFF)
SendNextFragments(valid, held, inTransit, taken) ==
  /\ \A f \in taken, g \in NextWindow \ taken : f.i < g.i
  /\ ~valid => taken = {}
  /\ IF valid /\ taken # NextWindow
       THEN refused < Refusals /\ refused' = refused + 1
       ELSE UNCHANGED refused
  /\ stack' = held \cup taken
  /\ txFragmentsInTransit' = (inTransit + Cardinality(taken)) % Byte

\* emAfFragmentationSendUnicast of a message of n fragments
Calls == /\ Len(returned) < MaxSends
         /\ Patient => stack = {}
NewMessage(n) == [id |-> Len(returned) + 1, n |-> n]
Returns(status) == returned' = Append(returned, status)

SendRefused ==
  /\ Calls /\ sending
  /\ Returns("LIMIT")
  /\ UNCHANGED <<sending, txMessage, txFragmentCount, txFragmentBase,
                 txFragmentsInTransit, stack, refused, reports>>

\* txMessageType is set before the length is looked at, and stays set
SendTooLong(n) ==
  /\ Calls /\ ~sending /\ n > Byte - 1
  /\ sending' = TRUE /\ txMessage' = NewMessage(n)
  /\ Returns("TOO_LONG")
  /\ UNCHANGED <<txFragmentCount, txFragmentBase, txFragmentsInTransit, stack,
                 refused, reports>>

\* mutant: stays busy when the stack refuses the message
SendUnicast_StaysBusy(n) ==
  /\ Calls /\ ~sending /\ n <= Byte - 1
  /\ txMessage' = NewMessage(n) /\ sending' = TRUE
  /\ txFragmentCount' = n /\ txFragmentBase' = 0
  /\ \E taken \in SUBSET NextWindow :
       /\ SendNextFragments(TRUE, stack, 0, taken)
       /\ Returns(IF taken = NextWindow THEN "SUCCESS" ELSE "FAILED")
  /\ UNCHANGED reports

\* mutant: counts on from what was in transit
SendUnicast_KeepsCount(n) ==
  /\ Calls /\ ~sending /\ n <= Byte - 1
  /\ txMessage' = NewMessage(n)
  /\ txFragmentCount' = n /\ txFragmentBase' = 0
  /\ \E taken \in SUBSET NextWindow :
       /\ SendNextFragments(TRUE, stack, txFragmentsInTransit, taken)
       /\ sending' = (taken = NextWindow)
       /\ Returns(IF taken = NextWindow THEN "SUCCESS" ELSE "FAILED")
  /\ UNCHANGED reports

SendUnicast(n) ==
  /\ Calls /\ ~sending /\ n <= Byte - 1
  /\ txMessage' = NewMessage(n)
  /\ txFragmentCount' = n /\ txFragmentBase' = 0
  /\ \E taken \in SUBSET NextWindow :
       /\ SendNextFragments(TRUE, stack, 0, taken)
       /\ sending' = (taken = NextWindow)
       /\ Returns(IF taken = NextWindow THEN "SUCCESS" ELSE "FAILED")
  /\ UNCHANGED reports

\* emAfFragmentationMessageSent.  Nothing tells it whose fragment was reported:
\* the count goes down, and around, for whatever message is being sent.
InTransitLess1 == (txFragmentsInTransit - 1) % Byte

FragmentSent(f) ==
  /\ f \in stack /\ InTransitLess1 # 0
  /\ stack' = stack \ {f} /\ txFragmentsInTransit' = InTransitLess1
  /\ UNCHANGED <<sending, txMessage, txFragmentCount, txFragmentBase, refused,
                 returned, reports>>

\* ... the last of its window: the next window, or the end of the message
WindowSent(f) ==
  /\ f \in stack /\ InTransitLess1 = 0
  /\ UNCHANGED <<txMessage, txFragmentCount, returned>>
  /\ txFragmentBase' = (txFragmentBase + Window) % Byte
  /\ \E taken \in SUBSET NextWindow :
       /\ SendNextFragments(sending, stack \ {f}, 0, taken)
       /\ IF taken = NextWindow /\ taken # {} THEN UNCHANGED <<sending, reports>>
          ELSE /\ sending' = FALSE
               /\ IF taken = NextWindow THEN Report("SUCCESS")
                  ELSE IF sending THEN Report("FAILED")
                  ELSE UNCHANGED reports

\* mutant: goes on as if the fragment had been delivered
FragmentFailed_GoesOn(f) == FragmentSent(f) \/ WindowSent(f)

\* The stack gave a fragment up: so is the message
FragmentFailed(f) ==
  /\ f \in stack /\ stack' = stack \ {f}
  /\ sending' = FALSE
  /\ UNCHANGED txMessage
  /\ IF sending THEN Report("FAILED") ELSE UNCHANGED reports
  /\ UNCHANGED <<txFragmentCount, txFragmentBase, txFragmentsInTransit,
                 refused, returned>>

Call == SendRefused \/ \E n \in Lengths : SendTooLong(n) \/ SendUnicast(n)

\* The sender by itself, with a stack that reports as it likes
SendNext == Call \/ \E f \in stack : \/ FragmentSent(f) \/ WindowSent(f)
                                     \/ FragmentFailed(f)

SendSpec == SendInit /\ [][SendNext]_sendVars

-----------------------------------------------------------------------------
(* Properties.                                                             *)

\* The component is busy only while the stack still owes it a report of the
\* message being sent: nothing can block it for ever, except a message that was
\* too long.
BusyIsOwed ==
  sending /\ txMessage.n < Byte => \E f \in stack : f.msg = txMessage
=============================================================================
