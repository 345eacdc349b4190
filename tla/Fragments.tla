----------------------------- MODULE Fragments -----------------------------
(***************************************************************************)
(* What the two halves of app/framework/util/fragmentation.c share.        *)
(***************************************************************************)
EXTENDS Integers, Sequences, FiniteSets

CONSTANTS
  Byte,        \* 256, the range of an int8u
  Window,      \* emberFragmentWindowSize
  Lengths,     \* messages have one of these numbers of fragments
  MaxSends     \* calls of emAfFragmentationSendUnicast (bound)

ASSUME FragmentsAssumption ==
  /\ Byte \in Nat /\ Window \in 1 .. 8 /\ Window < Byte
  /\ Lengths \subseteq Nat \ {0} /\ MaxSends \in Nat

\* A message is known by the call that sends it (its APS sequence number) and
\* the number of its fragments
Message == [id : 1 .. MaxSends, n : Lengths]
NoMessage == [id |-> 0, n |-> 0]
Fragment(m, i) == [msg |-> m, i |-> i]
FragmentsOf(m) == {Fragment(m, i) : i \in 0 .. m.n - 1}
=============================================================================
