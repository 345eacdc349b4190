---------------------------- MODULE MCLoadControl ----------------------------
(***************************************************************************)
(* Events for the run of LoadControl: one that starts when it arrives, at  *)
(* a random time after, two that overlap it and one another, and one for   *)
(* other devices.                                                          *)
(***************************************************************************)
EXTENDS LoadControl

Event(id, start, dur, random, ours) ==
  [id |-> id, start |-> start, dur |-> dur, random |-> random, ours |-> ours]

MCEvents == {Event(1, 0, 2, TRUE, TRUE), Event(2, 3, 2, FALSE, TRUE),
             Event(3, 4, 1, FALSE, TRUE), Event(4, 5, 1, FALSE, FALSE)}
=============================================================================
