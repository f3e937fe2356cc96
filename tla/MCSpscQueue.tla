----------------------------- MODULE MCSpscQueue -----------------------------
(* SpscQueue on a ring of three slots: two values fit, so the indices wrap   *)
(* with the queue empty, half full and full.                                 *)
EXTENDS SpscQueue
==============================================================================
