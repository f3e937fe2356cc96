----------------------------- MODULE MCVarChannel -----------------------------
(* VarChannel with messages of two and three units, each registered twice.   *)
EXTENDS VarChannel
==============================================================================
