----------------------------- MODULE MCTapList ------------------------------
EXTENDS TapList

TapSpec == Init /\ [][Next]_tapVars
=============================================================================
