----------------------------- MODULE MCInputData -----------------------------
\* quotes has two columns of doubles and one of ints; extra's columns are wanted
\* but for z, and it shares the name a with no day but quotes'; daily has no
\* tick; nothing is empty.
EXTENDS InputData
Col(n, t) == [name |-> n, type |-> t]
MCFiles == [quotes  |-> [rows |-> 2, cols |-> <<Col("ukey", "int"), Col("tick", "int"),
                                               Col("n", "int"), Col("a", "double")>>],
            extra   |-> [rows |-> 2, cols |-> <<Col("b", "double"), Col("z", "double"),
                                               Col("ukey", "int"), Col("tick", "int")>>],
            daily   |-> [rows |-> 1, cols |-> <<Col("ukey", "int"), Col("a", "double")>>],
            nothing |-> [rows |-> 0, cols |-> <<Col("ukey", "int"), Col("tick", "int"),
                                               Col("b", "double")>>]]
MCWanted == {"ukey", "tick", "a", "b", "n"}
Perms == Permutations(Readers) \cup Permutations(Days)
==============================================================================
