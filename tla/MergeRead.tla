----------------------------- MODULE MergeRead ------------------------------
(* merge_read of input_data1.cpp: the files of several entries, one of each  *)
(* on each trading day, become one table; the first enabled entry gives the  *)
(* rows, the others fill in columns by the key of a row (date, time, ukey).  *)
(* A cell is the path of the value in it, or NaN.  An entry is [enable,      *)
(* format, file: the file of each day, name: what its columns are called     *)
(* after select, exclude, prefix and suffix]; a file is [rows, cols].        *)
EXTENDS Integers, SequencesExt, FiniteSetsExt

CONSTANTS Days,     \* trading_dates
          Configs   \* bound: the sequences of entries given

VARIABLES config,  \* the entries, <<>> before the call
          entry,   \* the entry being read
          day,     \* index of its day, 0 before its files are loaded
          first,   \* first_entry
          rows,    \* pDate, pTick and pUkey: the keys of the rows so far
          index,   \* row_index_map: the position of each key
          names,   \* feat_names
          feats,   \* the values of each of them
          outcome  \* "none", "running", "done" or "threw"
mergeVars == <<config, entry, day, first, rows, index, names, feats, outcome>>

NaN == <<"NaN">>
Init == /\ config = <<>> /\ entry = 1 /\ day = 0 /\ first = TRUE /\ rows = <<>> /\ index = <<>>
        /\ names = <<>> /\ feats = <<>> /\ outcome = "none"

E1 == config[entry]
File1 == E1.file[Days[day]]
\* No such file, one without rows or one without columns of numbers.
Refused(f) == f.rows = <<>> \/ f.cols = <<>>

\* should_include_column: name has the columns that are chosen, in their order.
Chosen(e, f) ==
    LET chosen[k \in 0 .. Len(f.cols)] ==
          IF k = 0 THEN <<>>
          ELSE IF f.cols[k] \in DOMAIN e.name THEN Append(chosen[k - 1], f.cols[k]) ELSE chosen[k - 1]
    IN chosen[Len(f.cols)]
NewNames(e, f) == [i \in 1 .. Len(Chosen(e, f)) |-> e.name[Chosen(e, f)[i]]]
Values(f, c) == [i \in 1 .. Len(f.rows) |-> <<entry, c, f.rows[i], day>>]

Call(c) == outcome = "none" /\ config' = c /\ outcome' = "running" /\ UNCHANGED <<entry, day, first, rows, index, names, feats>>

Throws == outcome' = "threw" /\ UNCHANGED <<config, entry, day, first, rows, index, names, feats>>
LoadDailyDatum ==
    /\ outcome = "running" /\ entry <= Len(config) /\ day = 0 /\ E1.enable
    /\ IF E1.format \notin {"feather", "csv"} \/ \E d \in ToSet(Days) : Refused(E1.file[d]) THEN Throws
       ELSE day' = 1 /\ UNCHANGED <<config, entry, first, rows, index, names, feats, outcome>>
SkipEntry == /\ outcome = "running" /\ entry <= Len(config) /\ day = 0 /\ ~E1.enable /\ entry' = entry + 1
             /\ UNCHANGED <<config, day, first, rows, index, names, feats, outcome>>

\* A new name twice, within the file or among the entries before, throws.
Dupe(new) == day = 1 /\ (ToSet(new) \cap ToSet(names) # {} \/ Cardinality(ToSet(new)) < Len(new))
Extended(new, fill) == IF day = 1 THEN feats \o [i \in 1 .. Len(new) |-> fill] ELSE feats
At(all, n) == CHOOSE i \in DOMAIN all : all[i] = n

NextDay == /\ day' = IF day < Len(Days) THEN day + 1 ELSE 0
           /\ entry' = IF day < Len(Days) THEN entry ELSE entry + 1
           /\ first' = (first /\ day < Len(Days))

\* build_dtu_idx, then every column gets the file's values at its end: a column
\* the file of a later day lacks stays behind, one it names twice (bound: no
\* file names one more often) gets them twice.
Twice(new, n) == \E i, j \in DOMAIN new : i # j /\ new[i] = n /\ new[j] = n
Column(f, new, n) == LET v == Values(f, Chosen(E1, f)[At(new, n)]) IN IF Twice(new, n) THEN v \o v ELSE v
Indexed(f, after) == [k \in DOMAIN index \cup ToSet(f.rows) |->
                        IF k \in ToSet(f.rows) THEN after + At(f.rows, k) ELSE index[k]]
MutBuildIndex(f) == Indexed(f, 0)
BuildIndex(f) == Indexed(f, Len(rows))
FirstEntryDay ==
    /\ outcome = "running" /\ day > 0 /\ first
    /\ LET f == File1
           new == NewNames(E1, f)
           all == IF day = 1 THEN names \o new ELSE names
           old == Extended(new, <<>>)
       IN IF \/ ToSet(f.rows) \cap DOMAIN index # {} \/ Cardinality(ToSet(f.rows)) < Len(f.rows)
             \/ Dupe(new) \/ ~(ToSet(new) \subseteq ToSet(all)) THEN Throws
          ELSE /\ index' = BuildIndex(f) /\ rows' = rows \o f.rows /\ names' = all
               /\ feats' = [i \in DOMAIN all |->
                              IF all[i] \in ToSet(new) THEN old[i] \o Column(f, new, all[i]) ELSE old[i]]
               /\ NextDay /\ UNCHANGED <<config, outcome>>

\* A column whose name an earlier entry has is written into that one's column,
\* unless the first day's file has it.
LaterEntryDay ==
    /\ outcome = "running" /\ day > 0 /\ ~first
    /\ LET f == File1
           new == NewNames(E1, f)
           all == IF day = 1 THEN names \o new ELSE names
           old == Extended(new, [i \in 1 .. Len(rows) |-> NaN])
           met == {i \in DOMAIN f.rows : f.rows[i] \in DOMAIN index}
           put(c, j) == LET here == {i \in met : index[f.rows[i]] = j}  \* the last such row stays
                        IN Values(f, c)[Max(here)]
       IN IF Dupe(new) \/ (met # {} /\ ~(ToSet(new) \subseteq ToSet(all))) THEN Throws
          ELSE /\ names' = all
               /\ feats' = [n \in DOMAIN all |->
                    IF all[n] \notin ToSet(new) THEN old[n]
                    ELSE [j \in DOMAIN old[n] |-> IF \E i \in met : index[f.rows[i]] = j
                                                  THEN put(Chosen(E1, f)[At(new, all[n])], j) ELSE old[n][j]]]
               /\ NextDay /\ UNCHANGED <<config, rows, index, outcome>>

\* The table: the three key columns and the features.
Finish == /\ outcome = "running" /\ entry > Len(config)
          /\ outcome' = IF first THEN "threw" ELSE "done"
          /\ UNCHANGED <<config, entry, day, first, rows, index, names, feats>>

Next == \/ SkipEntry \/ LoadDailyDatum \/ FirstEntryDay \/ LaterEntryDay \/ Finish
        \/ \E c \in Configs : Call(c)
-----------------------------------------------------------------------------
TypeOK == /\ outcome \in {"none", "running", "done", "threw"} /\ day \in 0 .. Len(Days)
          /\ entry \in 1 .. Len(config) + 1 /\ Len(names) = Len(feats)
          /\ \A k \in DOMAIN index : rows[index[k]] = k

Enabled == {e \in DOMAIN config : config[e].enable}
Given(e, n) == \E d \in ToSet(Days) : n \in ToSet(NewNames(config[e], config[e].file[d]))
\* The value that entry e has for column c at key k: that of the last day that has it.
Path(e, c, k) == LET have == {d \in DOMAIN Days : k \in ToSet(config[e].file[Days[d]].rows)}
                 IN IF have = {} THEN NaN ELSE <<e, c, k, Max(have)>>
(* In the table a column that one entry alone gives, on every day, once, has *)
(* the value that entry has for the row's key, wherever its files hold it,   *)
(* and NaN in the rows it does not know, as many values as there are rows.   *)
MergeTrue ==
    outcome = "done" =>
      \A e \in Enabled : \A c \in DOMAIN config[e].name :
         LET n == config[e].name[c]
         IN /\ \A d \in ToSet(Days) : /\ c \in ToSet(config[e].file[d].cols)
                                     /\ ~Twice(NewNames(config[e], config[e].file[d]), n)
            /\ \A o \in Enabled \ {e} : ~Given(o, n)
            => n \in ToSet(names) /\ feats[At(names, n)] = [j \in DOMAIN rows |-> Path(e, c, rows[j])]
=============================================================================
