----------------------------- MODULE TableFiles -----------------------------
(* write_csv, write_feather and their readers: tables written to a temporary *)
(* file that is renamed over the old one, by several processes that may be   *)
(* killed.  A file is an inode: what is written through an open file stays   *)
(* with it when its name changes.  arrow's file format is external; a value  *)
(* is a Cell, and a csv cell is told apart by what stod makes of it.         *)
EXTENDS Integers, SequencesExt

CONSTANTS Writer,    \* the processes
          Tables,    \* bound: the tables written, sequences of [name, type, rows]
          MaxWrites  \* bound: inodes made

\* Whole numbers of up to six digits, others of six digits, longer ones (of
\* type 6, beyond an int), NaN, text of a few digits, text that begins with a
\* letter, and empty text.
Cell == {"num", "frac", "long", "nan", "digits", "word", ""}
Keys == {"DataDate", "ukey", "ticktime"}

VARIABLES job,     \* what each process does: at, format, table, inode
          inode,   \* the inodes: [table, format, whole]
          named,   \* the inode of the file and of the temporary one, 0 for none
          last,    \* history: the table of the last write that answered true, and its format
          muddle   \* history: two writes overlapped, or write_csv met a full disk
tableVars == <<job, inode, named, last, muddle>>

Idle == [at |-> "idle", format |-> "none", table |-> <<>>, inode |-> 0]
Init == /\ job = [w \in Writer |-> Idle] /\ inode = <<>> /\ named = [file |-> 0, tmp |-> 0]
        /\ last = <<>> /\ muddle = FALSE

Supported(t) == \A i \in DOMAIN t : t[i].type \in 1 .. 6
Busy(w) == job[w].at # "idle"
Ends(w) == job' = [job EXCEPT ![w] = Idle]

\* write_feather builds the arrays first; write_csv finds a type it does not
\* know while it writes.
Open(w, t, f) ==
    /\ ~Busy(w) /\ Len(inode) < MaxWrites /\ (f = "feather" => Supported(t))
    /\ LET n == IF named.tmp = 0 THEN Len(inode) + 1 ELSE named.tmp
           new == [table |-> t, format |-> f, whole |-> FALSE]
       IN /\ inode' = IF named.tmp = 0 THEN Append(inode, new) ELSE [inode EXCEPT ![n] = new]
          /\ named' = [named EXCEPT !.tmp = n]
          /\ job' = [job EXCEPT ![w] = [at |-> "open", format |-> f, table |-> t, inode |-> n]]
    /\ muddle' = (muddle \/ \E v \in Writer : Busy(v)) /\ UNCHANGED last

MutWriteAll(w, full) ==  \* what WriteTable answers is not looked at
    /\ job[w].at = "open" /\ UNCHANGED <<named, last, muddle>>
    /\ inode' = [inode EXCEPT ![job[w].inode].whole = ~full]
    /\ job' = [job EXCEPT ![w].at = "written"]
\* A full disk: write_feather answers false, write_csv does not look.
WriteAll(w, full) ==
    /\ job[w].at = "open" /\ UNCHANGED <<named, last>>
    /\ LET fails == full \/ ~Supported(job[w].table)
           n == job[w].inode
       IN /\ inode' = [inode EXCEPT ![n].whole = ~fails]
          /\ muddle' = (muddle \/ (full /\ job[w].format = "csv"))
          /\ job' = [job EXCEPT ![w] = IF (full /\ job[w].format = "feather") \/ ~Supported(job[w].table)
                                       THEN Idle ELSE [@ EXCEPT !.at = "written"]]

\* What rename answers is looked at by neither.
Rename(w) == /\ job[w].at = "written" /\ Ends(w) /\ UNCHANGED <<inode, muddle>>
             /\ named' = IF named.tmp = 0 THEN named ELSE [file |-> named.tmp, tmp |-> 0]
             /\ last' = <<job[w].table, job[w].format>>
Killed(w) == Busy(w) /\ Ends(w) /\ UNCHANGED <<inode, named, last, muddle>>

Next == \/ \E w \in Writer : \/ Rename(w) \/ Killed(w)
                             \/ \E full \in BOOLEAN : WriteAll(w, full)
                             \/ \E t \in Tables : Open(w, t, "csv") \/ Open(w, t, "feather")

\* operator<< prints six digits of a double or float, and all of the others.
Printed(t, v) == IF v = "long" /\ t \in {1, 2} THEN "frac" ELSE v
\* write_feather with use_float32 = FALSE keeps what it is given.
Column(c, type, rows) == {[name |-> c.name, type |-> type, rows |-> rows]}

\* CsvReader::read: the keys are read with stoi, which loses a fraction and throws
\* on what does not begin with a digit or is no int; other columns as doubles when
\* no cell begins with a letter, and are left out otherwise.
IsInt(t, v) == v \in {"num", "frac", "digits"} \/ (v = "long" /\ t = 3)
stoi(v) == IF v = "long" THEN v ELSE "num"
Throws(c) == c.name \in Keys /\ \E i \in DOMAIN c.rows : ~IsInt(c.type, Printed(c.type, c.rows[i]))
Number(v) == IF v = "" THEN "nan" ELSE IF v = "digits" THEN "num" ELSE v
is_double_vec(rows) == \A i \in DOMAIN rows : rows[i] \notin {"nan", "word"}
ReadCsvColumn(c) ==
    LET cells == [i \in DOMAIN c.rows |-> Printed(c.type, c.rows[i])]
    IN IF c.name \in Keys THEN Column(c, 3, [i \in DOMAIN cells |-> stoi(cells[i])])
       ELSE IF is_double_vec(cells) THEN Column(c, 1, [i \in DOMAIN cells |-> Number(cells[i])])
       ELSE {}

\* FeatherReader::table2id: floats become doubles; it knows no text and no
\* uint64.
table2id(c) == IF c.type \in {4, 6} THEN {} ELSE Column(c, IF c.type = 2 THEN 1 ELSE c.type, c.rows)

\* A reader that throws returns nothing.
Fails(f) == f.format = "csv" /\ \E i \in DOMAIN f.table : Throws(f.table[i])
Read(f) == IF Fails(f) THEN {}
           ELSE UNION {IF f.format = "csv" THEN ReadCsvColumn(c) ELSE table2id(c) : c \in ToSet(f.table)}
-----------------------------------------------------------------------------
TypeOK == /\ named.file \in 0 .. Len(inode) /\ named.tmp \in 0 .. Len(inode) /\ muddle \in BOOLEAN
          /\ \A w \in Writer : job[w].at \in {"idle", "open", "written"} /\ job[w].inode \in 0 .. Len(inode)

(* Unless two writes overlapped or a csv met a full disk, whoever was killed *)
(* and whatever failed, the file is the whole of the table last written, and *)
(* a reader finds in it every column of ints and doubles with its values:    *)
(* from feather all; from csv, if its keys are numbers, the columns without  *)
(* a NaN, of doubles those of six digits and, as keys, of whole numbers.     *)
Survives(c) == /\ "nan" \notin ToSet(c.rows)
               /\ c.type = 1 => "long" \notin ToSet(c.rows) /\ (c.name \in Keys => "frac" \notin ToSet(c.rows))
TableSurvives ==
    ~muddle =>
      IF last = <<>> THEN named.file = 0
      ELSE LET f == inode[named.file]
           IN /\ f.whole /\ f.table = last[1] /\ f.format = last[2]
              /\ ~Fails(f) => \A i \in DOMAIN f.table :
                   LET c == f.table[i]
                   IN c.type \in {1, 3} /\ (f.format = "csv" => Survives(c))
                      => \E g \in Read(f) : g.name = c.name /\ g.rows = c.rows
=============================================================================
