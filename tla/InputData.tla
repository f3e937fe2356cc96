------------------------------ MODULE InputData ------------------------------
(* The columnar data of include/zerg/io/input_data.h: an InputData owns      *)
(* vectors and recycles them through pools, an X_Data reads files into two   *)
(* of them, and a DayData is a set of pointers into their vectors.           *)
(*                                                                           *)
(* Nothing here runs concurrently: a call is a step.  A file is a list of    *)
(* named columns; ukey stands for its ukey and DataDate columns, tick for    *)
(* ticktime.  What a vector holds is a path: <<n, f>> is column n of file f, *)
(* and Append(p, g) is what p holds, laid out by the rows of g.  The kinds   *)
(* int and double stand for all those that clear() treats alike.             *)
EXTENDS Integers, Sequences, SequencesExt, FiniteSets

CONSTANTS Readers,    \* X_Data objects
          Days,       \* DayData objects
          Files,      \* the files, by name: how many rows, and the columns
          Wanted,     \* the keys of m_x_names
          Overlap,    \* may DayData::merge meet a column merge_read added?
          MaxCalls    \* bound: calls made

Kinds == {"int", "double"}
Keys == {"ukey", "tick"}
\* No file names a column twice, and its keys are ints.
ASSUME FilesAssumption ==
  \A f \in DOMAIN Files :
    /\ Files[f].rows \in Nat
    /\ Files[f].cols \in Seq([name : STRING, type : Kinds])
    /\ \A i, j \in DOMAIN Files[f].cols :
         /\ Files[f].cols[i].name = Files[f].cols[j].name => i = j
         /\ Files[f].cols[i].name \in Keys => Files[f].cols[i].type = "int"
ASSUME ObjectsAssumption == Readers \cap Days = {}
ASSUME BoundsAssumption == MaxCalls \in Nat /\ Overlap \in BOOLEAN

VARIABLES store,   \* the InputData objects: id and mid of each X_Data, id of each DayData
          day,     \* the DayData objects
          wants,   \* m_x_names of each X_Data
          life,    \* history: how often each InputData was cleared
          calls    \* history: how many calls were made

vars == <<store, day, wants, life, calls>>

Owners == (Readers \X {"id", "mid"}) \cup (Days \X {"id"})

NewStore == [live |-> [k \in Kinds |-> <<>>], pool |-> [k \in Kinds |-> <<>>],
             made |-> [k \in Kinds |-> 0], data |-> <<>>, cols |-> <<>>]

\* keys: x_ukeys and x_ticks; xs: xNames with pXs; x2data: the keys of that
\* map; index: whose rows ukey2tick2pos holds.
NoIndex == "none"
NewDay == [keys |-> {}, xs |-> <<>>, x2data |-> {}, index |-> NoIndex]

Init == /\ store = [o \in Owners |-> NewStore]
        /\ day = [d \in Days |-> NewDay]
        /\ wants = [x \in Readers |-> Wanted]
        /\ life = [o \in Owners |-> 0] /\ calls = 0

------------------------------------------------------------------------------
(* InputData.                                                                *)

\* new_type_vec: the last vector of the pool, or a new one; it holds p.
NextVec(s, k) == IF s.pool[k] # <<>> THEN Last(s.pool[k]) ELSE <<k, s.made[k] + 1>>
Holding(data, v, p) == [w \in DOMAIN data \cup {v} |-> IF w = v THEN p ELSE data[w]]
MutNewVecKeepsPool(s, k, p) ==
  [s EXCEPT !.live[k] = Append(@, NextVec(s, k)),
            !.made[k] = IF s.pool[k] = <<>> THEN @ + 1 ELSE @,
            !.data = Holding(@, NextVec(s, k), p)]
NewVec(s, k, p) ==
  [s EXCEPT !.live[k] = Append(@, NextVec(s, k)),
            !.pool[k] = IF @ # <<>> THEN Front(@) ELSE @,
            !.made[k] = IF s.pool[k] # <<>> THEN @ ELSE @ + 1,
            !.data = Holding(@, NextVec(s, k), p)]

\* A vector of doubles for each of the paths ps.
NewDoubles(s, ps) ==
  LET upTo[i \in 0 .. Len(ps)] ==
        IF i = 0 THEN s ELSE NewVec(upTo[i - 1], "double", ps[i])
  IN upTo[Len(ps)]

\* clear: the vectors go to the pools and the columns are forgotten.
MutClearKeepsCols(s) ==
  [s EXCEPT !.pool = [k \in Kinds |-> @[k] \o s.live[k]],
            !.live = [k \in Kinds |-> <<>>]]
MutClearKeepsInts(s) ==
  [s EXCEPT !.pool = [k \in Kinds |-> @[k] \o s.live[k]],
            !.live["double"] = <<>>, !.cols = <<>>]
Cleared(s) ==
  [s EXCEPT !.pool = [k \in Kinds |-> @[k] \o s.live[k]],
            !.live = [k \in Kinds |-> <<>>], !.cols = <<>>]

\* What ~InputData deletes: it clears and deletes the pools.
DeletedBy(s, k) == Cleared(s).pool[k]

\* FeatherReader::read and CsvReader::read: a new vector and an entry of cols
\* for each wanted column; every column is wanted when nothing is named.  In a
\* csv file only the keys are ints.
Formats == {"feather", "csv"}
TypeIn(format, c) == IF format = "csv" /\ c.name \notin Keys THEN "double" ELSE c.type
ReadColumn(s, f, format, c) ==
  LET k == TypeIn(format, c)
  IN [NewVec(s, k, <<c.name, f>>) EXCEPT
        !.cols = Append(@, [name |-> c.name, type |-> k, vec |-> NextVec(s, k)])]
ReadFile(s, f, format, want) ==
  LET cols == Files[f].cols
      upTo[i \in 0 .. Len(cols)] ==
        IF i = 0 THEN s
        ELSE IF want = {} \/ cols[i].name \in want
             THEN ReadColumn(upTo[i - 1], f, format, cols[i])
             ELSE upTo[i - 1]
  IN upTo[Len(cols)]

\* The elements of s that are in S, in their order.
Chosen(s, S) ==
  LET upTo[i \in 0 .. Len(s)] ==
        IF i = 0 THEN <<>>
        ELSE IF s[i] \in S THEN Append(upTo[i - 1], s[i]) ELSE upTo[i - 1]
  IN upTo[Len(s)]

------------------------------------------------------------------------------
(* DayData.                                                                  *)

\* A pointer to vector v of o, and, as history, what it was made to show and
\* in which life of o.
Pointer(o, l, n, v, p) == [owner |-> o, life |-> l, name |-> n, vec |-> v, shows |-> p]

Pointers(d) == day[d].keys \cup Range(day[d].xs)
Names(y) == {y.xs[i].name : i \in DOMAIN y.xs}
Shown(e) == store[e.owner].data[e.vec]
Current(e) == e.life = life[e.owner]

Fresh(d) == day[d] = NewDay
HasKeys(y) == \A k \in Keys : \E e \in y.keys : e.name = k
Usable(d) == HasKeys(day[d]) /\ \A e \in Pointers(d) : Current(e)

\* build_index: x2data gets every column, and the index the keys' rows.
Indexed(y, f) == [y EXCEPT !.x2data = Names(y), !.index = f]

Call == calls < MaxCalls /\ calls' = calls + 1

\* The caller builds the index of a day once.
BuildIndex(d) ==
  /\ Call /\ Usable(d) /\ day[d].index = NoIndex
  /\ \E e \in day[d].keys :
       /\ e.name = "ukey"
       /\ day' = [day EXCEPT ![d] = Indexed(@, Shown(e)[2])]
  /\ UNCHANGED <<store, wants, life>>

\* add_new_column(n): a column of NAN, unless the day has the column.
WithColumn(a, d, n, p) ==
  LET o == <<d, "id">>
      e == Pointer(o, life[o], n, NextVec(a.store[o], "double"), p)
  IN [a EXCEPT !.store[o] = NewVec(@, "double", p), !.day.xs = Append(@, e), !.day.x2data = @ \cup {n}]
AddNewColumn(d, n) ==
  /\ Call /\ Usable(d)
  /\ LET now == [store |-> store, day |-> day[d]]
         a == IF n \in Names(day[d]) THEN now ELSE WithColumn(now, d, n, <<"nan">>)
     IN store' = a.store /\ day' = [day EXCEPT ![d] = a.day]
  /\ UNCHANGED <<wants, life>>

\* merge(dd, n, n) for the column e of dd: it throws when dd's x2data lacks the
\* name or this one's has it, and otherwise writes the values of the rows both
\* have into what add_new_column(n) returns.
MutMergeColumn(a, d, dd, e) ==
  IF ~a.ok \/ e.name \notin day[dd].x2data THEN [a EXCEPT !.ok = FALSE]
  ELSE WithColumn(a, d, e.name, Append(Shown(e), day[d].index))
MergeColumn(a, d, dd, e) ==
  LET mine == {m \in Range(a.day.xs) : m.name = e.name}
  IN IF \/ ~a.ok
        \/ e.name \notin day[dd].x2data
        \/ e.name \in a.day.x2data
     THEN [a EXCEPT !.ok = FALSE]
     ELSE IF mine = {}
     THEN WithColumn(a, d, e.name, Append(Shown(e), day[d].index))
     ELSE LET m == CHOOSE m \in mine : TRUE
          IN [a EXCEPT !.store[m.owner].data[m.vec] = Append(Shown(e), day[d].index)]

\* merge(dd, {}): every column of dd in turn; what was merged before an
\* exception stays.
Merged(d, dd) ==
  LET xs == day[dd].xs
      upTo[i \in 0 .. Len(xs)] ==
        IF i = 0 THEN [ok |-> TRUE, store |-> store, day |-> day[d]]
        ELSE MergeColumn(upTo[i - 1], d, dd, xs[i])
  IN upTo[Len(xs)]
Merge(d, dd) ==
  /\ Call /\ d # dd /\ Usable(d) /\ Usable(dd) /\ day[d].index # NoIndex
  /\ Overlap \/ Names(day[dd]) \cap Names(day[d]) \subseteq day[d].x2data
  /\ store' = Merged(d, dd).store
  /\ day' = [day EXCEPT ![d] = Merged(d, dd).day]
  /\ UNCHANGED <<wants, life>>

\* load_feather_data and load_csv_data: a new DayData, its own InputData, and
\* its index; only feather supplies a missing tick.  On an exception the
\* DayData is gone again.
KeyPointers(o, l, s) ==
  {Pointer(o, l, c.name, c.vec, s.data[c.vec]) : c \in {c \in Range(s.cols) : c.name \in Keys}}
DefaultTick == <<"tick", "150000000">>
TickPointer(o, l, s) == Pointer(o, l, "tick", NextVec(s, "int"), DefaultTick)
LacksTick(s) == \A c \in Range(s.cols) : c.name # "tick"

Load(d, f, format) ==
  LET o == <<d, "id">>
      r == ReadFile(store[o], f, format, {})
      doubles == Chosen(r.cols, {c \in Range(r.cols) : c.type = "double"})
      addsTick == format = "feather" /\ LacksTick(r)
      y == [NewDay EXCEPT
              !.keys = KeyPointers(o, life[o], r)
                       \cup (IF addsTick THEN {TickPointer(o, life[o], r)} ELSE {}),
              !.xs = [i \in DOMAIN doubles |->
                        Pointer(o, life[o], doubles[i].name, doubles[i].vec, <<doubles[i].name, f>>)]]
  IN /\ Call /\ Fresh(d)
     /\ HasKeys(y) /\ y.xs # <<>> /\ Files[f].rows # 0
     /\ store' = [store EXCEPT ![o] = IF addsTick THEN NewVec(r, "int", DefaultTick) ELSE r]
     /\ day' = [day EXCEPT ![d] = Indexed(y, f)]
     /\ UNCHANGED <<wants, life>>

\* ~DayData, and a new one in its place.
Drop(d) ==
  /\ Call /\ ~Fresh(d)
  /\ day' = [day EXCEPT ![d] = NewDay]
  /\ store' = [store EXCEPT ![<<d, "id">>] = NewStore]
  /\ UNCHANGED <<wants, life>>

------------------------------------------------------------------------------
(* X_Data.                                                                   *)

\* read and read_csv into a new DayData: id is cleared and filled; a column of
\* ints other than a key is copied to a new vector of doubles; csv supplies a
\* missing tick.  What was assigned before an exception stays.
IsCopied(c) == c.type = "int" /\ c.name \notin Keys
Read(x, d, f, format) ==
  LET o == <<x, "id">>
      l == life[o] + 1
      r == ReadFile(Cleared(store[o]), f, format, wants[x])
      copied == Chosen(r.cols, {c \in Range(r.cols) : IsCopied(c)})
      xs == Chosen(r.cols, {c \in Range(r.cols) : c.name \notin Keys})
      s == NewDoubles(r, [i \in DOMAIN copied |-> r.data[copied[i].vec]])
      copyOf(c) == s.live["double"][Len(r.live["double"]) +
                                    (CHOOSE i \in DOMAIN copied : copied[i] = c)]
      addsTick == format = "csv" /\ LacksTick(r)
  IN /\ Call /\ Fresh(d)
     /\ store' = [store EXCEPT ![o] = IF addsTick THEN NewVec(s, "int", DefaultTick) ELSE s]
     /\ life' = [life EXCEPT ![o] = l]
     /\ day' = [day EXCEPT
                  ![d].keys = KeyPointers(o, l, r)
                              \cup (IF addsTick THEN {TickPointer(o, l, s)} ELSE {}),
                  ![d].xs = [i \in DOMAIN xs |->
                     Pointer(o, l, xs[i].name,
                             IF IsCopied(xs[i]) THEN copyOf(xs[i]) ELSE xs[i].vec,
                             <<xs[i].name, f>>)],
                  ![d].x2data = {c.name : c \in Range(xs)}]
     /\ UNCHANGED wants

\* merge_read into a day another reader filled: id gets all columns of the
\* file, mid one vector for each wanted column of doubles, laid out by the
\* day's index; neither x2data nor, on an exception or without rows, mid and
\* the day change.
MutRefusesNone(d, toMerge) == FALSE
HasDupe(d, toMerge) == \E c \in Range(toMerge) : c.name \in Names(day[d])
MergeRead(x, d, f) ==
  LET o == <<x, "id">>
      mid == <<x, "mid">>
      r == ReadFile(Cleared(store[o]), f, "feather", {})
      toMerge == Chosen(r.cols, {c \in Range(r.cols) : c.type = "double" /\ c.name \in wants[x]})
      merges == /\ ~HasDupe(d, toMerge)
                /\ Keys \subseteq {c.name : c \in Range(r.cols)}
                /\ toMerge # <<>> /\ Files[f].rows # 0
      laid(c) == <<c.name, f, day[d].index>>
      m == NewDoubles(Cleared(store[mid]), [i \in DOMAIN toMerge |-> laid(toMerge[i])])
      added == [i \in DOMAIN toMerge |->
                  Pointer(mid, life[mid] + 1, toMerge[i].name, m.live["double"][i],
                          laid(toMerge[i]))]
  IN /\ Call /\ Usable(d) /\ day[d].index # NoIndex
     /\ \A e \in Pointers(d) : e.owner # o
     /\ store' = IF merges THEN [store EXCEPT ![o] = r, ![mid] = m] ELSE [store EXCEPT ![o] = r]
     /\ life' = [life EXCEPT ![o] = @ + 1, ![mid] = IF merges THEN @ + 1 ELSE @]
     /\ day' = IF merges THEN [day EXCEPT ![d].xs = @ \o added] ELSE day
     /\ UNCHANGED wants

\* read, read_csv or merge_read of a path that cannot be read: id is cleared
\* before the reader throws.
ReadMissing(x) ==
  /\ Call
  /\ store' = [store EXCEPT ![<<x, "id">>] = Cleared(@)]
  /\ life' = [life EXCEPT ![<<x, "id">>] = @ + 1]
  /\ UNCHANGED <<day, wants>>

\* clear: both InputData are cleared and the names forgotten.
Clear(x) ==
  /\ Call
  /\ store' = [store EXCEPT ![<<x, "id">>] = Cleared(@), ![<<x, "mid">>] = Cleared(@)]
  /\ life' = [life EXCEPT ![<<x, "id">>] = @ + 1, ![<<x, "mid">>] = @ + 1]
  /\ wants' = [wants EXCEPT ![x] = {}]
  /\ UNCHANGED day

Next ==
  \/ \E d \in Days :
       \/ BuildIndex(d)
       \/ Drop(d)
       \/ \E n \in {"a", "new"} : AddNewColumn(d, n)
       \/ \E dd \in Days : Merge(d, dd)
       \/ \E f \in DOMAIN Files, format \in Formats : Load(d, f, format)
  \/ \E x \in Readers :
       \/ Clear(x)
       \/ ReadMissing(x)
       \/ \E d \in Days, f \in DOMAIN Files :
            \/ \E format \in Formats : Read(x, d, f, format)
            \/ MergeRead(x, d, f)

Spec == Init /\ [][Next]_vars

------------------------------------------------------------------------------
(* Properties.                                                               *)

\* Each InputData keeps vectors it made, and each day the columns its x2data
\* names; the pointers of a day are into InputData objects that exist.
TypeOK ==
  /\ \A o \in Owners, k \in Kinds :
       /\ store[o].made[k] \in Nat
       /\ Range(store[o].live[k]) \cup Range(store[o].pool[k])
            \subseteq {<<k, i>> : i \in 1..store[o].made[k]}
       /\ \A c \in Range(store[o].cols) : c.vec \in Range(store[o].live[c.type])
  /\ \A d \in Days :
       /\ day[d].x2data \subseteq Names(day[d])
       /\ day[d].index \in DOMAIN Files \cup {NoIndex}
       /\ \A e \in Pointers(d) : e.owner \in Owners /\ e.vec \in DOMAIN store[e.owner].data
  /\ \A x \in Readers : wants[x] \subseteq Wanted
  /\ life \in [Owners -> 0..MaxCalls] /\ calls \in 0..MaxCalls

\* Whenever an InputData is destroyed, it deletes every vector it ever made, and
\* each of them once, however often it was cleared and refilled
\* (InputData::clear and the destructor, input_data.cpp:97-121).
DeletedOnce ==
  \A o \in Owners, k \in Kinds :
    LET gone == DeletedBy(store[o], k)
    IN /\ Len(gone) = store[o].made[k]
       /\ Range(gone) = {<<k, i>> : i \in 1..store[o].made[k]}

\* As long as the InputData a pointer of a day leads to has not been cleared, the
\* vector there shows what the read or merge that set the pointer put into it,
\* whatever was read, merged or added elsewhere since; and two such pointers of
\* a day never lead to one vector (the recycling of new_type_vec).
ColumnsTrue ==
  \A d \in Days :
    /\ \A e \in Pointers(d) : Current(e) => Shown(e) = e.shows
    /\ \A e, g \in Pointers(d) :
         Current(e) /\ Current(g) /\ <<e.owner, e.vec>> = <<g.owner, g.vec>> => e = g

\* No column name occurs twice in a day's xNames, whichever mix of read,
\* merge_read, merge and add_new_column filled it: the three that add to a
\* filled day each look for the name in their own way, in xNames or in x2data.
NamesDistinct ==
  \A d \in Days : \A i, j \in DOMAIN day[d].xs :
    day[d].xs[i].name = day[d].xs[j].name => i = j

\* "already find col %s in this" (input_data.cpp:56): a merge leaves the columns
\* that the day has as they were.
MergeKeepsColumns ==
  [][\A d, dd \in Days : Merge(d, dd) =>
       \A e \in Pointers(d) : store'[e.owner].data[e.vec] = Shown(e)]_vars
==============================================================================
