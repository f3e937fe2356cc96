---------------------------- MODULE MCComponents ----------------------------
(* Components and the Archiver, each explored by itself in one run: which    *)
(* chooses one, and the others rest.                                         *)
EXTENDS Components, Ordered, TLC

VARIABLES which,
    sample, object, file, buffer, stage, meant, answer                 \* Archiver

archiveVars == <<sample, object, file, buffer, stage, meant, answer>>

\* Archiver: one type for each way of writing, and some in one another; a
\* stack, an array and a class within a map or a class.
Prim(w) == [kind |-> "prim", width |-> w]
Of(k, t) == [kind |-> k, of |-> t]
Class(ts) == [kind |-> "object", members |-> ts]
Values(t, vs) == [type |-> t, values |-> vs]
\* Values whose bytes an int does not count: a negative total, one too small, a
\* right one of a file too long to load.
Ones(n) == [i \in 1 .. n |-> 1]
SampleTypes == <<
    Values(Prim(4), {1, 2}),
    Values(Of("vector", Prim(2)), {<<>>, <<1>>, <<2, 1, 2>>, Ones(15), Ones(32)}),
    Values(Of("deque", Prim(1)), {<<>>, <<1, 2>>}),
    Values(Of("stack", Prim(1)), {<<>>, <<1, 2>>, <<3, 1, 2>>}),
    Values(Of("set", Prim(1)), {<<>>, <<2, 1>>}),
    Values(Class(<<>>), {<<>>}),
    Values(Class(<<Class(<<Prim(1)>>), [kind |-> "array", of |-> Prim(2), n |-> 2], [kind |-> "string"]>>),
           {<< <<1>>, <<3, 2>>, <<>> >>, << <<2>>, <<2, 2>>, <<5, 6>> >>}),
    Values([kind |-> "map", key |-> Prim(1), of |-> Of("stack", Of("list", Prim(1)))],
           {<<>>, << <<1, << <<>>, <<1, 2>> >> >>, <<2, <<>> >> >>, << <<3, << <<4>>, <<1>> >> >> >>}),
    Values(Of("vector", Of("vector", Prim(2))), {<<>>, << <<>> >>, << <<1>>, <<2, 3>> >>, <<Ones(8), Ones(8)>>}) >>

\* Gz: a carriage return within a line, empty lines, a last line without end.
MCTexts == {<<"c", "cr", "nl", "nl", "c">>, <<"c", "nl", "c", "c", "cr", "nl">>}

\* Calendar: no line, sorted days, a header and unsorted days, days to add, a
\* blank line in between, one day.
MCFiles == {<<>>, <<1, 3>>, <<-1, 5, 2>>, <<4, 6>>, <<5, 0, 1>>, <<7>>}

\* MergeRead: entries with the columns x and y, renamed or not, in files with
\* the rows of a day in any order, twice, missing, or without a column, or
\* with one twice.
TableFile(r, c) == [rows |-> r, cols |-> c]
Entry(n, f1, f2) == [enable |-> TRUE, format |-> "csv", name |-> n, file |-> [d1 |-> f1, d2 |-> f2]]
XY == [x |-> "x", y |-> "y"]
PX == [x |-> "px", y |-> "py"]
JustX == "x" :> "x"
Entries == {
    Entry(XY, TableFile(<<1, 2>>, <<"x", "y">>), TableFile(<<4, 3>>, <<"y", "x">>)),
    Entry(JustX, TableFile(<<2, 1>>, <<"x", "y">>), TableFile(<<3>>, <<"x">>)),
    Entry(XY, TableFile(<<1>>, <<"x">>), TableFile(<<2>>, <<"x", "y">>)),
    Entry(PX, TableFile(<<2, 5, 1>>, <<"y", "x">>), TableFile(<<3, 1>>, <<"x", "y">>)),
    Entry(PX, TableFile(<<5>>, <<"y">>), TableFile(<<5, 3>>, <<"y", "x">>)),
    Entry(XY, TableFile(<<1>>, <<"x", "y">>), TableFile(<<1, 2>>, <<"x", "y">>)),
    Entry("px" :> "px", TableFile(<<2, 2>>, <<"px">>), TableFile(<<3>>, <<"z", "px">>)),
    Entry(XY, TableFile(<<1>>, <<"x", "y">>), TableFile(<<3, 2>>, <<"y", "x", "y">>)),
    [Entry(XY, TableFile(<<1>>, <<"x">>), TableFile(<<2>>, <<"x">>)) EXCEPT !.enable = FALSE],
    Entry(JustX, TableFile(<<1>>, <<"x">>), TableFile(<<>>, <<>>)),
    [Entry(JustX, TableFile(<<1>>, <<"x">>), TableFile(<<2>>, <<"x">>)) EXCEPT !.format = "json"]}
MCConfigs == UNION {[1 .. n -> Entries] : n \in 1 .. 3}

\* TableFiles: numbers of few and of many digits, NaN, text and unknown types.
Col(n, t, r) == [name |-> n, type |-> t, rows |-> r]
MCTables == {
    <<Col("ukey", 3, <<"num", "long">>), Col("x", 1, <<"num", "long">>)>>,
    <<Col("x", 1, <<"num", "frac">>), Col("ticktime", 1, <<"frac", "num">>), Col("y", 2, <<"nan", "long">>), Col("t", 4, <<"word", "">>)>>,
    <<Col("n", 3, <<"long">>), Col("b", 5, <<"num">>), Col("u", 6, <<"long">>), Col("ukey", 4, <<"digits">>)>>,
    <<Col("DataDate", 4, <<"word">>), Col("x", 1, <<"num">>)>>,
    <<Col("x", 1, <<"nan">>), Col("?", 7, <<"num">>)>>}

\* Clock: a weekend between, and lists that begin and end inside of the days.
MCWeekdays == <<-1, 0, 1, 2, 5, 6, 7, 8, 9>>
MCLists == {<<>>, <<2>>, <<1, 2, 5, 6, 7>>}
MCDates == 1 .. 7
\* PidFile: two programs with one command line, one with another, a stranger.
MCCmdline == [p1 |-> "a", p2 |-> "a", p3 |-> "b", s |-> "c"]
MCDays == <<"d1", "d2">>

Archive == INSTANCE Archiver WITH SizeT <- 2, IntMax <- 31, Samples <- SampleTypes

Components == {"Pools", "TapList", "StackAllocator", "EventBus", "Archiver", "Clock", "Calendar", "Gz", "Admin",
               "PidFile", "MergeRead", "TableFiles"}

AllInit == /\ which \in Components
           /\ Init /\ Ring!Init /\ Stack!Init /\ Bus!Init /\ Archive!Init /\ Trading!Init /\ Business!Init
           /\ Zip!Init /\ Mailbox!Init /\ Instances!Init /\ Merge!Init /\ TableStore!Init

Only(c) == /\ which = c /\ UNCHANGED which
           /\ c # "Pools" => UNCHANGED poolVars
           /\ c # "TapList" => UNCHANGED tapVars
           /\ c # "StackAllocator" => UNCHANGED stackVars
           /\ c # "EventBus" => UNCHANGED busVars
           /\ c # "Archiver" => UNCHANGED archiveVars
           /\ c # "Clock" => UNCHANGED clockVars
           /\ c # "Calendar" => UNCHANGED calendarVars
           /\ c # "Gz" => UNCHANGED gzVars
           /\ c # "Admin" => UNCHANGED adminVars
           /\ c # "PidFile" => UNCHANGED pidVars
           /\ c # "MergeRead" => UNCHANGED mergeVars
           /\ c # "TableFiles" => UNCHANGED tableVars

AllNext == \/ Only("Pools") /\ Next
           \/ Only("TapList") /\ Ring!Next
           \/ Only("StackAllocator") /\ Stack!Next
           \/ Only("EventBus") /\ Bus!Next
           \/ Only("Archiver") /\ Archive!Next
           \/ Only("Clock") /\ Trading!Next
           \/ Only("Calendar") /\ Business!Next
           \/ Only("Gz") /\ Zip!Next
           \/ Only("Admin") /\ Mailbox!Next
           \/ Only("PidFile") /\ Instances!Next
           \/ Only("MergeRead") /\ Merge!Next
           \/ Only("TableFiles") /\ TableStore!Next

AllVars == <<which, poolVars, tapVars, stackVars, busVars, archiveVars, clockVars,
             calendarVars, gzVars, adminVars, pidVars, mergeVars, tableVars>>
ComponentsSpec == AllInit /\ [][AllNext]_AllVars
-----------------------------------------------------------------------------
(* Each component's type invariant.                                          *)
ComponentsTypeOK ==
    /\ TypeOK /\ Ring!TypeOK /\ Stack!TypeOK /\ Bus!TypeOK /\ Archive!TypeOK /\ Trading!TypeOK
    /\ Business!TypeOK /\ Zip!TypeOK /\ Mailbox!TypeOK /\ Instances!TypeOK /\ Merge!TypeOK /\ TableStore!TypeOK

(* Archiver: sizer, writer and reader agree on every kind of type, and a     *)
(* whole file gives back the value it was saved for.                         *)
CheckpointRestores == Archive!CheckpointRestores
=============================================================================
