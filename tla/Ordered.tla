------------------------------- MODULE Ordered -------------------------------
(* The components that keep data in an order, side by side, each with its    *)
(* own state: TapList its elements, gz.h the records and lines of a file,    *)
(* merge_read the rows of a table.                                           *)
EXTENDS Integers, Sequences

CONSTANTS
    Size, MaxBlocks, Value,                                            \* TapList
    Len1, Len2, MaxRecords, Texts,                                     \* Gz
    Days, Configs                                                      \* MergeRead

\* PrepareVec links the cells 0, 1, m_size - 2 and m_size - 1 of a block.
ASSUME TapAssumption == Size \in Nat /\ Size >= 2 /\ MaxBlocks \in Nat \ {0}
ASSUME GzAssumption == Len2 \in Nat /\ Texts \subseteq Seq({"c", "cr", "nl"})

VARIABLES
    list, iter, contents, place, lost, leaked,                         \* TapList
    writer, disk, given, upset, reader, taken, text, whole,            \* Gz
    config, entry, day, first, rows, index, names, feats, outcome      \* MergeRead

tapVars == <<list, iter, contents, place, lost, leaked>>
gzVars == <<writer, disk, given, upset, reader, taken, text, whole>>
mergeVars == <<config, entry, day, first, rows, index, names, feats, outcome>>

Ring == INSTANCE TapList
Zip == INSTANCE Gz
Merge == INSTANCE MergeRead

\* merge_read refuses a range without trading dates.  An entry puts one prefix
\* and one suffix around the names of its columns.
ASSUME MergeAssumption ==
    /\ Days \in Seq(Merge!ToSet(Days)) /\ Days # <<>>
    /\ \A c \in Configs :
         /\ c \in Seq(Merge!ToSet(c))
         /\ \A e \in DOMAIN c :
              /\ \A x, y \in DOMAIN c[e].name : c[e].name[x] = c[e].name[y] => x = y
              /\ \A d \in Merge!ToSet(Days) :
                   /\ c[e].file[d].rows \in Seq(Merge!ToSet(c[e].file[d].rows))
                   /\ c[e].file[d].cols \in Seq(Merge!ToSet(c[e].file[d].cols))

RingSpec == Ring!Init /\ [][Ring!Next]_tapVars
GzSpec == Zip!Init /\ [][Zip!Next]_gzVars
MergeSpec == Merge!Init /\ [][Merge!Next]_mergeVars
-----------------------------------------------------------------------------
(* TapList: while it keeps its ring, it holds what a std::list would, and an *)
(* iterator taken before a block was linked in still stands on its element.  *)
MirrorsList == Ring!MirrorsList

(* gz.h: what was given to a writer arrives in order and once, and a reader  *)
(* hands out the file's records, or the lines of its text.                   *)
NothingLost == Zip!NothingLost

(* merge_read: a column has its entry's value in every row that entry knows. *)
MergeTrue == Merge!MergeTrue
=============================================================================
