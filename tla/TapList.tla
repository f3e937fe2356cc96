------------------------------ MODULE TapList -------------------------------
(* TapList<T, Size> of taplist.h: a ring of cells, of which those from tail  *)
(* to head hold the list.  When the ring is full, extend() links a new block *)
(* of Size cells between head and tail.  A cell is a number, the block's     *)
(* cells follow one another; Past is the address one past a block's end.     *)
(* contents, place and lost are history: the list a std::list would hold,    *)
(* the index the caller's iterator has in it (BeforeBegin: rend()), and      *)
(* whether the list has followed a pointer out of its blocks, gone back to a *)
(* cell that is no longer on its ring or let its head take over a neighbour  *)
(* its cell no longer has, after which it promises nothing.                  *)
(* An iterator at the end stands on the cell after the last one, which a     *)
(* later push_front may take, and rend() on the cell before the first, which *)
(* push_back may take: the caller then has no iterator any more.             *)
EXTENDS Integers, Sequences

CONSTANTS Size,       \* InitSize, the cells of a block
          MaxBlocks,  \* bound: blocks allocated
          Value

VARIABLES list, iter, contents, place, lost, leaked

tapVars == <<list, iter, contents, place, lost, leaked>>

Alive == -1  \* leaked, before the destructor has run

Past == -1
None == -2         \* the caller has no iterator
BeforeBegin == -1  \* the index of rend()
Cell == 0 .. Size * MaxBlocks - 1
\* An iterator caches the neighbours its cell had when it got there.
At(l, c) == [data |-> c, prev |-> IF c = Past THEN Past ELSE l.prev[c],
                         next |-> IF c = Past THEN Past ELSE l.next[c]]

\* PrepareVec(s, e, vec) on the block that starts at cell v.
Prepared(l, s, e, v) ==
    [l EXCEPT !.next = [c \in Cell |-> IF c \notin v .. v + Size - 1 THEN @[c]
                                       ELSE IF c = v + Size - 1 THEN e ELSE c + 1],
              !.prev = [c \in Cell |-> IF c \notin v .. v + Size - 1 THEN @[c]
                                       ELSE IF c = v THEN s ELSE c - 1]]

\* steal and the constructor: one block that is a ring of its own.
Ring(l) == LET r == Prepared(l, Size - 1, 0, 0)
           IN [r EXCEPT !.head = At(r, 0), !.tail = At(r, 0)]

MutExtend(l) ==  \* head.data->next is not stored
    LET v == l.blocks * Size
        r == Prepared(l, l.head.data, l.tail.data, v)
    IN [r EXCEPT !.blocks = @ + 1, !.head.next = v, !.tail.prev = Past, !.prev[l.tail.data] = Past]
Extend(l) ==
    LET v == l.blocks * Size
        r == Prepared(l, l.head.data, l.tail.data, v)
    IN [r EXCEPT !.blocks = @ + 1, !.head.next = v, !.next[l.head.data] = v,
                 !.tail.prev = Past, !.prev[l.tail.data] = Past]

\* operator++ and operator--: the list may be extended on the way.
Forward(l, i) == LET r == IF i.next = l.tail.data THEN Extend(l) ELSE l
                 IN [list |-> r, iter |-> At(r, r.next[i.data])]
Backward(l, i) == LET r == IF i.prev = l.head.data THEN Extend(l) ELSE l
                  IN [list |-> r, iter |-> At(r, r.prev[i.data])]

Full(l) == l.head.next = l.tail.data

Init ==
    /\ list = Ring([next |-> [c \in Cell |-> 0], prev |-> [c \in Cell |-> 0], val |-> [c \in Cell |-> 0],
                    blocks |-> 1, num |-> 0, stolen |-> FALSE, head |-> 0, tail |-> 0])
    /\ iter = At(list, 0)
    /\ contents = <<>> /\ place = None /\ lost = FALSE /\ leaked = {Alive}

\* The guard every call shares: the list is alive and its pointers are sound.
Usable == ~lost /\ leaked = {Alive} /\ list.blocks < MaxBlocks

Put(l, end, v) ==
    IF end.data = Past
    THEN /\ lost' = TRUE
         /\ UNCHANGED <<list, leaked>>
    ELSE /\ list' = [l EXCEPT !.num = @ + 1, !.val[end.data] = v]
         /\ UNCHANGED <<lost, leaked>>

PushBack(v) ==
    /\ Usable
    /\ LET e == IF list.num > 0 /\ Full(list) THEN Extend(list) ELSE list
           f == Forward(e, e.head)
           l == IF list.num > 0 THEN [f.list EXCEPT !.head = f.iter] ELSE list
       IN Put(l, l.head, v)
    /\ contents' = Append(contents, v)
    /\ place' = IF place = BeforeBegin THEN None ELSE place
    /\ UNCHANGED iter

PushFront(v) ==
    /\ Usable
    /\ LET e == IF list.num > 0 /\ Full(list) THEN Extend(list) ELSE list
           b == Backward(e, e.tail)
           l == IF list.num > 0 THEN [b.list EXCEPT !.tail = b.iter] ELSE list
       IN Put(l, l.tail, v)
    /\ contents' = <<v>> \o contents
    /\ place' = IF place = list.num /\ place > 0 THEN None
                ELSE IF place \in BeforeBegin .. list.num - 1 THEN place + 1 ELSE place
    /\ UNCHANGED iter

PopFront ==
    /\ Usable /\ list.num > 0
    /\ LET f == Forward(list, list.tail)
           l == IF list.tail.data # list.head.data THEN [f.list EXCEPT !.tail = f.iter] ELSE list
       IN list' = [l EXCEPT !.num = @ - 1]
    /\ contents' = Tail(contents)
    /\ place' = IF list.num = 1 \/ place <= 0 THEN None ELSE place - 1
    /\ UNCHANGED <<iter, lost, leaked>>

\* The iterator a caller asks for; end() extends a full list.
TakeIter(l, i, p) ==
    /\ Usable
    /\ IF i.data = Past THEN lost' = TRUE /\ UNCHANGED <<list, iter, place>>
       ELSE list' = l /\ iter' = i /\ place' = p /\ UNCHANGED lost
    /\ UNCHANGED <<contents, leaked>>
Begin == TakeIter(list, list.tail, 0)
RBegin == TakeIter(list, list.head, IF list.num = 0 THEN 0 ELSE list.num - 1)
End == IF list.num = 0 THEN TakeIter(list, list.head, 0)
       ELSE LET l == IF Full(list) THEN Extend(list) ELSE list
            IN TakeIter(l, At(l, l.head.next), list.num)
REnd == IF list.num = 0 THEN TakeIter(list, list.head, 0)
        ELSE LET l == IF list.tail.prev = list.head.data THEN Extend(list) ELSE list
             IN TakeIter(l, At(l, l.tail.prev), BeforeBegin)
Increment == /\ place \in 0 .. list.num - 1
             /\ LET f == Forward(list, iter) IN TakeIter(f.list, f.iter, place + 1)
Decrement == /\ place >= 0 /\ list.num > 0
             /\ LET b == Backward(list, iter) IN TakeIter(b.list, b.iter, place - 1)

\* The cells from tail on, along next; and from head back, along prev.
Ahead(l) == LET f[k \in 0 .. Size * MaxBlocks] == IF k = 0 THEN l.tail.data ELSE l.next[f[k - 1]] IN f
Behind(l) == LET f[k \in 0 .. l.num] ==
                   IF k = 0 THEN l.head.data ELSE IF f[k - 1] = Past THEN Past ELSE l.prev[f[k - 1]] IN f

\* On an empty list the head becomes the tail as it was cached.
EraseFromBegin ==
    /\ Usable /\ place >= 0
    /\ LET t == IF place = 0 THEN list.tail ELSE At(list, Ahead(list)[place])
       IN list' = [list EXCEPT !.num = @ - place, !.tail = t,
                               !.head = IF place = list.num THEN t ELSE @]
    /\ lost' = (list.num = 0 /\ list.tail.next # list.next[list.tail.data])
    /\ contents' = SubSeq(contents, place + 1, Len(contents))
    /\ place' = 0
    /\ UNCHANGED <<iter, leaked>>

\* Up to rend() nothing is left, nor is it of an empty list: there, too, the
\* head becomes the tail as it was cached.
EraseFromEnd ==
    /\ Usable /\ place >= BeforeBegin /\ (place < list.num \/ list.num = 0)
    /\ LET n == IF list.num = 0 THEN 0 ELSE list.num - 1 - place
           h == Behind(list)[n]
       IN /\ IF h = Past THEN lost' = TRUE /\ UNCHANGED list
             ELSE /\ list' = [list EXCEPT !.num = @ - n,
                                          !.head = IF n = list.num THEN list.tail ELSE IF n = 0 THEN @ ELSE At(list, h)]
                  /\ lost' = (n = list.num /\ list.tail.next # list.next[list.tail.data])
          /\ contents' = SubSeq(contents, 1, list.num - n)
    /\ place' = IF place = BeforeBegin THEN None ELSE place
    /\ UNCHANGED <<iter, leaked>>

\* clear() goes back to the first block's first cell, on the ring or not.
Clear ==
    /\ Usable
    /\ lost' = (\A k \in DOMAIN Ahead(list) : Ahead(list)[k] # 0)
    /\ list' = [list EXCEPT !.head = At(list, 0), !.tail = At(list, 0), !.num = 0]
    /\ contents' = <<>> /\ place' = None
    /\ UNCHANGED <<iter, leaked>>

\* steal keeps m_num, so the caller does it on an empty list.
Steal ==
    /\ Usable /\ list.num = 0
    /\ list' = [Ring(list) EXCEPT !.stolen = TRUE]
    /\ place' = None
    /\ UNCHANGED <<iter, contents, lost, leaked>>

\* ~TapList frees vecs[0], unless it was stolen, and vecs[i] for 0 < i < m_block_num:
\* the last block that extend() allocated, vecs[m_block_num], is never freed.
Destroy == /\ ~lost /\ leaked = {Alive}
           /\ leaked' = {list.blocks - 1} \ {0}
           /\ UNCHANGED <<list, iter, contents, place, lost>>

Next ==
    \/ \E v \in Value : PushBack(v) \/ PushFront(v)
    \/ PopFront \/ Begin \/ RBegin \/ End \/ REnd \/ Increment \/ Decrement
    \/ EraseFromBegin \/ EraseFromEnd \/ Clear \/ Steal \/ Destroy

-----------------------------------------------------------------------------
TypeOK ==
    /\ list.num \in Nat /\ list.blocks \in 1 .. MaxBlocks
    /\ list.head.data \in Cell /\ list.tail.data \in Cell
    /\ contents \in Seq(Value) /\ place \in None .. list.num
    /\ lost \in BOOLEAN /\ leaked \subseteq -1 .. MaxBlocks

(* Whatever the order of calls, as long as the list has not lost its ring    *)
(* the cells from tail to head hold what a std::list would, and an iterator  *)
(* the caller took earlier still stands on its element (or on the cell the   *)
(* next element will get), although blocks were linked in and its cached     *)
(* neighbours are old; rend() stands before the first and on none of them.   *)
MirrorsList ==
    ~lost => /\ list.num = Len(contents)
             /\ list.num > 0 => list.head.data = Ahead(list)[list.num - 1]
             /\ \A k \in 1 .. list.num : list.val[Ahead(list)[k - 1]] = contents[k]
             /\ place >= 0 => iter.data = Ahead(list)[place]
             /\ place = BeforeBegin => /\ iter.data = list.prev[list.tail.data]
                                       /\ \A k \in 1 .. list.num : iter.data # Ahead(list)[k - 1]

(* The list stands in for std::list (its comment), so no legal call may take *)
(* it out of the blocks it allocated or off its ring.                        *)
KeepsItsRing == ~lost
=============================================================================
