--------------------------- MODULE StackAllocator ---------------------------
(* StackAllocator of mem_pool.h: a buffer of capacity bytes and its top.     *)
(* live and marks are history: the blocks handed out that no deallocate or   *)
(* clear has taken back, as pairs <<first byte, size>>, and the markers the  *)
(* caller still keeps.  A marker may be old: it can lie above the top.       *)
EXTENDS Integers

CONSTANTS Capacity,  \* size given to init
          MaxBlock   \* bound: bytes of one request

VARIABLES capacity, top, live, marks
stackVars == <<capacity, top, live, marks>>

\* The default constructor: no buffer yet.
Init == capacity = 0 /\ top = 0 /\ live = {} /\ marks = {}

InitBuffer == /\ capacity = 0
              /\ capacity' = Capacity /\ top' = 0
              /\ UNCHANGED <<live, marks>>

MutAllocate(n) == /\ top <= capacity /\ capacity > 0
                  /\ top' = top + n
                  /\ live' = live \cup {<<top, n>>}
                  /\ UNCHANGED <<capacity, marks>>
\* A request that does not fit gets a null pointer and changes nothing.
Allocate(n) == /\ top + n <= capacity
               /\ top' = top + n
               /\ live' = live \cup {<<top, n>>}
               /\ UNCHANGED <<capacity, marks>>

Mark == /\ capacity > 0
        /\ marks' = marks \cup {top}
        /\ UNCHANGED <<capacity, top, live>>

\* The bytes from m on are free again; an old marker above the top moves the
\* top up over bytes nobody holds.
Deallocate(m) == /\ top' = m
                 /\ live' = {b \in live : b[1] + b[2] <= m}
                 /\ UNCHANGED <<capacity, marks>>

Clear == /\ top' = 0 /\ live' = {}
         /\ UNCHANGED <<capacity, marks>>

Next == \/ InitBuffer \/ Mark \/ Clear
        \/ \E n \in 1 .. MaxBlock : Allocate(n)
        \/ \E m \in marks : Deallocate(m)
-----------------------------------------------------------------------------
TypeOK == /\ capacity \in {0, Capacity} /\ top \in 0 .. capacity
          /\ live \subseteq (0 .. Capacity) \X (1 .. MaxBlock) /\ marks \subseteq 0 .. Capacity

(* Whatever markers, old ones too, are given back: the blocks the caller     *)
(* still holds lie below the top and apart from one another.                 *)
BlocksApart ==
    /\ \A b \in live : b[1] + b[2] <= top
    /\ \A b, c \in live : b = c \/ b[1] + b[2] <= c[1] \/ c[1] + c[2] <= b[1]
=============================================================================
