------------------------------- MODULE Pools --------------------------------
(* mem_pool.h.  A PoolHolder keeps one MemPool per thread; a MemPool hands   *)
(* out cells of chunks of PoolSize cells, counted down in the current chunk, *)
(* and chains the returned ones on a free list, last in first out.  A cell   *)
(* is a pair <<chunk, place in it>>, places counted from 1.                  *)
(* used is history: the cells handed out and not returned.                   *)
EXTENDS Integers, Sequences

CONSTANTS PoolSize,   \* MEM_POOL_SIZE
          Prepare,    \* _POOL_PREPARE_TIMES, chunks made by the constructor
          ThreadNum,  \* thread_num of the PoolHolder
          MaxChunks   \* bound: chunks of a pool

ASSUME PoolsAssumption ==
    PoolSize \in Nat \ {0} /\ Prepare \in Nat /\ MaxChunks \in Nat /\ Prepare <= MaxChunks /\ ThreadNum \in Int

VARIABLES cnt,     \* m_cnt: cells left in the current chunk
          chunks,  \* the number of chunks in m_barn
          free,    \* the free list, its head first
          used,
          held     \* the PoolHolder exists
poolVars == <<cnt, chunks, free, used, held>>

Threads == IF ThreadNum <= 0 THEN {0} ELSE 0 .. ThreadNum - 1
Cells == (1 .. MaxChunks) \X (1 .. PoolSize)

\* The constructor takes every cell of Prepare chunks and then returns them in
\* the order it got them, each chunk from the top down: the last is the head.
Prepared == [k \in 1 .. PoolSize * Prepare |->
                <<Prepare - ((k - 1) \div PoolSize), 1 + ((k - 1) % PoolSize)>>]

Init == /\ cnt = [t \in Threads |-> 0]
        /\ chunks = [t \in Threads |-> Prepare]
        /\ free = [t \in Threads |-> Prepared]
        /\ used = [t \in Threads |-> {}]
        /\ held = TRUE

\* placement_new_data: the next cell of chunk c, of which n cells are left.
FromChunk(t, n, c) ==
    /\ cnt' = [cnt EXCEPT ![t] = n - 1]
    /\ chunks' = [chunks EXCEPT ![t] = c]
    /\ used' = [used EXCEPT ![t] = @ \cup {<<c, n>>}]
    /\ UNCHANGED <<free, held>>

AllocateFromChunk(t) == cnt[t] > 0 /\ FromChunk(t, cnt[t], chunks[t])

MutAllocateFromFree(t) ==  \* m_free_list is not moved on
    /\ cnt[t] = 0 /\ free[t] # <<>>
    /\ used' = [used EXCEPT ![t] = @ \cup {Head(free[t])}]
    /\ UNCHANGED <<cnt, chunks, free, held>>
AllocateFromFree(t) ==
    /\ cnt[t] = 0 /\ free[t] # <<>>
    /\ used' = [used EXCEPT ![t] = @ \cup {Head(free[t])}]
    /\ free' = [free EXCEPT ![t] = Tail(@)]
    /\ UNCHANGED <<cnt, chunks, held>>

AllocateNewChunk(t) ==
    /\ cnt[t] = 0 /\ free[t] = <<>> /\ chunks[t] < MaxChunks
    /\ FromChunk(t, PoolSize, chunks[t] + 1)

Deallocate(t, d) ==
    /\ free' = [free EXCEPT ![t] = <<d>> \o @]
    /\ used' = [used EXCEPT ![t] = @ \ {d}]
    /\ UNCHANGED <<cnt, chunks, held>>

Destroy == /\ held' = FALSE
           /\ UNCHANGED <<cnt, chunks, free, used>>

Next == held /\ (Destroy \/ \E t \in Threads :
    \/ AllocateFromChunk(t) \/ AllocateFromFree(t) \/ AllocateNewChunk(t)
    \/ \E d \in used[t] : Deallocate(t, d))

PoolsSpec == Init /\ [][Next]_poolVars
-----------------------------------------------------------------------------
TypeOK == /\ cnt \in [Threads -> 0 .. PoolSize]
          /\ chunks \in [Threads -> 0 .. MaxChunks]
          /\ free \in [Threads -> Seq(Cells)]
          /\ used \in [Threads -> SUBSET Cells]
          /\ held \in BOOLEAN

Chain(t) == {free[t][k] : k \in 1 .. Len(free[t])}

\* The cells that have been counted out of their chunk.
Issued(t) == {c \in Cells : c[1] < chunks[t] \/ (c[1] = chunks[t] /\ c[2] > cnt[t])}

InOnePlace(t) ==
    /\ used[t] \cap Chain(t) = {}
    /\ used[t] \cup Chain(t) = Issued(t)
    /\ \A j, k \in 1 .. Len(free[t]) : free[t][j] = free[t][k] => j = k

(* Each cell that was counted out is in exactly one place, once: with one    *)
(* caller or on the free list.  So no two callers share a cell, no cell is   *)
(* lost, and a new chunk is made only when every cell is in use.             *)
NoDoubleHand == \A t \in Threads : InOnePlace(t)
=============================================================================
