--------------------------- MODULE ComponentsProofs ---------------------------
(* The components for every value of their constants.  The proofs about      *)
(* those that keep data in an order are OrderedProofs.                       *)
EXTENDS Components, SequenceTheorems, FiniteSetTheorems, WellFoundedInduction, TLAPS

-----------------------------------------------------------------------------
(* MemPool for every size of a chunk, number of prepared chunks and number   *)
(* of threads: no cell is ever with two callers, or with one and free, and   *)
(* none is lost.                                                             *)

\* A pool whose current chunk has cells left has a current chunk.
CurrentChunk == \A t \in Threads : cnt[t] > 0 => chunks[t] > 0

PoolsInv == TypeOK /\ CurrentChunk /\ NoDoubleHand

\* Division with a remainder, and that it is unique.
LEMMA Divides ==
  ASSUME NEW a \in Nat, NEW p \in Nat \ {0}
  PROVE /\ a \div p \in Nat /\ a % p \in 0 .. p - 1
        /\ a = p * (a \div p) + (a % p)
  OBVIOUS

LEMMA Smaller ==
  ASSUME NEW p \in Nat \ {0}, NEW m \in Nat, NEW q \in Nat, NEW r \in 0 .. p - 1, p * q + r < p * m
  PROVE q < m
<1>1. SUFFICES ASSUME q >= m PROVE FALSE
  OBVIOUS
<1>2. p * q >= p * m
  <2>1. PICK d \in Nat : q = m + d
    <3>1. q - m \in Nat /\ q = m + (q - m)
      BY <1>1
    <3> QED BY <3>1
  <2>2. p * q = p * m + p * d
    BY <2>1
  <2>3. p * d >= 0
    OBVIOUS
  <2> QED BY <2>2, <2>3
<1> QED BY <1>2

LEMMA Larger ==
  ASSUME NEW p \in Nat \ {0}, NEW m \in Nat, NEW q \in Nat, NEW r \in 0 .. p - 1, q < m
  PROVE p * q + r < p * m
<1>1. PICK d \in Nat : m = q + 1 + d
  <2>1. m - q - 1 \in Nat /\ m = q + 1 + (m - q - 1)
    OBVIOUS
  <2> QED BY <2>1
<1>2. p * m = p * q + p + p * d
  BY <1>1
<1>3. p * d >= 0
  OBVIOUS
<1> QED BY <1>2, <1>3

LEMMA Quotient ==
  ASSUME NEW p \in Nat \ {0}, NEW m \in Nat, NEW r \in 0 .. p - 1
  PROVE (p * m + r) \div p = m /\ (p * m + r) % p = r
<1> DEFINE a == p * m + r
           q == a \div p
           s == a % p
<1>1. a \in Nat
  OBVIOUS
<1>2. q \in Nat /\ s \in 0 .. p - 1 /\ a = p * q + s
  BY <1>1, Divides
<1>3. ~(q < m)
  <2>1. SUFFICES ASSUME q < m PROVE FALSE
    OBVIOUS
  <2> HIDE DEF q, s
  <2>2. p * q + s < p * m
    BY <2>1, <1>2, Larger
  <2> QED BY <2>2, <1>2
<1>4. ~(m < q)
  <2>1. SUFFICES ASSUME m < q PROVE FALSE
    OBVIOUS
  <2> HIDE DEF q, s
  <2>2. p * m + r < p * q
    BY <2>1, <1>2, Larger
  <2> QED BY <2>2, <1>2
<1>5. q = m
  BY <1>2, <1>3, <1>4
<1>6. s = r
  <2> HIDE DEF q, s
  <2> QED BY <1>2, <1>5
<1> QED BY <1>5, <1>6
-----------------------------------------------------------------------------
LEMMA CellPair ==
  ASSUME NEW c \in Cells
  PROVE c[1] \in 1 .. MaxChunks /\ c[2] \in 1 .. PoolSize /\ c = <<c[1], c[2]>>
  BY DEF Cells

\* The free list after the constructor: each cell of the first Prepare chunks
\* once.
LEMMA PreparedCells ==
  /\ Prepared \in Seq(Cells) /\ Len(Prepared) = PoolSize * Prepare
  /\ {Prepared[k] : k \in 1 .. Len(Prepared)} = (1 .. Prepare) \X (1 .. PoolSize)
  /\ \A j, k \in 1 .. Len(Prepared) : Prepared[j] = Prepared[k] => j = k
<1> USE PoolsAssumption
<1> DEFINE n == PoolSize * Prepare
           q(k) == (k - 1) \div PoolSize
           s(k) == (k - 1) % PoolSize
<1>1. n \in Nat
  OBVIOUS
<1>2. ASSUME NEW k \in 1 .. n
      PROVE /\ q(k) \in 0 .. Prepare - 1 /\ s(k) \in 0 .. PoolSize - 1
            /\ k - 1 = PoolSize * q(k) + s(k)
  <2>1. k - 1 \in Nat
    BY <1>1
  <2>2. q(k) \in Nat /\ s(k) \in 0 .. PoolSize - 1 /\ k - 1 = PoolSize * q(k) + s(k)
    BY <2>1, Divides
  <2> HIDE DEF q, s
  <2>3. PoolSize * q(k) + s(k) < PoolSize * Prepare
    BY <2>2, <1>1
  <2>4. q(k) < Prepare
    BY <2>2, <2>3, Smaller
  <2> QED BY <2>2, <2>4
<1>3. Prepared = [k \in 1 .. n |-> <<Prepare - q(k), 1 + s(k)>>]
  BY DEF Prepared
<1> HIDE DEF q, s
<1>4. \A k \in 1 .. n : <<Prepare - q(k), 1 + s(k)>> \in (1 .. Prepare) \X (1 .. PoolSize)
  BY <1>2
<1>5. (1 .. Prepare) \X (1 .. PoolSize) \subseteq Cells
  BY DEF Cells
<1>6. Prepared \in [1 .. n -> Cells]
  BY <1>3, <1>4, <1>5
<1> HIDE DEF n
<1>7. Prepared \in Seq(Cells) /\ Len(Prepared) = n
  BY <1>6, <1>1
<1>8. ASSUME NEW a \in 1 .. Prepare, NEW b \in 1 .. PoolSize
      PROVE \E k \in 1 .. n : Prepared[k] = <<a, b>>
  <2> DEFINE k == PoolSize * (Prepare - a) + (b - 1) + 1
  <2>1. Prepare - a \in Nat /\ Prepare - a < Prepare /\ b - 1 \in 0 .. PoolSize - 1
    OBVIOUS
  <2>2. PoolSize * (Prepare - a) + (b - 1) < n
    BY <2>1, Larger DEF n
  <2>3. PoolSize * (Prepare - a) \in Nat
    BY <2>1
  <2>4. k \in 1 .. n /\ k - 1 = PoolSize * (Prepare - a) + (b - 1)
    BY <1>1, <2>1, <2>2, <2>3
  <2>5. (k - 1) \div PoolSize = Prepare - a /\ (k - 1) % PoolSize = b - 1
    BY <2>1, <2>4, Quotient, ZenonT(60)
  <2>6. q(k) = Prepare - a /\ s(k) = b - 1
    BY <2>5 DEF q, s
  <2> HIDE DEF k
  <2>7. Prepared[k] = <<Prepare - q(k), 1 + s(k)>>
    BY <1>3, <2>4
  <2> QED BY <2>4, <2>6, <2>7
<1>9. {Prepared[k] : k \in 1 .. n} = (1 .. Prepare) \X (1 .. PoolSize)
  <2>1. ASSUME NEW k \in 1 .. n PROVE Prepared[k] \in (1 .. Prepare) \X (1 .. PoolSize)
    <3>1. Prepared[k] = <<Prepare - q(k), 1 + s(k)>>
      BY <1>3
    <3> QED BY <3>1, <1>4
  <2>2. ASSUME NEW c \in (1 .. Prepare) \X (1 .. PoolSize)
        PROVE \E k \in 1 .. n : c = Prepared[k]
    <3>1. PICK a \in 1 .. Prepare, b \in 1 .. PoolSize : c = <<a, b>>
      OBVIOUS
    <3> QED BY <3>1, <1>8
  <2> QED BY <2>1, <2>2
<1>10. ASSUME NEW j \in 1 .. n, NEW k \in 1 .. n, Prepared[j] = Prepared[k]
       PROVE j = k
  <2>1. Prepare - q(j) = Prepare - q(k) /\ 1 + s(j) = 1 + s(k)
    BY <1>3, <1>10
  <2>2. q(j) = q(k) /\ s(j) = s(k)
    BY <1>2, <2>1
  <2> QED BY <1>2, <2>2, <1>1
<1> QED BY <1>7, <1>9, <1>10 DEF n

LEMMA InitInv == Init => PoolsInv
<1> SUFFICES ASSUME Init PROVE PoolsInv
  OBVIOUS
<1> USE PoolsAssumption DEF Init
<1>1. TypeOK
  BY PreparedCells DEF TypeOK
<1>2. CurrentChunk
  BY DEF CurrentChunk
<1>3. ASSUME NEW t \in Threads PROVE InOnePlace(t)
  <2>1. free[t] = Prepared /\ used[t] = {} /\ chunks[t] = Prepare /\ cnt[t] = 0
    OBVIOUS
  <2>2. Chain(t) = (1 .. Prepare) \X (1 .. PoolSize)
    BY <2>1, PreparedCells DEF Chain
  <2>3. Issued(t) = (1 .. Prepare) \X (1 .. PoolSize)
    <3>1. ASSUME NEW c \in Cells
          PROVE c \in Issued(t) <=> c \in (1 .. Prepare) \X (1 .. PoolSize)
      BY <2>1, CellPair DEF Issued
    <3>2. Issued(t) \subseteq Cells /\ (1 .. Prepare) \X (1 .. PoolSize) \subseteq Cells
      BY DEF Issued, Cells
    <3> QED BY <3>1, <3>2
  <2> QED BY <2>1, <2>2, <2>3, PreparedCells DEF InOnePlace
<1> QED BY <1>1, <1>2, <1>3 DEF PoolsInv, NoDoubleHand
-----------------------------------------------------------------------------
\* What a step that takes, or gives back, a cell does to the list of the free.
LEMMA TailChain ==
  ASSUME NEW f \in Seq(Cells), f # <<>>,
         \A j, k \in 1 .. Len(f) : f[j] = f[k] => j = k
  PROVE /\ Tail(f) \in Seq(Cells) /\ Head(f) \in Cells
        /\ {Tail(f)[k] : k \in 1 .. Len(Tail(f))} = {f[k] : k \in 1 .. Len(f)} \ {Head(f)}
        /\ \A j, k \in 1 .. Len(Tail(f)) : Tail(f)[j] = Tail(f)[k] => j = k
<1>1. /\ Tail(f) \in Seq(Cells) /\ Head(f) \in Cells /\ Head(f) = f[1] /\ Len(f) \in Nat \ {0}
      /\ Len(Tail(f)) = Len(f) - 1
      /\ \A k \in 1 .. Len(f) - 1 : Tail(f)[k] = f[k + 1]
  OBVIOUS
<1>2. \A k \in 1 .. Len(f) - 1 : k + 1 \in 1 .. Len(f) /\ f[k + 1] # f[1]
  BY <1>1
<1>3. ASSUME NEW k \in 1 .. Len(f), f[k] # f[1]
      PROVE \E j \in 1 .. Len(f) - 1 : Tail(f)[j] = f[k]
  <2>1. k - 1 \in 1 .. Len(f) - 1 /\ (k - 1) + 1 = k
    BY <1>1, <1>3
  <2> QED BY <1>1, <2>1
<1>4. {Tail(f)[k] : k \in 1 .. Len(Tail(f))} = {f[k] : k \in 1 .. Len(f)} \ {Head(f)}
  BY <1>1, <1>2, <1>3
<1>5. ASSUME NEW j \in 1 .. Len(Tail(f)), NEW k \in 1 .. Len(Tail(f)), Tail(f)[j] = Tail(f)[k]
      PROVE j = k
  BY <1>1, <1>2, <1>5
<1> QED BY <1>1, <1>4, <1>5

LEMMA ConsChain ==
  ASSUME NEW f \in Seq(Cells), NEW d \in Cells, NEW g, g = <<d>> \o f,
         \A k \in 1 .. Len(f) : f[k] # d,
         \A j, k \in 1 .. Len(f) : f[j] = f[k] => j = k
  PROVE /\ g \in Seq(Cells)
        /\ \A k \in 1 .. Len(g) : g[k] = d \/ \E j \in 1 .. Len(f) : g[k] = f[j]
        /\ \A j \in 1 .. Len(f) : \E k \in 1 .. Len(g) : g[k] = f[j]
        /\ \E k \in 1 .. Len(g) : g[k] = d
        /\ \A j, k \in 1 .. Len(g) : g[j] = g[k] => j = k
<1>1. /\ g \in Seq(Cells) /\ Len(g) = Len(f) + 1 /\ Len(f) \in Nat
      /\ g[1] = d /\ \A k \in 2 .. Len(g) : g[k] = f[k - 1] /\ k - 1 \in 1 .. Len(f)
  OBVIOUS
<1>2. ASSUME NEW k \in 1 .. Len(f) PROVE \E j \in 1 .. Len(g) : g[j] = f[k]
  <2>1. k + 1 \in 2 .. Len(g) /\ (k + 1) - 1 = k
    BY <1>1
  <2>2. g[k + 1] = f[k]
    BY <1>1, <2>1
  <2> QED BY <2>1, <2>2, <1>1
<1>3. ASSUME NEW k \in 1 .. Len(g) PROVE g[k] = d \/ \E j \in 1 .. Len(f) : g[k] = f[j]
  BY <1>1
<1>4. ASSUME NEW j \in 1 .. Len(g), NEW k \in 1 .. Len(g), g[j] = g[k]
      PROVE j = k
  <2>1. CASE j = 1 /\ k # 1
    BY <1>1, <1>4, <2>1
  <2>2. CASE k = 1 /\ j # 1
    BY <1>1, <1>4, <2>2
  <2>3. CASE j # 1 /\ k # 1
    <3>1. j - 1 \in 1 .. Len(f) /\ k - 1 \in 1 .. Len(f) /\ f[j - 1] = f[k - 1]
      BY <1>1, <1>4, <2>3
    <3> QED BY <3>1
  <2> QED BY <2>1, <2>2, <2>3
<1>5. 1 \in 1 .. Len(g)
  BY <1>1
<1> QED BY <1>1, <1>2, <1>3, <1>4, <1>5

\* A step that counts out the cell <<c, n>>, the next one: the top of a new
\* chunk, or the next of the current one.
LEMMA FromChunkInv ==
  ASSUME PoolsInv, NEW t \in Threads, NEW n \in 1 .. PoolSize, NEW c \in 1 .. MaxChunks,
         FromChunk(t, n, c),
         \/ c = chunks[t] /\ n = cnt[t]
         \/ c = chunks[t] + 1 /\ n = PoolSize /\ cnt[t] = 0
  PROVE PoolsInv'
<1> USE PoolsAssumption DEF PoolsInv
<1>1. <<c, n>> \in Cells
  BY DEF Cells
<1>2. TypeOK'
  <2>1. n - 1 \in 0 .. PoolSize /\ c \in 0 .. MaxChunks
    OBVIOUS
  <2>2. cnt' \in [Threads -> 0 .. PoolSize] /\ chunks' \in [Threads -> 0 .. MaxChunks]
    BY <2>1 DEF TypeOK, FromChunk
  <2>3. used' \in [Threads -> SUBSET Cells]
    BY <1>1 DEF TypeOK, FromChunk
  <2>4. free' \in [Threads -> Seq(Cells)] /\ held' \in BOOLEAN
    BY DEF TypeOK, FromChunk
  <2> QED BY <2>2, <2>3, <2>4 DEF TypeOK
<1>3. CurrentChunk'
  BY DEF CurrentChunk, FromChunk, TypeOK
<1>4. ASSUME NEW u \in Threads PROVE InOnePlace(u)'
  <2>1. InOnePlace(u)
    BY DEF NoDoubleHand
  <2>2. free'[u] = free[u] /\ Chain(u)' = Chain(u)
    BY DEF FromChunk, Chain
  <2>3. CASE u # t
    <3>1. Issued(u)' = Issued(u) /\ used'[u] = used[u]
      BY <2>3 DEF FromChunk, Issued, TypeOK
    <3> QED BY <2>1, <2>2, <3>1 DEF InOnePlace
  <2>4. CASE u = t
    <3>1. used'[t] = used[t] \cup {<<c, n>>} /\ cnt'[t] = n - 1 /\ chunks'[t] = c
      BY DEF FromChunk, TypeOK
    <3>2. cnt[t] \in 0 .. PoolSize /\ chunks[t] \in 0 .. MaxChunks
      BY DEF TypeOK
    <3>3. <<c, n>> \notin Issued(t)
      BY <3>2 DEF Issued
    <3>4. ASSUME NEW d \in Cells
          PROVE d \in Issued(t)' <=> d \in Issued(t) \cup {<<c, n>>}
      <4>1. d[1] \in 1 .. MaxChunks /\ d[2] \in 1 .. PoolSize /\ d = <<d[1], d[2]>>
        BY CellPair
      <4>2. d \in Issued(t)' <=> (d[1] < c \/ (d[1] = c /\ d[2] > n - 1))
        BY <3>1 DEF Issued
      <4>3. d \in Issued(t) <=> (d[1] < chunks[t] \/ (d[1] = chunks[t] /\ d[2] > cnt[t]))
        BY DEF Issued
      <4>4. d = <<c, n>> <=> (d[1] = c /\ d[2] = n)
        BY <4>1
      <4> QED BY <3>2, <4>1, <4>2, <4>3, <4>4
    <3>5. Issued(t)' = Issued(t) \cup {<<c, n>>}
      <4>1. Issued(t)' \subseteq Cells /\ Issued(t) \subseteq Cells
        BY DEF Issued
      <4> QED BY <1>1, <3>4, <4>1
    <3> QED BY <2>1, <2>2, <2>4, <3>1, <3>3, <3>5 DEF InOnePlace
  <2> QED BY <2>3, <2>4
<1> QED BY <1>2, <1>3, <1>4 DEF NoDoubleHand, FromChunk

LEMMA StepInv == PoolsInv /\ [Next]_poolVars => PoolsInv'
<1> SUFFICES ASSUME PoolsInv, [Next]_poolVars PROVE PoolsInv'
  OBVIOUS
<1> USE PoolsAssumption
<1>1. ASSUME UNCHANGED <<cnt, chunks, free, used>>, held' \in BOOLEAN
      PROVE PoolsInv'
  <2>1. TypeOK' /\ CurrentChunk'
    BY <1>1 DEF PoolsInv, TypeOK, CurrentChunk
  <2>2. ASSUME NEW u \in Threads PROVE InOnePlace(u)'
    <3>1. InOnePlace(u)
      BY DEF PoolsInv, NoDoubleHand
    <3>2. Chain(u)' = Chain(u) /\ Issued(u)' = Issued(u)
      BY <1>1 DEF Chain, Issued
    <3> QED BY <1>1, <3>1, <3>2 DEF InOnePlace
  <2> QED BY <2>1, <2>2 DEF PoolsInv, NoDoubleHand
<1>2. CASE UNCHANGED poolVars \/ Destroy
  BY <1>1, <1>2 DEF poolVars, Destroy, PoolsInv, TypeOK
<1>3. ASSUME NEW t \in Threads, AllocateFromChunk(t) PROVE PoolsInv'
  <2>1. cnt[t] \in 1 .. PoolSize /\ chunks[t] \in 1 .. MaxChunks
    BY <1>3 DEF AllocateFromChunk, PoolsInv, TypeOK, CurrentChunk
  <2> QED BY <1>3, <2>1, FromChunkInv DEF AllocateFromChunk
<1>4. ASSUME NEW t \in Threads, AllocateNewChunk(t) PROVE PoolsInv'
  <2>1. chunks[t] + 1 \in 1 .. MaxChunks /\ PoolSize \in 1 .. PoolSize
    BY <1>4 DEF AllocateNewChunk, PoolsInv, TypeOK
  <2> QED BY <1>4, <2>1, FromChunkInv DEF AllocateNewChunk
<1>5. ASSUME NEW t \in Threads, AllocateFromFree(t) PROVE PoolsInv'
  <2>1. free[t] \in Seq(Cells) /\ InOnePlace(t) /\ free[t] # <<>>
    BY <1>5 DEF AllocateFromFree, PoolsInv, TypeOK, NoDoubleHand
  <2>2. /\ Tail(free[t]) \in Seq(Cells) /\ Head(free[t]) \in Cells
        /\ {Tail(free[t])[k] : k \in 1 .. Len(Tail(free[t]))} = Chain(t) \ {Head(free[t])}
        /\ \A j, k \in 1 .. Len(Tail(free[t])) : Tail(free[t])[j] = Tail(free[t])[k] => j = k
    BY <2>1, TailChain DEF Chain, InOnePlace
  <2>3. TypeOK'
    BY <1>5, <2>2 DEF AllocateFromFree, PoolsInv, TypeOK
  <2>4. CurrentChunk'
    BY <1>5 DEF AllocateFromFree, PoolsInv, CurrentChunk
  <2>5. ASSUME NEW u \in Threads PROVE InOnePlace(u)'
    <3>1. InOnePlace(u)
      BY DEF PoolsInv, NoDoubleHand
    <3>2. Issued(u)' = Issued(u)
      BY <1>5 DEF AllocateFromFree, Issued
    <3>3. CASE u # t
      <4>1. used'[u] = used[u] /\ free'[u] = free[u]
        BY <1>5, <3>3 DEF AllocateFromFree, PoolsInv, TypeOK
      <4> QED BY <3>1, <3>2, <4>1 DEF InOnePlace, Chain
    <3>4. CASE u = t
      <4>1. used'[t] = used[t] \cup {Head(free[t])} /\ free'[t] = Tail(free[t])
        BY <1>5 DEF AllocateFromFree, PoolsInv, TypeOK
      <4>2. Chain(t)' = Chain(t) \ {Head(free[t])}
        BY <2>2, <4>1 DEF Chain
      <4>3. Head(free[t]) \in Chain(t)
        <5>1. Head(free[t]) = free[t][1] /\ 1 \in 1 .. Len(free[t])
          BY <2>1
        <5> QED BY <5>1 DEF Chain
      <4> QED BY <2>1, <2>2, <3>2, <3>4, <4>1, <4>2, <4>3 DEF InOnePlace
    <3> QED BY <3>3, <3>4
  <2> QED BY <1>5, <2>3, <2>4, <2>5 DEF PoolsInv, NoDoubleHand, AllocateFromFree
<1>6. ASSUME NEW t \in Threads, NEW d \in used[t], Deallocate(t, d) PROVE PoolsInv'
  <2> DEFINE g == <<d>> \o free[t]
  <2>1. free[t] \in Seq(Cells) /\ d \in Cells /\ InOnePlace(t)
    BY DEF PoolsInv, TypeOK, NoDoubleHand
  <2>2. /\ \A k \in 1 .. Len(free[t]) : free[t][k] # d
        /\ \A j, k \in 1 .. Len(free[t]) : free[t][j] = free[t][k] => j = k
    BY <2>1 DEF InOnePlace, Chain
  <2>3. /\ g \in Seq(Cells)
        /\ {g[k] : k \in 1 .. Len(g)} = Chain(t) \cup {d}
        /\ \A j, k \in 1 .. Len(g) : g[j] = g[k] => j = k
    <3>1. g = <<d>> \o free[t]
      OBVIOUS
    <3> HIDE DEF g
    <3>2. /\ g \in Seq(Cells)
          /\ \A k \in 1 .. Len(g) : g[k] = d \/ \E j \in 1 .. Len(free[t]) : g[k] = free[t][j]
          /\ \A j \in 1 .. Len(free[t]) : \E k \in 1 .. Len(g) : g[k] = free[t][j]
          /\ \E k \in 1 .. Len(g) : g[k] = d
          /\ \A j, k \in 1 .. Len(g) : g[j] = g[k] => j = k
      BY <2>1, <2>2, <3>1, ConsChain, SMTT(60)
    <3>3. {g[k] : k \in 1 .. Len(g)} = Chain(t) \cup {d}
      <4>1. ASSUME NEW k \in 1 .. Len(g) PROVE g[k] \in Chain(t) \cup {d}
        BY <3>2 DEF Chain
      <4>2. ASSUME NEW c \in Chain(t) PROVE c \in {g[k] : k \in 1 .. Len(g)}
        <5>1. PICK j \in 1 .. Len(free[t]) : c = free[t][j]
          BY DEF Chain
        <5>2. PICK k \in 1 .. Len(g) : g[k] = free[t][j]
          BY <3>2
        <5> QED BY <5>1, <5>2
      <4>3. d \in {g[k] : k \in 1 .. Len(g)}
        <5>1. PICK k \in 1 .. Len(g) : g[k] = d
          BY <3>2
        <5> QED BY <5>1
      <4> QED BY <4>1, <4>2, <4>3
    <3> QED BY <3>2, <3>3
  <2>4. free' = [free EXCEPT ![t] = g] /\ used' = [used EXCEPT ![t] = @ \ {d}]
        /\ UNCHANGED <<cnt, chunks, held>>
    BY <1>6 DEF Deallocate
  <2> HIDE DEF g
  <2>5. TypeOK'
    BY <2>3, <2>4 DEF PoolsInv, TypeOK
  <2>6. CurrentChunk'
    BY <2>4 DEF PoolsInv, CurrentChunk
  <2>7. ASSUME NEW u \in Threads PROVE InOnePlace(u)'
    <3>1. InOnePlace(u)
      BY DEF PoolsInv, NoDoubleHand
    <3>2. Issued(u)' = Issued(u)
      BY <2>4 DEF Issued
    <3>3. CASE u # t
      <4>1. used'[u] = used[u] /\ free'[u] = free[u]
        BY <2>4, <3>3 DEF PoolsInv, TypeOK
      <4> QED BY <3>1, <3>2, <4>1 DEF InOnePlace, Chain
    <3>4. CASE u = t
      <4>1. used'[t] = used[t] \ {d} /\ free'[t] = g
        BY <2>4 DEF PoolsInv, TypeOK
      <4>2. Chain(t)' = Chain(t) \cup {d}
        <5>1. Chain(t)' = {g[k] : k \in 1 .. Len(g)}
          BY <4>1 DEF Chain
        <5> QED BY <2>3, <5>1
      <4> QED BY <2>1, <2>3, <3>2, <3>4, <4>1, <4>2 DEF InOnePlace
    <3> QED BY <3>3, <3>4
  <2> QED BY <2>5, <2>6, <2>7 DEF PoolsInv, NoDoubleHand
<1> QED BY <1>2, <1>3, <1>4, <1>5, <1>6 DEF Next
-----------------------------------------------------------------------------
LEMMA Invariant == PoolsSpec => []PoolsInv
  BY InitInv, StepInv, PTL DEF PoolsSpec

(* The variables keep their types: no pool counts below zero or hands out a  *)
(* place outside its chunks.                                                 *)
THEOREM TypeCorrect == PoolsSpec => []TypeOK
<1>1. PoolsInv => TypeOK
  BY DEF PoolsInv
<1> QED BY <1>1, Invariant, PTL

(* allocate never returns a cell that a caller still has, and deallocate and *)
(* the constructor lose none.                                                *)
THEOREM NeverTwice == PoolsSpec => []NoDoubleHand
<1>1. PoolsInv => NoDoubleHand
  BY DEF PoolsInv
<1> QED BY <1>1, Invariant, PTL

-----------------------------------------------------------------------------
(* StackAllocator: every capacity and every size of a request, with markers  *)
(* given back in any order.                                                  *)

\* A marker exists only once there is a buffer.
StackInv == Stack!TypeOK /\ Stack!BlocksApart /\ (marks # {} => capacity = Capacity)

\* A block that was handed out lies inside the buffer and is not empty.
LEMMA BlockBounds ==
  ASSUME Stack!TypeOK, NEW b \in live
  PROVE b[1] \in 0 .. Capacity /\ b[2] \in 1 .. MaxBlock
  BY DEF Stack!TypeOK

LEMMA StackStep == StackInv /\ [Stack!Next]_stackVars => StackInv'
<1> SUFFICES ASSUME StackInv, [Stack!Next]_stackVars PROVE StackInv'
  OBVIOUS
<1> USE StackAssumption DEF StackInv
<1>1. CASE UNCHANGED stackVars
  BY <1>1 DEF stackVars, Stack!TypeOK, Stack!BlocksApart
<1>2. CASE Stack!InitBuffer
  <2>1. live = {} /\ marks \subseteq 0 .. Capacity
    <3>1. ASSUME NEW b \in live PROVE FALSE
      BY <1>2, BlockBounds DEF Stack!InitBuffer, Stack!TypeOK, Stack!BlocksApart
    <3> QED BY <3>1 DEF Stack!TypeOK
  <2> QED BY <1>2, <2>1 DEF Stack!InitBuffer, Stack!TypeOK, Stack!BlocksApart
<1>3. CASE Stack!Mark
  BY <1>3 DEF Stack!Mark, Stack!TypeOK, Stack!BlocksApart
<1>4. CASE Stack!Clear
  BY <1>4 DEF Stack!Clear, Stack!TypeOK, Stack!BlocksApart
<1>5. ASSUME NEW n \in 1 .. MaxBlock, Stack!Allocate(n) PROVE StackInv'
  <2>1. top \in 0 .. Capacity /\ top + n \in 0 .. capacity /\ capacity \in {0, Capacity}
    BY <1>5 DEF Stack!Allocate, Stack!TypeOK
  <2>2. Stack!TypeOK'
    BY <1>5, <2>1 DEF Stack!Allocate, Stack!TypeOK
  <2>3. ASSUME NEW b \in live' PROVE b[1] + b[2] <= top'
    <3>1. CASE b \in live
      BY <1>5, <2>1, <3>1, BlockBounds DEF Stack!Allocate, Stack!BlocksApart
    <3>2. CASE b = <<top, n>>
      BY <1>5, <2>1, <3>2 DEF Stack!Allocate
    <3> QED BY <1>5, <3>1, <3>2 DEF Stack!Allocate
  <2>4. ASSUME NEW b \in live', NEW c \in live'
        PROVE b = c \/ b[1] + b[2] <= c[1] \/ c[1] + c[2] <= b[1]
    <3>1. \A d \in live : d[1] + d[2] <= top
      BY DEF Stack!BlocksApart
    <3>2. b \in live \/ b = <<top, n>>
      BY <1>5 DEF Stack!Allocate
    <3>3. c \in live \/ c = <<top, n>>
      BY <1>5 DEF Stack!Allocate
    <3> QED BY <3>1, <3>2, <3>3 DEF Stack!BlocksApart
  <2> QED BY <1>5, <2>2, <2>3, <2>4 DEF Stack!BlocksApart, Stack!Allocate
<1>6. ASSUME NEW m \in marks, Stack!Deallocate(m) PROVE StackInv'
  <2>1. capacity = Capacity /\ m \in 0 .. Capacity
    BY DEF Stack!TypeOK
  <2>2. Stack!TypeOK' /\ (marks' # {} => capacity' = Capacity)
    BY <1>6, <2>1 DEF Stack!Deallocate, Stack!TypeOK
  <2>3. Stack!BlocksApart'
    BY <1>6 DEF Stack!Deallocate, Stack!BlocksApart
  <2> QED BY <2>2, <2>3
<1> QED BY <1>1, <1>2, <1>3, <1>4, <1>5, <1>6 DEF Stack!Next

(* Blocks the caller still holds never overlap and are never above the top,  *)
(* whatever markers, in whatever order, StackAllocator::deallocate is given. *)
THEOREM NeverOverlap == StackSpec => []Stack!BlocksApart
<1>1. Stack!Init => StackInv
  BY StackAssumption DEF Stack!Init, StackInv, Stack!TypeOK, Stack!BlocksApart
<1>2. StackInv /\ [Stack!Next]_stackVars => StackInv'
  BY StackStep
<1>3. StackInv => Stack!BlocksApart
  BY DEF StackInv
<1> QED BY <1>1, <1>2, <1>3, PTL DEF StackSpec

(* No memory of a pool or a stack is handed out twice at a time, and none    *)
(* that came back is lost.                                                   *)
THEOREM HandedOnce == PoolsSpec /\ StackSpec => []MemoryOnce
<1>1. NoDoubleHand /\ Stack!BlocksApart => MemoryOnce
  BY DEF MemoryOnce
<1> QED BY <1>1, NeverTwice, NeverOverlap, PTL

-----------------------------------------------------------------------------
(* The pid file: every set of programs, other processes and pids.            *)

\* The places of a program, and the types the proof needs of the variables.
Phases == {"out", "start", "looked", "checked", "cleared", "running"}

PhasesOK == /\ phase \in [Program -> Phases]
            /\ seen \in [Program -> Pid \cup {0}]
            /\ pid \in [Program \cup Stranger -> Pid \cup {0}]
            /\ pidFile \in Pid \cup {0} /\ overlap \in BOOLEAN /\ mixed \in BOOLEAN

\* The system gives a pid to one process at a time, and a program has one.
PidsDiffer == /\ \A p, q \in Program \cup Stranger : pid[p] = pid[q] /\ pid[p] # 0 => p = q
              /\ \A p \in Program : phase[p] # "out" => pid[p] # 0

\* Nobody starts while another is on the way, so what a program on the way has
\* found out about the one that runs stays true.
WayAlone == \A p, q \in Program : Instances!Way(p) /\ Instances!Way(q) => p = q

Found ==
    \A q \in Program : phase[q] = "running" =>
       /\ pidFile = pid[q]
       /\ \A p \in Program : /\ phase[p] = "running" => p = q
                             /\ phase[p] = "looked" => seen[p] = pid[q]
                             /\ phase[p] = "checked" => Cmdline[p] # Cmdline[q]
                             /\ phase[p] # "cleared"

PidInv == /\ PhasesOK /\ PidsDiffer
          /\ ~overlap => WayAlone
          /\ ~overlap /\ ~mixed => Found

LEMMA PidFirst == Instances!Init => PidInv
  BY DEF Instances!Init, PidInv, PhasesOK, Phases, PidsDiffer, WayAlone, Instances!Way, Found

LEMMA PidStep == PidInv /\ [Instances!Next]_pidVars => PidInv'
<1> SUFFICES ASSUME PidInv, [Instances!Next]_pidVars PROVE PidInv'
  OBVIOUS
<1> USE PidAssumption DEF PidInv
<1>1. CASE UNCHANGED pidVars
  BY <1>1 DEF pidVars, PhasesOK, PidsDiffer, WayAlone, Instances!Way, Found
<1>2. ASSUME NEW p \in Stranger, NEW n \in Pid, Instances!StrangerRuns(p, n) PROVE PidInv'
  <2>1. PhasesOK' /\ PidsDiffer'
    BY <1>2 DEF Instances!StrangerRuns, Instances!Run, Instances!Owner, PhasesOK, PidsDiffer
  <2>2. \A q \in Program : phase[q] # "out" => pid'[q] = pid[q]
    BY <1>2 DEF Instances!StrangerRuns, Instances!Run, PhasesOK, PidsDiffer
  <2>3. (~overlap => WayAlone)' /\ (~overlap /\ ~mixed => Found)'
    BY <1>2, <2>2 DEF Instances!StrangerRuns, WayAlone, Instances!Way, Found
  <2> QED BY <2>1, <2>3
<1>3. ASSUME NEW p \in Program, NEW n \in Pid, Instances!Start(p, n) PROVE PidInv'
  <2>1. PhasesOK' /\ PidsDiffer'
    BY <1>3 DEF Instances!Start, Instances!Run, Instances!Move, Instances!Owner, PhasesOK, PidsDiffer, Phases
  <2>2. \A q \in Program : phase[q] # "out" => pid'[q] = pid[q]
    BY <1>3 DEF Instances!Start, Instances!Run, PhasesOK, PidsDiffer
  <2>3. (~overlap => WayAlone)'
    BY <1>3 DEF Instances!Start, Instances!Move, WayAlone, Instances!Way, PhasesOK
  <2>4. (~overlap /\ ~mixed => Found)'
    BY <1>3, <2>2 DEF Instances!Start, Instances!Move, Found, PhasesOK
  <2> QED BY <2>1, <2>3, <2>4
<1>4. ASSUME NEW p \in Program, Instances!GetProgramPid(p) PROVE PidInv'
  <2>1. PhasesOK' /\ PidsDiffer'
    BY <1>4 DEF Instances!GetProgramPid, Instances!Move, PhasesOK, PidsDiffer, Phases
  <2>2. (~overlap => WayAlone)'
    BY <1>4 DEF Instances!GetProgramPid, Instances!Move, WayAlone, Instances!Way, PhasesOK
  <2>3. (~overlap /\ ~mixed => Found)'
    BY <1>4 DEF Instances!GetProgramPid, Instances!Move, Found, PhasesOK
  <2> QED BY <2>1, <2>2, <2>3
<1>5. ASSUME NEW p \in Program, Instances!EnsureOneInstance(p) PROVE PidInv'
  <2>1. PhasesOK' /\ PidsDiffer'
    BY <1>5 DEF Instances!EnsureOneInstance, Instances!Move, PhasesOK, PidsDiffer, Phases
  <2>2. (~overlap => WayAlone)'
    BY <1>5 DEF Instances!EnsureOneInstance, Instances!Move, WayAlone, Instances!Way, PhasesOK
  <2>3. ASSUME ~overlap, ~mixed, NEW q \in Program, phase[q] = "running"
        PROVE Cmdline[p] # Cmdline[q]
    <3>1. seen[p] = pid[q] /\ pid[q] # 0 /\ p # q /\ phase[p] # "out"
      BY <1>5, <2>3 DEF Instances!EnsureOneInstance, Instances!Move, Found, PidsDiffer
    <3>2. pid[p] # pid[q]
      BY <3>1 DEF PidsDiffer
    <3>3. q \in Instances!Owner(seen[p])
      BY <3>1 DEF Instances!Owner, PhasesOK
    <3> QED BY <1>5, <3>1, <3>2, <3>3 DEF Instances!EnsureOneInstance, Instances!OnlyInstance
  <2>4. (~overlap /\ ~mixed => Found)'
    BY <1>5, <2>3 DEF Instances!EnsureOneInstance, Instances!Move, Found, PhasesOK
  <2> QED BY <2>1, <2>2, <2>4
<1>6. ASSUME NEW p \in Program, Instances!ClearFile(p) PROVE PidInv'
  <2>1. PhasesOK' /\ PidsDiffer'
    BY <1>6 DEF Instances!ClearFile, Instances!Move, PhasesOK, PidsDiffer, Phases
  <2>2. (~overlap => WayAlone)'
    BY <1>6 DEF Instances!ClearFile, Instances!Move, WayAlone, Instances!Way, PhasesOK
  <2>3. ASSUME ~overlap, ~mixed', NEW q \in Program PROVE phase[q] # "running"
    BY <1>6, <2>3 DEF Instances!ClearFile, Instances!Move, Found, PhasesOK
  <2>4. (~overlap /\ ~mixed => Found)'
    BY <1>6, <2>3 DEF Instances!ClearFile, Instances!Move, Found, PhasesOK
  <2> QED BY <2>1, <2>2, <2>4
<1>7. ASSUME NEW p \in Program, Instances!WriteProgramPid(p) PROVE PidInv'
  <2>1. PhasesOK' /\ PidsDiffer'
    BY <1>7 DEF Instances!WriteProgramPid, Instances!Move, PhasesOK, PidsDiffer, Phases
  <2>2. (~overlap => WayAlone)'
    BY <1>7 DEF Instances!WriteProgramPid, Instances!Move, WayAlone, Instances!Way, PhasesOK
  <2>3. ASSUME ~overlap, NEW q \in Program, Instances!Way(q) PROVE q = p
    BY <1>7, <2>3 DEF Instances!WriteProgramPid, Instances!Move, WayAlone, Instances!Way
  <2>4. ~mixed' => ~mixed /\ pidFile' = pid[p]
    BY <1>7 DEF Instances!WriteProgramPid
  <2>5. (~overlap /\ ~mixed => Found)'
    BY <1>7, <2>3, <2>4 DEF Instances!WriteProgramPid, Instances!Move, Found, Instances!Way, PhasesOK
  <2> QED BY <2>1, <2>2, <2>5
<1>8. ASSUME NEW p \in DOMAIN pid, Instances!End(p) PROVE PidInv'
  <2>1. PhasesOK' /\ PidsDiffer'
    BY <1>8 DEF Instances!End, PhasesOK, PidsDiffer, Phases
  <2>2. (~overlap => WayAlone)'
    BY <1>8 DEF Instances!End, WayAlone, Instances!Way, PhasesOK
  <2>3. \A q \in Program : phase'[q] # "out" => q # p /\ phase'[q] = phase[q] /\ pid'[q] = pid[q] /\ seen'[q] = seen[q]
    BY <1>8 DEF Instances!End, PhasesOK, Phases
  <2>4. (~overlap /\ ~mixed => Found)'
    BY <1>8, <2>3 DEF Instances!End, Found
  <2> QED BY <2>1, <2>2, <2>4
<1> QED BY <1>1, <1>2, <1>3, <1>4, <1>5, <1>6, <1>7, <1>8 DEF Instances!Next

(* Programs that check one after the other, with one command line writing    *)
(* the file, never run twice, whichever end and whoever gets their pids.     *)
THEOREM RunsOnce == PidSpec => []OneInstance
<1>1. PidInv /\ [Instances!Next]_pidVars => PidInv'
  BY PidStep
<1>2. PidInv => OneInstance
  BY DEF PidInv, Found, OneInstance, Instances!OneInstance
<1> QED BY PidFirst, <1>1, <1>2, PTL DEF PidSpec
-----------------------------------------------------------------------------
(* EventBus: every set of events, types and callbacks, and every nesting of  *)
(* subscriptions and firings in firings.                                     *)

Vector == [type : Type \cup {"none"}, cbs : Seq(Callback), capacity : Nat, storage : Nat]
Frame == [event : Event, at : Nat, end : Nat, storage : Nat, began : Seq(Callback)]

BusTypes == /\ infos \in [Event -> Type \cup {"none"}] /\ callbacks \in [Event -> Vector]
            /\ frames \in Seq(Frame) /\ heard \in Seq(Seq(Callback)) /\ Len(heard) = Len(frames)

\* A walk f over the vector v has called h.  A vector only grows, so the
\* callbacks the walk began with stay its beginning, wherever it moves.
Walk(f, h, v) ==
    /\ Len(f.began) = f.end /\ f.at \in 1 .. f.end + 1
    /\ Len(h) = f.at - 1 /\ \A i \in 1 .. Len(h) : h[i] = f.began[i]
    /\ f.end <= Len(v.cbs) /\ \A i \in 1 .. f.end : v.cbs[i] = f.began[i]
    /\ v.storage # f.storage => Len(v.cbs) > f.end

\* A firing within a firing, and a subscription, come from a callback.
WalkOK(k) == /\ Walk(frames[k], heard[k], callbacks[frames[k].event])
             /\ k < Len(frames) \/ Bus!Dangling(frames[k]) => frames[k].at > 1
BusInv == /\ BusTypes
          /\ \A k \in 1 .. Len(frames) : WalkOK(k)
          /\ \A e \in Event : callbacks[e].type = infos[e]

LEMMA BusFirst == Bus!Init => BusInv
  BY DEF Bus!Init, Bus!NoVector, BusInv, BusTypes, Vector, Frame

\* The frames of a state of the invariant have the types of their fields.
LEMMA FrameTypes ==
  ASSUME BusTypes, NEW k \in 1 .. Len(frames)
  PROVE /\ frames[k] \in Frame /\ heard[k] \in Seq(Callback)
        /\ callbacks[frames[k].event] \in Vector /\ frames[k].event \in Event
<1>1. frames[k] \in Frame /\ heard[k] \in Seq(Callback)
  BY DEF BusTypes
<1> QED BY <1>1 DEF BusTypes, Frame

\* A longer vector, moved or not, carries the walks over the shorter one.
LEMMA PushedOn ==
  ASSUME NEW f \in Frame, NEW h \in Seq(Callback), NEW v \in Vector, NEW c \in Callback, NEW y \in Type,
         Walk(f, h, v)
  PROVE Walk(f, h, Bus!PushBack([v EXCEPT !.type = y], c))
<1>1. v.cbs \in Seq(Callback) /\ v.storage \in Nat /\ f.end \in Nat /\ f.storage \in Nat
  BY DEF Vector, Frame
<1>2. PICK w : w = Bus!PushBack([v EXCEPT !.type = y], c)
  OBVIOUS
<1>3. w.cbs = Append(v.cbs, c) /\ w.storage \in {v.storage, v.storage + 1}
  BY <1>2 DEF Bus!PushBack, Vector
<1>4. Len(w.cbs) = Len(v.cbs) + 1 /\ \A i \in 1 .. Len(v.cbs) : w.cbs[i] = v.cbs[i]
  BY <1>1, <1>3
<1>5. Walk(f, h, w)
  <2>1. Len(v.cbs) \in Nat /\ f.end <= Len(v.cbs) /\ \A i \in 1 .. f.end : v.cbs[i] = f.began[i]
    BY <1>1 DEF Walk
  <2>2. f.end < Len(w.cbs) /\ \A i \in 1 .. f.end : w.cbs[i] = f.began[i]
    BY <1>1, <1>4, <2>1
  <2> QED BY <1>1, <1>4, <2>1, <2>2 DEF Walk
<1> QED BY <1>2, <1>5

LEMMA PushedVector ==
  ASSUME NEW v \in Vector, NEW c \in Callback, NEW y \in Type
  PROVE /\ Bus!PushBack([v EXCEPT !.type = y], c) \in Vector
        /\ Bus!PushBack([v EXCEPT !.type = y], c).type = y
<1>1. v.cbs \in Seq(Callback) /\ v.storage \in Nat /\ v.capacity \in Nat
  BY DEF Vector
<1>2. Append(v.cbs, c) \in Seq(Callback) /\ 2 * v.capacity \in Nat
  BY <1>1
<1>3. PICK u : u = [v EXCEPT !.type = y]
  OBVIOUS
<1>4. u \in Vector /\ u.cbs = v.cbs /\ u.capacity = v.capacity /\ u.storage = v.storage /\ u.type = y
  BY <1>3 DEF Vector
<1> DEFINE k == IF Len(u.cbs) < u.capacity THEN u.capacity ELSE IF u.capacity = 0 THEN 1 ELSE 2 * u.capacity
           m == IF Len(u.cbs) < u.capacity THEN u.storage ELSE u.storage + 1
<1>5. /\ Bus!PushBack(u, c) = [u EXCEPT !.cbs = Append(u.cbs, c), !.capacity = k, !.storage = m]
      /\ k \in Nat /\ m \in Nat
  <2>1. k \in Nat /\ m \in Nat
    BY <1>1, <1>2, <1>4
  <2>2. Bus!PushBack(u, c) = [u EXCEPT !.cbs = Append(u.cbs, c), !.capacity = k, !.storage = m]
    BY <1>4 DEF Bus!PushBack, Vector
  <2> QED BY <2>1, <2>2
<1> HIDE DEF k, m
<1>6. PICK s \in Seq(Callback) : s = Append(u.cbs, c)
  BY <1>2, <1>4
<1>7. [u EXCEPT !.cbs = s, !.capacity = k, !.storage = m] \in Vector
  BY <1>4, <1>5 DEF Vector
<1>8. [u EXCEPT !.cbs = s, !.capacity = k, !.storage = m].type = y
  BY <1>4 DEF Vector
<1> QED BY <1>3, <1>5, <1>6, <1>7, <1>8

\* One call more: the walk has called the next of the callbacks it began with.
LEMMA WalksOn ==
  ASSUME NEW f \in Frame, NEW h \in Seq(Callback), NEW v \in Vector,
         Walk(f, h, v), f.at <= f.end
  PROVE LET g == [f EXCEPT !.at = @ + 1]
            k == Append(h, v.cbs[f.at])
        IN Walk(g, k, v) /\ g \in Frame /\ k \in Seq(Callback)
<1>1. v.cbs \in Seq(Callback) /\ f.at \in Nat /\ f.end \in Nat
  BY DEF Vector, Frame
<1>2. PICK g : g = [f EXCEPT !.at = @ + 1]
  OBVIOUS
<1>3. /\ g \in Frame /\ g.at = f.at + 1 /\ g.end = f.end /\ g.began = f.began /\ g.storage = f.storage
  BY <1>1, <1>2, SMTT(30) DEF Frame
<1>4. f.at \in 1 .. f.end /\ f.end <= Len(v.cbs) /\ Len(v.cbs) \in Nat
  BY <1>1 DEF Walk
<1>5. v.cbs[f.at] \in Callback /\ v.cbs[f.at] = f.began[f.at] /\ f.at = Len(h) + 1
  BY <1>1, <1>4, SMTT(30) DEF Walk
<1>6. PICK k : k = Append(h, v.cbs[f.at])
  OBVIOUS
<1>7. k \in Seq(Callback) /\ Len(k) = f.at /\ \A i \in 1 .. f.at : k[i] = f.began[i]
  BY <1>5, <1>6 DEF Walk
<1>8. Walk(g, k, v)
  BY <1>1, <1>3, <1>4, <1>7 DEF Walk
<1> QED BY <1>2, <1>3, <1>6, <1>7, <1>8

LEMMA BusStep == BusInv /\ [Bus!Next]_busVars => BusInv'
<1> SUFFICES ASSUME BusInv, [Bus!Next]_busVars PROVE BusInv'
  OBVIOUS
<1>0. /\ infos \in [Event -> Type \cup {"none"}] /\ callbacks \in [Event -> Vector]
      /\ frames \in Seq(Frame) /\ heard \in Seq(Seq(Callback)) /\ Len(heard) = Len(frames)
      /\ BusTypes /\ \A k \in 1 .. Len(frames) : WalkOK(k)
      /\ \A e \in Event : callbacks[e].type = infos[e]
  BY DEF BusInv, BusTypes
<1>1. CASE UNCHANGED busVars
  BY <1>1 DEF busVars, BusInv, BusTypes, WalkOK, Bus!Dangling
<1>2. ASSUME NEW e \in Event, NEW y \in Type, Bus!Throws(e, y) PROVE BusInv'
  BY <1>0, <1>2 DEF Bus!Throws, BusInv, BusTypes
<1>3. ASSUME NEW e \in Event, NEW y \in Type, Bus!Fire(e, y) PROVE BusInv'
  <2> DEFINE v == callbacks[e]
             f == [event |-> e, at |-> 1, end |-> Len(v.cbs), storage |-> v.storage, began |-> v.cbs]
  <2>1. v \in Vector /\ v.cbs \in Seq(Callback) /\ v.storage \in Nat
    BY <1>0 DEF Vector
  <2>2. f \in Frame /\ <<>> \in Seq(Callback)
    BY <2>1 DEF Frame
  <2>3. frames' = Append(frames, f) /\ heard' = Append(heard, <<>>) /\ UNCHANGED <<infos, callbacks>> /\ Bus!Calls
    BY <1>3 DEF Bus!Fire
  <2>4. Walk(f, <<>>, v) /\ ~Bus!Dangling(f)
    BY <2>1 DEF Walk, Bus!Dangling
  <2> HIDE DEF f
  <2>5. BusTypes'
    BY <1>0, <2>2, <2>3 DEF BusTypes
  <2>6. ASSUME NEW k \in 1 .. Len(frames)'
        PROVE WalkOK(k)'
    <3>1. CASE k = Len(frames) + 1
      <4>1. frames'[k] = f /\ heard'[k] = <<>> /\ f.event = e
        BY <1>0, <2>2, <2>3, <3>1 DEF f
      <4> QED BY <1>0, <2>3, <2>4, <3>1, <4>1 DEF WalkOK, Bus!Dangling
    <3>2. CASE k \in 1 .. Len(frames)
      <4>1. frames'[k] = frames[k] /\ heard'[k] = heard[k]
        BY <1>0, <2>2, <2>3, <3>2
      <4>2. frames[k].at > 1
        BY <1>0, <2>3, <3>2 DEF WalkOK, Bus!Calls, Bus!Top
      <4> QED BY <1>0, <2>3, <3>2, <4>1, <4>2 DEF WalkOK, Bus!Dangling
    <3> QED BY <1>0, <2>2, <2>3, <3>1, <3>2
  <2> QED BY <1>0, <2>3, <2>5, <2>6 DEF BusInv
<1>4. ASSUME NEW e \in Event, NEW y \in Type, NEW c \in Callback, Bus!Subscribe(e, y, c) PROVE BusInv'
  <2> DEFINE v == callbacks[e]
             w == Bus!PushBack([v EXCEPT !.type = y], c)
  <2>1. /\ infos' = [infos EXCEPT ![e] = y] /\ callbacks' = [callbacks EXCEPT ![e] = w]
        /\ UNCHANGED <<frames, heard>> /\ Bus!Calls
    BY <1>4 DEF Bus!Subscribe
  <2>2. w \in Vector /\ w.type = y
    BY <1>0, PushedVector
  <2>3. ASSUME NEW k \in 1 .. Len(frames)
        PROVE WalkOK(k)'
    <3>1. Walk(frames[k], heard[k], w) \/ frames[k].event # e
      BY <1>0, FrameTypes, PushedOn DEF WalkOK
    <3>2. frames[k].at > 1
      BY <1>0, <2>1 DEF WalkOK, Bus!Calls, Bus!Top
    <3>3. frames[k].event \in Event
      BY <1>0, FrameTypes
    <3> HIDE DEF w
    <3>4. callbacks'[frames[k].event] = IF frames[k].event = e THEN w ELSE callbacks[frames[k].event]
      BY <1>0, <2>1, <3>3
    <3>5. UNCHANGED <<frames, heard>> /\ Walk(frames[k], heard[k], callbacks'[frames[k].event])
      BY <1>0, <2>1, <3>1, <3>4 DEF WalkOK
    <3> QED BY <3>2, <3>5 DEF WalkOK
  <2> HIDE DEF w
  <2>4. BusTypes'
    BY <1>0, <2>1, <2>2 DEF BusTypes
  <2>5. \A d \in Event : callbacks'[d].type = infos'[d]
    BY <1>0, <2>1, <2>2
  <2> QED BY <2>1, <2>3, <2>4, <2>5 DEF BusInv
<1>5. CASE Bus!CallNext
  <2> DEFINE n == Len(frames)
  <2>1. n \in 1 .. Len(frames) /\ frames[n].at <= frames[n].end /\ UNCHANGED <<infos, callbacks>>
    BY <1>0, <1>5 DEF Bus!CallNext, Bus!Top
  <2>2. PICK f : f = frames[n]
    OBVIOUS
  <2>3. PICK v : v = callbacks[f.event]
    OBVIOUS
  <2>4. f \in Frame /\ heard[n] \in Seq(Callback) /\ v \in Vector /\ Walk(f, heard[n], v)
    BY <1>0, <2>1, <2>2, <2>3, FrameTypes DEF WalkOK
  <2>5. PICK g : g = [f EXCEPT !.at = @ + 1]
    OBVIOUS
  <2>6. PICK h : h = Append(heard[n], v.cbs[f.at])
    OBVIOUS
  <2>7. Walk(g, h, v) /\ g \in Frame /\ h \in Seq(Callback)
    BY <2>1, <2>2, <2>4, <2>5, <2>6, WalksOn
  <2>8. g.event = f.event /\ g.at > 1
    BY <2>4, <2>5 DEF Walk, Frame
  <2>9. frames' = [frames EXCEPT ![n] = g] /\ heard' = [heard EXCEPT ![n] = h]
    BY <1>5, <2>2, <2>3, <2>5, <2>6 DEF Bus!CallNext, Bus!Top
  <2>10. BusTypes'
    BY <1>0, <2>1, <2>7, <2>9 DEF BusTypes
  <2>11. ASSUME NEW k \in 1 .. Len(frames) PROVE WalkOK(k)'
    <3>1. CASE k = n
      <4>1. frames'[k] = g /\ heard'[k] = h
        BY <1>0, <2>9, <3>1
      <4> QED BY <2>1, <2>3, <2>7, <2>8, <4>1 DEF WalkOK
    <3>2. CASE k # n
      <4>1. frames'[k] = frames[k] /\ heard'[k] = heard[k] /\ Len(frames') = n
        BY <1>0, <2>9, <3>2
      <4> QED BY <1>0, <2>1, <4>1 DEF WalkOK, Bus!Dangling
    <3> QED BY <3>1, <3>2
  <2> QED BY <1>0, <2>1, <2>9, <2>10, <2>11 DEF BusInv
<1>6. CASE Bus!FireReturns
  <2> DEFINE n == Len(frames) - 1
  <2>1. n \in Nat /\ UNCHANGED <<infos, callbacks>>
    BY <1>0, <1>6 DEF Bus!FireReturns
  <2>2. /\ frames' \in Seq(Frame) /\ Len(frames') = n /\ heard' \in Seq(Seq(Callback)) /\ Len(heard') = n
        /\ \A k \in 1 .. n : frames'[k] = frames[k] /\ heard'[k] = heard[k]
    BY <1>0, <1>6, <2>1 DEF Bus!FireReturns
  <2>3. ASSUME NEW k \in 1 .. n PROVE WalkOK(k)'
    <3>1. WalkOK(k) /\ k < Len(frames)
      BY <1>0, <2>1
    <3> QED BY <2>1, <2>2, <3>1 DEF WalkOK, Bus!Dangling
  <2> QED BY <1>0, <2>1, <2>2, <2>3 DEF BusInv, BusTypes
<1> QED BY <1>1, <1>2, <1>3, <1>4, <1>5, <1>6 DEF Bus!Next

\* What agrees element by element is a prefix.
LEMMA AgreeIsPrefix ==
  ASSUME NEW s \in Seq(Callback), NEW t \in Seq(Callback), Len(s) <= Len(t), \A i \in 1 .. Len(s) : s[i] = t[i]
  PROVE Bus!IsPrefix(s, t)
  BY DEF Bus!IsPrefix

(* Every firing calls the callbacks it began with in order and once, however *)
(* many firings and subscriptions its callbacks make, and its walk breaks    *)
(* only after one of its own callbacks subscribed to the event it fires.     *)
THEOREM CalledInOrder == BusSpec => []HeardInOrder
<1>1. BusInv /\ [Bus!Next]_busVars => BusInv'
  BY BusStep
<1>2. BusInv => HeardInOrder
  <2> SUFFICES ASSUME BusInv PROVE HeardInOrder
    OBVIOUS
  <2>1. ASSUME NEW k \in 1 .. Len(frames) PROVE Bus!IsPrefix(heard[k], frames[k].began)
    <3>1. heard[k] \in Seq(Callback) /\ frames[k].began \in Seq(Callback) /\ frames[k].at \in Nat
      BY FrameTypes DEF BusInv, Frame
    <3>2. Walk(frames[k], heard[k], callbacks[frames[k].event])
      BY DEF BusInv, WalkOK
    <3>3. Len(heard[k]) <= Len(frames[k].began) /\ \A i \in 1 .. Len(heard[k]) : heard[k][i] = frames[k].began[i]
      <4>1. /\ Len(frames[k].began) = frames[k].end /\ frames[k].at \in 1 .. frames[k].end + 1
            /\ Len(heard[k]) = frames[k].at - 1
            /\ \A i \in 1 .. Len(heard[k]) : heard[k][i] = frames[k].began[i]
        BY <3>2, Zenon DEF Walk
      <4>2. \A m, a \in Nat : a \in 1 .. m + 1 => a - 1 <= m
        OBVIOUS
      <4>3. Len(frames[k].began) \in Nat
        BY <3>1
      <4> QED BY <3>1, <4>1, <4>2, <4>3, Zenon
    <3> QED BY <3>1, <3>3, AgreeIsPrefix
  <2> QED BY <2>1 DEF BusInv, WalkOK, Walk, Bus!Dangling, HeardInOrder, Bus!HeardInOrder
<1> QED BY BusFirst, <1>1, <1>2, PTL DEF BusSpec
-----------------------------------------------------------------------------
(* TableFiles: every number of processes, every set of tables.               *)

\* What is to be written, and the types the proof needs of the variables.
Inode == [table : Tables, format : {"csv", "feather"}, whole : BOOLEAN]
Doing == [at : {"open", "written"}, format : {"csv", "feather"}, table : Tables, inode : Nat]


TableTypes == /\ job \in [Writer -> Doing \cup {TableStore!Idle}]
              /\ inode \in Seq(Inode) /\ muddle \in BOOLEAN
              /\ named \in [file : Nat, tmp : Nat]
              /\ named.file <= Len(inode) /\ named.tmp <= Len(inode)
              /\ last = <<>> \/ last \in Tables \X {"csv", "feather"}

\* The one process that writes has its inode under the temporary name.
Writing(w) == /\ job[w].inode = named.tmp /\ named.tmp # 0
              /\ inode[named.tmp].table = job[w].table /\ inode[named.tmp].format = job[w].format
              /\ job[w].at = "written" => inode[named.tmp].whole

FileWhole == IF last = <<>> THEN named.file = 0
             ELSE /\ named.file # 0 /\ inode[named.file].whole
                  /\ inode[named.file].table = last[1] /\ inode[named.file].format = last[2]

TableInv == /\ TableTypes
            /\ named.tmp # 0 => named.tmp # named.file
            /\ ~muddle => /\ \A v, w \in Writer : TableStore!Busy(v) /\ TableStore!Busy(w) => v = w
                          /\ \A w \in Writer : TableStore!Busy(w) => Writing(w)
                          /\ FileWhole

LEMMA TableFirst == TableStore!Init => TableInv
<1> SUFFICES ASSUME TableStore!Init PROVE TableInv
  OBVIOUS
<1>1. /\ job = [w \in Writer |-> TableStore!Idle] /\ inode = <<>> /\ named = [file |-> 0, tmp |-> 0]
      /\ last = <<>> /\ muddle = FALSE
  BY DEF TableStore!Init
<1>2. TableTypes
  <2>1. <<>> \in Seq(Inode) /\ Len(<<>>) = 0
    OBVIOUS
  <2>2. named.file = 0 /\ named.tmp = 0 /\ named \in [file : Nat, tmp : Nat]
    BY <1>1
  <2>3. job \in [Writer -> Doing \cup {TableStore!Idle}]
    BY <1>1
  <2>4. inode \in Seq(Inode) /\ named.file <= Len(inode) /\ named.tmp <= Len(inode)
    BY <1>1, <2>1, <2>2
  <2>5. muddle \in BOOLEAN /\ last = <<>>
    BY <1>1
  <2> QED BY <2>2, <2>3, <2>4, <2>5 DEF TableTypes
<1>3. \A w \in Writer : ~TableStore!Busy(w)
  BY <1>1 DEF TableStore!Busy, TableStore!Idle
<1> QED BY <1>1, <1>2, <1>3 DEF TableInv, FileWhole

LEMMA TableStep == TableInv /\ [TableStore!Next]_tableVars => TableInv'
<1> SUFFICES ASSUME TableInv, [TableStore!Next]_tableVars PROVE TableInv'
  OBVIOUS
<1>0. /\ job \in [Writer -> Doing \cup {TableStore!Idle}]
              /\ inode \in Seq(Inode) /\ muddle \in BOOLEAN
      /\ named \in [file : Nat, tmp : Nat] /\ TableTypes
      /\ named.tmp # 0 => named.tmp # named.file /\ named.tmp \in 1 .. Len(inode)
      /\ named.file # 0 => named.file \in 1 .. Len(inode)
  BY DEF TableInv, TableTypes
<1>a. /\ \A w \in Writer : TableStore!Busy(w) <=> job[w] \in Doing
      /\ TableStore!Idle \notin Doing
      /\ \A w \in Writer : job[w].at # "idle" => TableStore!Busy(w)
  BY <1>0 DEF TableStore!Busy, Doing, TableStore!Idle
<1>1. CASE UNCHANGED tableVars
  BY <1>1 DEF tableVars, TableInv, TableTypes, TableStore!Busy, Writing, FileWhole
<1>2. ASSUME NEW w \in Writer, NEW t \in Tables, NEW f \in {"csv", "feather"}, TableStore!Open(w, t, f)
      PROVE TableInv'
  <2> DEFINE new == [table |-> t, format |-> f, whole |-> FALSE]
             begun == [at |-> "open", format |-> f, table |-> t, inode |-> named'.tmp]
  <2>1. PICK n \in Nat : n = IF named.tmp = 0 THEN Len(inode) + 1 ELSE named.tmp
    BY <1>0
  <2>2. /\ named' = [named EXCEPT !.tmp = n] /\ job' = [job EXCEPT ![w] = begun] /\ UNCHANGED last
        /\ inode' = IF named.tmp = 0 THEN Append(inode, new) ELSE [inode EXCEPT ![n] = new]
        /\ ~TableStore!Busy(w) /\ muddle' = (muddle \/ \E v \in Writer : TableStore!Busy(v))
    BY <1>0, <1>2, <2>1 DEF TableStore!Open
  <2>3. new \in Inode /\ begun \in Doing /\ begun.inode = n
    BY <1>0, <2>1, <2>2 DEF Inode, Doing
  <2>4. /\ named' \in [file : Nat, tmp : Nat] /\ named'.tmp = n /\ named'.file = named.file /\ n # 0
        /\ n # named.file
    BY <1>0, <2>1, <2>2 DEF TableTypes
  <2> HIDE DEF new
  <2>5. /\ inode' \in Seq(Inode) /\ Len(inode') >= Len(inode) /\ n \in 1 .. Len(inode') /\ inode'[n] = new
        /\ \A i \in 1 .. Len(inode) : i # n => inode'[i] = inode[i]
    <3>1. CASE named.tmp = 0
      BY <1>0, <2>1, <2>2, <2>3, <3>1
    <3>2. CASE named.tmp # 0
      BY <1>0, <2>1, <2>2, <2>3, <3>2
    <3> QED BY <3>1, <3>2
  <2>6. TableTypes'
    <3>1. job' \in [Writer -> Doing \cup {TableStore!Idle}] /\ muddle' \in BOOLEAN
      BY <1>0, <2>2, <2>3
    <3>2. named'.file <= Len(inode') /\ named'.tmp <= Len(inode')
      BY <1>0, <2>4, <2>5 DEF TableTypes
    <3> QED BY <1>0, <2>2, <2>4, <2>5, <3>1, <3>2 DEF TableTypes
  <2>7. ASSUME ~muddle' PROVE FileWhole'
    <3>1. FileWhole
      BY <2>2, <2>7 DEF TableInv
    <3>2. named.file # 0 => inode'[named.file] = inode[named.file]
      BY <1>0, <2>4, <2>5
    <3> QED BY <2>2, <2>4, <3>1, <3>2 DEF FileWhole
  <2>8. ASSUME ~muddle', NEW v \in Writer, TableStore!Busy(v)' PROVE v = w /\ Writing(v)'
    <3>1. v = w
      BY <1>0, <2>2, <2>8 DEF TableStore!Busy
    <3>2. job'[w] = begun
      BY <1>0, <2>2
    <3> QED BY <2>3, <2>4, <2>5, <3>1, <3>2 DEF Writing, new
  <2> QED BY <2>4, <2>6, <2>7, <2>8 DEF TableInv
<1>3. ASSUME NEW w \in Writer, NEW fits \in BOOLEAN, TableStore!WriteAll(w, fits) PROVE TableInv'
  <2>0. job[w] \in Doing /\ job[w].at = "open"
    BY <1>a, <1>3 DEF TableStore!WriteAll
  <2>1. PICK n \in Nat : n = job[w].inode
    BY <2>0 DEF Doing
  <2>2. PICK b \in BOOLEAN : b = ~(fits \/ ~TableStore!Supported(job[w].table))
    OBVIOUS
  <2>3. PICK j \in Doing \cup {TableStore!Idle} : /\ job' = [job EXCEPT ![w] = j]
                         /\ \/ j = TableStore!Idle
                            \/ /\ j = [job[w] EXCEPT !.at = "written"]
                               /\ TableStore!Supported(job[w].table) /\ ~(fits /\ job[w].format = "feather")
    BY <2>0, <1>3 DEF TableStore!WriteAll, Doing
  <2>4. /\ inode' = [inode EXCEPT ![n].whole = b] /\ UNCHANGED <<named, last>> /\ job[w].at = "open"
        /\ muddle' = (muddle \/ (fits /\ job[w].format = "csv"))
    BY <1>3, <2>1, <2>2 DEF TableStore!WriteAll
  <2>5. /\ inode' \in Seq(Inode) /\ Len(inode') = Len(inode)
        /\ \A i \in 1 .. Len(inode) : /\ inode'[i] = IF i = n THEN [inode[i] EXCEPT !.whole = b] ELSE inode[i]
                                      /\ inode[i] \in Inode
    <3>1. \A i \in 1 .. Len(inode) : inode[i] \in Inode
      BY <1>0
    <3>2. PICK q : q = [inode[n] EXCEPT !.whole = b]
      OBVIOUS
    <3>3. inode' = [inode EXCEPT ![n] = q]
      BY <2>4, <3>2
    <3>4. CASE n \in 1 .. Len(inode)
      <4>1. q \in Inode
        BY <3>1, <3>2, <3>4 DEF Inode
      <4>2. inode' \in Seq(Inode) /\ Len(inode') = Len(inode)
        BY <1>0, <3>3, <3>4, <4>1
      <4>3. \A i \in 1 .. Len(inode) : inode'[i] = IF i = n THEN q ELSE inode[i]
        BY <1>0, <3>3
      <4> QED BY <3>1, <3>2, <4>2, <4>3
    <3>5. CASE n \notin 1 .. Len(inode)
      <4>1. inode' = inode
        BY <1>0, <3>3, <3>5
      <4> QED BY <1>0, <3>1, <3>5, <4>1
    <3> QED BY <3>4, <3>5
  <2>6. TableTypes'
    BY <1>0, <2>3, <2>4, <2>5 DEF TableTypes
  <2>7. ASSUME ~muddle' PROVE /\ Writing(w) /\ FileWhole /\ n = named.tmp /\ n # named.file /\ TableStore!Busy(w)
                              /\ n \in 1 .. Len(inode)
    BY <1>0, <2>1, <2>4, <2>7 DEF TableInv, TableStore!Busy, Writing
  <2>8. ASSUME ~muddle' PROVE FileWhole'
    <3>1. named.file # 0 => inode'[named.file] = inode[named.file]
      BY <1>0, <2>5, <2>7, <2>8
    <3> QED BY <2>4, <2>7, <2>8, <3>1 DEF FileWhole
  <2>9. ASSUME ~muddle', NEW v \in Writer, TableStore!Busy(v)' PROVE v = w /\ Writing(v)'
    <3>1. v = w
      <4>1. TableStore!Busy(v)
        BY <1>0, <2>3, <2>4, <2>9 DEF TableStore!Busy
      <4> QED BY <2>4, <2>7, <2>9, <4>1 DEF TableInv
    <3>2. job'[w] = j /\ j # TableStore!Idle
      BY <1>0, <2>3, <2>9, <3>1 DEF TableStore!Busy, TableStore!Idle
    <3>3. j = [job[w] EXCEPT !.at = "written"] /\ b
      BY <1>0, <2>2, <2>3, <2>4, <2>9, <3>2 DEF Doing, Writing
    <3>4. inode'[n] = [inode[n] EXCEPT !.whole = b] /\ inode[n] \in Inode
      BY <2>5, <2>7, <2>9
    <3>5. inode'[n].whole /\ inode'[n].table = inode[n].table /\ inode'[n].format = inode[n].format
      BY <3>3, <3>4 DEF Inode
    <3>7. j.inode = job[w].inode /\ j.table = job[w].table /\ j.format = job[w].format
      BY <2>0, <3>3 DEF Doing
    <3> QED BY <2>4, <2>7, <2>9, <3>1, <3>2, <3>5, <3>7 DEF Writing
  <2> QED BY <1>0, <2>4, <2>6, <2>8, <2>9 DEF TableInv
<1>4. ASSUME NEW w \in Writer, TableStore!Rename(w) PROVE TableInv'
  <2>1. /\ job' = [job EXCEPT ![w] = TableStore!Idle] /\ UNCHANGED <<inode, muddle>> /\ job[w].at = "written"
        /\ named' = IF named.tmp = 0 THEN named ELSE [file |-> named.tmp, tmp |-> 0]
        /\ last' = <<job[w].table, job[w].format>>
    BY <1>4 DEF TableStore!Rename, TableStore!Ends
  <2>2. job[w] \in Doing /\ TableStore!Busy(w) /\ <<job[w].table, job[w].format>> \in Tables \X {"csv", "feather"}
    BY <1>a, <2>1 DEF Doing
  <2>3. TableTypes'
    BY <1>0, <2>1, <2>2 DEF TableTypes
  <2>4. \A v \in Writer : TableStore!Busy(v)' => TableStore!Busy(v) /\ v # w
    BY <1>0, <2>1 DEF TableStore!Busy, TableStore!Idle
  <2>5. ASSUME ~muddle' PROVE FileWhole' /\ \A v \in Writer : ~TableStore!Busy(v)'
    <3>1. Writing(w)
      BY <2>1, <2>2, <2>5 DEF TableInv
    <3>2. \A v \in Writer : ~TableStore!Busy(v)'
      BY <2>1, <2>2, <2>4, <2>5 DEF TableInv
    <3> QED BY <1>0, <2>1, <3>1, <3>2 DEF Writing, FileWhole
  <2> QED BY <1>0, <2>1, <2>3, <2>5 DEF TableInv
<1>5. ASSUME NEW w \in Writer, TableStore!Killed(w) PROVE TableInv'
  <2>1. job' = [job EXCEPT ![w] = TableStore!Idle] /\ UNCHANGED <<inode, named, last, muddle>>
    BY <1>5 DEF TableStore!Killed, TableStore!Ends
  <2>2. TableStore!Idle.at = "idle"
    BY DEF TableStore!Idle
  <2>3. TableTypes'
    BY <1>0, <2>1, <2>2 DEF TableTypes
  <2>4. \A v \in Writer : TableStore!Busy(v)' => TableStore!Busy(v) /\ job'[v] = job[v]
    BY <1>0, <2>1, <2>2 DEF TableStore!Busy
  <2> QED BY <2>1, <2>3, <2>4 DEF TableInv, Writing, FileWhole
<1> QED BY <1>1, <1>2, <1>3, <1>4, <1>5 DEF TableStore!Next

\* What the columns that TableSurvives is about become in their readers.
LEMMA ColumnRead ==
  ASSUME NEW t \in Tables, NEW i \in DOMAIN t, NEW f \in {"csv", "feather"},
         t[i].type \in {1, 3},
         f = "csv" => TableStore!Survives(t[i]) /\ ~TableStore!Throws(t[i])
  PROVE \E g \in IF f = "csv" THEN TableStore!ReadCsvColumn(t[i]) ELSE TableStore!table2id(t[i]) :
           g.name = t[i].name /\ g.rows = t[i].rows
<1>0. PICK c : c = t[i]
  OBVIOUS
<1> DEFINE cells == [k \in DOMAIN c.rows |-> TableStore!Printed(c.type, c.rows[k])]
<1>1. /\ c.rows \in Seq(TableStore!Cell) /\ c.type \in {1, 3}
      /\ c.type = 1 => TableStore!ToSet(c.rows) \subseteq {"num", "frac", "long", "nan"}
      /\ c.type = 3 => TableStore!ToSet(c.rows) \subseteq {"num", "long"}
      /\ f = "csv" => TableStore!Survives(c)
  BY <1>0, TablesAssumption
<1>2. CASE f = "feather"
  <2>1. c.type \notin {4, 6} /\ c.type # 2
    BY <1>1
  <2>2. [name |-> c.name, type |-> c.type, rows |-> c.rows] \in TableStore!table2id(c)
    BY <2>1 DEF TableStore!table2id, TableStore!Column
  <2> QED BY <1>0, <1>2, <2>2
<1>3. CASE f = "csv"
  <2>1. ASSUME NEW k \in DOMAIN c.rows
        PROVE /\ c.rows[k] \in {"num", "frac", "long"}
              /\ c.rows[k] = "long" => c.type # 1
              /\ c.name \in TableStore!Keys => c.rows[k] # "frac"
    <3>1. c.rows[k] \in TableStore!ToSet(c.rows)
      BY DEF TableStore!ToSet
    <3> QED BY <1>1, <1>3, <3>1 DEF TableStore!Survives
  <2>2. ASSUME NEW k \in DOMAIN c.rows
        PROVE TableStore!Printed(c.type, c.rows[k]) = c.rows[k] /\ TableStore!Number(c.rows[k]) = c.rows[k]
    <3>1. c.rows[k] # "" /\ c.rows[k] # "digits"
      BY <2>1
    <3>2. c.rows[k] = "long" => c.type \notin {1, 2}
      BY <1>1, <2>1
    <3> QED BY <3>1, <3>2 DEF TableStore!Printed, TableStore!Number
  <2>3. cells = c.rows
    <3>1. c.rows = [k \in DOMAIN c.rows |-> c.rows[k]]
      BY <1>1
    <3> QED BY <2>2, <3>1
  <2>4. TableStore!is_double_vec(cells)
    BY <2>1, <2>3 DEF TableStore!is_double_vec
  <2>5. [k \in DOMAIN cells |-> TableStore!Number(cells[k])] = c.rows
    <3>1. c.rows = [k \in DOMAIN c.rows |-> c.rows[k]]
      BY <1>1
    <3> HIDE DEF cells
    <3> QED BY <2>2, <2>3, <3>1
  <2>6. \E g \in TableStore!ReadCsvColumn(c) : g.name = c.name /\ g.rows = c.rows
    <3>1. TableStore!ReadCsvColumn(c) = IF c.name \in TableStore!Keys
                                        THEN TableStore!Column(c, 3, [k \in DOMAIN cells |-> TableStore!stoi(cells[k])])
                                        ELSE TableStore!Column(c, 1, [k \in DOMAIN cells |-> TableStore!Number(cells[k])])
      BY <2>4 DEF TableStore!ReadCsvColumn
    <3>2. ASSUME NEW y PROVE \E g \in TableStore!Column(c, y, c.rows) : g.name = c.name /\ g.rows = c.rows
      BY DEF TableStore!Column
    <3>4. c.name \in TableStore!Keys => [k \in DOMAIN cells |-> TableStore!stoi(cells[k])] = c.rows
      <4>1. c.rows = [k \in DOMAIN c.rows |-> c.rows[k]]
        BY <1>1
      <4>2. \A k \in DOMAIN c.rows : c.name \in TableStore!Keys => TableStore!stoi(c.rows[k]) = c.rows[k]
        BY <2>1 DEF TableStore!stoi
      <4> HIDE DEF cells
      <4> QED BY <2>3, <4>1, <4>2
    <3> HIDE DEF cells
    <3>3. TableStore!ReadCsvColumn(c) = IF c.name \in TableStore!Keys THEN TableStore!Column(c, 3, c.rows)
                                        ELSE TableStore!Column(c, 1, c.rows)
      BY <2>5, <3>1, <3>4
    <3> QED BY <3>2, <3>3
  <2> QED BY <1>0, <1>3, <2>6
<1> QED BY <1>2, <1>3

(* As far as no two writes overlapped and no csv met a full disk, the file   *)
(* is the whole of the table last written, whoever is killed and whatever    *)
(* else fails, and the columns of numbers that Survives names are read back  *)
(* as they were given.                                                       *)
THEOREM WholeTables == TableSpec => []TableSurvives
<1>1. TableInv /\ [TableStore!Next]_tableVars => TableInv'
  BY TableStep
<1>2. TableInv => TableSurvives
  <2> SUFFICES ASSUME TableInv, ~muddle PROVE TableSurvives
    BY DEF TableSurvives, TableStore!TableSurvives
  <2>1. CASE last = <<>>
    BY <2>1 DEF TableInv, FileWhole, TableSurvives, TableStore!TableSurvives
  <2>2. CASE last # <<>>
    <3>1. PICK f : f = inode[named.file]
      OBVIOUS
    <3>2. /\ f.whole /\ f.table = last[1] /\ f.format = last[2] /\ f.table \in Tables /\ f.format \in {"csv", "feather"}
      BY <2>2, <3>1 DEF TableInv, TableTypes, FileWhole
    <3>3. ASSUME ~TableStore!Fails(f), NEW i \in DOMAIN f.table, f.table[i].type \in {1, 3},
                 f.format = "csv" => TableStore!Survives(f.table[i])
          PROVE \E g \in TableStore!Read(f) : g.name = f.table[i].name /\ g.rows = f.table[i].rows
      <4>1. PICK c : c = f.table[i]
        OBVIOUS
      <4>2. PICK g \in IF f.format = "csv" THEN TableStore!ReadCsvColumn(c) ELSE TableStore!table2id(c) :
                  g.name = c.name /\ g.rows = c.rows
        <5>1. f.format = "csv" => ~TableStore!Throws(f.table[i])
          BY <3>3 DEF TableStore!Fails
        <5> QED BY <3>2, <3>3, <4>1, <5>1, ColumnRead
      <4>3. c \in TableStore!ToSet(f.table)
        BY <4>1 DEF TableStore!ToSet
      <4> QED BY <3>3, <4>1, <4>2, <4>3 DEF TableStore!Read
    <3> QED BY <2>2, <3>1, <3>2, <3>3 DEF TableSurvives, TableStore!TableSurvives
  <2> QED BY <2>1, <2>2
<1> QED BY TableFirst, <1>1, <1>2, PTL DEF TableSpec
-----------------------------------------------------------------------------
(* Admin: any number of commands at any times, however the steps of server   *)
(* and client interleave and whoever goes down.                              *)

OwnCmd == <<client.cmd, client.cmd>>
Copy == Nat \X Nat

MailTypes ==
  /\ time \in Nat \ {0} /\ owed \in BOOLEAN /\ astray \in BOOLEAN
  /\ box \in [cmd : Copy, ret : Copy, cmdTime : Nat, retTime : Nat, pid : {"none", "client", "server"}]
  /\ box.cmdTime <= time /\ box.retTime <= time
  /\ server \in [pc : {"down", "idle", "copy", "answer", "half", "stamp"}, last : Nat, doing : Copy, done : SUBSET Copy]
  /\ client \in [pc : {"idle", "half", "stamp", "wait"}, link : {"none", "read", "write"}, cmd : Nat, got : Copy]

\* What the server has read in this life: whole commands, before the n-th.
ReadBefore(n) == \A d \in server.done \cup {server.doing} : d[1] = d[2] /\ d[1] < n

\* The server has nothing to do: it reads a command only when its stamp changes.
Resting == server.pc = "down" \/ (server.pc = "idle" /\ server.last = box.cmdTime)

\* The client's command is whole in the box, and the server, if it lives, is
\* about to read it, or has read it and not before.
Serving ==
  /\ box.cmd = OwnCmd /\ client.cmd > 0
  /\ \/ server.pc = "down"
     \/ server.pc = "idle" /\ server.last < box.cmdTime /\ ReadBefore(client.cmd)
     \/ server.pc = "copy" /\ server.last = box.cmdTime /\ ReadBefore(client.cmd)
     \/ /\ server.pc \in {"answer", "half", "stamp", "idle"} /\ server.last = box.cmdTime
        /\ server.doing = OwnCmd /\ \A d \in server.done : d[1] < client.cmd
        /\ server.pc = "half" => box.ret[1] = client.cmd
        /\ server.pc \in {"stamp", "idle"} => box.ret = OwnCmd

Answered == \/ box.cmdTime = 0 /\ client.got = Mailbox!None /\ client.cmd = 0
            \/ box.retTime > box.cmdTime /\ client.got = OwnCmd

\* Where the server may be, by where the client is.
AtClient ==
  /\ client.pc # "idle" => ~owed /\ client.got = Mailbox!None /\ client.cmd > 0
  /\ owed => client.got = Mailbox!None /\ (Resting \/ Serving)
  /\ client.pc = "idle" /\ ~owed => Resting /\ Answered
  /\ client.pc \in {"half", "stamp"} =>
       /\ Resting /\ ReadBefore(client.cmd) /\ box.cmd[1] = client.cmd
       /\ box.cmdTime = 0 \/ box.retTime > box.cmdTime
       /\ client.pc = "stamp" => box.cmd = OwnCmd
  /\ client.pc = "wait" => /\ Serving /\ box.cmdTime > 0
                           /\ box.retTime > box.cmdTime => box.ret = OwnCmd /\ Resting

ReadOnce == ReadBefore(client.cmd + 1) /\ (\A c \in server.done : c[1] < server.doing[1])

MailInv == MailTypes /\ (~astray => AtClient /\ ReadOnce)

LEMMA MailFirst == Mailbox!Init => MailInv
<1> SUFFICES ASSUME Mailbox!Init PROVE MailInv
  OBVIOUS
<1> USE DEF Mailbox!Init, Mailbox!NewServer, Mailbox!NewClient, Mailbox!None
<1>1. MailTypes
  <2>1. <<0, 0>> \in Copy /\ {} \in SUBSET Copy
    BY DEF Copy
  <2>2. box \in [cmd : Copy, ret : Copy, cmdTime : Nat, retTime : Nat, pid : {"none", "client", "server"}]
    BY <2>1
  <2>3. server \in [pc : {"down", "idle", "copy", "answer", "half", "stamp"}, last : Nat, doing : Copy, done : SUBSET Copy]
    BY <2>1
  <2>4. client \in [pc : {"idle", "half", "stamp", "wait"}, link : {"none", "read", "write"}, cmd : Nat, got : Copy]
    BY <2>1
  <2>5. box.cmdTime <= time /\ box.retTime <= time /\ time \in Nat \ {0}
    OBVIOUS
  <2>6. owed \in BOOLEAN /\ astray \in BOOLEAN
    OBVIOUS
  <2> HIDE DEF Mailbox!Init
  <2> QED BY <2>2, <2>3, <2>4, <2>5, <2>6 DEF MailTypes
<1>2. AtClient /\ ReadOnce
  BY DEF AtClient, ReadOnce, ReadBefore, Resting, Answered
<1> QED BY <1>1, <1>2 DEF MailInv

LEMMA MailStep == MailInv /\ [Mailbox!Next]_adminVars => MailInv'
<1> SUFFICES ASSUME MailInv, [Mailbox!Next]_adminVars PROVE MailInv'
  OBVIOUS
<1>0. /\ MailTypes /\ time \in Nat \ {0} /\ box.cmdTime \in Nat /\ box.retTime \in Nat
      /\ box.cmdTime <= time /\ box.retTime <= time
      /\ server.last \in Nat /\ client.cmd \in Nat /\ box.cmd \in Copy /\ box.ret \in Copy
      /\ server.doing \in Copy /\ server.done \subseteq Copy /\ client.got \in Copy
      /\ client.pc \in {"idle", "half", "stamp", "wait"} /\ owed \in BOOLEAN
      /\ server.pc \in {"down", "idle", "copy", "answer", "half", "stamp"}
      /\ ~astray => AtClient /\ ReadOnce
  BY DEF MailInv, MailTypes
<1>a. ASSUME ~astray, ~Resting PROVE Serving
  BY <1>0, <1>a DEF AtClient
<1>1. CASE UNCHANGED adminVars
  BY <1>0, <1>1 DEF adminVars, MailInv, MailTypes, AtClient, ReadOnce, ReadBefore, Resting, Serving, Answered, OwnCmd
<1>2. CASE Mailbox!Tick
  BY <1>0, <1>2 DEF Mailbox!Tick, MailInv, MailTypes, AtClient, ReadOnce, ReadBefore, Resting, Serving, Answered, OwnCmd
<1>3. CASE Mailbox!OpenForCreate
  <2>1. /\ server'.pc = "idle" /\ server'.last = 0 /\ server'.doing = <<0, 0>> /\ server'.done = {}
        /\ box'.cmd = box.cmd /\ box'.ret = box.ret /\ box'.cmdTime = box.cmdTime /\ box'.retTime = box.retTime
        /\ astray' = (astray \/ (box.cmdTime > 0 /\ (client.pc # "wait" \/ box.retTime > box.cmdTime)))
        /\ server.pc = "down" /\ UNCHANGED <<time, client, owed>>
    BY <1>0, <1>3 DEF Mailbox!OpenForCreate, Mailbox!NewServer, Mailbox!None, Mailbox!Serves, MailTypes
  <2>2. MailTypes'
    BY <1>0, <1>3 DEF Mailbox!OpenForCreate, Mailbox!NewServer, Mailbox!None, MailTypes, Copy
  <2>3. ASSUME ~astray' PROVE AtClient' /\ ReadOnce'
    <3>1. ReadOnce' /\ (client.cmd > 0 => ReadBefore(client.cmd)')
      BY <1>0, <2>1 DEF ReadOnce, ReadBefore, Mailbox!None
    <3>2. AtClient /\ ~astray
      BY <1>0, <2>1, <2>3
    <3>3. CASE box.cmdTime = 0
      <4>1. Resting' /\ client.pc # "wait"
        BY <2>1, <3>2, <3>3 DEF AtClient, Resting
      <4> QED BY <1>0, <2>1, <3>1, <3>2, <3>3, <4>1 DEF AtClient, Answered, OwnCmd
    <3>4. CASE client.pc = "wait" /\ box.retTime <= box.cmdTime /\ box.cmdTime > 0
      <4>1. Serving'
        BY <1>0, <2>1, <3>1, <3>2, <3>4 DEF AtClient, Serving, OwnCmd
      <4> QED BY <1>0, <2>1, <3>1, <3>2, <3>4, <4>1 DEF AtClient
    <3>5. box.cmdTime = 0 \/ (client.pc = "wait" /\ box.retTime <= box.cmdTime /\ box.cmdTime > 0)
      <4>1. ~(box.cmdTime > 0 /\ (client.pc # "wait" \/ box.retTime > box.cmdTime))
        BY <2>1, <2>3
      <4> QED BY <1>0, <4>1
    <3> QED BY <3>3, <3>4, <3>5
  <2> QED BY <2>2, <2>3 DEF MailInv
<1>4. CASE Mailbox!ServerDown
  <2>1. /\ server'.pc = "down" /\ server'.doing = <<0, 0>> /\ server'.done = {}
        /\ UNCHANGED <<time, box, client, owed, astray>>
    BY <1>0, <1>4 DEF Mailbox!ServerDown, Mailbox!NewServer, Mailbox!None
  <2>2. MailTypes'
    BY <1>0, <1>4 DEF Mailbox!ServerDown, Mailbox!NewServer, Mailbox!None, MailTypes, Copy
  <2>3. ASSUME ~astray' PROVE AtClient' /\ ReadOnce'
    BY <1>0, <2>1, <2>3 DEF AtClient, ReadOnce, ReadBefore, Resting, Serving, Answered, OwnCmd, Mailbox!None
  <2> QED BY <2>2, <2>3 DEF MailInv
<1>5. CASE Mailbox!ReadTime
  <2>1. /\ server.pc = "idle" /\ box.cmdTime > server.last /\ server'.pc = "copy" /\ server'.last = box.cmdTime
        /\ server'.doing = server.doing /\ server'.done = server.done
        /\ UNCHANGED <<time, box, client, owed, astray>>
    BY <1>0, <1>5 DEF Mailbox!ReadTime, Mailbox!Quiet, MailTypes
  <2>2. MailTypes'
    BY <1>0, <1>5 DEF Mailbox!ReadTime, Mailbox!Quiet, MailTypes
  <2>3. ASSUME ~astray' PROVE AtClient' /\ ReadOnce'
    BY <1>0, <2>1, <2>3 DEF AtClient, ReadOnce, ReadBefore, Resting, Serving, Answered, OwnCmd, Mailbox!None
  <2> QED BY <2>2, <2>3 DEF MailInv
<1>6. CASE Mailbox!CopyCmd
  <2>1. /\ server.pc = "copy" /\ server'.pc = "answer" /\ server'.last = server.last
        /\ server'.doing = box.cmd /\ server'.done = server.done \cup {server.doing}
        /\ UNCHANGED <<time, box, client, owed, astray>>
    BY <1>0, <1>6 DEF Mailbox!CopyCmd, Mailbox!Quiet, MailTypes
  <2>2. MailTypes'
    BY <1>0, <1>6 DEF Mailbox!CopyCmd, Mailbox!Quiet, MailTypes
  <2>3. ASSUME ~astray' PROVE AtClient' /\ ReadOnce'
    <3>1. Serving /\ ~Resting /\ ReadBefore(client.cmd) /\ server.last = box.cmdTime
      BY <1>0, <1>a, <2>1, <2>3 DEF Resting, Serving
    <3>2. Serving' /\ ~Resting'
      BY <1>0, <2>1, <3>1 DEF Serving, Resting, ReadBefore, OwnCmd
    <3>3. ReadOnce'
      <4>1. server'.doing = OwnCmd /\ OwnCmd[1] = client.cmd /\ OwnCmd[2] = client.cmd
        BY <2>1, <3>1 DEF Serving, OwnCmd
      <4>2. \A d \in server'.done : d[1] = d[2] /\ d[1] < client.cmd
        BY <2>1, <3>1 DEF ReadBefore
      <4>3. ReadBefore(client.cmd + 1)'
        <5>1. \A d \in server'.done : d[1] \in Nat
          BY <1>0, <2>1 DEF Copy
        <5>2. \A d \in server'.done \cup {server'.doing} : d[1] = d[2] /\ d[1] < client.cmd + 1
          BY <1>0, <4>1, <4>2, <5>1
        <5> QED BY <2>1, <5>2 DEF ReadBefore
      <4>4. \A c \in server'.done : c[1] < server'.doing[1]
        BY <4>1, <4>2
      <4> QED BY <2>1, <4>3, <4>4 DEF ReadOnce
    <3> QED BY <1>0, <2>1, <2>3, <3>1, <3>2, <3>3 DEF AtClient, Answered, OwnCmd
  <2> QED BY <2>2, <2>3 DEF MailInv
<1>7. CASE Mailbox!WriteReturn
  <2>1. /\ server.pc \in {"answer", "half", "stamp"}
        /\ server'.pc = IF server.pc = "answer" THEN "half" ELSE IF server.pc = "half" THEN "stamp" ELSE "idle"
        /\ server'.last = server.last /\ server'.doing = server.doing /\ server'.done = server.done
        /\ box'.ret = (IF server.pc = "answer" THEN <<server.doing[1], box.ret[2]>>
                       ELSE IF server.pc = "half" THEN server.doing ELSE box.ret)
        /\ box'.cmd = box.cmd /\ box'.cmdTime = box.cmdTime
        /\ box'.retTime = IF server.pc = "stamp" THEN time ELSE box.retTime
        /\ UNCHANGED <<time, client, owed, astray>>
    BY <1>0, <1>7 DEF Mailbox!WriteReturn, Mailbox!Quiet, MailTypes
  <2>2. MailTypes'
    <3>1. PICK c, m : box' = [box EXCEPT !.ret = c, !.retTime = m]
      BY <1>7 DEF Mailbox!WriteReturn
    <3>2. c = box'.ret /\ m = box'.retTime
      BY <1>0, <3>1 DEF MailTypes
    <3>3. c \in Copy /\ m \in Nat /\ m <= time
      BY <1>0, <2>1, <3>2 DEF Copy
    <3>4. box' \in [cmd : Copy, ret : Copy, cmdTime : Nat, retTime : Nat, pid : {"none", "client", "server"}]
      BY <1>0, <3>1, <3>3 DEF MailTypes
    <3>5. server' = [server EXCEPT !.pc = server'.pc] /\ server'.pc \in {"half", "stamp", "idle"}
      BY <1>0, <1>7, <2>1 DEF Mailbox!WriteReturn, MailTypes
    <3>6. server' \in [pc : {"down", "idle", "copy", "answer", "half", "stamp"}, last : Nat, doing : Copy, done : SUBSET Copy]
      BY <1>0, <3>5 DEF MailTypes
    <3> QED BY <1>0, <2>1, <3>2, <3>3, <3>4, <3>6 DEF MailTypes
  <2>3. ASSUME ~astray' PROVE AtClient' /\ ReadOnce'
    <3>1. Serving /\ ~Resting
      BY <1>0, <1>a, <2>1, <2>3 DEF Resting
    <3>2. Serving' /\ (server.pc = "stamp" => Resting' /\ box'.ret = OwnCmd)
      BY <1>0, <2>1, <3>1 DEF Serving, Resting, ReadBefore, OwnCmd
    <3>3. ReadOnce'
      BY <1>0, <2>1, <2>3 DEF ReadOnce, ReadBefore
    <3> QED BY <1>0, <2>1, <2>3, <3>1, <3>2, <3>3 DEF AtClient, Answered, OwnCmd
  <2> QED BY <2>2, <2>3 DEF MailInv
<1>8. CASE Mailbox!OpenForRead \/ Mailbox!ClientCreates \/ Mailbox!IssueFaults
  <2>1. /\ client'.pc = client.pc /\ client'.cmd = client.cmd /\ client'.got = client.got
        /\ box'.cmd = box.cmd /\ box'.ret = box.ret /\ box'.cmdTime = box.cmdTime /\ box'.retTime = box.retTime
        /\ UNCHANGED <<time, server, owed, astray>>
    BY <1>0, <1>8 DEF Mailbox!OpenForRead, Mailbox!ClientCreates, Mailbox!IssueFaults, Mailbox!Asks, MailTypes
  <2>2. MailTypes'
    BY <1>0, <1>8 DEF Mailbox!OpenForRead, Mailbox!ClientCreates, Mailbox!IssueFaults, Mailbox!Asks, MailTypes
  <2>3. ASSUME ~astray' PROVE AtClient' /\ ReadOnce'
    BY <1>0, <2>1, <2>3 DEF AtClient, ReadOnce, ReadBefore, Resting, Serving, Answered, OwnCmd
  <2> QED BY <2>2, <2>3 DEF MailInv
<1>9. CASE Mailbox!IssueCmd
  <2>1. /\ client.pc \in {"idle", "half", "stamp"}
        /\ client'.pc = IF client.pc = "idle" THEN "half" ELSE IF client.pc = "half" THEN "stamp" ELSE "wait"
        /\ client'.cmd = (IF client.pc = "idle" THEN client.cmd + 1 ELSE client.cmd) /\ client'.got = Mailbox!None
        /\ box'.cmd = (IF client.pc = "idle" THEN <<client.cmd + 1, box.cmd[2]>>
                       ELSE IF client.pc = "half" THEN <<client.cmd, client.cmd>> ELSE box.cmd)
        /\ box'.cmdTime = (IF client.pc = "stamp" THEN time ELSE box.cmdTime)
        /\ box'.ret = box.ret /\ box'.retTime = box.retTime
        /\ UNCHANGED <<time, server, owed>> /\ astray' = (astray \/ owed)
    BY <1>0, <1>9 DEF Mailbox!IssueCmd, Mailbox!Asks, MailTypes
  <2>2. MailTypes'
    <3>1. PICK c, m : box' = [box EXCEPT !.cmd = c, !.cmdTime = m]
      BY <1>9 DEF Mailbox!IssueCmd
    <3>2. c = box'.cmd /\ m = box'.cmdTime
      BY <1>0, <3>1 DEF MailTypes
    <3>3. c \in Copy /\ m \in Nat /\ m <= time
      BY <1>0, <2>1, <3>2 DEF Copy
    <3>4. box' \in [cmd : Copy, ret : Copy, cmdTime : Nat, retTime : Nat, pid : {"none", "client", "server"}]
      BY <1>0, <3>1, <3>3 DEF MailTypes
    <3>5. PICK q, n : client' = [client EXCEPT !.pc = q, !.cmd = n, !.got = <<0, 0>>]
      BY <1>9 DEF Mailbox!IssueCmd, Mailbox!None
    <3>6. q = client'.pc /\ n = client'.cmd /\ <<0, 0>> \in Copy
      BY <1>0, <3>5 DEF MailTypes, Copy
    <3>7. q \in {"half", "stamp", "wait"} /\ n \in Nat
      BY <1>0, <2>1, <3>6
    <3>8. client' \in [pc : {"idle", "half", "stamp", "wait"}, link : {"none", "read", "write"}, cmd : Nat, got : Copy]
      BY <1>0, <3>5, <3>6, <3>7 DEF MailTypes
    <3> QED BY <1>0, <2>1, <3>2, <3>3, <3>4, <3>8 DEF MailTypes
  <2>3. ASSUME ~astray' PROVE AtClient' /\ ReadOnce'
    <3>1. ~owed /\ AtClient /\ ReadOnce /\ Resting
      BY <1>0, <2>1, <2>3 DEF AtClient
    <3>2. CASE client.pc = "idle"
      <4>1. /\ client'.pc = "half" /\ client'.cmd = client.cmd + 1 /\ box'.cmd[1] = client.cmd + 1
            /\ box'.cmdTime = box.cmdTime
        BY <2>1, <3>2
      <4>2. \A d \in server'.done \cup {server'.doing} : d[1] = d[2] /\ d[1] < client'.cmd /\ d[1] < client'.cmd + 1
        <5>1. \A d \in server.done \cup {server.doing} : d[1] \in Nat
          BY <1>0 DEF Copy
        <5> QED BY <1>0, <2>1, <3>1, <4>1, <5>1 DEF ReadOnce, ReadBefore
      <4>3. Resting' /\ ReadBefore(client.cmd)' /\ ReadOnce'
        BY <1>0, <2>1, <3>1, <4>1, <4>2 DEF Resting, ReadOnce, ReadBefore
      <4>4. box.cmdTime = 0 \/ box.retTime > box.cmdTime
        BY <3>1, <3>2 DEF AtClient, Answered
      <4> QED BY <1>0, <2>1, <3>1, <4>1, <4>2, <4>3, <4>4 DEF AtClient
    <3>3. CASE client.pc = "half"
      BY <1>0, <2>1, <3>1, <3>3 DEF AtClient, ReadOnce, ReadBefore, Resting, OwnCmd
    <3>4. CASE client.pc = "stamp"
      BY <1>0, <2>1, <3>1, <3>4 DEF AtClient, ReadOnce, ReadBefore, Resting, Serving, OwnCmd
    <3> QED BY <2>1, <3>2, <3>3, <3>4
  <2> QED BY <2>2, <2>3 DEF MailInv
<1>10. CASE Mailbox!ReadReturn
  <2>1. /\ client.pc = "wait" /\ client'.pc = "idle" /\ client'.cmd = client.cmd
        /\ UNCHANGED <<time, box, server, astray>>
        /\ \/ box.retTime > box.cmdTime /\ client'.got = box.ret /\ UNCHANGED owed
           \/ client'.got = client.got /\ owed' = TRUE
    BY <1>0, <1>10 DEF Mailbox!ReadReturn, Mailbox!Asks, MailTypes
  <2>2. MailTypes'
    BY <1>0, <1>10 DEF Mailbox!ReadReturn, Mailbox!Asks, MailTypes
  <2>3. ASSUME ~astray' PROVE AtClient' /\ ReadOnce'
    BY <1>0, <2>1, <2>3 DEF AtClient, ReadOnce, ReadBefore, Resting, Serving, Answered, OwnCmd
  <2> QED BY <2>2, <2>3 DEF MailInv
<1>11. CASE Mailbox!ClientDown
  <2>1. /\ client.pc # "idle" /\ client'.pc = "idle" /\ client'.cmd = client.cmd /\ client'.got = client.got
        /\ owed' = TRUE /\ UNCHANGED <<time, box, server, astray>>
    BY <1>0, <1>11 DEF Mailbox!ClientDown, Mailbox!Asks, MailTypes
  <2>2. MailTypes'
    BY <1>0, <1>11 DEF Mailbox!ClientDown, Mailbox!Asks, MailTypes
  <2>3. ASSUME ~astray' PROVE AtClient' /\ ReadOnce'
    BY <1>0, <2>1, <2>3 DEF AtClient, ReadOnce, ReadBefore, Resting, Serving, OwnCmd
  <2> QED BY <2>2, <2>3 DEF MailInv
<1> QED BY <1>1, <1>2, <1>3, <1>4, <1>5, <1>6, <1>7, <1>8, <1>9, <1>10, <1>11 DEF Mailbox!Next

(* While each command is issued after the answer to the one before, and no   *)
(* server starts over an answered one, each life of the server reads whole   *)
(* commands, in order, none twice and none overlooked, and the client takes  *)
(* the answer to its own, whoever restarts at whatever other moment.         *)
THEOREM OwnAnswers == AdminSpec => []AnswersBelong
<1>1. MailInv /\ [Mailbox!Next]_adminVars => MailInv'
  BY MailStep
<1>2. MailInv => AnswersBelong
  BY DEF MailInv, MailTypes, AtClient, ReadOnce, ReadBefore, Answered, Serving, Resting, OwnCmd, AnswersBelong,
         Mailbox!AnswersBelong, Copy, Mailbox!None
<1> QED BY MailFirst, <1>1, <1>2, PTL DEF AdminSpec
-----------------------------------------------------------------------------
(* What the proofs about the days need: least numbers, and functions that    *)
(* are built step by step.                                                   *)

\* Every set of numbers has a least one.
LEMMA LessIsWellFounded ==
  IsWellFoundedOn({ss \in Nat \X Nat : ss[1] < ss[2]}, Nat)
BY NatLessThanWellFounded, Zenon DEF OpToRel

LEMMA LeastNat ==
  ASSUME NEW T \in SUBSET Nat, T # {}
  PROVE \E n \in T : \A m \in T : n <= m
<1> DEFINE R == {ss \in Nat \X Nat : ss[1] < ss[2]}
<1>1. IsWellFoundedOn(R, Nat)
  BY LessIsWellFounded
<1>2. PICK n \in T : \A m \in T : ~(<<m, n>> \in R)
  <2> HIDE DEF R
  <2> QED BY <1>1, WFMin
<1>3. ASSUME NEW m \in T, m < n PROVE FALSE
  <2>1. <<m, n>> \in Nat \X Nat /\ <<m, n>>[1] < <<m, n>>[2]
    BY <1>3
  <2>2. <<m, n>> \in R
    BY <2>1
  <2> QED BY <2>2, <1>2
<1> QED BY <1>2, <1>3

\* A set of numbers with 0 and the successor of each member below n has n.
LEMMA UpTo ==
  ASSUME NEW n \in Nat, NEW S, 0 \in S, \A i \in 1 .. n : i - 1 \in S => i \in S
  PROVE \A i \in 0 .. n : i \in S
<1> DEFINE T == {i \in 0 .. n : i \notin S}
<1> SUFFICES ASSUME T # {} PROVE FALSE
  OBVIOUS
<1>1. T \in SUBSET Nat
  OBVIOUS
<1> HIDE DEF T
<1>2. PICK i \in T : \A m \in T : i <= m
  BY <1>1, LeastNat
<1>3. i \in 0 .. n /\ i \notin S
  BY <1>2 DEF T
<1>4. i \in 1 .. n /\ i - 1 \in 0 .. n
  BY <1>3
<1>5. i - 1 \in S
  BY <1>2, <1>4 DEF T
<1> QED BY <1>3, <1>4, <1>5

\* What a recursion over 0 .. n gives when each step maps V to V.
Steps(n, V, a, s, f) == /\ f \in [0 .. n -> V] /\ f[0] = a
                        /\ \A k \in 1 .. n : f[k] = s[<<k, f[k - 1]>>]

LEMMA StepsExist ==
  ASSUME NEW n \in Nat, NEW V, NEW a \in V, NEW s \in [(1 .. n) \X V -> V]
  PROVE \E f : Steps(n, V, a, s, f)
<1> DEFINE T == {m \in Nat : m <= n => \E f : Steps(m, V, a, s, f)}
<1>1. 0 \in T
  <2> DEFINE f == [k \in 0 .. 0 |-> a]
  <2>1. Steps(0, V, a, s, f)
    BY DEF Steps
  <2> QED BY <2>1
<1>2. ASSUME NEW m \in 1 .. n, m - 1 \in T PROVE m \in T
  <2>1. PICK f : Steps(m - 1, V, a, s, f)
    BY <1>2
  <2>2. f[m - 1] \in V /\ <<m, f[m - 1]>> \in (1 .. n) \X V
    BY <2>1 DEF Steps
  <2>3. s[<<m, f[m - 1]>>] \in V
    BY <2>2
  <2> DEFINE g == [k \in 0 .. m |-> IF k = m THEN s[<<m, f[m - 1]>>] ELSE f[k]]
  <2>4. g \in [0 .. m -> V]
    BY <2>1, <2>3 DEF Steps
  <2>5. g[0] = a
    BY <2>1 DEF Steps
  <2>6. ASSUME NEW k \in 1 .. m PROVE g[k] = s[<<k, g[k - 1]>>]
    <3>1. CASE k = m
      <4>1. k - 1 \in 0 .. m /\ k - 1 # m
        BY <3>1
      <4> QED BY <3>1, <4>1
    <3>2. CASE k # m
      <4>1. k \in 1 .. m - 1 /\ k - 1 \in 0 .. m /\ k - 1 # m /\ k \in 0 .. m
        BY <3>2
      <4>2. g[k] = f[k] /\ g[k - 1] = f[k - 1]
        BY <3>2, <4>1
      <4>3. f[k] = s[<<k, f[k - 1]>>]
        BY <2>1, <4>1 DEF Steps
      <4> QED BY <4>2, <4>3
    <3> QED BY <3>1, <3>2
  <2> HIDE DEF g
  <2>7. Steps(m, V, a, s, g)
    BY <2>4, <2>5, <2>6 DEF Steps
  <2> QED BY <2>7
<1> HIDE DEF T
<1>3. n \in T
  BY <1>1, <1>2, UpTo
<1> QED BY <1>3 DEF T

-----------------------------------------------------------------------------
(* Clock: any lists of days in their order, and calls in any order.          *)

SortedDays(l) == l \in Seq(Int) /\ \A i, j \in 1 .. Len(l) : i < j => l[i] < l[j]
Inside(l, d) == l # <<>> /\ l[1] <= d /\ d <= l[Len(l)]

\* Where SetTradingDayInfo and AdjustTradingDay put the index for day d.
Place(l, d, i) == /\ Inside(l, d) /\ i \in 0 .. Len(l) - 1 /\ l[i + 1] >= d
                  /\ i > 0 => l[i] < d

\* The search upwards from a day not after d.
LEMMA FoundUp ==
  ASSUME NEW l, SortedDays(l), NEW d \in Int, Inside(l, d), NEW lo \in 0 .. Len(l) - 1, lo > 0 => l[lo + 1] <= d
  PROVE Place(l, d, Trading!Min({k \in lo .. Len(l) - 1 : l[k + 1] >= d}))
<1> DEFINE T == {k \in lo .. Len(l) - 1 : l[k + 1] >= d}
           i == Trading!Min(T)
<1>1. /\ l \in Seq(Int) /\ Len(l) \in Nat \ {0} /\ \A k \in 1 .. Len(l) : l[k] \in Int
      /\ \A k, j \in 1 .. Len(l) : k < j => l[k] < l[j]
  BY DEF SortedDays, Inside
<1>2. Len(l) - 1 \in T
  BY <1>1 DEF Inside
<1>3. T \in SUBSET Nat
  BY <1>1
<1> HIDE DEF T
<1>4. PICK n \in T : \A m \in T : n <= m
  BY <1>2, <1>3, LeastNat
<1>5. i \in T /\ \A m \in T : i <= m
  <2>1. \E m \in T : \A k \in T : m <= k
    BY <1>4
  <2> QED BY <2>1, Zenon DEF Trading!Min
<1> HIDE DEF i
<1>6. i \in lo .. Len(l) - 1 /\ l[i + 1] >= d
  BY <1>5 DEF T
<1>7. ASSUME i > 0 PROVE l[i] < d
  <2>1. CASE i = lo
    BY <2>1, <1>1, <1>6, <1>7
  <2>2. CASE i > lo
    <3>1. i - 1 \in lo .. Len(l) - 1 /\ (i - 1) + 1 = i /\ i \in 1 .. Len(l)
      BY <2>2, <1>6, <1>1
    <3>2. i - 1 \notin T
      BY <3>1, <1>5, <1>3
    <3>3. ~(l[i] >= d) /\ l[i] \in Int
      BY <3>1, <3>2, <1>1 DEF T
    <3> QED BY <3>3
  <2> QED BY <2>1, <2>2, <1>6, <1>1
<1>8. i \in 0 .. Len(l) - 1
  BY <1>6
<1>9. Place(l, d, i)
  BY <1>6, <1>7, <1>8 DEF Place
<1> QED BY <1>9 DEF i, T

\* The search downwards from the index, which ends at a day not after d.
LEMMA FoundDown ==
  ASSUME NEW l, SortedDays(l), NEW d \in Int, Inside(l, d), NEW hi \in 0 .. Len(l) - 1
  PROVE LET j == Trading!Max({k \in 0 .. hi : l[k + 1] <= d})
        IN j \in 0 .. Len(l) - 1 /\ l[j + 1] <= d
<1> DEFINE T == {k \in 0 .. hi : l[k + 1] <= d}
           j == Trading!Max(T)
           B == {n \in Nat : \A k \in T : k <= n}
<1>1. Len(l) \in Nat /\ hi \in Nat /\ hi <= Len(l) - 1
  BY DEF SortedDays
<1>2. 0 \in T /\ T \subseteq Nat
  BY <1>1 DEF Inside
<1>3. hi \in B
  BY <1>1
<1> HIDE DEF T
<1>4. PICK n \in B : \A m \in B : n <= m
  <2> B \in SUBSET Nat
    OBVIOUS
  <2> HIDE DEF B
  <2> QED BY <1>3, LeastNat
<1>5. n \in Nat /\ \A k \in T : k <= n
  BY <1>4
<1>6. n \in T
  <2> SUFFICES ASSUME n \notin T PROVE FALSE
    OBVIOUS
  <2>1. n # 0
    BY <1>2
  <2>2. \A k \in T : k <= n - 1
    BY <1>2, <1>5
  <2>3. n - 1 \in B
    BY <2>1, <2>2, <1>5
  <2> QED BY <2>3, <1>4, <1>5
<1>7. j \in T
  <2>1. \E m \in T : \A k \in T : m >= k
    BY <1>2, <1>5, <1>6
  <2> QED BY <2>1, Zenon DEF Trading!Max
<1> HIDE DEF j
<1>8. j \in 0 .. hi /\ l[j + 1] <= d
  BY <1>7 DEF T
<1>9. j \in 0 .. Len(l) - 1 /\ l[j + 1] <= d
  BY <1>8, <1>1
<1> QED BY <1>9 DEF j, T

\* What every clock is made of.
ClockShape(c) ==
  /\ c = [alive |-> c.alive, threw |-> c.threw, strict |-> c.strict, days |-> c.days, index |-> c.index,
          trading |-> c.trading, next |-> c.next, prev |-> c.prev, isTrading |-> c.isTrading,
          isPrev |-> c.isPrev, core |-> c.core, date |-> c.date, hour |-> c.hour]
  /\ c.alive \in BOOLEAN /\ c.threw \in BOOLEAN /\ c.strict \in BOOLEAN
  /\ c.isTrading \in BOOLEAN /\ c.isPrev \in BOOLEAN
  /\ c.core \in Trading!Instants /\ SortedDays(c.days)
  /\ c.days # <<>> => c.index \in 0 .. Len(c.days) - 1

\* The day's place in the list and what is read there.
Placed(c) ==
  /\ Place(c.days, c.core[1], c.index)
  /\ c.isTrading = (c.days[c.index + 1] = c.core[1])

\* What AdjustTradingDay leaves.
Adjusted(c, real) ==
  /\ Placed(c)
  /\ c.index > 0 => c.isPrev = (c.days[c.index] = real - 1)
  /\ c.trading = c.days[c.index + 1]
  /\ c.index + 2 <= Len(c.days) => c.next = c.days[c.index + 2]
  /\ c.prev = c.days[IF c.index > 0 THEN c.index ELSE 1]

LEMMA InstantIs ==
  ASSUME NEW k \in Trading!Instants
  PROVE k[1] \in Int /\ k[1] >= 0 /\ k[1] <= LastDay /\ k[2] \in {2, 12, 20} /\ k = <<k[1], k[2]>>
BY ClockAssumption DEF Trading!Instants, Trading!Hours

\* What SetTradingDayInfo makes of c and the list l.
Informed(s, c, l) ==
  /\ ClockShape(s) /\ s.days = l /\ s.core = c.core /\ s.strict = c.strict /\ s.alive = c.alive
  /\ s.threw = c.threw /\ Placed(s)
  /\ s.trading = l[s.index + 1]
  /\ s.index + 2 <= Len(l) => s.next = l[s.index + 2]
  /\ s.index > 0 => s.prev = l[s.index] /\ s.isPrev = (l[s.index] = now[1] - 1)

\* A list that does not reach the day throws and is kept.
LEMMA InfoIs ==
  ASSUME NEW c, ClockShape(c), NEW l, SortedDays(l), NEW w \in BOOLEAN, now \in Trading!Instants
  PROVE /\ Inside(l, c.core[1]) => Informed(Trading!SetTradingDayInfo(c, l, w), c, l)
        /\ ~Inside(l, c.core[1]) =>
              Trading!SetTradingDayInfo(c, l, w) = Trading!Throw([c EXCEPT !.days = l])
<1> DEFINE d == c.core[1]
           s == Trading!SetTradingDayInfo(c, l, w)
           i == Trading!Min({k \in 0 .. Len(l) - 1 : l[k + 1] >= d})
<1>1. d \in Int /\ c.core \in Trading!Instants
  BY InstantIs DEF ClockShape
<1>2. l \in Seq(Int) /\ Len(l) \in Nat /\ \A k \in 1 .. Len(l) : l[k] \in Int
  BY DEF SortedDays
<1>3. CASE ~Inside(l, d)
  <2>1. l = <<>> \/ l[1] > d \/ l[Len(l)] < d
    BY <1>1, <1>2, <1>3 DEF Inside
  <2>2. s = Trading!Throw([c EXCEPT !.days = l])
    BY <2>1 DEF Trading!SetTradingDayInfo
  <2> QED BY <1>3, <2>2
<1>4. CASE Inside(l, d)
  <2>1. ~(l = <<>> \/ l[1] > d \/ l[Len(l)] < d) /\ Len(l) # 0
    BY <1>1, <1>2, <1>4 DEF Inside
  <2>2. Place(l, d, i)
    <3>1. 0 \in 0 .. Len(l) - 1
      BY <1>2, <2>1
    <3>2. 0 > 0 => l[0 + 1] <= d
      OBVIOUS
    <3> QED BY <3>1, <3>2, <1>1, <1>4, FoundUp, Zenon
  <2>3. s = [c EXCEPT !.days = l, !.index = i, !.trading = l[i + 1],
                      !.next = IF i < Len(l) - 1 THEN l[i + 2] ELSE @, !.prev = IF i > 0 THEN l[i] ELSE @,
                      !.isTrading = l[i + 1] = d, !.isPrev = Trading!PrevIs(l, i, w)]
    BY <2>1, Zenon DEF Trading!SetTradingDayInfo
  <2> HIDE DEF s, i
  <2>4. i \in 0 .. Len(l) - 1
    BY <2>2 DEF Place
  <2>5. Trading!PrevIs(l, i, w) \in BOOLEAN
    BY DEF Trading!PrevIs
  <2>6. i > 0 => Trading!PrevIs(l, i, w) = (l[i] = now[1] - 1)
    BY <2>4, <1>2 DEF Trading!PrevIs, Trading!Listed, Trading!Yesterday
  <2>7. /\ s = [alive |-> c.alive, threw |-> c.threw, strict |-> c.strict, days |-> l, index |-> i,
                trading |-> l[i + 1], next |-> IF i < Len(l) - 1 THEN l[i + 2] ELSE c.next,
                prev |-> IF i > 0 THEN l[i] ELSE c.prev, isTrading |-> l[i + 1] = d,
                isPrev |-> Trading!PrevIs(l, i, w), core |-> c.core, date |-> c.date, hour |-> c.hour]
    BY <2>3 DEF ClockShape
  <2>8. /\ s.days = l /\ s.index = i /\ s.core = c.core /\ s.strict = c.strict /\ s.alive = c.alive
        /\ s.threw = c.threw /\ s.trading = l[i + 1] /\ s.isTrading = (l[i + 1] = d)
        /\ s.isPrev = Trading!PrevIs(l, i, w)
        /\ s.next = IF i < Len(l) - 1 THEN l[i + 2] ELSE c.next
        /\ s.prev = IF i > 0 THEN l[i] ELSE c.prev
        /\ s.date = c.date /\ s.hour = c.hour
    BY <2>7
  <2>9. ClockShape(s)
    <3>1. s.alive \in BOOLEAN /\ s.threw \in BOOLEAN /\ s.strict \in BOOLEAN /\ s.isTrading \in BOOLEAN
      BY <2>8 DEF ClockShape
    <3>2. s.isPrev \in BOOLEAN
      BY <2>5, <2>8
    <3>3. s = [alive |-> s.alive, threw |-> s.threw, strict |-> s.strict, days |-> s.days, index |-> s.index,
          trading |-> s.trading, next |-> s.next, prev |-> s.prev, isTrading |-> s.isTrading,
          isPrev |-> s.isPrev, core |-> s.core, date |-> s.date, hour |-> s.hour]
      BY <2>7
    <3> QED BY <1>1, <2>4, <2>8, <3>1, <3>2, <3>3 DEF ClockShape
  <2>10. s.index + 2 <= Len(l) => s.next = l[s.index + 2]
    BY <1>2, <2>4, <2>8
  <2>11. s.index > 0 => s.prev = l[s.index] /\ s.isPrev = (l[s.index] = now[1] - 1)
    BY <2>6, <2>8
  <2>12. Placed(s)
    BY <2>2, <2>8 DEF Placed
  <2>13. Informed(s, c, l)
    BY <2>8, <2>9, <2>10, <2>11, <2>12 DEF Informed
  <2> QED BY <1>4, <2>13, Zenon DEF s
<1> QED BY <1>3, <1>4, Zenon

\* What AdjustTradingDay reads from the list, once g has one that reaches day d.
Reads(g, d, w) ==
  LET l == g.days
      down == Trading!Max({k \in 0 .. g.index : l[k + 1] <= d})
      i == Trading!Min({k \in down .. Len(l) - 1 : l[k + 1] >= d})
      after == IF Len(l) > 1 /\ i > Len(l) - 2 THEN Len(l) - 1 ELSE i + 1
  IN [g EXCEPT !.index = i, !.trading = l[i + 1], !.next = Trading!Listed(l, after),
               !.prev = l[IF i > 0 THEN i ELSE 1],
               !.isTrading = l[i + 1] = d, !.isPrev = Trading!PrevIs(l, i, w)]

\* A clock a that was set from c, without its fields for trading time yet.
SetFrom(a, c) ==
  /\ ClockShape(a) /\ a.core = c.core /\ a.strict = c.strict /\ a.alive = c.alive /\ ~a.threw
  /\ Adjusted(a, now[1])

LEMMA ReadsIs ==
  ASSUME NEW g, ClockShape(g), ~g.threw, Inside(g.days, g.core[1]), NEW w \in BOOLEAN,
         now \in Trading!Instants
  PROVE SetFrom(Reads(g, g.core[1], w), g)
<1> DEFINE d == g.core[1]
           l == g.days
           down == Trading!Max({k \in 0 .. g.index : l[k + 1] <= d})
           i == Trading!Min({k \in down .. Len(l) - 1 : l[k + 1] >= d})
           after == IF Len(l) > 1 /\ i > Len(l) - 2 THEN Len(l) - 1 ELSE i + 1
           s == Reads(g, d, w)
<1>1. d \in Int /\ g.core \in Trading!Instants /\ now[1] \in Int
  BY InstantIs DEF ClockShape
<1>2. l \in Seq(Int) /\ Len(l) \in Nat /\ (\A k \in 1 .. Len(l) : l[k] \in Int) /\ SortedDays(l)
  BY DEF SortedDays, ClockShape
<1>3. g.index \in 0 .. Len(l) - 1
  BY DEF ClockShape, Inside
<1>4. down \in 0 .. Len(l) - 1 /\ l[down + 1] <= d
  BY <1>1, <1>2, <1>3, FoundDown, Zenon
<1>5. s = [g EXCEPT !.index = i, !.trading = l[i + 1], !.next = Trading!Listed(l, after),
               !.prev = l[IF i > 0 THEN i ELSE 1],
               !.isTrading = l[i + 1] = d, !.isPrev = Trading!PrevIs(l, i, w)]
  BY Zenon DEF Reads
<1> HIDE DEF s, down
<1>6. Place(l, d, i)
  BY <1>1, <1>2, <1>4, FoundUp, Zenon
<1> HIDE DEF i
<1>7. i \in 0 .. Len(l) - 1
  BY <1>6 DEF Place
<1>8. Trading!PrevIs(l, i, w) \in BOOLEAN
  BY DEF Trading!PrevIs
<1>9. i > 0 => Trading!PrevIs(l, i, w) = (l[i] = now[1] - 1)
  BY <1>2, <1>7 DEF Trading!PrevIs, Trading!Listed, Trading!Yesterday
<1>10. i + 2 <= Len(l) => Trading!Listed(l, after) = l[i + 2]
  BY <1>2, <1>7 DEF Trading!Listed
<1> HIDE DEF after
<1>11. s = [alive |-> g.alive, threw |-> g.threw, strict |-> g.strict, days |-> l, index |-> i,
            trading |-> l[i + 1], next |-> Trading!Listed(l, after), prev |-> l[IF i > 0 THEN i ELSE 1],
            isTrading |-> l[i + 1] = d, isPrev |-> Trading!PrevIs(l, i, w), core |-> g.core,
            date |-> g.date, hour |-> g.hour]
  BY <1>5 DEF ClockShape
<1>12. /\ s.days = l /\ s.index = i /\ s.core = g.core /\ s.strict = g.strict /\ s.alive = g.alive
       /\ s.threw = g.threw /\ s.trading = l[i + 1] /\ s.isTrading = (l[i + 1] = d)
       /\ s.isPrev = Trading!PrevIs(l, i, w) /\ s.next = Trading!Listed(l, after)
       /\ s.prev = l[IF i > 0 THEN i ELSE 1]
  BY <1>11
<1>13. ClockShape(s)
  <2>1. s.alive \in BOOLEAN /\ s.threw \in BOOLEAN /\ s.strict \in BOOLEAN /\ s.isTrading \in BOOLEAN
    BY <1>12 DEF ClockShape
  <2>2. s.isPrev \in BOOLEAN
    BY <1>8, <1>12
  <2>3. s = [alive |-> s.alive, threw |-> s.threw, strict |-> s.strict, days |-> s.days, index |-> s.index,
          trading |-> s.trading, next |-> s.next, prev |-> s.prev, isTrading |-> s.isTrading,
          isPrev |-> s.isPrev, core |-> s.core, date |-> s.date, hour |-> s.hour]
    BY <1>11
  <2> QED BY <1>1, <1>2, <1>7, <1>12, <2>1, <2>2, <2>3 DEF ClockShape
<1>14. Adjusted(s, now[1])
  <2>1. Placed(s)
    BY <1>6, <1>12 DEF Placed
  <2>2. s.index > 0 => s.isPrev = (s.days[s.index] = now[1] - 1)
    BY <1>9, <1>12
  <2>3. s.index + 2 <= Len(s.days) => s.next = s.days[s.index + 2]
    BY <1>10, <1>12
  <2> QED BY <1>12, <2>1, <2>2, <2>3 DEF Adjusted
<1> QED BY <1>12, <1>13, <1>14 DEF SetFrom, s

\* A strict clock throws when its list does not reach the day; any other takes the weekdays.
LEMMA AdjustIs ==
  ASSUME NEW c, ClockShape(c), ~c.threw, NEW w \in BOOLEAN, now \in Trading!Instants
  PROVE \/ Trading!AdjustTradingDay(c, w) = Trading!Throw(c)
        \/ SetFrom(Trading!AdjustTradingDay(c, w), c)
<1> DEFINE d == c.core[1]
           out == c.days = <<>> \/ c.days[1] > d \/ c.days[Len(c.days)] < d
           g == IF out THEN Trading!SetTradingDayInfo(c, Weekdays, w) ELSE c
           a == Trading!AdjustTradingDay(c, w)
<1>1. d \in Int /\ 0 <= d /\ d <= LastDay /\ now[1] \in Int
  BY InstantIs DEF ClockShape
<1>2. a = IF out /\ c.strict THEN Trading!Throw(c) ELSE IF c.days = <<>> \/ g.threw THEN g
          ELSE Reads(g, d, w)
  BY Zenon DEF Trading!AdjustTradingDay, Reads
<1>3. CASE out /\ c.strict
  BY <1>2, <1>3, Zenon
<1>4. CASE ~(out /\ c.strict) /\ out
  <2>1. SortedDays(Weekdays) /\ Inside(Weekdays, d)
    BY <1>1, ClockAssumption DEF SortedDays, Inside
  <2>2. Informed(g, c, Weekdays)
    <3>1. Informed(Trading!SetTradingDayInfo(c, Weekdays, w), c, Weekdays)
      BY <2>1, InfoIs, Zenon
    <3> QED BY <1>4, <3>1, Zenon
  <2> HIDE DEF g
  <2>3. ClockShape(g) /\ g.core = c.core /\ g.strict = c.strict /\ g.alive = c.alive /\ ~g.threw
        /\ g.days = Weekdays
    BY <2>2 DEF Informed
  <2>4. CASE c.days = <<>>
    <3>1. g.index > 0
      BY <2>2, <2>3, <1>1, ClockAssumption DEF Informed, Placed, Place
    <3>2. Adjusted(g, now[1])
      BY <2>2, <2>3, <3>1 DEF Informed, Adjusted
    <3>3. a = g
      BY <1>2, <1>4, <2>4, Zenon
    <3> QED BY <2>3, <3>2, <3>3 DEF SetFrom
  <2>5. CASE c.days # <<>>
    <3>1. a = Reads(g, g.core[1], w)
      BY <1>2, <1>4, <2>3, <2>5, Zenon
    <3>2. SetFrom(Reads(g, g.core[1], w), g)
      BY <2>1, <2>3, ReadsIs
    <3> QED BY <2>3, <3>1, <3>2 DEF SetFrom
  <2> QED BY <2>4, <2>5
<1>5. CASE ~out
  <2>1. Inside(c.days, d) /\ c.days # <<>>
    BY <1>1, <1>5 DEF Inside, ClockShape, SortedDays
  <2>2. g = c
    BY <1>5, Zenon
  <2> HIDE DEF g
  <2>3. a = Reads(c, d, w)
    BY <1>2, <1>5, <2>1, <2>2, Zenon
  <2> QED BY <2>1, <2>3, ReadsIs
<1> QED BY <1>3, <1>4, <1>5

\* The trading day shown, at night the one after the day's.
Fields(c) ==
  LET l == c.days
      i == c.index
  IN IF c.strict /\ Trading!Evening(c)
     THEN c.prev = l[i + 1] /\ c.trading = Trading!Listed(l, i + 1) /\ c.next = Trading!Listed(l, i + 2)
     ELSE /\ c.trading = l[i + 1] /\ (i + 2 <= Len(l) => c.next = l[i + 2])
          /\ c.prev = l[IF i > 0 THEN i ELSE 1]

\* What a call that sets every field on day real leaves.
Showing(c, real) ==
  /\ Placed(c)
  /\ c.index > 0 => c.isPrev = (c.days[c.index] = real - 1)
  /\ Fields(c)
  /\ c.hour = IF c.strict THEN Trading!TradingHour(c) ELSE c.core[2]

\* n is c but for the trading day, the date and the hour it shows.
Alike(n, c) ==
  /\ ClockShape(n) /\ n.core = c.core /\ n.strict = c.strict /\ n.alive = c.alive /\ n.threw = c.threw
  /\ n.days = c.days /\ n.index = c.index /\ n.isTrading = c.isTrading /\ n.isPrev = c.isPrev

Normal(n, c) ==
  IF c.strict /\ Trading!Evening(c)
  THEN /\ n.prev = Trading!Listed(c.days, c.index) /\ n.trading = Trading!Listed(c.days, c.index + 1)
       /\ n.next = Trading!Listed(c.days, c.index + 2)
  ELSE n.prev = c.prev /\ n.trading = c.trading /\ n.next = c.next

LEMMA AlikeIs ==
  ASSUME NEW c, ClockShape(c), NEW t, NEW x, NEW p, NEW d, NEW h, NEW n,
         n = [alive |-> c.alive, threw |-> c.threw, strict |-> c.strict, days |-> c.days,
              index |-> c.index, trading |-> t, next |-> x, prev |-> p, isTrading |-> c.isTrading,
              isPrev |-> c.isPrev, core |-> c.core, date |-> d, hour |-> h]
  PROVE Alike(n, c) /\ n.trading = t /\ n.next = x /\ n.prev = p /\ n.date = d /\ n.hour = h
<1>1. /\ n.trading = t /\ n.next = x /\ n.prev = p /\ n.date = d /\ n.hour = h /\ n.core = c.core
      /\ n.strict = c.strict /\ n.alive = c.alive /\ n.threw = c.threw
      /\ n.days = c.days /\ n.index = c.index /\ n.isTrading = c.isTrading /\ n.isPrev = c.isPrev
  OBVIOUS
<1>2. n = [alive |-> n.alive, threw |-> n.threw, strict |-> n.strict, days |-> n.days, index |-> n.index,
          trading |-> n.trading, next |-> n.next, prev |-> n.prev, isTrading |-> n.isTrading,
          isPrev |-> n.isPrev, core |-> n.core, date |-> n.date, hour |-> n.hour]
  BY <1>1
<1>3. Alike(n, c)
  BY <1>1, <1>2 DEF Alike, ClockShape
<1> QED BY <1>1, <1>3

\* Normalize_trading, FillTime and the date change nothing else.
LEMMA NormalIs ==
  ASSUME NEW c, ClockShape(c)
  PROVE LET n == IF c.strict THEN Trading!Normalize(c) ELSE c IN Alike(n, c) /\ Normal(n, c)
<1> DEFINE n == IF c.strict THEN Trading!Normalize(c) ELSE c
<1>1. CASE c.strict /\ Trading!Evening(c)
  <2>1. n = [c EXCEPT !.prev = Trading!Listed(c.days, c.index),
                      !.trading = Trading!Listed(c.days, c.index + 1),
                      !.next = Trading!Listed(c.days, c.index + 2)]
    BY <1>1, Zenon DEF Trading!Normalize
  <2> HIDE DEF n
  <2>2. n = [alive |-> c.alive, threw |-> c.threw, strict |-> c.strict, days |-> c.days,
             index |-> c.index, trading |-> Trading!Listed(c.days, c.index + 1),
             next |-> Trading!Listed(c.days, c.index + 2), prev |-> Trading!Listed(c.days, c.index),
             isTrading |-> c.isTrading, isPrev |-> c.isPrev, core |-> c.core, date |-> c.date, hour |-> c.hour]
    BY <2>1 DEF ClockShape
  <2>3. /\ Alike(n, c) /\ n.prev = Trading!Listed(c.days, c.index)
        /\ n.trading = Trading!Listed(c.days, c.index + 1)
        /\ n.next = Trading!Listed(c.days, c.index + 2)
    BY <2>2, AlikeIs
  <2>4. Alike(n, c) /\ Normal(n, c)
    BY <1>1, <2>3 DEF Normal
  <2> QED BY <2>4, Zenon DEF n
<1>2. CASE ~(c.strict /\ Trading!Evening(c))
  <2>1. n = c
    BY <1>2, Zenon DEF Trading!Normalize
  <2> HIDE DEF n
  <2>2. Alike(n, c) /\ Normal(n, c)
    BY <1>2, <2>1 DEF Alike, Normal
  <2> QED BY <2>2, Zenon DEF n
<1> QED BY <1>1, <1>2

LEMMA FillIs ==
  ASSUME NEW c, ClockShape(c)
  PROVE LET n == Trading!FillTime(c)
        IN /\ Alike(n, c) /\ n.trading = c.trading /\ n.next = c.next /\ n.prev = c.prev
           /\ n.hour = IF c.strict THEN Trading!TradingHour(c) ELSE c.core[2]
<1> DEFINE
       h == IF c.strict THEN Trading!TradingHour(c) ELSE c.core[2]
       n == Trading!FillTime(c)
<1>1. n = [c EXCEPT !.hour = h]
  BY Zenon DEF Trading!FillTime
<1> HIDE DEF h, n
<1>2. n =
        [alive |-> c.alive, threw |-> c.threw, strict |-> c.strict, days |-> c.days,
         index |-> c.index, trading |-> c.trading, next |-> c.next, prev |-> c.prev,
         isTrading |-> c.isTrading, isPrev |-> c.isPrev, core |-> c.core, date |-> c.date, hour |-> h]
  BY <1>1 DEF ClockShape
<1>3. Alike(n, c) /\ n.trading = c.trading /\ n.next = c.next /\ n.prev = c.prev /\ n.hour = h
  BY <1>2, AlikeIs
<1> QED BY <1>3, Zenon DEF h, n

LEMMA DateIs ==
  ASSUME NEW c, ClockShape(c), NEW d, NEW n, n = [c EXCEPT !.date = d]
  PROVE Alike(n, c) /\ n.trading = c.trading /\ n.next = c.next /\ n.prev = c.prev
<1>1. n =
        [alive |-> c.alive, threw |-> c.threw, strict |-> c.strict, days |-> c.days,
         index |-> c.index, trading |-> c.trading, next |-> c.next, prev |-> c.prev,
         isTrading |-> c.isTrading, isPrev |-> c.isPrev, core |-> c.core, date |-> d, hour |-> c.hour]
  BY DEF ClockShape
<1> QED BY <1>1, AlikeIs, ZenonT(60)

LEMMA AlikeHour ==
  ASSUME NEW n, NEW c, Alike(n, c)
  PROVE Trading!TradingHour(n) = Trading!TradingHour(c) /\ Trading!Evening(n) = Trading!Evening(c)
BY DEF Alike, Trading!TradingHour, Trading!Evening

\* s was set from c on the day of the real time.
Complete(s, c) ==
  /\ ClockShape(s) /\ s.core = c.core /\ s.strict = c.strict /\ s.alive = c.alive /\ ~s.threw
  /\ Showing(s, now[1])

LEMMA ThrowIs ==
  ASSUME NEW c, ClockShape(c)
  PROVE LET s == Trading!Throw(c) IN ClockShape(s) /\ s.threw /\ s.core = c.core /\ s.alive = c.alive
<1> DEFINE s == Trading!Throw(c)
<1>0. s = [c EXCEPT !.threw = TRUE]
  BY Zenon DEF Trading!Throw
<1> HIDE DEF s
<1>1. s = [alive |-> c.alive, threw |-> TRUE, strict |-> c.strict, days |-> c.days, index |-> c.index,
          trading |-> c.trading, next |-> c.next, prev |-> c.prev, isTrading |-> c.isTrading,
          isPrev |-> c.isPrev, core |-> c.core, date |-> c.date, hour |-> c.hour]
  BY <1>0 DEF ClockShape
<1>2. /\ s.alive = c.alive /\ s.threw = TRUE /\ s.strict = c.strict /\ s.days = c.days /\ s.index = c.index
      /\ s.isTrading = c.isTrading /\ s.isPrev = c.isPrev /\ s.core = c.core /\ s.trading = c.trading
      /\ s.next = c.next /\ s.prev = c.prev /\ s.date = c.date /\ s.hour = c.hour
  BY <1>1
<1>3. s = [alive |-> s.alive, threw |-> s.threw, strict |-> s.strict, days |-> s.days, index |-> s.index,
          trading |-> s.trading, next |-> s.next, prev |-> s.prev, isTrading |-> s.isTrading,
          isPrev |-> s.isPrev, core |-> s.core, date |-> s.date, hour |-> s.hour]
  BY <1>1, <1>2
<1>4. ClockShape(s)
  BY <1>2, <1>3 DEF ClockShape
<1> QED BY <1>2, <1>4, Zenon DEF s

\* What AdjustTradingDay read is shown once the trading time is worked out.
LEMMA ShowingIs ==
  ASSUME NEW a, NEW n, NEW s, NEW real \in Int,
         ClockShape(a), Adjusted(a, real), Alike(n, a), Normal(n, a), Alike(s, n),
         s.trading = n.trading, s.next = n.next, s.prev = n.prev,
         s.hour = IF s.strict THEN Trading!TradingHour(s) ELSE s.core[2]
  PROVE Showing(s, real)
<1>1. /\ s.core = a.core /\ s.strict = a.strict /\ s.days = a.days /\ s.index = a.index
      /\ s.isTrading = a.isTrading /\ s.isPrev = a.isPrev
  BY DEF Alike
<1>2. Trading!Evening(s) = Trading!Evening(a)
  BY <1>1 DEF Trading!Evening
<1>3. a.index \in 0 .. Len(a.days) - 1 /\ Len(a.days) \in Nat
  BY DEF Adjusted, Placed, Place, ClockShape, SortedDays
<1>4. Placed(s)
  BY <1>1 DEF Adjusted, Placed
<1>5. Fields(s)
  <2>1. CASE a.strict /\ Trading!Evening(a)
    <3>1. Trading!Listed(a.days, a.index) = a.days[a.index + 1]
      BY <1>3 DEF Trading!Listed
    <3>2. /\ s.prev = a.days[a.index + 1] /\ s.trading = Trading!Listed(a.days, a.index + 1)
          /\ s.next = Trading!Listed(a.days, a.index + 2)
      BY <2>1, <3>1 DEF Normal
    <3> QED BY <1>1, <1>2, <2>1, <3>2 DEF Fields
  <2>2. CASE ~(a.strict /\ Trading!Evening(a))
    <3>1. s.prev = a.prev /\ s.trading = a.trading /\ s.next = a.next
      BY <2>2 DEF Normal
    <3> QED BY <1>1, <1>2, <2>2, <3>1 DEF Fields, Adjusted
  <2> QED BY <2>1, <2>2
<1>6. s.index > 0 => s.isPrev = (s.days[s.index] = real - 1)
  BY <1>1 DEF Adjusted
<1> QED BY <1>4, <1>5, <1>6 DEF Showing

\* Set, Update, the constructors and the copy end here: they throw or set every field.
LEMMA SetIs ==
  ASSUME NEW c, ClockShape(c), ~c.threw, NEW w \in BOOLEAN, now \in Trading!Instants
  PROVE \/ Trading!SetFromCore(c, w) = Trading!Throw(c)
        \/ Complete(Trading!SetFromCore(c, w), c)
<1> DEFINE a == Trading!AdjustTradingDay(c, w)
           n == IF a.strict THEN Trading!Normalize(a) ELSE a
           e == IF a.strict THEN n.trading ELSE n.core[1]
           m == [n EXCEPT !.date = e]
           s == Trading!SetFromCore(c, w)
<1>1. CASE a = Trading!Throw(c)
  <2>1. a.threw
    BY <1>1, ThrowIs, Zenon
  <2>2. s = a
    BY <2>1, Zenon DEF Trading!SetFromCore
  <2> QED BY <1>1, <2>2, Zenon
<1>2. CASE SetFrom(a, c)
  <2>1. ClockShape(a) /\ a.strict = c.strict /\ ~a.threw /\ a.core = c.core /\ a.alive = c.alive
        /\ Adjusted(a, now[1]) /\ now[1] \in Int
    BY <1>2, InstantIs DEF SetFrom
  <2>2. s = Trading!FillTime(m)
    BY <2>1, Zenon DEF Trading!SetFromCore
  <2> HIDE DEF a, s
  <2>3. Alike(n, a) /\ Normal(n, a)
    BY <2>1, NormalIs, Zenon
  <2> HIDE DEF n, e
  <2>4. Alike(m, n) /\ m.trading = n.trading /\ m.next = n.next /\ m.prev = n.prev
    <3>1. ClockShape(n)
      BY <2>3 DEF Alike
    <3>2. m = [n EXCEPT !.date = e]
      OBVIOUS
    <3> QED BY <3>1, <3>2, DateIs, Zenon
  <2> HIDE DEF m
  <2>5. /\ Alike(s, m) /\ s.trading = m.trading /\ s.next = m.next /\ s.prev = m.prev
        /\ s.hour = IF m.strict THEN Trading!TradingHour(m) ELSE m.core[2]
    <3>1. ClockShape(m)
      BY <2>4 DEF Alike
    <3> QED BY <2>2, <3>1, FillIs, Zenon
  <2>6. Alike(s, n)
    BY <2>4, <2>5 DEF Alike
  <2>7. s.hour = IF s.strict THEN Trading!TradingHour(s) ELSE s.core[2]
    BY <2>5, AlikeHour DEF Alike
  <2>8. Showing(s, now[1])
    BY <2>1, <2>3, <2>4, <2>5, <2>6, <2>7, ShowingIs
  <2>9. ClockShape(s) /\ s.core = c.core /\ s.strict = c.strict /\ s.alive = c.alive /\ ~s.threw
    BY <2>1, <2>3, <2>6 DEF Alike
  <2> QED BY <2>8, <2>9 DEF Complete, s
<1> QED BY <1>1, <1>2, AdjustIs, Zenon

NotLater(k, m) == k[1] < m[1] \/ (k[1] = m[1] /\ k[2] <= m[2])

\* Since the call that set every field the clock was moved within its day only, and forward to a real time.
ClockInv ==
  /\ now \in Trading!Instants /\ ClockShape(clock)
  /\ full \in [at : Trading!Instants, real : Int]
  /\ clock.alive /\ ~clock.threw /\ full.real >= 0 =>
        /\ full.at[1] = clock.core[1] /\ full.at[2] <= clock.core[2]
        /\ clock.core = full.at \/ NotLater(clock.core, now)
        /\ Showing(clock, full.real)

LEMMA AtIs ==
  ASSUME ClockShape(clock), NEW k \in Trading!Instants
  PROVE LET n == Trading!At(k)
        IN /\ ClockShape(n) /\ n.alive = clock.alive /\ ~n.threw /\ n.strict = clock.strict /\ n.days = clock.days
           /\ n.index = clock.index /\ n.core = k
           /\ n.trading = clock.trading /\ n.next = clock.next /\ n.prev = clock.prev
           /\ n.isTrading = clock.isTrading /\ n.isPrev = clock.isPrev
<1> DEFINE n == Trading!At(k)
<1>1. n = [clock EXCEPT !.core = k, !.threw = FALSE]
  BY Zenon DEF Trading!At
<1> HIDE DEF n
<1>2. n = [alive |-> clock.alive, threw |-> FALSE, strict |-> clock.strict, days |-> clock.days,
           index |-> clock.index, trading |-> clock.trading, next |-> clock.next, prev |-> clock.prev,
           isTrading |-> clock.isTrading, isPrev |-> clock.isPrev, core |-> k, date |-> clock.date, hour |-> clock.hour]
  BY <1>1 DEF ClockShape
<1>3. /\ clock.alive \in BOOLEAN /\ clock.strict \in BOOLEAN /\ FALSE \in BOOLEAN /\ SortedDays(clock.days)
      /\ clock.days # <<>> => clock.index \in 0 .. Len(clock.days) - 1
  BY DEF ClockShape
<1>4. /\ ClockShape(n) /\ n.alive = clock.alive /\ n.threw = FALSE /\ n.strict = clock.strict /\ n.days = clock.days
      /\ n.index = clock.index /\ n.core = k
      /\ n.trading = clock.trading /\ n.next = clock.next /\ n.prev = clock.prev
      /\ n.isTrading = clock.isTrading /\ n.isPrev = clock.isPrev
  <2>1. /\ n.alive = clock.alive /\ n.threw = FALSE /\ n.strict = clock.strict /\ n.days = clock.days
        /\ n.index = clock.index /\ n.core = k
        /\ n.trading = clock.trading /\ n.next = clock.next /\ n.prev = clock.prev
        /\ n.isTrading = clock.isTrading /\ n.isPrev = clock.isPrev /\ n.date = clock.date /\ n.hour = clock.hour
    BY <1>2
  <2>2. n = [alive |-> n.alive, threw |-> n.threw, strict |-> n.strict, days |-> n.days, index |-> n.index,
          trading |-> n.trading, next |-> n.next, prev |-> n.prev, isTrading |-> n.isTrading,
          isPrev |-> n.isPrev, core |-> n.core, date |-> n.date, hour |-> n.hour]
    BY <1>2, <2>1
  <2>3. ClockShape(n)
    BY <1>3, <2>1, <2>2 DEF ClockShape
  <2> QED BY <2>1, <2>3
<1> QED BY <1>4, Zenon DEF n

LEMMA SetsAllKeeps ==
  ASSUME ClockInv, NEW c, ClockShape(c), c.threw \/ Showing(c, now[1]), Trading!SetsAll(c)
  PROVE ClockInv'
<1>1. clock' = c /\ now' = now
  BY DEF Trading!SetsAll
<1>2. now' \in Trading!Instants /\ now[1] \in Int
  BY <1>1, InstantIs DEF ClockInv
<1>3. CASE c.threw
  <2>1. full' = [full EXCEPT !.real = -1]
    BY <1>3 DEF Trading!SetsAll
  <2> QED BY <1>1, <1>2, <1>3, <2>1 DEF ClockInv
<1>4. CASE ~c.threw
  <2>1. full' = [at |-> c.core, real |-> now[1]]
    BY <1>4 DEF Trading!SetsAll
  <2>2. c.core \in Trading!Instants /\ c.core[2] \in Int
    BY InstantIs DEF ClockShape
  <2>3. full' \in [at : Trading!Instants, real : Int] /\ full'.at = c.core /\ full'.real = now[1]
    BY <1>2, <2>1, <2>2
  <2> QED BY <1>1, <1>2, <1>4, <2>2, <2>3 DEF ClockInv
<1> QED BY <1>3, <1>4

\* A clock set from its core keeps the invariant.
LEMMA SetKeeps ==
  ASSUME ClockInv, NEW c, ClockShape(c), ~c.threw, NEW w \in BOOLEAN, Trading!SetsAll(Trading!SetFromCore(c, w))
  PROVE ClockInv'
<1> DEFINE s == Trading!SetFromCore(c, w)
<1>1. now \in Trading!Instants
  BY DEF ClockInv
<1>2. s = Trading!Throw(c) \/ Complete(s, c)
  BY <1>1, SetIs, Zenon
<1>3. CASE s = Trading!Throw(c)
  <2>1. ClockShape(s) /\ s.threw
    BY <1>3, ThrowIs, Zenon
  <2> QED BY <2>1, SetsAllKeeps, Zenon
<1>4. CASE Complete(s, c)
  <2>1. ClockShape(s) /\ Showing(s, now[1])
    BY <1>4, Zenon DEF Complete
  <2> QED BY <2>1, SetsAllKeeps, Zenon
<1> QED BY <1>2, <1>3, <1>4, Zenon

\* An evening once begun lasts until the end of the day.
LEMMA LaterShowing ==
  ASSUME ClockInv, NEW real \in Int, Showing(clock, real), clock.core[1] = now[1], clock.core[2] <= now[2],
         NEW n, Alike(n, Trading!At(now)), Normal(n, Trading!At(now)),
         NEW s, Alike(s, n), s.trading = n.trading, s.next = n.next, s.prev = n.prev,
         s.hour = IF n.strict THEN Trading!TradingHour(n) ELSE n.core[2]
  PROVE Showing(s, real)
<1> DEFINE c == Trading!At(now)
<1>1. /\ c.strict = clock.strict /\ c.days = clock.days /\ c.index = clock.index /\ c.core = now
      /\ c.trading = clock.trading /\ c.next = clock.next /\ c.prev = clock.prev
      /\ c.isTrading = clock.isTrading /\ c.isPrev = clock.isPrev /\ clock.isTrading \in BOOLEAN
  <2>1. ClockShape(clock) /\ now \in Trading!Instants /\ clock.isTrading \in BOOLEAN
    BY DEF ClockInv, ClockShape
  <2> QED BY <2>1, AtIs, Zenon
<1>2. now[2] \in Int /\ clock.core[2] \in Int /\ now[1] \in Int
  <2>1. now \in Trading!Instants /\ clock.core \in Trading!Instants
    BY DEF ClockInv, ClockShape
  <2> QED BY <2>1, InstantIs
<1> HIDE DEF c
<1>3. /\ s.core = now /\ s.strict = clock.strict /\ s.days = clock.days /\ s.index = clock.index
      /\ s.isTrading = clock.isTrading /\ s.isPrev = clock.isPrev /\ n.strict = s.strict /\ n.core = s.core
  BY <1>1 DEF Alike, c
<1>4. clock.index \in 0 .. Len(clock.days) - 1 /\ Len(clock.days) \in Nat
  BY DEF ClockInv, ClockShape, Showing, Placed, Place, SortedDays
<1>5. Placed(s)
  BY <1>3 DEF Showing, Placed
<1>6. Trading!Evening(s) = Trading!Evening(c)
  BY <1>1, <1>3 DEF Trading!Evening
<1>7. Fields(s)
  <2>1. CASE c.strict /\ Trading!Evening(c)
    <3>1. Trading!Listed(clock.days, clock.index) = clock.days[clock.index + 1]
      BY <1>4 DEF Trading!Listed
    <3>2. /\ s.prev = clock.days[clock.index + 1] /\ s.trading = Trading!Listed(clock.days, clock.index + 1)
          /\ s.next = Trading!Listed(clock.days, clock.index + 2)
      BY <1>1, <2>1, <3>1 DEF Normal, c
    <3> QED BY <1>1, <1>3, <1>6, <2>1, <3>2 DEF Fields
  <2>2. CASE ~(c.strict /\ Trading!Evening(c))
    <3>1. s.prev = clock.prev /\ s.trading = clock.trading /\ s.next = clock.next
      BY <1>1, <2>2 DEF Normal, c
    <3>2. ~(clock.strict /\ Trading!Evening(clock))
      BY <1>1, <1>2, <2>2 DEF Trading!Evening
    <3> QED BY <1>1, <1>3, <1>6, <2>2, <3>1, <3>2 DEF Fields, Showing
  <2> QED BY <2>1, <2>2
<1>8. s.hour = IF s.strict THEN Trading!TradingHour(s) ELSE s.core[2]
  BY <1>3, AlikeHour
<1>9. s.index > 0 => s.isPrev = (s.days[s.index] = real - 1)
  BY <1>3 DEF Showing
<1> QED BY <1>5, <1>7, <1>8, <1>9 DEF Showing

\* UpdateTime keeps the index and isTradingDay of the last full call.
LEMMA TimeKeeps ==
  ASSUME ClockInv, Trading!UpdateTime
  PROVE ClockInv'
<1> DEFINE c == Trading!At(now)
           n == IF c.strict THEN Trading!Normalize(c) ELSE c
           s == Trading!FillTime(n)
<1>1. ClockShape(clock) /\ now \in Trading!Instants /\ full \in [at : Trading!Instants, real : Int]
  BY DEF ClockInv
<1>2. clock.alive /\ ~clock.threw /\ clock' = s /\ now' = now
  BY Zenon DEF Trading!UpdateTime
<1>3. full' = IF now[1] = full.at[1] /\ now[2] >= full.at[2] THEN full ELSE [full EXCEPT !.real = -1]
  BY Zenon DEF Trading!UpdateTime
<1>4. ClockShape(c) /\ c.core = now
  BY <1>1, AtIs, Zenon
<1>5. Alike(n, c) /\ Normal(n, c)
  BY <1>4, NormalIs, Zenon
<1>6. ClockShape(n)
  BY <1>5, Zenon DEF Alike
<1> HIDE DEF n
<1>7. /\ Alike(s, n) /\ s.trading = n.trading /\ s.next = n.next /\ s.prev = n.prev
      /\ s.hour = IF n.strict THEN Trading!TradingHour(n) ELSE n.core[2]
  BY <1>6, FillIs, Zenon
<1> HIDE DEF s, c
<1>8. ClockShape(s) /\ s.core = now
  BY <1>4, <1>5, <1>7 DEF Alike
<1>9. full' \in [at : Trading!Instants, real : Int] /\ (full'.real >= 0 => full' = full)
  BY <1>1, <1>3
<1>10. ASSUME full'.real >= 0
       PROVE /\ full'.at[1] = s.core[1] /\ full'.at[2] <= s.core[2] /\ NotLater(s.core, now)
             /\ Showing(s, full'.real)
  <2>1. full' = full /\ now[1] = full.at[1] /\ now[2] >= full.at[2] /\ full.real \in Int
    BY <1>1, <1>3, <1>9, <1>10
  <2>2. /\ full.at[1] = clock.core[1] /\ full.at[2] <= clock.core[2]
        /\ clock.core = full.at \/ NotLater(clock.core, now)
        /\ Showing(clock, full.real)
    BY <1>2, <1>10, <2>1 DEF ClockInv
  <2>3. now[1] \in Int /\ now[2] \in Int /\ full.at[2] \in Int
    <3>1. full.at \in Trading!Instants
      BY <1>1
    <3> QED BY <1>1, <3>1, InstantIs
  <2>4. clock.core[1] = now[1] /\ clock.core[2] <= now[2]
    BY <2>1, <2>2, <2>3 DEF NotLater
  <2>5. Showing(s, full.real)
    BY <1>5, <1>7, <2>1, <2>2, <2>4, LaterShowing DEF c
  <2> QED BY <1>8, <2>1, <2>3, <2>5 DEF NotLater
<1> QED BY <1>1, <1>2, <1>8, <1>9, <1>10 DEF ClockInv

LEMMA TickKeeps ==
  ASSUME ClockInv, Trading!Tick
  PROVE ClockInv'
<1>1. now' \in Trading!Instants /\ (now'[1] > now[1] \/ (now'[1] = now[1] /\ now'[2] > now[2]))
      /\ clock' = clock /\ full' = full
  BY DEF Trading!Tick
<1>2. /\ now[1] \in Int /\ now[2] \in Int /\ now'[1] \in Int /\ now'[2] \in Int
      /\ clock.core[1] \in Int /\ clock.core[2] \in Int
  <2>1. now \in Trading!Instants /\ clock.core \in Trading!Instants
    BY DEF ClockInv, ClockShape
  <2> QED BY <1>1, <2>1, InstantIs
<1>3. NotLater(clock.core, now) => NotLater(clock.core, now')
  BY <1>1, <1>2 DEF NotLater
<1> QED BY <1>1, <1>3 DEF ClockInv

\* The copy before it is set: its index is i.
LEMMA CopiedIs ==
  ASSUME NEW c, ClockShape(c), NEW st \in BOOLEAN, NEW i, c.days # <<>> => i \in 0 .. Len(c.days) - 1,
         NEW n, n = [alive |-> c.alive, threw |-> c.threw, strict |-> st, days |-> c.days,
              index |-> i, trading |-> c.trading, next |-> c.next, prev |-> c.prev,
              isTrading |-> c.isTrading, isPrev |-> c.isPrev, core |-> c.core, date |-> c.date, hour |-> c.hour]
  PROVE ClockShape(n) /\ n.strict = st /\ n.days = c.days /\ n.index = i /\ n.core = c.core /\ n.threw = c.threw
<1>2. /\ n.alive = c.alive /\ n.threw = c.threw /\ n.strict = st /\ n.days = c.days
      /\ n.index = i /\ n.core = c.core
      /\ n.trading = c.trading /\ n.next = c.next /\ n.prev = c.prev
      /\ n.isTrading = c.isTrading /\ n.isPrev = c.isPrev /\ n.date = c.date /\ n.hour = c.hour
  OBVIOUS
<1>3. n = [alive |-> n.alive, threw |-> n.threw, strict |-> n.strict, days |-> n.days, index |-> n.index,
          trading |-> n.trading, next |-> n.next, prev |-> n.prev, isTrading |-> n.isTrading,
          isPrev |-> n.isPrev, core |-> n.core, date |-> n.date, hour |-> n.hour]
  BY <1>2
<1>4. ClockShape(n)
  <2>1. c.days # <<>> => i \in 0 .. Len(c.days) - 1
    OBVIOUS
  <2> QED BY <1>2, <1>3, <2>1 DEF ClockShape
<1> QED BY <1>2, <1>4

\* A clock whose constructor has begun.
LEMMA FreshIs ==
  ASSUME NEW c, NEW al \in BOOLEAN, NEW st \in BOOLEAN, NEW k \in Trading!Instants,
         c = [alive |-> al, threw |-> FALSE, strict |-> st, days |-> <<>>, index |-> 0, trading |-> 0, next |-> 0,
              prev |-> 0, isTrading |-> FALSE, isPrev |-> FALSE, core |-> k, date |-> 0, hour |-> 0]
  PROVE ClockShape(c) /\ ~c.threw
<1>1. /\ c.alive = al /\ c.threw = FALSE /\ c.strict = st /\ c.days = <<>> /\ c.index = 0 /\ c.trading = 0 /\ c.next = 0
      /\ c.prev = 0 /\ c.isTrading = FALSE /\ c.isPrev = FALSE /\ c.core = k /\ c.date = 0 /\ c.hour = 0
  OBVIOUS
<1>2. c = [alive |-> c.alive, threw |-> c.threw, strict |-> c.strict, days |-> c.days, index |-> c.index,
          trading |-> c.trading, next |-> c.next, prev |-> c.prev, isTrading |-> c.isTrading,
          isPrev |-> c.isPrev, core |-> c.core, date |-> c.date, hour |-> c.hour]
  BY <1>1
<1>3. SortedDays(<<>>)
  BY DEF SortedDays
<1> QED BY <1>1, <1>2, <1>3 DEF ClockShape

LEMMA ConstructKeeps ==
  ASSUME ClockInv, NEW k \in Trading!Instants, NEW l \in Lists \cup {Weekdays}, NEW s \in BOOLEAN, NEW w \in BOOLEAN,
         Trading!Construct(l, s, k, w)
  PROVE ClockInv'
<1> DEFINE c == [Trading!Blank EXCEPT !.strict = s, !.core = k, !.alive = TRUE]
           i == IF l = <<>> THEN c ELSE Trading!SetTradingDayInfo(c, l, w)
<1>1. ~i.threw /\ Trading!SetsAll(Trading!SetFromCore(i, w))
  BY Zenon DEF Trading!Construct
<1>2. c = [alive |-> TRUE, threw |-> FALSE, strict |-> s, days |-> <<>>, index |-> 0, trading |-> 0, next |-> 0,
           prev |-> 0, isTrading |-> FALSE, isPrev |-> FALSE, core |-> k, date |-> 0, hour |-> 0]
  <2> DEFINE b == Trading!Blank
  <2>1. b = [alive |-> FALSE, threw |-> FALSE, strict |-> FALSE, days |-> <<>>, index |-> 0, trading |-> 0, next |-> 0,
             prev |-> 0, isTrading |-> FALSE, isPrev |-> FALSE, core |-> <<0, 2>>, date |-> 0, hour |-> 0]
    BY Zenon DEF Trading!Blank
  <2> HIDE DEF b
  <2>2. c = [b EXCEPT !.strict = s, !.core = k, !.alive = TRUE]
    BY Zenon DEF b
  <2> HIDE DEF c
  <2> QED BY <2>1, <2>2
<1>3. ClockShape(c) /\ ~c.threw
  <2> HIDE DEF c
  <2> QED BY <1>2, FreshIs
<1> HIDE DEF c
<1>4. CASE l = <<>>
  <2>1. i = c
    BY <1>4, Zenon
  <2> QED BY <1>1, <1>3, <2>1, SetKeeps, Zenon
<1>5. CASE l # <<>>
  <2>1. i = Trading!SetTradingDayInfo(c, l, w)
    BY <1>5, Zenon
  <2>2. SortedDays(l) /\ now \in Trading!Instants
    BY ClockAssumption DEF SortedDays, ClockInv
  <2> HIDE DEF i
  <2>3. ClockShape(i)
    <3>1. CASE Inside(l, c.core[1])
      <4>1. Informed(i, c, l)
        BY <1>3, <2>1, <2>2, <3>1, InfoIs, Zenon
      <4> QED BY <4>1, Zenon DEF Informed
    <3>2. CASE ~Inside(l, c.core[1])
      <4>1. i = Trading!Throw([c EXCEPT !.days = l])
        BY <1>3, <2>1, <2>2, <3>2, InfoIs, Zenon
      <4>2. [c EXCEPT !.days = l].threw = FALSE /\ i.threw
        BY <4>1, <1>2 DEF Trading!Throw, c
      <4> QED BY <1>1, <4>2 DEF i
    <3> QED BY <3>1, <3>2
  <2>4. ~i.threw
    BY <1>1 DEF i
  <2>5. Trading!SetsAll(Trading!SetFromCore(i, w))
    BY <1>1, Zenon DEF i
  <2> QED BY <2>3, <2>4, <2>5, SetKeeps, Zenon
<1> QED BY <1>4, <1>5

LEMMA CopyKeeps ==
  ASSUME ClockInv, NEW s \in BOOLEAN, NEW w \in BOOLEAN,
         NEW k \in {0} \cup 1 .. Len(clock.days) - 1, Trading!Copy(s, k, w)
  PROVE ClockInv'
<1> DEFINE c == [clock EXCEPT !.index = k]
           b == [c EXCEPT !.strict = s]
           i == IF c.days = <<>> THEN b ELSE Trading!SetTradingDayInfo(b, c.days, w)
           a == IF (s /\ c.days = <<>>) \/ i.threw THEN Trading!Throw(i) ELSE Trading!SetFromCore(i, w)
<1>1. ~clock.threw /\ Trading!SetsAll(a)
  BY Zenon DEF Trading!Copy, Trading!Assigned
<1>2. /\ ClockShape(clock) /\ SortedDays(clock.days) /\ now \in Trading!Instants
      /\ clock.days # <<>> => k \in 0 .. Len(clock.days) - 1
  BY DEF ClockInv, ClockShape, SortedDays
<1>3. c.days = clock.days
  BY <1>2 DEF ClockShape
<1>4. ClockShape(b) /\ b.days = clock.days /\ b.index = k /\ b.threw = clock.threw
  <2>1. b = [[clock EXCEPT !.index = k] EXCEPT !.strict = s]
    OBVIOUS
  <2> HIDE DEF b
  <2>2. b = [alive |-> clock.alive, threw |-> clock.threw, strict |-> s, days |-> clock.days,
             index |-> k, trading |-> clock.trading, next |-> clock.next, prev |-> clock.prev,
             isTrading |-> clock.isTrading, isPrev |-> clock.isPrev, core |-> clock.core,
             date |-> clock.date, hour |-> clock.hour]
    BY <1>2, <2>1 DEF ClockShape
  <2>3. ClockShape(clock) /\ (clock.days # <<>> => k \in 0 .. Len(clock.days) - 1)
    BY <1>2
  <2> QED BY <2>2, <2>3, CopiedIs
<1> HIDE DEF b, c
<1>5. ClockShape(i)
  <2>1. CASE clock.days = <<>>
    <3>1. i = b
      BY <1>3, <2>1, Zenon
    <3> QED BY <1>4, <3>1, Zenon
  <2>2. CASE clock.days # <<>>
    <3>1. i = Trading!SetTradingDayInfo(b, clock.days, w)
      BY <1>3, <2>2, Zenon
    <3> HIDE DEF i
    <3>2. CASE Inside(clock.days, b.core[1])
      <4>1. Informed(i, b, clock.days)
        BY <1>2, <1>4, <3>1, <3>2, InfoIs, Zenon
      <4> QED BY <4>1, Zenon DEF Informed
    <3>3. CASE ~Inside(clock.days, b.core[1])
      <4>1. i = Trading!Throw([b EXCEPT !.days = clock.days])
        BY <1>2, <1>4, <3>1, <3>3, InfoIs, Zenon
      <4>2. [b EXCEPT !.days = clock.days] = b
        <5> DEFINE m == [b EXCEPT !.days = clock.days]
        <5>1. m = [alive |-> b.alive, threw |-> b.threw, strict |-> b.strict, days |-> b.days, index |-> b.index,
                   trading |-> b.trading, next |-> b.next, prev |-> b.prev, isTrading |-> b.isTrading,
                   isPrev |-> b.isPrev, core |-> b.core, date |-> b.date, hour |-> b.hour]
          BY <1>4 DEF ClockShape
        <5> HIDE DEF m
        <5>2. m = b
          BY <1>4, <5>1, Zenon DEF ClockShape
        <5> QED BY <5>2, Zenon DEF m
      <4> QED BY <1>4, <4>1, <4>2, ThrowIs, Zenon
    <3> QED BY <3>2, <3>3
  <2> QED BY <2>1, <2>2
<1> HIDE DEF i
<1>6. CASE (s /\ c.days = <<>>) \/ i.threw
  <2>1. a = Trading!Throw(i)
    BY <1>6, Zenon
  <2>2. ClockShape(a) /\ a.threw
    BY <1>5, <2>1, ThrowIs, Zenon
  <2> QED BY <1>1, <2>2, SetsAllKeeps, Zenon
<1>7. CASE ~((s /\ c.days = <<>>) \/ i.threw)
  <2>1. a = Trading!SetFromCore(i, w) /\ ~i.threw
    BY <1>7, Zenon
  <2> QED BY <1>1, <1>5, <2>1, SetKeeps, Zenon
<1> QED BY <1>6, <1>7, Zenon

LEMMA ClockFirst == Trading!Init => ClockInv
<1> SUFFICES ASSUME Trading!Init PROVE ClockInv
  OBVIOUS
<1>1. now = <<1, 2>> /\ full = [at |-> <<0, 2>>, real |-> -1] /\ clock = Trading!Blank
  BY DEF Trading!Init
<1>2. <<0, 2>> \in Trading!Instants /\ FALSE \in BOOLEAN
  BY ClockAssumption DEF Trading!Instants, Trading!Hours
<1>3. ClockShape(clock)
  BY <1>1, <1>2, FreshIs, Zenon DEF Trading!Blank
<1>4. full \in [at : Trading!Instants, real : Int] /\ full.real = -1
  BY <1>1, <1>2
<1>5. now \in Trading!Instants
  BY <1>1, ClockAssumption DEF Trading!Instants, Trading!Hours
<1> QED BY <1>3, <1>4, <1>5 DEF ClockInv

LEMMA ClockStep == ClockInv /\ [Trading!Next]_clockVars => ClockInv'
<1> SUFFICES ASSUME ClockInv, [Trading!Next]_clockVars PROVE ClockInv'
  OBVIOUS
<1>1. CASE UNCHANGED clockVars
  BY <1>1 DEF clockVars, ClockInv
<1>2. CASE Trading!Tick
  BY <1>2, TickKeeps
<1>3. CASE Trading!UpdateTime
  BY <1>3, TimeKeeps
<1>4. ASSUME NEW w \in BOOLEAN, NEW k \in Trading!Instants, Trading!SetsAll(Trading!SetFromCore(Trading!At(k), w))
      PROVE ClockInv'
  <2>1. ClockShape(clock)
    BY DEF ClockInv
  <2>2. ClockShape(Trading!At(k)) /\ ~Trading!At(k).threw
    BY <2>1, AtIs, Zenon
  <2> QED BY <1>4, <2>2, SetKeeps, Zenon
<1>5. ASSUME NEW w \in BOOLEAN, Trading!Update(w) PROVE ClockInv'
  <2>1. now \in Trading!Instants
    BY DEF ClockInv
  <2> QED BY <1>4, <1>5, <2>1, Zenon DEF Trading!Update
<1>6. ASSUME NEW w \in BOOLEAN, NEW k \in Trading!Instants, Trading!Set(k, w) PROVE ClockInv'
  BY <1>4, <1>6, Zenon DEF Trading!Set
<1>7. ASSUME NEW w \in BOOLEAN, NEW s \in BOOLEAN, NEW k \in {0} \cup 1 .. Len(clock.days) - 1, Trading!Copy(s, k, w)
      PROVE ClockInv'
  BY <1>7, CopyKeeps
<1>8. ASSUME NEW w \in BOOLEAN, NEW k \in Trading!Instants, NEW l \in Lists \cup {Weekdays}, NEW s \in BOOLEAN,
             Trading!Construct(l, s, k, w)
      PROVE ClockInv'
  BY <1>8, ConstructKeeps
<1> QED BY <1>1, <1>2, <1>3, <1>5, <1>6, <1>7, <1>8, Zenon DEF Trading!Next, clockVars, Trading!clockVars

\* The days of a list from its m-th.
From(l, m) == {l[j] : j \in m .. Len(l)}

LEMMA MinIs ==
  ASSUME NEW S, S \subseteq Int, NEW x \in S, \A y \in S : x <= y
  PROVE Trading!Min(S) = x
<1>1. \E z \in S : \A y \in S : z <= y
  OBVIOUS
<1>2. Trading!Min(S) \in S /\ \A y \in S : Trading!Min(S) <= y
  BY <1>1, Zenon DEF Trading!Min
<1> DEFINE m == Trading!Min(S)
<1>3. m \in S /\ \A y \in S : m <= y
  BY <1>2, Zenon
<1> HIDE DEF m
<1>4. m \in Int /\ x \in Int /\ m <= x /\ x <= m
  BY <1>3
<1>5. m = x
  BY <1>4
<1> QED BY <1>5 DEF m

LEMMA MaxIs ==
  ASSUME NEW S, S \subseteq Int, NEW x \in S, \A y \in S : x >= y
  PROVE Trading!Max(S) = x
<1>1. \E z \in S : \A y \in S : z >= y
  OBVIOUS
<1>2. Trading!Max(S) \in S /\ \A y \in S : Trading!Max(S) >= y
  BY <1>1, Zenon DEF Trading!Max
<1> DEFINE m == Trading!Max(S)
<1>3. m \in S /\ \A y \in S : m >= y
  BY <1>2, Zenon
<1> HIDE DEF m
<1>4. m \in Int /\ x \in Int /\ m >= x /\ x >= m
  BY <1>3
<1>5. m = x
  BY <1>4
<1> QED BY <1>5 DEF m

LEMMA FirstFrom ==
  ASSUME NEW l, SortedDays(l), NEW m \in 1 .. Len(l)
  PROVE Trading!Min(From(l, m)) = l[m]
<1>1. l \in Seq(Int) /\ Len(l) \in Nat /\ (\A k \in 1 .. Len(l) : l[k] \in Int)
      /\ \A i, j \in 1 .. Len(l) : i < j => l[i] < l[j]
  BY DEF SortedDays
<1>2. From(l, m) \subseteq Int /\ l[m] \in From(l, m)
  BY <1>1 DEF From
<1>3. ASSUME NEW y \in From(l, m) PROVE l[m] <= y
  <2>1. PICK j \in m .. Len(l) : y = l[j]
    BY DEF From
  <2>2. m \in 1 .. Len(l) /\ j \in 1 .. Len(l) /\ m \in Int /\ j \in Int /\ (m = j \/ m < j)
    BY <1>1
  <2> QED BY <1>1, <2>1, <2>2
<1> QED BY <1>2, <1>3, MinIs

\* The days after one that lies between two neighbours of the list.
LEMMA LaterIs ==
  ASSUME NEW l, SortedDays(l), NEW e \in Int, NEW m \in 1 .. Len(l) + 1,
         m > 1 => l[m - 1] <= e, m <= Len(l) => l[m] > e
  PROVE {x \in Trading!DaySet(l) : x > e} = From(l, m)
<1>1. l \in Seq(Int) /\ Len(l) \in Nat /\ (\A k \in 1 .. Len(l) : l[k] \in Int)
      /\ \A i, j \in 1 .. Len(l) : i < j => l[i] < l[j]
  BY DEF SortedDays
<1>2. ASSUME NEW j \in 1 .. Len(l) PROVE l[j] > e <=> j >= m
  <2>1. CASE j >= m
    <3>1. m \in 1 .. Len(l) /\ (m = j \/ m < j)
      BY <2>1, <1>1
    <3>2. l[j] \in Int /\ l[m] \in Int /\ l[m] > e /\ l[m] <= l[j]
      BY <1>1, <3>1
    <3> QED BY <2>1, <3>2
  <2>2. CASE j < m
    <3>1. m > 1 /\ m - 1 \in 1 .. Len(l) /\ (j = m - 1 \/ j < m - 1)
      BY <2>2, <1>1
    <3>2. l[j] \in Int /\ l[m - 1] \in Int /\ l[m - 1] <= e
      BY <1>1, <3>1
    <3>3. l[j] <= l[m - 1]
      BY <1>1, <3>1, <3>2, SMTT(60)
    <3> QED BY <2>2, <3>2, <3>3
  <2> QED BY <1>1, <2>1, <2>2
<1> QED BY <1>1, <1>2 DEF Trading!DaySet, From

LEMMA TwoFrom ==
  ASSUME NEW l, SortedDays(l), NEW m \in Nat, m >= 1, Cardinality(From(l, m)) >= 2
  PROVE m + 1 <= Len(l)
<1>1. Len(l) \in Nat
  BY DEF SortedDays
<1>2. CASE m > Len(l)
  <2>1. From(l, m) = {}
    BY <1>1, <1>2 DEF From
  <2>2. Cardinality(From(l, m)) = 0
    BY <2>1, FS_EmptySet
  <2> QED BY <2>2
<1>3. CASE m = Len(l)
  <2>1. From(l, m) = {l[m]}
    BY <1>1, <1>3 DEF From
  <2>2. Cardinality(From(l, m)) = 1
    BY <2>1, FS_Singleton, Zenon
  <2> QED BY <2>2
<1> QED BY <1>1, <1>2, <1>3

\* A day is in the list if it is where it would be.
LEMMA HereOnly ==
  ASSUME NEW l, SortedDays(l), NEW i \in 0 .. Len(l) - 1, NEW e \in Int, i > 0 => l[i] < e, l[i + 1] >= e
  PROVE e \in Trading!DaySet(l) <=> l[i + 1] = e
<1>1. l \in Seq(Int) /\ Len(l) \in Nat /\ (\A k \in 1 .. Len(l) : l[k] \in Int)
      /\ \A k, j \in 1 .. Len(l) : k < j => l[k] < l[j]
  BY DEF SortedDays
<1>2. ASSUME NEW j \in 1 .. Len(l), l[j] = e PROVE j = i + 1
  <2>1. CASE j > i + 1
    BY <1>1, <1>2, <2>1
  <2>2. CASE j < i + 1
    <3>1. i \in 1 .. Len(l) /\ (j = i \/ j < i)
      BY <1>1, <2>2
    <3> QED BY <1>1, <1>2, <3>1
  <2> QED BY <1>1, <2>1, <2>2
<1> QED BY <1>1, <1>2 DEF Trading!DaySet

After(l, e) == {x \in Trading!DaySet(l) : x > e}

LEMMA AfterListed ==
  ASSUME NEW l, SortedDays(l), NEW m \in 1 .. Len(l)
  PROVE After(l, l[m]) = From(l, m + 1) /\ After(l, l[m] - 1) = From(l, m)
<1>1. /\ l \in Seq(Int) /\ Len(l) \in Nat /\ (\A k \in 1 .. Len(l) : l[k] \in Int)
      /\ \A k, j \in 1 .. Len(l) : k < j => l[k] < l[j]
  BY DEF SortedDays
<1>2. After(l, l[m]) = From(l, m + 1)
  <2>1. m + 1 \in 1 .. Len(l) + 1 /\ l[m] \in Int /\ (m + 1) - 1 = m
    BY <1>1
  <2>2. m + 1 <= Len(l) => l[m + 1] > l[m]
    BY <1>1, <2>1
  <2>3. m + 1 > 1 => l[(m + 1) - 1] <= l[m]
    BY <2>1
  <2> QED BY <2>1, <2>2, <2>3, LaterIs, Zenon DEF After
<1>3. After(l, l[m] - 1) = From(l, m)
  <2>1. m \in 1 .. Len(l) + 1 /\ l[m] - 1 \in Int /\ l[m] > l[m] - 1
    BY <1>1
  <2>2. m > 1 => l[m - 1] <= l[m] - 1
    <3>1. m > 1 => m - 1 \in 1 .. Len(l) /\ m - 1 < m
      BY <1>1
    <3> QED BY <1>1, <3>1, SMTT(60)
  <2> QED BY <2>1, <2>2, LaterIs, Zenon DEF After
<1> QED BY <1>2, <1>3

\* The last day of L that is not in A, or x when there is none.
Before(L, A, x) == IF L \cap A = L THEN x ELSE Trading!Max(L \ A)

LEMMA BeforeListed ==
  ASSUME NEW l, SortedDays(l), NEW m \in 1 .. Len(l)
  PROVE Before(Trading!DaySet(l), From(l, m), l[m]) = l[IF m > 1 THEN m - 1 ELSE 1]
<1> DEFINE L == Trading!DaySet(l)
<1>1. /\ l \in Seq(Int) /\ Len(l) \in Nat /\ (\A k \in 1 .. Len(l) : l[k] \in Int)
      /\ \A k, j \in 1 .. Len(l) : k < j => l[k] < l[j]
  BY DEF SortedDays
<1>2. CASE m = 1
  <2>1. L = From(l, m)
    BY <1>1, <1>2 DEF From, Trading!DaySet
  <2> QED BY <1>2, <2>1 DEF Before
<1>3. CASE m > 1
  <2> DEFINE S == {l[j] : j \in 1 .. m - 1}
  <2>1. m - 1 \in 1 .. Len(l)
    BY <1>1, <1>3
  <2>2. ASSUME NEW j \in 1 .. m - 1 PROVE l[j] \in L /\ l[j] \notin From(l, m)
    <3>1. j \in 1 .. Len(l)
      BY <1>1, <2>1
    <3>2. ASSUME NEW k \in m .. Len(l) PROVE l[k] # l[j]
      <4>1. k \in 1 .. Len(l) /\ j < k
        BY <1>1, <2>1
      <4> QED BY <1>1, <3>1, <4>1
    <3> QED BY <3>1, <3>2 DEF From, Trading!DaySet
  <2>3. ASSUME NEW x \in L, x \notin From(l, m) PROVE \E j \in 1 .. m - 1 : x = l[j]
    <3>1. PICK j \in 1 .. Len(l) : x = l[j]
      BY DEF Trading!DaySet
    <3>2. ~(j \in m .. Len(l))
      BY <2>3, <3>1 DEF From
    <3> QED BY <1>1, <3>1, <3>2
  <2>4. L \ From(l, m) = S
    BY <2>2, <2>3
  <2>5. L \cap From(l, m) # L
    <3>1. m - 1 \in 1 .. m - 1
      BY <2>1
    <3> QED BY <2>2, <3>1
  <2>6. S \subseteq Int /\ l[m - 1] \in S
    BY <1>1, <2>1
  <2>7. ASSUME NEW y \in S PROVE l[m - 1] >= y
    <3>1. PICK j \in 1 .. m - 1 : y = l[j]
      OBVIOUS
    <3>2. j \in 1 .. Len(l) /\ (j = m - 1 \/ j < m - 1)
      BY <1>1, <2>1
    <3>3. l[j] \in Int /\ l[m - 1] \in Int /\ (j < m - 1 => l[j] < l[m - 1])
      BY <1>1, <2>1, <3>2
    <3> QED BY <3>1, <3>2, <3>3
  <2> HIDE DEF S
  <2>8. Trading!Max(S) = l[m - 1]
    BY <2>6, <2>7, MaxIs
  <2> QED BY <1>3, <2>4, <2>5, <2>8 DEF Before
<1> QED BY <1>2, <1>3

\* The days around d, whose place in the list is i.
LEMMA Around ==
  ASSUME NEW l, SortedDays(l), NEW d \in Int, NEW i \in 0 .. Len(l) - 1, i > 0 => l[i] < d, l[i + 1] >= d,
         Cardinality(After(l, d)) >= 2
  PROVE /\ After(l, d - 1) = From(l, i + 1) /\ i + 2 <= Len(l)
        /\ l[i + 1] = d => After(l, d) = From(l, i + 2) /\ i + 3 <= Len(l)
<1>1. /\ l \in Seq(Int) /\ Len(l) \in Nat /\ (\A k \in 1 .. Len(l) : l[k] \in Int)
      /\ \A k, j \in 1 .. Len(l) : k < j => l[k] < l[j]
  BY DEF SortedDays
<1>2. PICK m \in 1 .. Len(l) : m = i + 1
  BY <1>1
<1>3. m > 1 => m - 1 = i /\ l[m - 1] < d /\ l[m - 1] \in Int
  BY <1>1, <1>2
<1>4. /\ l[m] >= d /\ l[m] \in Int /\ m \in 1 .. Len(l) + 1 /\ m + 1 \in 1 .. Len(l) + 1
      /\ m \in Nat /\ m >= 1 /\ m + 1 >= 1
  BY <1>1, <1>2
<1>5. After(l, d - 1) = From(l, m)
  <2>1. (m > 1 => l[m - 1] <= d - 1) /\ (m <= Len(l) => l[m] > d - 1) /\ d - 1 \in Int
    BY <1>3, <1>4
  <2> QED BY <1>4, <2>1, LaterIs, Zenon DEF After
<1>6. CASE l[m] = d
  <2>1. After(l, d) = From(l, m + 1)
    BY <1>6, AfterListed
  <2>2. (m + 1) + 1 <= Len(l)
    BY <1>4, <2>1, TwoFrom
  <2>3. i + 3 <= Len(l) /\ i + 2 <= Len(l) /\ m + 1 = i + 2
    BY <1>1, <1>2, <2>2
  <2> QED BY <1>2, <1>5, <2>1, <2>3
<1>7. CASE l[m] # d
  <2>1. (m > 1 => l[m - 1] <= d) /\ (m <= Len(l) => l[m] > d)
    BY <1>3, <1>4, <1>7
  <2>2. After(l, d) = From(l, m)
    BY <1>4, <2>1, LaterIs, Zenon DEF After
  <2>3. m + 1 <= Len(l)
    BY <1>4, <2>2, TwoFrom
  <2>4. i + 2 <= Len(l)
    BY <1>1, <1>2, <2>3
  <2> QED BY <1>2, <1>5, <1>7, <2>4
<1> QED BY <1>6, <1>7

\* From 18 h of a trading day a strict clock shows the one after it.
LEMMA NightShows ==
  ASSUME ClockInv, clock.alive, ~clock.threw, full.real >= 0, Cardinality(After(clock.days, clock.core[1])) >= 2,
         clock.core[1] \in Trading!DaySet(clock.days), clock.core[2] >= 18, clock.strict
  PROVE LET l == clock.days
            d == clock.core[1]
            L == Trading!DaySet(l)
            t == Trading!Min(After(l, d))
        IN /\ clock.trading = t /\ clock.next = Trading!Min(After(l, t))
           /\ clock.prev = Before(L, After(l, t - 1), t)
           /\ clock.hour = clock.core[2] /\ ~(clock.core[2] < 6)
<1> DEFINE l == clock.days
           d == clock.core[1]
           L == Trading!DaySet(l)
           t == Trading!Min(After(l, d))
<1>1. PICK i : i = clock.index
  OBVIOUS
<1>2. /\ SortedDays(l) /\ clock.core \in Trading!Instants /\ Showing(clock, full.real) /\ Len(l) \in Nat
  BY DEF ClockInv, ClockShape, SortedDays
<1>3. d \in Int /\ clock.core[2] \in Int
  BY <1>2, InstantIs
<1>4. /\ i \in 0 .. Len(l) - 1 /\ l[i + 1] >= d /\ (i > 0 => l[i] < d)
      /\ clock.isTrading = (l[i + 1] = d)
  BY <1>1, <1>2 DEF Showing, Placed, Place
<1>5. l[i + 1] = d
  BY <1>2, <1>3, <1>4, HereOnly
<1>6. clock.isTrading /\ Trading!Evening(clock)
  BY <1>4, <1>5 DEF Trading!Evening
<1>7. After(l, d) = From(l, i + 2) /\ i + 3 <= Len(l)
  BY <1>2, <1>3, <1>4, <1>5, Around
<1>8. /\ clock.prev = l[i + 1] /\ clock.trading = Trading!Listed(l, i + 1)
      /\ clock.next = Trading!Listed(l, i + 2)
  BY <1>1, <1>2, <1>6 DEF Showing, Fields
<1>9. clock.hour = clock.core[2] /\ ~(clock.core[2] < 6)
  BY <1>2, <1>3, <1>6 DEF Showing, Trading!TradingHour
<1> HIDE DEF l, L, t
<1>10. PICK m \in 1 .. Len(l) : m = i + 2 /\ m + 1 \in 1 .. Len(l) /\ m > 1 /\ m - 1 = i + 1 /\ m + 1 = i + 3
  BY <1>2, <1>4, <1>7
<1>11. Trading!Listed(l, i + 1) = l[m] /\ Trading!Listed(l, i + 2) = l[m + 1]
  <2>1. i + 1 \in 0 .. Len(l) - 1 /\ i + 2 \in 0 .. Len(l) - 1 /\ (i + 1) + 1 = m /\ (i + 2) + 1 = m + 1
    BY <1>2, <1>4, <1>7, <1>10
  <2> QED BY <2>1 DEF Trading!Listed
<1>12. t = l[m]
  BY <1>2, <1>7, <1>10, FirstFrom DEF t
<1>13. After(l, t) = From(l, m + 1) /\ After(l, t - 1) = From(l, m)
  BY <1>2, <1>12, AfterListed
<1>14. Trading!Min(After(l, t)) = l[m + 1]
  BY <1>2, <1>10, <1>13, FirstFrom
<1>15. Before(L, After(l, t - 1), t) = l[IF m > 1 THEN m - 1 ELSE 1]
  <2>1. Before(L, From(l, m), l[m]) = l[IF m > 1 THEN m - 1 ELSE 1]
    BY <1>2, BeforeListed, Zenon DEF L
  <2> QED BY <1>12, <1>13, <2>1, Zenon
<1>16. /\ clock.trading = t /\ clock.next = Trading!Min(After(l, t))
       /\ clock.prev = Before(L, After(l, t - 1), t)
  BY <1>8, <1>10, <1>11, <1>12, <1>14, <1>15
<1> QED BY <1>9, <1>16, Zenon DEF l, L, t

\* At any other time a clock shows the first trading day at or after its day.
LEMMA DayShows ==
  ASSUME ClockInv, clock.alive, ~clock.threw, full.real >= 0, Cardinality(After(clock.days, clock.core[1])) >= 2,
         ~(clock.core[1] \in Trading!DaySet(clock.days) /\ clock.core[2] >= 18 /\ clock.strict)
  PROVE LET l == clock.days
            d == clock.core[1]
            L == Trading!DaySet(l)
            t == Trading!Min(After(l, d - 1))
        IN /\ clock.trading = t /\ clock.next = Trading!Min(After(l, t))
           /\ clock.prev = Before(L, After(l, t - 1), t)
<1> DEFINE l == clock.days
           d == clock.core[1]
           L == Trading!DaySet(l)
           t == Trading!Min(After(l, d - 1))
<1>1. PICK i : i = clock.index
  OBVIOUS
<1>2. /\ SortedDays(l) /\ clock.core \in Trading!Instants /\ Showing(clock, full.real) /\ Len(l) \in Nat
      /\ clock.isTrading \in BOOLEAN /\ clock.strict \in BOOLEAN
  BY DEF ClockInv, ClockShape, SortedDays
<1>3. d \in Int /\ clock.core[2] \in Int
  BY <1>2, InstantIs
<1>4. /\ i \in 0 .. Len(l) - 1 /\ l[i + 1] >= d /\ (i > 0 => l[i] < d)
      /\ clock.isTrading = (l[i + 1] = d)
  BY <1>1, <1>2 DEF Showing, Placed, Place
<1>5. d \in L <=> l[i + 1] = d
  BY <1>2, <1>3, <1>4, HereOnly
<1>6. ~(clock.strict /\ Trading!Evening(clock))
  BY <1>4, <1>5 DEF Trading!Evening
<1>7. After(l, d - 1) = From(l, i + 1) /\ i + 2 <= Len(l)
  BY <1>2, <1>3, <1>4, Around
<1>8. /\ clock.trading = l[i + 1] /\ clock.next = l[i + 2]
      /\ clock.prev = l[IF i > 0 THEN i ELSE 1]
  BY <1>1, <1>2, <1>6, <1>7 DEF Showing, Fields
<1> HIDE DEF l, L, t
<1>10. PICK m \in 1 .. Len(l) : m = i + 1 /\ m + 1 \in 1 .. Len(l) /\ m + 1 = i + 2
                                /\ (IF m > 1 THEN m - 1 ELSE 1) = (IF i > 0 THEN i ELSE 1)
  BY <1>2, <1>4, <1>7
<1>12. t = l[m]
  BY <1>2, <1>7, <1>10, FirstFrom DEF t
<1>13. After(l, t) = From(l, m + 1) /\ After(l, t - 1) = From(l, m)
  BY <1>2, <1>12, AfterListed
<1>14. Trading!Min(After(l, t)) = l[m + 1]
  BY <1>2, <1>10, <1>13, FirstFrom
<1>15. Before(L, After(l, t - 1), t) = l[IF m > 1 THEN m - 1 ELSE 1]
  <2>1. Before(L, From(l, m), l[m]) = l[IF m > 1 THEN m - 1 ELSE 1]
    BY <1>2, BeforeListed, Zenon DEF L
  <2> QED BY <1>12, <1>13, <2>1, Zenon
<1>16. /\ clock.trading = t /\ clock.next = Trading!Min(After(l, t))
       /\ clock.prev = Before(L, After(l, t - 1), t)
  BY <1>8, <1>10, <1>12, <1>14, <1>15
<1> QED BY <1>16, Zenon DEF l, L, t

\* The hour of trading, when the day is that of the call.
LEMMA HourShows ==
  ASSUME ClockInv, clock.alive, ~clock.threw, full.real >= 0, clock.strict, full.real = clock.core[1]
  PROVE LET d == clock.core[1]
            L == Trading!DaySet(clock.days)
        IN clock.hour = IF d \in L \/ (d - 1 \in L /\ clock.core[2] < 6)
                        THEN clock.core[2] + (IF d \in L /\ clock.core[2] < 6 THEN 24 ELSE 0) ELSE -1
<1> DEFINE l == clock.days
           d == clock.core[1]
           L == Trading!DaySet(l)
<1>1. PICK i : i = clock.index
  OBVIOUS
<1>2. /\ SortedDays(l) /\ clock.core \in Trading!Instants /\ Showing(clock, full.real) /\ Len(l) \in Nat
      /\ (\A k \in 1 .. Len(l) : l[k] \in Int)
      /\ clock.isTrading \in BOOLEAN /\ clock.isPrev \in BOOLEAN
  BY DEF ClockInv, ClockShape, SortedDays
<1>3. d \in Int /\ clock.core[2] \in Int
  BY <1>2, InstantIs
<1>4. /\ i \in 0 .. Len(l) - 1 /\ l[i + 1] >= d /\ (i > 0 => l[i] < d) /\ l[1] <= d
      /\ clock.isTrading = (l[i + 1] = d)
  BY <1>1, <1>2 DEF Showing, Placed, Place, Inside
<1>5. d \in L <=> l[i + 1] = d
  BY <1>2, <1>3, <1>4, HereOnly
<1>6. clock.hour = Trading!TradingHour(clock)
  BY <1>2 DEF Showing
<1>7. i > 0 => clock.isPrev = (l[i] = d - 1)
  BY <1>1, <1>2 DEF Showing
<1> HIDE DEF L, l
<1>8. CASE d \in L
  <2>1. clock.isTrading
    BY <1>4, <1>5, <1>8
  <2> QED BY <1>3, <1>6, <1>8, <2>1 DEF Trading!TradingHour, L, l
<1>9. CASE d \notin L
  <2>1. i > 0 /\ l[i] \in Int /\ i \in 1 .. Len(l) /\ l[i] < d /\ l[i + 1] \in Int /\ l[i + 1] > d
    BY <1>2, <1>3, <1>4, <1>5, <1>9
  <2>2. d - 1 \in L <=> l[i] = d - 1
    <3>1. CASE l[i] = d - 1
      BY <2>1, <3>1 DEF L, Trading!DaySet
    <3>2. CASE l[i] # d - 1
      <4>1. l[i + 1] >= d - 1 /\ l[i + 1] # d - 1 /\ l[i] < d - 1 /\ d - 1 \in Int
        BY <1>3, <2>1, <3>2
      <4>2. d - 1 \in L <=> l[i + 1] = d - 1
        BY <1>2, <1>4, <4>1, HereOnly DEF L
      <4> QED BY <3>2, <4>1, <4>2
    <3> QED BY <3>1, <3>2
  <2>3. ~clock.isTrading
    BY <1>4, <1>5, <1>9
  <2>4. clock.isPrev <=> d - 1 \in L
    BY <1>7, <2>1, <2>2
  <2>5. clock.hour = IF clock.isPrev /\ clock.core[2] < 6 THEN clock.core[2] ELSE -1
    BY <1>6, <2>3 DEF Trading!TradingHour
  <2>6. clock.hour = IF d - 1 \in L /\ clock.core[2] < 6 THEN clock.core[2] ELSE -1
    BY <2>4, <2>5
  <2> QED BY <1>3, <1>9, <2>6 DEF L, l
<1> QED BY <1>8, <1>9

LEMMA SameCardinality == ASSUME NEW S PROVE Trading!Cardinality(S) = Cardinality(S)
BY Zenon DEF Trading!Cardinality, Cardinality

LEMMA ShowsDay == ClockInv => Trading!TradingDayTrue
<1> DEFINE l == clock.days
           d == clock.core[1]
           L == Trading!DaySet(l)
           night == d \in L /\ clock.core[2] >= 18 /\ clock.strict
<1> SUFFICES ASSUME ClockInv PROVE Trading!TradingDayTrue
  OBVIOUS
<1>1. \A e : Trading!Later(e) = After(l, e)
  BY Zenon DEF Trading!Later, After
<1>2. CASE ~(clock.alive /\ ~clock.threw /\ l # <<>> /\ full.real >= 0 /\ Trading!Cardinality(Trading!Later(d)) >= 2)
  BY <1>2, Zenon DEF Trading!TradingDayTrue
<1>3. CASE clock.alive /\ ~clock.threw /\ l # <<>> /\ full.real >= 0 /\ Trading!Cardinality(Trading!Later(d)) >= 2
  <2>0. Cardinality(After(l, d)) >= 2
    BY <1>1, <1>3, SameCardinality, Zenon
  <2> DEFINE t == Trading!Min(Trading!Later(IF night THEN d ELSE d - 1))
  <2>1. /\ clock.trading = t /\ clock.next = Trading!Min(Trading!Later(t))
        /\ clock.prev = IF L \cap Trading!Later(t - 1) = L THEN t ELSE Trading!Max(L \ Trading!Later(t - 1))
    <3>1. CASE night
      <4>1. t = Trading!Min(After(l, d))
        BY <1>1, <3>1, Zenon
      <4> HIDE DEF t
      <4> QED BY <1>1, <1>3, <2>0, <3>1, <4>1, NightShows, Zenon DEF Before
    <3>2. CASE ~night
      <4>1. t = Trading!Min(After(l, d - 1))
        BY <1>1, <3>2, Zenon
      <4> HIDE DEF t
      <4> QED BY <1>1, <1>3, <2>0, <3>2, <4>1, DayShows, Zenon DEF Before
    <3> QED BY <3>1, <3>2
  <2>2. clock.strict /\ full.real = d =>
           clock.hour = IF d \in L \/ (d - 1 \in L /\ clock.core[2] < 6)
                        THEN clock.core[2] + (IF d \in L /\ clock.core[2] < 6 THEN 24 ELSE 0) ELSE -1
    BY <1>3, HourShows, Zenon
  <2> HIDE DEF t
  <2> QED BY <2>1, <2>2, Zenon DEF Trading!TradingDayTrue, t
<1> QED BY <1>2, <1>3, Zenon

\* A clock shows the trading day of its time, with that day's neighbours in
\* the list and the hour of trading, however it was made, copied, moved and
\* updated: for all lists of days in their order.
THEOREM TradingDayShown == ClockSpec => []Trading!TradingDayTrue
BY ClockFirst, ClockStep, ShowsDay, PTL DEF ClockSpec
-----------------------------------------------------------------------------
(* The calendar: bizDaySorted_ in its order, whichever files were read and   *)
(* however, is what the searches and so the queries rest on.                 *)
\* Numbers that go up to no gap are the first ones, and as many.
LEMMA FirstOnes ==
  ASSUME NEW n \in Nat, NEW S \in SUBSET (1 .. n), \A i \in S, j \in 1 .. n : j < i => j \in S
  PROVE /\ Business!Cardinality(S) \in 0 .. n
        /\ \A i \in 1 .. n : i \in S <=> i <= Business!Cardinality(S)
<1>0. Business!Cardinality(S) = Cardinality(S)
  BY Zenon DEF Business!Cardinality, Cardinality
<1>1. PICK k \in 0 .. n : \A i \in 1 .. n : i \in S <=> i <= k
  <2> DEFINE T == {i \in 1 .. n : i \notin S}
  <2>1. CASE T = {}
    <3>1. \A i \in 1 .. n : i \in S <=> i <= n
      BY <2>1
    <3> QED BY <3>1
  <2>2. CASE T # {}
    <3>1. T \in SUBSET Nat
      OBVIOUS
    <3> HIDE DEF T
    <3>2. PICK t \in T : \A m \in T : t <= m
      BY <2>2, <3>1, LeastNat
    <3>3. t \in 1 .. n /\ t \notin S /\ t - 1 \in 0 .. n
      BY <3>2 DEF T
    <3>4. ASSUME NEW i \in 1 .. n PROVE i \in S <=> i <= t - 1
      <4>1. i \notin S => t <= i
        BY <3>2 DEF T
      <4>2. i \in S => i < t
        BY <3>3
      <4> QED BY <3>3, <4>1, <4>2
    <3> QED BY <3>3, <3>4
  <2> QED BY <2>1, <2>2
<1>2. S = 1 .. k
  <2>1. \A i \in 1 .. k : i \in 1 .. n
    OBVIOUS
  <2>2. S \subseteq 1 .. k
    BY <1>1
  <2>3. 1 .. k \subseteq S
    BY <1>1, <2>1
  <2> QED BY <2>2, <2>3
<1>3. Cardinality(S) = k
  <2>1. Cardinality(1 .. k) = IF 1 > k THEN 0 ELSE (k - 1) + 1
    BY FS_Interval
  <2> QED BY <1>2, <2>1
<1> QED BY <1>0, <1>1, <1>3

NonDec(b) == \A i, j \in 1 .. Len(b) : i <= j => b[i] <= b[j]

\* What lower_bound and upper_bound find.
LEMMA BelowIs ==
  ASSUME NEW b \in Seq(Int), NonDec(b), NEW d \in Int,
         NEW c, c = Business!Cardinality({i \in DOMAIN b : b[i] < d})
  PROVE c \in 0 .. Len(b) /\ \A i \in 1 .. Len(b) : b[i] < d <=> i <= c
<1> DEFINE S == {i \in DOMAIN b : b[i] < d}
<1>1. DOMAIN b = 1 .. Len(b) /\ Len(b) \in Nat /\ \A i \in 1 .. Len(b) : b[i] \in Int
  OBVIOUS
<1>2. S \in SUBSET (1 .. Len(b))
  BY <1>1
<1>3. \A i \in S, j \in 1 .. Len(b) : j < i => j \in S
  <2>1. ASSUME NEW i \in S, NEW j \in 1 .. Len(b), j < i PROVE j \in S
    <3>1. b[j] <= b[i] /\ b[i] < d /\ b[j] \in Int /\ b[i] \in Int
      BY <1>1, <2>1 DEF NonDec
    <3>2. b[j] < d
      BY <3>1
    <3> QED BY <1>1, <3>2
  <2> QED BY <2>1
<1>4. \A i \in 1 .. Len(b) : i \in S <=> b[i] < d
  BY <1>1
<1> HIDE DEF S
<1>5. c \in 0 .. Len(b) /\ \A i \in 1 .. Len(b) : i \in S <=> i <= c
  <2>1. c = Business!Cardinality(S)
    BY DEF S
  <2>2. /\ Business!Cardinality(S) \in 0 .. Len(b)
        /\ \A i \in 1 .. Len(b) : i \in S <=> i <= Business!Cardinality(S)
    BY <1>1, <1>2, <1>3, FirstOnes
  <2> QED BY <2>1, <2>2
<1> QED BY <1>4, <1>5

LEMMA AtMostIs ==
  ASSUME NEW b \in Seq(Int), NonDec(b), NEW d \in Int, NEW c, c = Business!AtMost(b, d)
  PROVE c \in 0 .. Len(b) /\ \A i \in 1 .. Len(b) : b[i] <= d <=> i <= c
<1> DEFINE S == {i \in DOMAIN b : b[i] <= d}
<1>1. DOMAIN b = 1 .. Len(b) /\ Len(b) \in Nat /\ \A i \in 1 .. Len(b) : b[i] \in Int
  OBVIOUS
<1>2. S \in SUBSET (1 .. Len(b))
  BY <1>1
<1>3. \A i \in S, j \in 1 .. Len(b) : j < i => j \in S
  <2>1. ASSUME NEW i \in S, NEW j \in 1 .. Len(b), j < i PROVE j \in S
    <3>1. b[j] <= b[i] /\ b[i] <= d /\ b[j] \in Int /\ b[i] \in Int
      BY <1>1, <2>1 DEF NonDec
    <3>2. b[j] <= d
      BY <3>1
    <3> QED BY <1>1, <3>2
  <2> QED BY <2>1
<1>4. \A i \in 1 .. Len(b) : i \in S <=> b[i] <= d
  BY <1>1
<1> HIDE DEF S
<1>5. c \in 0 .. Len(b) /\ \A i \in 1 .. Len(b) : i \in S <=> i <= c
  <2>1. c = Business!Cardinality(S)
    BY DEF S, Business!AtMost
  <2>2. /\ Business!Cardinality(S) \in 0 .. Len(b)
        /\ \A i \in 1 .. Len(b) : i \in S <=> i <= Business!Cardinality(S)
    BY <1>1, <1>2, <1>3, FirstOnes
  <2> QED BY <2>1, <2>2
<1> QED BY <1>4, <1>5

DaysOf(b) == {b[i] : i \in 1 .. Len(b)}

\* A day put behind those that are not later.
LEMMA InsertIs ==
  ASSUME NEW b \in Seq(Int), NonDec(b), NEW d \in Int,
         NEW t, t = Business!InsertAt(b, Business!AtMost(b, d) + 1, d)
  PROVE t \in Seq(Int) /\ NonDec(t) /\ DaysOf(t) = DaysOf(b) \cup {d}
<1> DEFINE c == Business!AtMost(b, d)
<1>1. c \in 0 .. Len(b) /\ \A i \in 1 .. Len(b) : b[i] <= d <=> i <= c
  BY AtMostIs
<1> HIDE DEF c
<1>2. Len(b) \in Nat /\ c \in Nat /\ \A i \in 1 .. Len(b) : b[i] \in Int
  BY <1>1
<1>3. PICK x \in Seq(Int) : /\ x = SubSeq(b, 1, c) /\ Len(x) = c
                            /\ \A i \in 1 .. c : x[i] = b[i]
  <2>1. SubSeq(b, 1, c) \in Seq(Int) /\ Len(SubSeq(b, 1, c)) = c /\ \A i \in 1 .. c : SubSeq(b, 1, c)[i] = b[i]
    BY <1>1, <1>2
  <2> QED BY <2>1
<1>4. PICK y \in Seq(Int) : /\ y = SubSeq(b, c + 1, Len(b)) /\ Len(y) = Len(b) - c
                            /\ \A i \in 1 .. Len(b) - c : y[i] = b[c + i]
  <2> DEFINE s == SubSeq(b, c + 1, Len(b))
  <2>1. s \in Seq(Int) /\ Len(s) = Len(b) - c
    BY <1>1, <1>2
  <2>2. ASSUME NEW i \in 1 .. Len(b) - c PROVE s[i] = b[c + i]
    <3>1. s[i] = b[(c + 1) + i - 1] /\ (c + 1) + i - 1 = c + i
      BY <1>1, <1>2
    <3> QED BY <3>1
  <2> HIDE DEF s
  <2>3. \E z : z = s
    OBVIOUS
  <2> QED BY <2>1, <2>2 DEF s
<1>5. t = (x \o <<d>>) \o y
  <2>1. (c + 1) - 1 = c
    BY <1>2
  <2> QED BY <1>3, <1>4, <2>1 DEF Business!InsertAt, c
<1>6. PICK z \in Seq(Int) : /\ z = x \o <<d>> /\ Len(z) = c + 1 /\ z[c + 1] = d
                            /\ \A i \in 1 .. c : z[i] = b[i]
  <2>1. <<d>> \in Seq(Int) /\ Len(<<d>>) = 1 /\ <<d>>[1] = d
    OBVIOUS
  <2>2. x \o <<d>> \in Seq(Int) /\ Len(x \o <<d>>) = c + 1
    BY <1>2, <1>3, <2>1
  <2>3. (x \o <<d>>)[c + 1] = d
    BY <1>2, <1>3, <2>1
  <2>4. \A i \in 1 .. c : (x \o <<d>>)[i] = b[i]
    BY <1>2, <1>3, <2>1
  <2> QED BY <2>2, <2>3, <2>4
<1>n. Len(z) + Len(y) = Len(b) + 1
  <2>1. (c + 1) + (Len(b) - c) = Len(b) + 1
    BY <1>2
  <2> QED BY <1>4, <1>6, <2>1
<1>7. t \in Seq(Int) /\ Len(t) = Len(b) + 1
  <2>1. t = z \o y
    BY <1>5, <1>6
  <2>2. t \in Seq(Int) /\ Len(t) = Len(z) + Len(y)
    <3>1. z \o y \in Seq(Int) /\ Len(z \o y) = Len(z) + Len(y)
      BY ConcatProperties
    <3> QED BY <2>1, <3>1
  <2>3. Len(z) + Len(y) = Len(b) + 1
    BY <1>n
  <2> QED BY <2>2, <2>3
<1>8. ASSUME NEW i \in 1 .. Len(t) PROVE t[i] = IF i <= c THEN b[i] ELSE IF i = c + 1 THEN d ELSE b[i - 1]
  <2>1. t = z \o y /\ i \in 1 .. Len(b) + 1
    BY <1>5, <1>6, <1>7
  <2>2. CASE i <= c + 1
    <3>1. t[i] = z[i]
      BY <1>2, <1>6, <2>1, <2>2
    <3> QED BY <1>2, <1>6, <2>1, <2>2, <3>1
  <2>3. CASE i > c + 1
    <3>1. i - (c + 1) \in 1 .. Len(b) - c /\ c + (i - (c + 1)) = i - 1
      BY <1>1, <1>2, <2>1, <2>3
    <3>2. t[i] = y[i - (c + 1)]
      <4>1. i \in Int /\ ~(i <= Len(z)) /\ i - Len(z) = i - (c + 1) /\ i \in 1 .. Len(z) + Len(y)
        <5>1. Len(z) = c + 1 /\ i \in Int /\ i > c + 1 /\ i <= Len(b) + 1
          BY <1>2, <1>6, <2>1, <2>3
        <5>2. Len(z) + Len(y) = Len(b) + 1
          BY <1>n
        <5> QED BY <1>2, <5>1, <5>2
      <4>2. (z \o y)[i] = y[i - Len(z)]
        BY <4>1, ConcatProperties
      <4> QED BY <2>1, <4>1, <4>2
    <3>3. y[i - (c + 1)] = b[i - 1]
      BY <1>4, <3>1
    <3> QED BY <1>2, <2>3, <3>2, <3>3
  <2> QED BY <1>2, <2>1, <2>2, <2>3
<1>9. ASSUME NEW i \in 1 .. Len(t), NEW j \in 1 .. Len(t), i < j PROVE t[i] <= t[j]
  <2>1. i \in 1 .. Len(b) /\ j - 1 \in 1 .. Len(b) /\ i <= j - 1
    <3>1. \A m, n \in Nat : n = m + 1 =>
            \A p, q \in 1 .. n : p < q => p \in 1 .. m /\ q - 1 \in 1 .. m /\ p <= q - 1
      OBVIOUS
    <3>2. Len(b) \in Nat /\ Len(t) = Len(b) + 1 /\ Len(t) \in Nat
      BY <1>2, <1>7
    <3> QED BY <1>9, <3>1, <3>2, Zenon
  <2>2. b[i] <= b[j - 1] /\ b[i] \in Int /\ b[j - 1] \in Int
    BY <1>2, <2>1 DEF NonDec
  <2>3. CASE j <= c
    <3>1. j \in 1 .. Len(b) /\ i <= j /\ t[i] = b[i] /\ t[j] = b[j]
      BY <1>1, <1>2, <1>7, <1>8, <1>9, <2>3
    <3> QED BY <2>1, <3>1 DEF NonDec
  <2>4. CASE j = c + 1
    <3>1. t[i] = b[i] /\ t[j] = d /\ i <= c
      BY <1>2, <1>8, <1>9, <2>4
    <3> QED BY <1>1, <2>1, <3>1
  <2>5. CASE j > c + 1
    <3>1. t[j] = b[j - 1]
      BY <1>2, <1>8, <2>5
    <3>2. CASE i <= c
      BY <1>8, <2>2, <3>1, <3>2
    <3>3. CASE i = c + 1
      <4>1. t[i] = d /\ ~(j - 1 <= c)
        BY <1>2, <1>8, <2>5, <3>3
      <4>2. ~(b[j - 1] <= d)
        BY <1>1, <2>1, <4>1
      <4> QED BY <2>2, <3>1, <4>1, <4>2
    <3>4. CASE i > c + 1
      <4>1. t[i] = b[i - 1] /\ i - 1 \in 1 .. Len(b) /\ i - 1 <= j - 1
        BY <1>2, <1>8, <1>9, <2>1, <3>4
      <4> QED BY <2>1, <3>1, <4>1 DEF NonDec
    <3> QED BY <1>2, <3>2, <3>3, <3>4
  <2> QED BY <1>2, <2>3, <2>4, <2>5
<1>10. NonDec(t)
  <2>1. \A i \in 1 .. Len(t) : t[i] \in Int
    BY <1>7
  <2>2. ASSUME NEW i \in 1 .. Len(t), NEW j \in 1 .. Len(t), i <= j PROVE t[i] <= t[j]
    <3>1. CASE i = j
      BY <2>1, <3>1
    <3>2. CASE i < j
      BY <1>9, <3>2
    <3> QED BY <2>2, <3>1, <3>2
  <2> QED BY <2>2 DEF NonDec
<1>11. DaysOf(t) \subseteq DaysOf(b) \cup {d}
  <2>1. ASSUME NEW i \in 1 .. Len(t) PROVE t[i] \in DaysOf(b) \cup {d}
    <3>1. CASE i <= c
      <4>1. i \in 1 .. Len(b) /\ t[i] = b[i]
        BY <1>1, <1>2, <1>8, <3>1
      <4> QED BY <4>1 DEF DaysOf
    <3>2. CASE i = c + 1
      BY <1>2, <1>8, <3>2
    <3>3. CASE i > c + 1
      <4>1. i - 1 \in 1 .. Len(b) /\ t[i] = b[i - 1]
        BY <1>1, <1>2, <1>7, <1>8, <3>3
      <4> QED BY <4>1 DEF DaysOf
    <3> QED BY <1>2, <3>1, <3>2, <3>3
  <2> QED BY <2>1 DEF DaysOf
<1>12. DaysOf(b) \cup {d} \subseteq DaysOf(t)
  <2>1. d \in DaysOf(t)
    <3>1. c + 1 \in 1 .. Len(t) /\ t[c + 1] = d
      <4>1. c + 1 \in 1 .. Len(t) /\ ~(c + 1 <= c)
        BY <1>1, <1>2, <1>7
      <4> QED BY <1>8, <4>1
    <3> QED BY <3>1 DEF DaysOf
  <2>2. ASSUME NEW i \in 1 .. Len(b) PROVE b[i] \in DaysOf(t)
    <3>1. CASE i <= c
      <4>0. Len(t) = Len(b) + 1 /\ i \in 1 .. Len(b) /\ Len(b) \in Nat
        BY <1>2, <1>7
      <4>1. i \in 1 .. Len(t) /\ t[i] = b[i]
        BY <1>8, <3>1, <4>0
      <4> QED BY <4>1 DEF DaysOf
    <3>2. CASE i > c
      <4>1. i + 1 \in 1 .. Len(t) /\ ~(i + 1 <= c) /\ i + 1 # c + 1 /\ (i + 1) - 1 = i
        BY <1>2, <1>7, <3>2
      <4>2. t[i + 1] = b[i]
        BY <1>8, <4>1
      <4> QED BY <4>1, <4>2 DEF DaysOf
    <3> QED BY <1>2, <3>1, <3>2
  <2> QED BY <2>1, <2>2 DEF DaysOf
<1> QED BY <1>7, <1>10, <1>11, <1>12

LEMMA SortedIs ==
  ASSUME NEW a \in Seq(Int), NEW t, t = Business!Sorted(a)
  PROVE t \in Seq(Int) /\ NonDec(t) /\ DaysOf(t) = DaysOf(a)
<1> DEFINE n == Len(a)
           Put(b, d) == Business!InsertAt(b, Business!AtMost(b, d) + 1, d)
           V == {v \in Seq(Int) : NonDec(v)}
           s == [p \in (1 .. n) \X V |-> Put(p[2], a[p[1]])]
           F(f) == [k \in 0 .. n |-> IF k = 0 THEN <<>> ELSE Put(f[k - 1], a[k])]
<1>0. n \in Nat /\ \A k \in 1 .. n : a[k] \in Int
  OBVIOUS
<1>p. ASSUME NEW b \in V, NEW d \in Int PROVE Put(b, d) \in V /\ DaysOf(Put(b, d)) = DaysOf(b) \cup {d}
  BY InsertIs
<1>1. s \in [(1 .. n) \X V -> V]
  <2>1. ASSUME NEW p \in (1 .. n) \X V PROVE Put(p[2], a[p[1]]) \in V
    <3>1. p[1] \in 1 .. n /\ p[2] \in V
      OBVIOUS
    <3> HIDE DEF Put, V
    <3> QED BY <1>0, <1>p, <3>1
  <2> HIDE DEF Put, V
  <2> QED BY <2>1
<1>2. <<>> \in V
  <2>1. <<>> \in Seq(Int) /\ Len(<<>>) = 0
    OBVIOUS
  <2> QED BY <2>1 DEF NonDec
<1> HIDE DEF V, Put
<1>3. ASSUME NEW k \in 1 .. n, NEW v \in V PROVE s[<<k, v>>] = Put(v, a[k])
  OBVIOUS
<1> HIDE DEF s, n
<1>4. PICK f : Steps(n, V, <<>>, s, f)
  BY <1>0, <1>1, <1>2, StepsExist
<1>5. f \in [0 .. n -> V] /\ f[0] = <<>> /\ \A k \in 1 .. n : f[k] = s[<<k, f[k - 1]>>]
  BY <1>4 DEF Steps
<1>6. ASSUME NEW k \in 1 .. n PROVE f[k] = Put(f[k - 1], a[k]) /\ f[k - 1] \in V
  <2>1. f[k - 1] \in V
    <3>1. k - 1 \in 0 .. n
      BY <1>0
    <3> QED BY <1>5, <3>1
  <2>2. f[k] = s[<<k, f[k - 1]>>]
    BY <1>5
  <2>3. s[<<k, f[k - 1]>>] = Put(f[k - 1], a[k])
    BY <1>3, <2>1
  <2> QED BY <2>1, <2>2, <2>3
<1>7. ASSUME NEW k \in 0 .. n
      PROVE f[k] = IF k = 0 THEN <<>> ELSE Put(f[k - 1], a[k])
  <2>1. CASE k = 0
    BY <1>5, <2>1
  <2>2. CASE k # 0
    <3>1. k \in 1 .. n
      BY <1>0, <2>2
    <3> QED BY <1>6, <2>2, <3>1
  <2> QED BY <2>1, <2>2
<1>8. f = F(f)
  BY <1>5, <1>7
<1> DEFINE b == CHOOSE g : g = F(g)
<1>9. b = F(b)
  <2> HIDE DEF F
  <2> QED BY <1>8
<1>t. t = b[n]
  BY DEF Business!Sorted, Put, n
<1> HIDE DEF b
<1>10. b[0] = <<>>
  BY <1>0, <1>9
<1>11. ASSUME NEW k \in 1 .. n PROVE b[k] = Put(b[k - 1], a[k])
  <2>1. k \in 0 .. n /\ k # 0
    BY <1>0
  <2>2. F(b)[k] = Put(b[k - 1], a[k])
    BY <2>1
  <2> HIDE DEF F
  <2> QED BY <1>9, <2>2
<1> DEFINE S == {k \in 0 .. n : b[k] = f[k] /\ DaysOf(f[k]) = {a[i] : i \in 1 .. k}}
<1>12. 0 \in S
  <2>1. DaysOf(<<>>) = {} /\ {a[i] : i \in 1 .. 0} = {}
    BY DEF DaysOf
  <2> QED BY <1>0, <1>5, <1>10, <2>1
<1>13. ASSUME NEW k \in 1 .. n, k - 1 \in S PROVE k \in S
  <2>1. b[k - 1] = f[k - 1] /\ DaysOf(f[k - 1]) = {a[i] : i \in 1 .. k - 1}
    BY <1>13
  <2>2. b[k] = f[k]
    BY <1>6, <1>11, <2>1
  <2>3. DaysOf(f[k]) = DaysOf(f[k - 1]) \cup {a[k]}
    BY <1>0, <1>p, <1>6
  <2>4. {a[i] : i \in 1 .. k} = {a[i] : i \in 1 .. k - 1} \cup {a[k]}
    <3>1. \A i \in 1 .. k : i \in 1 .. k - 1 \/ i = k
      BY <1>0
    <3>2. \A i \in 1 .. k - 1 : i \in 1 .. k
      BY <1>0
    <3>3. k \in 1 .. k
      OBVIOUS
    <3> QED BY <3>1, <3>2, <3>3
  <2>5. k \in 0 .. n
    BY <1>0
  <2> QED BY <2>1, <2>2, <2>3, <2>4, <2>5
<1> HIDE DEF S
<1>14. n \in S
  <2>1. \A k \in 0 .. n : k \in S
    BY <1>0, <1>12, <1>13, UpTo
  <2> QED BY <1>0, <2>1
<1>15. b[n] = f[n] /\ DaysOf(f[n]) = {a[i] : i \in 1 .. n} /\ f[n] \in V
  <2>1. b[n] = f[n] /\ DaysOf(f[n]) = {a[i] : i \in 1 .. n}
    BY <1>14 DEF S
  <2> QED BY <1>0, <1>5, <2>1
<1> QED BY <1>t, <1>15 DEF V, DaysOf, n

\* The index has the days that are there, and all of them after an init that
\* ended well, which has sorted them.
CalendarInv ==
  /\ bizDays \in Seq(Dates) /\ bizIndex \subseteq DaysOf(bizDays)
  /\ sound \in BOOLEAN /\ year \in Years \cup {0}
  /\ sound => bizDays # <<>> /\ NonDec(bizDays) /\ DaysOf(bizDays) \subseteq bizIndex

LEMMA CalendarFirst == Business!Init => CalendarInv
<1> SUFFICES ASSUME Business!Init PROVE CalendarInv
  OBVIOUS
<1>1. bizDays = <<>> /\ bizIndex = {} /\ sound = FALSE /\ year = 0
  BY DEF Business!Init
<1>2. <<>> \in Seq(Dates)
  OBVIOUS
<1> QED BY <1>1, <1>2 DEF CalendarInv

LEMMA CalendarStep == CalendarInv /\ [Business!Next]_calendarVars => CalendarInv'
<1> SUFFICES ASSUME CalendarInv, [Business!Next]_calendarVars PROVE CalendarInv'
  OBVIOUS
<1>1. CASE UNCHANGED calendarVars
  BY <1>1 DEF calendarVars, CalendarInv
<1>2. ASSUME NEW y \in Years, Business!AskYear(y) PROVE CalendarInv'
  BY <1>2 DEF Business!AskYear, CalendarInv
<1>3. ASSUME NEW f \in Files, Business!InitFile(f) PROVE CalendarInv'
  <2> DEFINE lines == IF f = <<>> THEN <<Business!Blank>> ELSE IF f[1] = Business!Header THEN Tail(f) ELSE f
             bad == {i \in DOMAIN lines : lines[i] \in {Business!Blank, Business!Header}}
             G == {i \in DOMAIN lines : \A j \in bad : i < j}
             good == Business!Cardinality(G)
             read == SubSeq(lines, 1, good)
             days == bizDays \o read
  <2>1. /\ bizDays' = IF bad = {} THEN Business!Sorted(days) ELSE days
        /\ bizIndex' = IF bad = {} THEN bizIndex \cup Business!ToSet(days) ELSE bizIndex
        /\ sound' = (bad = {} /\ days # <<>>)
        /\ year' = year
    BY <1>3 DEF Business!InitFile
  <2>2. lines \in Seq(Dates \cup {0, -1})
    <3>1. f \in Seq(Dates \cup {0, -1})
      BY CalendarAssumption
    <3>2. <<Business!Blank>> \in Seq(Dates \cup {0, -1})
      BY DEF Business!Blank
    <3>3. f # <<>> => Tail(f) \in Seq(Dates \cup {0, -1})
      BY <3>1
    <3> QED BY <3>1, <3>2, <3>3
  <2>3. DOMAIN lines = 1 .. Len(lines) /\ Len(lines) \in Nat
    BY <2>2, SMTT(60)
  <2> HIDE DEF lines
  <2>4. G \in SUBSET (1 .. Len(lines)) /\ \A i \in G, j \in 1 .. Len(lines) : j < i => j \in G
    <3>1. bad \subseteq 1 .. Len(lines)
      BY <2>3
    <3>2. ASSUME NEW i \in G, NEW j \in 1 .. Len(lines), j < i PROVE j \in G
      <4>1. \A k \in bad : j < k
        BY <2>3, <3>1, <3>2
      <4> QED BY <2>3, <4>1
    <3> QED BY <2>3, <3>2
  <2>5. good \in 0 .. Len(lines) /\ \A i \in 1 .. Len(lines) : i \in G <=> i <= good
    <3> HIDE DEF G
    <3> QED BY <2>3, <2>4, FirstOnes
  <2>6. ASSUME NEW i \in 1 .. good PROVE lines[i] \in Dates
    <3>1. i \in 1 .. Len(lines) /\ i \in G
      <4>1. i \in 1 .. Len(lines) /\ i <= good
        BY <2>3, <2>5
      <4> QED BY <2>5, <4>1
    <3>2. i \notin bad
      BY <3>1
    <3>3. lines[i] \notin {Business!Blank, Business!Header} /\ lines[i] \in Dates \cup {0, -1}
      BY <2>2, <2>3, <3>1, <3>2
    <3> QED BY <3>3 DEF Business!Blank, Business!Header
  <2> HIDE DEF good, G, bad
  <2>7. read \in Seq(Dates)
    BY <2>3, <2>5, <2>6
  <2> HIDE DEF read
  <2>8. PICK a \in Seq(Dates) : a = days
    <3>1. bizDays \in Seq(Dates)
      BY DEF CalendarInv
    <3>2. bizDays \o read \in Seq(Dates)
      BY <2>7, <3>1, ConcatProperties
    <3> QED BY <3>2
  <2>9. DaysOf(bizDays) \subseteq DaysOf(a)
    <3>1. bizDays \in Seq(Dates) /\ a = bizDays \o read
      BY <2>8 DEF CalendarInv
    <3>2. ASSUME NEW i \in 1 .. Len(bizDays) PROVE bizDays[i] \in DaysOf(a)
      <4>1. i \in 1 .. Len(a) /\ a[i] = bizDays[i]
        BY <2>7, <3>1
      <4> QED BY <4>1 DEF DaysOf
    <3> QED BY <3>2 DEF DaysOf
  <2>10. Business!ToSet(days) = DaysOf(a)
    <3>1. DOMAIN a = 1 .. Len(a)
      OBVIOUS
    <3> QED BY <2>8, <3>1 DEF DaysOf, Business!ToSet
  <2> HIDE DEF days
  <2>11. CASE bad = {}
    <3>1. a \in Seq(Int)
      <4>1. Dates \subseteq Int
        BY CalendarAssumption
      <4> QED BY <4>1, SeqMonotonic
    <3>2. bizDays' \in Seq(Int) /\ NonDec(bizDays') /\ DaysOf(bizDays') = DaysOf(a)
      BY <2>1, <2>8, <2>11, <3>1, SortedIs
    <3>3. DaysOf(a) \subseteq Dates
      BY DEF DaysOf
    <3>4. bizDays' \in Seq(Dates)
      <4>1. \A i \in 1 .. Len(bizDays') : bizDays'[i] \in Dates
        BY <3>2, <3>3 DEF DaysOf
      <4> QED BY <3>2, <4>1
    <3>5. bizIndex' = DaysOf(a)
      BY <2>1, <2>9, <2>10, <2>11 DEF CalendarInv
    <3>6. sound' => bizDays' # <<>>
      <4>1. ASSUME sound' PROVE DaysOf(a) # {}
        <5>1. a # <<>> /\ a \in Seq(Dates)
          BY <2>1, <2>8, <4>1
        <5>2. 1 \in 1 .. Len(a)
          BY <5>1
        <5> QED BY <5>2 DEF DaysOf
      <4>2. DaysOf(<<>>) = {}
        BY DEF DaysOf
      <4> QED BY <3>2, <4>1, <4>2
    <3> QED BY <2>1, <2>11, <3>2, <3>4, <3>5, <3>6 DEF CalendarInv
  <2>12. CASE bad # {}
    BY <2>1, <2>8, <2>9, <2>12 DEF CalendarInv
  <2> QED BY <2>11, <2>12
<1> QED BY <1>1, <1>2, <1>3 DEF Business!Next

\* The least of a set.
LEMMA LeastIs ==
  ASSUME NEW S, S \subseteq Int, NEW x \in S, \A y \in S : x <= y
  PROVE Business!Min(S) = x
<1>1. \E z \in S : \A y \in S : z <= y
  OBVIOUS
<1>2. Business!Min(S) \in S /\ \A y \in S : Business!Min(S) <= y
  BY <1>1, Zenon DEF Business!Min
<1> DEFINE m == Business!Min(S)
<1>3. m \in S /\ \A y \in S : m <= y
  BY <1>2, Zenon
<1> HIDE DEF m
<1>4. m \in Int /\ x \in Int /\ m <= x /\ x <= m
  BY <1>3
<1>5. m = x
  BY <1>4
<1> QED BY <1>5 DEF m

\* The days of an init that ended well, as the queries meet them.
Listed(N) == /\ bizDays \in Seq(Int) /\ N = Len(bizDays) /\ N \in Nat \ {0}
             /\ \A i \in 1 .. N : bizDays[i] \in Int
             /\ \A i, j \in 1 .. N : i <= j => bizDays[i] <= bizDays[j]
             /\ Business!first_day = bizDays[1] /\ Business!last_day = bizDays[N]
             /\ \A i \in 0 .. N - 1 : Business!Day(i) = bizDays[i + 1]

LEMMA ListedIs ==
  ASSUME CalendarInv, sound
  PROVE Listed(Len(bizDays)) /\ NonDec(bizDays)
<1>1. bizDays \in Seq(Dates) /\ bizDays # <<>> /\ NonDec(bizDays)
  BY DEF CalendarInv
<1>2. Dates \subseteq Int
  BY CalendarAssumption
<1>3. bizDays \in Seq(Int)
  BY <1>1, <1>2, SeqMonotonic
<1>4. Len(bizDays) \in Nat \ {0} /\ \A i \in 1 .. Len(bizDays) : bizDays[i] \in Int
  BY <1>1, <1>3
<1>5. \A i \in 0 .. Len(bizDays) - 1 : Business!Day(i) = bizDays[i + 1]
  BY DEF Business!Day
<1>6. Business!first_day = bizDays[1]
  <2>1. 0 \in 0 .. Len(bizDays) - 1 /\ 0 + 1 = 1
    BY <1>4
  <2> QED BY <1>5, <2>1 DEF Business!first_day
<1>7. Business!last_day = bizDays[Len(bizDays)]
  <2>1. Len(bizDays) - 1 \in 0 .. Len(bizDays) - 1 /\ (Len(bizDays) - 1) + 1 = Len(bizDays)
    BY <1>4
  <2> QED BY <1>5, <2>1 DEF Business!last_day
<1> QED BY <1>1, <1>3, <1>4, <1>5, <1>6, <1>7 DEF Listed, NonDec

\* Where the days from d on begin, for a day inside of the calendar.
LEMMA LowerIs ==
  ASSUME NEW N, Listed(N), NonDec(bizDays), NEW d \in Int
  PROVE /\ Business!Lower(d) \in 0 .. N
        /\ \A i \in 1 .. N : bizDays[i] < d <=> i <= Business!Lower(d)
        /\ Business!last_day >= d => Business!Lower(d) < N
<1>1. bizDays \in Seq(Int) /\ N = Len(bizDays) /\ N \in Nat \ {0}
  BY DEF Listed
<1> DEFINE c == Business!Lower(d)
<1>2. c \in 0 .. Len(bizDays) /\ \A i \in 1 .. Len(bizDays) : bizDays[i] < d <=> i <= c
  BY <1>1, BelowIs DEF Business!Lower
<1> HIDE DEF c
<1>3. ASSUME Business!last_day >= d PROVE c < N
  <2>1. bizDays[N] >= d /\ N \in 1 .. N /\ bizDays[N] \in Int
    BY <1>1, <1>3 DEF Listed
  <2>2. ~(N <= c)
    BY <1>1, <1>2, <2>1
  <2> QED BY <1>1, <1>2, <2>2
<1> QED BY <1>1, <1>2, <1>3 DEF c

LEMMA UpperIs ==
  ASSUME NEW N, Listed(N), NonDec(bizDays), NEW d \in Int
  PROVE /\ Business!Upper(d) \in 0 .. N
        /\ \A i \in 1 .. N : bizDays[i] <= d <=> i <= Business!Upper(d)
        /\ Business!last_day > d => Business!Upper(d) < N
        /\ Business!first_day <= d => Business!Upper(d) >= 1
<1>1. bizDays \in Seq(Int) /\ N = Len(bizDays) /\ N \in Nat \ {0}
  BY DEF Listed
<1> DEFINE c == Business!Upper(d)
<1>2. c \in 0 .. Len(bizDays) /\ \A i \in 1 .. Len(bizDays) : bizDays[i] <= d <=> i <= c
  BY <1>1, AtMostIs DEF Business!Upper
<1> HIDE DEF c
<1>3. ASSUME Business!last_day > d PROVE c < N
  <2>1. bizDays[N] > d /\ N \in 1 .. N /\ bizDays[N] \in Int
    BY <1>1, <1>3 DEF Listed
  <2>2. ~(N <= c)
    BY <1>1, <1>2, <2>1
  <2> QED BY <1>1, <1>2, <2>2
<1>4. ASSUME Business!first_day <= d PROVE c >= 1
  <2>1. bizDays[1] <= d /\ 1 \in 1 .. N
    BY <1>1, <1>4 DEF Listed
  <2> QED BY <1>1, <1>2, <2>1
<1> QED BY <1>1, <1>2, <1>3, <1>4 DEF c

\* A range that starts inside is what lies in it.
LEMMA RangeIs ==
  ASSUME NEW N, Listed(N), NonDec(bizDays), NEW a \in Int, NEW b \in Int,
         Business!first_day <= a, a < Business!last_day
  PROVE Business!ToSet(Business!bizDayRange(a, b)) = {d \in DaysOf(bizDays) : a <= d /\ d <= b}
<1> DEFINE L == Business!Lower(a)
           U == Business!Upper(b)
           r == SubSeq(bizDays, L + 1, U)
<1>0. /\ bizDays \in Seq(Int) /\ N = Len(bizDays) /\ N \in Nat \ {0}
      /\ \A i \in 1 .. N : bizDays[i] \in Int
      /\ Business!first_day \in Int /\ Business!last_day \in Int
  BY DEF Listed
<1>1. L \in 0 .. N /\ \A i \in 1 .. N : bizDays[i] < a <=> i <= L
  BY LowerIs
<1>2. U \in 0 .. N /\ \A i \in 1 .. N : bizDays[i] <= b <=> i <= U
  BY UpperIs
<1>3. Business!bizDayRange(a, b) = r
  <2>1. Business!lowerBoundIndex(a) = L
    BY <1>0 DEF Business!lowerBoundIndex
  <2>2. ~(L < 0)
    BY <1>1
  <2> QED BY <2>1, <2>2 DEF Business!bizDayRange
<1> HIDE DEF L, U
<1>4. r \in Seq(Int) /\ Len(r) = (IF L + 1 <= U THEN U - L ELSE 0) /\ \A k \in 1 .. Len(r) : r[k] = bizDays[L + k]
  <2>1. \A i \in L + 1 .. U : bizDays[i] \in Int
    BY <1>0, <1>1, <1>2
  <2>2. r \in Seq(Int) /\ Len(r) = IF L + 1 <= U THEN U - L ELSE 0
    BY <1>0, <1>1, <1>2, <2>1
  <2>3. ASSUME NEW k \in 1 .. Len(r) PROVE r[k] = bizDays[L + k]
    <3>1. k \in 1 .. U - (L + 1) + 1 /\ (L + 1) + k - 1 = L + k
      BY <1>1, <1>2, <2>2
    <3>2. r[k] = bizDays[(L + 1) + k - 1]
      BY <1>0, <1>1, <1>2, <2>1, <3>1, SubSeqProperties
    <3> QED BY <3>1, <3>2
  <2> QED BY <2>2, <2>3
<1> HIDE DEF r
<1>5. ASSUME NEW k \in 1 .. Len(r)
      PROVE r[k] \in {d \in DaysOf(bizDays) : a <= d /\ d <= b}
  <2>1. L + k \in 1 .. N /\ ~(L + k <= L) /\ L + k <= U
    BY <1>0, <1>1, <1>2, <1>4
  <2>2. bizDays[L + k] \in Int /\ ~(bizDays[L + k] < a) /\ bizDays[L + k] <= b
    BY <1>0, <1>1, <1>2, <2>1
  <2>3. r[k] = bizDays[L + k] /\ bizDays[L + k] \in DaysOf(bizDays)
    BY <1>0, <1>4, <2>1 DEF DaysOf
  <2> QED BY <2>2, <2>3
<1>6. ASSUME NEW i \in 1 .. N, a <= bizDays[i], bizDays[i] <= b
      PROVE \E k \in 1 .. Len(r) : r[k] = bizDays[i]
  <2>1. ~(i <= L) /\ i <= U
    BY <1>0, <1>1, <1>2, <1>6
  <2>2. i - L \in 1 .. Len(r) /\ L + (i - L) = i
    BY <1>0, <1>1, <1>2, <1>4, <2>1
  <2> QED BY <1>4, <2>2
<1>7. Business!ToSet(r) = {r[k] : k \in 1 .. Len(r)}
  BY <1>4 DEF Business!ToSet
<1>8. DaysOf(bizDays) = {bizDays[i] : i \in 1 .. N}
  BY <1>0 DEF DaysOf
<1> QED BY <1>3, <1>5, <1>6, <1>7, <1>8

\* The next day and the first one from d on; the one before the next is d.
LEMMA NextIs ==
  ASSUME NEW N, Listed(N), NonDec(bizDays), NEW d \in Int,
         Business!first_day <= d, d < Business!last_day
  PROVE /\ Business!next(d) = Business!Min({x \in DaysOf(bizDays) : x > d})
        /\ Business!lowerBound(d) = Business!Min({x \in DaysOf(bizDays) : x >= d})
        /\ d \in DaysOf(bizDays) => Business!prev(Business!next(d)) = d
<1> DEFINE B == DaysOf(bizDays)
           L == Business!Lower(d)
           U == Business!Upper(d)
<1>0. /\ bizDays \in Seq(Int) /\ N = Len(bizDays) /\ N \in Nat \ {0}
      /\ \A i \in 1 .. N : bizDays[i] \in Int
      /\ \A i, j \in 1 .. N : i <= j => bizDays[i] <= bizDays[j]
      /\ Business!first_day \in Int /\ Business!last_day \in Int
      /\ \A i \in 0 .. N - 1 : Business!Day(i) = bizDays[i + 1]
  BY DEF Listed
<1>1. L \in 0 .. N - 1 /\ \A i \in 1 .. N : bizDays[i] < d <=> i <= L
  <2>1. L \in 0 .. N /\ \A i \in 1 .. N : bizDays[i] < d <=> i <= L
    BY LowerIs
  <2>2. L < N
    BY <1>0, LowerIs
  <2> HIDE DEF L
  <2> QED BY <1>0, <2>1, <2>2
<1>2. U \in 1 .. N - 1 /\ \A i \in 1 .. N : bizDays[i] <= d <=> i <= U
  <2>1. U \in 0 .. N /\ \A i \in 1 .. N : bizDays[i] <= d <=> i <= U
    BY UpperIs
  <2>2. U < N /\ U >= 1
    BY <1>0, UpperIs
  <2> HIDE DEF U
  <2> QED BY <1>0, <2>1, <2>2
<1>3. Business!next(d) = bizDays[U + 1]
  BY <1>0, <1>2 DEF Business!next
<1>4. Business!lowerBound(d) = bizDays[L + 1]
  BY <1>0, <1>1 DEF Business!lowerBound
<1> HIDE DEF L, U
<1>5. B \subseteq Int /\ \A x \in B : \E i \in 1 .. N : x = bizDays[i]
  BY <1>0 DEF DaysOf
<1>6. Business!Min({x \in B : x > d}) = bizDays[U + 1]
  <2>1. U + 1 \in 1 .. N /\ ~(U + 1 <= U)
    BY <1>0, <1>2
  <2>2. bizDays[U + 1] \in Int /\ bizDays[U + 1] > d
    BY <1>0, <1>2, <2>1
  <2>3. bizDays[U + 1] \in {x \in B : x > d}
    BY <1>0, <2>1, <2>2 DEF DaysOf
  <2>4. ASSUME NEW y \in {x \in B : x > d} PROVE bizDays[U + 1] <= y
    <3>1. PICK i \in 1 .. N : y = bizDays[i]
      BY <1>5
    <3>2. ~(bizDays[i] <= d)
      BY <1>0, <3>1
    <3>3. U + 1 <= i
      BY <1>2, <3>2
    <3> QED BY <1>0, <2>1, <3>1, <3>3
  <2>5. {x \in B : x > d} \subseteq Int
    BY <1>5
  <2> HIDE DEF B
  <2> QED BY <2>3, <2>4, <2>5, LeastIs
<1>7. Business!Min({x \in B : x >= d}) = bizDays[L + 1]
  <2>1. L + 1 \in 1 .. N /\ ~(L + 1 <= L)
    BY <1>0, <1>1
  <2>2. bizDays[L + 1] \in Int /\ bizDays[L + 1] >= d
    BY <1>0, <1>1, <2>1
  <2>3. bizDays[L + 1] \in {x \in B : x >= d}
    BY <1>0, <2>1, <2>2 DEF DaysOf
  <2>4. ASSUME NEW y \in {x \in B : x >= d} PROVE bizDays[L + 1] <= y
    <3>1. PICK i \in 1 .. N : y = bizDays[i]
      BY <1>5
    <3>2. ~(bizDays[i] < d)
      BY <1>0, <3>1
    <3>3. L + 1 <= i
      BY <1>1, <3>2
    <3> QED BY <1>0, <2>1, <3>1, <3>3
  <2>5. {x \in B : x >= d} \subseteq Int
    BY <1>5
  <2> HIDE DEF B
  <2> QED BY <2>3, <2>4, <2>5, LeastIs
<1>8. ASSUME d \in B PROVE Business!prev(Business!next(d)) = d
  <2> DEFINE e == bizDays[U + 1]
             M == Business!Lower(e)
  <2>1. U + 1 \in 1 .. N /\ U \in 1 .. N /\ e \in Int /\ ~(e <= d)
    BY <1>0, <1>2
  <2>2. M \in 0 .. N /\ \A i \in 1 .. N : bizDays[i] < e <=> i <= M
    BY <2>1, LowerIs
  <2> HIDE DEF M
  <2>3. M = U
    <3>1. ~(U + 1 <= M)
      BY <2>1, <2>2
    <3>2. bizDays[U] <= d /\ bizDays[U] \in Int
      BY <1>0, <1>2, <2>1
    <3>3. U <= M
      BY <2>1, <2>2, <3>2
    <3> QED BY <1>2, <2>2, <3>1, <3>3
  <2>4. bizDays[U] = d
    <3>1. PICK i \in 1 .. N : d = bizDays[i]
      BY <1>5, <1>8
    <3>2. i <= U
      BY <1>0, <1>2, <3>1
    <3>3. d <= bizDays[U] /\ bizDays[U] <= d /\ bizDays[U] \in Int
      BY <1>0, <1>2, <2>1, <3>1, <3>2
    <3> QED BY <3>3
  <2>5. Business!prev(e) = Business!Day(U - 1)
    BY <2>3 DEF Business!prev, M
  <2>6. U - 1 \in 0 .. N - 1 /\ (U - 1) + 1 = U
    BY <1>0, <2>1
  <2> QED BY <1>0, <1>3, <2>4, <2>5, <2>6
<1> QED BY <1>3, <1>4, <1>6, <1>7, <1>8

\* No day twice: the days are in strict order.
LEMMA StrictIs ==
  ASSUME NEW N, Listed(N), Len(bizDays) = Business!Cardinality(DaysOf(bizDays))
  PROVE \A i, j \in 1 .. N : i < j => bizDays[i] < bizDays[j]
<1> DEFINE B == DaysOf(bizDays)
<1>0. /\ bizDays \in Seq(Int) /\ N = Len(bizDays) /\ N \in Nat \ {0}
      /\ \A i \in 1 .. N : bizDays[i] \in Int
      /\ \A i, j \in 1 .. N : i <= j => bizDays[i] <= bizDays[j]
  BY DEF Listed
<1>1. Business!Cardinality(B) = Cardinality(B)
  BY Zenon DEF Business!Cardinality, Cardinality
<1>2. PICK f \in [1 .. N -> B] : \A i \in 1 .. N : f[i] = bizDays[i]
  <2> DEFINE g == [i \in 1 .. N |-> bizDays[i]]
  <2>1. B = {bizDays[i] : i \in 1 .. N}
    BY <1>0, Zenon DEF DaysOf
  <2> HIDE DEF B
  <2>2. g \in [1 .. N -> B] /\ \A i \in 1 .. N : g[i] = bizDays[i]
    BY <2>1
  <2> HIDE DEF g
  <2> QED BY <2>2
<1>b. B = {bizDays[i] : i \in 1 .. N}
  BY <1>0, Zenon DEF DaysOf
<1>3. f \in Surjection(1 .. N, B)
  <2> HIDE DEF B
  <2>1. \A x \in B : \E i \in 1 .. N : f[i] = x
    BY <1>2, <1>b
  <2> QED BY <1>2, <2>1, Zenon DEF Surjection
<1>4. IsFiniteSet(1 .. N) /\ Cardinality(1 .. N) = N
  <2>1. IsFiniteSet(1 .. N) /\ Cardinality(1 .. N) = IF 1 > N THEN 0 ELSE N - 1 + 1
    <3>1. 1 \in Int /\ N \in Int
      BY <1>0
    <3> QED BY <3>1, FS_Interval, Zenon
  <2> QED BY <1>0, <2>1
<1>5. f \in Injection(1 .. N, B)
  <2> HIDE DEF B
  <2> QED BY <1>0, <1>1, <1>3, <1>4, FS_Surjection DEF B
<1>6. \A i, j \in 1 .. N : f[i] = f[j] => i = j
  BY <1>5 DEF Injection, IsInjective
<1>7. ASSUME NEW i \in 1 .. N, NEW j \in 1 .. N, i < j PROVE bizDays[i] < bizDays[j]
  <2>1. bizDays[i] <= bizDays[j] /\ bizDays[i] \in Int /\ bizDays[j] \in Int
    BY <1>0, <1>7
  <2>2. bizDays[i] # bizDays[j]
    BY <1>2, <1>6, <1>7
  <2> QED BY <2>1, <2>2
<1> QED BY <1>7

\* offset counts the days from a day that is one.
LEMMA OffsetIs ==
  ASSUME NEW N, Listed(N), NonDec(bizDays), \A i, j \in 1 .. N : i < j => bizDays[i] < bizDays[j],
         NEW k \in 1 .. N, NEW n \in Int
  PROVE /\ Business!Lower(bizDays[k]) = k - 1
        /\ Business!offset(bizDays[k], n) = bizDays[IF k + n <= 1 THEN 1 ELSE IF k + n >= N THEN N ELSE k + n]
<1>0. /\ N \in Nat \ {0} /\ N = Len(bizDays)
      /\ \A i \in 1 .. N : bizDays[i] \in Int
      /\ Business!first_day = bizDays[1] /\ Business!last_day = bizDays[N]
      /\ \A i \in 0 .. N - 1 : Business!Day(i) = bizDays[i + 1]
  BY DEF Listed
<1> DEFINE d == bizDays[k]
           L == Business!Lower(d)
<1>1. L = k - 1
  <2>1. L \in 0 .. N /\ \A i \in 1 .. N : bizDays[i] < d <=> i <= L
    BY <1>0, LowerIs
  <2>2. ~(k <= L)
    <3>1. d \in Int /\ ~(d < d)
      BY <1>0
    <3> HIDE DEF L
    <3> QED BY <2>1, <3>1
  <2>3. k > 1 => k - 1 <= L
    <3>1. ASSUME k > 1 PROVE k - 1 \in 1 .. N /\ bizDays[k - 1] < d
      <4>1. k - 1 \in 1 .. N /\ k - 1 < k
        BY <1>0, <3>1
      <4> QED BY <4>1
    <3> HIDE DEF L, d
    <3> QED BY <2>1, <3>1
  <2> HIDE DEF L
  <2> QED BY <2>1, <2>2, <2>3
<1> HIDE DEF L
<1>2. Business!offset(d, n) = IF L + n <= 0 THEN Business!first_day
                              ELSE IF L + n >= N THEN Business!last_day ELSE Business!Day(L + n)
  BY <1>0 DEF Business!offset, L
<1> HIDE DEF d
<1>3. CASE L + n <= 0
  <2>1. k + n <= 1
    BY <1>1, <1>3
  <2> QED BY <1>0, <1>1, <1>2, <1>3, <2>1 DEF d, L
<1>4. CASE L + n > 0 /\ L + n >= N
  <2>1. ~(k + n <= 1) /\ k + n >= N /\ ~(L + n <= 0)
    BY <1>0, <1>1, <1>4
  <2> QED BY <1>0, <1>1, <1>2, <1>4, <2>1 DEF d, L
<1>5. CASE L + n > 0 /\ L + n < N
  <2>1. ~(k + n <= 1) /\ k + n <= N /\ ~(L + n <= 0) /\ ~(L + n >= N) /\ L + n \in 0 .. N - 1 /\ (L + n) + 1 = k + n
    BY <1>0, <1>1, <1>5
  <2>2. Business!offset(d, n) = bizDays[k + n]
    BY <1>0, <1>2, <2>1
  <2>3. k + n >= N => k + n = N
    BY <1>0, <2>1
  <2> QED BY <1>1, <2>1, <2>2, <2>3 DEF d, L
<1> QED BY <1>0, <1>1, <1>3, <1>4, <1>5

\* The days from the one at lo to the one at hi.
Span(s, lo, hi) == {s[i] : i \in lo .. hi}

LEMMA WindowIs ==
  ASSUME NEW s \in Seq(Int), NEW lo \in Nat, NEW hi \in Nat, 1 <= lo, lo <= hi, hi <= Len(s)
  PROVE /\ Len(SubSeq(s, lo, hi)) = (hi - lo) + 1
        /\ SubSeq(s, lo, hi)[1] = s[lo]
        /\ Business!ToSet(SubSeq(s, lo, hi)) = Span(s, lo, hi)
<1> DEFINE p == SubSeq(s, lo, hi)
<1>0. lo \in Int /\ hi \in Int /\ Len(s) \in Nat
  OBVIOUS
<1>1. ASSUME NEW i \in lo .. hi PROVE s[i] \in Int
  <2>1. i \in 1 .. Len(s)
    BY <1>0
  <2> QED BY <2>1
<1>2. /\ p \in Seq(Int) /\ Len(p) = IF lo <= hi THEN hi - lo + 1 ELSE 0
      /\ \A k \in 1 .. hi - lo + 1 : p[k] = s[lo + k - 1]
  BY <1>0, <1>1, SubSeqProperties, SMTT(60)
<1> HIDE DEF p
<1> DEFINE m == hi - lo + 1
<1>3. m \in Nat /\ m >= 1 /\ m = (hi - lo) + 1
  BY <1>0
<1>4. p \in Seq(Int) /\ Len(p) = m /\ \A k \in 1 .. m : p[k] = s[lo + k - 1]
  BY <1>2
<1>5. \A k \in 1 .. m : lo + k - 1 \in lo .. hi
  BY <1>0
<1>6. \A i \in lo .. hi : i - lo + 1 \in 1 .. m /\ lo + (i - lo + 1) - 1 = i
  BY <1>0
<1>7. lo + 1 - 1 = lo
  BY <1>0
<1> HIDE DEF m
<1>8. p[1] = s[lo]
  <2>1. 1 \in 1 .. m
    BY <1>3
  <2> QED BY <1>4, <1>7, <2>1
<1>9. DOMAIN p = 1 .. m
  BY <1>4
<1>10. Business!ToSet(p) = {p[k] : k \in 1 .. m}
  BY <1>9 DEF Business!ToSet
<1>11. ASSUME NEW k \in 1 .. m PROVE p[k] \in {s[i] : i \in lo .. hi}
  <2>1. p[k] = s[lo + k - 1] /\ lo + k - 1 \in lo .. hi
    BY <1>4, <1>5
  <2> QED BY <2>1
<1>12. ASSUME NEW i \in lo .. hi PROVE s[i] \in {p[k] : k \in 1 .. m}
  <2>1. p[i - lo + 1] = s[lo + (i - lo + 1) - 1] /\ i - lo + 1 \in 1 .. m
    BY <1>4, <1>6
  <2>2. p[i - lo + 1] = s[i]
    BY <1>6, <2>1
  <2> QED BY <2>1, <2>2
<1>13. Business!ToSet(p) = {s[i] : i \in lo .. hi}
  BY <1>10, <1>11, <1>12
<1>14. Len(p) = (hi - lo) + 1
  BY <1>3, <1>4
<1> QED BY <1>8, <1>13, <1>14 DEF Span, p

\* The last day handed out is the last one up to d.
LEMMA LastIs ==
  ASSUME NEW N \in Nat, NEW s \in Seq(Int), N = Len(s), \A i, j \in 1 .. N : i < j => s[i] < s[j],
         NEW d \in Int, NEW L \in 0 .. N - 1, NEW U \in 1 .. N - 1,
         \A i \in 1 .. N : s[i] < d <=> i <= L, \A i \in 1 .. N : s[i] <= d <=> i <= U
  PROVE U = IF s[L + 1] = d THEN L + 1 ELSE L
<1>0. L + 1 \in 1 .. N /\ s[L + 1] \in Int /\ ~(s[L + 1] < d)
  <2>1. L + 1 \in 1 .. N /\ ~(L + 1 <= L)
    OBVIOUS
  <2> QED BY <2>1
<1>1. L <= U
  <2>1. CASE L = 0
    BY <2>1
  <2>2. CASE L # 0
    <3>1. L \in 1 .. N /\ L <= L
      BY <2>2
    <3>2. s[L] < d /\ s[L] \in Int
      BY <3>1
    <3>3. s[L] <= d
      BY <3>2
    <3> QED BY <3>1, <3>3
  <2> QED BY <2>1, <2>2
<1>2. CASE s[L + 1] = d
  <2>1. s[L + 1] <= d
    BY <1>0, <1>2
  <2>2. L + 1 <= U
    BY <1>0, <2>1
  <2>3. ASSUME L + 1 < U PROVE FALSE
    <3>1. U \in 1 .. N /\ U <= U
      OBVIOUS
    <3>2. s[L + 1] < s[U] /\ s[U] <= d /\ s[U] \in Int
      BY <1>0, <2>3, <3>1
    <3> QED BY <1>2, <3>2
  <2>4. U = L + 1
    BY <2>2, <2>3
  <2> QED BY <1>2, <2>4
<1>3. CASE s[L + 1] # d
  <2>1. ~(s[L + 1] <= d)
    BY <1>0, <1>3
  <2>2. ~(L + 1 <= U)
    BY <1>0, <2>1
  <2>3. U = L
    BY <1>1, <2>2
  <2> QED BY <1>3, <2>3
<1> QED BY <1>2, <1>3

\* Where the n days that end at the hi-th begin.
LEMMA FirstIs ==
  ASSUME NEW hi \in Nat, hi >= 1, NEW n \in 1 .. 3
  PROVE \E lo \in Nat : /\ lo = IF hi + 1 - n > 1 THEN hi + 1 - n ELSE 1
                        /\ 1 <= lo /\ lo <= hi
                        /\ (hi - lo) + 1 < n => lo = 1
                        /\ (hi - lo) + 1 = n => lo = hi + (1 - n)
<1> DEFINE lo == IF hi + 1 - n > 1 THEN hi + 1 - n ELSE 1
<1>1. lo \in Nat /\ 1 <= lo /\ lo <= hi
  OBVIOUS
<1>2. (hi - lo) + 1 < n => lo = 1
  OBVIOUS
<1>3. (hi - lo) + 1 = n => lo = hi + (1 - n)
  BY <1>1
<1> QED BY <1>1, <1>2, <1>3

\* prev_n: the last of the days up to d.
LEMMA PrevIs ==
  ASSUME NEW N, Listed(N), NonDec(bizDays), \A i, j \in 1 .. N : i < j => bizDays[i] < bizDays[j],
         NEW d \in Int, Business!first_day <= d, d < Business!last_day, NEW n \in 1 .. 3,
         NEW p, p = Business!prev_n(d, n, TRUE)
  PROVE /\ Business!ToSet(p) \subseteq {x \in DaysOf(bizDays) : x <= d}
        /\ Len(p) = n => p[1] = Business!offset(d, 1 - n) \/ d \notin DaysOf(bizDays)
        /\ Len(p) < n => Business!ToSet(p) = {x \in DaysOf(bizDays) : x <= d}
<1>0. /\ bizDays \in Seq(Int) /\ N = Len(bizDays) /\ N \in Nat \ {0}
      /\ \A i \in 1 .. N : bizDays[i] \in Int
      /\ Business!first_day \in Int /\ Business!last_day \in Int
      /\ \A i \in 0 .. N - 1 : Business!Day(i) = bizDays[i + 1]
  BY DEF Listed
<1>1. PICK L \in 0 .. N - 1 : L = Business!Lower(d) /\ \A i \in 1 .. N : bizDays[i] < d <=> i <= L
  <2>1. /\ Business!Lower(d) \in 0 .. N
        /\ \A i \in 1 .. N : bizDays[i] < d <=> i <= Business!Lower(d)
    BY LowerIs
  <2>2. Business!Lower(d) < N
    BY <1>0, LowerIs
  <2>3. Business!Lower(d) \in 0 .. N - 1
    <3> DEFINE L == Business!Lower(d)
    <3> HIDE DEF L
    <3>1. L \in 0 .. N /\ L < N /\ N \in Nat
      BY <1>0, <2>1, <2>2 DEF L
    <3>2. L \in 0 .. N - 1
      BY <3>1
    <3> QED BY <3>2 DEF L
  <2> QED BY <2>1, <2>3
<1>2. PICK U \in 1 .. N - 1 : \A i \in 1 .. N : bizDays[i] <= d <=> i <= U
  <2>1. /\ Business!Upper(d) \in 0 .. N
        /\ \A i \in 1 .. N : bizDays[i] <= d <=> i <= Business!Upper(d)
    BY UpperIs
  <2>2. Business!Upper(d) < N /\ Business!Upper(d) >= 1
    BY <1>0, UpperIs
  <2>3. Business!Upper(d) \in 1 .. N - 1
    <3> DEFINE U == Business!Upper(d)
    <3> HIDE DEF U
    <3>1. U \in 0 .. N /\ U < N /\ U >= 1 /\ N \in Nat
      BY <1>0, <2>1, <2>2 DEF U
    <3>2. U \in 1 .. N - 1
      BY <3>1
    <3> QED BY <3>2 DEF U
  <2> QED BY <2>1, <2>3
<1>3. U = IF bizDays[L + 1] = d THEN L + 1 ELSE L
  <2>1. N \in Nat /\ bizDays \in Seq(Int) /\ N = Len(bizDays)
    BY <1>0
  <2> QED BY <2>1, <1>1, <1>2, LastIs, ZenonT(60)
<1>u. U \in Nat /\ U >= 1 /\ U < N /\ N \in Nat /\ U <= Len(bizDays)
  BY <1>0
<1>4. PICK lo \in Nat : /\ lo = IF U + 1 - n > 1 THEN U + 1 - n ELSE 1
                        /\ 1 <= lo /\ lo <= U
                        /\ (U - lo) + 1 < n => lo = 1
                        /\ (U - lo) + 1 = n => lo = U + (1 - n)
  BY <1>u, FirstIs
<1>5. p = SubSeq(bizDays, lo, U)
  <2> DEFINE ended == IF Business!Day(L) = d /\ TRUE THEN L ELSE L - 1
  <2>1. p = SubSeq(bizDays, IF ended + 2 - n > 1 THEN ended + 2 - n ELSE 1, ended + 1)
    BY <1>1 DEF Business!prev_n
  <2>2. ended + 1 = U /\ ended \in Int
    BY <1>0, <1>3
  <2> HIDE DEF ended
  <2>3. ended + 2 - n = U + 1 - n
    BY <1>2, <2>2
  <2> QED BY <1>4, <2>1, <2>2, <2>3
<1>6. /\ Len(p) = (U - lo) + 1 /\ p[1] = bizDays[lo]
      /\ Business!ToSet(p) = Span(bizDays, lo, U)
  <2>1. bizDays \in Seq(Int) /\ 1 <= lo /\ lo <= U /\ U \in Nat /\ U <= Len(bizDays)
    BY <1>0, <1>4, <1>u
  <2>2. /\ Len(SubSeq(bizDays, lo, U)) = (U - lo) + 1 /\ SubSeq(bizDays, lo, U)[1] = bizDays[lo]
        /\ Business!ToSet(SubSeq(bizDays, lo, U)) = Span(bizDays, lo, U)
    BY <2>1, WindowIs, Zenon
  <2> QED BY <1>5, <2>2, Zenon
<1>7. {x \in DaysOf(bizDays) : x <= d} = Span(bizDays, 1, U)
  <2>1. DaysOf(bizDays) = {bizDays[i] : i \in 1 .. N}
    BY <1>0 DEF DaysOf
  <2>2. \A i \in 1 .. U : i \in 1 .. N /\ i <= U
    BY <1>0, <1>2
  <2>3. \A i \in 1 .. N : i <= U => i \in 1 .. U
    BY <1>2
  <2> QED BY <1>2, <2>1, <2>2, <2>3 DEF Span
<1>8. Span(bizDays, lo, U) \subseteq Span(bizDays, 1, U)
  <2>1. \A i \in lo .. U : i \in 1 .. U
    BY <1>2, <1>4
  <2> QED BY <2>1 DEF Span
<1>9. ASSUME Len(p) < n PROVE lo = 1
  BY <1>4, <1>6, <1>9, Zenon
<1>10. ASSUME Len(p) = n, d \in DaysOf(bizDays) PROVE p[1] = Business!offset(d, 1 - n)
  <2>1. PICK k \in 1 .. N : d = bizDays[k]
    BY <1>0, <1>10 DEF DaysOf
  <2>2. k = L + 1
    <3>1. ~(k <= L)
      BY <1>0, <1>1, <2>1
    <3>2. ~(k > L + 1)
      <4>1. ASSUME k > L + 1 PROVE FALSE
        <5>1. L + 1 \in 1 .. N /\ L + 1 < k
          BY <1>0, <1>1, <4>1
        <5>2. bizDays[L + 1] < d
          BY <2>1, <5>1
        <5>3. L + 1 <= L
          BY <1>1, <5>1, <5>2
        <5> QED BY <1>1, <5>3
      <4> QED BY <4>1
    <3> QED BY <1>1, <3>1, <3>2
  <2>3. k = U
    BY <1>3, <2>1, <2>2
  <2>4. lo = k + (1 - n)
    BY <1>4, <1>6, <1>10, <2>3, Zenon
  <2>5. 1 - n \in Int
    OBVIOUS
  <2>6. Business!offset(d, 1 - n) = bizDays[IF k + (1 - n) <= 1 THEN 1 ELSE IF k + (1 - n) >= N THEN N ELSE k + (1 - n)]
    BY <2>1, <2>5, OffsetIs
  <2>7. (lo <= 1 => lo = 1) /\ ~(lo >= N)
    BY <1>0, <1>2, <1>4
  <2>8. Business!offset(d, 1 - n) = bizDays[lo]
    BY <2>4, <2>6, <2>7
  <2> QED BY <1>6, <2>8
<1> QED BY <1>6, <1>7, <1>8, <1>9, <1>10

LEMMA QueriesAgree == CalendarInv => Business!CalendarAgrees
<1> SUFFICES ASSUME CalendarInv, sound PROVE Business!CalendarAgrees
  BY DEF Business!CalendarAgrees
<1> DEFINE N == Len(bizDays)
           B == Business!ToSet(bizDays)
           inside == {d \in Dates : Business!first_day <= d /\ d < Business!last_day}
<1>1. Listed(N) /\ NonDec(bizDays)
  BY ListedIs
<1>2. B = DaysOf(bizDays)
  BY <1>1 DEF Listed, DaysOf, Business!ToSet
<1>3. B = bizIndex
  BY <1>2 DEF CalendarInv
<1> HIDE DEF N
<1>d. Dates \subseteq Int
  BY CalendarAssumption
<1>i. \A d \in inside : d \in Int /\ Business!first_day <= d /\ d < Business!last_day
  BY <1>d
<1> HIDE DEF B, inside
<1>4. \A a \in inside, b \in Dates : Business!ToSet(Business!bizDayRange(a, b)) = {d \in B : a <= d /\ d <= b}
  BY <1>1, <1>2, <1>d, <1>i, RangeIs
<1>5. \A d \in inside : /\ Business!next(d) = Business!Min({x \in B : x > d})
                        /\ Business!lowerBound(d) = Business!Min({x \in B : x >= d})
                        /\ d \in B => Business!prev(Business!next(d)) = d
  BY <1>1, <1>2, <1>i, NextIs
<1>6. ASSUME Len(bizDays) = Business!Cardinality(B), NEW d \in inside, NEW n \in 1 .. 3
      PROVE /\ Business!offset(d, n) = Business!offset(Business!offset(d, 1), n - 1) \/ d \notin B
            /\ LET p == Business!prev_n(d, n, TRUE)
               IN /\ Business!ToSet(p) \subseteq {x \in B : x <= d}
                  /\ Len(p) = n => p[1] = Business!offset(d, 1 - n) \/ d \notin B
                  /\ Len(p) < n => Business!ToSet(p) = {x \in B : x <= d}
  <2>1. \A i, j \in 1 .. N : i < j => bizDays[i] < bizDays[j]
    BY <1>1, <1>2, <1>6, StrictIs
  <2>2. ASSUME d \in B PROVE Business!offset(d, n) = Business!offset(Business!offset(d, 1), n - 1)
    <3>0. N \in Nat \ {0} /\ N = Len(bizDays) /\ Business!last_day = bizDays[N] /\ bizDays[N] \in Int
      BY <1>1 DEF Listed
    <3>1. PICK k \in 1 .. N : d = bizDays[k]
      BY <1>2, <2>2, <3>0 DEF DaysOf
    <3>2. k < N
      <4>1. k = N => d = Business!last_day
        BY <3>0, <3>1
      <4>2. d < Business!last_day /\ d \in Int
        BY <1>i
      <4> QED BY <3>0, <4>1, <4>2
    <3>3. k + 1 \in 1 .. N /\ ~(k + 1 <= 1) /\ (k + 1 >= N => k + 1 = N)
      BY <3>0, <3>2
    <3>4. Business!offset(d, 1) = bizDays[k + 1]
      BY <1>1, <2>1, <3>1, <3>3, OffsetIs
    <3>5. Business!offset(bizDays[k + 1], n - 1)
            = bizDays[IF (k + 1) + (n - 1) <= 1 THEN 1 ELSE IF (k + 1) + (n - 1) >= N THEN N ELSE (k + 1) + (n - 1)]
      BY <1>1, <2>1, <3>3, OffsetIs
    <3>6. Business!offset(bizDays[k], n) = bizDays[IF k + n <= 1 THEN 1 ELSE IF k + n >= N THEN N ELSE k + n]
      BY <1>1, <2>1, OffsetIs
    <3>7. (k + 1) + (n - 1) = k + n
      BY <3>0
    <3>8. Business!offset(bizDays[k + 1], n - 1) = Business!offset(bizDays[k], n)
      BY <3>5, <3>6, <3>7
    <3> QED BY <3>1, <3>4, <3>8
  <2>3. d \in Int /\ Business!first_day <= d /\ d < Business!last_day
    BY <1>i
  <2>4. /\ Business!ToSet(Business!prev_n(d, n, TRUE)) \subseteq {x \in B : x <= d}
        /\ LET p == Business!prev_n(d, n, TRUE)
           IN /\ Len(p) = n => p[1] = Business!offset(d, 1 - n) \/ d \notin B
              /\ Len(p) < n => Business!ToSet(p) = {x \in B : x <= d}
    BY <1>1, <1>2, <2>1, <2>3, PrevIs, ZenonT(60)
  <2> QED BY <2>2, <2>4, Zenon
<1> QED BY <1>3, <1>4, <1>5, <1>6 DEF Business!CalendarAgrees, B, inside
-----------------------------------------------------------------------------
(* The weekdays of a year.                                                   *)
\* What the days of the week of a year depend on: the days, up to whole weeks,
\* before it, and those before each of its months.
Turn(y) == y + y \div 4 - y \div 100 + y \div 400
Extra(y) == IF Business!Leap(y) THEN 1 ELSE 0
Ahead(m, x) == IF m = 1 THEN 0 ELSE IF m = 2 THEN 31 ELSE IF m = 3 THEN 59 + x ELSE IF m = 4 THEN 90 + x
               ELSE IF m = 5 THEN 120 + x ELSE IF m = 6 THEN 151 + x ELSE IF m = 7 THEN 181 + x
               ELSE IF m = 8 THEN 212 + x ELSE IF m = 9 THEN 243 + x ELSE IF m = 10 THEN 273 + x
               ELSE IF m = 11 THEN 304 + x ELSE 334 + x

LEMMA TurnIs ==
  ASSUME NEW y \in Nat \ {0}
  PROVE Turn(y) \in Int /\ Turn(y - 1) \in Int /\ Turn(y) = Turn(y - 1) + 1 + Extra(y)
<1>1. y \div 4 = (y - 1) \div 4 + (IF y % 4 = 0 THEN 1 ELSE 0)
  OBVIOUS
<1>2. y \div 100 = (y - 1) \div 100 + (IF y % 100 = 0 THEN 1 ELSE 0)
  OBVIOUS
<1>3. y \div 400 = (y - 1) \div 400 + (IF y % 400 = 0 THEN 1 ELSE 0)
  OBVIOUS
<1>4. (y % 100 = 0 => y % 4 = 0) /\ (y % 400 = 0 => y % 100 = 0)
  OBVIOUS
<1>5. /\ y \div 4 \in Int /\ (y - 1) \div 4 \in Int /\ y \div 100 \in Int /\ (y - 1) \div 100 \in Int
      /\ y \div 400 \in Int /\ (y - 1) \div 400 \in Int
  OBVIOUS
<1> QED BY <1>1, <1>2, <1>3, <1>4, <1>5 DEF Turn, Extra, Business!Leap

LEMMA MonthIs ==
  ASSUME NEW y \in Nat, NEW m \in 1 .. 12
  PROVE /\ Business!DaysOfMonth(y, m)
             = IF m = 2 THEN 28 + Extra(y) ELSE IF m \in {4, 6, 9, 11} THEN 30 ELSE 31
        /\ Ahead(m, Extra(y)) \in 0 .. 335
        /\ m < 12 => Ahead(m + 1, Extra(y)) = Ahead(m, Extra(y)) + Business!DaysOfMonth(y, m)
<1> DEFINE t == <<31, 28, 31, 30, 31, 30, 31, 31, 30, 31, 30, 31>>
<1>1. /\ t[1] = 31 /\ t[2] = 28 /\ t[3] = 31 /\ t[4] = 30 /\ t[5] = 31 /\ t[6] = 30
      /\ t[7] = 31 /\ t[8] = 31 /\ t[9] = 30 /\ t[10] = 31 /\ t[11] = 30 /\ t[12] = 31
  OBVIOUS
<1>2. Business!DaysOfMonth(y, m) = IF m = 2 /\ Business!Leap(y) THEN 29 ELSE t[m]
  BY DEF Business!DaysOfMonth
<1> HIDE DEF t
<1>3. \/ m = 1 \/ m = 2 \/ m = 3 \/ m = 4 \/ m = 5 \/ m = 6 \/ m = 7 \/ m = 8 \/ m = 9 \/ m = 10 \/ m = 11 \/ m = 12
  OBVIOUS
<1>4. Business!DaysOfMonth(y, m) = IF m = 2 THEN 28 + Extra(y) ELSE IF m \in {4, 6, 9, 11} THEN 30 ELSE 31
  BY <1>1, <1>2, <1>3 DEF Extra
<1> QED BY <1>3, <1>4 DEF Extra, Ahead

LEMMA SevenMore ==
  ASSUME NEW a \in Int, NEW k \in Int
  PROVE (a + 7 * k) % 7 = a % 7
<1>1. PICK q \in Int, z \in 0 .. 6 : a = 7 * q + z
  <2>1. a \div 7 \in Int /\ a % 7 \in 0 .. 6 /\ a = 7 * (a \div 7) + (a % 7)
    OBVIOUS
  <2> QED BY <2>1
<1>2. a + 7 * k = 7 * (q + k) + z /\ q + k \in Int
  BY <1>1
<1>3. \A p \in Int : (7 * p + z) % 7 = z
  BY <1>1
<1> QED BY <1>1, <1>2, <1>3

LEMMA WeekdayIs ==
  ASSUME NEW y \in Nat \ {0}, NEW m \in 1 .. 12, NEW d \in Nat
  PROVE Business!Weekday(y, m, d) = (Turn(y - 1) + Ahead(m, Extra(y)) + d) % 7
<1> DEFINE t == <<0, 3, 2, 5, 0, 3, 5, 1, 4, 6, 2, 4>>
           T == Turn(y - 1)
           x == Extra(y)
<1>1. /\ t[1] = 0 /\ t[2] = 3 /\ t[3] = 2 /\ t[4] = 5 /\ t[5] = 0 /\ t[6] = 3
      /\ t[7] = 5 /\ t[8] = 1 /\ t[9] = 4 /\ t[10] = 6 /\ t[11] = 2 /\ t[12] = 4
  OBVIOUS
<1>2. Business!Weekday(y, m, d) = ((IF m < 3 THEN T ELSE Turn(y)) + t[m] + d) % 7
  BY DEF Business!Weekday, Turn
<1>3. T \in Int /\ x \in {0, 1} /\ Turn(y) = T + 1 + x
  BY TurnIs DEF Extra
<1> HIDE DEF t, T, x
<1>4. \/ m = 1 \/ m = 2 \/ m = 3 \/ m = 4 \/ m = 5 \/ m = 6 \/ m = 7 \/ m = 8 \/ m = 9 \/ m = 10 \/ m = 11 \/ m = 12
  OBVIOUS
<1>5. PICK q \in 0 .. 50 : (IF m < 3 THEN T ELSE Turn(y)) + t[m] + d + 7 * q = T + Ahead(m, x) + d
  <2>1. (IF m < 3 THEN T ELSE Turn(y)) + t[m] = T + (IF m < 3 THEN 0 ELSE 1 + x) + t[m]
    BY <1>1, <1>3, <1>4
  <2>2. \E q \in 0 .. 50 : (IF m < 3 THEN 0 ELSE 1 + x) + t[m] + 7 * q = Ahead(m, x)
    <3> DEFINE q == IF m < 3 THEN IF m = 1 THEN 0 ELSE 4
                    ELSE IF m = 3 THEN 8 ELSE IF m = 4 THEN 12 ELSE IF m = 5 THEN 17 ELSE IF m = 6 THEN 21
                    ELSE IF m = 7 THEN 25 ELSE IF m = 8 THEN 30 ELSE IF m = 9 THEN 34 ELSE IF m = 10 THEN 38
                    ELSE IF m = 11 THEN 43 ELSE 47
    <3>1. q \in 0 .. 50 /\ (IF m < 3 THEN 0 ELSE 1 + x) + t[m] + 7 * q = Ahead(m, x)
      BY <1>1, <1>3, <1>4 DEF Ahead
    <3> QED BY <3>1
  <2>3. t[m] \in Int /\ Ahead(m, x) \in Int
    BY <1>1, <1>3, <1>4 DEF Ahead
  <2> QED BY <1>3, <2>1, <2>2, <2>3
<1>6. t[m] \in Int
  BY <1>1, <1>4
<1>7. (IF m < 3 THEN T ELSE Turn(y)) + t[m] + d \in Int
  BY <1>3, <1>6
<1>8. \A a \in Int, k \in 0 .. 50 : (a + 7 * k) % 7 = a % 7
  BY SevenMore, SMTT(60)
<1> QED BY <1>2, <1>5, <1>7, <1>8 DEF T, x

\* The days of a year in their order, the n-th one in month m.
LEMMA DayOfYear ==
  ASSUME NEW y \in Nat \ {0}
  PROVE /\ \A m \in 1 .. 12, d \in 1 .. 31 :
             d <= Business!DaysOfMonth(y, m) => Ahead(m, Extra(y)) + d \in 1 .. 365 + Extra(y)
        /\ \A m, o \in 1 .. 12, d, e \in 1 .. 31 :
             /\ d <= Business!DaysOfMonth(y, m) /\ e <= Business!DaysOfMonth(y, o)
             /\ Ahead(m, Extra(y)) + d = Ahead(o, Extra(y)) + e
             => m = o /\ d = e
        /\ \A n \in 1 .. 365 + Extra(y) : \E m \in 1 .. 12, d \in 1 .. 31 :
             d <= Business!DaysOfMonth(y, m) /\ n = Ahead(m, Extra(y)) + d
<1> DEFINE x == Extra(y)
           D(m) == IF m = 2 THEN 28 + x ELSE IF m \in {4, 6, 9, 11} THEN 30 ELSE 31
<1>0. x \in {0, 1}
  BY DEF Extra
<1>1. \A m \in 1 .. 12 : Business!DaysOfMonth(y, m) = D(m)
  BY MonthIs
<1> HIDE DEF x
<1>m. \A m \in 1 .. 12 : \/ m = 1 \/ m = 2 \/ m = 3 \/ m = 4 \/ m = 5 \/ m = 6
                         \/ m = 7 \/ m = 8 \/ m = 9 \/ m = 10 \/ m = 11 \/ m = 12
  OBVIOUS
<1>2. ASSUME NEW m \in 1 .. 12, NEW d \in 1 .. 31, d <= D(m) PROVE Ahead(m, x) + d \in 1 .. 365 + x
  <2>1. Ahead(m, x) \in Int /\ D(m) \in Int /\ Ahead(m, x) >= 0 /\ Ahead(m, x) + D(m) <= 365 + x
    BY <1>0, <1>m DEF Ahead
  <2> HIDE DEF D
  <2> QED BY <1>0, <1>2, <2>1
<1>3. ASSUME NEW m \in 1 .. 12, NEW o \in 1 .. 12, m < o PROVE Ahead(m, x) + D(m) <= Ahead(o, x)
  BY <1>0, <1>3, <1>m DEF Ahead
<1>4. ASSUME NEW m \in 1 .. 12 PROVE Ahead(m, x) \in Int /\ D(m) \in Int
  BY <1>0, <1>m DEF Ahead
<1>5. ASSUME NEW m \in 1 .. 12, NEW o \in 1 .. 12, NEW d \in 1 .. 31, NEW e \in 1 .. 31,
             d <= D(m), e <= D(o), Ahead(m, x) + d = Ahead(o, x) + e
      PROVE m = o /\ d = e
  <2>0. /\ Ahead(m, x) \in Int /\ D(m) \in Int /\ Ahead(o, x) \in Int /\ D(o) \in Int
        /\ m < o => Ahead(m, x) + D(m) <= Ahead(o, x)
        /\ o < m => Ahead(o, x) + D(o) <= Ahead(m, x)
    BY <1>3, <1>4
  <2> HIDE DEF D
  <2>1. ~(m < o) /\ ~(o < m)
    BY <1>5, <2>0
  <2>2. m = o
    BY <2>1
  <2> QED BY <1>5, <2>0, <2>2
<1>6. ASSUME NEW n \in 1 .. 365 + x
      PROVE \E m \in 1 .. 12, d \in 1 .. 31 : d <= D(m) /\ n = Ahead(m, x) + d
  <2>1. \E m \in 1 .. 12 : Ahead(m, x) < n /\ n <= Ahead(m, x) + D(m)
    <3> DEFINE M == IF n <= 31 THEN 1 ELSE IF n <= 59 + x THEN 2 ELSE IF n <= 90 + x THEN 3 ELSE IF n <= 120 + x THEN 4
                    ELSE IF n <= 151 + x THEN 5 ELSE IF n <= 181 + x THEN 6 ELSE IF n <= 212 + x THEN 7
                    ELSE IF n <= 243 + x THEN 8 ELSE IF n <= 273 + x THEN 9 ELSE IF n <= 304 + x THEN 10
                    ELSE IF n <= 334 + x THEN 11 ELSE 12
    <3>1. M \in 1 .. 12 /\ Ahead(M, x) < n /\ n <= Ahead(M, x) + D(M)
      BY <1>0 DEF Ahead
    <3> QED BY <3>1
  <2>2. PICK m \in 1 .. 12 : Ahead(m, x) < n /\ n <= Ahead(m, x) + D(m)
    BY <2>1
  <2>3. n - Ahead(m, x) \in 1 .. 31 /\ n - Ahead(m, x) <= D(m) /\ n = Ahead(m, x) + (n - Ahead(m, x))
    BY <1>0, <1>4, <2>2
  <2> QED BY <2>3
<1> HIDE DEF D
<1>7. \A m \in 1 .. 12, d \in 1 .. 31 : d <= Business!DaysOfMonth(y, m) => Ahead(m, x) + d \in 1 .. 365 + x
  BY <1>1, <1>2
<1>8. \A m, o \in 1 .. 12, d, e \in 1 .. 31 :
        /\ d <= Business!DaysOfMonth(y, m) /\ e <= Business!DaysOfMonth(y, o)
        /\ Ahead(m, x) + d = Ahead(o, x) + e
        => m = o /\ d = e
  <2>1. ASSUME NEW m \in 1 .. 12, NEW o \in 1 .. 12, NEW d \in 1 .. 31, NEW e \in 1 .. 31,
               d <= Business!DaysOfMonth(y, m), e <= Business!DaysOfMonth(y, o),
               Ahead(m, x) + d = Ahead(o, x) + e
        PROVE m = o /\ d = e
    <3>1. d <= D(m) /\ e <= D(o)
      BY <1>1, <2>1
    <3> QED BY <1>5, <2>1, <3>1, Zenon
  <2> QED BY <2>1, Zenon
<1>9. \A n \in 1 .. 365 + x : \E m \in 1 .. 12, d \in 1 .. 31 :
        d <= Business!DaysOfMonth(y, m) /\ n = Ahead(m, x) + d
  BY <1>1, <1>6, Zenon
<1> QED BY <1>7, <1>8, <1>9, Zenon DEF x

\* The days from the first one on that are no weekend, when a lies before them.
Working(a, n) == {i \in 1 .. n : (a + i) % 7 \notin {0, 6}}

\* A bijection keeps the number of members.
LEMMA SameSize ==
  ASSUME NEW S, NEW T, IsFiniteSet(S), NEW f \in [S -> T],
         \A i, j \in S : f[i] = f[j] => i = j, \A k \in T : \E i \in S : f[i] = k
  PROVE IsFiniteSet(T) /\ Cardinality(T) = Cardinality(S)
<1>1. f \in Bijection(S, T)
  BY DEF Bijection, Injection, Surjection, IsInjective
<1>2. ExistsBijection(S, T)
  BY <1>1 DEF ExistsBijection
<1> QED BY <1>2, FS_Bijection

\* Fifty-two weeks have five days each.
LEMMA WeeksHave ==
  ASSUME NEW a \in Int
  PROVE IsFiniteSet(Working(a, 364)) /\ Cardinality(Working(a, 364)) = 260
<1> DEFINE S == (0 .. 51) \X (1 .. 5)
           at(k, r) == (7 * k + (((r - a) - 1) % 7)) + 1
           f == [p \in S |-> at(p[1], p[2])]
           T == Working(a, 364)
<1>1. IsFiniteSet(S) /\ Cardinality(S) = 260
  <2>0. 0 \in Int /\ 51 \in Int /\ 1 \in Int /\ 5 \in Int
    OBVIOUS
  <2>1. IsFiniteSet(0 .. 51) /\ Cardinality(0 .. 51) = 52
    <3>1. IsFiniteSet(0 .. 51) /\ Cardinality(0 .. 51) = IF 0 > 51 THEN 0 ELSE 51 - 0 + 1
      BY <2>0, FS_Interval, Zenon
    <3> QED BY <3>1
  <2>2. IsFiniteSet(1 .. 5) /\ Cardinality(1 .. 5) = 5
    <3>1. IsFiniteSet(1 .. 5) /\ Cardinality(1 .. 5) = IF 1 > 5 THEN 0 ELSE 5 - 1 + 1
      BY <2>0, FS_Interval, Zenon
    <3> QED BY <3>1
  <2>3. IsFiniteSet(S) /\ Cardinality(S) = 52 * 5
    BY <2>1, <2>2, FS_Product
  <2>4. 52 * 5 = 260
    BY SMTT(60)
  <2> QED BY <2>3, <2>4
<1>2. ASSUME NEW k \in 0 .. 51, NEW r \in 1 .. 5 PROVE at(k, r) \in T
  <2>1. at(k, r) \in 1 .. 364
    OBVIOUS
  <2>2. (a + at(k, r)) % 7 = r
    <3>1. PICK q \in Int, z \in 0 .. 6 : (r - a) - 1 = 7 * q + z /\ ((r - a) - 1) % 7 = z
      <4>1. /\ ((r - a) - 1) \div 7 \in Int /\ ((r - a) - 1) % 7 \in 0 .. 6
            /\ (r - a) - 1 = 7 * (((r - a) - 1) \div 7) + (((r - a) - 1) % 7)
        OBVIOUS
      <4> QED BY <4>1
    <3>2. a + at(k, r) = r + 7 * (k - q)
      BY <3>1
    <3>3. (r + 7 * (k - q)) % 7 = r
      <4>1. k - q \in Int /\ r \in Int /\ r % 7 = r
        BY <3>1
      <4> QED BY <4>1, SevenMore
    <3> QED BY <3>2, <3>3
  <2> QED BY <2>1, <2>2 DEF Working
<1>3. ASSUME NEW k \in 0 .. 51, NEW r \in 1 .. 5, NEW l \in 0 .. 51, NEW s \in 1 .. 5, at(k, r) = at(l, s)
      PROVE k = l /\ r = s
  <2>1. PICK z \in 0 .. 6, w \in 0 .. 6 : z = ((r - a) - 1) % 7 /\ w = ((s - a) - 1) % 7
    OBVIOUS
  <2>2. k = l /\ z = w
    BY <1>3, <2>1
  <2>3. r = s
    BY <2>1, <2>2
  <2> QED BY <2>2, <2>3
<1>4. ASSUME NEW i \in T PROVE \E k \in 0 .. 51, r \in 1 .. 5 : i = at(k, r)
  <2>1. i \in 1 .. 364 /\ (a + i) % 7 \in 1 .. 5
    BY DEF Working
  <2>2. PICK k \in 0 .. 51, z \in 0 .. 6 : i - 1 = 7 * k + z
    <3>1. (i - 1) \div 7 \in 0 .. 51 /\ (i - 1) % 7 \in 0 .. 6 /\ i - 1 = 7 * ((i - 1) \div 7) + ((i - 1) % 7)
      BY <2>1
    <3> QED BY <3>1
  <2>3. PICK r \in 1 .. 5, q \in Int : a + i = 7 * q + r
    <3>1. (a + i) \div 7 \in Int /\ a + i = 7 * ((a + i) \div 7) + ((a + i) % 7)
      BY <2>1
    <3> QED BY <2>1, <3>1
  <2>4. (r - a) - 1 = 7 * (k - q) + z
    BY <2>1, <2>2, <2>3
  <2>5. ((r - a) - 1) % 7 = z
    BY <2>2, <2>3, <2>4
  <2>6. i = at(k, r)
    BY <2>1, <2>2, <2>5
  <2> QED BY <2>6
<1>f. \A k \in 0 .. 51, r \in 1 .. 5 : f[<<k, r>>] = at(k, r)
  <2> HIDE DEF at
  <2> QED OBVIOUS
<1> HIDE DEF at, T
<1>5. f \in [S -> T]
  BY <1>2
<1>6. \A p, q \in S : f[p] = f[q] => p = q
  <2>1. ASSUME NEW p \in S, NEW q \in S, f[p] = f[q] PROVE p = q
    <3>1. PICK k \in 0 .. 51, r \in 1 .. 5 : p = <<k, r>>
      OBVIOUS
    <3>2. PICK l \in 0 .. 51, s \in 1 .. 5 : q = <<l, s>>
      OBVIOUS
    <3>3. f[<<k, r>>] = at(k, r) /\ f[<<l, s>>] = at(l, s)
      BY <1>f, Zenon
    <3>5. f[<<k, r>>] = f[<<l, s>>]
      BY <2>1, <3>1, <3>2, Zenon
    <3>6. at(k, r) = at(l, s)
      BY <3>3, <3>5, ZenonT(60)
    <3>4. k = l /\ r = s
      BY <1>3, <3>6, ZenonT(60)
    <3> QED BY <3>1, <3>2, <3>4
  <2> QED BY <2>1
<1>7. \A i \in T : \E p \in S : f[p] = i
  <2>1. ASSUME NEW i \in T PROVE \E p \in S : f[p] = i
    <3>1. PICK k \in 0 .. 51, r \in 1 .. 5 : i = at(k, r)
      BY <1>4
    <3>2. <<k, r>> \in S /\ f[<<k, r>>] = i
      BY <3>1
    <3> QED BY <3>2
  <2> QED BY <2>1
<1> HIDE DEF f, S
<1> QED BY <1>1, <1>5, <1>6, <1>7, SameSize DEF T

\* A year is 52 weeks and a day, or two.
LEMMA YearHas ==
  ASSUME NEW a \in Int, NEW x \in {0, 1}
  PROVE IsFiniteSet(Working(a, 365 + x)) /\ Cardinality(Working(a, 365 + x)) \in 260 .. 262
<1>1. ASSUME NEW n \in Nat, IsFiniteSet(Working(a, n)), Cardinality(Working(a, n)) \in Nat
      PROVE /\ IsFiniteSet(Working(a, n + 1))
            /\ Cardinality(Working(a, n + 1)) \in {Cardinality(Working(a, n)), Cardinality(Working(a, n)) + 1}
  <2>1. \/ Working(a, n + 1) = Working(a, n)
        \/ Working(a, n + 1) = Working(a, n) \cup {n + 1} /\ n + 1 \notin Working(a, n)
    <3>1. 1 .. n + 1 = (1 .. n) \cup {n + 1} /\ n + 1 \notin 1 .. n
      OBVIOUS
    <3> QED BY <3>1, Zenon DEF Working
  <2>2. CASE Working(a, n + 1) = Working(a, n)
    BY <1>1, <2>2
  <2>3. CASE Working(a, n + 1) = Working(a, n) \cup {n + 1} /\ n + 1 \notin Working(a, n)
    <3>1. /\ IsFiniteSet(Working(a, n) \cup {n + 1})
          /\ Cardinality(Working(a, n) \cup {n + 1}) = Cardinality(Working(a, n)) + 1
      BY <1>1, <2>3, FS_AddElement
    <3> QED BY <2>3, <3>1
  <2> QED BY <2>1, <2>2, <2>3
<1>2. IsFiniteSet(Working(a, 364)) /\ Cardinality(Working(a, 364)) = 260
  BY WeeksHave
<1>3. IsFiniteSet(Working(a, 365)) /\ Cardinality(Working(a, 365)) \in {260, 261}
  <2>1. 364 + 1 = 365 /\ 364 \in Nat /\ 260 \in Nat /\ 260 + 1 = 261
    OBVIOUS
  <2> QED BY <1>1, <1>2, <2>1
<1>4. IsFiniteSet(Working(a, 366)) /\ Cardinality(Working(a, 366)) \in {260, 261, 262}
  <2>1. 365 + 1 = 366 /\ 365 \in Nat /\ Cardinality(Working(a, 365)) \in Nat
    BY <1>3
  <2> QED BY <1>1, <1>3, <2>1
<1>5. CASE x = 0
  <2>1. 365 + x = 365
    BY <1>5
  <2> QED BY <1>3, <2>1
<1>6. CASE x = 1
  <2>1. 365 + x = 366
    BY <1>6
  <2> QED BY <1>4, <2>1
<1> QED BY <1>5, <1>6

\* GenAllDaysInYear has the working days of the year, each once.
LEMMA GeneratedAre ==
  ASSUME NEW y \in Nat \ {0}
  PROVE Business!Cardinality(Business!GenAllDaysInYear(y)) \in 260 .. 262
<1> DEFINE G == Business!GenAllDaysInYear(y)
           x == Extra(y)
           a == Turn(y - 1)
           T == Working(a, 365 + x)
           f == [i \in T |-> CHOOSE p \in G : i = Ahead(p[1], x) + p[2]]
           g == [p \in G |-> Ahead(p[1], x) + p[2]]
<1>0. a \in Int /\ x \in {0, 1}
  BY TurnIs DEF Extra
<1>1. Business!Cardinality(G) = Cardinality(G)
  BY Zenon DEF Business!Cardinality, Cardinality
<1>2. G = {p \in (1 .. 12) \X (1 .. 31) :
              p[2] <= Business!DaysOfMonth(y, p[1]) /\ Business!Weekday(y, p[1], p[2]) \notin {0, 6}}
  BY Zenon DEF Business!GenAllDaysInYear
<1>3. \A m \in 1 .. 12, d \in 1 .. 31 : Business!Weekday(y, m, d) = (a + (Ahead(m, x) + d)) % 7
  <2>1. ASSUME NEW m \in 1 .. 12, NEW d \in 1 .. 31
        PROVE Business!Weekday(y, m, d) = (a + (Ahead(m, x) + d)) % 7
    <3>0. Ahead(m, x) \in 0 .. 335
      <4>1. y \in Nat
        OBVIOUS
      <4> QED BY <4>1, MonthIs, Zenon
    <3>1. Ahead(m, x) \in Int /\ d \in Nat
      BY <3>0
    <3>2. Business!Weekday(y, m, d) = (a + Ahead(m, x) + d) % 7
      BY <3>1, WeekdayIs
    <3> HIDE DEF a, x
    <3>3. a + Ahead(m, x) + d = a + (Ahead(m, x) + d)
      <4>1. PICK h \in Int : h = Ahead(m, x)
        BY <3>1
      <4>2. a \in Int /\ a + h + d = a + (h + d)
        BY <1>0, <3>1
      <4> QED BY <4>1, <4>2, Zenon
    <3> QED BY <3>2, <3>3, Zenon
  <2> QED BY <2>1
<1>a. /\ \A m \in 1 .. 12, d \in 1 .. 31 : d <= Business!DaysOfMonth(y, m) => Ahead(m, x) + d \in 1 .. 365 + x
      /\ \A m, o \in 1 .. 12, d, e \in 1 .. 31 :
           /\ d <= Business!DaysOfMonth(y, m) /\ e <= Business!DaysOfMonth(y, o)
           /\ Ahead(m, x) + d = Ahead(o, x) + e
           => m = o /\ d = e
  BY DayOfYear, ZenonT(60)
<1>4. IsFiniteSet(T) /\ Cardinality(T) \in 260 .. 262
  <2> HIDE DEF a, x
  <2> QED BY <1>0, YearHas
<1> HIDE DEF G, a, T, x
<1>5. ASSUME NEW p \in G PROVE /\ p \in (1 .. 12) \X (1 .. 31) /\ p[2] <= Business!DaysOfMonth(y, p[1])
                               /\ Ahead(p[1], x) + p[2] \in T
  <2>1. /\ p \in (1 .. 12) \X (1 .. 31) /\ p[2] <= Business!DaysOfMonth(y, p[1])
        /\ Business!Weekday(y, p[1], p[2]) \notin {0, 6}
    BY <1>2
  <2>2. p[1] \in 1 .. 12 /\ p[2] \in 1 .. 31
    BY <2>1
  <2>3. Ahead(p[1], x) + p[2] \in 1 .. 365 + x
    BY <1>a, <2>1, <2>2, Zenon
  <2>4. (a + (Ahead(p[1], x) + p[2])) % 7 \notin {0, 6}
    BY <1>3, <2>1, <2>2
  <2> QED BY <2>1, <2>3, <2>4 DEF T, Working
<1>6. ASSUME NEW p \in G, NEW q \in G, Ahead(p[1], x) + p[2] = Ahead(q[1], x) + q[2] PROVE p = q
  <2>1. PICK m \in 1 .. 12, d \in 1 .. 31 : p = <<m, d>>
    BY <1>5
  <2>2. PICK o \in 1 .. 12, e \in 1 .. 31 : q = <<o, e>>
    BY <1>5
  <2>3. p[1] = m /\ p[2] = d /\ q[1] = o /\ q[2] = e
    BY <2>1, <2>2
  <2>4. d <= Business!DaysOfMonth(y, m) /\ e <= Business!DaysOfMonth(y, o) /\ Ahead(m, x) + d = Ahead(o, x) + e
    BY <1>5, <1>6, <2>3, Zenon
  <2>5. m = o /\ d = e
    BY <1>a, <2>4, Zenon
  <2> QED BY <2>1, <2>2, <2>5
<1>7. ASSUME NEW i \in T PROVE \E p \in G : i = Ahead(p[1], x) + p[2]
  <2>1. i \in 1 .. 365 + x /\ (a + i) % 7 \notin {0, 6}
    BY DEF T, Working
  <2>2. PICK m \in 1 .. 12, d \in 1 .. 31 : d <= Business!DaysOfMonth(y, m) /\ i = Ahead(m, x) + d
    BY <2>1, DayOfYear, Zenon DEF x
  <2>3. Business!Weekday(y, m, d) \notin {0, 6}
    BY <1>3, <2>1, <2>2
  <2>4. <<m, d>> \in G /\ <<m, d>>[1] = m /\ <<m, d>>[2] = d
    BY <1>2, <2>2, <2>3
  <2> QED BY <2>2, <2>4
<1>8. f \in [T -> G] /\ \A i \in T : i = Ahead(f[i][1], x) + f[i][2]
  BY <1>7
<1> HIDE DEF f
<1>9. \A i, j \in T : f[i] = f[j] => i = j
  BY <1>8
<1>10. \A p \in G : \E i \in T : f[i] = p
  <2>1. ASSUME NEW p \in G PROVE f[Ahead(p[1], x) + p[2]] = p
    BY <1>5, <1>6, <1>8
  <2> QED BY <1>5, <2>1
<1>11. Cardinality(G) = Cardinality(T)
  BY <1>4, <1>8, <1>9, <1>10, SameSize
<1> QED BY <1>1, <1>4, <1>11 DEF G

LEMMA WeekdaysAre == year \in Nat => Business!WeekdaysFollow
<1> SUFFICES ASSUME year \in Nat \ {0} PROVE Business!WeekdaysFollow
  BY DEF Business!WeekdaysFollow
<1> DEFINE x == Extra(year)
           T == Turn(year - 1)
<1>0. x \in {0, 1} /\ T \in Int /\ Turn(year) = T + 1 + x
  BY TurnIs DEF Extra
<1>1. \A m \in 1 .. 12, d \in Nat : Business!Weekday(year, m, d) = (T + Ahead(m, x) + d) % 7
  BY WeekdayIs
<1>2. Business!Weekday(year + 1, 1, 1) = (Business!Weekday(year, 12, 31) + 1) % 7
  <2>1. Business!Weekday(year + 1, 1, 1) = (Turn(year) + 0 + 1) % 7
    <3>1. year + 1 \in Nat \ {0} /\ (year + 1) - 1 = year
      OBVIOUS
    <3>2. Ahead(1, Extra(year + 1)) = 0
      BY DEF Ahead
    <3> QED BY <3>1, <3>2, WeekdayIs
  <2>2. Business!Weekday(year, 12, 31) = (T + (334 + x) + 31) % 7
    <3>1. Ahead(12, x) = 334 + x
      BY DEF Ahead
    <3> QED BY <1>1, <3>1
  <2> HIDE DEF x, T
  <2>3. (Turn(year) + 0 + 1) % 7 = (((T + (334 + x) + 31) % 7) + 1) % 7
    BY <1>0
  <2> QED BY <2>1, <2>2, <2>3
<1>3. ASSUME NEW m \in 1 .. 11
      PROVE Business!Weekday(year, m + 1, 1) = (Business!Weekday(year, m, Business!DaysOfMonth(year, m)) + 1) % 7
  <2> DEFINE h == Ahead(m, x)
             d == Business!DaysOfMonth(year, m)
  <2>1. h \in Int /\ d \in Nat /\ Ahead(m + 1, x) = h + d
    <3>1. m \in 1 .. 12 /\ m < 12 /\ year \in Nat
      OBVIOUS
    <3>2. h \in 0 .. 335 /\ Ahead(m + 1, x) = h + d
      BY <3>1, MonthIs, ZenonT(60)
    <3>3. d = IF m = 2 THEN 28 + x ELSE IF m \in {4, 6, 9, 11} THEN 30 ELSE 31
      BY <3>1, MonthIs, ZenonT(60)
    <3> HIDE DEF d, h, x
    <3>4. d \in Nat
      BY <1>0, <3>3
    <3> QED BY <3>2, <3>4
  <2>2. /\ Business!Weekday(year, m + 1, 1) = (T + Ahead(m + 1, x) + 1) % 7
        /\ Business!Weekday(year, m, d) = (T + h + d) % 7
    BY <1>1, <2>1
  <2> HIDE DEF h, d, x, T
  <2>3. (T + (h + d) + 1) % 7 = (((T + h + d) % 7) + 1) % 7
    BY <1>0, <2>1
  <2> QED BY <2>1, <2>2, <2>3 DEF d
<1>4. Business!Cardinality(Business!GenAllDaysInYear(year)) \in 260 .. 262
  BY GeneratedAre
<1> QED BY <1>2, <1>3, <1>4, Zenon DEF Business!WeekdaysFollow

LEMMA CalendarShows == CalendarInv => Business!CalendarAgrees /\ Business!WeekdaysFollow
<1> SUFFICES ASSUME CalendarInv PROVE Business!CalendarAgrees /\ Business!WeekdaysFollow
  OBVIOUS
<1>1. year \in Nat
  <2>1. year \in Years \cup {0} /\ Years \subseteq Nat
    BY CalendarAssumption DEF CalendarInv
  <2> QED BY <2>1
<1> QED BY <1>1, QueriesAgree, WeekdaysAre

\* A clock shows the trading day of its time; a calendar answers from the days
\* of its files, whichever files were read; and the weekdays of every year
\* follow one another.
THEOREM DaysAgree == ClockSpec /\ CalendarSpec => []DaysTrue
<1>1. CalendarSpec => [](Business!CalendarAgrees /\ Business!WeekdaysFollow)
  BY CalendarFirst, CalendarStep, CalendarShows, PTL DEF CalendarSpec
<1>2. Trading!TradingDayTrue /\ Business!CalendarAgrees /\ Business!WeekdaysFollow => DaysTrue
  BY DEF DaysTrue
<1> QED BY <1>1, <1>2, TradingDayShown, PTL
===============================================================================
