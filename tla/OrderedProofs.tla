---------------------------- MODULE OrderedProofs ----------------------------
(* The components that keep an order, for every size and order of calls.     *)
(* TapList: the cells that next joins form a ring that prev follows back     *)
(* (Looped). extend() cuts the free cells off, puts a block in their place   *)
(* and leaves a prev that is out of the blocks behind the cut, so that an    *)
(* iterator whose cached next cell is old (Stands) is one from before a cut. *)
(* Gz files: what is on disk, what the buffer holds and what is still to be  *)
(* written join to the records given (GzInv); a text's lines join to the     *)
(* characters read, without the returns (TextInv). merge_read: every column  *)
(* is laid by the rows of the whole path and the days read (MergeInv).       *)
EXTENDS Ordered, SequenceTheorems, FiniteSetTheorems, WellFoundedInduction, TLAPS

\* Every set of numbers has a least one.
LEMMA LessIsWellFounded ==
  IsWellFoundedOn({ss \in Nat \X Nat : ss[1] < ss[2]}, Nat)
BY NatLessThanWellFounded, Zenon DEF OpToRel

LEMMA LeastNat ==
  ASSUME NEW T \in SUBSET Nat, T # {}
  PROVE \E n \in T : \A m \in T : n <= m
<1> DEFINE R == {ss \in Nat \X Nat : ss[1] < ss[2]}
<1>1. IsWellFoundedOn(R, Nat)
  BY LessIsWellFounded
<1>2. PICK n \in T : \A m \in T : ~(<<m, n>> \in R)
  <2> HIDE DEF R
  <2> QED BY <1>1, WFMin
<1>3. ASSUME NEW m \in T, m < n PROVE FALSE
  <2>1. <<m, n>> \in Nat \X Nat /\ <<m, n>>[1] < <<m, n>>[2]
    BY <1>3
  <2>2. <<m, n>> \in R
    BY <2>1
  <2> QED BY <2>2, <1>2
<1> QED BY <1>2, <1>3

\* A set of numbers with 0 and the successor of each member below n has n.
LEMMA UpTo ==
  ASSUME NEW n \in Nat, NEW S, 0 \in S, \A i \in 1 .. n : i - 1 \in S => i \in S
  PROVE \A i \in 0 .. n : i \in S
<1> DEFINE T == {i \in 0 .. n : i \notin S}
<1> SUFFICES ASSUME T # {} PROVE FALSE
  OBVIOUS
<1>1. T \in SUBSET Nat
  OBVIOUS
<1> HIDE DEF T
<1>2. PICK i \in T : \A m \in T : i <= m
  BY <1>1, LeastNat
<1>3. i \in 0 .. n /\ i \notin S
  BY <1>2 DEF T
<1>4. i \in 1 .. n /\ i - 1 \in 0 .. n
  BY <1>3
<1>5. i - 1 \in S
  BY <1>2, <1>4 DEF T
<1> QED BY <1>3, <1>4, <1>5

\* What a recursion over 0 .. n gives when each step maps V to V.
Steps(n, V, a, s, f) == /\ f \in [0 .. n -> V] /\ f[0] = a
                        /\ \A k \in 1 .. n : f[k] = s[<<k, f[k - 1]>>]

LEMMA StepsExist ==
  ASSUME NEW n \in Nat, NEW V, NEW a \in V, NEW s \in [(1 .. n) \X V -> V]
  PROVE \E f : Steps(n, V, a, s, f)
<1> DEFINE T == {m \in Nat : m <= n => \E f : Steps(m, V, a, s, f)}
<1>1. 0 \in T
  <2> DEFINE f == [k \in 0 .. 0 |-> a]
  <2>1. Steps(0, V, a, s, f)
    BY DEF Steps
  <2> QED BY <2>1
<1>2. ASSUME NEW m \in 1 .. n, m - 1 \in T PROVE m \in T
  <2>1. PICK f : Steps(m - 1, V, a, s, f)
    BY <1>2
  <2>2. f[m - 1] \in V /\ <<m, f[m - 1]>> \in (1 .. n) \X V
    BY <2>1 DEF Steps
  <2>3. s[<<m, f[m - 1]>>] \in V
    BY <2>2
  <2> DEFINE g == [k \in 0 .. m |-> IF k = m THEN s[<<m, f[m - 1]>>] ELSE f[k]]
  <2>4. g \in [0 .. m -> V]
    BY <2>1, <2>3 DEF Steps
  <2>5. g[0] = a
    BY <2>1 DEF Steps
  <2>6. ASSUME NEW k \in 1 .. m PROVE g[k] = s[<<k, g[k - 1]>>]
    <3>1. CASE k = m
      <4>1. k - 1 \in 0 .. m /\ k - 1 # m
        BY <3>1
      <4> QED BY <3>1, <4>1
    <3>2. CASE k # m
      <4>1. k \in 1 .. m - 1 /\ k - 1 \in 0 .. m /\ k - 1 # m /\ k \in 0 .. m
        BY <3>2
      <4>2. g[k] = f[k] /\ g[k - 1] = f[k - 1]
        BY <3>2, <4>1
      <4>3. f[k] = s[<<k, f[k - 1]>>]
        BY <2>1, <4>1 DEF Steps
      <4> QED BY <4>2, <4>3
    <3> QED BY <3>1, <3>2
  <2> HIDE DEF g
  <2>7. Steps(m, V, a, s, g)
    BY <2>4, <2>5, <2>6 DEF Steps
  <2> QED BY <2>7
<1> HIDE DEF T
<1>3. n \in T
  BY <1>1, <1>2, UpTo
<1> QED BY <1>3 DEF T

TapIter == [data : Ring!Cell, prev : Ring!Cell \cup {Ring!Past}, next : Ring!Cell \cup {Ring!Past}]
TapRecord == [next : [Ring!Cell -> Ring!Cell], prev : [Ring!Cell -> Ring!Cell \cup {Ring!Past}],
              val : [Ring!Cell -> Value \cup {0}], blocks : 1 .. MaxBlocks, num : Nat,
              stolen : BOOLEAN, head : TapIter, tail : TapIter]

\* The first cell past the blocks, which is the first of the next one.
Room(l) == l.blocks * Size

\* The cells of the blocks that are there, and those of one more.
LEMMA BlockRoom ==
  ASSUME NEW b \in 1 .. MaxBlocks
  PROVE /\ b * Size \in Nat /\ Size * b = b * Size /\ b * Size >= Size
        /\ Size * MaxBlocks \in Nat /\ b * Size <= Size * MaxBlocks
        /\ b < MaxBlocks => /\ Size * (b + 1) = b * Size + Size
                            /\ b * Size + Size <= Size * MaxBlocks
<1>1. Size \in Nat /\ Size >= 2 /\ b \in Nat /\ MaxBlocks \in Nat
  BY TapAssumption
<1>2. /\ b * Size \in Nat /\ Size * b = b * Size /\ Size * (b + 1) = b * Size + Size /\ Size * MaxBlocks \in Nat
  BY <1>1
<1>3. PICK d \in Nat : MaxBlocks = b + d
  <2>1. MaxBlocks - b \in Nat /\ MaxBlocks = b + (MaxBlocks - b)
    BY TapAssumption
  <2> QED BY <2>1
<1>4. Size * MaxBlocks = Size * b + Size * d /\ Size * d \in Nat
  BY <1>1, <1>3
<1>5. b * Size >= Size
  <2>1. PICK c \in Nat : b = c + 1
    <3>1. b - 1 \in Nat /\ b = (b - 1) + 1
      OBVIOUS
    <3> QED BY <3>1
  <2>2. b * Size = c * Size + Size /\ c * Size \in Nat
    BY <2>1, <1>1
  <2> QED BY <2>2, <1>1
<1>6. ASSUME b < MaxBlocks PROVE b * Size + Size <= Size * MaxBlocks
  <2>1. PICK e \in Nat : d = e + 1
    <3>1. d - 1 \in Nat /\ d = (d - 1) + 1
      BY <1>3, <1>6
    <3> QED BY <3>1
  <2>2. Size * d = Size * e + Size /\ Size * e \in Nat
    BY <2>1, <1>1
  <2> QED BY <2>2, <1>1, <1>2, <1>4
<1> QED BY <1>1, <1>2, <1>4, <1>5, <1>6

\* An iterator that stands on a cell.
LEMMA AtIter ==
  ASSUME NEW l \in TapRecord, NEW c \in Ring!Cell
  PROVE /\ Ring!At(l, c) = [data |-> c, prev |-> l.prev[c], next |-> l.next[c]]
        /\ Ring!At(l, c) \in TapIter
        /\ c # Ring!Past
<1>1. c # Ring!Past
  BY TapAssumption DEF Ring!Cell, Ring!Past
<1>2. Ring!At(l, c) = [data |-> c, prev |-> l.prev[c], next |-> l.next[c]]
  BY <1>1 DEF Ring!At
<1>3. l.prev[c] \in Ring!Cell \cup {Ring!Past} /\ l.next[c] \in Ring!Cell
  BY DEF TapRecord
<1> QED BY <1>1, <1>2, <1>3 DEF TapIter

\* extend(), field by field.
LEMMA ExtendIs ==
  ASSUME NEW l \in TapRecord, l.blocks < MaxBlocks, NEW v, v = Room(l), NEW m, m = Ring!Extend(l)
  PROVE /\ m \in TapRecord
        /\ m.blocks = l.blocks + 1 /\ m.num = l.num /\ m.val = l.val
        /\ m.head.data = l.head.data /\ m.head.next = v /\ m.head.prev = l.head.prev
        /\ m.tail.data = l.tail.data /\ m.tail.prev = Ring!Past /\ m.tail.next = l.tail.next
        /\ \A c \in Ring!Cell :
              /\ m.next[c] = IF c = l.head.data THEN v ELSE IF c \notin v .. v + Size - 1 THEN l.next[c]
                             ELSE IF c = v + Size - 1 THEN l.tail.data ELSE c + 1
              /\ m.prev[c] = IF c = l.tail.data THEN Ring!Past ELSE IF c \notin v .. v + Size - 1 THEN l.prev[c]
                             ELSE IF c = v THEN l.head.data ELSE c - 1
<1> DEFINE nx == [c \in Ring!Cell |-> IF c \notin v .. v + Size - 1 THEN l.next[c]
                                      ELSE IF c = v + Size - 1 THEN l.tail.data ELSE c + 1]
           pv == [c \in Ring!Cell |-> IF c \notin v .. v + Size - 1 THEN l.prev[c]
                                      ELSE IF c = v THEN l.head.data ELSE c - 1]
           hd == [data |-> l.head.data, prev |-> l.head.prev, next |-> v]
           tl == [data |-> l.tail.data, prev |-> Ring!Past, next |-> l.tail.next]
           e == [next |-> [nx EXCEPT ![l.head.data] = v], prev |-> [pv EXCEPT ![l.tail.data] = Ring!Past], val |-> l.val,
                 blocks |-> l.blocks + 1, num |-> l.num, stolen |-> l.stolen, head |-> hd, tail |-> tl]
<1>1. l = [next |-> l.next, prev |-> l.prev, val |-> l.val, blocks |-> l.blocks, num |-> l.num,
           stolen |-> l.stolen, head |-> l.head, tail |-> l.tail]
  BY DEF TapRecord
<1>0. /\ l.head = [data |-> l.head.data, prev |-> l.head.prev, next |-> l.head.next]
      /\ l.tail = [data |-> l.tail.data, prev |-> l.tail.prev, next |-> l.tail.next]
  BY DEF TapRecord, TapIter
<1>2. /\ l.next \in [Ring!Cell -> Ring!Cell] /\ l.prev \in [Ring!Cell -> Ring!Cell \cup {Ring!Past}]
      /\ l.val \in [Ring!Cell -> Value \cup {0}] /\ l.blocks \in 1 .. MaxBlocks /\ l.num \in Nat /\ l.stolen \in BOOLEAN
      /\ l.head \in TapIter /\ l.tail \in TapIter
  BY DEF TapRecord
<1>3. /\ l.head.data \in Ring!Cell /\ l.tail.data \in Ring!Cell
      /\ l.head.prev \in Ring!Cell \cup {Ring!Past} /\ l.tail.next \in Ring!Cell \cup {Ring!Past}
  BY <1>2 DEF TapIter
<1> DEFINE p == [next |-> nx, prev |-> pv, val |-> l.val, blocks |-> l.blocks, num |-> l.num,
                stolen |-> l.stolen, head |-> l.head, tail |-> l.tail]
<1>4. Ring!Prepared(l, l.head.data, l.tail.data, v) = p
  <2>1. Ring!Prepared(l, l.head.data, l.tail.data, v) = [l EXCEPT !.next = nx, !.prev = pv]
    BY <1>1 DEF Ring!Prepared
  <2> HIDE DEF nx, pv
  <2> QED BY <1>1, <2>1
<1> HIDE DEF nx, pv
<1>5. m = e
  <2>1. m = [p EXCEPT !.blocks = @ + 1, !.head.next = v, !.next[l.head.data] = v,
                      !.tail.prev = Ring!Past, !.prev[l.tail.data] = Ring!Past]
    <3> HIDE DEF p
    <3> QED BY <1>4, Zenon DEF Ring!Extend, Room
  <2>2. [l.head EXCEPT !.next = v] = hd /\ [l.tail EXCEPT !.prev = Ring!Past] = tl
    BY <1>0
  <2>3. /\ p.head = l.head /\ p.tail = l.tail /\ p.next = nx /\ p.prev = pv /\ p.blocks = l.blocks
    OBVIOUS
  <2>4. m = [p EXCEPT !.blocks = l.blocks + 1, !.head = hd, !.next = [nx EXCEPT ![l.head.data] = v],
                      !.tail = tl, !.prev = [pv EXCEPT ![l.tail.data] = Ring!Past]]
    BY <2>1, <2>2, <2>3
  <2> HIDE DEF hd, tl
  <2> QED BY <2>4
<1>6. /\ v \in Nat /\ Size \in Nat /\ Size >= 2 /\ v + Size <= Size * MaxBlocks
      /\ \A c : c \in Ring!Cell <=> c \in Int /\ 0 <= c /\ c < Size * MaxBlocks
      /\ Size * MaxBlocks \in Nat
  <2>1. v + Size <= Size * MaxBlocks /\ Size * MaxBlocks \in Nat /\ v \in Nat
    BY <1>2, BlockRoom DEF Room
  <2>2. \A c : c \in 0 .. Size * MaxBlocks - 1 <=> c \in Int /\ 0 <= c /\ c < Size * MaxBlocks
    BY <2>1
  <2> QED BY <2>1, <2>2, TapAssumption DEF Ring!Cell
<1>7. v \in Ring!Cell /\ nx \in [Ring!Cell -> Ring!Cell] /\ pv \in [Ring!Cell -> Ring!Cell \cup {Ring!Past}]
  <2>1. ASSUME NEW c \in Ring!Cell PROVE nx[c] \in Ring!Cell /\ pv[c] \in Ring!Cell \cup {Ring!Past}
    <3>1. l.next[c] \in Ring!Cell /\ l.prev[c] \in Ring!Cell \cup {Ring!Past}
      BY <1>2
    <3>2. CASE c \notin v .. v + Size - 1
      BY <3>1, <3>2 DEF nx, pv
    <3>3. CASE c \in v .. v + Size - 1
      <4>1. c + 1 \in Ring!Cell \/ c = v + Size - 1
        BY <3>3, <1>6
      <4>2. c - 1 \in Ring!Cell \/ c = v
        BY <3>3, <1>6
      <4> QED BY <3>3, <4>1, <4>2, <1>3 DEF nx, pv
    <3> QED BY <3>2, <3>3
  <2>2. v \in Ring!Cell
    BY <1>6
  <2> QED BY <2>1, <2>2 DEF nx, pv
<1>8. m \in TapRecord
  <2>1. hd \in TapIter /\ tl \in TapIter
    BY <1>3, <1>7 DEF TapIter
  <2>2. l.blocks + 1 \in 1 .. MaxBlocks
    BY <1>2, TapAssumption
  <2>3. /\ [nx EXCEPT ![l.head.data] = v] \in [Ring!Cell -> Ring!Cell]
        /\ [pv EXCEPT ![l.tail.data] = Ring!Past] \in [Ring!Cell -> Ring!Cell \cup {Ring!Past}]
    BY <1>3, <1>7
  <2> HIDE DEF hd, tl
  <2> QED BY <1>2, <1>5, <2>1, <2>2, <2>3 DEF TapRecord
<1>9. ASSUME NEW c \in Ring!Cell
      PROVE /\ m.next[c] = IF c = l.head.data THEN v ELSE nx[c]
            /\ m.prev[c] = IF c = l.tail.data THEN Ring!Past ELSE pv[c]
  BY <1>5, <1>7
<1>10. /\ m.blocks = l.blocks + 1 /\ m.num = l.num /\ m.val = l.val
       /\ m.head.data = l.head.data /\ m.head.next = v /\ m.head.prev = l.head.prev
       /\ m.tail.data = l.tail.data /\ m.tail.prev = Ring!Past /\ m.tail.next = l.tail.next
  BY <1>5
<1> QED BY <1>8, <1>9, <1>10 DEF nx, pv

\* r names the cells of the ring in the order of next, N of them.
Looped(l, N, r) ==
  /\ N \in Nat /\ N >= 2 /\ N <= Room(l)
  /\ r \in [0 .. N - 1 -> 0 .. Room(l) - 1]
  /\ \A i, j \in 0 .. N - 1 : r[i] = r[j] => i = j
  /\ \A k \in 0 .. N - 2 : l.next[r[k]] = r[k + 1]
  /\ l.next[r[N - 1]] = r[0]
  /\ \A k \in 1 .. N - 1 : l.prev[r[k]] \in {r[k - 1], Ring!Past}
  /\ l.prev[r[0]] \in {r[N - 1], Ring!Past}

\* extend() has cut the ring between the cell after p and the first one.
CutAfter(l, N, r, p) ==
  \/ \E q \in p + 2 .. N - 1 : l.prev[r[q]] = Ring!Past
  \/ p + 2 <= N /\ l.prev[r[0]] = Ring!Past

\* Iterator i is on cell p, and what it takes for the next cell is the next
\* one, unless the ring was cut since.
Stands(l, N, r, i, p) == i.data = r[p] /\ (i.next = l.next[i.data] \/ CutAfter(l, N, r, p))

\* The ring seen from its cell j.
Turned(N, r, j) == [k \in 0 .. N - 1 |-> IF k + j < N THEN r[k + j] ELSE r[k + j - N]]

LEMMA TurnedJoined ==
  ASSUME NEW l, NEW m, m.next = l.next, m.prev = l.prev, m.blocks = l.blocks,
         NEW N, NEW r, Looped(l, N, r), NEW j \in 0 .. N - 1
  PROVE Looped(m, N, Turned(N, r, j))
<1> DEFINE t == Turned(N, r, j)
           B == Room(l)
<1> HIDE DEF B
<1>1. /\ N \in Nat /\ N >= 2 /\ N <= B
      /\ r \in [0 .. N - 1 -> 0 .. B - 1]
      /\ \A i, k \in 0 .. N - 1 : r[i] = r[k] => i = k
      /\ \A k \in 0 .. N - 2 : l.next[r[k]] = r[k + 1]
      /\ l.next[r[N - 1]] = r[0]
      /\ \A k \in 1 .. N - 1 : l.prev[r[k]] \in {r[k - 1], Ring!Past}
      /\ l.prev[r[0]] \in {r[N - 1], Ring!Past}
  BY DEF Looped, B
<1>0. N \in Nat
  BY <1>1
<1>2. /\ t = [k \in 0 .. N - 1 |-> IF k + j < N THEN r[k + j] ELSE r[k + j - N]]
      /\ \A k \in 0 .. N - 1 : t[k] = IF k + j < N THEN r[k + j] ELSE r[k + j - N]
  BY DEF Turned
<1> HIDE DEF t
<1>3. t \in [0 .. N - 1 -> 0 .. B - 1]
  <2>1. ASSUME NEW k \in 0 .. N - 1 PROVE t[k] \in 0 .. B - 1
    <3>1. CASE k + j < N
      BY <3>1, <1>1, <1>2
    <3>2. CASE ~(k + j < N)
      <4>1. k + j - N \in 0 .. N - 1
        BY <3>2, <1>1
      <4> QED BY <4>1, <3>2, <1>1, <1>2
    <3> QED BY <3>1, <3>2
  <2> QED BY <2>1, <1>2
<1>4. ASSUME NEW i \in 0 .. N - 1, NEW k \in 0 .. N - 1, t[i] = t[k] PROVE i = k
  <2> DEFINE a == IF i + j < N THEN i + j ELSE i + j - N
             b == IF k + j < N THEN k + j ELSE k + j - N
  <2>1. a \in 0 .. N - 1 /\ b \in 0 .. N - 1 /\ (a = b => i = k)
    BY <1>0
  <2>2. t[i] = r[a] /\ t[k] = r[b]
    BY <1>2
  <2> HIDE DEF a, b
  <2>3. r[a] = r[b]
    BY <2>2, <1>4
  <2> QED BY <2>1, <2>3, <1>1
<1>5. ASSUME NEW k \in 0 .. N - 2 PROVE l.next[t[k]] = t[k + 1]
  <2>1. CASE k + 1 + j < N
    <3>1. /\ k \in 0 .. N - 1 /\ k + 1 \in 0 .. N - 1 /\ k + j < N /\ k + 1 + j = (k + j) + 1
          /\ k + j \in 0 .. N - 2
      BY <2>1, <1>0
    <3>2. t[k] = r[k + j] /\ t[k + 1] = r[(k + j) + 1]
      BY <2>1, <3>1, <1>2
    <3> QED BY <3>1, <3>2, <1>1
  <2>2. CASE k + 1 + j = N
    <3>1. t[k] = r[N - 1] /\ t[k + 1] = r[0]
      BY <2>2, <1>1, <1>2
    <3> QED BY <3>1, <1>1
  <2>3. CASE k + j >= N
    <3>1. t[k] = r[k + j - N] /\ t[k + 1] = r[k + 1 + j - N] /\ k + j - N \in 0 .. N - 2
      BY <2>3, <1>1, <1>2
    <3>2. k + 1 + j - N = (k + j - N) + 1
      BY <1>1
    <3> QED BY <3>1, <3>2, <1>1
  <2>4. k + 1 + j < N \/ k + 1 + j = N \/ k + j >= N
    BY <1>0
  <2> QED BY <2>1, <2>2, <2>3, <2>4
<1>6. l.next[t[N - 1]] = t[0]
  <2>1. t[0] = r[j]
    BY <1>1, <1>2
  <2>2. CASE j = 0
    BY <2>1, <2>2, <1>1, <1>2
  <2>3. CASE j > 0
    <3>1. t[N - 1] = r[j - 1] /\ j - 1 \in 0 .. N - 2 /\ (j - 1) + 1 = j
      BY <2>3, <1>1, <1>2
    <3> QED BY <2>1, <3>1, <1>1
  <2> QED BY <2>2, <2>3
<1>7. ASSUME NEW k \in 1 .. N - 1 PROVE l.prev[t[k]] \in {t[k - 1], Ring!Past}
  <2>1. CASE k + j < N
    <3>1. t[k] = r[k + j] /\ t[k - 1] = r[(k + j) - 1] /\ k + j \in 1 .. N - 1
      <4>1. t[k - 1] = r[k - 1 + j] /\ k - 1 + j = (k + j) - 1
        BY <2>1, <1>1, <1>2
      <4> QED BY <2>1, <4>1, <1>1, <1>2
    <3> QED BY <3>1, <1>1
  <2>2. CASE k + j = N
    <3>1. t[k] = r[0] /\ t[k - 1] = r[N - 1]
      BY <2>2, <1>1, <1>2
    <3> QED BY <3>1, <1>1
  <2>3. CASE k + j > N
    <3>1. t[k] = r[k + j - N] /\ t[k - 1] = r[(k + j - N) - 1] /\ k + j - N \in 1 .. N - 1
      <4>1. k - 1 \in 0 .. N - 1 /\ ~(k - 1 + j < N) /\ k - 1 + j - N = (k + j - N) - 1
        BY <2>3, <1>1
      <4> QED BY <2>3, <4>1, <1>1, <1>2
    <3> QED BY <3>1, <1>1
  <2>4. k + j < N \/ k + j = N \/ k + j > N
    BY <1>0
  <2> QED BY <2>1, <2>2, <2>3, <2>4
<1>8. l.prev[t[0]] \in {t[N - 1], Ring!Past}
  <2>1. t[0] = r[j]
    BY <1>1, <1>2
  <2>2. CASE j = 0
    BY <2>1, <2>2, <1>1, <1>2
  <2>3. CASE j > 0
    <3>1. t[N - 1] = r[j - 1] /\ j \in 1 .. N - 1
      BY <2>3, <1>1, <1>2
    <3> QED BY <2>1, <3>1, <1>1
  <2> QED BY <2>2, <2>3
<1>9. Looped(m, N, t)
  <2>1. Room(m) = B
    BY DEF B, Room
  <2> QED BY <2>1, <1>0, <1>1, <1>3, <1>4, <1>5, <1>6, <1>7, <1>8, Zenon DEF Looped
<1> QED BY <1>9 DEF t

\* An iterator stays where it is when the ring is seen from a cell up to it.
LEMMA TurnedStands ==
  ASSUME NEW l, NEW m, m.next = l.next, m.prev = l.prev,
         NEW N, NEW r, Looped(l, N, r), NEW i, NEW p \in 0 .. N - 1, Stands(l, N, r, i, p), NEW j \in 0 .. p
  PROVE Stands(m, N, Turned(N, r, j), i, p - j)
<1> DEFINE t == Turned(N, r, j)
<1>1. N \in Nat /\ N >= 2 /\ j \in 0 .. N - 1
  BY DEF Looped
<1>2. \A k \in 0 .. N - 1 : t[k] = IF k + j < N THEN r[k + j] ELSE r[k + j - N]
  BY DEF Turned
<1> HIDE DEF t
<1>3. i.data = t[p - j]
  <2>1. p - j \in 0 .. N - 1 /\ (p - j) + j = p /\ p < N
    BY <1>1
  <2> QED BY <2>1, <1>2 DEF Stands
<1>4. ASSUME CutAfter(l, N, r, p) PROVE CutAfter(m, N, t, p - j)
  <2>1. CASE \E q \in p + 2 .. N - 1 : l.prev[r[q]] = Ring!Past
    <3>1. PICK q \in p + 2 .. N - 1 : l.prev[r[q]] = Ring!Past
      BY <2>1
    <3>2. q - j \in (p - j) + 2 .. N - 1 /\ q - j \in 0 .. N - 1 /\ (q - j) + j = q /\ q < N
      BY <1>1
    <3>3. t[q - j] = r[q]
      BY <3>2, <1>2
    <3> QED BY <3>1, <3>2, <3>3 DEF CutAfter
  <2>2. CASE p + 2 <= N /\ l.prev[r[0]] = Ring!Past
    <3>1. CASE j = 0
      <4>1. t[0] = r[0] /\ (p - j) + 2 <= N
        BY <3>1, <2>2, <1>1, <1>2
      <4> QED BY <4>1, <2>2 DEF CutAfter
    <3>2. CASE j > 0
      <4>1. N - j \in (p - j) + 2 .. N - 1 /\ N - j \in 0 .. N - 1 /\ (N - j) + j = N /\ N - N = 0
        BY <3>2, <2>2, <1>1
      <4>2. t[N - j] = r[0]
        BY <4>1, <1>1, <1>2
      <4> QED BY <4>1, <4>2, <2>2 DEF CutAfter
    <3> QED BY <3>1, <3>2
  <2> QED BY <1>4, <2>1, <2>2 DEF CutAfter
<1> QED BY <1>3, <1>4 DEF Stands, t

\* And when it is seen from the cell before its first, to which prev leads.
LEMMA TurnedBack ==
  ASSUME NEW l, NEW m, m.next = l.next, m.prev = l.prev, NEW N, NEW r, Looped(l, N, r), l.prev[r[0]] # Ring!Past,
         NEW i, NEW p \in 0 .. N - 2, Stands(l, N, r, i, p)
  PROVE Stands(m, N, Turned(N, r, N - 1), i, p + 1)
<1> DEFINE t == Turned(N, r, N - 1)
<1>1. N \in Nat /\ N >= 2
  BY DEF Looped
<1>2. \A k \in 0 .. N - 1 : t[k] = IF k + (N - 1) < N THEN r[k + (N - 1)] ELSE r[k + (N - 1) - N]
  BY DEF Turned
<1>3. \A k \in 1 .. N - 1 : t[k] = r[k - 1]
  <2>1. ASSUME NEW k \in 1 .. N - 1 PROVE t[k] = r[k - 1]
    <3>1. ~(k + (N - 1) < N) /\ k + (N - 1) - N = k - 1 /\ k \in 0 .. N - 1
      BY <1>1
    <3> QED BY <3>1, <1>2
  <2> QED BY <2>1
<1> HIDE DEF t
<1>4. p + 1 \in 1 .. N - 1 /\ (p + 1) - 1 = p
  BY <1>1
<1>5. i.data = t[p + 1]
  BY <1>3, <1>4 DEF Stands
<1>6. ASSUME CutAfter(l, N, r, p) PROVE CutAfter(m, N, t, p + 1)
  <2>1. PICK q \in p + 2 .. N - 1 : l.prev[r[q]] = Ring!Past
    BY <1>6 DEF CutAfter
  <2>2. CASE q < N - 1
    <3>1. q + 1 \in (p + 1) + 2 .. N - 1 /\ q + 1 \in 1 .. N - 1 /\ (q + 1) - 1 = q
      BY <1>1, <2>2
    <3>2. t[q + 1] = r[q]
      BY <3>1, <1>3
    <3> QED BY <2>1, <3>1, <3>2 DEF CutAfter
  <2>3. CASE q = N - 1
    <3>1. t[0] = r[N - 1]
      BY <1>1, <1>2 DEF t
    <3>2. (p + 1) + 2 <= N
      BY <1>1, <2>3
    <3> QED BY <2>1, <2>3, <3>1, <3>2 DEF CutAfter
  <2> QED BY <2>2, <2>3, <1>1
<1> QED BY <1>5, <1>6 DEF Stands, t

\* The ring after extend(): its free cells, if it had any, are off it, and the
\* cells of the new block, from v on, follow the n that hold the list.
Grown(r, n, v) == [k \in 0 .. (n + Size) - 1 |-> IF k < n THEN r[k] ELSE v + (k - n)]

LEMMA ExtendLooped ==
  ASSUME NEW l \in TapRecord, l.blocks < MaxBlocks, NEW N, NEW r, Looped(l, N, r), NEW n \in 1 .. N,
         l.tail.data = r[0], l.head.data = r[n - 1], NEW v, v = Room(l), NEW m, m = Ring!Extend(l)
  PROVE /\ Looped(m, n + Size, Grown(r, n, v))
        /\ \A k \in 0 .. n - 1 : Grown(r, n, v)[k] = r[k]
        /\ Grown(r, n, v)[n] = v
        /\ \A i, p : p \in 0 .. n - 1 /\ i.data = r[p] => Stands(m, n + Size, Grown(r, n, v), i, p)
<1> DEFINE g == Grown(r, n, v)
           M == n + Size
<1>1. /\ N \in Nat /\ N >= 2 /\ N <= v
      /\ r \in [0 .. N - 1 -> 0 .. v - 1]
      /\ \A i, j \in 0 .. N - 1 : r[i] = r[j] => i = j
      /\ \A k \in 0 .. N - 2 : l.next[r[k]] = r[k + 1]
      /\ l.next[r[N - 1]] = r[0]
      /\ \A k \in 1 .. N - 1 : l.prev[r[k]] \in {r[k - 1], Ring!Past}
  BY DEF Looped
<1>2. /\ v \in Nat /\ v + Size <= Size * MaxBlocks /\ Size * MaxBlocks \in Nat
      /\ l.blocks \in 1 .. MaxBlocks /\ Size * (l.blocks + 1) = v + Size
  <2>1. l.blocks \in 1 .. MaxBlocks
    BY DEF TapRecord
  <2> QED BY <2>1, BlockRoom DEF Room
<1>3. Size \in Nat /\ Size >= 2
  BY TapAssumption
<1>4. /\ m.blocks = l.blocks + 1
      /\ \A c \in Ring!Cell :
            /\ m.next[c] = IF c = l.head.data THEN v ELSE IF c \notin v .. v + Size - 1 THEN l.next[c]
                           ELSE IF c = v + Size - 1 THEN l.tail.data ELSE c + 1
            /\ m.prev[c] = IF c = l.tail.data THEN Ring!Past ELSE IF c \notin v .. v + Size - 1 THEN l.prev[c]
                           ELSE IF c = v THEN l.head.data ELSE c - 1
  BY ExtendIs
<1> HIDE DEF M
<1>0. g = [k \in 0 .. M - 1 |-> IF k < n THEN r[k] ELSE v + (k - n)]
  BY Zenon DEF Grown, M
<1> HIDE DEF g
<1>5. \A k \in 0 .. M - 1 : g[k] = IF k < n THEN r[k] ELSE v + (k - n)
  BY <1>0
<1> USE DEF M
<1>6. M \in Nat /\ M >= 2 /\ M <= v + Size /\ n \in Nat
  BY <1>1, <1>2, <1>3
<1>7. ASSUME NEW k \in 0 .. n - 1
      PROVE /\ g[k] = r[k] /\ r[k] \in 0 .. v - 1 /\ r[k] \in Ring!Cell /\ r[k] \notin v .. v + Size - 1
            /\ r[k] = l.head.data <=> k = n - 1
            /\ r[k] = l.tail.data <=> k = 0
  <2>1. k \in 0 .. N - 1 /\ n - 1 \in 0 .. N - 1 /\ 0 \in 0 .. N - 1
    BY <1>1
  <2>2. g[k] = r[k]
    BY <1>3, <1>5
  <2>3. r[k] \in 0 .. v - 1
    BY <2>1, <1>1
  <2>4. r[k] \in Ring!Cell
    BY <2>3, <1>2, <1>3 DEF Ring!Cell
  <2>5. (r[k] = l.head.data <=> k = n - 1) /\ (r[k] = l.tail.data <=> k = 0)
    BY <2>1, <1>1
  <2> QED BY <2>2, <2>3, <2>4, <2>5, <1>2
<1>8. ASSUME NEW k \in n .. M - 1
      PROVE /\ g[k] = v + (k - n) /\ g[k] \in v .. v + Size - 1 /\ g[k] \in Ring!Cell
            /\ g[k] # l.head.data /\ g[k] # l.tail.data
  <2>1. g[k] = v + (k - n) /\ g[k] \in v .. v + Size - 1
    BY <1>2, <1>3, <1>5
  <2>2. g[k] \in Ring!Cell
    BY <2>1, <1>2, <1>3 DEF Ring!Cell
  <2>3. l.head.data \in 0 .. v - 1 /\ l.tail.data \in 0 .. v - 1
    <3>1. n - 1 \in 0 .. N - 1 /\ 0 \in 0 .. N - 1
      BY <1>1
    <3> QED BY <3>1, <1>1
  <2> QED BY <2>1, <2>2, <2>3, <1>2
<1>9. g \in [0 .. M - 1 -> 0 .. v + Size - 1]
  <2>1. ASSUME NEW k \in 0 .. M - 1 PROVE g[k] \in 0 .. v + Size - 1
    <3>1. CASE k < n
      BY <3>1, <1>7, <1>2, <1>3
    <3>2. CASE k >= n
      BY <3>2, <1>8, <1>2, <1>3
    <3> QED BY <3>1, <3>2, <1>6
  <2> HIDE DEF M
  <2> QED BY <2>1, <1>0, Zenon
<1>10. ASSUME NEW i \in 0 .. M - 1, NEW k \in 0 .. M - 1, g[i] = g[k] PROVE i = k
  <2>1. CASE i < n /\ k < n
    <3>1. r[i] = r[k] /\ i \in 0 .. N - 1 /\ k \in 0 .. N - 1
      BY <2>1, <1>7, <1>10, <1>1
    <3> QED BY <3>1, <1>1
  <2>2. CASE i >= n /\ k >= n
    <3>1. v + (i - n) = v + (k - n)
      BY <2>2, <1>8, <1>10
    <3> QED BY <3>1, <1>2, <1>6
  <2>3. CASE i < n /\ k >= n
    BY <2>3, <1>7, <1>8, <1>10, <1>2, <1>3
  <2>4. CASE k < n /\ i >= n
    BY <2>4, <1>7, <1>8, <1>10, <1>2, <1>3
  <2> QED BY <2>1, <2>2, <2>3, <2>4, <1>6
<1>11. ASSUME NEW k \in 0 .. M - 2 PROVE m.next[g[k]] = g[k + 1]
  <2>1. CASE k < n - 1
    <3>1. k \in 0 .. N - 2 /\ k \in 0 .. n - 1 /\ k + 1 \in 0 .. n - 1 /\ k # n - 1
      BY <2>1, <1>1
    <3>2. m.next[g[k]] = l.next[r[k]]
      BY <3>1, <1>4, <1>7
    <3> QED BY <3>1, <3>2, <1>1, <1>7
  <2>2. CASE k = n - 1
    <3>1. m.next[g[k]] = v
      BY <2>2, <1>4, <1>7
    <3>2. n \in n .. M - 1 /\ k + 1 = n /\ v + (n - n) = v
      BY <2>2, <1>2, <1>3
    <3> QED BY <3>1, <3>2, <1>8
  <2>3. CASE k >= n
    <3>1. k \in n .. M - 1 /\ k + 1 \in n .. M - 1
      BY <2>3, <1>6
    <3>2. g[k] = v + (k - n) /\ g[k + 1] = v + ((k + 1) - n)
      BY <3>1, <1>8
    <3>3. g[k] # v + Size - 1 /\ g[k] + 1 = g[k + 1]
      BY <3>2, <1>2, <1>3
    <3> QED BY <3>1, <3>3, <1>4, <1>8
  <2> QED BY <2>1, <2>2, <2>3, <1>6
<1>12. m.next[g[M - 1]] = g[0]
  <2>1. M - 1 \in n .. M - 1 /\ v + ((M - 1) - n) = v + Size - 1
    BY <1>2, <1>3
  <2>2. m.next[g[M - 1]] = l.tail.data
    BY <2>1, <1>4, <1>8
  <2>3. g[0] = r[0]
    BY <1>7
  <2> QED BY <2>2, <2>3
<1>13. ASSUME NEW k \in 1 .. M - 1 PROVE m.prev[g[k]] \in {g[k - 1], Ring!Past}
  <2>1. CASE k < n
    <3>1. k \in 1 .. N - 1 /\ k \in 0 .. n - 1 /\ k - 1 \in 0 .. n - 1 /\ k # 0
      BY <2>1, <1>1
    <3>2. m.prev[g[k]] = l.prev[r[k]]
      BY <3>1, <1>4, <1>7
    <3> QED BY <3>1, <3>2, <1>1, <1>7
  <2>2. CASE k = n
    <3>1. g[k] = v /\ k \in n .. M - 1 /\ n - 1 \in 0 .. n - 1
      BY <2>2, <1>8, <1>2, <1>3
    <3>2. m.prev[g[k]] = l.head.data
      BY <3>1, <1>4, <1>8
    <3> QED BY <2>2, <3>1, <3>2, <1>7
  <2>3. CASE k > n
    <3>1. k \in n .. M - 1 /\ k - 1 \in n .. M - 1
      BY <2>3, <1>6
    <3>2. g[k] = v + (k - n) /\ g[k - 1] = v + ((k - 1) - n)
      BY <3>1, <1>8
    <3>3. g[k] # v /\ g[k] - 1 = g[k - 1]
      BY <2>3, <3>2, <1>2, <1>6
    <3>4. m.prev[g[k]] = g[k] - 1
      BY <3>1, <3>3, <1>4, <1>8
    <3> QED BY <3>3, <3>4
  <2> QED BY <2>1, <2>2, <2>3, <1>6
<1>14. m.prev[g[0]] = Ring!Past
  BY <1>4, <1>7
<1>15. Looped(m, M, g)
  <2>1. Room(m) = v + Size
    <3>1. (l.blocks + 1) * Size = Size * (l.blocks + 1)
      BY <1>2, <1>3
    <3> QED BY <3>1, <1>2, <1>4 DEF Room
  <2>2. m.prev[g[0]] \in {g[M - 1], Ring!Past}
    BY <1>14
  <2>3. /\ M \in Nat /\ M >= 2 /\ M <= Room(m)
        /\ 0 .. v + Size - 1 = 0 .. Room(m) - 1
    BY <2>1, <1>2, <1>3, <1>6
  <2> HIDE DEF M
  <2> QED BY <2>2, <2>3, <1>9, <1>10, <1>11, <1>12, <1>13, Zenon DEF Looped
<1>16. g[n] = v
  <2>1. n \in n .. M - 1 /\ v + (n - n) = v
    BY <1>2, <1>3
  <2> QED BY <2>1, <1>8
<1>17. ASSUME NEW i, NEW p \in 0 .. n - 1, i.data = r[p] PROVE Stands(m, M, g, i, p)
  <2>1. p + 2 <= M
    BY <1>3
  <2>2. CutAfter(m, M, g, p)
    BY <2>1, <1>14 DEF CutAfter
  <2> QED BY <2>2, <1>7, <1>17 DEF Stands
<1> QED BY <1>7, <1>15, <1>16, <1>17 DEF g, M

\* The recursive functions Ahead and Behind are defined with are there.
WalkUpTo(d, s, n) == \E f : f = [k \in 0 .. n |-> IF k = 0 THEN d ELSE s[f[k - 1]]]

LEMMA WalkExists ==
  ASSUME NEW d, NEW s, NEW n \in Nat
  PROVE WalkUpTo(d, s, n)
<1> DEFINE T == {m \in Nat : WalkUpTo(d, s, m)}
<1>1. 0 \in T
  <2> DEFINE f == [k \in 0 .. 0 |-> d]
  <2>1. f = [k \in 0 .. 0 |-> IF k = 0 THEN d ELSE s[f[k - 1]]]
    OBVIOUS
  <2> QED BY <2>1 DEF WalkUpTo
<1>2. ASSUME NEW m \in 1 .. n, m - 1 \in T PROVE m \in T
  <2>1. PICK f : f = [k \in 0 .. m - 1 |-> IF k = 0 THEN d ELSE s[f[k - 1]]]
    BY <1>2 DEF WalkUpTo
  <2> DEFINE g == [k \in 0 .. m |-> IF k = m THEN s[f[m - 1]] ELSE f[k]]
  <2>2. ASSUME NEW k \in 0 .. m PROVE g[k] = IF k = 0 THEN d ELSE s[g[k - 1]]
    <3>1. CASE k = 0
      BY <2>1, <3>1
    <3>2. CASE k = m
      <4>1. g[k] = s[f[m - 1]] /\ k - 1 \in 0 .. m /\ k - 1 # m /\ k # 0
        BY <3>2
      <4> QED BY <3>2, <4>1
    <3>3. CASE k # 0 /\ k # m
      <4>1. k \in 0 .. m - 1 /\ k - 1 \in 0 .. m /\ k - 1 # m
        BY <3>3
      <4>2. g[k] = f[k] /\ g[k - 1] = f[k - 1]
        BY <3>3, <4>1
      <4> QED BY <2>1, <3>3, <4>1, <4>2
    <3> QED BY <3>1, <3>2, <3>3
  <2>3. g = [k \in 0 .. m |-> IF k = 0 THEN d ELSE s[g[k - 1]]]
    BY <2>2
  <2> HIDE DEF g
  <2>4. WalkUpTo(d, s, m)
    BY <2>3, Zenon DEF WalkUpTo
  <2> QED BY <2>4
<1> HIDE DEF T
<1>3. n \in T
  BY <1>1, <1>2, UpTo
<1> QED BY <1>3 DEF T

\* Ahead goes round the ring.
LEMMA AheadIs ==
  ASSUME NEW l, l.blocks \in 1 .. MaxBlocks, NEW N, NEW r, Looped(l, N, r), l.tail.data = r[0],
         NEW a, a = Ring!Ahead(l)
  PROVE /\ \A k \in 0 .. N - 1 : a[k] = r[k]
        /\ DOMAIN a = 0 .. Size * MaxBlocks
        /\ \A k \in DOMAIN a : \E j \in 0 .. N - 1 : a[k] = r[j]
<1> DEFINE W == Size * MaxBlocks
<1>1. /\ N \in Nat /\ N >= 2 /\ N <= W
      /\ \A k \in 0 .. N - 2 : l.next[r[k]] = r[k + 1]
      /\ l.next[r[N - 1]] = r[0]
  BY BlockRoom DEF Looped, Room
<1>2. W \in Nat
  BY BlockRoom
<1> HIDE DEF W
<1>3. a = [k \in 0 .. W |-> IF k = 0 THEN l.tail.data ELSE l.next[a[k - 1]]]
  <2> DEFINE f == CHOOSE h : h = [k \in 0 .. W |-> IF k = 0 THEN l.tail.data ELSE l.next[h[k - 1]]]
  <2>1. \E h : h = [k \in 0 .. W |-> IF k = 0 THEN l.tail.data ELSE l.next[h[k - 1]]]
    <3>1. WalkUpTo(l.tail.data, l.next, W)
      BY <1>2, WalkExists
    <3> QED BY <3>1, Zenon DEF WalkUpTo
  <2>2. f = [k \in 0 .. W |-> IF k = 0 THEN l.tail.data ELSE l.next[f[k - 1]]]
    BY <2>1, Zenon
  <2>3. a = f
    BY Zenon DEF Ring!Ahead, W
  <2> HIDE DEF f
  <2> QED BY <2>2, <2>3
<1>4. DOMAIN a = 0 .. W /\ a[0] = r[0] /\ \A k \in 1 .. W : a[k] = l.next[a[k - 1]]
  <2>1. DOMAIN a = 0 .. W
    BY <1>3, Zenon
  <2>2. \A k \in 0 .. W : a[k] = IF k = 0 THEN l.tail.data ELSE l.next[a[k - 1]]
    BY <1>3, Zenon
  <2>3. \A k \in 1 .. W : k \in 0 .. W /\ k # 0
    BY <1>2
  <2> QED BY <2>1, <2>2, <2>3, <1>2
<1> DEFINE S == {k \in 0 .. W : \E j \in 0 .. N - 1 : a[k] = r[j]}
           R == {k \in 0 .. N - 1 : a[k] = r[k]}
<1>5. ASSUME NEW k \in 1 .. W, k - 1 \in S PROVE k \in S
  <2>1. PICK j \in 0 .. N - 1 : a[k - 1] = r[j]
    BY <1>5
  <2>2. CASE j = N - 1
    <3>1. a[k] = r[0] /\ 0 \in 0 .. N - 1
      BY <2>1, <2>2, <1>1, <1>4
    <3> QED BY <3>1
  <2>3. CASE j < N - 1
    <3>1. a[k] = r[j + 1] /\ j + 1 \in 0 .. N - 1
      BY <2>1, <2>3, <1>1, <1>4
    <3> QED BY <3>1
  <2> QED BY <2>2, <2>3, <1>1
<1>6. 0 \in S /\ 0 \in R
  BY <1>1, <1>2, <1>4
<1>7. ASSUME NEW k \in 1 .. N - 1, k - 1 \in R PROVE k \in R
  <2>1. k \in 1 .. W /\ k - 1 \in 0 .. N - 2 /\ (k - 1) + 1 = k
    BY <1>1, <1>2
  <2> QED BY <2>1, <1>7, <1>1, <1>4
<1>8. N - 1 \in Nat
  BY <1>1
<1> HIDE DEF S, R
<1>9. \A k \in 0 .. W : k \in S
  BY <1>2, <1>5, <1>6, UpTo
<1>10. \A k \in 0 .. N - 1 : k \in R
  BY <1>8, <1>6, <1>7, UpTo
<1> QED BY <1>4, <1>9, <1>10 DEF S, R, W

\* Behind follows the ring back, until it steps past a block.
LEMMA BehindIs ==
  ASSUME NEW l \in TapRecord, NEW N, NEW r, Looped(l, N, r), l.num \in 1 .. N, l.head.data = r[l.num - 1],
         NEW b, b = Ring!Behind(l), NEW n \in 0 .. l.num - 1
  PROVE b[n] = r[l.num - 1 - n] \/ b[n] = Ring!Past
<1> DEFINE W == l.num
           D == Ring!Cell \cup {Ring!Past}
           s == [c \in D |-> IF c = Ring!Past THEN Ring!Past ELSE l.prev[c]]
<1>1. /\ l.prev \in [Ring!Cell -> D] /\ l.head.data \in D
  BY DEF TapRecord, TapIter
<1>2. W \in Nat /\ N \in Nat /\ \A k \in 1 .. N - 1 : l.prev[r[k]] \in {r[k - 1], Ring!Past}
  BY DEF Looped
<1> HIDE DEF W
<1>3. \E f : f = [k \in 0 .. W |-> IF k = 0 THEN l.head.data ELSE IF f[k - 1] = Ring!Past THEN Ring!Past ELSE l.prev[f[k - 1]]]
  <2>1. PICK f : f = [k \in 0 .. W |-> IF k = 0 THEN l.head.data ELSE s[f[k - 1]]]
    <3> HIDE DEF s
    <3>1. WalkUpTo(l.head.data, s, W)
      BY <1>2, WalkExists
    <3> QED BY <3>1, Zenon DEF WalkUpTo
  <2> DEFINE S == {k \in 0 .. W : f[k] \in D}
  <2>2. \A c \in D : s[c] \in D
    BY <1>1
  <2> HIDE DEF s, D
  <2>3. 0 \in S
    BY <2>1, <1>1, <1>2
  <2>4. ASSUME NEW k \in 1 .. W, k - 1 \in S PROVE k \in S
    BY <2>1, <2>2, <2>4, <1>2
  <2> HIDE DEF S
  <2>5. \A k \in 0 .. W : k \in S
    BY <2>3, <2>4, <1>2, UpTo
  <2>6. \A k \in 1 .. W : f[k - 1] \in D
    <3>1. ASSUME NEW k \in 1 .. W PROVE f[k - 1] \in D
      <4>1. k - 1 \in 0 .. W
        BY <1>2
      <4> QED BY <4>1, <2>5 DEF S
    <3> QED BY <3>1
  <2>7. \A k \in 1 .. W : s[f[k - 1]] = IF f[k - 1] = Ring!Past THEN Ring!Past ELSE l.prev[f[k - 1]]
    BY <2>6 DEF s
  <2>8. \A k \in 0 .. W : k = 0 \/ k \in 1 .. W
    BY <1>2
  <2>9. f = [k \in 0 .. W |-> IF k = 0 THEN l.head.data ELSE IF f[k - 1] = Ring!Past THEN Ring!Past ELSE l.prev[f[k - 1]]]
    BY <2>1, <2>7, <2>8
  <2> QED BY <2>9
<1> DEFINE g == CHOOSE f : f = [k \in 0 .. W |-> IF k = 0 THEN l.head.data ELSE IF f[k - 1] = Ring!Past THEN Ring!Past ELSE l.prev[f[k - 1]]]
<1>4. g = [k \in 0 .. W |-> IF k = 0 THEN l.head.data ELSE IF g[k - 1] = Ring!Past THEN Ring!Past ELSE l.prev[g[k - 1]]]
  BY <1>3, Zenon
<1>5. b = g
  BY Zenon DEF Ring!Behind, W
<1> HIDE DEF g
<1>6. b[0] = l.head.data /\ \A k \in 1 .. W : b[k] = IF b[k - 1] = Ring!Past THEN Ring!Past ELSE l.prev[b[k - 1]]
  <2>1. 0 \in 0 .. W /\ \A k \in 1 .. W : k \in 0 .. W /\ k # 0
    BY <1>2
  <2>2. \A k \in 0 .. W : g[k] = IF k = 0 THEN l.head.data ELSE IF g[k - 1] = Ring!Past THEN Ring!Past ELSE l.prev[g[k - 1]]
    BY <1>4, Zenon
  <2> QED BY <2>1, <2>2, <1>5
<1> DEFINE S == {k \in 0 .. W - 1 : b[k] = r[W - 1 - k] \/ b[k] = Ring!Past}
<1>7. W \in 1 .. N /\ l.head.data = r[W - 1] /\ n \in 0 .. W - 1
  BY DEF W
<1>8. 0 \in S
  BY <1>6, <1>7, <1>2
<1>9. ASSUME NEW k \in 1 .. W - 1, k - 1 \in S PROVE k \in S
  <2>1. k \in 1 .. W /\ W - 1 - (k - 1) = W - k /\ W - k \in 1 .. N - 1 /\ (W - k) - 1 = W - 1 - k
    BY <1>2, <1>7
  <2>2. CASE b[k - 1] = Ring!Past
    BY <2>1, <2>2, <1>6
  <2>3. CASE b[k - 1] # Ring!Past
    <3>1. b[k - 1] = r[W - k]
      BY <2>1, <2>3, <1>9
    <3>2. b[k] = l.prev[r[W - k]]
      BY <2>1, <2>3, <3>1, <1>6
    <3>3. l.prev[r[W - k]] \in {r[(W - k) - 1], Ring!Past}
      BY <2>1, <1>2
    <3> QED BY <2>1, <3>2, <3>3
  <2> QED BY <2>2, <2>3
<1> HIDE DEF S
<1>10. \A k \in 0 .. W - 1 : k \in S
  <2>1. W - 1 \in Nat
    BY <1>2, <1>7
  <2> QED BY <2>1, <1>8, <1>9, UpTo
<1> QED BY <1>7, <1>10 DEF S, W

\* What changes when no block is linked in.
Changed(l, h, t, n, w) ==
  [next |-> l.next, prev |-> l.prev, val |-> w, blocks |-> l.blocks, num |-> n, stolen |-> l.stolen,
   head |-> h, tail |-> t]

LEMMA ChangedRecord ==
  ASSUME NEW l \in TapRecord, NEW h \in TapIter, NEW t \in TapIter, NEW n \in Nat,
         NEW w \in [Ring!Cell -> Value \cup {0}]
  PROVE Changed(l, h, t, n, w) \in TapRecord
  BY DEF Changed, TapRecord

LEMMA RecordFields ==
  ASSUME NEW l \in TapRecord
  PROVE /\ l = [next |-> l.next, prev |-> l.prev, val |-> l.val, blocks |-> l.blocks, num |-> l.num,
                stolen |-> l.stolen, head |-> l.head, tail |-> l.tail]
        /\ l.head \in TapIter /\ l.tail \in TapIter /\ l.num \in Nat /\ l.blocks \in 1 .. MaxBlocks
        /\ l.val \in [Ring!Cell -> Value \cup {0}]
        /\ l.next \in [Ring!Cell -> Ring!Cell] /\ l.prev \in [Ring!Cell -> Ring!Cell \cup {Ring!Past}]
        /\ l.head.data \in Ring!Cell /\ l.tail.data \in Ring!Cell /\ l.stolen \in BOOLEAN
  BY DEF TapRecord, TapIter

\* The pointers of the cells are all a ring depends on.
LEMMA SameLoop ==
  ASSUME NEW l, NEW m, m.next = l.next, m.prev = l.prev, m.blocks = l.blocks, NEW N, NEW r
  PROVE /\ Looped(l, N, r) => Looped(m, N, r)
        /\ \A i, p : Stands(l, N, r, i, p) => Stands(m, N, r, i, p)
<1>1. Room(m) = Room(l)
  BY DEF Room
<1> QED BY <1>1 DEF Looped, Stands, CutAfter

LEMMA RingCell ==
  ASSUME NEW l \in TapRecord, NEW N, NEW r, Looped(l, N, r), NEW k \in 0 .. N - 1
  PROVE r[k] \in Ring!Cell
<1>1. r[k] \in 0 .. Room(l) - 1
  BY DEF Looped
<1>2. Room(l) \in Nat /\ Room(l) <= Size * MaxBlocks /\ Size * MaxBlocks \in Nat
  BY RecordFields, BlockRoom DEF Room
<1> QED BY <1>1, <1>2 DEF Ring!Cell

\* An iterator that has just come to cell p.
LEMMA Fresh ==
  ASSUME NEW l \in TapRecord, NEW N, NEW r, Looped(l, N, r), NEW p \in 0 .. N - 1, NEW i, i = Ring!At(l, r[p])
  PROVE /\ i \in TapIter /\ i.data = r[p] /\ i.next = l.next[i.data] /\ i.prev = l.prev[i.data]
        /\ i.next # i.data /\ Stands(l, N, r, i, p) /\ i.data # Ring!Past /\ i.data \in Ring!Cell
<1>1. r[p] \in Ring!Cell
  BY RingCell
<1>2. i = [data |-> r[p], prev |-> l.prev[r[p]], next |-> l.next[r[p]]] /\ i \in TapIter /\ r[p] # Ring!Past
  BY <1>1, AtIter
<1>3. l.next[r[p]] # r[p]
  <2>1. /\ N \in Nat /\ N >= 2
        /\ \A a, b \in 0 .. N - 1 : r[a] = r[b] => a = b
        /\ \A k \in 0 .. N - 2 : l.next[r[k]] = r[k + 1]
        /\ l.next[r[N - 1]] = r[0]
    BY DEF Looped
  <2>2. CASE p = N - 1
    BY <2>1, <2>2
  <2>3. CASE p < N - 1
    <3>1. l.next[r[p]] = r[p + 1] /\ p + 1 \in 0 .. N - 1
      BY <2>1, <2>3
    <3>2. p # p + 1
      BY <2>1
    <3> QED BY <2>1, <3>1, <3>2
  <2> QED BY <2>1, <2>2, <2>3
<1> QED BY <1>1, <1>2, <1>3 DEF Stands

\* What the iterator takes for the cell before is that cell, unless the ring
\* was cut there since.
Backs(l, i) == i.prev = l.prev[i.data] \/ l.prev[i.data] = Ring!Past

\* The list l holds c in its first cells, from tail to head.
ListHolds(l, c, N, r) ==
  /\ Looped(l, N, r)
  /\ l.num <= N /\ l.tail.data = r[0] /\ l.head.data = r[IF l.num = 0 THEN 0 ELSE l.num - 1]
  /\ l.head.next = l.next[l.head.data] /\ l.tail.prev = l.prev[l.tail.data]
  /\ l.tail.next # l.tail.data /\ Stands(l, N, r, l.tail, 0)
  /\ l.num = Len(c) /\ \A k \in 1 .. l.num : l.val[r[k - 1]] = c[k]
  /\ Backs(l, l.head)

\* A list is full when its cells are the whole ring.
LEMMA FullIs ==
  ASSUME NEW l \in TapRecord, NEW c, NEW N, NEW r, ListHolds(l, c, N, r), l.num > 0
  PROVE Ring!Full(l) <=> l.num = N
<1>1. /\ N \in Nat /\ N >= 2 /\ l.num \in 1 .. N
      /\ \A a, b \in 0 .. N - 1 : r[a] = r[b] => a = b
      /\ \A k \in 0 .. N - 2 : l.next[r[k]] = r[k + 1]
      /\ l.next[r[N - 1]] = r[0]
  BY RecordFields DEF Looped, ListHolds
<1>2. l.head.next = l.next[r[l.num - 1]] /\ l.tail.data = r[0]
  BY DEF ListHolds
<1>3. CASE l.num = N
  BY <1>1, <1>2, <1>3 DEF Ring!Full
<1>4. CASE l.num < N
  <2>1. l.num - 1 \in 0 .. N - 2 /\ (l.num - 1) + 1 = l.num /\ l.num \in 0 .. N - 1 /\ 0 \in 0 .. N - 1 /\ l.num # 0
    BY <1>1, <1>4
  <2>2. l.head.next = r[l.num] /\ r[l.num] # r[0]
    BY <2>1, <1>1, <1>2
  <2> QED BY <2>2, <1>2, <1>4, <1>1 DEF Ring!Full
<1> QED BY <1>1, <1>3, <1>4

\* extend() changes the way back from a cell of the ring only for the first.
LEMMA ExtendPrev ==
  ASSUME NEW l \in TapRecord, l.blocks < MaxBlocks, NEW N, NEW r, Looped(l, N, r), NEW p \in 0 .. N - 1,
         NEW m, m = Ring!Extend(l)
  PROVE m.prev[r[p]] = IF r[p] = l.tail.data THEN Ring!Past ELSE l.prev[r[p]]
<1> DEFINE v == Room(l)
<1>1. r[p] \in Ring!Cell
  BY RingCell
<1>2. r[p] \in 0 .. v - 1
  BY DEF Looped
<1>3. v \in Nat
  BY RecordFields, BlockRoom DEF Room
<1> HIDE DEF v
<1>4. r[p] \notin v .. v + Size - 1
  BY <1>2, <1>3
<1>5. \A k \in Ring!Cell :
         m.prev[k] = IF k = l.tail.data THEN Ring!Past ELSE IF k \notin v .. v + Size - 1 THEN l.prev[k]
                     ELSE IF k = v THEN l.head.data ELSE k - 1
  BY ExtendIs DEF v
<1> QED BY <1>1, <1>4, <1>5

LEMMA ExtendBacks ==
  ASSUME NEW l \in TapRecord, l.blocks < MaxBlocks, NEW N, NEW r, Looped(l, N, r), NEW p \in 0 .. N - 1,
         NEW i, i.data = r[p], Backs(l, i), NEW m, m = Ring!Extend(l)
  PROVE Backs(m, i)
<1>1. m.prev[r[p]] = IF r[p] = l.tail.data THEN Ring!Past ELSE l.prev[r[p]]
  BY ExtendPrev
<1> QED BY <1>1 DEF Backs

\* extend() keeps what the list holds and every iterator on an element.
LEMMA ExtendHolds ==
  ASSUME NEW l \in TapRecord, l.blocks < MaxBlocks, NEW c, NEW N, NEW r, ListHolds(l, c, N, r), l.num > 0,
         NEW m, m = Ring!Extend(l), NEW g, g = Grown(r, l.num, Room(l))
  PROVE /\ ListHolds(m, c, l.num + Size, g) /\ m \in TapRecord
        /\ m.num = l.num /\ m.head.data = l.head.data /\ m.tail.data = l.tail.data
        /\ m.tail.prev = Ring!Past /\ m.head.next # m.tail.data
        /\ \A k \in 0 .. l.num - 1 : g[k] = r[k]
        /\ \A i, p : p \in 0 .. l.num - 1 /\ i.data = r[p] => Stands(m, l.num + Size, g, i, p)
<1> DEFINE v == Room(l)
           n == l.num
<1>1. /\ n \in 1 .. N /\ N \in Nat /\ l.tail.data = r[0] /\ l.head.data = r[n - 1]
      /\ n = Len(c) /\ \A k \in 1 .. n : l.val[r[k - 1]] = c[k]
      /\ l.tail.next # l.tail.data /\ Looped(l, N, r)
      /\ l.tail.data \in Ring!Cell /\ l.head.data \in Ring!Cell
  BY RecordFields DEF ListHolds, Looped
<1>2. /\ m \in TapRecord /\ m.num = n /\ m.val = l.val
      /\ m.head.data = l.head.data /\ m.head.next = v /\ m.head.prev = l.head.prev
      /\ m.tail.data = l.tail.data /\ m.tail.prev = Ring!Past /\ m.tail.next = l.tail.next
      /\ m.next[l.head.data] = v /\ m.prev[l.tail.data] = Ring!Past
  BY <1>1, ExtendIs
<1> HIDE DEF v, n
<1>3. /\ Looped(m, n + Size, g)
      /\ \A k \in 0 .. n - 1 : g[k] = r[k]
      /\ \A i, p : p \in 0 .. n - 1 /\ i.data = r[p] => Stands(m, n + Size, g, i, p)
  BY <1>1, ExtendLooped DEF v, n
<1>4. n \in Nat /\ n > 0 /\ n <= n + Size /\ 0 \in 0 .. n - 1 /\ n - 1 \in 0 .. n - 1
      /\ \A k \in 1 .. n : k - 1 \in 0 .. n - 1
  BY <1>1, TapAssumption
<1>5. Stands(m, n + Size, g, m.tail, 0)
  BY <1>1, <1>2, <1>3, <1>4
<1>6. v # l.tail.data
  <2>1. v \in Nat
    BY RecordFields, BlockRoom DEF Room, v
  <2>2. r[0] \in 0 .. v - 1
    <3>1. N \in Nat /\ N >= 2 /\ r \in [0 .. N - 1 -> 0 .. v - 1]
      BY <1>1 DEF Looped, v
    <3> QED BY <3>1
  <2> QED BY <2>1, <2>2, <1>1
<1>7. m.num <= n + Size /\ m.tail.data = g[0] /\ m.head.data = g[n - 1]
  BY <1>1, <1>2, <1>3, <1>4
<1>8. \A k \in 1 .. n : m.val[g[k - 1]] = c[k]
  BY <1>1, <1>2, <1>3, <1>4
<1>9. Backs(m, m.head)
  <2>1. n - 1 \in 0 .. N - 1 /\ m.head.data = r[n - 1] /\ Backs(l, l.head)
    BY <1>1, <1>2 DEF ListHolds
  <2>2. m.prev[r[n - 1]] = IF r[n - 1] = l.tail.data THEN Ring!Past ELSE l.prev[r[n - 1]]
    BY <1>1, <2>1, ExtendPrev
  <2> QED BY <1>1, <1>2, <2>1, <2>2 DEF Backs
<1>10. ListHolds(m, c, n + Size, g)
  BY <1>1, <1>2, <1>3, <1>4, <1>5, <1>7, <1>8, <1>9, SMTT(60) DEF ListHolds
<1> QED BY <1>2, <1>3, <1>6, <1>10 DEF n, v

\* What the head of a list that is not full is given lies after its end.
LEMMA AppendHolds ==
  ASSUME NEW l \in TapRecord, NEW c \in Seq(Value), NEW N, NEW r, ListHolds(l, c, N, r), l.num < N, NEW v \in Value,
         NEW h, h = IF l.num = 0 THEN l.head ELSE Ring!At(l, l.next[l.head.data]),
         NEW m, m = Changed(l, h, l.tail, l.num + 1, [l.val EXCEPT ![h.data] = v])
  PROVE ListHolds(m, Append(c, v), N, r) /\ m \in TapRecord /\ h.data # Ring!Past
<1>1. /\ N \in Nat /\ N >= 2 /\ l.num \in Nat /\ Looped(l, N, r)
      /\ \A a, b \in 0 .. N - 1 : r[a] = r[b] => a = b
      /\ \A k \in 0 .. N - 2 : l.next[r[k]] = r[k + 1]
      /\ l.tail.data = r[0] /\ l.head.data = r[IF l.num = 0 THEN 0 ELSE l.num - 1]
      /\ l.num = Len(c) /\ \A k \in 1 .. l.num : l.val[r[k - 1]] = c[k]
      /\ l.head.next = l.next[l.head.data] /\ Backs(l, l.head)
      /\ l.head \in TapIter /\ l.val \in [Ring!Cell -> Value \cup {0}] /\ l.tail \in TapIter
  BY RecordFields, Zenon DEF ListHolds, Looped
<1>2. l.num \in 0 .. N - 1
  BY <1>1
<1>3. h \in TapIter /\ h.data = r[l.num] /\ h.next = l.next[h.data] /\ Backs(l, h)
  <2>1. CASE l.num = 0
    BY <2>1, <1>1
  <2>2. CASE l.num > 0
    <3>1. l.num - 1 \in 0 .. N - 2 /\ (l.num - 1) + 1 = l.num
      BY <2>2, <1>1, <1>2
    <3>2. l.next[l.head.data] = r[l.num]
      BY <2>2, <3>1, <1>1
    <3>3. h = Ring!At(l, r[l.num])
      BY <2>2, <3>2
    <3> QED BY <3>3, <1>1, <1>2, Fresh DEF Backs
  <2> QED BY <2>1, <2>2, <1>1
<1>4. h.data \in Ring!Cell /\ h.data # Ring!Past
  <2>1. h.data \in Ring!Cell
    BY <1>1, <1>2, <1>3, RingCell
  <2> QED BY <2>1, TapAssumption DEF Ring!Cell, Ring!Past
<1> DEFINE w == [l.val EXCEPT ![h.data] = v]
<1>5. w \in [Ring!Cell -> Value \cup {0}]
  BY <1>1
<1>6. m \in TapRecord
  <2> HIDE DEF w
  <2>1. l.num + 1 \in Nat
    BY <1>1
  <2> QED BY <2>1, <1>1, <1>3, <1>5, ChangedRecord DEF w
<1>7. /\ m.next = l.next /\ m.prev = l.prev /\ m.blocks = l.blocks /\ m.num = l.num + 1
      /\ m.head = h /\ m.tail = l.tail /\ m.val = w
  BY SMTT(60) DEF Changed
<1>8. Looped(m, N, r) /\ Stands(m, N, r, m.tail, 0)
  <2>1. Looped(l, N, r) /\ Stands(l, N, r, l.tail, 0)
    BY SMTT(60) DEF ListHolds
  <2>2. m.next = l.next /\ m.prev = l.prev /\ m.blocks = l.blocks /\ m.tail = l.tail
    BY <1>7, SMTT(60)
  <2>3. Looped(m, N, r) /\ Stands(m, N, r, l.tail, 0)
    BY <2>1, <2>2, SameLoop, SMTT(30)
  <2> QED BY <2>2, <2>3, Zenon
<1>9. Len(Append(c, v)) = l.num + 1 /\ \A k \in 1 .. l.num + 1 : Append(c, v)[k] = IF k = l.num + 1 THEN v ELSE c[k]
  BY <1>1, SMTT(60)
<1>10. ASSUME NEW k \in 1 .. m.num PROVE m.val[r[k - 1]] = Append(c, v)[k]
  <2>1. k - 1 \in 0 .. N - 1 /\ k \in 1 .. l.num + 1
    BY <1>1, <1>2, <1>7
  <2>2. r[k - 1] \in Ring!Cell
    BY <2>1, <1>1, RingCell, SMTT(60)
  <2>3. CASE k = l.num + 1
    <3>1. r[k - 1] = h.data
      BY <2>3, <1>1, <1>3, SMTT(60)
    <3>2. m.val[r[k - 1]] = v
      BY <3>1, <2>2, <1>1, <1>7
    <3> QED BY <2>1, <2>3, <3>2, <1>9
  <2>4. CASE k # l.num + 1
    <3>1. r[k - 1] # h.data /\ k \in 1 .. l.num
      BY <2>1, <2>4, <1>1, <1>2, <1>3, SMTT(60)
    <3>2. m.val[r[k - 1]] = l.val[r[k - 1]]
      BY <3>1, <2>2, <1>1, <1>7, SMTT(60)
    <3> QED BY <2>1, <2>4, <3>1, <3>2, <1>1, <1>9
  <2> QED BY <2>3, <2>4
<1>11. m.num <= N /\ m.head.data = r[IF m.num = 0 THEN 0 ELSE m.num - 1] /\ m.num = Len(Append(c, v))
  <2>1. l.num + 1 <= N /\ l.num + 1 # 0 /\ (l.num + 1) - 1 = l.num
    BY <1>1, <1>2
  <2> QED BY <2>1, <1>3, <1>7, <1>9, ZenonT(60)
<1>12. /\ m.tail.data = r[0] /\ m.head.next = m.next[m.head.data] /\ m.tail.prev = m.prev[m.tail.data]
       /\ m.tail.next # m.tail.data
  BY <1>3, <1>7, ZenonT(60) DEF ListHolds
<1>13. Backs(m, m.head)
  BY <1>3, <1>7, Zenon DEF Backs
<1>14. ListHolds(m, Append(c, v), N, r)
  BY <1>8, <1>10, <1>11, <1>12, <1>13, Zenon DEF ListHolds
<1> QED BY <1>4, <1>6, <1>14, SMTT(60)

\* What the tail is given lies before the list, on the cell that prev leads to.
LEMMA PrependHolds ==
  ASSUME NEW l \in TapRecord, NEW c \in Seq(Value), NEW N, NEW r, ListHolds(l, c, N, r), l.num < N, l.num > 0,
         NEW v \in Value, l.prev[l.tail.data] # Ring!Past, NEW t, t = Ring!At(l, l.prev[l.tail.data]),
         NEW m, m = Changed(l, l.head, t, l.num + 1, [l.val EXCEPT ![t.data] = v])
  PROVE ListHolds(m, <<v>> \o c, N, Turned(N, r, N - 1)) /\ m \in TapRecord
<1> DEFINE g == Turned(N, r, N - 1)
           w == [l.val EXCEPT ![t.data] = v]
<1>1. /\ N \in Nat /\ N >= 2 /\ l.num \in Nat /\ Looped(l, N, r)
      /\ \A a, b \in 0 .. N - 1 : r[a] = r[b] => a = b
      /\ l.prev[r[0]] \in {r[N - 1], Ring!Past}
      /\ l.tail.data = r[0] /\ l.head.data = r[l.num - 1]
      /\ l.num = Len(c) /\ \A k \in 1 .. l.num : l.val[r[k - 1]] = c[k]
      /\ l.head.next = l.next[l.head.data] /\ Backs(l, l.head)
      /\ l.head \in TapIter /\ l.val \in [Ring!Cell -> Value \cup {0}] /\ l.tail \in TapIter
  BY RecordFields DEF ListHolds, Looped
<1>2. t = Ring!At(l, r[N - 1]) /\ N - 1 \in 0 .. N - 1 /\ l.num \in 1 .. N - 1
  BY <1>1
<1>3. /\ t \in TapIter /\ t.data = r[N - 1] /\ t.next = l.next[t.data] /\ t.prev = l.prev[t.data]
      /\ t.next # t.data /\ t.data \in Ring!Cell
  BY <1>1, <1>2, Fresh
<1>4. /\ m.next = l.next /\ m.prev = l.prev /\ m.blocks = l.blocks /\ m.num = l.num + 1
      /\ m.head = l.head /\ m.tail = t /\ m.val = w
  BY DEF Changed
<1>5. w \in [Ring!Cell -> Value \cup {0}]
  BY <1>1
<1>6. m \in TapRecord
  <2>1. l.num + 1 \in Nat
    BY <1>1
  <2> HIDE DEF w
  <2> QED BY <2>1, <1>1, <1>3, <1>5, ChangedRecord DEF w
<1>7. Looped(m, N, g)
  BY <1>1, <1>2, <1>4, TurnedJoined
<1>8. g[0] = r[N - 1] /\ \A k \in 1 .. N - 1 : g[k] = r[k - 1]
  <2>1. \A k \in 0 .. N - 1 : g[k] = IF k + (N - 1) < N THEN r[k + (N - 1)] ELSE r[k + (N - 1) - N]
    BY DEF Turned
  <2> HIDE DEF g
  <2>2. ASSUME NEW k \in 1 .. N - 1 PROVE g[k] = r[k - 1]
    <3>1. ~(k + (N - 1) < N) /\ k + (N - 1) - N = k - 1 /\ k \in 0 .. N - 1
      BY <1>1
    <3> QED BY <3>1, <2>1
  <2>3. g[0] = r[N - 1]
    BY <2>1, <1>1, SMTT(60)
  <2> QED BY <2>2, <2>3
<1> HIDE DEF g, w
<1>9. Stands(m, N, g, m.tail, 0) /\ m.tail.data = g[0]
  BY <1>3, <1>4, <1>8 DEF Stands
<1>10. /\ Len(<<v>> \o c) = l.num + 1 /\ (<<v>> \o c)[1] = v
       /\ \A k \in 2 .. l.num + 1 : (<<v>> \o c)[k] = c[k - 1]
  BY <1>1, SMTT(60)
<1>11. ASSUME NEW k \in 1 .. m.num PROVE m.val[g[k - 1]] = (<<v>> \o c)[k]
  <2>1. CASE k = 1
    <3>1. m.val[r[N - 1]] = v
      BY <1>1, <1>3, <1>4 DEF w
    <3>2. k - 1 = 0 /\ 0 \in 0 .. N - 1 /\ g[0] = r[N - 1]
      BY <2>1, <1>1, <1>8, SMTT(60)
    <3>3. m.val[g[k - 1]] = v
      BY <3>1, <3>2
    <3> QED BY <2>1, <3>3, <1>10
  <2>2. CASE k # 1
    <3>1. k \in 2 .. l.num + 1 /\ k - 1 \in 1 .. N - 1 /\ (k - 1) - 1 \in 0 .. N - 1 /\ k - 1 \in 1 .. l.num
          /\ (k - 1) - 1 # N - 1
      BY <2>2, <1>2, <1>4, <1>1
    <3>2. g[k - 1] = r[(k - 1) - 1] /\ r[(k - 1) - 1] # t.data
      BY <3>1, <1>1, <1>2, <1>3, <1>8
    <3>3. r[(k - 1) - 1] \in Ring!Cell
      BY <3>1, <1>1, RingCell
    <3>4. m.val[g[k - 1]] = l.val[r[(k - 1) - 1]]
      BY <3>2, <3>3, <1>1, <1>4, SMTT(60) DEF w
    <3> QED BY <3>1, <3>4, <1>1, <1>10
  <2> QED BY <2>1, <2>2
<1>12. m.num <= N /\ m.head.data = g[IF m.num = 0 THEN 0 ELSE m.num - 1] /\ m.num = Len(<<v>> \o c)
  <2>1. m.num - 1 = l.num /\ m.num # 0 /\ m.num <= N
    BY <1>1, <1>2, <1>4
  <2>2. g[l.num] = r[l.num - 1]
    BY <1>2, <1>8
  <2> QED BY <2>1, <2>2, <1>1, <1>4, <1>10
<1>13. /\ m.head.next = m.next[m.head.data] /\ m.tail.prev = m.prev[m.tail.data]
       /\ m.tail.next # m.tail.data /\ Backs(m, m.head)
  BY <1>1, <1>3, <1>4, ZenonT(60) DEF Backs
<1>14. ListHolds(m, <<v>> \o c, N, g)
  BY <1>7, <1>9, <1>11, <1>12, <1>13, Zenon DEF ListHolds
<1> QED BY <1>6, <1>14 DEF g

\* The first j elements go.
LEMMA DropHolds ==
  ASSUME NEW l \in TapRecord, NEW c \in Seq(Value), NEW N, NEW r, ListHolds(l, c, N, r),
         NEW j \in 1 .. l.num, j < N, NEW t, t = Ring!At(l, r[j]), NEW h, h = IF j = l.num THEN t ELSE l.head,
         NEW m, m = Changed(l, h, t, l.num - j, l.val)
  PROVE ListHolds(m, SubSeq(c, j + 1, Len(c)), N, Turned(N, r, j)) /\ m \in TapRecord
<1> DEFINE g == Turned(N, r, j)
           d == SubSeq(c, j + 1, Len(c))
<1>1. /\ N \in Nat /\ N >= 2 /\ l.num \in Nat /\ l.num <= N /\ Looped(l, N, r)
      /\ l.head.data = r[l.num - 1]
      /\ l.num = Len(c) /\ \A k \in 1 .. l.num : l.val[r[k - 1]] = c[k]
      /\ l.head.next = l.next[l.head.data] /\ Backs(l, l.head)
      /\ l.head \in TapIter /\ l.val \in [Ring!Cell -> Value \cup {0}]
  BY RecordFields DEF ListHolds, Looped
<1>2. j \in 0 .. N - 1 /\ j \in Nat /\ l.num - j \in Nat
  BY <1>1
<1>3. /\ t \in TapIter /\ t.data = r[j] /\ t.next = l.next[t.data] /\ t.prev = l.prev[t.data]
      /\ t.next # t.data
  BY <1>1, <1>2, Fresh
<1>4. /\ m.next = l.next /\ m.prev = l.prev /\ m.blocks = l.blocks /\ m.num = l.num - j
      /\ m.head = h /\ m.tail = t /\ m.val = l.val
  BY DEF Changed
<1>5. m \in TapRecord
  BY <1>1, <1>2, <1>3, ChangedRecord
<1>6. Looped(m, N, g)
  BY <1>1, <1>2, <1>4, TurnedJoined
<1>7. \A k \in 0 .. N - 1 : k + j < N => g[k] = r[k + j]
  BY DEF Turned
<1> HIDE DEF g, d
<1>8. g[0] = r[j]
  <2>1. 0 \in 0 .. N - 1 /\ 0 + j < N /\ 0 + j = j
    BY <1>1, <1>2
  <2> QED BY <2>1, <1>7
<1>9. Stands(m, N, g, m.tail, 0) /\ m.tail.data = g[0]
  BY <1>3, <1>4, <1>8 DEF Stands
<1>10. Len(d) = l.num - j /\ \A k \in 1 .. l.num - j : d[k] = c[k + j]
  BY <1>1, <1>2 DEF d
<1>11. ASSUME NEW k \in 1 .. m.num PROVE m.val[g[k - 1]] = d[k]
  <2>1. k - 1 \in 0 .. N - 1 /\ k - 1 + j < N /\ k + j \in 1 .. l.num /\ k - 1 + j = (k + j) - 1 /\ k \in 1 .. l.num - j
    <3>1. m.num = l.num - j /\ j \in 1 .. l.num /\ l.num \in Nat /\ l.num <= N /\ N \in Nat
      BY <1>1, <1>2, <1>4
    <3> QED BY <3>1
  <2>2. g[k - 1] = r[(k + j) - 1]
    BY <2>1, <1>7
  <2> QED BY <2>1, <2>2, <1>1, <1>4, <1>10
<1>12. m.num <= N /\ m.head.data = g[IF m.num = 0 THEN 0 ELSE m.num - 1] /\ m.num = Len(d)
  <2>1. CASE j = l.num
    BY <2>1, <1>1, <1>2, <1>3, <1>4, <1>8, <1>10
  <2>2. CASE j # l.num
    <3>1. m.num # 0 /\ m.num - 1 \in 0 .. N - 1 /\ m.num - 1 + j < N /\ m.num - 1 + j = l.num - 1 /\ m.num <= N
      <4>1. m.num \in Int /\ m.num = l.num - j /\ j \in 1 .. l.num /\ l.num \in Int /\ l.num <= N /\ N \in Int /\ j \in Int
        BY <1>1, <1>2, <1>4
      <4> QED BY <4>1, <2>2, SMTT(60)
    <3>2. g[m.num - 1] = r[l.num - 1]
      BY <3>1, <1>7
    <3> QED BY <2>2, <3>1, <3>2, <1>1, <1>4, <1>10
  <2> QED BY <2>1, <2>2
<1>13. /\ m.head.next = m.next[m.head.data] /\ m.tail.prev = m.prev[m.tail.data]
       /\ m.tail.next # m.tail.data /\ Backs(m, m.head)
  BY <1>1, <1>3, <1>4 DEF Backs
<1>14. ListHolds(m, d, N, g)
  BY <1>6, <1>9, <1>11, <1>12, <1>13, Zenon DEF ListHolds
<1> QED BY <1>5, <1>14 DEF g, d

\* The elements after cell p go.
LEMMA KeepHolds ==
  ASSUME NEW l \in TapRecord, NEW c \in Seq(Value), NEW N, NEW r, ListHolds(l, c, N, r),
         NEW p \in 0 .. l.num - 1, NEW h, h = IF p = l.num - 1 THEN l.head ELSE Ring!At(l, r[p]),
         NEW m, m = Changed(l, h, l.tail, p + 1, l.val)
  PROVE ListHolds(m, SubSeq(c, 1, p + 1), N, r) /\ m \in TapRecord
<1> DEFINE d == SubSeq(c, 1, p + 1)
<1>1. /\ N \in Nat /\ N >= 2 /\ l.num \in Nat /\ l.num <= N /\ Looped(l, N, r) /\ l.tail.data = r[0]
      /\ l.head.data = r[IF l.num = 0 THEN 0 ELSE l.num - 1]
      /\ l.num = Len(c) /\ \A k \in 1 .. l.num : l.val[r[k - 1]] = c[k]
      /\ l.head.next = l.next[l.head.data] /\ Backs(l, l.head) /\ Stands(l, N, r, l.tail, 0)
      /\ l.tail.prev = l.prev[l.tail.data] /\ l.tail.next # l.tail.data
      /\ l.head \in TapIter /\ l.tail \in TapIter /\ l.val \in [Ring!Cell -> Value \cup {0}]
  BY RecordFields DEF ListHolds, Looped
<1>2. p \in 0 .. N - 1 /\ p + 1 \in Nat /\ p + 1 \in 1 .. l.num /\ p + 1 <= N /\ (p + 1) - 1 = p /\ p + 1 # 0 /\ l.num # 0
  BY <1>1
<1>3. h \in TapIter /\ h.data = r[p] /\ h.next = l.next[h.data] /\ Backs(l, h)
  <2>1. CASE p = l.num - 1
    BY <2>1, <1>1, <1>2
  <2>2. CASE p # l.num - 1
    BY <2>2, <1>1, <1>2, Fresh DEF Backs
  <2> QED BY <2>1, <2>2
<1>4. /\ m.next = l.next /\ m.prev = l.prev /\ m.blocks = l.blocks /\ m.num = p + 1
      /\ m.head = h /\ m.tail = l.tail /\ m.val = l.val
  BY DEF Changed
<1>5. m \in TapRecord
  BY <1>1, <1>2, <1>3, ChangedRecord
<1>6. Looped(m, N, r) /\ Stands(m, N, r, m.tail, 0)
  BY <1>1, <1>4, SameLoop
<1>7. Len(d) = p + 1 /\ \A k \in 1 .. p + 1 : d[k] = c[k]
  BY <1>1, <1>2
<1> HIDE DEF d
<1>8. ASSUME NEW k \in 1 .. m.num PROVE m.val[r[k - 1]] = d[k]
  <2>1. k \in 1 .. p + 1
    BY <1>4
  <2>2. k \in 1 .. l.num
    BY <2>1, <1>1, <1>2
  <2> QED BY <2>1, <2>2, <1>1, <1>4, <1>7
<1>9. /\ m.num <= N /\ m.tail.data = r[0] /\ m.head.data = r[IF m.num = 0 THEN 0 ELSE m.num - 1]
      /\ m.head.next = m.next[m.head.data] /\ m.tail.prev = m.prev[m.tail.data] /\ m.tail.next # m.tail.data
      /\ m.num = Len(d)
  <2>1. m.head.data = r[p] /\ m.num = p + 1 /\ m.num # 0 /\ m.num - 1 = p
    BY <1>2, <1>3, <1>4, SMTT(60)
  <2> QED BY <2>1, <1>1, <1>2, <1>3, <1>4, <1>7
<1>10. Backs(m, m.head)
  BY <1>3, <1>4, Zenon DEF Backs
<1>11. ListHolds(m, d, N, r)
  BY <1>6, <1>8, <1>9, <1>10, Zenon DEF ListHolds
<1> QED BY <1>5, <1>11 DEF d

\* A list of one element whose element goes, the tail staying.
LEMMA LastHolds ==
  ASSUME NEW l \in TapRecord, NEW c \in Seq(Value), NEW N, NEW r, ListHolds(l, c, N, r), l.num = 1,
         NEW m, m = Changed(l, l.head, l.tail, 0, l.val)
  PROVE ListHolds(m, Tail(c), N, r) /\ m \in TapRecord
<1>1. /\ N \in Nat /\ N >= 2 /\ l.num <= N /\ Looped(l, N, r) /\ l.tail.data = r[0]
      /\ l.head.data = r[IF l.num = 0 THEN 0 ELSE l.num - 1]
      /\ l.num = Len(c)
      /\ l.head.next = l.next[l.head.data] /\ Backs(l, l.head) /\ Stands(l, N, r, l.tail, 0)
      /\ l.tail.prev = l.prev[l.tail.data] /\ l.tail.next # l.tail.data
      /\ l.head \in TapIter /\ l.tail \in TapIter /\ l.val \in [Ring!Cell -> Value \cup {0}]
  BY RecordFields DEF ListHolds, Looped
<1>2. /\ m.next = l.next /\ m.prev = l.prev /\ m.blocks = l.blocks /\ m.num = 0
      /\ m.head = l.head /\ m.tail = l.tail /\ m.val = l.val
  BY DEF Changed
<1>3. m \in TapRecord
  BY <1>1, ChangedRecord
<1>4. Looped(m, N, r) /\ Stands(m, N, r, m.tail, 0)
  BY <1>1, <1>2, SameLoop
<1>5. Len(Tail(c)) = 0 /\ m.head.data = r[0]
  <2>1. Len(c) = 1
    BY <1>1
  <2>2. Len(Tail(c)) = 0
    <3>1. c # <<>>
      BY <2>1
    <3> QED BY <2>1, <3>1, HeadTailProperties
  <2> QED BY <2>2, <1>1, <1>2
<1>6. ListHolds(m, Tail(c), N, r)
  <2>1. \A k \in 1 .. m.num : m.val[r[k - 1]] = Tail(c)[k]
    BY <1>2
  <2>2. /\ m.num <= N /\ m.tail.data = r[0] /\ m.head.data = r[IF m.num = 0 THEN 0 ELSE m.num - 1] /\ m.num = Len(Tail(c))
        /\ m.head.next = m.next[m.head.data] /\ m.tail.prev = m.prev[m.tail.data] /\ m.tail.next # m.tail.data
    BY <1>1, <1>2, <1>5
  <2>3. Backs(m, m.head)
    BY <1>1, <1>2 DEF Backs
  <2> QED BY <2>1, <2>2, <2>3, <1>4 DEF ListHolds
<1> QED BY <1>3, <1>6

\* An empty list goes to any cell of its ring.
LEMMA EmptyHolds ==
  ASSUME NEW l \in TapRecord, NEW N, NEW r, Looped(l, N, r), NEW j \in 0 .. N - 1,
         NEW t, t = Ring!At(l, r[j]), NEW m, m = Changed(l, t, t, 0, l.val)
  PROVE ListHolds(m, <<>>, N, Turned(N, r, j)) /\ m \in TapRecord
<1> DEFINE g == Turned(N, r, j)
<1>1. N \in Nat /\ N >= 2 /\ l.val \in [Ring!Cell -> Value \cup {0}]
  BY RecordFields DEF Looped
<1>2. /\ t \in TapIter /\ t.data = r[j] /\ t.next = l.next[t.data] /\ t.prev = l.prev[t.data] /\ t.next # t.data
  BY Fresh
<1>3. /\ m.next = l.next /\ m.prev = l.prev /\ m.blocks = l.blocks /\ m.num = 0
      /\ m.head = t /\ m.tail = t /\ m.val = l.val
  BY DEF Changed
<1>4. m \in TapRecord
  BY <1>1, <1>2, ChangedRecord
<1>5. Looped(m, N, g)
  BY <1>3, TurnedJoined
<1>6. g[0] = r[j]
  BY <1>1 DEF Turned
<1> HIDE DEF g
<1>7. Stands(m, N, g, m.tail, 0)
  BY <1>2, <1>3, <1>6 DEF Stands
<1>8. ListHolds(m, <<>>, N, g)
  <2>1. m.num = Len(<<>>) /\ \A k \in 1 .. m.num : m.val[g[k - 1]] = <<>>[k]
    BY <1>3
  <2>2. Backs(m, m.head)
    BY <1>2, <1>3 DEF Backs
  <2> QED BY <2>1, <2>2, <1>1, <1>2, <1>3, <1>5, <1>6, <1>7 DEF ListHolds
<1> QED BY <1>4, <1>8 DEF g

\* A block that is a ring of its own: the constructor's and steal's.
LEMMA RingFresh ==
  ASSUME NEW nx \in [Ring!Cell -> Ring!Cell], NEW pv \in [Ring!Cell -> Ring!Cell \cup {Ring!Past}],
         NEW w \in [Ring!Cell -> Value \cup {0}], NEW b \in 1 .. MaxBlocks, NEW o \in BOOLEAN, NEW hd, NEW tl,
         NEW m, m = Ring!Ring([next |-> nx, prev |-> pv, val |-> w, blocks |-> b, num |-> 0, stolen |-> o,
                               head |-> hd, tail |-> tl])
  PROVE /\ ListHolds(m, <<>>, Size, [k \in 0 .. Size - 1 |-> k]) /\ m \in TapRecord
        /\ m.head = Ring!At(m, 0)
<1> DEFINE l == [next |-> nx, prev |-> pv, val |-> w, blocks |-> b, num |-> 0, stolen |-> o, head |-> hd, tail |-> tl]
           nx2 == [c \in Ring!Cell |-> IF c \notin 0 .. 0 + Size - 1 THEN nx[c]
                                       ELSE IF c = 0 + Size - 1 THEN 0 ELSE c + 1]
           pv2 == [c \in Ring!Cell |-> IF c \notin 0 .. 0 + Size - 1 THEN pv[c]
                                       ELSE IF c = 0 THEN Size - 1 ELSE c - 1]
           p == [next |-> nx2, prev |-> pv2, val |-> w, blocks |-> b, num |-> 0, stolen |-> o, head |-> hd, tail |-> tl]
           t == [data |-> 0, prev |-> pv2[0], next |-> nx2[0]]
           e == [next |-> nx2, prev |-> pv2, val |-> w, blocks |-> b, num |-> 0, stolen |-> o, head |-> t, tail |-> t]
           r == [k \in 0 .. Size - 1 |-> k]
<1>1. /\ Size \in Nat /\ Size >= 2 /\ Size <= b * Size /\ b * Size <= Size * MaxBlocks
      /\ b * Size \in Nat /\ Size * MaxBlocks \in Nat
  BY TapAssumption, BlockRoom
<1>2. \A c : c \in Ring!Cell <=> c \in Int /\ 0 <= c /\ c < Size * MaxBlocks
  <2>1. \A c : c \in 0 .. Size * MaxBlocks - 1 <=> c \in Int /\ 0 <= c /\ c < Size * MaxBlocks
    BY <1>1
  <2> QED BY <2>1 DEF Ring!Cell
<1>3. \A k \in 0 .. Size - 1 : k \in Ring!Cell /\ k # Ring!Past
  BY <1>1, <1>2 DEF Ring!Past
<1>4. Ring!Prepared(l, Size - 1, 0, 0) = p
  <2>1. Ring!Prepared(l, Size - 1, 0, 0) = [l EXCEPT !.next = nx2, !.prev = pv2]
    BY DEF Ring!Prepared
  <2> HIDE DEF nx2, pv2
  <2> QED BY <2>1
<1>5. \A k \in 0 .. Size - 1 : /\ nx2[k] = IF k = Size - 1 THEN 0 ELSE k + 1
                               /\ pv2[k] = IF k = 0 THEN Size - 1 ELSE k - 1
  BY <1>1, <1>3
<1>6. nx2 \in [Ring!Cell -> Ring!Cell] /\ pv2 \in [Ring!Cell -> Ring!Cell \cup {Ring!Past}]
  <2>1. ASSUME NEW c \in Ring!Cell PROVE nx2[c] \in Ring!Cell /\ pv2[c] \in Ring!Cell \cup {Ring!Past}
    <3>1. CASE c \notin 0 .. 0 + Size - 1
      BY <3>1
    <3>2. CASE c \in 0 .. 0 + Size - 1
      <4>1. c \in 0 .. Size - 1
        BY <3>2, <1>1
      <4>2. (IF c = Size - 1 THEN 0 ELSE c + 1) \in 0 .. Size - 1 /\ (IF c = 0 THEN Size - 1 ELSE c - 1) \in 0 .. Size - 1
        BY <4>1, <1>1
      <4> HIDE DEF nx2, pv2
      <4> QED BY <4>1, <4>2, <1>3, <1>5
    <3> QED BY <3>1, <3>2
  <2> QED BY <2>1
<1> HIDE DEF nx2, pv2
<1>7. 0 \in Ring!Cell /\ 0 # Ring!Past /\ 0 \in 0 .. Size - 1
  BY <1>1, <1>3
<1>8. m = e
  <2>1. Ring!At(p, 0) = t
    BY <1>7 DEF Ring!At
  <2>2. m = [p EXCEPT !.head = Ring!At(p, 0), !.tail = Ring!At(p, 0)]
    <3> HIDE DEF p
    <3> QED BY <1>4, Zenon DEF Ring!Ring
  <2>3. m = [p EXCEPT !.head = t, !.tail = t]
    BY <2>1, <2>2, Zenon
  <2> HIDE DEF t
  <2> QED BY <2>3
<1>9. /\ m.next = nx2 /\ m.prev = pv2 /\ m.val = w /\ m.blocks = b /\ m.num = 0 /\ m.head = t /\ m.tail = t
  BY <1>8
<1>10. t.data = 0 /\ t.prev = Size - 1 /\ t.next = 1 /\ t \in TapIter
  <2>1. Size - 1 \in 0 .. Size - 1 /\ 1 \in 0 .. Size - 1
    BY <1>1
  <2>2. pv2[0] = Size - 1 /\ nx2[0] = 1
    BY <1>1, <1>5, <1>7
  <2> QED BY <2>1, <2>2, <1>3, <1>7 DEF TapIter
<1>11. m \in TapRecord
  <2> HIDE DEF t
  <2> QED BY <1>6, <1>8, <1>10 DEF TapRecord
<1>12. m.head = Ring!At(m, 0)
  BY <1>7, <1>8, <1>9 DEF Ring!At
<1>13. \A k \in 0 .. Size - 1 : r[k] = k
  OBVIOUS
<1> HIDE DEF e, t, r
<1>14. Looped(m, Size, r)
  <2>1. Room(m) \in Nat /\ Size <= Room(m)
    BY <1>1, <1>9 DEF Room
  <2>2. r \in [0 .. Size - 1 -> 0 .. Room(m) - 1]
    <3>1. \A k \in 0 .. Size - 1 : k \in 0 .. Room(m) - 1
      BY <2>1, <1>1
    <3> QED BY <3>1 DEF r
  <2>3. \A i, j \in 0 .. Size - 1 : r[i] = r[j] => i = j
    BY <1>13
  <2>4. \A k \in 0 .. Size - 2 : m.next[r[k]] = r[k + 1]
    BY <1>1, <1>5, <1>9, <1>13
  <2>5. m.next[r[Size - 1]] = r[0]
    BY <1>1, <1>5, <1>9, <1>13
  <2>6. \A k \in 1 .. Size - 1 : m.prev[r[k]] \in {r[k - 1], Ring!Past}
    BY <1>1, <1>5, <1>9, <1>13
  <2>7. m.prev[r[0]] \in {r[Size - 1], Ring!Past}
    BY <1>1, <1>5, <1>9, <1>13
  <2> QED BY <2>1, <2>2, <2>3, <2>4, <2>5, <2>6, <2>7, <1>1 DEF Looped
<1>15. Stands(m, Size, r, m.tail, 0)
  <2>1. m.tail.data = r[0] /\ m.tail.next = m.next[m.tail.data]
    BY <1>1, <1>5, <1>7, <1>9, <1>10, <1>13
  <2> QED BY <2>1 DEF Stands
<1>16. ListHolds(m, <<>>, Size, r)
  <2>1. m.num = Len(<<>>) /\ \A k \in 1 .. m.num : m.val[r[k - 1]] = <<>>[k]
    BY <1>9
  <2>2. /\ m.num <= Size /\ m.tail.data = r[0] /\ m.head.data = r[0]
        /\ m.head.next = m.next[m.head.data] /\ m.tail.prev = m.prev[m.tail.data] /\ m.tail.next # m.tail.data
    BY <1>1, <1>5, <1>7, <1>9, <1>10, <1>13
  <2>3. Backs(m, m.head)
    BY <1>1, <1>5, <1>7, <1>9, <1>10 DEF Backs
  <2> QED BY <2>1, <2>2, <2>3, <1>9, <1>14, <1>15 DEF ListHolds
<1> QED BY <1>11, <1>12, <1>16 DEF r

\* Iterator i is rend(): on the ring's last cell, which holds no element.
Before(l, N, r, i) ==
  l.num > 0 /\ l.num < N /\ l.prev[r[0]] = r[N - 1] /\ i = Ring!At(l, r[N - 1])

\* The list holds c on some ring, and an iterator i that the caller has is on
\* cell p of it, or before the first.
OnRing(l, c, i, p) ==
  \E N, r : /\ ListHolds(l, c, N, r)
            /\ p >= 0 => p < N /\ Stands(l, N, r, i, p) /\ Backs(l, i)
            /\ p = -1 => Before(l, N, r, i)

RingInv ==
  /\ list \in TapRecord /\ contents \in Seq(Value) /\ place \in -2 .. list.num
  /\ lost \in BOOLEAN /\ leaked \subseteq -1 .. MaxBlocks
  /\ ~lost => OnRing(list, contents, iter, place)

\* Records as push_back, push_front and the others leave them.
Written(l, c, v) == [l EXCEPT !.num = @ + 1, !.val[c] = v]

LEMMA WrittenIs ==
  ASSUME NEW l \in TapRecord, NEW c, NEW v
  PROVE Written(l, c, v) = Changed(l, l.head, l.tail, l.num + 1, [l.val EXCEPT ![c] = v])
<1>1. PICK nx, pv, vl, bl, nm, st, hd, tl :
         l = [next |-> nx, prev |-> pv, val |-> vl, blocks |-> bl, num |-> nm, stolen |-> st, head |-> hd, tail |-> tl]
  BY RecordFields
<1>2. /\ l.next = nx /\ l.prev = pv /\ l.val = vl /\ l.blocks = bl /\ l.num = nm /\ l.stolen = st
      /\ l.head = hd /\ l.tail = tl
  BY <1>1
<1> DEFINE w == [vl EXCEPT ![c] = v]
<1>4. l.val = vl /\ l.num = nm
  BY <1>1
<1>5. [l EXCEPT !.num = @ + 1, !.val[c] = v] = [l EXCEPT !.num = nm + 1, !.val = w]
  BY <1>4
<1> HIDE DEF w
<1>6. [l EXCEPT !.num = nm + 1, !.val = w]
      = [next |-> nx, prev |-> pv, val |-> w, blocks |-> bl, num |-> nm + 1, stolen |-> st, head |-> hd, tail |-> tl]
  <2>1. PICK q : q = [l EXCEPT !.num = nm + 1, !.val = w]
    OBVIOUS
  <2>2. q = [next |-> nx, prev |-> pv, val |-> w, blocks |-> bl, num |-> nm + 1, stolen |-> st, head |-> hd, tail |-> tl]
    BY <1>1, <2>1
  <2> QED BY <2>1, <2>2
<1> QED BY <1>2, <1>4, <1>5, <1>6 DEF Changed, Written, w

\* The records that the erase functions and clear leave.
Trimmed(l, h, t, n) == [l EXCEPT !.num = n, !.tail = t, !.head = h]
Emptied(l, h, t, n) == [l EXCEPT !.head = h, !.tail = t, !.num = n]
Cropped(l, h, n) == [l EXCEPT !.num = n, !.head = h]

LEMMA TrimmedIs ==
  ASSUME NEW l \in TapRecord, NEW h, NEW t, NEW n
  PROVE Trimmed(l, h, t, n) = Changed(l, h, t, n, l.val) /\ Emptied(l, h, t, n) = Changed(l, h, t, n, l.val)
<1>1. PICK nx, pv, vl, bl, nm, st, hd, tl :
         l = [next |-> nx, prev |-> pv, val |-> vl, blocks |-> bl, num |-> nm, stolen |-> st, head |-> hd, tail |-> tl]
  BY RecordFields
<1>2. /\ l.next = nx /\ l.prev = pv /\ l.val = vl /\ l.blocks = bl /\ l.num = nm /\ l.stolen = st
      /\ l.head = hd /\ l.tail = tl
  BY <1>1
<1>3. [l EXCEPT !.num = n, !.tail = t, !.head = h]
      = [next |-> nx, prev |-> pv, val |-> vl, blocks |-> bl, num |-> n, stolen |-> st, head |-> h, tail |-> t]
  <2>1. PICK q : q = [l EXCEPT !.num = n, !.tail = t, !.head = h]
    OBVIOUS
  <2>2. q = [next |-> nx, prev |-> pv, val |-> vl, blocks |-> bl, num |-> n, stolen |-> st, head |-> h, tail |-> t]
    BY <1>1, <2>1
  <2> QED BY <2>1, <2>2
<1>4. [l EXCEPT !.head = h, !.tail = t, !.num = n]
      = [next |-> nx, prev |-> pv, val |-> vl, blocks |-> bl, num |-> n, stolen |-> st, head |-> h, tail |-> t]
  <2>1. PICK q : q = [l EXCEPT !.head = h, !.tail = t, !.num = n]
    OBVIOUS
  <2>2. q = [next |-> nx, prev |-> pv, val |-> vl, blocks |-> bl, num |-> n, stolen |-> st, head |-> h, tail |-> t]
    BY <1>1, <2>1
  <2> QED BY <2>1, <2>2
<1> QED BY <1>2, <1>3, <1>4 DEF Changed, Trimmed, Emptied

LEMMA CroppedIs ==
  ASSUME NEW l \in TapRecord, NEW h, NEW n
  PROVE Cropped(l, h, n) = Changed(l, h, l.tail, n, l.val)
<1>1. PICK nx, pv, vl, bl, nm, st, hd, tl :
         l = [next |-> nx, prev |-> pv, val |-> vl, blocks |-> bl, num |-> nm, stolen |-> st, head |-> hd, tail |-> tl]
  BY RecordFields
<1>2. /\ l.next = nx /\ l.prev = pv /\ l.val = vl /\ l.blocks = bl /\ l.num = nm /\ l.stolen = st
      /\ l.head = hd /\ l.tail = tl
  BY <1>1
<1>3. [l EXCEPT !.num = n, !.head = h]
      = [next |-> nx, prev |-> pv, val |-> vl, blocks |-> bl, num |-> n, stolen |-> st, head |-> h, tail |-> tl]
  <2>1. PICK q : q = [l EXCEPT !.num = n, !.head = h]
    OBVIOUS
  <2>2. q = [next |-> nx, prev |-> pv, val |-> vl, blocks |-> bl, num |-> n, stolen |-> st, head |-> h, tail |-> tl]
    BY <1>1, <2>1
  <2> QED BY <2>1, <2>2
<1> QED BY <1>2, <1>3 DEF Changed, Cropped

LEMMA Shortened ==
  ASSUME NEW l \in TapRecord, NEW h, NEW t, NEW n
  PROVE /\ [l EXCEPT !.num = n] = Changed(l, l.head, l.tail, n, l.val)
        /\ [l EXCEPT !.head = h] = Changed(l, h, l.tail, l.num, l.val)
        /\ [l EXCEPT !.tail = t] = Changed(l, l.head, t, l.num, l.val)
<1>1. PICK nx, pv, vl, bl, nm, st, hd, tl :
         l = [next |-> nx, prev |-> pv, val |-> vl, blocks |-> bl, num |-> nm, stolen |-> st, head |-> hd, tail |-> tl]
  BY RecordFields
<1>2. /\ l.next = nx /\ l.prev = pv /\ l.val = vl /\ l.blocks = bl /\ l.num = nm /\ l.stolen = st
      /\ l.head = hd /\ l.tail = tl
  BY <1>1
<1>3. [l EXCEPT !.num = n]
      = [next |-> nx, prev |-> pv, val |-> vl, blocks |-> bl, num |-> n, stolen |-> st, head |-> hd, tail |-> tl]
  <2>1. PICK q : q = [l EXCEPT !.num = n]
    OBVIOUS
  <2>2. q = [next |-> nx, prev |-> pv, val |-> vl, blocks |-> bl, num |-> n, stolen |-> st, head |-> hd, tail |-> tl]
    BY <1>1, <2>1
  <2> QED BY <2>1, <2>2
<1>4. [l EXCEPT !.head = h]
      = [next |-> nx, prev |-> pv, val |-> vl, blocks |-> bl, num |-> nm, stolen |-> st, head |-> h, tail |-> tl]
  BY <1>1
<1>5. [l EXCEPT !.tail = t]
      = [next |-> nx, prev |-> pv, val |-> vl, blocks |-> bl, num |-> nm, stolen |-> st, head |-> hd, tail |-> t]
  BY <1>1
<1> QED BY <1>2, <1>3, <1>4, <1>5 DEF Changed

LEMMA PutAtHead ==
  ASSUME NEW l \in TapRecord, NEW h \in TapIter, NEW v, NEW m, m = Changed(l, h, l.tail, l.num, l.val)
  PROVE /\ Written(m, h.data, v) = Changed(l, h, l.tail, l.num + 1, [l.val EXCEPT ![h.data] = v])
        /\ m.head = h
<1>1. m = Changed(l, h, l.tail, l.num, l.val)
  OBVIOUS
<1>2. m \in TapRecord
  <2>1. l.num \in Nat /\ l.val \in [Ring!Cell -> Value \cup {0}] /\ l.head \in TapIter /\ l.tail \in TapIter
    BY RecordFields
  <2>2. Changed(l, h, l.tail, l.num, l.val) \in TapRecord
    BY <2>1, ChangedRecord
  <2> QED BY <1>1, <2>2, Zenon
<1>3. /\ m.next = l.next /\ m.prev = l.prev /\ m.blocks = l.blocks /\ m.num = l.num /\ m.stolen = l.stolen
      /\ m.head = h /\ m.tail = l.tail /\ m.val = l.val
  BY <1>1 DEF Changed
<1>4. Written(m, h.data, v) = Changed(m, m.head, m.tail, m.num + 1, [m.val EXCEPT ![h.data] = v])
  BY <1>2, WrittenIs
<1>5. Changed(m, m.head, m.tail, m.num + 1, [m.val EXCEPT ![h.data] = v])
      = Changed(l, h, l.tail, l.num + 1, [l.val EXCEPT ![h.data] = v])
  BY <1>3, Zenon DEF Changed
<1> QED BY <1>3, <1>4, <1>5

LEMMA PutAtTail ==
  ASSUME NEW l \in TapRecord, NEW t \in TapIter, NEW v, NEW m, m = Changed(l, l.head, t, l.num, l.val)
  PROVE /\ Written(m, t.data, v) = Changed(l, l.head, t, l.num + 1, [l.val EXCEPT ![t.data] = v])
        /\ m.tail = t
<1>1. m = Changed(l, l.head, t, l.num, l.val)
  OBVIOUS
<1>2. m \in TapRecord
  <2>1. l.num \in Nat /\ l.val \in [Ring!Cell -> Value \cup {0}] /\ l.head \in TapIter /\ l.tail \in TapIter
    BY RecordFields
  <2>2. Changed(l, l.head, t, l.num, l.val) \in TapRecord
    BY <2>1, ChangedRecord
  <2> QED BY <1>1, <2>2, Zenon
<1>3. /\ m.next = l.next /\ m.prev = l.prev /\ m.blocks = l.blocks /\ m.num = l.num /\ m.stolen = l.stolen
      /\ m.head = l.head /\ m.tail = t /\ m.val = l.val
  BY <1>1 DEF Changed
<1>4. Written(m, t.data, v) = Changed(m, m.head, m.tail, m.num + 1, [m.val EXCEPT ![t.data] = v])
  BY <1>2, WrittenIs
<1>5. Changed(m, m.head, m.tail, m.num + 1, [m.val EXCEPT ![t.data] = v])
      = Changed(l, l.head, t, l.num + 1, [l.val EXCEPT ![t.data] = v])
  BY <1>3, Zenon DEF Changed
<1> QED BY <1>3, <1>4, <1>5

LEMMA PushBackStep ==
  ASSUME RingInv, NEW v \in Value, Ring!PushBack(v)
  PROVE RingInv'
<1>1. /\ list \in TapRecord /\ contents \in Seq(Value) /\ place \in -2 .. list.num
      /\ lost \in BOOLEAN /\ leaked \subseteq -1 .. MaxBlocks
      /\ ~lost /\ list.blocks < MaxBlocks /\ list.num \in Nat /\ list.head.data \in Ring!Cell
  BY RecordFields DEF RingInv, Ring!PushBack, Ring!Usable
<1>2. PICK N, r : /\ ListHolds(list, contents, N, r)
                  /\ place >= 0 => place < N /\ Stands(list, N, r, iter, place) /\ Backs(list, iter)
                  /\ place = -1 => Before(list, N, r, iter)
  BY <1>1 DEF RingInv, OnRing
<1> DEFINE e == IF list.num > 0 /\ Ring!Full(list) THEN Ring!Extend(list) ELSE list
           f == Ring!Forward(e, e.head)
           l == IF list.num > 0 THEN [f.list EXCEPT !.head = f.iter] ELSE list
           h == IF e.num = 0 THEN e.head ELSE Ring!At(e, e.next[e.head.data])
           m == Changed(e, h, e.tail, e.num + 1, [e.val EXCEPT ![h.data] = v])
<1>3. \E M, g : /\ e \in TapRecord /\ e.num = list.num /\ ListHolds(e, contents, M, g) /\ e.num < M
                /\ e.num > 0 => e.head.next # e.tail.data
                /\ place >= 0 => place < M /\ Stands(e, M, g, iter, place) /\ Backs(e, iter)
  <2>1. N \in Nat /\ N >= 2 /\ list.num <= N
    BY <1>2 DEF ListHolds, Looped
  <2>2. CASE list.num > 0 /\ Ring!Full(list)
    <3> DEFINE g == Grown(r, list.num, Room(list))
    <3>1. e = Ring!Extend(list) /\ list.num = N
      BY <1>1, <1>2, <2>2, FullIs
    <3>2. /\ ListHolds(e, contents, list.num + Size, g) /\ e \in TapRecord /\ e.num = list.num
          /\ e.head.next # e.tail.data
          /\ \A i, p : p \in 0 .. list.num - 1 /\ i.data = r[p] => Stands(e, list.num + Size, g, i, p)
      <4> HIDE DEF e, g
      <4>1. list \in TapRecord /\ list.blocks < MaxBlocks /\ ListHolds(list, contents, N, r) /\ list.num > 0
        BY <1>1, <1>2, <2>2
      <4>2. g = Grown(r, list.num, Room(list))
        BY DEF g
      <4> QED BY <4>1, <4>2, <3>1, ExtendHolds
    <3>3. place >= 0 => place \in 0 .. list.num - 1 /\ place \in 0 .. N - 1 /\ iter.data = r[place] /\ Backs(list, iter)
      BY <1>1, <1>2, <2>1, <3>1 DEF Stands
    <3>4. list.num < list.num + Size /\ (place >= 0 => place < list.num + Size)
      BY <1>1, <3>3, TapAssumption
    <3>5. place >= 0 => Backs(e, iter)
      <4>1. Looped(list, N, r)
        BY <1>2 DEF ListHolds
      <4> HIDE DEF e, g
      <4> QED BY <1>1, <3>1, <3>3, <4>1, ExtendBacks
    <3> HIDE DEF e, g
    <3> QED BY <3>2, <3>3, <3>4, <3>5
  <2>3. CASE list.num > 0 /\ ~Ring!Full(list)
    <3>1. list.num < N
      BY <1>1, <1>2, <2>1, <2>3, FullIs
    <3> QED BY <1>1, <1>2, <2>3, <3>1 DEF Ring!Full
  <2>4. CASE ~(list.num > 0)
    BY <1>1, <1>2, <2>1, <2>4
  <2> QED BY <2>2, <2>3, <2>4
<1> HIDE DEF e
<1>4. PICK M, g : /\ e \in TapRecord /\ e.num = list.num /\ ListHolds(e, contents, M, g) /\ e.num < M
                  /\ e.num > 0 => e.head.next # e.tail.data
                  /\ place >= 0 => place < M /\ Stands(e, M, g, iter, place) /\ Backs(e, iter)
  BY <1>3, SMTT(60)
<1>5. ListHolds(m, Append(contents, v), M, g) /\ m \in TapRecord /\ h.data # Ring!Past /\ h \in TapIter
  <2>1. ListHolds(m, Append(contents, v), M, g) /\ m \in TapRecord /\ h.data # Ring!Past
    BY <1>1, <1>4, AppendHolds
  <2>2. m.head \in TapIter /\ m.head = h
    BY <2>1, RecordFields DEF Changed
  <2> QED BY <2>1, <2>2
<1>6. list' = m /\ lost' = lost /\ leaked' = leaked
  <2>1. Ring!Put(l, l.head, v)
    BY DEF Ring!PushBack, e
  <2>2. CASE list.num > 0
    <3>1. f.list = e /\ f.iter = h
      BY <1>1, <1>4, <2>2 DEF Ring!Forward
    <3> HIDE DEF f, h, m
    <3>2. l = Changed(e, h, e.tail, e.num, e.val)
      <4>1. [e EXCEPT !.head = h] = Changed(e, h, e.tail, e.num, e.val)
        BY <1>4, Shortened
      <4> QED BY <2>2, <3>1, <4>1
    <3> HIDE DEF l
    <3>3. l.head = h /\ Written(l, h.data, v) = m
      <4>1. Written(l, h.data, v) = Changed(e, h, e.tail, e.num + 1, [e.val EXCEPT ![h.data] = v]) /\ l.head = h
        BY <3>2, <1>4, <1>5, PutAtHead
      <4> QED BY <4>1 DEF m
    <3> QED BY <2>1, <3>3, <1>5 DEF Ring!Put, Written
  <2>3. CASE ~(list.num > 0)
    <3>1. l = list /\ e = list /\ h = list.head
      BY <1>1, <2>3 DEF e
    <3>2. Written(list, list.head.data, v) = m
      <4>1. m = Changed(list, list.head, list.tail, list.num + 1, [list.val EXCEPT ![list.head.data] = v])
        BY <3>1, Zenon DEF m
      <4>2. Written(list, list.head.data, v) = Changed(list, list.head, list.tail, list.num + 1, [list.val EXCEPT ![list.head.data] = v])
        BY <1>1, WrittenIs
      <4> HIDE DEF m
      <4> QED BY <4>1, <4>2
    <3> HIDE DEF l, h, m
    <3> QED BY <2>1, <3>1, <3>2, <1>5 DEF Ring!Put, Written
  <2> QED BY <2>2, <2>3
<1>7. m.next = e.next /\ m.prev = e.prev /\ m.blocks = e.blocks /\ m.num = e.num + 1
  BY DEF Changed
<1> HIDE DEF m
<1>8. /\ contents' = Append(contents, v) /\ iter' = iter /\ place' = IF place = -1 THEN -2 ELSE place
  BY DEF Ring!PushBack, Ring!None, Ring!BeforeBegin
<1>9. place >= 0 => place < M /\ Stands(m, M, g, iter, place) /\ Backs(m, iter)
  BY <1>4, <1>7, SameLoop DEF Backs
<1>10. OnRing(m, Append(contents, v), iter, place')
  <2>1. (place' >= 0 => place >= 0 /\ place' = place) /\ place' # -1
    BY <1>1, <1>8
  <2> QED BY <1>5, <1>9, <2>1 DEF OnRing
<1>11. place' \in -2 .. m.num /\ Append(contents, v) \in Seq(Value)
  BY <1>1, <1>4, <1>7, <1>8
<1> QED BY <1>1, <1>5, <1>6, <1>8, <1>10, <1>11 DEF RingInv

LEMMA RingTypes ==
  ASSUME RingInv
  PROVE /\ list \in TapRecord /\ contents \in Seq(Value) /\ place \in -2 .. list.num
        /\ lost \in BOOLEAN /\ leaked \subseteq -1 .. MaxBlocks
        /\ list.num \in Nat /\ list.blocks \in 1 .. MaxBlocks
        /\ list.head \in TapIter /\ list.tail \in TapIter
        /\ list.head.data \in Ring!Cell /\ list.tail.data \in Ring!Cell
  BY RecordFields DEF RingInv

\* A step that loses the ring leaves the types.
LEMMA LostKeeps ==
  ASSUME RingInv, lost', list' = list, contents' \in Seq(Value), place' \in -2 .. list.num, lost' \in BOOLEAN, leaked' = leaked
  PROVE RingInv'
  BY DEF RingInv

LEMMA PushFrontStep ==
  ASSUME RingInv, NEW v \in Value, Ring!PushFront(v)
  PROVE RingInv'
<1>1. /\ list \in TapRecord /\ contents \in Seq(Value) /\ place \in -2 .. list.num
      /\ lost \in BOOLEAN /\ leaked \subseteq -1 .. MaxBlocks
      /\ ~lost /\ list.blocks < MaxBlocks /\ list.num \in Nat
      /\ list.tail.data \in Ring!Cell /\ list.head.data \in Ring!Cell
      /\ list.head \in TapIter /\ list.tail \in TapIter
  BY RingTypes DEF Ring!PushFront, Ring!Usable
<1>2. PICK N, r : /\ ListHolds(list, contents, N, r)
                  /\ place >= 0 => place < N /\ Stands(list, N, r, iter, place) /\ Backs(list, iter)
                  /\ place = -1 => Before(list, N, r, iter)
  BY <1>1 DEF RingInv, OnRing
<1>3. /\ N \in Nat /\ N >= 2 /\ list.num <= N /\ Looped(list, N, r)
      /\ \A a, b \in 0 .. N - 1 : r[a] = r[b] => a = b
      /\ list.prev[r[0]] \in {r[N - 1], Ring!Past}
      /\ list.tail.data = r[0] /\ list.tail.prev = list.prev[list.tail.data]
      /\ list.head.data = r[IF list.num = 0 THEN 0 ELSE list.num - 1]
      /\ list.num = Len(contents)
  BY <1>2 DEF ListHolds, Looped
<1>4. Ring!Past \notin Ring!Cell
  BY TapAssumption DEF Ring!Cell, Ring!Past
<1> DEFINE e == IF list.num > 0 /\ Ring!Full(list) THEN Ring!Extend(list) ELSE list
           b == Ring!Backward(e, e.tail)
           l == IF list.num > 0 THEN [b.list EXCEPT !.tail = b.iter] ELSE list
<1>5. /\ Ring!Put(l, l.tail, v) /\ contents' = <<v>> \o contents /\ iter' = iter
      /\ place' = IF place = list.num /\ place > 0 THEN -2
                  ELSE IF place \in -1 .. list.num - 1 THEN place + 1 ELSE place
  BY DEF Ring!PushFront, Ring!None, Ring!BeforeBegin
<1>6. contents' \in Seq(Value) /\ place' \in -2 .. list.num
  <2>1. place' \in -2 .. list.num
    BY <1>1, <1>5
  <2> QED BY <2>1, <1>1, <1>5
<1>7. CASE list.num = 0
  <2> DEFINE m == Changed(list, list.head, list.tail, list.num + 1, [list.val EXCEPT ![list.head.data] = v])
  <2>1. ListHolds(m, Append(contents, v), N, r) /\ m \in TapRecord
    BY <1>1, <1>2, <1>3, <1>7, AppendHolds
  <2>2. m.next = list.next /\ m.prev = list.prev /\ m.blocks = list.blocks /\ m.num = list.num + 1
    BY DEF Changed
  <2>3. Written(list, list.head.data, v) = m
    <3>1. Written(list, list.head.data, v)
          = Changed(list, list.head, list.tail, list.num + 1, [list.val EXCEPT ![list.head.data] = v])
      BY <1>1, WrittenIs
    <3> QED BY <3>1
  <2> HIDE DEF m
  <2>4. list.tail.data = list.head.data /\ list.tail.data # Ring!Past
    BY <1>1, <1>3, <1>4, <1>7
  <2>5. l = list
    BY <1>7
  <2>6. list' = m /\ lost' = lost /\ leaked' = leaked
    <3> HIDE DEF l
    <3> QED BY <1>5, <2>3, <2>4, <2>5 DEF Ring!Put, Written
  <2>7. contents' = Append(contents, v)
    <3>1. contents = <<>>
      <4>1. Len(contents) = 0
        BY <1>3, <1>7
      <4> QED BY <4>1, <1>1, EmptySeq
    <3> QED BY <3>1, <1>5
  <2>8. place' = place /\ place # -1
    <3>1. place # -1
      BY <1>2, <1>7 DEF Before
    <3> QED BY <3>1, <1>1, <1>5, <1>7
  <2>9. place >= 0 => place < N /\ Stands(m, N, r, iter, place) /\ Backs(m, iter)
    BY <1>2, <2>2, SameLoop DEF Backs
  <2>10. OnRing(m, Append(contents, v), iter, place)
    BY <2>1, <2>8, <2>9 DEF OnRing
  <2>11. place' \in -2 .. m.num
    BY <1>1, <2>2, <2>8
  <2> QED BY <1>1, <1>5, <1>6, <2>1, <2>6, <2>7, <2>8, <2>10, <2>11 DEF RingInv
<1>8. CASE list.num > 0 /\ Ring!Full(list)
  <2>1. e = Ring!Extend(list)
    BY <1>8
  <2>2. /\ e \in TapRecord /\ e.tail.prev = Ring!Past /\ e.head.data = list.head.data /\ e.tail.data = list.tail.data
    <3> HIDE DEF e
    <3> QED BY <1>1, <1>2, <1>8, <2>1, ExtendHolds
  <2>3. e.prev[e.tail.data] = Ring!Past
    <3>1. ListHolds(e, contents, list.num + Size, Grown(r, list.num, Room(list)))
      <4> HIDE DEF e
      <4> QED BY <1>1, <1>2, <1>8, <2>1, ExtendHolds
    <3> HIDE DEF e
    <3> QED BY <3>1, <2>2 DEF ListHolds
  <2> HIDE DEF e
  <2>4. b.list = e /\ b.iter = Ring!At(e, Ring!Past)
    BY <1>1, <1>4, <2>2, <2>3 DEF Ring!Backward
  <2>5. b.iter.data = Ring!Past
    BY <2>4 DEF Ring!At
  <2> HIDE DEF b
  <2>6. l.tail = b.iter
    <3>1. PICK q : q = [e EXCEPT !.tail = b.iter]
      OBVIOUS
    <3>2. q = Changed(e, e.head, b.iter, e.num, e.val)
      BY <3>1, <2>2, Shortened
    <3> QED BY <1>8, <2>4, <3>1, <3>2 DEF Changed
  <2> HIDE DEF l
  <2>7. lost' /\ list' = list /\ leaked' = leaked /\ lost' \in BOOLEAN
    BY <1>5, <2>5, <2>6 DEF Ring!Put
  <2> QED BY <1>6, <2>7, LostKeeps
<1>9. CASE list.num > 0 /\ ~Ring!Full(list)
  <2>1. e = list
    BY <1>9
  <2>2. list.num < N
    BY <1>1, <1>2, <1>3, <1>9, FullIs
  <2>3. list.tail.prev # list.head.data
    <3>1. list.num - 1 \in 0 .. N - 1 /\ N - 1 \in 0 .. N - 1 /\ list.num - 1 # N - 1 /\ list.num # 0
      BY <1>1, <1>3, <1>9, <2>2
    <3> QED BY <3>1, <1>1, <1>3, <1>4
  <2> HIDE DEF e
  <2> DEFINE t == Ring!At(list, list.prev[list.tail.data])
  <2>4. b.list = list /\ b.iter = t
    BY <2>1, <2>3 DEF Ring!Backward
  <2> HIDE DEF b
  <2>5. l = Changed(list, list.head, t, list.num, list.val)
    <3> HIDE DEF t
    <3>1. [list EXCEPT !.tail = t] = Changed(list, list.head, t, list.num, list.val)
      BY <1>1, Shortened
    <3> QED BY <1>9, <2>4, <3>1
  <2>6. CASE list.prev[list.tail.data] = Ring!Past
    <3>1. t.data = Ring!Past
      BY <2>6 DEF Ring!At
    <3> HIDE DEF t
    <3>2. l.tail = t
      BY <2>5 DEF Changed
    <3> HIDE DEF l
    <3>3. lost' /\ list' = list /\ leaked' = leaked /\ lost' \in BOOLEAN
      BY <1>5, <3>1, <3>2 DEF Ring!Put
    <3> QED BY <1>6, <3>3, LostKeeps
  <2>7. CASE list.prev[list.tail.data] # Ring!Past
    <3> DEFINE m == Changed(list, list.head, t, list.num + 1, [list.val EXCEPT ![t.data] = v])
               g == Turned(N, r, N - 1)
    <3>1. N - 1 \in 0 .. N - 1 /\ list.prev[list.tail.data] = r[N - 1]
      BY <1>3, <2>7
    <3>2. t \in TapIter /\ t.data # Ring!Past
      BY <3>1, <1>1, <1>3, Fresh
    <3>3. ListHolds(m, <<v>> \o contents, N, g) /\ m \in TapRecord
      BY <1>1, <1>2, <1>9, <2>2, <2>7, PrependHolds
    <3>4. m.next = list.next /\ m.prev = list.prev /\ m.blocks = list.blocks /\ m.num = list.num + 1
      BY DEF Changed
    <3>5. Written(l, t.data, v) = m /\ l.tail = t
      <4> HIDE DEF l, t, m, g
      <4>1. Written(l, t.data, v) = Changed(list, list.head, t, list.num + 1, [list.val EXCEPT ![t.data] = v]) /\ l.tail = t
        <5>1. list \in TapRecord /\ t \in TapIter
          BY <1>1, <3>2
        <5> QED BY <5>1, <2>5, PutAtTail
      <4> QED BY <4>1 DEF m
    <3> HIDE DEF l, m, t, g
    <3>6. list' = m /\ lost' = lost /\ leaked' = leaked
      BY <1>5, <3>2, <3>5 DEF Ring!Put, Written
    <3>7. (place' >= 0 => place \in -1 .. N - 2 /\ place' = place + 1) /\ place' # -1
      <4>1. CASE place = list.num
        BY <4>1, <1>5, <1>9
      <4>2. CASE place \in -1 .. list.num - 1
        <5>1. place' = place + 1
          BY <4>2, <1>1, <1>5
        <5> QED BY <4>2, <5>1, <1>1, <1>3, <2>2
      <4>3. CASE place = -2
        <5>1. place' = place
          BY <4>3, <1>1, <1>5
        <5> QED BY <4>3, <5>1
      <4> QED BY <4>1, <4>2, <4>3, <1>1
    <3>8. place' >= 0 => place' < N /\ Stands(m, N, g, iter, place') /\ Backs(m, iter)
      <4>1. ASSUME place' >= 0, place >= 0 PROVE place' < N /\ Stands(m, N, g, iter, place') /\ Backs(m, iter)
        <5>1. place \in 0 .. N - 2 /\ place' = place + 1 /\ place >= 0
          BY <4>1, <3>7
        <5>2. Stands(list, N, r, iter, place) /\ Backs(m, iter)
          BY <5>1, <1>2, <3>4 DEF Backs
        <5>3. Stands(m, N, g, iter, place + 1)
          BY <5>1, <5>2, <3>4, <1>3, <2>7, TurnedBack DEF g
        <5> QED BY <5>1, <5>2, <5>3, <1>3
      <4>2. ASSUME place' >= 0, place = -1 PROVE place' < N /\ Stands(m, N, g, iter, place') /\ Backs(m, iter)
        <5>1. place' = 0 /\ 0 < N
          BY <4>2, <3>7, <1>3
        <5>2. iter = Ring!At(list, r[N - 1])
          BY <4>2, <1>2 DEF Before
        <5>3. iter.data = r[N - 1] /\ iter.next = list.next[iter.data] /\ iter.prev = list.prev[iter.data]
          BY <5>2, <3>1, <1>1, <1>3, Fresh
        <5>4. g[0] = r[N - 1]
          <6>1. 0 \in 0 .. N - 1 /\ (0 + (N - 1) < N) /\ 0 + (N - 1) = N - 1
            BY <1>3
          <6> QED BY <6>1 DEF g, Turned
        <5> QED BY <5>1, <5>3, <5>4, <3>4 DEF Stands, Backs
      <4>3. place' >= 0 => place >= 0 \/ place = -1
        BY <3>7
      <4> QED BY <4>1, <4>2, <4>3
    <3>9. OnRing(m, <<v>> \o contents, iter, place')
      BY <3>3, <3>7, <3>8 DEF OnRing
    <3>10. place' \in -2 .. m.num
      BY <1>1, <1>6, <3>4
    <3> QED BY <1>1, <1>5, <1>6, <3>3, <3>6, <3>9, <3>10 DEF RingInv
  <2> QED BY <2>6, <2>7
<1> QED BY <1>1, <1>7, <1>8, <1>9

LEMMA PopFrontStep ==
  ASSUME RingInv, Ring!PopFront
  PROVE RingInv'
<1>1. /\ list \in TapRecord /\ contents \in Seq(Value) /\ place \in -2 .. list.num
      /\ lost \in BOOLEAN /\ leaked \subseteq -1 .. MaxBlocks
      /\ ~lost /\ list.num \in Nat /\ list.num > 0
  BY RingTypes DEF Ring!PopFront, Ring!Usable
<1>2. PICK N, r : /\ ListHolds(list, contents, N, r)
                  /\ place >= 0 => place < N /\ Stands(list, N, r, iter, place) /\ Backs(list, iter)
                  /\ place = -1 => Before(list, N, r, iter)
  BY <1>1 DEF RingInv, OnRing
<1>3. /\ N \in Nat /\ N >= 2 /\ list.num <= N /\ Looped(list, N, r)
      /\ \A a, b \in 0 .. N - 1 : r[a] = r[b] => a = b
      /\ \A k \in 0 .. N - 2 : list.next[r[k]] = r[k + 1]
      /\ list.tail.data = r[0] /\ list.tail.next # list.tail.data
      /\ list.head.data = r[IF list.num = 0 THEN 0 ELSE list.num - 1]
      /\ list.num = Len(contents)
  BY <1>2 DEF ListHolds, Looped
<1> DEFINE f == Ring!Forward(list, list.tail)
           l == IF list.tail.data # list.head.data THEN [f.list EXCEPT !.tail = f.iter] ELSE list
           t == Ring!At(list, list.next[list.tail.data])
<1>4. /\ list' = [l EXCEPT !.num = @ - 1] /\ contents' = Tail(contents) /\ iter' = iter /\ lost' = lost /\ leaked' = leaked
      /\ place' = IF list.num = 1 \/ place <= 0 THEN -2 ELSE place - 1
  BY DEF Ring!PopFront, Ring!None
<1>5. f.list = list /\ f.iter = t
  BY <1>3 DEF Ring!Forward
<1> HIDE DEF f
<1>6. Tail(contents) \in Seq(Value) /\ Tail(contents) = SubSeq(contents, 2, Len(contents))
  <2>1. contents # <<>>
    <3>1. Len(contents) > 0
      BY <1>1, <1>3
    <3> QED BY <3>1
  <2> QED BY <1>1, <2>1, HeadTailProperties, TailIsSubSeq
<1>7. CASE list.num = 1
  <2> DEFINE m == Changed(list, list.head, list.tail, 0, list.val)
  <2>1. ListHolds(m, Tail(contents), N, r) /\ m \in TapRecord
    BY <1>1, <1>2, <1>7, LastHolds
  <2>2. l = list
    BY <1>3, <1>7
  <2>3. list' = m
    <3> HIDE DEF l
    <3>1. list' = [list EXCEPT !.num = 0]
      BY <1>4, <1>7, <2>2
    <3>2. [list EXCEPT !.num = 0] = m
      BY <1>1, Shortened
    <3> QED BY <3>1, <3>2
  <2>4. place' = -2
    BY <1>4, <1>7
  <2>5. m.num = 0
    BY DEF Changed
  <2> HIDE DEF m, l, t
  <2>6. OnRing(m, Tail(contents), iter, place')
    <3>1. ~(place' >= 0) /\ place' # -1
      BY <2>4
    <3> QED BY <2>1, <3>1 DEF OnRing
  <2>7. place' \in -2 .. m.num
    BY <2>4, <2>5
  <2> QED BY <1>1, <1>4, <1>6, <2>1, <2>3, <2>6, <2>7 DEF RingInv
<1>8. CASE list.num # 1
  <2> DEFINE m == Changed(list, list.head, t, list.num - 1, list.val)
             g == Turned(N, r, 1)
  <2>1. 1 \in 1 .. list.num /\ 1 < N /\ 1 # list.num /\ 0 \in 0 .. N - 2 /\ 0 + 1 = 1 /\ 1 + 1 = 2
    BY <1>1, <1>3, <1>8
  <2>2. t = Ring!At(list, r[1])
    <3>1. list.next[r[0]] = r[1]
      BY <1>3, <2>1
    <3> QED BY <1>3, <3>1
  <2> HIDE DEF t
  <2>3. ListHolds(m, SubSeq(contents, 1 + 1, Len(contents)), N, g) /\ m \in TapRecord
    BY <1>1, <1>2, <2>1, <2>2, DropHolds
  <2>4. list.tail.data # list.head.data
    <3>1. list.num - 1 \in 0 .. N - 1 /\ 0 \in 0 .. N - 1 /\ list.num - 1 # 0 /\ list.num # 0
      BY <1>1, <1>3, <1>8
    <3> QED BY <3>1, <1>3
  <2>5. list' = m
    <3>1. l = [list EXCEPT !.tail = t]
      BY <1>5, <2>4
    <3> HIDE DEF l
    <3>2. l = Changed(list, list.head, t, list.num, list.val)
      <4>1. [list EXCEPT !.tail = t] = Changed(list, list.head, t, list.num, list.val)
        BY <1>1, Shortened
      <4> QED BY <3>1, <4>1
    <3>3. l \in TapRecord
      <4>1. t \in TapIter
        BY <1>1, <1>2, <1>3, <2>1, <2>2, Fresh
      <4> HIDE DEF m
      <4>2. Changed(list, list.head, t, list.num, list.val) \in TapRecord
        BY <1>1, <4>1, RecordFields, ChangedRecord
      <4> QED BY <3>2, <4>2
    <3>4. list' = Changed(l, l.head, l.tail, l.num - 1, l.val)
      <4>1. [l EXCEPT !.num = l.num - 1] = Changed(l, l.head, l.tail, l.num - 1, l.val)
        BY <3>3, Shortened
      <4> QED BY <1>4, <4>1
    <3>5. /\ l.next = list.next /\ l.prev = list.prev /\ l.blocks = list.blocks /\ l.num = list.num
          /\ l.stolen = list.stolen /\ l.head = list.head /\ l.tail = t /\ l.val = list.val
      BY <3>2 DEF Changed
    <3> QED BY <3>4, <3>5, Zenon DEF Changed
  <2>6. m.next = list.next /\ m.prev = list.prev /\ m.num = list.num - 1
    BY DEF Changed
  <2> HIDE DEF m, g
  <2>7. place' \in -2 .. m.num
    BY <1>1, <1>4, <1>8, <2>6
  <2>8. ASSUME place' >= 0 PROVE place' < N /\ Stands(m, N, g, iter, place') /\ Backs(m, iter)
    <3>1. place' = place - 1 /\ place \in 0 .. N - 1 /\ 1 \in 0 .. place /\ place >= 0
      BY <2>8, <1>1, <1>2, <1>3, <1>4, <1>8
    <3>2. Stands(list, N, r, iter, place) /\ Backs(m, iter)
      BY <3>1, <1>2, <2>6 DEF Backs
    <3>3. Stands(m, N, g, iter, place - 1)
      BY <3>1, <3>2, <1>3, <2>6, TurnedStands DEF g
    <3> QED BY <3>1, <3>2, <3>3, <1>3
  <2>9. OnRing(m, Tail(contents), iter, place')
    <3>1. place' # -1
      BY <1>1, <1>4, <1>8
    <3> QED BY <1>6, <2>1, <2>3, <2>8, <3>1 DEF OnRing
  <2> QED BY <1>1, <1>4, <1>6, <2>3, <2>5, <2>7, <2>9 DEF RingInv
<1> QED BY <1>7, <1>8

\* An iterator the caller takes is on the ring, or has left the blocks.
LEMMA TakeIterStep ==
  ASSUME RingInv, NEW l, NEW i, NEW p, Ring!TakeIter(l, i, p),
         i.data # Ring!Past => l \in TapRecord /\ p \in -2 .. l.num /\ OnRing(l, contents, i, p)
  PROVE RingInv'
<1>1. contents' = contents /\ leaked' = leaked /\ ~lost
  BY DEF Ring!TakeIter, Ring!Usable
<1>2. CASE i.data = Ring!Past
  <2>1. lost' /\ lost' \in BOOLEAN /\ list' = list /\ place' = place
    BY <1>2 DEF Ring!TakeIter
  <2> QED BY <1>1, <2>1, RingTypes, LostKeeps
<1>3. CASE i.data # Ring!Past
  <2>1. list' = l /\ iter' = i /\ place' = p /\ lost' = lost
    BY <1>3 DEF Ring!TakeIter
  <2> QED BY <1>1, <1>3, <2>1, RingTypes DEF RingInv
<1> QED BY <1>2, <1>3

LEMMA BeginStep ==
  ASSUME RingInv, Ring!Begin \/ Ring!RBegin
  PROVE RingInv'
<1>1. ~lost /\ list \in TapRecord /\ list.num \in Nat
  BY RingTypes DEF Ring!Begin, Ring!RBegin, Ring!TakeIter, Ring!Usable
<1>2. PICK N, r : ListHolds(list, contents, N, r)
  BY <1>1 DEF RingInv, OnRing
<1>3. N \in Nat /\ N >= 2 /\ list.num <= N /\ list.head.data = r[IF list.num = 0 THEN 0 ELSE list.num - 1]
      /\ list.head.next = list.next[list.head.data] /\ Stands(list, N, r, list.tail, 0)
      /\ list.tail.prev = list.prev[list.tail.data] /\ Backs(list, list.head)
  BY <1>2 DEF ListHolds, Looped
<1>4. CASE Ring!Begin
  <2>1. OnRing(list, contents, list.tail, 0)
    BY <1>2, <1>3 DEF OnRing, Backs
  <2>2. 0 \in -2 .. list.num
    BY <1>1
  <2> QED BY <1>1, <1>4, <2>1, <2>2, TakeIterStep DEF Ring!Begin
<1>5. CASE Ring!RBegin
  <2> DEFINE p == IF list.num = 0 THEN 0 ELSE list.num - 1
  <2>1. p < N /\ p \in -2 .. list.num
    BY <1>1, <1>3
  <2>2. list.head.data = r[p]
    BY <1>3
  <2>3. Ring!TakeIter(list, list.head, p)
    BY <1>5 DEF Ring!RBegin
  <2> HIDE DEF p
  <2>4. OnRing(list, contents, list.head, p)
    <3>1. Stands(list, N, r, list.head, p) /\ p # -1 /\ Backs(list, list.head)
      BY <1>1, <1>3, <2>1, <2>2 DEF Stands, p
    <3> QED BY <1>2, <2>1, <3>1 DEF OnRing
  <2> QED BY <1>1, <2>1, <2>3, <2>4, TakeIterStep
<1> QED BY <1>4, <1>5

LEMMA EndStep ==
  ASSUME RingInv, Ring!End \/ Ring!REnd
  PROVE RingInv'
<1>1. ~lost /\ list.blocks < MaxBlocks /\ list \in TapRecord /\ list.num \in Nat
  BY RingTypes DEF Ring!End, Ring!REnd, Ring!TakeIter, Ring!Usable
<1>2. PICK N, r : ListHolds(list, contents, N, r)
  BY <1>1 DEF RingInv, OnRing
<1>3. N \in Nat /\ N >= 2 /\ list.num <= N /\ list.head.data = r[IF list.num = 0 THEN 0 ELSE list.num - 1]
      /\ list.head.next = list.next[list.head.data] /\ Backs(list, list.head)
      /\ list.tail.prev = list.prev[r[0]] /\ list.prev[r[0]] \in {r[N - 1], Ring!Past}
      /\ \A a, b \in 0 .. N - 1 : r[a] = r[b] => a = b
  BY <1>2 DEF ListHolds, Looped
<1>4. CASE list.num = 0
  <2>1. OnRing(list, contents, list.head, 0)
    BY <1>2, <1>3, <1>4 DEF OnRing, Stands
  <2>2. 0 \in -2 .. list.num /\ Ring!TakeIter(list, list.head, 0)
    BY <1>4 DEF Ring!End, Ring!REnd
  <2> QED BY <1>1, <2>1, <2>2, TakeIterStep
<1>5. CASE list.num # 0
  <2>1. /\ ListHolds(Ring!Extend(list), contents, list.num + Size, Grown(r, list.num, Room(list)))
        /\ Ring!Extend(list) \in TapRecord /\ Ring!Extend(list).num = list.num
    BY <1>1, <1>2, <1>5, ExtendHolds
  <2>2. CASE Ring!End
    <3> DEFINE l == IF Ring!Full(list) THEN Ring!Extend(list) ELSE list
    <3>1. \E M, g : l \in TapRecord /\ l.num = list.num /\ ListHolds(l, contents, M, g) /\ l.num < M
      <4>1. CASE Ring!Full(list)
        <5>1. list.num < list.num + Size
          BY <1>1, TapAssumption
        <5> QED BY <2>1, <4>1, <5>1
      <4>2. CASE ~Ring!Full(list)
        <5>1. list.num < N
          BY <1>1, <1>2, <1>3, <1>5, <4>2, FullIs
        <5> QED BY <1>1, <1>2, <4>2, <5>1
      <4> QED BY <4>1, <4>2
    <3>2. Ring!TakeIter(l, Ring!At(l, l.head.next), list.num)
      BY <1>5, <2>2 DEF Ring!End
    <3> HIDE DEF l
    <3>3. PICK M, g : l \in TapRecord /\ l.num = list.num /\ ListHolds(l, contents, M, g) /\ l.num < M
      BY <3>1
    <3>4. /\ M \in Nat /\ Looped(l, M, g) /\ \A k \in 0 .. M - 2 : l.next[g[k]] = g[k + 1]
          /\ l.head.next = l.next[l.head.data] /\ l.head.data = g[IF l.num = 0 THEN 0 ELSE l.num - 1]
      BY <3>3 DEF ListHolds, Looped
    <3>5. list.num - 1 \in 0 .. M - 2 /\ (list.num - 1) + 1 = list.num /\ list.num \in 0 .. M - 1
      BY <1>1, <1>5, <3>3, <3>4
    <3>6. l.head.next = g[list.num]
      BY <1>5, <3>3, <3>4, <3>5
    <3> DEFINE i == Ring!At(l, l.head.next)
    <3>7. Stands(l, M, g, i, list.num) /\ Backs(l, i)
      BY <3>3, <3>4, <3>5, <3>6, Fresh DEF Backs
    <3>8. Ring!TakeIter(l, i, list.num)
      BY <3>2
    <3> HIDE DEF i
    <3>9. OnRing(l, contents, i, list.num) /\ list.num \in -2 .. l.num
      BY <1>1, <3>3, <3>7 DEF OnRing
    <3> QED BY <3>3, <3>8, <3>9, TakeIterStep
  <2>3. CASE Ring!REnd
    <3> DEFINE l == IF list.tail.prev = list.head.data THEN Ring!Extend(list) ELSE list
               i == Ring!At(l, l.tail.prev)
    <3>1. Ring!TakeIter(l, i, -1)
      BY <1>5, <2>3 DEF Ring!REnd, Ring!BeforeBegin
    <3>2. CASE list.tail.prev = list.head.data
      <4>1. l.tail.prev = Ring!Past
        BY <1>1, <1>2, <1>5, <3>2, ExtendHolds
      <4>2. i.data = Ring!Past
        BY <4>1 DEF Ring!At
      <4> HIDE DEF l, i
      <4> QED BY <3>1, <4>2, TakeIterStep
    <3>3. CASE list.tail.prev # list.head.data
      <4>1. l = list
        BY <3>3
      <4> HIDE DEF l
      <4>2. ASSUME i.data # Ring!Past PROVE Before(list, N, r, i)
        <5>1. list.prev[r[0]] # Ring!Past
          BY <1>3, <4>1, <4>2 DEF Ring!At
        <5>2. list.prev[r[0]] = r[N - 1] /\ i = Ring!At(list, r[N - 1])
          BY <1>3, <4>1, <5>1
        <5>3. list.num < N
          BY <1>1, <1>3, <1>5, <3>3, <5>2
        <5> QED BY <1>1, <1>5, <5>2, <5>3 DEF Before
      <4> HIDE DEF i
      <4>3. i.data # Ring!Past => OnRing(list, contents, i, -1)
        BY <1>2, <4>2 DEF OnRing
      <4>4. -1 \in -2 .. list.num
        BY <1>1
      <4> QED BY <1>1, <3>1, <4>1, <4>3, <4>4, TakeIterStep
    <3> QED BY <3>2, <3>3
  <2> QED BY <2>2, <2>3
<1> QED BY <1>4, <1>5

LEMMA IncrementStep ==
  ASSUME RingInv, Ring!Increment
  PROVE RingInv'
<1>1. ~lost /\ list.blocks < MaxBlocks /\ list \in TapRecord /\ list.num \in Nat /\ place \in 0 .. list.num - 1 /\ place >= 0
  BY RingTypes DEF Ring!Increment, Ring!TakeIter, Ring!Usable
<1>2. PICK N, r : ListHolds(list, contents, N, r) /\ place < N /\ Stands(list, N, r, iter, place)
  BY <1>1 DEF RingInv, OnRing
<1>3. /\ N \in Nat /\ N >= 2 /\ list.num <= N /\ Looped(list, N, r)
      /\ \A k \in 0 .. N - 2 : list.next[r[k]] = r[k + 1]
      /\ list.next[r[N - 1]] = r[0] /\ list.tail.data = r[0] /\ iter.data = r[place]
  BY <1>2 DEF ListHolds, Looped, Stands
<1> DEFINE f == Ring!Forward(list, iter)
<1>4. Ring!TakeIter(f.list, f.iter, place + 1)
  BY DEF Ring!Increment
<1>5. \E M, g : /\ f.list \in TapRecord /\ f.list.num = list.num /\ ListHolds(f.list, contents, M, g)
                /\ place + 1 < M /\ f.iter = Ring!At(f.list, g[place + 1])
  <2>1. CASE iter.next = list.tail.data
    <3> DEFINE e == Ring!Extend(list)
               g == Grown(r, list.num, Room(list))
               M == list.num + Size
    <3>1. f.list = e /\ f.iter = Ring!At(e, e.next[iter.data])
      BY <2>1 DEF Ring!Forward
    <3> HIDE DEF e, g, f
    <3>2. ListHolds(e, contents, M, g) /\ e \in TapRecord /\ e.num = list.num /\ g[place] = r[place]
      BY <1>1, <1>2, ExtendHolds DEF e, g
    <3>3. place \in 0 .. M - 2 /\ place + 1 < M
      BY <1>1, TapAssumption
    <3>4. \A k \in 0 .. M - 2 : e.next[g[k]] = g[k + 1]
      BY <3>2 DEF ListHolds, Looped
    <3>5. e.next[iter.data] = g[place + 1]
      BY <1>3, <3>2, <3>3, <3>4
    <3> HIDE DEF M
    <3> QED BY <3>1, <3>2, <3>3, <3>5
  <2>2. CASE iter.next # list.tail.data
    <3>1. f.list = list /\ f.iter = Ring!At(list, list.next[iter.data])
      BY <2>2 DEF Ring!Forward
    <3> HIDE DEF f
    <3>2. ASSUME place = N - 1 PROVE FALSE
      <4>1. ~CutAfter(list, N, r, place)
        <5>1. place + 2 .. N - 1 = {} /\ ~(place + 2 <= N)
          BY <1>1, <1>3, <3>2
        <5> QED BY <5>1 DEF CutAfter
      <4>2. iter.next = list.next[iter.data]
        BY <4>1, <1>2 DEF Stands
      <4> QED BY <4>2, <3>2, <2>2, <1>3
    <3>3. place \in 0 .. N - 2 /\ place + 1 < N
      BY <1>1, <1>2, <1>3, <3>2
    <3>4. list.next[iter.data] = r[place + 1]
      BY <1>3, <3>3
    <3> QED BY <1>1, <1>2, <3>1, <3>3, <3>4
  <2> QED BY <2>1, <2>2
<1> HIDE DEF f
<1>6. PICK M, g : /\ f.list \in TapRecord /\ f.list.num = list.num /\ ListHolds(f.list, contents, M, g)
                  /\ place + 1 < M /\ f.iter = Ring!At(f.list, g[place + 1])
  BY <1>5
<1>7. Looped(f.list, M, g) /\ M \in Nat /\ place + 1 \in 0 .. M - 1 /\ place + 1 \in -2 .. f.list.num
  <2>1. Looped(f.list, M, g) /\ M \in Nat
    BY <1>6 DEF ListHolds, Looped
  <2> QED BY <1>1, <1>6, <2>1
<1>8. Stands(f.list, M, g, f.iter, place + 1) /\ Backs(f.list, f.iter)
  BY <1>6, <1>7, Fresh DEF Backs
<1>9. OnRing(f.list, contents, f.iter, place + 1)
  <2>1. place + 1 # -1
    BY <1>1
  <2> QED BY <1>6, <1>8, <2>1 DEF OnRing
<1> QED BY <1>4, <1>6, <1>7, <1>9, TakeIterStep

LEMMA DecrementInside ==
  ASSUME RingInv, Ring!Decrement, place # 0
  PROVE RingInv'
<1>1. /\ ~lost /\ list.blocks < MaxBlocks /\ list \in TapRecord /\ list.num \in Nat
      /\ place \in 1 .. list.num /\ place >= 0 /\ list.num > 0
      /\ list.tail.data \in Ring!Cell
  BY RingTypes DEF Ring!Decrement, Ring!TakeIter, Ring!Usable
<1>2. PICK N, r : ListHolds(list, contents, N, r) /\ place < N /\ Stands(list, N, r, iter, place)
  BY <1>1 DEF RingInv, OnRing
<1>3. /\ N \in Nat /\ N >= 2 /\ list.num <= N /\ Looped(list, N, r)
      /\ \A a, b \in 0 .. N - 1 : r[a] = r[b] => a = b
      /\ r \in [0 .. N - 1 -> 0 .. Room(list) - 1]
      /\ \A k \in 1 .. N - 1 : list.prev[r[k]] \in {r[k - 1], Ring!Past}
      /\ list.tail.data = r[0] /\ iter.data = r[place]
  BY <1>2 DEF ListHolds, Looped, Stands
<1>4. /\ place \in 1 .. N - 1 /\ place \in 0 .. N - 1 /\ 0 \in 0 .. N - 1 /\ place # 0
      /\ place - 1 \in 0 .. list.num - 1 /\ place - 1 < N /\ place - 1 \in 0 .. N - 1
  BY <1>1, <1>2, <1>3
<1> DEFINE b == Ring!Backward(list, iter)
           c == list.prev[r[place]]
<1>5. c \in {r[place - 1], Ring!Past}
  BY <1>3, <1>4
<1>6. Ring!TakeIter(b.list, b.iter, place - 1)
  BY DEF Ring!Decrement
<1>7. \E M, g : /\ b.list \in TapRecord /\ b.list.num = list.num /\ ListHolds(b.list, contents, M, g)
                /\ place - 1 < M /\ b.iter = Ring!At(b.list, c) /\ g[place - 1] = r[place - 1]
  <2>1. CASE iter.prev = list.head.data
    <3> DEFINE e == Ring!Extend(list)
               g == Grown(r, list.num, Room(list))
               M == list.num + Size
    <3>1. b.list = e /\ b.iter = Ring!At(e, e.prev[r[place]])
      BY <2>1, <1>3 DEF Ring!Backward
    <3> HIDE DEF e, g, b
    <3>2. ListHolds(e, contents, M, g) /\ e \in TapRecord /\ e.num = list.num /\ g[place - 1] = r[place - 1]
      BY <1>1, <1>2, <1>4, ExtendHolds DEF e, g
    <3>3. place - 1 < M
      BY <1>1, TapAssumption
    <3>4. e.prev[r[place]] = list.prev[r[place]]
      <4>1. r[place] # list.tail.data
        BY <1>3, <1>4
      <4>2. list \in TapRecord /\ list.blocks < MaxBlocks /\ Looped(list, N, r) /\ place \in 0 .. N - 1 /\ e = Ring!Extend(list)
        BY <1>1, <1>3, <1>4 DEF e
      <4>3. e.prev[r[place]] = IF r[place] = list.tail.data THEN Ring!Past ELSE list.prev[r[place]]
        BY <4>2, ExtendPrev
      <4> QED BY <4>1, <4>3
    <3> HIDE DEF M
    <3> QED BY <3>1, <3>2, <3>3, <3>4
  <2>2. CASE iter.prev # list.head.data
    <3>1. b.list = list /\ b.iter = Ring!At(list, c)
      BY <2>2, <1>3 DEF Ring!Backward
    <3> HIDE DEF b, c
    <3> QED BY <1>1, <1>2, <1>4, <3>1
  <2> QED BY <2>1, <2>2
<1> HIDE DEF b, c
<1>8. PICK M, g : /\ b.list \in TapRecord /\ b.list.num = list.num /\ ListHolds(b.list, contents, M, g)
                  /\ place - 1 < M /\ b.iter = Ring!At(b.list, c) /\ g[place - 1] = r[place - 1]
  BY <1>7
<1>9. ASSUME b.iter.data # Ring!Past
      PROVE b.list \in TapRecord /\ place - 1 \in -2 .. b.list.num /\ OnRing(b.list, contents, b.iter, place - 1)
  <2>1. c # Ring!Past
    BY <1>8, <1>9 DEF Ring!At
  <2>2. Looped(b.list, M, g) /\ M \in Nat /\ place - 1 \in 0 .. M - 1 /\ place - 1 \in -2 .. b.list.num
    <3>1. Looped(b.list, M, g) /\ M \in Nat
      BY <1>8 DEF ListHolds, Looped
    <3> QED BY <1>1, <1>8, <3>1
  <2>3. b.iter = Ring!At(b.list, g[place - 1])
    BY <1>5, <1>8, <2>1
  <2>4. Stands(b.list, M, g, b.iter, place - 1) /\ Backs(b.list, b.iter)
    BY <1>8, <2>2, <2>3, Fresh DEF Backs
  <2>5. OnRing(b.list, contents, b.iter, place - 1)
    <3>1. place - 1 # -1
      BY <1>1
    <3> QED BY <1>8, <2>4, <3>1 DEF OnRing
  <2> QED BY <1>8, <2>2, <2>5
<1> QED BY <1>6, <1>9, TakeIterStep

\* From the first element to rend(), or past the block.
LEMMA DecrementFirst ==
  ASSUME RingInv, Ring!Decrement, place = 0
  PROVE RingInv'
<1>1. ~lost /\ list.blocks < MaxBlocks /\ list \in TapRecord /\ list.num \in Nat /\ list.num > 0
  BY RingTypes DEF Ring!Decrement, Ring!TakeIter, Ring!Usable
<1>2. PICK N, r : ListHolds(list, contents, N, r) /\ Stands(list, N, r, iter, 0) /\ Backs(list, iter)
  BY <1>1 DEF RingInv, OnRing
<1>3. /\ N \in Nat /\ N >= 2 /\ list.num <= N /\ list.head.data = r[list.num - 1] /\ list.tail.data = r[0]
      /\ list.prev[r[0]] \in {r[N - 1], Ring!Past} /\ iter.data = r[0]
  BY <1>1, <1>2 DEF ListHolds, Looped, Stands
<1> DEFINE b == Ring!Backward(list, iter)
<1>4. Ring!TakeIter(b.list, b.iter, -1)
  BY DEF Ring!Decrement
<1>5. CASE iter.prev = list.head.data
  <2> DEFINE e == Ring!Extend(list)
  <2>1. b.iter = Ring!At(e, e.prev[r[0]])
    BY <1>3, <1>5 DEF Ring!Backward
  <2>2. e.tail.prev = Ring!Past /\ e.tail.data = list.tail.data /\ e.tail.prev = e.prev[e.tail.data]
    <3>1. e.tail.prev = Ring!Past /\ e.tail.data = list.tail.data /\ ListHolds(e, contents, list.num + Size, Grown(r, list.num, Room(list)))
      <4> HIDE DEF e
      <4> QED BY <1>1, <1>2, ExtendHolds DEF e
    <3> HIDE DEF e
    <3> QED BY <3>1 DEF ListHolds
  <2> HIDE DEF e
  <2>3. b.iter.data = Ring!Past
    BY <1>3, <2>1, <2>2 DEF Ring!At
  <2> HIDE DEF b
  <2> QED BY <1>4, <2>3, TakeIterStep
<1>6. CASE iter.prev # list.head.data
  <2>1. b.list = list /\ b.iter = Ring!At(list, list.prev[r[0]])
    BY <1>3, <1>6 DEF Ring!Backward
  <2> HIDE DEF b
  <2>2. ASSUME b.iter.data # Ring!Past PROVE Before(list, N, r, b.iter)
    <3>1. list.prev[r[0]] = r[N - 1] /\ list.prev[r[0]] # Ring!Past
      BY <1>3, <2>1, <2>2 DEF Ring!At
    <3>2. iter.prev = r[N - 1]
      BY <1>2, <1>3, <3>1 DEF Backs
    <3>3. list.num < N
      BY <1>1, <1>3, <1>6, <3>2
    <3> QED BY <1>1, <2>1, <3>1, <3>3 DEF Before
  <2>3. b.iter.data # Ring!Past => OnRing(list, contents, b.iter, -1)
    BY <1>2, <2>2 DEF OnRing
  <2>4. -1 \in -2 .. list.num
    BY <1>1
  <2> QED BY <1>1, <1>4, <2>1, <2>3, <2>4, TakeIterStep
<1> QED BY <1>5, <1>6

LEMMA DecrementStep ==
  ASSUME RingInv, Ring!Decrement
  PROVE RingInv'
  BY DecrementInside, DecrementFirst

\* The head takes over the neighbours its cell has.
LEMMA SettleHolds ==
  ASSUME NEW l \in TapRecord, NEW c, NEW N, NEW r, ListHolds(l, c, N, r),
         NEW h \in TapIter, h.data = l.head.data, h.next = l.next[h.data], Backs(l, h),
         NEW m, m = Changed(l, h, l.tail, l.num, l.val)
  PROVE ListHolds(m, c, N, r) /\ m \in TapRecord
<1>1. /\ m.next = l.next /\ m.prev = l.prev /\ m.blocks = l.blocks /\ m.num = l.num
      /\ m.head = h /\ m.tail = l.tail /\ m.val = l.val
  BY DEF Changed
<1>2. m \in TapRecord
  BY RecordFields, ChangedRecord
<1>3. Looped(m, N, r) /\ Stands(m, N, r, m.tail, 0)
  BY <1>1, SameLoop DEF ListHolds
<1>4. /\ m.num <= N /\ m.tail.data = r[0] /\ m.head.data = r[IF m.num = 0 THEN 0 ELSE m.num - 1]
      /\ m.head.next = m.next[m.head.data] /\ m.tail.prev = m.prev[m.tail.data] /\ m.tail.next # m.tail.data
      /\ m.num = Len(c) /\ \A k \in 1 .. m.num : m.val[r[k - 1]] = c[k]
  BY <1>1 DEF ListHolds
<1>5. Backs(m, m.head)
  BY <1>1 DEF Backs
<1> QED BY <1>2, <1>3, <1>4, <1>5 DEF ListHolds

LEMMA EraseFromBeginStep ==
  ASSUME RingInv, Ring!EraseFromBegin
  PROVE RingInv'
<1>1. /\ ~lost /\ list \in TapRecord /\ list.num \in Nat /\ place \in 0 .. list.num /\ place >= 0
      /\ contents \in Seq(Value) /\ leaked \subseteq -1 .. MaxBlocks
      /\ list.head \in TapIter /\ list.tail \in TapIter
  BY RingTypes DEF Ring!EraseFromBegin, Ring!Usable
<1>2. PICK N, r : /\ ListHolds(list, contents, N, r) /\ place < N
                  /\ Stands(list, N, r, iter, place) /\ Backs(list, iter)
  BY <1>1 DEF RingInv, OnRing
<1>3. /\ N \in Nat /\ N >= 2 /\ list.num <= N /\ Looped(list, N, r)
      /\ list.tail.data = r[0] /\ list.head.data = r[IF list.num = 0 THEN 0 ELSE list.num - 1]
      /\ list.head.next = list.next[list.head.data] /\ list.num = Len(contents)
      /\ Backs(list, list.head) /\ list.tail.prev = list.prev[list.tail.data]
  BY <1>2 DEF ListHolds, Looped
<1>4. place \in 0 .. N - 1 /\ list.blocks \in 1 .. MaxBlocks
  BY <1>1, <1>2, <1>3, RingTypes
<1> DEFINE t == IF place = 0 THEN list.tail ELSE Ring!At(list, Ring!Ahead(list)[place])
           h == IF place = list.num THEN t ELSE list.head
           m == Changed(list, h, t, list.num - place, list.val)
           d == SubSeq(contents, place + 1, Len(contents))
<1>5. /\ list' = [list EXCEPT !.num = list.num - place, !.tail = t, !.head = h]
      /\ lost' = (list.num = 0 /\ list.tail.next # list.next[list.tail.data])
      /\ contents' = d /\ place' = 0 /\ iter' = iter /\ leaked' = leaked
  BY DEF Ring!EraseFromBegin
<1>6. list' = m
  <2> HIDE DEF t, h
  <2>1. list \in TapRecord
    BY <1>1
  <2>2. Trimmed(list, h, t, list.num - place) = Changed(list, h, t, list.num - place, list.val)
    BY <2>1, TrimmedIs
  <2>3. list' = Trimmed(list, h, t, list.num - place)
    BY <1>5, Zenon DEF Trimmed
  <2> QED BY <2>2, <2>3, Zenon
<1>7. place # 0 => t = Ring!At(list, r[place])
  <2>1. Ring!Ahead(list)[place] = r[place]
    BY <1>3, <1>4, AheadIs
  <2> QED BY <2>1
<1>8. t \in TapIter
  BY <1>1, <1>3, <1>4, <1>7, Fresh
<1>9. h \in TapIter
  BY <1>1, <1>8
<1>10. m \in TapRecord /\ m.num = list.num - place
  <2>1. m.num = list.num - place
    BY DEF Changed
  <2>2. list.num - place \in Nat /\ list.val \in [Ring!Cell -> Value \cup {0}]
    BY <1>1, RecordFields
  <2>3. m \in TapRecord
    <3> HIDE DEF t, h
    <3> QED BY <1>1, <1>8, <1>9, <2>2, ChangedRecord
  <2> QED BY <2>1, <2>3
<1>11. d \in Seq(Value) /\ lost' \in BOOLEAN /\ 0 \in -2 .. m.num
  <2>1. d \in Seq(Value)
    BY <1>1, <1>3
  <2>2. lost' \in BOOLEAN
    BY <1>5
  <2>3. 0 \in -2 .. m.num
    <3> HIDE DEF m
    <3> QED BY <1>1, <1>10
  <2> QED BY <2>1, <2>2, <2>3
<1>12. m.next = list.next /\ m.prev = list.prev /\ m.blocks = list.blocks
  BY DEF Changed
<1>13. ASSUME ~lost' PROVE OnRing(m, d, iter, 0)
  <2>1. CASE place = 0
    <3>1. t = list.tail /\ list.num - place = list.num
      BY <2>1, <1>1
    <3>2. h.data = list.head.data /\ h.next = list.next[h.data] /\ Backs(list, h)
      <4>1. CASE list.num = 0
        BY <4>1, <3>1, <2>1, <1>3, <1>5, <1>13 DEF Backs
      <4>2. CASE list.num # 0
        BY <4>2, <2>1, <1>3
      <4> QED BY <4>1, <4>2
    <3>3. d = contents
      BY <1>1, <1>3, <2>1
    <3> HIDE DEF t, h, d
    <3>4. m = Changed(list, h, list.tail, list.num, list.val)
      BY <3>1
    <3> HIDE DEF m
    <3>5. ListHolds(m, contents, N, r)
      BY <1>1, <1>2, <1>9, <3>2, <3>4, SettleHolds
    <3>6. Stands(m, N, r, iter, 0) /\ Backs(m, iter)
      BY <1>2, <1>12, <2>1, SameLoop DEF Backs
    <3> QED BY <1>2, <2>1, <3>3, <3>5, <3>6 DEF OnRing
  <2>2. CASE place # 0
    <3> DEFINE g == Turned(N, r, place)
    <3>1. place \in 1 .. list.num /\ place \in 0 .. place /\ place - place = 0
      BY <2>2, <1>1
    <3>2. t = Ring!At(list, r[place])
      BY <1>7, <2>2
    <3>3. h = IF place = list.num THEN t ELSE list.head
      OBVIOUS
    <3> HIDE DEF t, h
    <3>4. ListHolds(m, d, N, g)
      BY <1>1, <1>2, <3>1, <3>2, <3>3, DropHolds
    <3> HIDE DEF m, d
    <3>5. Stands(m, N, g, iter, place - place)
      BY <1>2, <1>3, <1>4, <1>12, <3>1, TurnedStands
    <3> HIDE DEF g
    <3>6. Stands(m, N, g, iter, 0) /\ 0 < N /\ Backs(m, iter)
      BY <3>1, <3>5, <1>2, <1>3, <1>12 DEF Backs
    <3> QED BY <3>4, <3>6 DEF OnRing
  <2> QED BY <2>1, <2>2
<1> HIDE DEF m, d
<1> QED BY <1>1, <1>5, <1>6, <1>10, <1>11, <1>13 DEF RingInv

\* A list whose elements all go from the end takes its tail as its head.
LEMMA NoneHolds ==
  ASSUME NEW l \in TapRecord, NEW c \in Seq(Value), NEW N, NEW r, ListHolds(l, c, N, r), l.tail.next = l.next[l.tail.data],
         NEW m, m = Changed(l, l.tail, l.tail, 0, l.val)
  PROVE ListHolds(m, SubSeq(c, 1, 0), N, r) /\ m \in TapRecord
<1>1. /\ N \in Nat /\ N >= 2 /\ Looped(l, N, r) /\ l.tail.data = r[0] /\ Stands(l, N, r, l.tail, 0)
      /\ l.tail.prev = l.prev[l.tail.data] /\ l.tail.next # l.tail.data
      /\ l.tail \in TapIter /\ l.val \in [Ring!Cell -> Value \cup {0}]
  BY RecordFields DEF ListHolds, Looped
<1>2. /\ m.next = l.next /\ m.prev = l.prev /\ m.blocks = l.blocks /\ m.num = 0
      /\ m.head = l.tail /\ m.tail = l.tail /\ m.val = l.val
  BY DEF Changed
<1>3. m \in TapRecord
  BY <1>1, ChangedRecord
<1>4. Looped(m, N, r) /\ Stands(m, N, r, m.tail, 0)
  BY <1>1, <1>2, SameLoop
<1>5. Len(SubSeq(c, 1, 0)) = 0
  OBVIOUS
<1>6. /\ m.num <= N /\ m.tail.data = r[0] /\ m.head.data = r[IF m.num = 0 THEN 0 ELSE m.num - 1] /\ m.num = Len(SubSeq(c, 1, 0))
      /\ m.head.next = m.next[m.head.data] /\ m.tail.prev = m.prev[m.tail.data] /\ m.tail.next # m.tail.data
      /\ Backs(m, m.head)
  BY <1>1, <1>2, <1>5 DEF Backs
<1>7. \A k \in 1 .. m.num : m.val[r[k - 1]] = SubSeq(c, 1, 0)[k]
  BY <1>2
<1> QED BY <1>3, <1>4, <1>6, <1>7, Zenon DEF ListHolds

\* Up to an element: that and those before it stay.
LEMMA EraseSome ==
  ASSUME RingInv, Ring!EraseFromEnd, list.num # 0, place # -1
  PROVE RingInv'
<1>1. /\ ~lost /\ list \in TapRecord /\ list.num \in Nat /\ place \in 0 .. list.num - 1 /\ place >= 0
      /\ contents \in Seq(Value) /\ leaked \subseteq -1 .. MaxBlocks /\ list.num # 0
  BY RingTypes DEF Ring!EraseFromEnd, Ring!Usable, Ring!BeforeBegin
<1>2. PICK N, r : /\ ListHolds(list, contents, N, r) /\ place < N
                  /\ Stands(list, N, r, iter, place) /\ Backs(list, iter)
  BY <1>1 DEF RingInv, OnRing
<1>3. /\ N \in Nat /\ N >= 2 /\ list.num <= N /\ Looped(list, N, r)
      /\ list.head.data = r[IF list.num = 0 THEN 0 ELSE list.num - 1] /\ list.num = Len(contents)
  BY <1>2 DEF ListHolds, Looped
<1> DEFINE n == (list.num - 1) - place
           c == Ring!Behind(list)[n]
           h == IF n = 0 THEN list.head ELSE Ring!At(list, c)
           d == SubSeq(contents, 1, place + 1)
<1>4. n \in 0 .. list.num - 1 /\ (list.num - 1) - n = place /\ list.num - n = place + 1 /\ (n = 0 <=> place = list.num - 1)
      /\ n # list.num
  BY <1>1
<1>5. /\ contents' = d /\ iter' = iter /\ place' = place /\ leaked' = leaked
      /\ IF c = Ring!Past THEN lost' = TRUE /\ list' = list
         ELSE list' = [list EXCEPT !.num = list.num - n, !.head = h] /\ lost' = lost
  <2> DEFINE x == IF list.num = 0 THEN 0 ELSE list.num - 1 - place
  <2>1. x = n /\ x # list.num /\ list.num - x = place + 1
    BY <1>1, <1>4
  <2>2. /\ contents' = SubSeq(contents, 1, list.num - x) /\ iter' = iter /\ leaked' = leaked
        /\ place' = IF place = -1 THEN -2 ELSE place
        /\ IF Ring!Behind(list)[x] = Ring!Past THEN lost' = TRUE /\ list' = list
           ELSE /\ list' = [list EXCEPT !.num = list.num - x, !.head = IF x = list.num THEN list.tail
                                                                       ELSE IF x = 0 THEN list.head ELSE Ring!At(list, Ring!Behind(list)[x])]
                /\ lost' = (x = list.num /\ list.tail.next # list.next[list.tail.data])
    BY DEF Ring!EraseFromEnd, Ring!BeforeBegin, Ring!None
  <2> HIDE DEF x, n
  <2>3. lost = FALSE
    BY <1>1, RingTypes
  <2> QED BY <1>1, <2>1, <2>2, <2>3
<1>6. d \in Seq(Value)
  BY <1>1, <1>3
<1>7. c = r[place] \/ c = Ring!Past
  <2>1. list.num \in 1 .. N /\ list.head.data = r[list.num - 1]
    BY <1>1, <1>3
  <2>2. list \in TapRecord /\ Looped(list, N, r) /\ n \in 0 .. list.num - 1
    BY <1>1, <1>3, <1>4
  <2> HIDE DEF n
  <2>3. c = r[(list.num - 1) - n] \/ c = Ring!Past
    BY <2>1, <2>2, BehindIs
  <2> QED BY <2>3, <1>4
<1> HIDE DEF n, c, d
<1>8. CASE c = Ring!Past
  <2>1. lost' /\ list' = list /\ lost' \in BOOLEAN /\ place \in -2 .. list.num
    BY <1>1, <1>5, <1>8
  <2> QED BY <1>5, <1>6, <2>1, LostKeeps
<1>9. CASE c # Ring!Past
  <2> DEFINE m == Changed(list, h, list.tail, place + 1, list.val)
  <2>1. h = IF place = list.num - 1 THEN list.head ELSE Ring!At(list, r[place])
    BY <1>4, <1>7, <1>9
  <2> HIDE DEF h
  <2>2. ListHolds(m, d, N, r) /\ m \in TapRecord
    BY <1>1, <1>2, <2>1, KeepHolds DEF d
  <2>3. list' = m /\ lost' = lost
    <3>1. Cropped(list, h, list.num - n) = Changed(list, h, list.tail, list.num - n, list.val)
      BY <1>1, CroppedIs
    <3>2. list' = Cropped(list, h, list.num - n) /\ lost' = lost
      BY <1>5, <1>9 DEF Cropped
    <3> QED BY <1>4, <3>1, <3>2
  <2>4. m.next = list.next /\ m.prev = list.prev /\ m.blocks = list.blocks /\ m.num = place + 1
    BY DEF Changed
  <2> HIDE DEF m
  <2>5. Stands(m, N, r, iter, place) /\ Backs(m, iter)
    BY <1>2, <2>4, SameLoop DEF Backs
  <2>6. OnRing(m, d, iter, place) /\ place \in -2 .. m.num
    <3>1. place # -1 /\ place \in -2 .. m.num
      BY <1>1, <2>4
    <3> QED BY <1>2, <2>2, <2>5, <3>1 DEF OnRing
  <2> QED BY <1>1, <1>5, <1>6, <2>2, <2>3, <2>6 DEF RingInv
<1> QED BY <1>8, <1>9

\* Up to rend(), or on an empty list: the head becomes the tail as it was cached.
LEMMA EraseAll ==
  ASSUME RingInv, Ring!EraseFromEnd, list.num = 0 \/ place = -1
  PROVE RingInv'
<1>1. /\ ~lost /\ list \in TapRecord /\ list.num \in Nat /\ place \in -1 .. list.num
      /\ contents \in Seq(Value) /\ leaked \subseteq -1 .. MaxBlocks
  BY RingTypes DEF Ring!EraseFromEnd, Ring!Usable, Ring!BeforeBegin
<1>2. PICK N, r : /\ ListHolds(list, contents, N, r)
                  /\ place >= 0 => place < N /\ Stands(list, N, r, iter, place) /\ Backs(list, iter)
                  /\ place = -1 => Before(list, N, r, iter)
  BY <1>1 DEF RingInv, OnRing
<1>3. list.num = Len(contents)
  BY <1>2 DEF ListHolds
<1>4. /\ place = -1 => list.num > 0
      /\ place # -1 => place = 0 /\ list.num = 0
  BY <1>1, <1>2 DEF Before
<1> DEFINE n == IF list.num = 0 THEN 0 ELSE list.num - 1 - place
           c == Ring!Behind(list)[n]
           d == SubSeq(contents, 1, 0)
<1>5. n = list.num /\ list.num - n = 0
  BY <1>1, <1>4
<1>6. /\ contents' = d /\ iter' = iter /\ place' = (IF place = -1 THEN -2 ELSE place) /\ leaked' = leaked
      /\ IF c = Ring!Past THEN lost' = TRUE /\ list' = list
         ELSE /\ list' = [list EXCEPT !.num = 0, !.head = list.tail]
              /\ lost' = (list.tail.next # list.next[list.tail.data])
  BY <1>5 DEF Ring!EraseFromEnd, Ring!BeforeBegin, Ring!None
<1>7. d \in Seq(Value) /\ place' \in -2 .. 0
  <2>1. d \in Seq(Value)
    BY <1>1, EmptySeq
  <2>2. place' \in -2 .. 0
    BY <1>1, <1>4, <1>6
  <2> QED BY <2>1, <2>2
<1> HIDE DEF n, c, d
<1>8. CASE c = Ring!Past \/ lost'
  <2>1. lost' /\ lost' \in BOOLEAN /\ leaked' = leaked
    BY <1>6, <1>8
  <2>2. list' \in TapRecord /\ list'.num \in Nat
    <3>1. [list EXCEPT !.num = 0, !.head = list.tail] = Changed(list, list.tail, list.tail, 0, list.val)
      <4>1. Cropped(list, list.tail, 0) = Changed(list, list.tail, list.tail, 0, list.val)
        BY <1>1, CroppedIs
      <4> QED BY <4>1 DEF Cropped
    <3>2. Changed(list, list.tail, list.tail, 0, list.val) \in TapRecord
      BY <1>1, RecordFields, ChangedRecord
    <3>3. list' \in TapRecord
      BY <1>1, <1>6, <3>1, <3>2, Zenon
    <3> QED BY <3>3, RecordFields
  <2>3. place' \in -2 .. list'.num
    BY <1>7, <2>2
  <2> QED BY <1>1, <1>6, <1>7, <2>1, <2>2, <2>3 DEF RingInv
<1>9. CASE c # Ring!Past /\ ~lost'
  <2> DEFINE m == Changed(list, list.tail, list.tail, 0, list.val)
  <2>1. ListHolds(m, d, N, r) /\ m \in TapRecord
    <3>1. list.tail.next = list.next[list.tail.data]
      BY <1>6, <1>9
    <3> QED BY <1>1, <1>2, <3>1, NoneHolds DEF d
  <2>2. list' = m
    <3>1. Cropped(list, list.tail, 0) = Changed(list, list.tail, list.tail, 0, list.val)
      BY <1>1, CroppedIs
    <3>2. list' = Cropped(list, list.tail, 0)
      BY <1>6, <1>9 DEF Cropped
    <3> QED BY <3>1, <3>2
  <2>3. m.next = list.next /\ m.prev = list.prev /\ m.blocks = list.blocks /\ m.num = 0
    BY DEF Changed
  <2> HIDE DEF m
  <2>4. place' # -1 /\ (place' >= 0 => place' = place)
    BY <1>1, <1>4, <1>6
  <2>5. place >= 0 => place < N /\ Stands(m, N, r, iter, place) /\ Backs(m, iter)
    BY <1>2, <2>3, SameLoop DEF Backs
  <2>6. OnRing(m, d, iter, place') /\ place' \in -2 .. m.num
    BY <1>7, <2>1, <2>3, <2>4, <2>5 DEF OnRing
  <2>7. lost' \in BOOLEAN
    BY <1>6
  <2> QED BY <1>1, <1>6, <1>7, <2>1, <2>2, <2>6, <2>7 DEF RingInv
<1> QED BY <1>8, <1>9

LEMMA EraseFromEndStep ==
  ASSUME RingInv, Ring!EraseFromEnd
  PROVE RingInv'
  BY EraseSome, EraseAll

LEMMA ClearStep ==
  ASSUME RingInv, Ring!Clear
  PROVE RingInv'
<1>1. /\ ~lost /\ list \in TapRecord /\ contents \in Seq(Value) /\ leaked \subseteq -1 .. MaxBlocks
      /\ list.blocks \in 1 .. MaxBlocks
  BY RingTypes DEF Ring!Clear, Ring!Usable
<1>2. PICK N, r : ListHolds(list, contents, N, r)
  BY <1>1 DEF RingInv, OnRing
<1>3. Looped(list, N, r) /\ list.tail.data = r[0]
  BY <1>2 DEF ListHolds
<1>4. 0 \in Ring!Cell /\ Size * MaxBlocks \in Nat
  <2>1. list.blocks * Size \in Nat /\ list.blocks * Size <= Size * MaxBlocks /\ list.blocks * Size >= Size /\ Size * MaxBlocks \in Nat
    BY <1>1, BlockRoom
  <2> QED BY <2>1, TapAssumption DEF Ring!Cell
<1> DEFINE a == Ring!Ahead(list)
           t == Ring!At(list, 0)
           m == Changed(list, t, t, 0, list.val)
<1>5. /\ lost' = (\A k \in DOMAIN a : a[k] # 0)
      /\ list' = [list EXCEPT !.head = t, !.tail = t, !.num = 0]
      /\ contents' = <<>> /\ place' = -2 /\ iter' = iter /\ leaked' = leaked
  BY DEF Ring!Clear, Ring!None
<1>6. t \in TapIter
  BY <1>1, <1>4, AtIter
<1>7. list' = m
  <2> HIDE DEF t
  <2>1. Emptied(list, t, t, 0) = Changed(list, t, t, 0, list.val)
    BY <1>1, TrimmedIs
  <2>2. list' = Emptied(list, t, t, 0)
    BY <1>5 DEF Emptied
  <2> QED BY <2>1, <2>2
<1>8. m \in TapRecord /\ m.num = 0
  <2> HIDE DEF t
  <2>1. m \in TapRecord
    BY <1>1, <1>6, RecordFields, ChangedRecord
  <2>2. m.num = 0
    BY DEF Changed
  <2> QED BY <2>1, <2>2
<1>9. ASSUME ~lost' PROVE OnRing(m, <<>>, iter, -2)
  <2> HIDE DEF a, m
  <2>1. PICK k \in DOMAIN a : a[k] = 0
    BY <1>5, <1>9
  <2>2. \A q \in DOMAIN a : \E j \in 0 .. N - 1 : a[q] = r[j]
    BY <1>1, <1>3, AheadIs DEF a
  <2>3. PICK j \in 0 .. N - 1 : r[j] = 0
    BY <2>1, <2>2
  <2>4. t = Ring!At(list, r[j])
    BY <2>3
  <2> HIDE DEF t
  <2>5. ListHolds(m, <<>>, N, Turned(N, r, j))
    BY <1>1, <1>3, <2>4, EmptyHolds DEF m
  <2> QED BY <2>5 DEF OnRing
<1> HIDE DEF m, a, t
<1>10. lost' \in BOOLEAN /\ -2 \in -2 .. m.num /\ <<>> \in Seq(Value)
  <2>1. lost' \in BOOLEAN
    BY <1>5
  <2>2. -2 \in -2 .. m.num
    BY <1>8
  <2>3. <<>> \in Seq(Value)
    BY EmptySeq
  <2> QED BY <2>1, <2>2, <2>3
<1> QED BY <1>1, <1>5, <1>7, <1>8, <1>9, <1>10 DEF RingInv

\* An empty list on a block that is a ring of its own.
LEMMA StealStep ==
  ASSUME RingInv, Ring!Steal
  PROVE RingInv'
<1>1. /\ ~lost /\ list \in TapRecord /\ contents \in Seq(Value) /\ leaked \subseteq -1 .. MaxBlocks
      /\ lost \in BOOLEAN /\ list.num = 0
  BY RingTypes DEF Ring!Steal, Ring!Usable
<1>2. PICK N, r : ListHolds(list, contents, N, r)
  BY <1>1 DEF RingInv, OnRing
<1>3. contents = <<>>
  <2>1. Len(contents) = 0
    BY <1>1, <1>2 DEF ListHolds
  <2> QED BY <1>1, <2>1, EmptySeq
<1> DEFINE q == Ring!Ring(list)
           g == [k \in 0 .. Size - 1 |-> k]
<1>4. /\ list' = [q EXCEPT !.stolen = TRUE] /\ place' = -2 /\ iter' = iter /\ contents' = contents
      /\ lost' = lost /\ leaked' = leaked
  BY DEF Ring!Steal, Ring!None
<1>5. ListHolds(q, <<>>, Size, g) /\ q \in TapRecord
  <2>1. /\ list = [next |-> list.next, prev |-> list.prev, val |-> list.val, blocks |-> list.blocks, num |-> 0,
                   stolen |-> list.stolen, head |-> list.head, tail |-> list.tail]
        /\ list.blocks \in 1 .. MaxBlocks /\ list.val \in [Ring!Cell -> Value \cup {0}]
        /\ list.next \in [Ring!Cell -> Ring!Cell] /\ list.prev \in [Ring!Cell -> Ring!Cell \cup {Ring!Past}]
        /\ list.stolen \in BOOLEAN
    BY <1>1, RecordFields
  <2>2. PICK nx, pv, w, b, o, hd, tl :
           /\ list = [next |-> nx, prev |-> pv, val |-> w, blocks |-> b, num |-> 0, stolen |-> o, head |-> hd, tail |-> tl]
           /\ nx \in [Ring!Cell -> Ring!Cell] /\ pv \in [Ring!Cell -> Ring!Cell \cup {Ring!Past}]
           /\ w \in [Ring!Cell -> Value \cup {0}] /\ b \in 1 .. MaxBlocks /\ o \in BOOLEAN
    <3> WITNESS list.next, list.prev, list.val, list.blocks, list.stolen, list.head, list.tail
    <3> QED BY <2>1
  <2>3. q = Ring!Ring([next |-> nx, prev |-> pv, val |-> w, blocks |-> b, num |-> 0, stolen |-> o, head |-> hd, tail |-> tl])
    BY <2>2
  <2> HIDE DEF q, g
  <2> QED BY <2>2, <2>3, RingFresh DEF g
<1> HIDE DEF q, g
<1> DEFINE m == [q EXCEPT !.stolen = TRUE]
<1>6. PICK nx, pv, vl, bl, nm, st, hd, tl :
         q = [next |-> nx, prev |-> pv, val |-> vl, blocks |-> bl, num |-> nm, stolen |-> st, head |-> hd, tail |-> tl]
  BY <1>5, RecordFields
<1>7. m = [next |-> nx, prev |-> pv, val |-> vl, blocks |-> bl, num |-> nm, stolen |-> TRUE, head |-> hd, tail |-> tl]
  <2>1. PICK x : x = [q EXCEPT !.stolen = TRUE]
    OBVIOUS
  <2>2. x = [next |-> nx, prev |-> pv, val |-> vl, blocks |-> bl, num |-> nm, stolen |-> TRUE, head |-> hd, tail |-> tl]
    BY <1>6, <2>1
  <2> QED BY <2>1, <2>2
<1> HIDE DEF m
<1>8. /\ m.next = q.next /\ m.prev = q.prev /\ m.blocks = q.blocks /\ m.num = q.num
      /\ m.head = q.head /\ m.tail = q.tail /\ m.val = q.val
  BY <1>6, <1>7
<1>9. m \in TapRecord
  BY <1>5, <1>6, <1>7 DEF TapRecord
<1>10. ListHolds(m, <<>>, Size, g)
  <2>1. Looped(m, Size, g) /\ Stands(m, Size, g, m.tail, 0)
    BY <1>5, <1>8, SameLoop DEF ListHolds
  <2>2. /\ m.num <= Size /\ m.tail.data = g[0] /\ m.head.data = g[IF m.num = 0 THEN 0 ELSE m.num - 1]
        /\ m.head.next = m.next[m.head.data] /\ m.tail.prev = m.prev[m.tail.data] /\ m.tail.next # m.tail.data
        /\ m.num = Len(<<>>) /\ \A k \in 1 .. m.num : m.val[g[k - 1]] = <<>>[k]
        /\ Backs(m, m.head)
    BY <1>5, <1>8, Zenon DEF ListHolds, Backs
  <2> QED BY <2>1, <2>2 DEF ListHolds
<1>11. OnRing(m, <<>>, iter, -2) /\ -2 \in -2 .. m.num
  <2>1. OnRing(m, <<>>, iter, -2)
    BY <1>10 DEF OnRing
  <2>2. m.num \in Nat
    BY <1>9, RecordFields
  <2> QED BY <2>1, <2>2
<1>12. list' = m
  BY <1>4 DEF m
<1> QED BY <1>1, <1>3, <1>4, <1>9, <1>11, <1>12 DEF RingInv

LEMMA RingFirst ==
  ASSUME Ring!Init
  PROVE RingInv
<1> DEFINE z == [c \in Ring!Cell |-> 0]
           g == [k \in 0 .. Size - 1 |-> k]
<1>1. /\ list = Ring!Ring([next |-> z, prev |-> z, val |-> z, blocks |-> 1, num |-> 0, stolen |-> FALSE,
                           head |-> 0, tail |-> 0])
      /\ contents = <<>> /\ place = -2 /\ lost = FALSE /\ leaked = {-1}
  BY DEF Ring!Init, Ring!Alive, Ring!None
<1>2. 0 \in Ring!Cell /\ 1 \in 1 .. MaxBlocks
  <2>1. 1 \in 1 .. MaxBlocks /\ Size >= 2
    BY TapAssumption
  <2>2. 1 * Size <= Size * MaxBlocks /\ Size * MaxBlocks \in Nat /\ 1 * Size >= Size
    BY <2>1, BlockRoom
  <2> QED BY <2>1, <2>2, TapAssumption DEF Ring!Cell
<1>3. /\ z \in [Ring!Cell -> Ring!Cell] /\ z \in [Ring!Cell -> Ring!Cell \cup {Ring!Past}]
      /\ z \in [Ring!Cell -> Value \cup {0}]
  BY <1>2
<1> HIDE DEF z, g
<1>4. ListHolds(list, <<>>, Size, g) /\ list \in TapRecord
  BY <1>1, <1>2, <1>3, RingFresh DEF g
<1>5. OnRing(list, contents, iter, place)
  BY <1>1, <1>4 DEF OnRing
<1>6. place \in -2 .. list.num /\ contents \in Seq(Value)
  <2>1. list.num \in Nat
    BY <1>4, RecordFields
  <2>2. contents \in Seq(Value)
    BY <1>1, EmptySeq
  <2> QED BY <1>1, <2>1, <2>2
<1>7. leaked \subseteq -1 .. MaxBlocks
  BY <1>1, TapAssumption
<1> QED BY <1>1, <1>4, <1>5, <1>6, <1>7 DEF RingInv

LEMMA DestroyStep ==
  ASSUME RingInv, Ring!Destroy
  PROVE RingInv'
<1>1. list.blocks \in 1 .. MaxBlocks
  BY RingTypes
<1>2. leaked' \subseteq -1 .. MaxBlocks /\ list' = list /\ iter' = iter /\ contents' = contents /\ place' = place /\ lost' = lost
  <2>1. list.blocks - 1 \in -1 .. MaxBlocks
    BY <1>1, TapAssumption
  <2> QED BY <2>1 DEF Ring!Destroy
<1> QED BY <1>2 DEF RingInv

LEMMA RingStep ==
  ASSUME RingInv, [Ring!Next]_tapVars
  PROVE RingInv'
<1>1. CASE UNCHANGED tapVars
  BY <1>1 DEF RingInv, tapVars
<1>2. CASE Ring!Next
  <2>1. ASSUME NEW v \in Value, Ring!PushBack(v) PROVE RingInv'
    BY <2>1, PushBackStep
  <2>2. ASSUME NEW v \in Value, Ring!PushFront(v) PROVE RingInv'
    BY <2>2, PushFrontStep
  <2>3. CASE Ring!PopFront
    BY <2>3, PopFrontStep
  <2>4. CASE Ring!Begin \/ Ring!RBegin
    BY <2>4, BeginStep
  <2>5. CASE Ring!End \/ Ring!REnd
    BY <2>5, EndStep
  <2>6. CASE Ring!Increment
    BY <2>6, IncrementStep
  <2>7. CASE Ring!Decrement
    BY <2>7, DecrementStep
  <2>8. CASE Ring!EraseFromBegin
    BY <2>8, EraseFromBeginStep
  <2>9. CASE Ring!EraseFromEnd
    BY <2>9, EraseFromEndStep
  <2>10. CASE Ring!Clear
    BY <2>10, ClearStep
  <2>11. CASE Ring!Steal
    BY <2>11, StealStep
  <2>12. CASE Ring!Destroy
    BY <2>12, DestroyStep
  <2> QED BY <1>2, <2>1, <2>2, <2>3, <2>4, <2>5, <2>6, <2>7, <2>8, <2>9, <2>10, <2>11, <2>12 DEF Ring!Next
<1> QED BY <1>1, <1>2

\* The ring says what the cells from tail to head and the iterator are.
LEMMA RingMirrors ==
  ASSUME RingInv
  PROVE Ring!TypeOK /\ MirrorsList
<1>1. Ring!TypeOK
  BY RingTypes DEF Ring!TypeOK, Ring!None, TapIter
<1>2. ASSUME ~lost
      PROVE /\ list.num = Len(contents)
            /\ list.num > 0 => list.head.data = Ring!Ahead(list)[list.num - 1]
            /\ \A k \in 1 .. list.num : list.val[Ring!Ahead(list)[k - 1]] = contents[k]
            /\ place >= 0 => iter.data = Ring!Ahead(list)[place]
            /\ place = -1 => /\ iter.data = list.prev[list.tail.data]
                             /\ \A k \in 1 .. list.num : iter.data # Ring!Ahead(list)[k - 1]
  <2> DEFINE a == Ring!Ahead(list)
  <2>1. PICK N, r : /\ ListHolds(list, contents, N, r)
                    /\ place >= 0 => place < N /\ Stands(list, N, r, iter, place) /\ Backs(list, iter)
                    /\ place = -1 => Before(list, N, r, iter)
    BY <1>2 DEF RingInv, OnRing
  <2>2. /\ N \in Nat /\ list.num <= N /\ Looped(list, N, r) /\ list.tail.data = r[0]
        /\ list.head.data = r[IF list.num = 0 THEN 0 ELSE list.num - 1]
        /\ list.num = Len(contents) /\ \A k \in 1 .. list.num : list.val[r[k - 1]] = contents[k]
        /\ place >= 0 => iter.data = r[place]
    <3>1. place >= 0 => iter.data = r[place]
      BY <2>1 DEF Stands
    <3> QED BY <2>1, <3>1 DEF ListHolds, Looped
  <2>3. list.num \in Nat /\ place \in -2 .. list.num
    BY RingTypes
  <2>4. \A k \in 0 .. N - 1 : a[k] = r[k]
    BY <2>2, RingTypes, AheadIs
  <2> HIDE DEF a
  <2>5. list.num > 0 => list.head.data = a[list.num - 1]
    <3>1. list.num > 0 => list.num - 1 \in 0 .. N - 1
      BY <2>2, <2>3
    <3> QED BY <3>1, <2>2, <2>3, <2>4
  <2>6. ASSUME NEW k \in 1 .. list.num PROVE list.val[a[k - 1]] = contents[k]
    <3>1. k - 1 \in 0 .. N - 1
      BY <2>2, <2>3
    <3> QED BY <3>1, <2>2, <2>4
  <2>7. place >= 0 => iter.data = a[place]
    <3>1. place >= 0 => place \in 0 .. N - 1
      <4>1. place >= 0 => place < N
        BY <2>1
      <4> QED BY <4>1, <2>2, <2>3
    <3> QED BY <3>1, <2>2, <2>4
  <2>8. ASSUME place = -1
        PROVE iter.data = list.prev[list.tail.data] /\ \A k \in 1 .. list.num : iter.data # a[k - 1]
    <3>1. iter = Ring!At(list, r[N - 1]) /\ list.prev[r[0]] = r[N - 1] /\ list.num < N /\ list \in TapRecord
      <4>1. Before(list, N, r, iter)
        BY <2>1, <2>8
      <4> QED BY <4>1, RingTypes DEF Before
    <3>2. N - 1 \in 0 .. N - 1 /\ iter.data = r[N - 1] /\ \A x, y \in 0 .. N - 1 : r[x] = r[y] => x = y
      <4>1. N - 1 \in 0 .. N - 1 /\ \A x, y \in 0 .. N - 1 : r[x] = r[y] => x = y
        BY <2>2 DEF Looped
      <4> QED BY <4>1, <3>1, <2>2, Fresh
    <3>3. ASSUME NEW k \in 1 .. list.num PROVE iter.data # a[k - 1]
      <4>1. k - 1 \in 0 .. N - 1 /\ k - 1 # N - 1
        BY <2>2, <2>3, <3>1
      <4> QED BY <4>1, <2>4, <3>2
    <3> QED BY <2>2, <3>1, <3>2, <3>3
  <2> QED BY <2>2, <2>5, <2>6, <2>7, <2>8 DEF a
<1>3. MirrorsList
  BY <1>2 DEF MirrorsList, Ring!MirrorsList, Ring!BeforeBegin
<1> QED BY <1>1, <1>3

(* TapList: as long as no call has taken it off its ring, the list holds what *)
(* a std::list would after the same calls, the values on the cells from tail  *)
(* to head, and the caller's iterator is on the cell of its element, whatever *)
(* blocks were linked in since it was taken and however old its cached        *)
(* neighbours are.                                                           *)
THEOREM ListMirrored == RingSpec => [](Ring!TypeOK /\ MirrorsList)
<1>1. Ring!Init => RingInv
  BY RingFirst
<1>2. RingInv /\ [Ring!Next]_tapVars => RingInv'
  BY RingStep
<1>3. RingInv => Ring!TypeOK /\ MirrorsList
  BY RingMirrors
<1> QED BY <1>1, <1>2, <1>3, PTL DEF RingSpec
-----------------------------------------------------------------------------
(* Gz: buffers of any length, any number of records, and zlib failing at any *)
(* call.                                                                     *)

GzWriter == [zp : {"none", "ok", "failed"}, buffer : Seq(Nat), next : Nat]
GzReader == [zp : {"none", "ok", "null"}, pos : Nat, eof : BOOLEAN, buffer : Seq(Nat), next : Nat, old : BOOLEAN]

GzTypes ==
  /\ writer \in GzWriter
  /\ disk \in Seq(Nat) /\ given \in Seq(Nat) /\ taken \in Seq(Nat) /\ upset \in BOOLEAN
  /\ reader \in GzReader /\ reader.next <= Len(reader.buffer)

\* The file is written or read, not both at a time.
GzInv == /\ GzTypes /\ Zip!GivenKept /\ Zip!TakenInOrder
         /\ reader.zp = "ok" => writer.zp = "none" /\ reader.pos <= Len(disk)

\* What the proof needs of sequences of records.
LEMMA Joined == \A x, y, z \in Seq(Nat) : (x \o y) \o z = x \o (y \o z)
<1> DEFINE Laws(T) == \A s, t, u \in Seq(T) : (s \o t) \o u = s \o (t \o u)
<1>1. \A T : Laws(T)
  BY ConcatAssociative, Zenon
<1>2. Laws(Nat)
  <2> HIDE DEF Laws
  <2> QED BY <1>1, Zenon
<1> QED BY <1>2, Zenon

LEMMA OneMore ==
  ASSUME NEW x \in Seq(Nat), NEW n \in Nat
  PROVE <<n>> \in Seq(Nat) /\ Append(x, n) \in Seq(Nat) /\ Append(x, n) = x \o <<n>> /\ Append(x, n) # <<>>
<1>1. <<n>> \in Seq(Nat)
  OBVIOUS
<1>2. Append(x, n) \in Seq(Nat) /\ Len(Append(x, n)) = Len(x) + 1 /\ Len(x) \in Nat
  OBVIOUS
<1>3. Append(x, n) = x \o <<n>>
  BY AppendIsConcat
<1>4. Append(x, n) # <<>>
  BY <1>2
<1> QED BY <1>1, <1>2, <1>3, <1>4

LEMMA GzFirst == Zip!Init => GzInv
<1> SUFFICES ASSUME Zip!Init PROVE GzInv
  OBVIOUS
<1> USE DEF Zip!Init
<1>1. <<>> \in Seq(Nat) /\ Len(<<>>) = 0
  OBVIOUS
<1>2. writer \in GzWriter
  BY <1>1 DEF GzWriter
<1>3. reader \in GzReader /\ reader.next = 0 /\ reader.buffer = <<>>
  BY <1>1 DEF GzReader
<1>4. GzTypes
  <2>1. disk \in Seq(Nat) /\ given \in Seq(Nat) /\ taken \in Seq(Nat) /\ upset \in BOOLEAN
    BY <1>1
  <2>2. reader.next <= Len(reader.buffer)
    BY <1>1, <1>3
  <2> HIDE DEF Zip!Init
  <2> QED BY <1>2, <1>3, <2>1, <2>2 DEF GzTypes
<1> QED BY <1>4 DEF GzInv, Zip!GivenKept, Zip!TakenInOrder

\* While a writer is open nothing is read, so a step of the writer that keeps
\* the types needs only GivenKept.
LEMMA WriterStep ==
  ASSUME GzInv, writer.zp # "none", GzTypes', Zip!GivenKept', Zip!Others
  PROVE GzInv'
<1>1. reader.zp # "ok" /\ UNCHANGED reader
  BY DEF GzInv, Zip!Others
<1> QED BY <1>1 DEF GzInv, Zip!TakenInOrder

\* A flush that did not fail has put all of the records into the file.
LEMMA FlushKeeps ==
  ASSUME GzInv, writer.zp # "none", NEW d \in Seq(Nat), NEW g \in Seq(Nat), NEW u \in BOOLEAN,
         NEW keep \in BOOLEAN, NEW n \in Nat, d # <<>>,
         IF keep THEN ~u => writer.buffer = <<>> /\ g = d ELSE d = writer.buffer \o g,
         Zip!Flush(d, g, u, keep, n)
  PROVE GzInv'
<1>0. /\ writer \in GzWriter /\ writer.buffer \in Seq(Nat)
      /\ disk \in Seq(Nat) /\ given \in Seq(Nat) /\ upset \in BOOLEAN
      /\ GzTypes /\ (~upset => disk \o writer.buffer = given)
  BY DEF GzInv, GzTypes, GzWriter, Zip!GivenKept
<1>1. PICK r \in Zip!Gzwrite(d) :
         /\ disk' = disk \o Zip!Head1(d, r.put) /\ given' = given \o g
         /\ upset' = (upset \/ u \/ r.ret # Len(d))
         /\ writer' = [writer EXCEPT !.zp = r.zp, !.next = n,
                                     !.buffer = IF keep THEN writer.buffer ELSE IF r.ret = Len(d) THEN <<>> ELSE d]
         /\ Zip!Others
  BY <1>0 DEF Zip!Flush
<1>2. Len(d) \in Nat \ {0}
  BY EmptySeq
<1>3. /\ r.zp \in {"ok", "failed"} /\ r.put \in 0 .. Len(d)
      /\ r.ret = Len(d) => r.put = Len(d)
  <2>1. CASE r = [ret |-> Len(d), put |-> Len(d), zp |-> "ok"]
    BY <1>2, <2>1
  <2>2. CASE \E k \in IF writer.zp = "ok" THEN 0 .. Len(d) - 1 ELSE {0} : r = [ret |-> 0, put |-> k, zp |-> "failed"]
    <3>1. PICK k \in 0 .. Len(d) : r = [ret |-> 0, put |-> k, zp |-> "failed"]
      BY <1>2, <2>2
    <3> QED BY <1>2, <3>1
  <2> QED BY <1>1, <2>1, <2>2 DEF Zip!Gzwrite
<1>4. PICK p \in Seq(Nat) : p = Zip!Head1(d, r.put) /\ (r.put = Len(d) => p = d)
  <2>1. Zip!Head1(d, r.put) \in Seq(Nat)
    BY <1>2, <1>3 DEF Zip!Head1
  <2>2. r.put = Len(d) => Zip!Head1(d, r.put) = d
    BY SubSeqFull DEF Zip!Head1
  <2> QED BY <2>1, <2>2
<1>5. PICK b \in Seq(Nat) : b = IF keep THEN writer.buffer ELSE IF r.ret = Len(d) THEN <<>> ELSE d
  <2>1. CASE keep
    BY <1>0, <2>1
  <2>2. CASE ~keep
    <3>1. (IF r.ret = Len(d) THEN <<>> ELSE d) \in Seq(Nat)
      OBVIOUS
    <3> QED BY <2>2, <3>1
  <2> QED BY <2>1, <2>2
<1>6. writer' = [writer EXCEPT !.zp = r.zp, !.next = n, !.buffer = b]
  BY <1>1, <1>5
<1>7. writer' \in GzWriter /\ writer'.buffer = b
  <2>1. writer \in GzWriter
    BY <1>0
  <2> QED BY <1>3, <1>6, <2>1 DEF GzWriter
<1>8. GzTypes'
  <2>1. disk' \in Seq(Nat) /\ given' \in Seq(Nat)
    BY <1>0, <1>1, <1>4
  <2>2. upset' \in BOOLEAN
    BY <1>1
  <2>3. UNCHANGED <<reader, taken>>
    BY <1>1 DEF Zip!Others
  <2> QED BY <1>0, <1>7, <2>1, <2>2, <2>3 DEF GzTypes
<1>9. ASSUME ~upset' PROVE disk' \o writer'.buffer = given'
  <2>1. ~upset /\ ~u /\ r.ret = Len(d)
    BY <1>1, <1>9
  <2>2. disk' = disk \o d /\ disk \o writer.buffer = given /\ given' = given \o g
    BY <1>0, <1>1, <1>3, <1>4, <2>1
  <2>3. b = <<>>
    BY <1>5, <2>1
  <2>4. disk \o d = (disk \o writer.buffer) \o g
    <3>1. CASE keep
      <4>1. writer.buffer = <<>> /\ g = d
        BY <2>1, <3>1
      <4> QED BY <1>0, <4>1, ConcatEmptySeq
    <3>2. CASE ~keep
      <4>1. d = writer.buffer \o g
        BY <3>2
      <4>2. disk \in Seq(Nat) /\ writer.buffer \in Seq(Nat)
        BY <1>0
      <4>3. (disk \o writer.buffer) \o g = disk \o (writer.buffer \o g)
        BY <4>2, Joined, ZenonT(60)
      <4> QED BY <4>1, <4>3
    <3> QED BY <3>1, <3>2
  <2>5. (disk \o d) \o <<>> = disk \o d
    BY <1>0, ConcatEmptySeq
  <2> QED BY <1>7, <2>2, <2>3, <2>4, <2>5
<1> QED BY <1>1, <1>8, <1>9, WriterStep DEF Zip!GivenKept

LEMMA GzStep == GzInv /\ [Zip!Next]_gzVars => GzInv'
<1> SUFFICES ASSUME GzInv, [Zip!Next]_gzVars PROVE GzInv'
  OBVIOUS
<1>0. /\ writer \in GzWriter /\ writer.buffer \in Seq(Nat)
      /\ writer.next \in Nat /\ disk \in Seq(Nat) /\ given \in Seq(Nat) /\ taken \in Seq(Nat) /\ upset \in BOOLEAN
      /\ reader \in GzReader
      /\ reader.buffer \in Seq(Nat) /\ reader.pos \in Nat /\ reader.next \in 0 .. Len(reader.buffer) /\ GzTypes
      /\ reader.zp = "ok" => writer.zp = "none" /\ reader.pos <= Len(disk)
  BY DEF GzInv, GzTypes, GzWriter, GzReader
<1>w. writer \in GzWriter
  BY <1>0
<1>r. reader \in GzReader
  BY <1>0
<1>e. <<>> \in Seq(Nat) /\ Len(<<>>) = 0
  OBVIOUS
<1> DEFINE b == Append(writer.buffer, writer.next)
           one == <<writer.next>>
<1>a. one \in Seq(Nat) /\ b \in Seq(Nat) /\ b = writer.buffer \o one /\ b # <<>>
  BY <1>0, OneMore
<1> HIDE DEF b
<1>1. ASSUME UNCHANGED <<writer, disk, given, upset, reader, taken>> PROVE GzInv'
  BY <1>1 DEF GzInv, GzTypes, Zip!GivenKept, Zip!TakenInOrder, Zip!Rest
<1>2. CASE Zip!OpenWriter
  <2>1. given' = writer.buffer /\ UNCHANGED <<reader, taken>> /\ reader.zp = "none"
    BY <1>2 DEF Zip!OpenWriter, Zip!Others
  <2>2. PICK opened \in BOOLEAN :
             /\ writer' = [writer EXCEPT !.zp = IF opened THEN "ok" ELSE "failed"]
             /\ disk' = (IF opened THEN <<>> ELSE disk)
             /\ upset' = ~opened
    BY <1>2 DEF Zip!OpenWriter
  <2>3. writer' \in GzWriter /\ writer'.buffer = writer.buffer
    BY <1>w, <2>2 DEF GzWriter
  <2>4. GzTypes'
    BY <1>0, <1>e, <2>1, <2>2, <2>3 DEF GzTypes
  <2>5. ~upset' => disk' \o writer'.buffer = given'
    BY <1>0, <2>1, <2>2, <2>3, ConcatEmptySeq
  <2> QED BY <2>1, <2>4, <2>5 DEF GzInv, Zip!GivenKept, Zip!TakenInOrder
<1>3. CASE Zip!AppendRecord
  <2>1. CASE Len(b) = Len1
    <3>1. Zip!Flush(b, one, FALSE, FALSE, writer.next + 1) /\ writer.zp # "none"
      BY <1>3, <2>1 DEF Zip!AppendRecord, Zip!MayStore, b
    <3>2. FALSE \in BOOLEAN /\ writer.next + 1 \in Nat
      BY <1>0
    <3> QED BY <1>a, <3>1, <3>2, FlushKeeps
  <2>2. CASE Len(b) # Len1
    <3>1. /\ writer' = [writer EXCEPT !.buffer = b, !.next = writer.next + 1] /\ given' = Append(given, writer.next)
          /\ UNCHANGED <<disk, upset>> /\ Zip!Others /\ writer.zp # "none"
      BY <1>3, <2>2 DEF Zip!AppendRecord, Zip!MayStore, b
    <3>2. /\ writer' \in GzWriter /\ writer'.buffer = b
          /\ writer'.zp = writer.zp
      <4>1. writer.next + 1 \in Nat
        BY <1>0
      <4> QED BY <1>w, <1>a, <3>1, <4>1 DEF GzWriter
    <3>3. GzTypes'
      BY <1>0, <3>1, <3>2 DEF GzTypes, Zip!Others
    <3>4. ASSUME ~upset PROVE disk \o b = Append(given, writer.next)
      <4>1. disk \o writer.buffer = given
        BY <3>1, <3>4 DEF GzInv, Zip!GivenKept
      <4>2. disk \o b = (disk \o writer.buffer) \o one
        <5>1. disk \in Seq(Nat) /\ writer.buffer \in Seq(Nat) /\ one \in Seq(Nat)
          BY <1>0, <1>a
        <5>2. (disk \o writer.buffer) \o one = disk \o (writer.buffer \o one)
          BY <5>1, Joined
        <5> QED BY <1>a, <5>2
      <4> QED BY <1>0, <4>1, <4>2, AppendIsConcat
    <3>5. Zip!GivenKept'
      BY <3>1, <3>2, <3>4 DEF Zip!GivenKept
    <3> QED BY <3>1, <3>3, <3>5, WriterStep
  <2> QED BY <2>1, <2>2
<1>4. CASE Zip!WriteRecord
  <2>1. Zip!Flush(b, one, FALSE, FALSE, writer.next + 1) /\ writer.zp # "none"
    BY <1>4 DEF Zip!WriteRecord, Zip!MayStore, b
  <2>2. FALSE \in BOOLEAN /\ writer.next + 1 \in Nat
    BY <1>0
  <2> QED BY <1>a, <2>1, <2>2, FlushKeeps
<1>5. CASE Zip!FlushBuffer
  <2>1. writer.buffer = writer.buffer \o <<>> /\ <<>> \in Seq(Nat)
    BY <1>0, ConcatEmptySeq
  <2> QED BY <1>0, <1>5, <2>1, FlushKeeps DEF Zip!FlushBuffer
<1>6. ASSUME NEW n \in 1 .. 2, Zip!FlushOutside(n) PROVE GzInv'
  <2>1. PICK d : d = [i \in 1 .. n |-> writer.next + i - 1]
    OBVIOUS
  <2>2. d \in Seq(Nat) /\ Len(d) = n /\ writer.next + n \in Nat
    BY <1>0, <2>1, SMTT(30)
  <2>3. Zip!Flush(d, d, writer.buffer # <<>>, TRUE, writer.next + n) /\ writer.zp # "none"
    BY <1>6, <2>1 DEF Zip!FlushOutside
  <2>4. (writer.buffer # <<>>) \in BOOLEAN
    OBVIOUS
  <2>5. d # <<>>
    BY <1>e, <2>2
  <2> QED BY <2>2, <2>3, <2>4, <2>5, FlushKeeps
<1>7. CASE Zip!DestroyWriter
  <2>1. /\ writer' = [writer EXCEPT !.zp = "none", !.buffer = <<>>] /\ given' = disk /\ UNCHANGED <<disk, upset, reader, taken>>
        /\ writer.zp # "none"
    BY <1>7 DEF Zip!DestroyWriter, Zip!Others
  <2>2. writer' \in GzWriter /\ writer'.zp = "none"
    BY <1>w, <1>e, <2>1 DEF GzWriter
  <2> QED BY <1>0, <2>1, <2>2 DEF GzInv, GzTypes, Zip!GivenKept, Zip!TakenInOrder
<1>8. CASE Zip!OpenReader
  <2>1. PICK z \in {"ok", "null"} :
             /\ reader' = [reader EXCEPT !.zp = z, !.pos = 0, !.eof = FALSE, !.old = (Zip!Rest # <<>>)] /\ taken' = <<>>
             /\ UNCHANGED <<writer, disk, given, upset>> /\ writer.zp = "none"
    BY <1>8 DEF Zip!OpenReader, Zip!Outside
  <2>2. /\ reader'.pos = 0 /\ reader'.old = (Zip!Rest # <<>>) /\ reader'.buffer = reader.buffer /\ reader'.next = reader.next
        /\ reader' \in GzReader
    BY <1>r, <2>1 DEF GzReader
  <2>3. GzTypes'
    BY <1>0, <1>e, <2>1, <2>2 DEF GzTypes
  <2>4. ASSUME ~reader'.old PROVE taken' \o Zip!Rest' = Zip!Head1(disk, reader.pos)'
    <3>1. Zip!Rest' = <<>>
      BY <2>2, <2>4 DEF Zip!Rest
    <3>2. SubSeq(disk, 1, 0) = <<>>
      BY SubSeqEmpty
    <3> QED BY <2>1, <2>2, <3>1, <3>2 DEF Zip!Head1
  <2> QED BY <1>0, <2>1, <2>2, <2>3, <2>4 DEF GzInv, Zip!GivenKept, Zip!TakenInOrder
<1>9. CASE Zip!ReadRecords
  <2>1. PICK n : n = IF Len(disk) - reader.pos < Len2 THEN Len(disk) - reader.pos ELSE Len2
    OBVIOUS
  <2>2. n \in Nat /\ reader.pos + n \in reader.pos .. Len(disk) /\ reader.zp = "ok"
    BY <1>0, <1>9, <2>1, GzAssumption, SMTT(30) DEF Zip!ReadRecords
  <2>3. PICK s : s = SubSeq(disk, reader.pos + 1, reader.pos + n)
    OBVIOUS
  <2>4. s \in Seq(Nat) /\ SubSeq(s, 1, Len(s)) = s
    <3>1. s \in Seq(Nat)
      <4>0. PICK p \in Nat : p = reader.pos
        BY <1>0
      <4>1. \A i \in reader.pos + 1 .. reader.pos + n : i \in 1 .. Len(disk) /\ disk[i] \in Nat
        <5>1. p + n <= Len(disk) /\ p + n \in Nat /\ Len(disk) \in Nat
          BY <1>0, <2>2, <4>0, SMTT(60)
        <5>2. \A i \in p + 1 .. p + n : i \in 1 .. Len(disk)
          BY <2>2, <5>1
        <5>3. \A i \in 1 .. Len(disk) : disk[i] \in Nat
          BY <1>0
        <5> QED BY <4>0, <5>2, <5>3
      <4>2. reader.pos + 1 \in Int /\ reader.pos + n \in Int
        BY <1>0, <2>2
      <4> QED BY <2>3, <4>1, <4>2, SubSeqProperties
    <3> QED BY <3>1, SubSeqFull
  <2>5. /\ reader' = [reader EXCEPT !.buffer = s, !.next = 0, !.pos = reader.pos + n, !.eof = (n < Len2),
                                    !.old = (reader.old \/ Zip!Rest # <<>>)]
        /\ UNCHANGED <<writer, disk, given, upset, taken>>
    BY <1>9, <2>1, <2>3 DEF Zip!ReadRecords, Zip!Outside
  <2>6. /\ reader'.pos = reader.pos + n /\ reader'.old = (reader.old \/ Zip!Rest # <<>>) /\ reader'.buffer = s
        /\ reader'.next = 0
        /\ reader' \in GzReader
    <3>1. reader.pos + n \in Nat
      BY <1>0, <2>2
    <3>2. PICK e \in BOOLEAN : e = (n < Len2)
      <4>1. (n < Len2) \in BOOLEAN
        BY <2>2, GzAssumption
      <4> QED BY <4>1, Zenon
    <3>3. PICK o \in BOOLEAN : o = (reader.old \/ Zip!Rest # <<>>)
      OBVIOUS
    <3>4. reader' = [reader EXCEPT !.buffer = s, !.next = 0, !.pos = reader.pos + n, !.eof = e, !.old = o]
      BY <2>5, <3>2, <3>3
    <3> QED BY <1>r, <2>4, <3>1, <3>3, <3>4 DEF GzReader
  <2>7. GzTypes'
    BY <1>0, <2>4, <2>5, <2>6 DEF GzTypes
  <2>8. ASSUME ~reader'.old PROVE taken' \o Zip!Rest' = Zip!Head1(disk, reader.pos)'
    <3>1. ~reader.old /\ Zip!Rest = <<>>
      BY <2>6, <2>8
    <3>2. taken = SubSeq(disk, 1, reader.pos)
      BY <1>0, <2>2, <3>1, ConcatEmptySeq, SMTT(30) DEF GzInv, Zip!TakenInOrder, Zip!Head1
    <3>3. Zip!Rest' = s
      BY <2>4, <2>6 DEF Zip!Rest
    <3>4. SubSeq(disk, 1, reader.pos) \o SubSeq(disk, reader.pos + 1, reader.pos + n) = SubSeq(disk, 1, reader.pos + n)
      <4>1. /\ 1 \in 1 .. Len(disk) + 1 /\ reader.pos \in 1 - 1 .. Len(disk)
            /\ reader.pos + n \in reader.pos .. Len(disk)
        BY <1>0, <2>2
      <4> QED BY <1>0, <4>1, ConcatAdjacentSubSeq, Zenon
    <3> QED BY <2>3, <2>5, <2>6, <3>2, <3>3, <3>4 DEF Zip!Head1
  <2> QED BY <1>0, <2>2, <2>5, <2>6, <2>7, <2>8, SMTT(30) DEF GzInv, Zip!GivenKept, Zip!TakenInOrder
<1>10. CASE Zip!TakeOne
  <2>1. PICK x : x = reader.buffer[reader.next + 1]
    OBVIOUS
  <2>2. /\ reader.next + 1 \in 1 .. Len(reader.buffer) /\ taken' = Append(taken, x) /\ x \in Nat
        /\ reader' = [reader EXCEPT !.next = reader.next + 1] /\ UNCHANGED <<writer, disk, given, upset>>
    <3>1. reader.next + 1 \in 1 .. Len(reader.buffer)
      BY <1>0, <1>10, SMTT(30) DEF Zip!TakeOne
    <3>2. x \in Nat
      BY <1>0, <2>1, <3>1, SMTT(30)
    <3> QED BY <1>10, <2>1, <3>1, <3>2 DEF Zip!TakeOne, Zip!Outside
  <2>3. /\ reader'.pos = reader.pos /\ reader'.old = reader.old /\ reader'.zp = reader.zp
        /\ reader'.buffer = reader.buffer /\ reader'.next = reader.next + 1
        /\ reader' \in GzReader
    <3>1. reader.next + 1 \in Nat
      BY <1>0
    <3> QED BY <1>r, <2>2, <3>1 DEF GzReader
  <2>4. GzTypes'
    BY <1>0, <2>2, <2>3 DEF GzTypes
  <2>5. PICK s \in Seq(Nat) : s = reader.buffer
    BY <1>0
  <2>6. PICK m \in 1 .. Len(s) : m = reader.next + 1
    BY <2>2, <2>5
  <2>7. PICK t : t = SubSeq(s, m + 1, Len(s))
    OBVIOUS
  <2>8. t \in Seq(Nat) /\ t = Zip!Rest'
    <3>1. \A i \in m + 1 .. Len(s) : s[i] \in Nat
      BY <2>5, <2>6
    <3>2. t \in Seq(Nat)
      BY <2>7, <3>1, SubSeqProperties
    <3> QED BY <2>3, <2>5, <2>6, <2>7, <3>2 DEF Zip!Rest
  <2>9. Zip!Rest = <<x>> \o t
    <3>1. Len(s) \in m .. Len(s)
      BY <2>5, <2>6
    <3>2. SubSeq(s, m, Len(s)) = <<s[m]>> \o SubSeq(s, m + 1, Len(s))
      BY <2>5, <2>6, <3>1, SubSeqRecursiveFirst
    <3> QED BY <2>1, <2>5, <2>6, <2>7, <3>2 DEF Zip!Rest
  <2>10. Append(taken, x) \o t = taken \o (<<x>> \o t)
    <3>1. Append(taken, x) = taken \o <<x>> /\ <<x>> \in Seq(Nat)
      BY <1>0, <2>2, OneMore
    <3>2. taken \in Seq(Nat)
      BY <1>0
    <3>3. (taken \o <<x>>) \o t = taken \o (<<x>> \o t)
      BY <2>8, <3>1, <3>2, Joined
    <3> QED BY <3>1, <3>3
  <2> QED BY <1>0, <2>2, <2>3, <2>4, <2>8, <2>9, <2>10 DEF GzInv, Zip!GivenKept, Zip!TakenInOrder, Zip!Head1
<1>11. CASE Zip!CloseReader
  <2>1. /\ reader' = [reader EXCEPT !.zp = "none", !.pos = 0, !.buffer = <<>>, !.next = 0] /\ taken' = <<>>
        /\ UNCHANGED <<writer, disk, given, upset>>
    BY <1>11 DEF Zip!CloseReader, Zip!Outside
  <2>2. /\ reader'.zp = "none" /\ reader'.buffer = <<>> /\ reader'.next = 0
        /\ reader' \in GzReader
    BY <1>r, <1>e, <2>1 DEF GzReader
  <2> QED BY <1>0, <2>1, <2>2 DEF GzInv, GzTypes, Zip!GivenKept, Zip!TakenInOrder
<1>12. CASE Zip!EndText
  BY <1>1, <1>12 DEF Zip!EndText, Zip!Quiet
<1>13. ASSUME NEW n, Zip!ReadText(n) PROVE GzInv'
  BY <1>1, <1>13 DEF Zip!ReadText, Zip!Quiet
<1>14. ASSUME NEW t, Zip!OpenText(t) PROVE GzInv'
  BY <1>1, <1>14 DEF Zip!OpenText, Zip!Quiet
<1>15. CASE UNCHANGED gzVars
  BY <1>1, <1>15 DEF gzVars
<1> QED BY <1>2, <1>3, <1>4, <1>5, <1>6, <1>7, <1>8, <1>9, <1>10, <1>11, <1>12, <1>13, <1>14, <1>15 DEF Zip!Next

-----------------------------------------------------------------------------
(* read_gz_file: any text, and gzread giving one or two of its characters.   *)


Char == {"c", "cr", "nl"}
TextRecord == [left : Seq(Char), line : Seq(Char), lines : Seq(Seq(Char))]

LEMMA BareIs ==
  ASSUME NEW w \in Seq(Char), NEW b, b = Zip!Bare(w)
  PROVE /\ b \in [0 .. Len(w) -> Seq(Char)] /\ b[0] = <<>>
        /\ \A k \in 1 .. Len(w) : b[k] = IF w[k] = "cr" THEN b[k - 1] ELSE Append(b[k - 1], w[k])
<1> DEFINE V == Seq(Char)
           s == [p \in (1 .. Len(w)) \X V |-> IF w[p[1]] = "cr" THEN p[2] ELSE Append(p[2], w[p[1]])]
           F(f) == [k \in 0 .. Len(w) |-> IF k = 0 THEN <<>>
                                          ELSE IF w[k] = "cr" THEN f[k - 1] ELSE Append(f[k - 1], w[k])]
<1>1. s \in [(1 .. Len(w)) \X V -> V]
  <2>1. ASSUME NEW p \in (1 .. Len(w)) \X V
        PROVE (IF w[p[1]] = "cr" THEN p[2] ELSE Append(p[2], w[p[1]])) \in V
    <3>1. p[1] \in 1 .. Len(w) /\ p[2] \in V /\ w[p[1]] \in Char
      OBVIOUS
    <3>2. Append(p[2], w[p[1]]) \in V
      BY <3>1
    <3> QED BY <3>1, <3>2
  <2> QED BY <2>1
<1>2. <<>> \in V /\ Len(w) \in Nat
  OBVIOUS
<1>3. ASSUME NEW k \in 1 .. Len(w), NEW v \in V
      PROVE s[<<k, v>>] = IF w[k] = "cr" THEN v ELSE Append(v, w[k])
  OBVIOUS
<1> HIDE DEF s, V
<1>4. PICK f : Steps(Len(w), V, <<>>, s, f)
  BY <1>1, <1>2, StepsExist
<1>5. f \in [0 .. Len(w) -> V] /\ f[0] = <<>> /\ \A k \in 1 .. Len(w) : f[k] = s[<<k, f[k - 1]>>]
  BY <1>4 DEF Steps
<1>6. ASSUME NEW k \in 1 .. Len(w) PROVE f[k] = IF w[k] = "cr" THEN f[k - 1] ELSE Append(f[k - 1], w[k])
  <2>1. f[k - 1] \in V
    BY <1>2, <1>5
  <2> QED BY <1>3, <1>5, <2>1
<1>7. ASSUME NEW k \in 0 .. Len(w)
      PROVE f[k] = IF k = 0 THEN <<>> ELSE IF w[k] = "cr" THEN f[k - 1] ELSE Append(f[k - 1], w[k])
  <2>1. CASE k = 0
    BY <1>5, <2>1
  <2>2. CASE k # 0
    <3>1. k \in 1 .. Len(w)
      BY <1>2, <2>2
    <3> QED BY <1>6, <2>2, <3>1
  <2> QED BY <2>1, <2>2
<1>8. f = F(f)
  BY <1>5, <1>7
<1>9. b = F(b)
  <2>1. b = CHOOSE g : g = F(g)
    BY DEF Zip!Bare
  <2> HIDE DEF F
  <2> QED BY <1>8, <2>1
<1>10. b[0] = <<>>
  BY <1>2, <1>9
<1>11. ASSUME NEW k \in 1 .. Len(w) PROVE b[k] = IF w[k] = "cr" THEN b[k - 1] ELSE Append(b[k - 1], w[k])
  <2>1. k \in 0 .. Len(w) /\ k # 0
    BY <1>2
  <2>2. F(b)[k] = IF w[k] = "cr" THEN b[k - 1] ELSE Append(b[k - 1], w[k])
    BY <2>1
  <2> HIDE DEF F
  <2> QED BY <1>9, <2>2
<1>12. \A k \in 0 .. Len(w) : b[k] = f[k]
  <2> DEFINE S == {k \in 0 .. Len(w) : b[k] = f[k]}
  <2>1. 0 \in S
    BY <1>2, <1>5, <1>10
  <2>2. ASSUME NEW k \in 1 .. Len(w), k - 1 \in S PROVE k \in S
    <3>1. b[k - 1] = f[k - 1]
      BY <2>2
    <3> QED BY <1>6, <1>11, <3>1
  <2> HIDE DEF S
  <2>3. \A k \in 0 .. Len(w) : k \in S
    BY <1>2, <2>1, <2>2, UpTo
  <2> QED BY <2>3 DEF S
<1>13. b = f
  <2>1. b = [k \in 0 .. Len(w) |-> b[k]]
    BY <1>9
  <2>2. f = [k \in 0 .. Len(w) |-> f[k]]
    BY <1>5
  <2> QED BY <1>12, <2>1, <2>2
<1> QED BY <1>5, <1>6, <1>13 DEF V
\* The text of lines, joined one after the other.
JoinedUp(ls, u) == /\ u \in [0 .. Len(ls) -> Seq(Char)] /\ u[0] = <<>>
                   /\ \A k \in 1 .. Len(ls) : u[k] = u[k - 1] \o Append(ls[k], "nl")

LEMMA EndLine ==
  ASSUME NEW x \in Seq(Char), NEW l \in Seq(Char)
  PROVE /\ Append(l, "nl") \in Seq(Char) /\ x \o Append(l, "nl") \in Seq(Char)
        /\ x \o Append(l, "nl") = Append(x \o l, "nl")
<1>1. "nl" \in Char
  BY DEF Char
<1>2. Append(l, "nl") \in Seq(Char)
  BY <1>1
<1>3. x \o l \in Seq(Char) /\ x \o Append(l, "nl") \in Seq(Char)
  BY <1>2
<1>4. x \o Append(l, "nl") = Append(x \o l, "nl")
  <2>1. Len(x \o Append(l, "nl")) = Len(Append(x \o l, "nl"))
    BY <1>1, <1>2, <1>3
  <2> QED BY <1>1, <1>2, <1>3
<1> QED BY <1>2, <1>3, <1>4

LEMMA UnsplitIs ==
  ASSUME NEW ls \in Seq(Seq(Char))
  PROVE \E u : JoinedUp(ls, u) /\ Zip!Unsplit(ls) = u[Len(ls)]
<1> DEFINE V == Seq(Char)
           s == [p \in (1 .. Len(ls)) \X V |-> p[2] \o Append(ls[p[1]], "nl")]
           F(f) == [k \in 0 .. Len(ls) |-> IF k = 0 THEN <<>> ELSE f[k - 1] \o Append(ls[k], "nl")]
<1>1. s \in [(1 .. Len(ls)) \X V -> V]
  <2>1. ASSUME NEW p \in (1 .. Len(ls)) \X V PROVE p[2] \o Append(ls[p[1]], "nl") \in V
    <3>1. p[1] \in 1 .. Len(ls) /\ p[2] \in V /\ ls[p[1]] \in V
      OBVIOUS
    <3> QED BY <3>1, EndLine
  <2> QED BY <2>1
<1>2. <<>> \in V /\ Len(ls) \in Nat
  OBVIOUS
<1>3. ASSUME NEW k \in 1 .. Len(ls), NEW v \in V PROVE s[<<k, v>>] = v \o Append(ls[k], "nl")
  OBVIOUS
<1> HIDE DEF s, V
<1>4. PICK f : Steps(Len(ls), V, <<>>, s, f)
  BY <1>1, <1>2, StepsExist
<1>5. f \in [0 .. Len(ls) -> V] /\ f[0] = <<>> /\ \A k \in 1 .. Len(ls) : f[k] = s[<<k, f[k - 1]>>]
  BY <1>4 DEF Steps
<1>6. ASSUME NEW k \in 1 .. Len(ls) PROVE f[k] = f[k - 1] \o Append(ls[k], "nl")
  <2>1. f[k - 1] \in V
    <3>1. k - 1 \in 0 .. Len(ls)
      BY <1>2
    <3> QED BY <1>5, <3>1
  <2>2. f[k] = s[<<k, f[k - 1]>>]
    BY <1>5
  <2>3. s[<<k, f[k - 1]>>] = f[k - 1] \o Append(ls[k], "nl")
    BY <1>3, <2>1
  <2> QED BY <2>2, <2>3
<1>7. ASSUME NEW k \in 0 .. Len(ls)
      PROVE f[k] = IF k = 0 THEN <<>> ELSE f[k - 1] \o Append(ls[k], "nl")
  <2>1. CASE k = 0
    BY <1>5, <2>1
  <2>2. CASE k # 0
    <3>1. k \in 1 .. Len(ls)
      BY <1>2, <2>2
    <3> QED BY <1>6, <2>2, <3>1
  <2> QED BY <2>1, <2>2
<1>8. f = F(f)
  BY <1>5, <1>7
<1> DEFINE b == CHOOSE g : g = F(g)
<1>9. b = F(b)
  <2> HIDE DEF F
  <2> QED BY <1>8
<1>u. Zip!Unsplit(ls) = b[Len(ls)]
  BY DEF Zip!Unsplit
<1> HIDE DEF b
<1>10. b[0] = <<>>
  BY <1>2, <1>9
<1>11. ASSUME NEW k \in 1 .. Len(ls) PROVE b[k] = b[k - 1] \o Append(ls[k], "nl")
  <2>1. k \in 0 .. Len(ls) /\ k # 0
    BY <1>2
  <2>2. F(b)[k] = b[k - 1] \o Append(ls[k], "nl")
    BY <2>1
  <2> HIDE DEF F
  <2> QED BY <1>9, <2>2
<1>12. \A k \in 0 .. Len(ls) : b[k] = f[k]
  <2> DEFINE S == {k \in 0 .. Len(ls) : b[k] = f[k]}
  <2>1. 0 \in S
    BY <1>2, <1>5, <1>10
  <2>2. ASSUME NEW k \in 1 .. Len(ls), k - 1 \in S PROVE k \in S
    <3>1. b[k - 1] = f[k - 1]
      BY <2>2
    <3>2. b[k] = b[k - 1] \o Append(ls[k], "nl")
      BY <1>11
    <3>3. f[k] = f[k - 1] \o Append(ls[k], "nl")
      BY <1>6
    <3>4. k \in 0 .. Len(ls)
      BY <1>2
    <3> QED BY <3>1, <3>2, <3>3, <3>4
  <2> HIDE DEF S
  <2>3. \A k \in 0 .. Len(ls) : k \in S
    BY <1>2, <2>1, <2>2, UpTo
  <2> QED BY <2>3 DEF S
<1>13. b[Len(ls)] = f[Len(ls)]
  BY <1>2, <1>12
<1>14. JoinedUp(ls, f)
  BY <1>5, <1>6 DEF JoinedUp, V
<1> QED BY <1>13, <1>14, <1>u

\* The text of lines ends with the end of the last one.
LEMMA UnsplitEnds ==
  ASSUME NEW ls \in Seq(Seq(Char)), NEW t, t = Zip!Unsplit(ls)
  PROVE t \in Seq(Char) /\ (t = <<>> \/ t[Len(t)] = "nl")
<1>1. PICK u : JoinedUp(ls, u) /\ t = u[Len(ls)]
  BY UnsplitIs
<1>2. u \in [0 .. Len(ls) -> Seq(Char)] /\ u[0] = <<>> /\ Len(ls) \in Nat
  BY <1>1 DEF JoinedUp
<1>3. CASE Len(ls) = 0
  BY <1>1, <1>2, <1>3
<1>4. CASE Len(ls) # 0
  <2> DEFINE x == u[Len(ls) - 1]
             l == ls[Len(ls)]
  <2>1. x \in Seq(Char) /\ l \in Seq(Char) /\ Len(ls) \in 1 .. Len(ls)
    BY <1>2, <1>4, SMTT(60)
  <2>2. t = x \o Append(l, "nl")
    BY <1>1, <2>1 DEF JoinedUp
  <2> HIDE DEF x, l
  <2>3. t = Append(x \o l, "nl") /\ x \o l \in Seq(Char) /\ t \in Seq(Char)
    BY <2>1, <2>2, EndLine
  <2>4. t[Len(t)] = "nl"
    BY <2>3
  <2> QED BY <2>3, <2>4
<1> QED BY <1>3, <1>4

\* One line more.
LEMMA UnsplitMore ==
  ASSUME NEW ls \in Seq(Seq(Char)), NEW l \in Seq(Char)
  PROVE Zip!Unsplit(Append(ls, l)) = Append(Zip!Unsplit(ls) \o l, "nl")
<1> DEFINE ms == Append(ls, l)
<1>1. ms \in Seq(Seq(Char)) /\ Len(ms) = Len(ls) + 1 /\ ms[Len(ms)] = l /\ Len(ls) \in Nat
      /\ \A k \in 1 .. Len(ls) : ms[k] = ls[k]
  OBVIOUS
<1> HIDE DEF ms
<1>2. PICK u : JoinedUp(ls, u) /\ Zip!Unsplit(ls) = u[Len(ls)]
  BY UnsplitIs
<1>3. PICK v : JoinedUp(ms, v) /\ Zip!Unsplit(ms) = v[Len(ms)]
  BY <1>1, UnsplitIs
<1>4. \A k \in 0 .. Len(ls) : u[k] = v[k]
  <2> DEFINE S == {k \in 0 .. Len(ls) : u[k] = v[k]}
  <2>1. 0 \in S
    BY <1>1, <1>2, <1>3 DEF JoinedUp
  <2>2. ASSUME NEW k \in 1 .. Len(ls), k - 1 \in S PROVE k \in S
    <3>1. u[k - 1] = v[k - 1] /\ k \in 1 .. Len(ms) /\ ms[k] = ls[k]
      BY <1>1, <2>2
    <3>2. u[k] = u[k - 1] \o Append(ls[k], "nl")
      BY <1>2 DEF JoinedUp
    <3>3. v[k] = v[k - 1] \o Append(ms[k], "nl")
      BY <1>3, <3>1 DEF JoinedUp
    <3>4. u[k] = v[k]
      BY <3>1, <3>2, <3>3
    <3> QED BY <3>4
  <2> HIDE DEF S
  <2>3. \A k \in 0 .. Len(ls) : k \in S
    BY <1>1, <2>1, <2>2, UpTo
  <2> QED BY <2>3 DEF S
<1>5. Len(ms) \in 1 .. Len(ms) /\ Len(ms) - 1 = Len(ls) /\ Len(ls) \in 0 .. Len(ls)
  BY <1>1
<1>6. v[Len(ms)] = v[Len(ls)] \o Append(l, "nl")
  BY <1>1, <1>3, <1>5 DEF JoinedUp
<1>7. v[Len(ls)] = Zip!Unsplit(ls) /\ Zip!Unsplit(ls) \in Seq(Char)
  BY <1>2, <1>4, <1>5, UnsplitEnds
<1> QED BY <1>3, <1>6, <1>7, EndLine DEF ms

NoNewline(l) == \A j \in 1 .. Len(l) : l[j] # "nl"

\* The lines and the line so far are the text s, s has no carriage return.
ReadSo(t, s) == /\ t \in TextRecord /\ s = Zip!Unsplit(t.lines) \o t.line
                /\ NoNewline(t.line) /\ \A i \in 1 .. Len(t.lines) : NoNewline(t.lines[i])

\* One character more.
LEMMA TakeKeeps ==
  ASSUME NEW t, NEW s, ReadSo(t, s), NEW c \in Char, NEW u, u = Zip!Take(t, c)
  PROVE u.left = t.left /\ ReadSo(u, IF c = "cr" THEN s ELSE Append(s, c))
<1>0. /\ t.left \in Seq(Char) /\ t.line \in Seq(Char) /\ t.lines \in Seq(Seq(Char))
      /\ t = [left |-> t.left, line |-> t.line, lines |-> t.lines]
  BY DEF ReadSo, TextRecord
<1>1. Zip!Unsplit(t.lines) \in Seq(Char)
  BY <1>0, UnsplitEnds
<1>2. CASE c = "cr"
  BY <1>2 DEF Zip!Take
<1>3. CASE c = "nl"
  <2>1. u = [left |-> t.left, line |-> <<>>, lines |-> Append(t.lines, t.line)]
    BY <1>0, <1>3 DEF Zip!Take
  <2>2. PICK ms : ms = Append(t.lines, t.line)
    OBVIOUS
  <2>3. /\ ms \in Seq(Seq(Char)) /\ Len(ms) = Len(t.lines) + 1 /\ ms[Len(ms)] = t.line
        /\ \A i \in 1 .. Len(t.lines) : ms[i] = t.lines[i]
    BY <1>0, <2>2
  <2>4. \A i \in 1 .. Len(ms) : NoNewline(ms[i])
    <3>1. ASSUME NEW i \in 1 .. Len(ms) PROVE i \in 1 .. Len(t.lines) \/ i = Len(ms)
      BY <1>0, <2>3
    <3> QED BY <2>3, <3>1 DEF ReadSo
  <2>5. Zip!Unsplit(ms) = Append(s, "nl")
    BY <1>0, <2>2, UnsplitMore DEF ReadSo
  <2>6. Zip!Unsplit(ms) \in Seq(Char) /\ Zip!Unsplit(ms) \o <<>> = Zip!Unsplit(ms)
    BY <2>3, UnsplitEnds, ConcatEmptySeq
  <2>7. <<>> \in Seq(Char) /\ NoNewline(<<>>)
    BY DEF NoNewline
  <2>8. u \in TextRecord
    BY <1>0, <2>1, <2>2, <2>3, <2>7 DEF TextRecord
  <2>9. u.line = <<>> /\ u.lines = ms /\ u.left = t.left
    BY <2>1, <2>2
  <2>10. (IF c = "cr" THEN s ELSE Append(s, c)) = Append(s, "nl")
    BY <1>3
  <2>11. ReadSo(u, Append(s, "nl"))
    BY <2>4, <2>5, <2>6, <2>7, <2>8, <2>9 DEF ReadSo
  <2> QED BY <2>9, <2>10, <2>11
<1>4. CASE c = "c"
  <2>1. u = [left |-> t.left, line |-> Append(t.line, c), lines |-> t.lines]
    BY <1>0, <1>4 DEF Zip!Take
  <2>2. PICK l : l = Append(t.line, c)
    OBVIOUS
  <2>3. /\ l \in Seq(Char) /\ Len(l) = Len(t.line) + 1 /\ l[Len(l)] = c
        /\ \A j \in 1 .. Len(t.line) : l[j] = t.line[j]
    BY <1>0, <2>2
  <2>4. NoNewline(l)
    <3>1. ASSUME NEW j \in 1 .. Len(l) PROVE j \in 1 .. Len(t.line) \/ j = Len(l)
      BY <1>0, <2>3
    <3> QED BY <1>4, <2>3, <3>1 DEF ReadSo, NoNewline
  <2>5. Zip!Unsplit(t.lines) \o l = Append(s, c)
    <3> DEFINE x == Zip!Unsplit(t.lines)
    <3>1. x \in Seq(Char) /\ s = x \o t.line
      BY <1>1 DEF ReadSo
    <3> HIDE DEF x
    <3>2. x \o Append(t.line, c) = Append(x \o t.line, c)
      BY <1>0, <3>1
    <3> QED BY <2>2, <3>1, <3>2 DEF x
  <2>6. u \in TextRecord
    BY <1>0, <2>1, <2>2, <2>3 DEF TextRecord
  <2>7. u.line = l /\ u.lines = t.lines /\ u.left = t.left
    BY <2>1, <2>2
  <2>8. (IF c = "cr" THEN s ELSE Append(s, c)) = Append(s, c)
    BY <1>4
  <2>9. ReadSo(u, Append(s, c))
    BY <2>4, <2>5, <2>6, <2>7 DEF ReadSo
  <2> QED BY <2>7, <2>8, <2>9
<1> QED BY <1>2, <1>3, <1>4 DEF Char

\* What read_gz_file has of the text when k of its characters are read; and
\* when it has added the last line, which had no end.
ReadUpTo(k) == ReadSo(text, Zip!Bare(whole)[k])
Added == LET s == Zip!Bare(whole)[Len(whole)]
         IN /\ text.left = <<>> /\ text.line = <<>> /\ s # <<>> /\ s[Len(s)] # "nl"
            /\ Zip!Unsplit(text.lines) = Append(s, "nl")
            /\ \A i \in 1 .. Len(text.lines) : NoNewline(text.lines[i])

\* k characters of the text were read, the rest is left.
LeftFrom(k) == \A i \in 1 .. Len(text.left) : text.left[i] = whole[k + i]

TextInv ==
  \/ whole = "none" /\ text = Zip!NoText
  \/ /\ whole \in Seq(Char) /\ text \in TextRecord
     /\ \E k \in 0 .. Len(whole) : k + Len(text.left) = Len(whole) /\ LeftFrom(k) /\ (ReadUpTo(k) \/ Added)

\* The characters that one gzread gives are taken one by one.
LEMMA AfterIs ==
  ASSUME NEW n \in Nat, text \in TextRecord, n <= Len(text.left),
         whole \in Seq(Char), NEW k \in Nat, k + Len(text.left) = Len(whole), ReadUpTo(k), LeftFrom(k),
         NEW t, t = Zip!TextAfter(n)
  PROVE /\ ReadSo(t, Zip!Bare(whole)[k + n])
        /\ t.left = SubSeq(text.left, n + 1, Len(text.left))
<1> DEFINE V == TextRecord
           s == [p \in (1 .. n) \X V |-> Zip!Take(p[2], text.left[p[1]])]
           F(f) == [j \in 0 .. n |-> IF j = 0 THEN text ELSE Zip!Take(f[j - 1], text.left[j])]
<1>0. text.left \in Seq(Char) /\ Len(text.left) \in Nat
  BY DEF TextRecord
<1>c. \A j \in 1 .. n : text.left[j] \in Char
  BY <1>0
<1>1. s \in [(1 .. n) \X V -> V]
  <2>1. ASSUME NEW r \in V, NEW c \in Char PROVE Zip!Take(r, c) \in V
    <3>1. r.left \in Seq(Char) /\ r.line \in Seq(Char) /\ r.lines \in Seq(Seq(Char))
      BY DEF TextRecord
    <3>2. r = [left |-> r.left, line |-> r.line, lines |-> r.lines]
      BY DEF TextRecord
    <3>3. PICK ls : ls = Append(r.lines, r.line)
      OBVIOUS
    <3>4. PICK l : l = Append(r.line, c)
      OBVIOUS
    <3>9. ls \in Seq(Seq(Char)) /\ l \in Seq(Char) /\ <<>> \in Seq(Char)
      BY <3>1, <3>3, <3>4
    <3>5. [left |-> r.left, line |-> <<>>, lines |-> ls] \in TextRecord /\ [left |-> r.left, line |-> l, lines |-> r.lines] \in TextRecord
      BY <3>1, <3>9 DEF TextRecord
    <3>6. CASE c = "nl"
      <4>1. Zip!Take(r, c) = [left |-> r.left, line |-> <<>>, lines |-> ls]
        BY <3>2, <3>3, <3>6 DEF Zip!Take
      <4> QED BY <3>5, <4>1
    <3>7. CASE c = "cr"
      BY <3>7 DEF Zip!Take
    <3>8. CASE c = "c"
      <4>1. Zip!Take(r, c) = [left |-> r.left, line |-> l, lines |-> r.lines]
        BY <3>2, <3>4, <3>8 DEF Zip!Take
      <4> QED BY <3>5, <4>1
    <3> QED BY <3>6, <3>7, <3>8 DEF Char
  <2>2. ASSUME NEW p \in (1 .. n) \X V PROVE Zip!Take(p[2], text.left[p[1]]) \in V
    <3>1. p[1] \in 1 .. n /\ p[2] \in V
      OBVIOUS
    <3> QED BY <1>c, <2>1, <3>1
  <2> QED BY <2>2
<1>2. ASSUME NEW j \in 1 .. n, NEW v \in V PROVE s[<<j, v>>] = Zip!Take(v, text.left[j])
  OBVIOUS
<1>3. text \in V
  OBVIOUS
<1> HIDE DEF s, V
<1>4. PICK f : Steps(n, V, text, s, f)
  BY <1>1, <1>3, StepsExist
<1>5. f \in [0 .. n -> V] /\ f[0] = text /\ \A j \in 1 .. n : f[j] = s[<<j, f[j - 1]>>]
  BY <1>4 DEF Steps
<1>6. ASSUME NEW j \in 1 .. n PROVE f[j] = Zip!Take(f[j - 1], text.left[j])
  <2>1. f[j - 1] \in V
    <3>1. j - 1 \in 0 .. n
      OBVIOUS
    <3> QED BY <1>5, <3>1
  <2>2. f[j] = s[<<j, f[j - 1]>>]
    BY <1>5
  <2>3. s[<<j, f[j - 1]>>] = Zip!Take(f[j - 1], text.left[j])
    BY <1>2, <2>1
  <2> QED BY <2>2, <2>3
<1>7. ASSUME NEW j \in 0 .. n
      PROVE f[j] = IF j = 0 THEN text ELSE Zip!Take(f[j - 1], text.left[j])
  <2>1. CASE j = 0
    BY <1>5, <2>1
  <2>2. CASE j # 0
    <3>1. j \in 1 .. n
      BY <2>2
    <3> QED BY <1>6, <2>2, <3>1
  <2> QED BY <2>1, <2>2
<1>8. f = F(f)
  BY <1>5, <1>7
<1> DEFINE b == CHOOSE g : g = F(g)
<1>9. b = F(b)
  <2> HIDE DEF F
  <2> QED BY <1>8
<1>t. t = [b[n] EXCEPT !.left = SubSeq(b[n].left, n + 1, Len(b[n].left))]
  BY DEF Zip!TextAfter
<1> HIDE DEF b
<1>10. b[0] = text
  BY <1>9
<1>11. ASSUME NEW j \in 1 .. n PROVE b[j] = Zip!Take(b[j - 1], text.left[j])
  <2>1. j \in 0 .. n /\ j # 0
    OBVIOUS
  <2>2. F(b)[j] = Zip!Take(b[j - 1], text.left[j])
    BY <2>1
  <2> HIDE DEF F
  <2> QED BY <1>9, <2>2
<1> DEFINE bare == Zip!Bare(whole)
           S == {j \in 0 .. n : b[j].left = text.left /\ ReadSo(b[j], bare[k + j])}
<1>12. 0 \in S
  <2>1. k + 0 = k
    OBVIOUS
  <2> QED BY <1>10, <2>1 DEF ReadUpTo
<1>13. ASSUME NEW j \in 1 .. n, j - 1 \in S PROVE j \in S
  <2> DEFINE c == text.left[j]
             r == b[j - 1]
  <2>1. r.left = text.left /\ ReadSo(r, bare[k + (j - 1)])
    BY <1>13
  <2>2. c \in Char /\ c = whole[k + j]
    <3>1. j \in 1 .. Len(text.left)
      BY <1>0
    <3>2. text.left[j] = whole[k + j]
      BY <3>1, Zenon DEF LeftFrom
    <3>3. text.left[j] \in Char
      BY <1>c, Zenon
    <3> QED BY <3>2, <3>3
  <2>3. k + j \in 1 .. Len(whole) /\ (k + j) - 1 = k + (j - 1)
    BY <1>0
  <2>4. bare[k + j] = IF c = "cr" THEN bare[k + (j - 1)] ELSE Append(bare[k + (j - 1)], c)
    <3>1. \A i \in 1 .. Len(whole) :
            bare[i] = IF whole[i] = "cr" THEN bare[i - 1] ELSE Append(bare[i - 1], whole[i])
      <4> HIDE DEF c, r, bare
      <4> QED BY BareIs DEF bare
    <3> HIDE DEF c, r, bare
    <3> QED BY <2>2, <2>3, <3>1
  <2>5. b[j] = Zip!Take(r, c)
    BY <1>11
  <2> HIDE DEF c, r, bare
  <2>6. b[j].left = r.left /\ ReadSo(b[j], IF c = "cr" THEN bare[k + (j - 1)] ELSE Append(bare[k + (j - 1)], c))
    BY <2>1, <2>2, <2>5, TakeKeeps, SMTT(60)
  <2>7. ReadSo(b[j], bare[k + j])
    BY <2>4, <2>6
  <2>8. b[j].left = text.left
    BY <2>1, <2>6
  <2> QED BY <2>7, <2>8 DEF c, r, bare
<1> HIDE DEF S
<1>14. n \in S
  <2>1. \A j \in 0 .. n : j \in S
    BY <1>12, <1>13, UpTo
  <2> QED BY <2>1
<1>15. b[n].left = text.left /\ ReadSo(b[n], bare[k + n])
  BY <1>14 DEF S
<1> HIDE DEF bare
<1>16. PICK r \in TextRecord : r = b[n]
  BY <1>15 DEF ReadSo
<1>17. /\ r.left \in Seq(Char) /\ r.line \in Seq(Char) /\ r.lines \in Seq(Seq(Char))
       /\ r = [left |-> r.left, line |-> r.line, lines |-> r.lines]
  BY DEF TextRecord
<1>18. PICK l \in Seq(Char) : l = SubSeq(text.left, n + 1, Len(text.left))
  <2>1. SubSeq(text.left, n + 1, Len(text.left)) \in Seq(Char)
    BY <1>0
  <2> QED BY <2>1
<1>19. t = [left |-> l, line |-> r.line, lines |-> r.lines]
  BY <1>t, <1>15, <1>16, <1>17, <1>18
<1>20. t \in TextRecord /\ t.line = r.line /\ t.lines = r.lines /\ t.left = l
  BY <1>17, <1>19 DEF TextRecord
<1>21. ReadSo(t, bare[k + n])
  BY <1>15, <1>16, <1>20 DEF ReadSo
<1> QED BY <1>18, <1>20, <1>21 DEF bare

\* The text of the lines is the text without carriage returns: it has an end
\* of its own, or Added has given it one.
LEMMA LinesAre ==
  ASSUME TextInv, whole # "none", text.left = <<>>, text.line = <<>>
  PROVE Zip!AreLines(text.lines, whole)
<1>0. /\ whole \in Seq(Char) /\ text \in TextRecord
      /\ \E k \in 0 .. Len(whole) : k + Len(text.left) = Len(whole) /\ LeftFrom(k) /\ (ReadUpTo(k) \/ Added)
  BY DEF TextInv
<1>1. PICK k \in 0 .. Len(whole) : k + Len(text.left) = Len(whole) /\ (ReadUpTo(k) \/ Added)
  BY <1>0
<1>2. k = Len(whole) /\ text.lines \in Seq(Seq(Char))
  <2>1. Len(text.left) = 0 /\ Len(whole) \in Nat
    BY <1>0
  <2> QED BY <1>0, <1>1, <2>1 DEF TextRecord
<1> DEFINE s == Zip!Bare(whole)[Len(whole)]
           ls == text.lines
<1>3. s \in Seq(Char)
  <2>1. Len(whole) \in 0 .. Len(whole)
    BY <1>0
  <2> QED BY <1>0, <2>1, BareIs
<1>4. Zip!Unsplit(ls) = IF s = <<>> \/ s[Len(s)] = "nl" THEN s ELSE Append(s, "nl")
  <2>1. CASE Added
    <3> HIDE DEF s, ls
    <3>1. s # <<>> /\ s[Len(s)] # "nl" /\ Zip!Unsplit(ls) = Append(s, "nl")
      BY <2>1 DEF Added, s, ls
    <3> QED BY <3>1
  <2>2. CASE ReadUpTo(Len(whole))
    <3>1. s = Zip!Unsplit(ls) \o <<>> /\ Zip!Unsplit(ls) \in Seq(Char)
      BY <1>2, <2>2, UnsplitEnds DEF ReadUpTo, ReadSo
    <3>2. s = Zip!Unsplit(ls)
      <4> HIDE DEF s, ls
      <4> QED BY <3>1, ConcatEmptySeq
    <3>3. s = <<>> \/ s[Len(s)] = "nl"
      <4> HIDE DEF s
      <4> QED BY <1>2, <3>2, UnsplitEnds
    <3> HIDE DEF s, ls
    <3> QED BY <3>2, <3>3
  <2> QED BY <1>1, <1>2, <2>1, <2>2
<1>5. \A i \in 1 .. Len(ls) : NoNewline(ls[i])
  BY <1>1 DEF ReadUpTo, ReadSo, Added
<1>6. \A i \in DOMAIN ls : \A j \in DOMAIN ls[i] : ls[i][j] # "nl"
  <2>1. DOMAIN ls = 1 .. Len(ls) /\ \A i \in 1 .. Len(ls) : DOMAIN ls[i] = 1 .. Len(ls[i])
    BY <1>2
  <2> QED BY <1>5, <2>1 DEF NoNewline
<1> QED BY <1>4, <1>6 DEF Zip!AreLines

LEMMA TextFirst == Zip!Init => TextInv
BY DEF Zip!Init, TextInv

LEMMA TextStep == TextInv /\ [Zip!Next]_gzVars => TextInv'
<1> SUFFICES ASSUME TextInv, [Zip!Next]_gzVars PROVE TextInv'
  OBVIOUS
<1>0. text \in TextRecord /\ text.left \in Seq(Char) /\ text.line \in Seq(Char) /\ text.lines \in Seq(Seq(Char))
  <2>1. CASE text = Zip!NoText
    BY <2>1 DEF Zip!NoText, TextRecord
  <2> QED BY <2>1 DEF TextInv, TextRecord
<1>i. text = [left |-> text.left, line |-> text.line, lines |-> text.lines]
  BY <1>0 DEF TextRecord
<1>e. <<>> \in Seq(Char) /\ <<>> \in Seq(Seq(Char)) /\ Len(<<>>) = 0
  OBVIOUS
<1>1. ASSUME UNCHANGED <<text, whole>> PROVE TextInv'
  BY <1>1 DEF TextInv, ReadUpTo, Added, LeftFrom
\* Before a text is open there is nothing to read, and no line.
<1>2. ASSUME text.left # <<>> \/ text.line # <<>>
      PROVE /\ whole \in Seq(Char) /\ Len(whole) \in Nat
            /\ \E k \in 0 .. Len(whole) : k + Len(text.left) = Len(whole) /\ LeftFrom(k) /\ ReadUpTo(k)
  <2>1. ~(text = Zip!NoText)
    BY <1>2 DEF Zip!NoText
  <2>2. ~Added
    BY <1>2, SMTT(60) DEF Added
  <2> QED BY <2>1, <2>2 DEF TextInv
<1>3. ASSUME NEW t \in Texts, Zip!OpenText(t) PROVE TextInv'
  <2>1. t \in Seq(Char) /\ Len(t) \in Nat
    BY GzAssumption DEF Char
  <2>2. whole' = t /\ text' = [left |-> t, line |-> <<>>, lines |-> <<>>]
    BY <1>3 DEF Zip!OpenText, Zip!NoText
  <2>3. text' \in TextRecord /\ text'.left = t /\ text'.line = <<>> /\ text'.lines = <<>>
    BY <1>e, <2>1, <2>2 DEF TextRecord
  <2>4. Zip!Bare(t)[0] = <<>>
    BY <2>1, BareIs
  <2>5. Zip!Unsplit(<<>>) = <<>>
    <3>1. PICK u : JoinedUp(<<>>, u) /\ Zip!Unsplit(<<>>) = u[Len(<<>>)]
      BY <1>e, UnsplitIs
    <3> QED BY <1>e, <3>1 DEF JoinedUp
  <2>6. <<>> \o <<>> = <<>>
    BY <1>e, ConcatEmptySeq
  <2>7. ReadSo(text', Zip!Bare(t)[0])
    BY <2>3, <2>4, <2>5, <2>6 DEF ReadSo, NoNewline
  <2>8. ReadUpTo(0)' /\ LeftFrom(0)'
    <3>1. ReadUpTo(0)'
      BY <2>2, <2>7 DEF ReadUpTo
    <3>2. \A i \in 1 .. Len(t) : t[i] = t[0 + i]
      OBVIOUS
    <3> QED BY <2>2, <2>3, <3>1, <3>2 DEF LeftFrom
  <2>9. 0 \in 0 .. Len(t) /\ 0 + Len(t) = Len(t)
    BY <2>1
  <2> QED BY <2>1, <2>2, <2>3, <2>8, <2>9, Zenon DEF TextInv
<1>4. ASSUME NEW n \in 1 .. 2, Zip!ReadText(n) PROVE TextInv'
  <2>1. n \in Nat /\ n <= Len(text.left) /\ text' = Zip!TextAfter(n) /\ whole' = whole
    BY <1>4 DEF Zip!ReadText
  <2>2. Len(text.left) \in Nat /\ text.left # <<>>
    BY <1>0, <2>1
  <2>3. /\ whole \in Seq(Char) /\ Len(whole) \in Nat
        /\ \E k \in 0 .. Len(whole) : k + Len(text.left) = Len(whole) /\ LeftFrom(k) /\ ReadUpTo(k)
    BY <1>2, <2>2
  <2>4. PICK k \in 0 .. Len(whole) : k + Len(text.left) = Len(whole) /\ LeftFrom(k) /\ ReadUpTo(k)
    BY <2>3
  <2>5. ReadSo(text', Zip!Bare(whole)[k + n]) /\ text'.left = SubSeq(text.left, n + 1, Len(text.left))
    <3>1. /\ n \in Nat /\ text \in TextRecord /\ n <= Len(text.left) /\ whole \in Seq(Char)
          /\ k \in Nat /\ k + Len(text.left) = Len(whole) /\ ReadUpTo(k) /\ LeftFrom(k)
      BY <1>0, <2>1, <2>3, <2>4
    <3>2. PICK t : t = Zip!TextAfter(n)
      OBVIOUS
    <3>3. ReadSo(t, Zip!Bare(whole)[k + n]) /\ t.left = SubSeq(text.left, n + 1, Len(text.left))
      BY <3>1, <3>2, AfterIs, SMTT(60)
    <3> QED BY <2>1, <3>2, <3>3
  <2>6. text' \in TextRecord /\ ReadUpTo(k + n)'
    BY <2>1, <2>5 DEF ReadSo, ReadUpTo
  <2>7. /\ Len(text'.left) = Len(text.left) - n
        /\ \A i \in 1 .. Len(text.left) - n : text'.left[i] = text.left[n + i]
    <3> DEFINE l == text.left
    <3>1. l \in Seq(Char) /\ n \in 1 .. Len(l) /\ Len(l) \in Nat
      BY <1>0, <2>1, <2>2
    <3>2. text'.left = SubSeq(l, n + 1, Len(l))
      BY <2>5
    <3> HIDE DEF l
    <3>3. Len(SubSeq(l, n + 1, Len(l))) = Len(l) - n
      BY <3>1
    <3>4. \A i \in 1 .. Len(l) - n : SubSeq(l, n + 1, Len(l))[i] = l[n + i]
      <4>1. ASSUME NEW i \in 1 .. Len(l) - n PROVE SubSeq(l, n + 1, Len(l))[i] = l[(n + 1) + i - 1] /\ n + i = (n + 1) + i - 1
        BY <3>1
      <4> QED BY <4>1
    <3>5. Len(text'.left) = Len(l) - n
      BY <3>2, <3>3
    <3>6. \A i \in 1 .. Len(l) - n : text'.left[i] = l[n + i]
      BY <3>2, <3>4
    <3> QED BY <3>5, <3>6 DEF l
  <2>8. k + n \in 0 .. Len(whole) /\ (k + n) + Len(text'.left) = Len(whole)
    <3>1. k \in Nat /\ n \in Nat /\ k + Len(text.left) = Len(whole) /\ n <= Len(text.left)
      BY <2>1, <2>3, <2>4
    <3>2. Len(text'.left) = Len(text.left) - n
      BY <2>7
    <3>3. PICK a \in Nat : a = Len(text.left)
      BY <2>2
    <3>4. PICK w \in Nat : w = Len(whole)
      BY <2>3
    <3>5. k + a = w /\ n <= a
      BY <3>1, <3>3, <3>4
    <3>6. k + n \in 0 .. w /\ (k + n) + (a - n) = w
      BY <3>1, <3>5
    <3>7. (k + n) + Len(text'.left) = Len(whole)
      BY <3>2, <3>3, <3>4, <3>6
    <3> QED BY <3>4, <3>6, <3>7
  <2>9. LeftFrom(k + n)'
    <3>1. ASSUME NEW i \in 1 .. Len(text'.left) PROVE text'.left[i] = whole[(k + n) + i]
      <4>1. n + i \in 1 .. Len(text.left) /\ i \in 1 .. Len(text.left) - n /\ k + (n + i) = (k + n) + i
        BY <2>1, <2>2, <2>7
      <4>2. text'.left[i] = text.left[n + i] /\ text.left[n + i] = whole[k + (n + i)]
        BY <2>4, <2>7, <4>1 DEF LeftFrom
      <4> QED BY <4>1, <4>2
    <3> QED BY <2>1, <3>1 DEF LeftFrom
  <2> QED BY <2>1, <2>3, <2>6, <2>8, <2>9 DEF TextInv
<1>5. CASE Zip!EndText
  <2>1. /\ text.left = <<>> /\ text.line # <<>> /\ whole' = whole
        /\ text' = [text EXCEPT !.lines = Append(text.lines, text.line), !.line = <<>>]
    BY <1>5 DEF Zip!EndText
  <2>2. PICK ms : ms = Append(text.lines, text.line)
    OBVIOUS
  <2>3. /\ ms \in Seq(Seq(Char)) /\ Len(ms) = Len(text.lines) + 1 /\ ms[Len(ms)] = text.line
        /\ \A i \in 1 .. Len(text.lines) : ms[i] = text.lines[i]
    BY <1>0, <2>2
  <2>4. text' = [left |-> <<>>, line |-> <<>>, lines |-> ms]
    BY <1>i, <2>1, <2>2
  <2>5. text' \in TextRecord /\ text'.left = <<>> /\ text'.line = <<>> /\ text'.lines = ms
    BY <1>e, <2>3, <2>4 DEF TextRecord
  <2>6. /\ whole \in Seq(Char) /\ Len(whole) \in Nat
        /\ \E k \in 0 .. Len(whole) : k + Len(text.left) = Len(whole) /\ LeftFrom(k) /\ ReadUpTo(k)
    BY <1>2, <2>1
  <2>7. ReadUpTo(Len(whole))
    <3>1. PICK k \in 0 .. Len(whole) : k + Len(text.left) = Len(whole) /\ ReadUpTo(k)
      BY <2>6
    <3>2. k = Len(whole)
      BY <2>1, <2>6, <3>1, <1>e
    <3> QED BY <3>1, <3>2
  <2> DEFINE s == Zip!Bare(whole)[Len(whole)]
             x == Zip!Unsplit(text.lines)
             l == text.line
  <2>8. /\ s = x \o l /\ NoNewline(l) /\ l # <<>> /\ l \in Seq(Char) /\ x \in Seq(Char)
        /\ \A i \in 1 .. Len(text.lines) : NoNewline(text.lines[i])
    BY <1>0, <2>1, <2>7, UnsplitEnds DEF ReadUpTo, ReadSo
  <2>9. s # <<>> /\ s[Len(s)] # "nl"
    <3> HIDE DEF s, x, l
    <3>1. Len(l) \in 1 .. Len(l) /\ Len(s) = Len(x) + Len(l) /\ Len(x) \in Nat
      BY <2>8
    <3>2. s[Len(s)] = l[Len(l)]
      BY <2>8, <3>1
    <3>3. Len(s) # 0
      BY <3>1
    <3> QED BY <2>8, <3>1, <3>2, <3>3 DEF NoNewline
  <2>10. Zip!Unsplit(ms) = Append(s, "nl")
    BY <1>0, <2>2, <2>8, UnsplitMore
  <2>11. \A i \in 1 .. Len(ms) : NoNewline(ms[i])
    <3>1. ASSUME NEW i \in 1 .. Len(ms) PROVE i \in 1 .. Len(text.lines) \/ i = Len(ms)
      BY <1>0, <2>3
    <3> QED BY <2>3, <2>8, <3>1
  <2>12. Added'
    BY <2>1, <2>5, <2>9, <2>10, <2>11 DEF Added
  <2>13. Len(whole) \in 0 .. Len(whole) /\ Len(whole) + Len(<<>>) = Len(whole) /\ LeftFrom(Len(whole))'
    BY <2>5, <2>6, <1>e DEF LeftFrom
  <2> QED BY <2>1, <2>5, <2>6, <2>12, <2>13 DEF TextInv
<1>6. CASE UNCHANGED gzVars
  BY <1>1, <1>6, Zenon DEF gzVars
<1>7. CASE Zip!OpenWriter \/ Zip!AppendRecord \/ Zip!WriteRecord \/ Zip!FlushBuffer \/ Zip!DestroyWriter
           \/ \E n \in 1 .. 2 : Zip!FlushOutside(n)
  <2>1. UNCHANGED <<text, whole>>
    BY <1>7, Zenon DEF Zip!OpenWriter, Zip!AppendRecord, Zip!WriteRecord, Zip!FlushBuffer, Zip!DestroyWriter,
                Zip!FlushOutside, Zip!Flush, Zip!Others
  <2> QED BY <1>1, <2>1, SMTT(60)
<1>8. CASE Zip!OpenReader \/ Zip!ReadRecords \/ Zip!TakeOne \/ Zip!CloseReader
  <2>1. UNCHANGED <<text, whole>>
    BY <1>8 DEF Zip!OpenReader, Zip!ReadRecords, Zip!TakeOne, Zip!CloseReader, Zip!Outside
  <2> QED BY <1>1, <2>1
<1> QED BY <1>3, <1>4, <1>5, <1>6, <1>7, <1>8 DEF Zip!Next

(* The records of a stream on which no call failed are in the file or in the *)
(* buffer, in order and once, a reader hands out the beginning of the file,  *)
(* and read_gz_file answers the lines of its text, whatever the buffers'     *)
(* lengths, wherever a stream is closed and however gzread cuts the text.    *)
THEOREM RecordsKept == GzSpec => []NothingLost
<1>1. GzInv /\ [Zip!Next]_gzVars => GzInv'
  BY GzStep
<1>2. TextInv /\ [Zip!Next]_gzVars => TextInv'
  BY TextStep
<1>3. GzInv /\ TextInv => NothingLost
  BY LinesAre DEF GzInv, NothingLost, Zip!NothingLost
<1> QED BY GzFirst, TextFirst, <1>1, <1>2, <1>3, PTL DEF GzSpec
-----------------------------------------------------------------------------
(* merge_read: any entries, any files and any range of days.                 *)

\* The members of a sequence.
Members(s) == Merge!ToSet(s)

LEMMA MembersAre ==
  ASSUME NEW s, s \in Seq(Members(s))
  PROVE /\ Len(s) \in Nat /\ DOMAIN s = 1 .. Len(s)
        /\ \A i \in 1 .. Len(s) : s[i] \in Members(s)
        /\ \A x \in Members(s) : \E i \in 1 .. Len(s) : x = s[i]
<1>1. Len(s) \in Nat /\ DOMAIN s = 1 .. Len(s)
  OBVIOUS
<1>2. Members(s) = {s[i] : i \in 1 .. Len(s)}
  BY <1>1 DEF Members, Merge!ToSet
<1> QED BY <1>1, <1>2

LEMMA SeqIs ==
  ASSUME NEW n \in Nat, NEW s, s = [i \in 1 .. n |-> s[i]]
  PROVE s \in Seq(Members(s)) /\ Len(s) = n
<1>1. DOMAIN s = 1 .. n
  OBVIOUS
<1>2. \A i \in 1 .. n : s[i] \in Members(s)
  BY <1>1 DEF Members, Merge!ToSet
<1>3. s \in [1 .. n -> Members(s)]
  BY <1>2
<1> HIDE DEF Members
<1> QED BY <1>3

LEMMA JoinIs ==
  ASSUME NEW s, s \in Seq(Members(s)), NEW t, t \in Seq(Members(t))
  PROVE /\ s \o t \in Seq(Members(s \o t)) /\ Len(s \o t) = Len(s) + Len(t)
        /\ \A i \in 1 .. Len(s) : (s \o t)[i] = s[i]
        /\ \A i \in 1 .. Len(t) : (s \o t)[Len(s) + i] = t[i]
        /\ \A x : x \in Members(s \o t) <=> x \in Members(s) \/ x \in Members(t)
<1> DEFINE u == s \o t
           S == Members(s) \cup Members(t)
<1>0. Len(s) \in Nat /\ Len(t) \in Nat
  BY MembersAre
<1>1. s \in Seq(S) /\ t \in Seq(S)
  <2>1. Members(s) \subseteq S /\ Members(t) \subseteq S
    OBVIOUS
  <2> HIDE DEF S
  <2> QED BY <2>1, SeqMonotonic
<1> HIDE DEF S
<1>2. /\ u \in Seq(S) /\ Len(u) = Len(s) + Len(t)
      /\ \A i \in 1 .. Len(s) + Len(t) : u[i] = IF i <= Len(s) THEN s[i] ELSE t[i - Len(s)]
  BY <1>1, ConcatProperties
<1> HIDE DEF u
<1>3. \A i \in 1 .. Len(s) : i \in 1 .. Len(s) + Len(t) /\ i <= Len(s)
  BY <1>0
<1>4. \A i \in 1 .. Len(t) : Len(s) + i \in 1 .. Len(s) + Len(t) /\ ~(Len(s) + i <= Len(s)) /\ (Len(s) + i) - Len(s) = i
  BY <1>0
<1>5. \A i \in 1 .. Len(s) : u[i] = s[i]
  BY <1>2, <1>3
<1>6. \A i \in 1 .. Len(t) : u[Len(s) + i] = t[i]
  BY <1>2, <1>4
<1>7. DOMAIN u = 1 .. Len(u)
  BY <1>2
<1>8. u \in Seq(Members(u))
  <2>1. u = [i \in 1 .. Len(u) |-> u[i]] /\ Len(u) \in Nat
    BY <1>2, <1>7
  <2> QED BY <2>1, SeqIs
<1>9. \A i \in 1 .. Len(u) : i \in 1 .. Len(s) \/ \E k \in 1 .. Len(t) : i = Len(s) + k
  <2>1. ASSUME NEW i \in 1 .. Len(u), ~(i \in 1 .. Len(s)) PROVE i - Len(s) \in 1 .. Len(t) /\ i = Len(s) + (i - Len(s))
    BY <1>0, <1>2, <2>1
  <2> QED BY <2>1
<1>10. ASSUME NEW x PROVE x \in Members(u) <=> x \in Members(s) \/ x \in Members(t)
  <2>1. ASSUME x \in Members(u) PROVE x \in Members(s) \/ x \in Members(t)
    <3>1. PICK i \in 1 .. Len(u) : x = u[i]
      BY <1>8, <2>1, MembersAre
    <3>2. CASE i \in 1 .. Len(s)
      BY <1>5, <3>1, <3>2, MembersAre
    <3>3. CASE \E k \in 1 .. Len(t) : i = Len(s) + k
      BY <1>6, <3>1, <3>3, MembersAre
    <3> QED BY <1>9, <3>2, <3>3
  <2>2. ASSUME x \in Members(s) PROVE x \in Members(u)
    <3>1. PICK i \in 1 .. Len(s) : x = s[i]
      BY <2>2, MembersAre
    <3>2. u[i] = x /\ i \in 1 .. Len(u)
      BY <1>2, <1>3, <1>5, <3>1
    <3> QED BY <1>8, <3>2, MembersAre
  <2>3. ASSUME x \in Members(t) PROVE x \in Members(u)
    <3>1. PICK i \in 1 .. Len(t) : x = t[i]
      BY <2>3, MembersAre
    <3>2. u[Len(s) + i] = x /\ Len(s) + i \in 1 .. Len(u)
      BY <1>2, <1>4, <1>6, <3>1
    <3> QED BY <1>8, <3>2, MembersAre
  <2> QED BY <2>1, <2>2, <2>3
<1> QED BY <1>2, <1>5, <1>6, <1>8, <1>10 DEF u

\* Where a member is.
Once(s) == \A i, j \in 1 .. Len(s) : s[i] = s[j] => i = j

LEMMA PlaceIs ==
  ASSUME NEW s, s \in Seq(Members(s)), NEW x \in Members(s)
  PROVE /\ Merge!At(s, x) \in 1 .. Len(s) /\ s[Merge!At(s, x)] = x
        /\ Once(s) => \A i \in 1 .. Len(s) : s[i] = x => Merge!At(s, x) = i
<1>1. DOMAIN s = 1 .. Len(s) /\ \E i \in 1 .. Len(s) : s[i] = x
  BY MembersAre
<1>2. Merge!At(s, x) = CHOOSE i \in 1 .. Len(s) : s[i] = x
  BY <1>1, Zenon DEF Merge!At
<1>3. Merge!At(s, x) \in 1 .. Len(s) /\ s[Merge!At(s, x)] = x
  BY <1>1, <1>2, Zenon
<1> QED BY <1>3, Zenon DEF Once

LEMMA OnceIs ==
  ASSUME NEW s, s \in Seq(Members(s)), ~(Merge!Cardinality(Members(s)) < Len(s))
  PROVE Once(s)
<1> DEFINE N == Len(s)
           B == Members(s)
           f == [i \in 1 .. N |-> s[i]]
<1>0. N \in Nat /\ (\A i \in 1 .. N : s[i] \in B) /\ \A x \in B : \E i \in 1 .. N : x = s[i]
  BY MembersAre
<1>1. Merge!Cardinality(B) = Cardinality(B)
  BY Zenon DEF Merge!Cardinality, Cardinality
<1> HIDE DEF N, B
<1>2. f \in Surjection(1 .. N, B)
  BY <1>0 DEF Surjection
<1>3. IsFiniteSet(1 .. N) /\ Cardinality(1 .. N) = N
  <2>1. IsFiniteSet(1 .. N) /\ Cardinality(1 .. N) = IF 1 > N THEN 0 ELSE N - 1 + 1
    <3>1. 1 \in Int /\ N \in Int
      BY <1>0
    <3> QED BY <3>1, FS_Interval, Zenon
  <2> QED BY <1>0, <2>1
<1> HIDE DEF f
<1>4. /\ IsFiniteSet(B) /\ Cardinality(B) <= N
      /\ Cardinality(B) = N <=> f \in Injection(1 .. N, B)
  BY <1>2, <1>3, FS_Surjection
<1>5. Cardinality(B) \in Nat /\ ~(Cardinality(B) < N)
  BY <1>1, <1>4, FS_CardinalityType DEF N, B
<1>6. f \in Injection(1 .. N, B)
  BY <1>0, <1>4, <1>5
<1>7. \A i, j \in 1 .. N : f[i] = f[j] => i = j
  BY <1>6 DEF Injection, IsInjective
<1> QED BY <1>7 DEF Once, N, f

\* Chosen has the columns that are chosen.
LEMMA ChosenIs ==
  ASSUME NEW e, NEW f, f.cols \in Seq(Members(f.cols)), NEW s, s = Merge!Chosen(e, f)
  PROVE s \in Seq(Members(f.cols)) /\ \A c : c \in Members(s) <=> c \in Members(f.cols) /\ c \in DOMAIN e.name
<1> DEFINE S == Members(f.cols)
           w == f.cols
           N == DOMAIN e.name
           V == Seq(S)
           g == [p \in (1 .. Len(w)) \X V |-> IF w[p[1]] \in N THEN Append(p[2], w[p[1]]) ELSE p[2]]
           F(h) == [k \in 0 .. Len(w) |->
                      IF k = 0 THEN <<>> ELSE IF w[k] \in N THEN Append(h[k - 1], w[k]) ELSE h[k - 1]]
<1>0. w \in Seq(S) /\ Len(w) \in Nat /\ \A k \in 1 .. Len(w) : w[k] \in S
  BY MembersAre
<1>m. \A x \in S : \E i \in 1 .. Len(w) : x = w[i]
  BY MembersAre
<1> HIDE DEF S, N
<1>1. g \in [(1 .. Len(w)) \X V -> V] /\ <<>> \in V
  <2>1. ASSUME NEW p \in (1 .. Len(w)) \X V PROVE (IF w[p[1]] \in N THEN Append(p[2], w[p[1]]) ELSE p[2]) \in V
    <3>1. p[1] \in 1 .. Len(w) /\ p[2] \in Seq(S) /\ w[p[1]] \in S
      BY <1>0
    <3>2. Append(p[2], w[p[1]]) \in Seq(S)
      BY <3>1, AppendProperties
    <3> QED BY <3>1, <3>2
  <2> QED BY <2>1
<1>2. ASSUME NEW k \in 1 .. Len(w), NEW v \in V
      PROVE g[<<k, v>>] = IF w[k] \in N THEN Append(v, w[k]) ELSE v
  OBVIOUS
<1> HIDE DEF g, V
<1>3. PICK h : Steps(Len(w), V, <<>>, g, h)
  BY <1>0, <1>1, StepsExist
<1>4. h \in [0 .. Len(w) -> V] /\ h[0] = <<>> /\ \A k \in 1 .. Len(w) : h[k] = g[<<k, h[k - 1]>>]
  BY <1>3 DEF Steps
<1>5. ASSUME NEW k \in 1 .. Len(w) PROVE h[k] = IF w[k] \in N THEN Append(h[k - 1], w[k]) ELSE h[k - 1]
  <2>1. k - 1 \in 0 .. Len(w)
    BY <1>0
  <2>2. h[k - 1] \in V
    BY <1>4, <2>1
  <2> QED BY <1>2, <1>4, <2>2
<1>6. h = F(h)
  <2>1. ASSUME NEW k \in 0 .. Len(w)
        PROVE h[k] = IF k = 0 THEN <<>> ELSE IF w[k] \in N THEN Append(h[k - 1], w[k]) ELSE h[k - 1]
    <3>1. CASE k = 0
      BY <1>4, <3>1
    <3>2. CASE k # 0
      <4>1. k \in 1 .. Len(w)
        BY <1>0, <3>2
      <4> QED BY <1>5, <3>2, <4>1
    <3> QED BY <3>1, <3>2
  <2> QED BY <1>4, <2>1
<1>7. PICK b : b = F(b) /\ s = b[Len(w)]
  <2> DEFINE b == CHOOSE q : q = F(q)
  <2>1. s = b[Len(w)]
    BY DEF Merge!Chosen, N
  <2> HIDE DEF F
  <2>2. b = F(b)
    BY <1>6
  <2> QED BY <2>1, <2>2
<1>8. /\ b[0] = <<>>
      /\ \A k \in 1 .. Len(w) : b[k] = IF w[k] \in N THEN Append(b[k - 1], w[k]) ELSE b[k - 1]
  <2>1. F(b)[0] = <<>>
    BY <1>0
  <2>2. ASSUME NEW k \in 1 .. Len(w) PROVE b[k] = IF w[k] \in N THEN Append(b[k - 1], w[k]) ELSE b[k - 1]
    <3>1. k \in 0 .. Len(w) /\ k # 0
      BY <1>0
    <3>2. F(b)[k] = IF w[k] \in N THEN Append(b[k - 1], w[k]) ELSE b[k - 1]
      BY <3>1
    <3> HIDE DEF F
    <3> QED BY <1>7, <3>2
  <2> HIDE DEF F
  <2> QED BY <1>7, <2>1, <2>2
<1> HIDE DEF F
<1> DEFINE So(k) == /\ b[k] \in Seq(S)
                    /\ \A c : c \in Members(b[k]) <=> c \in N /\ \E i \in 1 .. k : c = w[i]
           T == {k \in 0 .. Len(w) : So(k)}
<1>9. 0 \in T
  <2>1. Members(<<>>) = {}
    BY DEF Members, Merge!ToSet
  <2>2. b[0] \in Seq(S) /\ Members(b[0]) = {} /\ 0 \in 0 .. Len(w)
    BY <1>0, <1>8, <2>1
  <2>3. ~\E i \in 1 .. 0 : TRUE
    OBVIOUS
  <2> QED BY <2>2, <2>3
<1>10. ASSUME NEW k \in 1 .. Len(w), k - 1 \in T PROVE k \in T
  <2>1. So(k - 1) /\ k \in 0 .. Len(w)
    BY <1>10
  <2>2. w[k] \in S
    BY <1>0
  <2>3. \A i : i \in 1 .. k <=> i \in 1 .. k - 1 \/ i = k
    OBVIOUS
  <2>4. CASE w[k] \notin N
    <3>1. b[k] = b[k - 1]
      BY <1>8, <2>4
    <3>2. So(k)
      BY <2>1, <2>3, <2>4, <3>1
    <3> QED BY <2>1, <3>2
  <2>5. CASE w[k] \in N
    <3>1. b[k] = Append(b[k - 1], w[k])
      BY <1>8, <2>5
    <3>2. b[k] \in Seq(S) /\ \A c : c \in Members(b[k]) <=> c \in Members(b[k - 1]) \/ c = w[k]
      <4>1. PICK v \in Seq(S) : v = b[k - 1]
        BY <2>1
      <4>2. PICK x \in S : x = w[k]
        BY <2>2
      <4>3. PICK t : t = Append(v, x)
        OBVIOUS
      <4>4. /\ t \in Seq(S) /\ Len(t) = Len(v) + 1 /\ Len(v) \in Nat
            /\ \A i \in 1 .. Len(v) : t[i] = v[i]
            /\ t[Len(v) + 1] = x
        BY <4>3, AppendProperties
      <4>5. DOMAIN t = 1 .. Len(v) + 1 /\ DOMAIN v = 1 .. Len(v)
        BY <4>4
      <4>6. \A c : c \in Members(t) <=> c \in Members(v) \/ c = x
        <5>1. \A i : i \in 1 .. Len(v) + 1 <=> i \in 1 .. Len(v) \/ i = Len(v) + 1
          BY <4>4
        <5>2. Members(t) = {t[i] : i \in 1 .. Len(v) + 1} /\ Members(v) = {v[i] : i \in 1 .. Len(v)}
          BY <4>5 DEF Members, Merge!ToSet
        <5>3. \A c : c \in Members(t) <=> \E i \in 1 .. Len(v) + 1 : c = t[i]
          BY <5>2
        <5>4. \A c : c \in Members(v) <=> \E i \in 1 .. Len(v) : c = v[i]
          BY <5>2
        <5> QED BY <4>4, <5>1, <5>3, <5>4, SMTT(60)
      <4> QED BY <3>1, <4>1, <4>2, <4>3, <4>4, <4>6
    <3>3. So(k)
      BY <2>1, <2>3, <2>5, <3>2
    <3> QED BY <2>1, <3>3
  <2> QED BY <2>4, <2>5
<1>11. So(Len(w))
  <2> HIDE DEF So
  <2>1. \A k \in 0 .. Len(w) : k \in T
    <3> HIDE DEF T
    <3> QED BY <1>0, <1>9, <1>10, UpTo
  <2> QED BY <1>0, <2>1
<1>12. \A c : c \in S <=> \E i \in 1 .. Len(w) : c = w[i]
  BY <1>0, <1>m
<1> QED BY <1>7, <1>11, <1>12 DEF S, N

\* The names new columns get, and from which column each is.
LEMMA NewIs ==
  ASSUME NEW e, NEW f, f.cols \in Seq(Members(f.cols)),
         \A x, y \in DOMAIN e.name : e.name[x] = e.name[y] => x = y
  PROVE LET w == Merge!NewNames(e, f)
        IN /\ w \in Seq(Members(w))
           /\ \A c \in Members(f.cols) : c \in DOMAIN e.name =>
                e.name[c] \in Members(w) /\ Merge!Chosen(e, f)[Merge!At(w, e.name[c])] = c
<1> DEFINE w == Merge!NewNames(e, f)
           s == Merge!Chosen(e, f)
<1>1. s \in Seq(Members(f.cols)) /\ \A c : c \in Members(s) <=> c \in Members(f.cols) /\ c \in DOMAIN e.name
  BY ChosenIs
<1> HIDE DEF s
<1>2. Len(s) \in Nat /\ DOMAIN s = 1 .. Len(s)
  BY <1>1
<1>3. w = [i \in 1 .. Len(s) |-> e.name[s[i]]]
  BY Zenon DEF Merge!NewNames, s
<1> HIDE DEF w
<1>4. DOMAIN w = 1 .. Len(s) /\ w = [i \in 1 .. Len(s) |-> w[i]] /\ \A i \in 1 .. Len(s) : w[i] = e.name[s[i]]
  BY <1>3
<1>5. w \in Seq(Members(w)) /\ Len(w) = Len(s)
  BY <1>2, <1>4, SeqIs
<1>6. Members(s) = {s[i] : i \in 1 .. Len(s)}
  BY <1>2 DEF Members, Merge!ToSet
<1>7. ASSUME NEW c \in Members(f.cols), c \in DOMAIN e.name
      PROVE e.name[c] \in Members(w) /\ s[Merge!At(w, e.name[c])] = c
  <2>1. PICK i \in 1 .. Len(s) : c = s[i]
    BY <1>1, <1>6, <1>7
  <2>2. w[i] = e.name[c] /\ i \in 1 .. Len(w)
    BY <1>4, <1>5, <2>1
  <2>3. e.name[c] \in Members(w)
    BY <1>5, <2>2, MembersAre
  <2>0. Merge!At(w, e.name[c]) \in 1 .. Len(w) /\ w[Merge!At(w, e.name[c])] = e.name[c]
    BY <1>5, <2>3, PlaceIs
  <2>4. PICK k \in 1 .. Len(w) : k = Merge!At(w, e.name[c]) /\ w[k] = e.name[c]
    BY <2>0
  <2>5. e.name[s[k]] = e.name[c] /\ s[k] \in DOMAIN e.name
    BY <1>1, <1>4, <1>5, <1>6, <2>4
  <2>6. s[k] = c
    BY <1>7, <2>5
  <2> QED BY <2>3, <2>4, <2>6
<1> QED BY <1>5, <1>7 DEF w, s

\* What an entry has for a key on the days up to h.
Has(cf, e, d, k) == k \in Members(cf[e].file[Days[d]].rows)
PathTo(cf, e, c, k, h) ==
  IF \E d \in 1 .. h : Has(cf, e, d, k)
  THEN <<e, c, k, Merge!Max({d \in 1 .. h : Has(cf, e, d, k)})>> ELSE Merge!NaN

LEMMA LatestIs ==
  ASSUME NEW S \in SUBSET Nat, NEW m \in S, \A x \in S : x <= m
  PROVE Merge!Max(S) = m
<1>1. Merge!Max(S) = CHOOSE x \in S : \A y \in S : x >= y
  BY Zenon DEF Merge!Max
<1>2. \A y \in S : m >= y
  OBVIOUS
<1>3. \E x \in S : \A y \in S : x >= y
  BY <1>2
<1>4. PICK x \in S : x = Merge!Max(S) /\ \A y \in S : x >= y
  BY <1>1, <1>3
<1> QED BY <1>4

LEMMA PathGrows ==
  ASSUME NEW cf, NEW e, NEW c, NEW k, NEW h \in Nat \ {0}
  PROVE /\ PathTo(cf, e, c, k, 0) = Merge!NaN
        /\ PathTo(cf, e, c, k, h) = IF Has(cf, e, h, k) THEN <<e, c, k, h>> ELSE PathTo(cf, e, c, k, h - 1)
<1>1. PathTo(cf, e, c, k, 0) = Merge!NaN
  <2>1. ~\E d \in 1 .. 0 : Has(cf, e, d, k)
    OBVIOUS
  <2> QED BY <2>1 DEF PathTo
<1> DEFINE S(g) == {d \in 1 .. g : Has(cf, e, d, k)}
<1>2. CASE Has(cf, e, h, k)
  <2>1. h \in S(h) /\ S(h) \in SUBSET Nat /\ \A x \in S(h) : x <= h
    BY <1>2
  <2>2. Merge!Max(S(h)) = h
    <3> HIDE DEF S
    <3> QED BY <2>1, LatestIs
  <2>3. \E d \in 1 .. h : Has(cf, e, d, k)
    BY <2>1
  <2> QED BY <1>1, <1>2, <2>2, <2>3 DEF PathTo
<1>3. CASE ~Has(cf, e, h, k)
  <2>1. \A d : d \in 1 .. h <=> d \in 1 .. h - 1 \/ d = h
    OBVIOUS
  <2>2. S(h) = S(h - 1)
    BY <1>3, <2>1
  <2>3. (\E d \in 1 .. h : Has(cf, e, d, k)) <=> \E d \in 1 .. h - 1 : Has(cf, e, d, k)
    BY <1>3, <2>1
  <2> QED BY <1>1, <1>3, <2>2, <2>3 DEF PathTo
<1> QED BY <1>2, <1>3

\* A column that its entry alone gives, on every day and once, and that it is
\* filled in with what the entry has on the days up to h.
Sole(cf, e, c) ==
  /\ cf[e].enable /\ c \in DOMAIN cf[e].name
  /\ \A d \in 1 .. Len(Days) : /\ c \in Members(cf[e].file[Days[d]].cols)
                               /\ ~Merge!Twice(Merge!NewNames(cf[e], cf[e].file[Days[d]]), cf[e].name[c])
  /\ \A o \in 1 .. Len(cf), d \in 1 .. Len(Days) :
       cf[o].enable /\ o # e => cf[e].name[c] \notin Members(Merge!NewNames(cf[o], cf[o].file[Days[d]]))
Shown(cf, ns, fs, rs, e, c, h) ==
  \E i \in 1 .. Len(ns) : ns[i] = cf[e].name[c] /\ fs[i] = [j \in 1 .. Len(rs) |-> PathTo(cf, e, c, rs[j], h)]

Tabled(rs, ix) == /\ rs \in Seq(Members(rs)) /\ DOMAIN ix = Members(rs)
                  /\ \A j \in 1 .. Len(rs) : ix[rs[j]] = j
Titled(ns, fs) == /\ ns \in Seq(Members(ns)) /\ fs \in Seq(Members(fs)) /\ Len(ns) = Len(fs) /\ Once(ns)

\* The table with all entries before e and, of e, the days up to d.
Laid(cf, e, d, rs, ix, ns, fs) ==
  /\ Tabled(rs, ix) /\ Titled(ns, fs)
  /\ \A o \in 1 .. Len(cf) : \A c : Sole(cf, o, c) =>
       /\ o < e => Shown(cf, ns, fs, rs, o, c, Len(Days))
       /\ o = e /\ d > 0 => Shown(cf, ns, fs, rs, o, c, d)

MergeInv ==
  /\ outcome \in {"none", "running", "done", "threw"}
  /\ outcome = "none" => entry = 1 /\ day = 0 /\ first
  /\ outcome # "none" => config \in Configs
  /\ outcome = "done" => entry = Len(config) + 1
  /\ config \in Seq(Members(config)) /\ entry \in 1 .. Len(config) + 1 /\ day \in 0 .. Len(Days)
  /\ day > 0 => entry <= Len(config) /\ config[entry].enable
  /\ first \in BOOLEAN
  /\ first => \A e \in 1 .. entry - 1 : ~config[e].enable
  /\ first /\ day <= 1 => rows = <<>>
  /\ Laid(config, entry, day - 1, rows, index, names, feats)

LEMMA FileIs ==
  ASSUME NEW cf \in Configs
  PROVE /\ cf \in Seq(Members(cf)) /\ Len(Days) \in Nat \ {0} /\ DOMAIN Days = 1 .. Len(Days)
        /\ \A d \in 1 .. Len(Days) : Days[d] \in Members(Days)
        /\ \A x \in Members(Days) : \E d \in 1 .. Len(Days) : x = Days[d]
        /\ \A e \in 1 .. Len(cf) :
             /\ \A x, y \in DOMAIN cf[e].name : cf[e].name[x] = cf[e].name[y] => x = y
             /\ \A d \in 1 .. Len(Days) :
                  /\ cf[e].file[Days[d]].rows \in Seq(Members(cf[e].file[Days[d]].rows))
                  /\ cf[e].file[Days[d]].cols \in Seq(Members(cf[e].file[Days[d]].cols))
<1>1. /\ Days \in Seq(Members(Days)) /\ Days # <<>> /\ cf \in Seq(Members(cf))
      /\ \A e \in DOMAIN cf :
           /\ \A x, y \in DOMAIN cf[e].name : cf[e].name[x] = cf[e].name[y] => x = y
           /\ \A d \in Members(Days) : /\ cf[e].file[d].rows \in Seq(Members(cf[e].file[d].rows))
                                       /\ cf[e].file[d].cols \in Seq(Members(cf[e].file[d].cols))
  BY MergeAssumption, Zenon DEF Members
<1>2. /\ Len(Days) \in Nat /\ DOMAIN Days = 1 .. Len(Days)
      /\ \A d \in 1 .. Len(Days) : Days[d] \in Members(Days)
      /\ \A x \in Members(Days) : \E d \in 1 .. Len(Days) : x = Days[d]
  BY <1>1, MembersAre
<1>3. DOMAIN cf = 1 .. Len(cf)
  BY <1>1
<1>4. Len(Days) # 0
  BY <1>1, EmptySeq
<1> QED BY <1>1, <1>2, <1>3, <1>4

\* The names after the first day of an entry with the new ones, and the columns.
All(new) == IF day = 1 THEN names \o new ELSE names

LEMMA AllIs ==
  ASSUME MergeInv, NEW new, new \in Seq(Members(new)), ~Merge!Dupe(new), NEW fill
  PROVE /\ All(new) \in Seq(Members(All(new))) /\ Once(All(new))
        /\ Len(names) \in Nat /\ Len(All(new)) \in Nat /\ Len(names) <= Len(All(new))
        /\ DOMAIN Merge!Extended(new, fill) = 1 .. Len(All(new))
        /\ \A i \in 1 .. Len(names) : All(new)[i] = names[i] /\ Merge!Extended(new, fill)[i] = feats[i]
        /\ \A i \in 1 .. Len(All(new)) : i > Len(names) => Merge!Extended(new, fill)[i] = fill
        /\ day = 1 => \A x \in Members(new) : \A i \in 1 .. Len(All(new)) : All(new)[i] = x => i > Len(names)
<1>1. names \in Seq(Members(names)) /\ feats \in Seq(Members(feats)) /\ Len(names) = Len(feats) /\ Once(names)
  BY DEF MergeInv, Laid, Titled
<1>2. Len(names) \in Nat /\ Len(new) \in Nat
  BY <1>1
<1>3. CASE day # 1
  <2>1. All(new) = names /\ Merge!Extended(new, fill) = feats
    BY <1>3 DEF All, Merge!Extended
  <2>2. DOMAIN feats = 1 .. Len(names)
    BY <1>1
  <2> QED BY <1>1, <1>2, <1>3, <2>1, <2>2
<1>4. CASE day = 1
  <2> DEFINE u == [i \in 1 .. Len(new) |-> fill]
             a == names \o new
             v == feats \o u
  <2>1. All(new) = a /\ Merge!Extended(new, fill) = v
    BY <1>4 DEF All, Merge!Extended
  <2>2. u \in Seq(Members(u)) /\ Len(u) = Len(new) /\ \A i \in 1 .. Len(new) : u[i] = fill
    <3>1. u = [i \in 1 .. Len(new) |-> u[i]] /\ \A i \in 1 .. Len(new) : u[i] = fill
      OBVIOUS
    <3> HIDE DEF u
    <3> QED BY <1>2, <3>1, SeqIs
  <2>3. Once(new) /\ \A x : ~(x \in Members(new) /\ x \in Members(names))
    <3>1. ~(Merge!Cardinality(Members(new)) < Len(new)) /\ Members(new) \cap Members(names) = {}
      BY <1>4 DEF Merge!Dupe, Members
    <3> QED BY <3>1, OnceIs
  <2> HIDE DEF u
  <2>4. /\ a \in Seq(Members(a)) /\ Len(a) = Len(names) + Len(new)
        /\ \A i \in 1 .. Len(names) : a[i] = names[i]
        /\ \A i \in 1 .. Len(new) : a[Len(names) + i] = new[i]
    <3>1. names \in Seq(Members(names)) /\ new \in Seq(Members(new))
      BY <1>1
    <3> HIDE DEF v
    <3> QED BY <3>1, JoinIs
  <2>5. /\ v \in Seq(Members(v)) /\ Len(v) = Len(names) + Len(new)
        /\ \A i \in 1 .. Len(names) : v[i] = feats[i]
        /\ \A i \in 1 .. Len(new) : v[Len(names) + i] = fill
    <3>1. /\ v \in Seq(Members(v)) /\ Len(v) = Len(feats) + Len(u)
          /\ \A i \in 1 .. Len(feats) : v[i] = feats[i]
          /\ \A i \in 1 .. Len(u) : v[Len(feats) + i] = u[i]
      <4>1. feats \in Seq(Members(feats)) /\ u \in Seq(Members(u))
        BY <1>1, <2>2
      <4> QED BY <4>1, JoinIs
    <3> QED BY <1>1, <2>2, <3>1
  <2> HIDE DEF a, v
  <2>6. DOMAIN v = 1 .. Len(a) /\ Len(a) \in Nat /\ Len(names) <= Len(a)
    BY <1>2, <2>4, <2>5
  <2>7. ASSUME NEW i \in 1 .. Len(a), i > Len(names)
        PROVE i - Len(names) \in 1 .. Len(new) /\ i = Len(names) + (i - Len(names))
    BY <1>2, <2>4, <2>7
  <2>8. \A i \in 1 .. Len(a) : i > Len(names) => v[i] = fill /\ a[i] = new[i - Len(names)] /\ i - Len(names) \in 1 .. Len(new)
    BY <2>4, <2>5, <2>7
  <2>9. \A i \in 1 .. Len(a) : ~(i > Len(names)) => i \in 1 .. Len(names)
    BY <1>2, <2>6
  <2>10. \A i \in 1 .. Len(names) : a[i] \in Members(names)
    BY <1>1, <2>4, MembersAre
  <2>11. \A i \in 1 .. Len(new) : new[i] \in Members(new)
    BY MembersAre
  <2>12. ASSUME NEW i \in 1 .. Len(a), NEW j \in 1 .. Len(a), a[i] = a[j] PROVE i = j
    <3>1. CASE i > Len(names) /\ j > Len(names)
      <4>1. i - Len(names) = j - Len(names)
        BY <2>3, <2>8, <2>12, <3>1 DEF Once
      <4> QED BY <2>7, <3>1, <4>1
    <3>2. CASE ~(i > Len(names)) /\ ~(j > Len(names))
      <4>1. i \in 1 .. Len(names) /\ j \in 1 .. Len(names)
        BY <2>9, <3>2
      <4> QED BY <1>1, <2>4, <2>12, <4>1 DEF Once
    <3>3. CASE i > Len(names) /\ ~(j > Len(names))
      <4>1. a[i] \in Members(new) /\ a[j] \in Members(names)
        BY <2>8, <2>9, <2>10, <2>11, <3>3
      <4> QED BY <2>3, <2>12, <4>1
    <3>4. CASE ~(i > Len(names)) /\ j > Len(names)
      <4>1. a[j] \in Members(new) /\ a[i] \in Members(names)
        BY <2>8, <2>9, <2>10, <2>11, <3>4
      <4> QED BY <2>3, <2>12, <4>1
    <3> QED BY <3>1, <3>2, <3>3, <3>4
  <2>13. Once(a)
    BY <2>12 DEF Once
  <2>14. ASSUME NEW x \in Members(new), NEW i \in 1 .. Len(a), a[i] = x PROVE i > Len(names)
    BY <2>3, <2>9, <2>10, <2>14
  <2>15. \A i \in 1 .. Len(names) : a[i] = names[i] /\ v[i] = feats[i]
    BY <2>4, <2>5
  <2>16. \A i \in 1 .. Len(a) : i > Len(names) => v[i] = fill
    BY <2>8
  <2>17. \A x \in Members(new) : \A i \in 1 .. Len(a) : a[i] = x => i > Len(names)
    BY <2>14
  <2>18. a \in Seq(Members(a))
    BY <2>4
  <2> HIDE DEF Members
  <2> QED BY <1>2, <2>1, <2>6, <2>13, <2>15, <2>16, <2>17, <2>18
<1> QED BY <1>3, <1>4

LEMMA JoinedIs ==
  ASSUME NEW m \in Nat, NEW k \in Nat, NEW s, s = [j \in 1 .. m |-> s[j]], NEW t, t = [j \in 1 .. k |-> t[j]]
  PROVE s \o t = [j \in 1 .. m + k |-> IF j <= m THEN s[j] ELSE t[j - m]]
<1>1. s \in Seq(Members(s)) /\ Len(s) = m /\ t \in Seq(Members(t)) /\ Len(t) = k
  BY SeqIs
<1> DEFINE u == s \o t
<1>2. /\ u \in Seq(Members(u)) /\ Len(u) = m + k
      /\ \A i \in 1 .. m : u[i] = s[i]
      /\ \A i \in 1 .. k : u[m + i] = t[i]
  BY <1>1, JoinIs
<1> HIDE DEF u, Members
<1>3. DOMAIN u = 1 .. m + k /\ u = [j \in 1 .. m + k |-> u[j]]
  BY <1>2
<1>4. ASSUME NEW j \in 1 .. m + k PROVE u[j] = IF j <= m THEN s[j] ELSE t[j - m]
  <2>1. CASE j <= m
    BY <1>2, <2>1
  <2>2. CASE ~(j <= m)
    <3>1. j - m \in 1 .. k /\ m + (j - m) = j
      BY <2>2
    <3> QED BY <1>2, <2>2, <3>1
  <2> QED BY <2>1, <2>2
<1> QED BY <1>3, <1>4 DEF u

\* The rows of a table when those of a file come to its end.
LEMMA RowsGrow ==
  ASSUME NEW rs, NEW ix, Tabled(rs, ix), NEW t, t \in Seq(Members(t)), Once(t),
         \A x : ~(x \in Members(t) /\ x \in Members(rs)),
         NEW iy, iy = [k \in DOMAIN ix \cup Members(t) |-> IF k \in Members(t) THEN Len(rs) + Merge!At(t, k) ELSE ix[k]]
  PROVE Tabled(rs \o t, iy)
<1> DEFINE u == rs \o t
<1>1. /\ rs \in Seq(Members(rs)) /\ DOMAIN ix = Members(rs)
      /\ \A j \in 1 .. Len(rs) : ix[rs[j]] = j
  BY DEF Tabled
<1>2. /\ u \in Seq(Members(u)) /\ Len(u) = Len(rs) + Len(t)
      /\ \A i \in 1 .. Len(rs) : u[i] = rs[i]
      /\ \A i \in 1 .. Len(t) : u[Len(rs) + i] = t[i]
      /\ \A x : x \in Members(u) <=> x \in Members(rs) \/ x \in Members(t)
  BY <1>1, JoinIs
<1> HIDE DEF u
<1>3. DOMAIN iy = Members(u)
  BY <1>1, <1>2
<1>4. Len(rs) \in Nat /\ Len(t) \in Nat
  BY <1>1
<1>5. ASSUME NEW j \in 1 .. Len(rs) PROVE iy[u[j]] = j
  <2>1. rs[j] \in Members(rs)
    BY <1>1, MembersAre
  <2> QED BY <1>1, <1>2, <2>1
<1>6. ASSUME NEW j \in 1 .. Len(t) PROVE iy[u[Len(rs) + j]] = Len(rs) + j
  <2>1. t[j] \in Members(t)
    BY MembersAre
  <2>2. Merge!At(t, t[j]) = j
    BY <2>1, PlaceIs
  <2> QED BY <1>2, <2>1, <2>2
<1>7. ASSUME NEW j \in 1 .. Len(u) PROVE iy[u[j]] = j
  <2>1. CASE j <= Len(rs)
    <3>1. j \in 1 .. Len(rs)
      BY <1>4, <2>1
    <3> QED BY <1>5, <3>1
  <2>2. CASE ~(j <= Len(rs))
    <3>1. j - Len(rs) \in 1 .. Len(t) /\ Len(rs) + (j - Len(rs)) = j
      BY <1>2, <1>4, <2>2
    <3> QED BY <1>6, <3>1
  <2> QED BY <2>1, <2>2
<1> QED BY <1>2, <1>3, <1>7 DEF Tabled, u

\* The file of an entry's day: its rows, its columns and what these are called.
LEMMA FileReads ==
  ASSUME MergeInv, day > 0, outcome # "none"
  PROVE LET f == Merge!File1
            new == Merge!NewNames(Merge!E1, f)
        IN /\ f.rows \in Seq(Members(f.rows)) /\ f.cols \in Seq(Members(f.cols))
           /\ f = config[entry].file[Days[day]] /\ entry \in 1 .. Len(config) /\ day \in 1 .. Len(Days)
           /\ new \in Seq(Members(new)) /\ config[entry].enable
           /\ \A c \in Members(f.cols) : c \in DOMAIN config[entry].name =>
                config[entry].name[c] \in Members(new) /\ Merge!Chosen(Merge!E1, f)[Merge!At(new, config[entry].name[c])] = c
<1>1. config \in Configs /\ entry \in 1 .. Len(config) /\ day \in 1 .. Len(Days) /\ config[entry].enable
  <2>1. /\ config \in Configs /\ entry \in 1 .. Len(config) + 1 /\ day \in 0 .. Len(Days)
        /\ entry <= Len(config) /\ config[entry].enable
    BY DEF MergeInv
  <2>2. Len(config) \in Nat /\ Len(Days) \in Nat
    BY <2>1, FileIs
  <2> QED BY <2>1, <2>2
<1> DEFINE f == config[entry].file[Days[day]]
           e == config[entry]
<1>2. Merge!File1 = f /\ Merge!E1 = e
  BY DEF Merge!File1, Merge!E1
<1>3. f.rows \in Seq(Members(f.rows)) /\ f.cols \in Seq(Members(f.cols)) /\ \A x, y \in DOMAIN e.name : e.name[x] = e.name[y] => x = y
  BY <1>1, FileIs
<1> HIDE DEF f, e
<1>4. /\ Merge!NewNames(e, f) \in Seq(Members(Merge!NewNames(e, f)))
      /\ \A c \in Members(f.cols) : c \in DOMAIN e.name =>
           e.name[c] \in Members(Merge!NewNames(e, f)) /\ Merge!Chosen(e, f)[Merge!At(Merge!NewNames(e, f), e.name[c])] = c
  BY <1>3, NewIs
<1> QED BY <1>1, <1>2, <1>3, <1>4, Zenon DEF f, e

\* A column that is shown, at its place.
LEMMA ShownAt ==
  ASSUME MergeInv, NEW c, Sole(config, entry, c), day > 1, NEW i \in 1 .. Len(names), names[i] = config[entry].name[c],
         entry \in 1 .. Len(config)
  PROVE feats[i] = [j \in 1 .. Len(rows) |-> PathTo(config, entry, c, rows[j], day - 1)]
<1>1. Once(names) /\ Shown(config, names, feats, rows, entry, c, day - 1)
  <2>1. day - 1 > 0
    BY DEF MergeInv
  <2> QED BY <2>1 DEF MergeInv, Laid, Titled
<1>2. PICK k \in 1 .. Len(names) :
        names[k] = config[entry].name[c] /\ feats[k] = [j \in 1 .. Len(rows) |-> PathTo(config, entry, c, rows[j], day - 1)]
  BY <1>1, Zenon DEF Shown
<1>3. k = i
  BY <1>1, <1>2, Zenon DEF Once
<1> QED BY <1>2, <1>3

LEMMA FirstDayLaid ==
  ASSUME MergeInv, Merge!FirstEntryDay, outcome' # "threw"
  PROVE Laid(config, entry, day, rows', index', names', feats')
<1> DEFINE f == Merge!File1
           new == Merge!NewNames(Merge!E1, f)
           all == All(new)
           old == Merge!Extended(new, <<>>)
           val(c) == Merge!Values(f, c)
           n(c) == config[entry].name[c]
<1>1. /\ outcome = "running" /\ day > 0 /\ first
      /\ ~(Merge!ToSet(f.rows) \cap DOMAIN index # {}) /\ ~(Merge!Cardinality(Merge!ToSet(f.rows)) < Len(f.rows))
      /\ ~Merge!Dupe(new) /\ Merge!ToSet(new) \subseteq Merge!ToSet(all)
      /\ index' = Merge!BuildIndex(f) /\ rows' = rows \o f.rows /\ names' = all
      /\ feats' = [i \in DOMAIN all |->
                     IF all[i] \in Merge!ToSet(new) THEN old[i] \o Merge!Column(f, new, all[i]) ELSE old[i]]
  BY Zenon DEF Merge!FirstEntryDay, Merge!Throws, All
<1>2. /\ f.rows \in Seq(Members(f.rows)) /\ f.cols \in Seq(Members(f.cols))
      /\ f = config[entry].file[Days[day]] /\ entry \in 1 .. Len(config) /\ day \in 1 .. Len(Days)
      /\ new \in Seq(Members(new)) /\ config[entry].enable
      /\ \A c \in Members(f.cols) : c \in DOMAIN config[entry].name =>
           n(c) \in Members(new) /\ Merge!Chosen(Merge!E1, f)[Merge!At(new, n(c))] = c
  <2>1. outcome # "none"
    BY <1>1
  <2> QED BY <1>1, <2>1, FileReads, Zenon
<1>3. /\ index' = [k \in DOMAIN index \cup Members(f.rows) |->
                     IF k \in Members(f.rows) THEN Len(rows) + Merge!At(f.rows, k) ELSE index[k]]
      /\ \A x : ~(x \in Members(f.rows) /\ x \in DOMAIN index)
      /\ Members(new) \subseteq Members(all)
      /\ \A c : val(c) = [i \in 1 .. Len(f.rows) |-> <<entry, c, f.rows[i], day>>]
  BY <1>1, SMTT(60) DEF Merge!BuildIndex, Merge!Indexed, Members, Merge!Values
<1>4. Once(f.rows)
  BY <1>1, <1>2, OnceIs, Zenon DEF Members
<1>5. /\ all \in Seq(Members(all)) /\ Once(all)
      /\ Len(names) \in Nat /\ Len(all) \in Nat /\ Len(names) <= Len(all)
      /\ \A i \in 1 .. Len(names) : all[i] = names[i] /\ old[i] = feats[i]
      /\ \A i \in 1 .. Len(all) : i > Len(names) => old[i] = <<>>
      /\ day = 1 => \A x \in Members(new) : \A i \in 1 .. Len(all) : all[i] = x => i > Len(names)
      /\ day # 1 => all = names
  <2>1. /\ All(new) \in Seq(Members(All(new))) /\ Once(All(new))
        /\ Len(names) \in Nat /\ Len(All(new)) \in Nat /\ Len(names) <= Len(All(new))
        /\ \A i \in 1 .. Len(names) : All(new)[i] = names[i] /\ Merge!Extended(new, <<>>)[i] = feats[i]
        /\ \A i \in 1 .. Len(All(new)) : i > Len(names) => Merge!Extended(new, <<>>)[i] = <<>>
        /\ day = 1 => \A x \in Members(new) : \A i \in 1 .. Len(All(new)) : All(new)[i] = x => i > Len(names)
    <3>1. new \in Seq(Members(new)) /\ ~Merge!Dupe(new)
      BY <1>1, <1>2, Zenon
    <3> HIDE DEF new
    <3> QED BY <3>1, AllIs, SMTT(60)
  <2>2. day # 1 => All(new) = names
    BY Zenon DEF All
  <2> QED BY <2>1, <2>2, Zenon
<1>6. DOMAIN all = 1 .. Len(all)
  BY <1>5
<1>7. feats' = [i \in 1 .. Len(all) |-> feats'[i]]
  <2> HIDE DEF all, old, new, f, val
  <2> QED BY <1>1, <1>6
<1>8. \A i \in 1 .. Len(all) : all[i] \in Members(new) =>
         feats'[i] = old[i] \o Merge!Column(f, new, all[i])
  <2> HIDE DEF all, old, new, f, val
  <2> QED BY <1>1, <1>6 DEF Members
<1>t. \A x : ~Merge!Twice(new, x) =>
         Merge!Column(f, new, x) = val(Merge!Chosen(Merge!E1, f)[Merge!At(new, x)])
  BY Zenon DEF Merge!Column
<1>n. Merge!NewNames(config[entry], config[entry].file[Days[day]]) = new
  BY DEF Merge!File1, Merge!E1
<1> HIDE DEF f, new, all, old, val, Members
<1>9. Tabled(rows, index) /\ Len(rows) \in Nat /\ Len(f.rows) \in Nat /\ rows \in Seq(Members(rows)) /\ DOMAIN index = Members(rows)
  BY <1>2, SMTT(60) DEF MergeInv, Laid, Tabled
<1>10. Tabled(rows', index')
  BY <1>1, <1>2, <1>3, <1>4, <1>9, RowsGrow, ZenonT(60)
<1>11. Titled(names', feats')
  <2>1. feats' \in Seq(Members(feats')) /\ Len(feats') = Len(all)
    BY <1>5, <1>7, SeqIs
  <2> QED BY <1>1, <1>5, <2>1 DEF Titled
<1>12. ASSUME NEW o \in 1 .. Len(config), NEW c, Sole(config, o, c) PROVE ~(o < entry)
  <2>1. ~(o \in 1 .. entry - 1)
    BY <1>1, <1>12 DEF MergeInv, Sole
  <2>2. Len(config) \in Nat
    BY DEF MergeInv
  <2> QED BY <1>2, <2>1, <2>2
<1>13. ASSUME NEW c, Sole(config, entry, c) PROVE Shown(config, names', feats', rows', entry, c, day)
  <2>1. c \in Members(f.cols) /\ c \in DOMAIN config[entry].name
    BY <1>2, <1>13 DEF Sole
  <2>2. n(c) \in Members(new) /\ Merge!Chosen(Merge!E1, f)[Merge!At(new, n(c))] = c
    BY <1>2, <2>1
  <2> DEFINE s == [j \in 1 .. Len(rows) |-> PathTo(config, entry, c, rows[j], day - 1)]
  <2>3. PICK i \in 1 .. Len(all) : all[i] = n(c)
    BY <1>3, <1>5, <2>2, MembersAre
  <2>0. ~Merge!Twice(new, n(c))
    BY <1>2, <1>n, <1>13, Zenon DEF Sole
  <2>4. feats'[i] = old[i] \o val(c)
    <3>1. Merge!Column(f, new, n(c)) = val(c)
      BY <1>t, <2>0, <2>2
    <3> QED BY <1>8, <2>2, <2>3, <3>1
  <2>5. old[i] = s
    <3>1. CASE day = 1
      <4>1. old[i] = <<>>
        BY <1>5, <2>2, <2>3, <3>1
      <4>2. Len(rows) = 0
        BY <1>1, <3>1 DEF MergeInv
      <4> QED BY <4>1, <4>2
    <3>2. CASE day # 1
      <4>1. i \in 1 .. Len(names) /\ names[i] = n(c) /\ day > 1 /\ old[i] = feats[i]
        BY <1>2, <1>5, <2>3, <3>2
      <4> QED BY <1>2, <1>13, <4>1, ShownAt
    <3> QED BY <3>1, <3>2
  <2>6. /\ rows' = rows \o f.rows /\ Len(rows') = Len(rows) + Len(f.rows)
        /\ \A j \in 1 .. Len(rows) : rows'[j] = rows[j]
        /\ \A j \in 1 .. Len(f.rows) : rows'[Len(rows) + j] = f.rows[j]
    <3>1. /\ Len(rows \o f.rows) = Len(rows) + Len(f.rows)
          /\ \A j \in 1 .. Len(rows) : (rows \o f.rows)[j] = rows[j]
          /\ \A j \in 1 .. Len(f.rows) : (rows \o f.rows)[Len(rows) + j] = f.rows[j]
      <4>1. rows \in Seq(Members(rows)) /\ f.rows \in Seq(Members(f.rows))
        BY <1>2, <1>9
      <4> QED BY <4>1, JoinIs
    <3> QED BY <1>1, <3>1
  <2> DEFINE t == val(c)
             r == [j \in 1 .. Len(rows') |-> PathTo(config, entry, c, rows'[j], day)]
  <2>7. s = [j \in 1 .. Len(rows) |-> s[j]] /\ t = [j \in 1 .. Len(f.rows) |-> t[j]]
    BY <1>3
  <2>8. s \o t = [j \in 1 .. Len(rows) + Len(f.rows) |-> IF j <= Len(rows) THEN s[j] ELSE t[j - Len(rows)]]
    <3>1. Len(rows) \in Nat /\ Len(f.rows) \in Nat
      BY <1>9
    <3> HIDE DEF s, t
    <3> QED BY <2>7, <3>1, JoinedIs
  <2>9. \A k : PathTo(config, entry, c, k, day) = IF k \in Members(f.rows) THEN <<entry, c, k, day>> ELSE PathTo(config, entry, c, k, day - 1)
    <3>1. day \in Nat \ {0}
      BY <1>2, FileIs DEF MergeInv
    <3>2. \A k : Has(config, entry, day, k) <=> k \in Members(f.rows)
      BY <1>2, Zenon DEF Has
    <3> QED BY <3>1, <3>2, PathGrows, ZenonT(60)
  <2>10. ASSUME NEW j \in 1 .. Len(rows) + Len(f.rows)
         PROVE PathTo(config, entry, c, rows'[j], day) = IF j <= Len(rows) THEN s[j] ELSE t[j - Len(rows)]
    <3>1. CASE j <= Len(rows)
      <4>1. j \in 1 .. Len(rows)
        BY <1>9, <3>1
      <4>2. rows[j] \in DOMAIN index
        BY <1>9, <4>1, MembersAre
      <4>3. PathTo(config, entry, c, rows[j], day) = PathTo(config, entry, c, rows[j], day - 1)
        BY <1>3, <2>9, <4>2, Zenon
      <4>4. s[j] = PathTo(config, entry, c, rows[j], day - 1)
        BY <4>1
      <4> QED BY <2>6, <3>1, <4>1, <4>3, <4>4
    <3>2. CASE ~(j <= Len(rows))
      <4>0. j - Len(rows) \in 1 .. Len(f.rows) /\ j = Len(rows) + (j - Len(rows))
        BY <1>9, <3>2
      <4>1. PICK k \in 1 .. Len(f.rows) : k = j - Len(rows) /\ j = Len(rows) + k
        BY <4>0
      <4>2. f.rows[k] \in Members(f.rows)
        BY <1>2, <4>1, MembersAre
      <4>3. PathTo(config, entry, c, f.rows[k], day) = <<entry, c, f.rows[k], day>>
        BY <2>9, <4>2, Zenon
      <4>4. t[k] = <<entry, c, f.rows[k], day>>
        BY <1>3, <4>1
      <4>5. rows'[j] = f.rows[k]
        BY <2>6, <4>1
      <4> QED BY <3>2, <4>1, <4>3, <4>4, <4>5
    <3> QED BY <3>1, <3>2
  <2>11. s \o t = r
    <3> HIDE DEF s, t
    <3> QED BY <2>6, <2>8, <2>10
  <2>12. feats'[i] = r /\ i \in 1 .. Len(names') /\ names'[i] = n(c)
    BY <1>1, <2>3, <2>4, <2>5, <2>11 DEF all
  <2> QED BY <2>12 DEF Shown
<1>14. config \in Seq(Members(config)) /\ Len(config) \in Nat
  BY DEF MergeInv
<1> QED BY <1>10, <1>11, <1>12, <1>13 DEF Laid

LEMMA LastIs ==
  ASSUME NEW n \in Nat, NEW S \in SUBSET (1 .. n), S # {}
  PROVE Merge!Max(S) \in S
<1> DEFINE T == {m \in Nat : \A x \in S : x <= m}
<1>1. n \in T /\ T \in SUBSET Nat
  OBVIOUS
<1>2. PICK m \in T : \A k \in T : m <= k
  <2> HIDE DEF T
  <2> QED BY <1>1, LeastNat
<1>3. m \in Nat /\ \A x \in S : x <= m
  BY <1>2
<1>4. PICK y \in 1 .. n : y \in S
  OBVIOUS
<1>5. m - 1 \in Nat /\ ~(m <= m - 1)
  <2>1. y <= m
    BY <1>3, <1>4
  <2> QED BY <1>3, <2>1
<1>6. m \in S
  <2>1. ASSUME m \notin S PROVE m - 1 \in T
    <3>1. ASSUME NEW x \in S PROVE x <= m - 1
      <4>1. x <= m /\ x # m /\ x \in Nat
        BY <1>3, <2>1
      <4> QED BY <1>3, <4>1
    <3> QED BY <1>5, <3>1
  <2> QED BY <1>2, <1>5, <2>1
<1>7. S \in SUBSET Nat
  OBVIOUS
<1> QED BY <1>3, <1>6, <1>7, LatestIs

LEMMA LaterDayLaid ==
  ASSUME MergeInv, Merge!LaterEntryDay, outcome' # "threw"
  PROVE Laid(config, entry, day, rows', index', names', feats')
<1> DEFINE f == Merge!File1
           new == Merge!NewNames(Merge!E1, f)
           all == All(new)
           none == [i \in 1 .. Len(rows) |-> Merge!NaN]
           old == Merge!Extended(new, none)
           met == {i \in DOMAIN f.rows : f.rows[i] \in DOMAIN index}
           here(j) == {i \in met : index[f.rows[i]] = j}
           put(c, j) == Merge!Values(f, c)[Merge!Max(here(j))]
           n(c) == config[entry].name[c]
           from(x) == Merge!Chosen(Merge!E1, f)[Merge!At(new, x)]
<1>1. /\ outcome = "running" /\ day > 0 /\ ~Merge!Dupe(new)
      /\ index' = index /\ rows' = rows /\ names' = all
      /\ feats' = [i \in DOMAIN all |->
                     IF all[i] \notin Merge!ToSet(new) THEN old[i]
                     ELSE [j \in DOMAIN old[i] |-> IF \E k \in met : index[f.rows[k]] = j
                                                   THEN put(from(all[i]), j) ELSE old[i][j]]]
  BY Zenon DEF Merge!LaterEntryDay, Merge!Throws, All
<1>2. /\ f.rows \in Seq(Members(f.rows)) /\ f.cols \in Seq(Members(f.cols))
      /\ f = config[entry].file[Days[day]] /\ entry \in 1 .. Len(config) /\ day \in 1 .. Len(Days)
      /\ new \in Seq(Members(new)) /\ config[entry].enable
      /\ \A c \in Members(f.cols) : c \in DOMAIN config[entry].name => n(c) \in Members(new) /\ from(n(c)) = c
  <2>1. outcome # "none"
    BY <1>1
  <2> QED BY <1>1, <2>1, FileReads, Zenon
<1>3. \A c : Merge!Values(f, c) = [i \in 1 .. Len(f.rows) |-> <<entry, c, f.rows[i], day>>]
  BY DEF Merge!Values
<1>4. /\ all \in Seq(Members(all)) /\ Once(all)
      /\ Len(names) \in Nat /\ Len(all) \in Nat /\ Len(names) <= Len(all)
      /\ \A i \in 1 .. Len(names) : all[i] = names[i] /\ old[i] = feats[i]
      /\ \A i \in 1 .. Len(all) : i > Len(names) => old[i] = none
      /\ day = 1 => \A x \in Members(new) : \A i \in 1 .. Len(all) : all[i] = x => i > Len(names)
  <2>1. new \in Seq(Members(new)) /\ ~Merge!Dupe(new)
    BY <1>1, <1>2, Zenon
  <2> HIDE DEF new, none
  <2> QED BY <2>1, AllIs, SMTT(60)
<1>5. /\ day # 1 => all = names
      /\ day = 1 => \A x \in Members(new) : x \in Members(all)
  <2>1. day # 1 => all = names
    BY Zenon DEF All
  <2>2. day = 1 => all = names \o new
    BY Zenon DEF All
  <2>3. names \in Seq(Members(names)) /\ new \in Seq(Members(new))
    BY <1>2 DEF MergeInv, Laid, Titled
  <2> HIDE DEF new, all
  <2> QED BY <2>1, <2>2, <2>3, JoinIs
<1>6. DOMAIN all = 1 .. Len(all) /\ DOMAIN f.rows = 1 .. Len(f.rows) /\ Len(f.rows) \in Nat
  <2> HIDE DEF all, f
  <2>1. DOMAIN all = 1 .. Len(all)
    BY <1>4
  <2>2. f.rows \in Seq(Members(f.rows))
    BY <1>2
  <2> QED BY <2>1, <2>2, MembersAre
<1>7. feats' = [i \in 1 .. Len(all) |-> feats'[i]]
  <2> HIDE DEF all, old, new, f, put, met, from
  <2> QED BY <1>1, <1>6
<1>8. \A i \in 1 .. Len(all) :
        feats'[i] = IF all[i] \notin Members(new) THEN old[i]
                    ELSE [j \in DOMAIN old[i] |-> IF \E k \in met : index[f.rows[k]] = j
                                                  THEN put(from(all[i]), j) ELSE old[i][j]]
  <2> HIDE DEF all, old, new, f, put, met, from
  <2> QED BY <1>1, <1>6 DEF Members
<1>m. met = {i \in 1 .. Len(f.rows) : f.rows[i] \in DOMAIN index}
  BY <1>6
<1> HIDE DEF f, new, all, old, met, from, Members
<1>9. /\ Tabled(rows, index) /\ Len(rows) \in Nat /\ rows \in Seq(Members(rows)) /\ DOMAIN index = Members(rows)
      /\ \A j \in 1 .. Len(rows) : index[rows[j]] = j
  BY DEF MergeInv, Laid, Tabled
<1>10. Tabled(rows', index')
  BY <1>1, <1>9
<1>11. Titled(names', feats')
  <2>1. feats' \in Seq(Members(feats')) /\ Len(feats') = Len(all)
    BY <1>4, <1>7, SeqIs
  <2> QED BY <1>1, <1>4, <2>1 DEF Titled
<1>12. ASSUME NEW o \in 1 .. Len(config), NEW c, Sole(config, o, c), o < entry
       PROVE Shown(config, names', feats', rows', o, c, Len(Days))
  <2>1. Shown(config, names, feats, rows, o, c, Len(Days))
    BY <1>12 DEF MergeInv, Laid
  <2>2. PICK i \in 1 .. Len(names) :
          names[i] = config[o].name[c] /\ feats[i] = [j \in 1 .. Len(rows) |-> PathTo(config, o, c, rows[j], Len(Days))]
    BY <2>1, Zenon DEF Shown
  <2>3. config[o].name[c] \notin Members(new)
    <3>1. entry # o /\ entry \in Int
      BY <1>2, <1>12
    <3>2. config[o].name[c] \notin Members(Merge!NewNames(config[entry], config[entry].file[Days[day]]))
      BY <1>2, <1>12, <3>1, Zenon DEF Sole
    <3> QED BY <3>2, Zenon DEF new, f, Merge!E1, Merge!File1
  <2>4. i \in 1 .. Len(all) /\ all[i] = names[i] /\ old[i] = feats[i]
    BY <1>4, <2>2
  <2>5. feats'[i] = feats[i]
    BY <1>8, <2>2, <2>3, <2>4
  <2> QED BY <1>1, <2>2, <2>4, <2>5 DEF Shown
<1>13. ASSUME NEW c, Sole(config, entry, c) PROVE Shown(config, names', feats', rows', entry, c, day)
  <2>1. c \in Members(f.cols) /\ c \in DOMAIN config[entry].name
    BY <1>2, <1>13 DEF Sole
  <2>2. n(c) \in Members(new) /\ from(n(c)) = c
    BY <1>2, <2>1
  <2> DEFINE s == [j \in 1 .. Len(rows) |-> PathTo(config, entry, c, rows[j], day - 1)]
             r == [j \in 1 .. Len(rows) |-> PathTo(config, entry, c, rows[j], day)]
  <2>3. PICK i \in 1 .. Len(all) : all[i] = n(c) /\ old[i] = s
    <3>1. CASE day = 1
      <4>1. PICK i \in 1 .. Len(all) : all[i] = n(c)
        BY <1>4, <1>5, <2>2, <3>1, MembersAre
      <4>2. old[i] = none
        BY <1>4, <2>2, <3>1, <4>1
      <4>3. \A k : PathTo(config, entry, c, k, day - 1) = Merge!NaN
        <5>1. day - 1 = 0 /\ 1 \in Nat \ {0}
          BY <3>1
        <5>2. \A k : PathTo(config, entry, c, k, 0) = Merge!NaN
          BY <5>1, PathGrows
        <5> QED BY <5>1, <5>2
      <4> QED BY <4>1, <4>2, <4>3
    <3>2. CASE day # 1
      <4>1. day > 1 /\ day - 1 > 0
        BY <1>2, <3>2
      <4>2. Shown(config, names, feats, rows, entry, c, day - 1)
        BY <1>2, <1>13, <4>1 DEF MergeInv, Laid
      <4>3. PICK i \in 1 .. Len(names) : names[i] = n(c) /\ feats[i] = s
        BY <4>2, Zenon DEF Shown
      <4>4. i \in 1 .. Len(all)
        BY <1>4, SMTT(60)
      <4> HIDE DEF s
      <4> QED BY <1>4, <4>3, <4>4
    <3> QED BY <3>1, <3>2
  <2>4. \A k : PathTo(config, entry, c, k, day) = IF k \in Members(f.rows) THEN <<entry, c, k, day>> ELSE PathTo(config, entry, c, k, day - 1)
    <3>1. day \in Nat \ {0}
      BY <1>2, FileIs DEF MergeInv
    <3>2. \A k : Has(config, entry, day, k) <=> k \in Members(f.rows)
      BY <1>2, Zenon DEF Has
    <3> QED BY <3>1, <3>2, PathGrows, ZenonT(60)
  <2>5. ASSUME NEW j \in 1 .. Len(rows), NEW k \in met, index[f.rows[k]] = j PROVE f.rows[k] = rows[j]
    <3>1. f.rows[k] \in Members(rows)
      BY <1>9, <1>m
    <3>2. PICK q \in 1 .. Len(rows) : f.rows[k] = rows[q]
      BY <1>9, <3>1, MembersAre
    <3> QED BY <1>9, <2>5, <3>2
  <2>6. ASSUME NEW j \in 1 .. Len(rows)
        PROVE (IF \E k \in met : index[f.rows[k]] = j THEN put(c, j) ELSE s[j]) = PathTo(config, entry, c, rows[j], day)
    <3>1. CASE \E k \in met : index[f.rows[k]] = j
      <4>1. here(j) # {} /\ here(j) \in SUBSET (1 .. Len(f.rows))
        BY <1>m, <3>1
      <4>2. PICK k \in here(j) : k = Merge!Max(here(j))
        <5> HIDE DEF here
        <5> QED BY <1>6, <4>1, LastIs
      <4>3. k \in met /\ index[f.rows[k]] = j /\ k \in 1 .. Len(f.rows)
        BY <4>1, SMTT(60)
      <4>4. f.rows[k] = rows[j] /\ f.rows[k] \in Members(f.rows)
        BY <1>2, <2>5, <4>3, MembersAre
      <4>5. put(c, j) = <<entry, c, f.rows[k], day>>
        <5> HIDE DEF here
        <5> QED BY <1>3, <4>2, <4>3
      <4> HIDE DEF put, here
      <4> QED BY <2>4, <3>1, <4>4, <4>5
    <3>2. CASE ~\E k \in met : index[f.rows[k]] = j
      <4>1. rows[j] \notin Members(f.rows)
        <5>1. ASSUME rows[j] \in Members(f.rows) PROVE FALSE
          <6>1. PICK k \in 1 .. Len(f.rows) : rows[j] = f.rows[k]
            BY <1>2, <5>1, MembersAre
          <6>2. rows[j] \in Members(rows)
            BY <1>9, MembersAre
          <6>3. k \in met /\ index[f.rows[k]] = j
            BY <1>9, <1>m, <6>1, <6>2
          <6> QED BY <3>2, <6>3
        <5> QED BY <5>1
      <4>2. s[j] = PathTo(config, entry, c, rows[j], day - 1)
        OBVIOUS
      <4> HIDE DEF s, put
      <4> QED BY <2>4, <3>2, <4>1, <4>2
    <3> QED BY <3>1, <3>2
  <2>7. feats'[i] = r
    <3>1. feats'[i] = [j \in DOMAIN s |-> IF \E k \in met : index[f.rows[k]] = j THEN put(c, j) ELSE s[j]]
      <4> HIDE DEF put, s
      <4> QED BY <1>8, <2>2, <2>3
    <3>2. DOMAIN s = 1 .. Len(rows)
      OBVIOUS
    <3> HIDE DEF put, s
    <3> QED BY <2>6, <3>1, <3>2
  <2> QED BY <1>1, <2>3, <2>7 DEF Shown, all
<1>14. config \in Seq(Members(config)) /\ Len(config) \in Nat
  BY DEF MergeInv
<1> QED BY <1>10, <1>11, <1>12, <1>13 DEF Laid

\* What the days of an entry come to when they are over, and an entry that is
\* left out or about to be read.
LEMMA LaidMoves ==
  ASSUME NEW cf, Len(cf) \in Nat, NEW e \in Nat, NEW rs, NEW ix, NEW ns, NEW fs, Len(Days) \in Nat \ {0}
  PROVE /\ Laid(cf, e, Len(Days), rs, ix, ns, fs) => Laid(cf, e + 1, -1, rs, ix, ns, fs)
        /\ Laid(cf, e, -1, rs, ix, ns, fs) => Laid(cf, e, 0, rs, ix, ns, fs)
        /\ Laid(cf, e, -1, rs, ix, ns, fs) /\ ~cf[e].enable => Laid(cf, e + 1, -1, rs, ix, ns, fs)
<1>1. \A o \in 1 .. Len(cf) : o < e + 1 => o < e \/ o = e
  OBVIOUS
<1>2. ~(-1 > 0) /\ ~(0 > 0) /\ Len(Days) > 0
  OBVIOUS
<1>3. \A c : ~cf[e].enable => ~Sole(cf, e, c)
  BY Zenon DEF Sole
<1> QED BY <1>1, <1>2, <1>3 DEF Laid

LEMMA MergeInit == ASSUME Merge!Init PROVE MergeInv
<1>1. /\ config = <<>> /\ entry = 1 /\ day = 0 /\ first = TRUE /\ rows = <<>> /\ index = <<>>
      /\ names = <<>> /\ feats = <<>> /\ outcome = "none"
  BY DEF Merge!Init
<1>2. Members(<<>>) = {} /\ <<>> \in Seq({}) /\ Len(<<>>) = 0 /\ DOMAIN <<>> = {}
  <2>1. DOMAIN <<>> = {}
    OBVIOUS
  <2> QED BY <2>1 DEF Members, Merge!ToSet
<1>3. Len(Days) \in Nat
  BY MergeAssumption
<1>4. \A i : ~(i \in 1 .. 0)
  OBVIOUS
<1>5. Tabled(rows, index) /\ Titled(names, feats)
  BY <1>1, <1>2, <1>4 DEF Tabled, Titled, Once
<1>6. Laid(config, entry, day - 1, rows, index, names, feats)
  BY <1>1, <1>2, <1>4, <1>5 DEF Laid
<1> QED BY <1>1, <1>2, <1>3, <1>4, <1>6 DEF MergeInv

LEMMA MergeThrows ==
  ASSUME MergeInv, outcome = "running", Merge!Throws
  PROVE MergeInv'
BY DEF MergeInv, Merge!Throws

LEMMA DayPasses ==
  ASSUME MergeInv, outcome = "running", outcome' = "running", config' = config, day > 0, Merge!NextDay,
         Laid(config, entry, day, rows', index', names', feats')
  PROVE MergeInv'
<1>1. /\ config \in Configs /\ config \in Seq(Members(config)) /\ entry \in 1 .. Len(config) + 1 /\ day \in 0 .. Len(Days)
      /\ entry <= Len(config) /\ config[entry].enable /\ first \in BOOLEAN
      /\ first => \A e \in 1 .. entry - 1 : ~config[e].enable
  BY DEF MergeInv
<1>2. Len(config) \in Nat /\ Len(Days) \in Nat \ {0}
  BY <1>1, FileIs
<1>3. CASE day < Len(Days)
  <2>1. day' = day + 1 /\ entry' = entry /\ first' = first /\ (day + 1) - 1 = day /\ day + 1 \in 0 .. Len(Days) /\ ~(day + 1 <= 1)
    BY <1>1, <1>2, <1>3 DEF Merge!NextDay
  <2> QED BY <1>1, <1>2, <2>1 DEF MergeInv
<1>4. CASE ~(day < Len(Days))
  <2>1. day' = 0 /\ entry' = entry + 1 /\ first' = FALSE
    BY <1>4, Zenon DEF Merge!NextDay
  <2>3. day = Len(Days) /\ entry + 1 \in 1 .. Len(config) + 1 /\ 0 \in 0 .. Len(Days) /\ 0 - 1 = -1 /\ ~(0 > 0)
    BY <1>1, <1>2, <1>4
  <2>2. Laid(config, entry + 1, -1, rows', index', names', feats')
    <3>1. entry \in Nat /\ Laid(config, entry, Len(Days), rows', index', names', feats')
      BY <1>1, <2>3
    <3> QED BY <1>2, <3>1, LaidMoves
  <2>4. Laid(config, entry, day - 1, rows, index, names, feats)'
    BY <2>1, <2>2, <2>3
  <2> QED BY <1>1, <2>1, <2>3, <2>4 DEF MergeInv
<1> QED BY <1>3, <1>4

LEMMA MergeStep == ASSUME MergeInv, [Merge!Next]_mergeVars PROVE MergeInv'
<1>1. /\ outcome \in {"none", "running", "done", "threw"} /\ (outcome = "none" => entry = 1 /\ day = 0 /\ first)
      /\ config \in Seq(Members(config)) /\ Len(config) \in Nat /\ entry \in 1 .. Len(config) + 1 /\ day \in 0 .. Len(Days)
      /\ (outcome # "none" => config \in Configs)
      /\ Laid(config, entry, day - 1, rows, index, names, feats)
  BY DEF MergeInv
<1>2. Len(Days) \in Nat \ {0}
  <2>1. Days \in Seq(Members(Days)) /\ Days # <<>>
    BY MergeAssumption DEF Members
  <2> QED BY <2>1, EmptySeq
<1>3. CASE Merge!SkipEntry
  <2>1. /\ outcome = "running" /\ entry <= Len(config) /\ day = 0 /\ ~config[entry].enable /\ entry' = entry + 1
        /\ config' = config /\ day' = day /\ first' = first /\ rows' = rows /\ index' = index
        /\ names' = names /\ feats' = feats /\ outcome' = outcome
    BY <1>3 DEF Merge!SkipEntry, Merge!E1
  <2>2. Laid(config, entry + 1, -1, rows, index, names, feats)
    <3>1. entry \in Nat /\ Laid(config, entry, -1, rows, index, names, feats) /\ ~config[entry].enable
      BY <1>1, <2>1
    <3> QED BY <1>1, <1>2, <3>1, LaidMoves
  <2>3. \A e \in 1 .. (entry + 1) - 1 : e \in 1 .. entry - 1 \/ e = entry
    BY <1>1
  <2> QED BY <1>1, <1>2, <2>1, <2>2, <2>3 DEF MergeInv
<1>4. CASE Merge!LoadDailyDatum
  <2>1. outcome = "running" /\ entry <= Len(config) /\ day = 0 /\ config[entry].enable
    BY <1>4 DEF Merge!LoadDailyDatum, Merge!E1
  <2>2. CASE Merge!Throws
    BY <2>1, <2>2, MergeThrows
  <2>3. CASE day' = 1 /\ UNCHANGED <<config, entry, first, rows, index, names, feats, outcome>>
    <3>1. Laid(config, entry, 0, rows, index, names, feats)
      <4>1. entry \in Nat /\ Laid(config, entry, -1, rows, index, names, feats)
        BY <1>1, <2>1
      <4> QED BY <1>1, <1>2, <4>1, LaidMoves
    <3> QED BY <1>1, <1>2, <2>1, <2>3, <3>1 DEF MergeInv
  <2> QED BY <1>4, <2>2, <2>3 DEF Merge!LoadDailyDatum
<1>5. CASE Merge!FirstEntryDay
  <2>1. outcome = "running" /\ day > 0
    BY <1>5 DEF Merge!FirstEntryDay
  <2>2. Merge!Throws \/ (Merge!NextDay /\ config' = config /\ outcome' = outcome)
    BY <1>5, Zenon DEF Merge!FirstEntryDay
  <2>3. CASE Merge!Throws
    BY <2>1, <2>3, MergeThrows
  <2>4. CASE Merge!NextDay /\ config' = config /\ outcome' = outcome
    <3>1. Laid(config, entry, day, rows', index', names', feats')
      BY <1>5, <2>1, <2>4, FirstDayLaid
    <3> QED BY <2>1, <2>4, <3>1, DayPasses
  <2> QED BY <2>2, <2>3, <2>4
<1>6. CASE Merge!LaterEntryDay
  <2>1. outcome = "running" /\ day > 0
    BY <1>6 DEF Merge!LaterEntryDay
  <2>2. Merge!Throws \/ (Merge!NextDay /\ config' = config /\ outcome' = outcome)
    BY <1>6, Zenon DEF Merge!LaterEntryDay
  <2>3. CASE Merge!Throws
    BY <2>1, <2>3, MergeThrows
  <2>4. CASE Merge!NextDay /\ config' = config /\ outcome' = outcome
    <3>1. Laid(config, entry, day, rows', index', names', feats')
      BY <1>6, <2>1, <2>4, LaterDayLaid
    <3> QED BY <2>1, <2>4, <3>1, DayPasses
  <2> QED BY <2>2, <2>3, <2>4
<1>7. CASE Merge!Finish
  BY <1>1, <1>2, <1>7 DEF MergeInv, Merge!Finish
<1>8. ASSUME NEW c \in Configs, Merge!Call(c) PROVE MergeInv'
  <2>1. /\ outcome = "none" /\ config' = c /\ outcome' = "running" /\ entry' = entry /\ day' = day /\ first' = first
        /\ rows' = rows /\ index' = index /\ names' = names /\ feats' = feats
    BY <1>8 DEF Merge!Call
  <2>2. c \in Seq(Members(c)) /\ Len(c) \in Nat
    BY FileIs
  <2>3. Laid(c, 1, -1, rows, index, names, feats)
    <3>1. \A o \in 1 .. Len(c) : ~(o < 1)
      OBVIOUS
    <3> QED BY <1>1, <3>1 DEF Laid
  <2>4. rows = <<>> /\ entry = 1 /\ day = 0 /\ first
    BY <2>1 DEF MergeInv
  <2>5. \A e : ~(e \in 1 .. 1 - 1)
    OBVIOUS
  <2> QED BY <1>2, <2>1, <2>2, <2>3, <2>4, <2>5 DEF MergeInv
<1>9. CASE UNCHANGED mergeVars
  BY <1>9 DEF MergeInv, mergeVars
<1> QED BY <1>3, <1>4, <1>5, <1>6, <1>7, <1>8, <1>9, Zenon DEF Merge!Next

LEMMA MergeShows == ASSUME MergeInv PROVE MergeTrue
<1> SUFFICES ASSUME outcome = "done", NEW e \in Merge!Enabled, NEW c \in DOMAIN config[e].name,
                    \A d \in Merge!ToSet(Days) :
                       /\ c \in Merge!ToSet(config[e].file[d].cols)
                       /\ ~Merge!Twice(Merge!NewNames(config[e], config[e].file[d]), config[e].name[c]),
                    \A o \in Merge!Enabled \ {e} : ~Merge!Given(o, config[e].name[c])
             PROVE config[e].name[c] \in Merge!ToSet(names)
                   /\ feats[Merge!At(names, config[e].name[c])] = [j \in DOMAIN rows |-> Merge!Path(e, c, rows[j])]
  BY Zenon DEF MergeTrue, Merge!MergeTrue
<1> DEFINE n == config[e].name[c]
<1>1. /\ config \in Configs /\ entry = Len(config) + 1 /\ config \in Seq(Members(config)) /\ Len(config) \in Nat
      /\ Laid(config, entry, day - 1, rows, index, names, feats)
  BY DEF MergeInv
<1>2. Len(Days) \in Nat \ {0} /\ DOMAIN Days = 1 .. Len(Days) /\ \A d \in 1 .. Len(Days) : Days[d] \in Members(Days)
  BY <1>1, FileIs
<1>3. DOMAIN config = 1 .. Len(config) /\ e \in 1 .. Len(config) /\ config[e].enable
  BY <1>1 DEF Merge!Enabled
<1>4. Sole(config, e, c)
  <2>1. ASSUME NEW o \in 1 .. Len(config), NEW d \in 1 .. Len(Days), config[o].enable, o # e
        PROVE n \notin Members(Merge!NewNames(config[o], config[o].file[Days[d]]))
    <3>1. o \in Merge!Enabled \ {e}
      BY <1>3, <2>1 DEF Merge!Enabled
    <3>2. ~Merge!Given(o, n) /\ Days[d] \in Merge!ToSet(Days)
      BY <1>2, <3>1 DEF Members
    <3> QED BY <3>2, Zenon DEF Merge!Given, Members
  <2>2. \A d \in 1 .. Len(Days) : /\ c \in Members(config[e].file[Days[d]].cols)
                                  /\ ~Merge!Twice(Merge!NewNames(config[e], config[e].file[Days[d]]), n)
    BY <1>2, Zenon DEF Members
  <2> QED BY <1>3, <2>1, <2>2, Zenon DEF Sole
<1>5. Shown(config, names, feats, rows, e, c, Len(Days))
  <2>1. e < entry
    BY <1>1, <1>3
  <2> QED BY <1>1, <1>3, <1>4, <2>1 DEF Laid
<1>6. PICK i \in 1 .. Len(names) : names[i] = n /\ feats[i] = [j \in 1 .. Len(rows) |-> PathTo(config, e, c, rows[j], Len(Days))]
  BY <1>5, Zenon DEF Shown
<1>7. names \in Seq(Members(names)) /\ Once(names) /\ rows \in Seq(Members(rows))
  BY <1>1 DEF Laid, Tabled, Titled
<1>8. n \in Members(names) /\ Merge!At(names, n) = i
  <2>1. n \in Members(names)
    BY <1>6, <1>7, MembersAre
  <2> HIDE DEF n
  <2> QED BY <1>6, <1>7, <2>1, PlaceIs
<1>9. \A k : PathTo(config, e, c, k, Len(Days)) = Merge!Path(e, c, k)
  <2>1. TAKE k
  <2>2. \A d : Has(config, e, d, k) <=> k \in Merge!ToSet(config[e].file[Days[d]].rows)
    BY Zenon DEF Has, Members
  <2> DEFINE have == {d \in 1 .. Len(Days) : Has(config, e, d, k)}
  <2>3. have = {d \in DOMAIN Days : k \in Merge!ToSet(config[e].file[Days[d]].rows)}
    BY <1>2, <2>2
  <2>4. Merge!Path(e, c, k) = IF have = {} THEN Merge!NaN ELSE <<e, c, k, Merge!Max(have)>>
    BY <2>3, Zenon DEF Merge!Path
  <2>5. PathTo(config, e, c, k, Len(Days)) = IF \E d \in 1 .. Len(Days) : Has(config, e, d, k) THEN <<e, c, k, Merge!Max(have)>> ELSE Merge!NaN
    BY Zenon DEF PathTo
  <2>6. (\E d \in 1 .. Len(Days) : Has(config, e, d, k)) <=> have # {}
    OBVIOUS
  <2> QED BY <2>4, <2>5, <2>6
<1>10. DOMAIN rows = 1 .. Len(rows)
  BY <1>7
<1> HIDE DEF n
<1>11. feats[i] = [j \in DOMAIN rows |-> Merge!Path(e, c, rows[j])]
  BY <1>6, <1>9, <1>10
<1> QED BY <1>8, <1>11 DEF n, Members

\* merge_read: in the table a column has its entry's value in every row that
\* the entry's files hold, that of the last day, and NaN in all others.
THEOREM MergeLaid == MergeSpec => []MergeTrue
<1>1. Merge!Init => MergeInv
  BY MergeInit
<1>2. MergeInv /\ [Merge!Next]_mergeVars => MergeInv'
  BY MergeStep
<1>3. MergeInv => MergeTrue
  BY MergeShows
<1> QED BY <1>1, <1>2, <1>3, PTL DEF MergeSpec
=============================================================================
