--------------------------- MODULE VarChannelProofs ---------------------------
(* VarChannel for every size of the memory and every set of lengths: the     *)
(* last message counted is whole, if the memory holds three of the longest.  *)
EXTENDS VarChannel, TLAPS

USE LensAssumption, BoundsAssumption

\* TypeOK in parts, with what the bytes may be and what a publisher relies on.
MemTypes == mem \in [0 .. Size - 1 -> [epoch : 0 .. MaxEpoch, seq : 0 .. MaxSeq,
                                       unit : Nat, len : Lens \cup {0}]]
PubTypes == /\ warp \in {0, 1} /\ currIdx \in -1 .. MaxSeq /\ epoch \in 0 .. MaxEpoch
            /\ pcP \in {"down", "idle", "zeroing", "writing", "wrapped", "written"}
            /\ pdata \in 0 .. Size \cup {l \in Lens : l > Size} /\ len \in Lens \cup {0}
Copying == pcP \in {"writing", "wrapped"}
Behinds == {p + l : p \in 0 .. Size - 1, l \in MsgLens}
SubTypes == /\ pcS \in {"down", "idle", "visit"} /\ data \in {Null} \cup Behinds
            /\ cur \in -1 .. MaxSeq /\ i \in 0 .. MaxSeq + 1 /\ done \in -1 .. MaxSeq
Publishes == /\ pcP # "down" => epoch > 0
             /\ pcP = "zeroing" \/ Copying \/ pcP = "written" => currIdx < MaxSeq /\ len \in Lens
             /\ pcP = "zeroing" => pdata < Size /\ pdata + len > Size /\ warp = 1
             /\ pcP = "writing" => pdata + len <= Size
             /\ pcP = "wrapped" => pdata = 0
Typed == MemTypes /\ PubTypes /\ SubTypes /\ Publishes

\* Message s whole at o; pdata behind it, or at the start after the end.
LastAt(s, o) == IntactAt(s, o) /\ mem[o].len \in Lens
Behind(o) == pdata = o + mem[o].len \/ (pdata = 0 /\ o + mem[o].len = Size)
Apart(o) == o + mem[o].len <= pdata \/ pdata + len <= o

\* The memory holds three of the longest messages: the last one, one before it
\* or zeroed bytes, and the next.
RoomForThree == \A l \in Lens : 3 * l <= Size + 1

\* The last message counted is whole, and what is being copied is beside it.
Last == RoomForThree /\ epoch > 0 /\ currIdx >= 0 =>
          \E o \in 0 .. Size - 1 : /\ LastAt(currIdx, o)
                                   /\ pcP \in {"idle", "zeroing"} => Behind(o)
                                   /\ Copying => Apart(o)
\* So is the one copied and not yet counted, if it is no longer than the memory.
Written == pcP = "written" /\ len <= Size => \E o \in 0 .. Size - 1 : LastAt(currIdx + 1, o) /\ Behind(o)

VarInv == Typed /\ Last /\ Written

------------------------------------------------------------------------------
\* The lengths are numbers.
LEMMA LenFacts == \A l \in Lens : l \in Nat /\ l > 0
  OBVIOUS

\* So are those a header may show, and where the subscriber's pointer may be.
LEMMA PointerFacts == (\A l \in MsgLens : l \in Nat) /\ (\A d \in Behinds : d \in Nat)
<1>1. \A l \in MsgLens : l \in Nat
  BY DEF MsgLens
<1>2. ASSUME NEW p \in 0 .. Size - 1, NEW l \in MsgLens PROVE p + l \in Nat
  BY <1>1
<1> QED BY <1>1, <1>2 DEF Behinds

\* The headers the subscriber may read have types.
LEMMA HeaderTypes ==
  ASSUME MemTypes, NEW o \in 0 .. Size - 1, NEW h \in HeadersAt(o)
  PROVE h.seq \in 0 .. MaxSeq /\ h.len \in MsgLens
<1>1. mem[o] \in [epoch : 0 .. MaxEpoch, seq : 0 .. MaxSeq, unit : Nat, len : Lens \cup {0}]
  BY DEF MemTypes
<1>2. CASE mem[o].unit = 0
  <2>1. h = [seq |-> mem[o].seq, len |-> mem[o].len]
    BY <1>2 DEF HeadersAt
  <2>2. mem[o].seq \in 0 .. MaxSeq /\ mem[o].len \in Lens \cup {0}
    BY <1>1
  <2> QED BY <2>1, <2>2 DEF MsgLens
<1>3. CASE mem[o].unit # 0
  BY <1>3 DEF HeadersAt
<1> QED BY <1>2, <1>3

\* What PollVar finds is in the memory.
LEMMA PolledIn ==
  ASSUME SubTypes, NEW pd \in Polled \ {Null}
  PROVE pd \in 0 .. Size - 1
<1>1. PICK h \in HeadersAtData : pd = PollVar(h)
  BY DEF Polled
<1>2. data = Null \/ data \in Nat
  BY PointerFacts DEF SubTypes
<1>3. pd \in {IF data = Null THEN 0 ELSE data, 0}
  BY <1>1 DEF PollVar
<1>4. pd # Null /\ (pd # 0 => pd + Header < Size /\ pd = data)
  BY <1>1, <1>2 DEF PollVar
<1> QED BY <1>2, <1>3, <1>4 DEF Null, Header

\* A message stays where it is when no unit of it is written.
LEMMA Keeps ==
  ASSUME NEW o \in 0 .. Size - 1, LastAt(currIdx, o), UNCHANGED <<currIdx, epoch>>,
         \A u \in o .. o + mem[o].len - 1 : mem'[u] = mem[u]
  PROVE LastAt(currIdx, o)' /\ mem'[o].len = mem[o].len
<1>1. mem[o].len \in Nat \ {0} /\ mem[o].len \in Lens
  BY LenFacts DEF LastAt
<1>2. mem'[o] = mem[o]
  BY <1>1
<1>3. ASSUME NEW k \in 0 .. mem'[o].len - 1
      PROVE o + k < Size /\ mem'[o + k] = Unit(currIdx, k, mem[o].len)'
  <2>1. k \in 0 .. mem[o].len - 1
    BY <1>2, <1>3
  <2>2. o + k < Size /\ mem[o + k] = Unit(currIdx, k, mem[o].len)
    BY <2>1 DEF LastAt, IntactAt
  <2>3. o + k \in o .. o + mem[o].len - 1
    BY <1>1, <2>1
  <2>4. mem'[o + k] = mem[o + k]
    BY <2>3
  <2>5. Unit(currIdx, k, mem[o].len)' = Unit(currIdx, k, mem[o].len)
    BY <1>2 DEF Unit
  <2> QED BY <2>2, <2>4, <2>5
<1>4. mem'[o].epoch = epoch' /\ mem'[o].seq = currIdx' /\ mem'[o].unit = 0
  BY <1>2 DEF LastAt, IntactAt
<1> QED BY <1>1, <1>2, <1>3, <1>4 DEF LastAt, IntactAt, Unit

\* Nothing is in the memory and nobody publishes.
LEMMA InitInv == Init => VarInv
<1> SUFFICES ASSUME Init PROVE VarInv
  OBVIOUS
<1> USE DEF Init
<1>1. MemTypes
  <2>1. Zero \in [epoch : 0 .. MaxEpoch, seq : 0 .. MaxSeq, unit : Nat, len : Lens \cup {0}]
    BY DEF Zero
  <2> QED BY <2>1 DEF MemTypes
<1>2. PubTypes /\ SubTypes /\ Publishes
  BY DEF PubTypes, SubTypes, Publishes, Copying, Null
<1>3. Last /\ Written
  BY DEF Last, Written, Copying
<1> QED BY <1>1, <1>2, <1>3 DEF VarInv, Typed

\* A step that leaves the memory and the publisher alone.
LEMMA MemoryKept ==
  ASSUME VarInv, UNCHANGED <<mem, warp, currIdx, pubVars, epoch>>
  PROVE MemTypes' /\ PubTypes' /\ Publishes' /\ Last' /\ Written'
<1> USE DEF VarInv, Typed, pubVars
<1>1. MemTypes' /\ PubTypes' /\ Publishes'
  BY DEF MemTypes, PubTypes, Publishes, Copying
<1>2. \A o : /\ LastAt(currIdx, o)' <=> LastAt(currIdx, o)
             /\ LastAt(currIdx + 1, o)' <=> LastAt(currIdx + 1, o)
             /\ Behind(o)' <=> Behind(o)
             /\ Apart(o)' <=> Apart(o)
  BY DEF LastAt, IntactAt, Unit, Behind, Apart
<1>3. Last' /\ Written'
  BY <1>2 DEF Last, Written, Copying
<1> QED BY <1>1, <1>3

\* The publisher starts or ends.
LEMMA RegisterInv == VarInv /\ (Register \/ PubDown) => VarInv'
<1> SUFFICES ASSUME VarInv, Register \/ PubDown PROVE VarInv'
  OBVIOUS
<1> USE DEF VarInv, Typed, subVars
<1>1. MemTypes' /\ SubTypes'
  BY DEF MemTypes, SubTypes, Register, PubDown
<1>2. PubTypes' /\ Publishes'
  BY DEF PubTypes, Publishes, Copying, Register, PubDown
<1>3. Written'
  BY DEF Written, Register, PubDown
<1>4. Last'
  <2>1. CASE Register
    BY <2>1 DEF Register, Last
  <2>2. CASE PubDown
    <3>1. \A o : LastAt(currIdx, o)' <=> LastAt(currIdx, o)
      BY <2>2 DEF PubDown, LastAt, IntactAt, Unit
    <3> QED BY <2>2, <3>1 DEF PubDown, Last, Copying
  <2> QED BY <2>1, <2>2
<1> QED BY <1>1, <1>2, <1>3, <1>4

\* The rest of the memory is being zeroed: the last message lies before it.
LEMMA PublishWrapInv ==
  ASSUME VarInv, NEW l \in Lens, PublishWrap(l)
  PROVE VarInv'
<1> USE DEF VarInv, Typed, subVars
<1>1. l \in Nat \ {0} /\ pdata \in 0 .. Size - 1 /\ pdata + l > Size /\ warp = 1
  BY LenFacts DEF PubTypes, PublishWrap, CanPublish, Fits
<1>2. /\ pdata' = pdata /\ len' = l /\ pcP' = "zeroing" /\ epoch' = epoch /\ currIdx' = currIdx
      /\ pcP = "idle" /\ currIdx < MaxSeq /\ warp' = warp
      /\ mem' = [o \in 0 .. Size - 1 |-> IF o >= pdata /\ mem[o] # Zero THEN Torn ELSE mem[o]]
  BY DEF PublishWrap, CanPublish
<1>3. MemTypes'
  <2>1. Torn \in [epoch : 0 .. MaxEpoch, seq : 0 .. MaxSeq, unit : Nat, len : Lens \cup {0}]
    BY DEF Torn
  <2> QED BY <1>2, <2>1 DEF MemTypes
<1>4. PubTypes' /\ SubTypes' /\ Publishes'
  BY <1>1, <1>2 DEF PubTypes, SubTypes, Publishes, Copying, PublishWrap
<1>5. Written'
  BY <1>2 DEF Written
<1>6. ASSUME RoomForThree, epoch > 0, currIdx >= 0
      PROVE \E o \in 0 .. Size - 1 : LastAt(currIdx, o)' /\ Behind(o)'
  <2>1. PICK o \in 0 .. Size - 1 : LastAt(currIdx, o) /\ Behind(o)
    BY <1>2, <1>6 DEF Last
  <2> DEFINE L == mem[o].len
  <2>2. L \in Lens /\ L \in Nat \ {0} /\ 3 * l <= Size + 1
    BY <1>6, <2>1, LenFacts DEF LastAt, RoomForThree
  <2>3. pdata = o + L \/ (pdata = 0 /\ o + L = Size)
    BY <2>1 DEF Behind
  <2> HIDE DEF L
  <2>4. pdata = o + L
    BY <1>1, <2>2, <2>3
  <2>5. ASSUME NEW u \in o .. o + L - 1 PROVE mem'[u] = mem[u]
    <3>1. u \in 0 .. Size - 1 /\ ~(u >= pdata)
      BY <1>1, <2>2, <2>4
    <3> QED BY <1>2, <3>1
  <2>6. LastAt(currIdx, o)' /\ mem'[o].len = L
    <3>1. \A u \in o .. o + mem[o].len - 1 : mem'[u] = mem[u]
      BY <2>5 DEF L
    <3> QED BY <1>2, <2>1, <3>1, Keeps DEF L
  <2>7. Behind(o)'
    BY <1>2, <2>4, <2>6 DEF Behind
  <2> QED BY <2>6, <2>7
<1>7. Last'
  BY <1>2, <1>6 DEF Last, Copying
<1> QED BY <1>3, <1>4, <1>5, <1>7

\* The copy begins: beside the last message, also at the start.
Begins(l) == PublishBegin(l) \/ (PublishAtStart /\ len = l)
LEMMA PublishBeginInv ==
  ASSUME VarInv, NEW l \in Lens, Begins(l)
  PROVE VarInv'
<1> USE DEF VarInv, Typed, subVars
<1> DEFINE to == IF Fits(l) THEN pdata ELSE 0
<1>1. /\ l \in Nat \ {0} /\ pdata \in 0 .. Size - 1 /\ to \in 0 .. Size
      /\ pcP = "idle" => PublishBegin(l) /\ Fits(l)
      /\ pcP # "idle" => PublishAtStart /\ len = l /\ ~Fits(l) /\ warp = 1 /\ pcP = "zeroing"
  BY LenFacts DEF Begins, PublishBegin, CanPublish, PublishAtStart, PubTypes, Publishes, Fits
<1>2. /\ pdata' = to /\ len' = l /\ epoch' = epoch /\ currIdx' = currIdx /\ warp' = warp
      /\ pcP' = IF pcP = "idle" THEN "writing" ELSE "wrapped"
      /\ pcP \in {"idle", "zeroing"} /\ currIdx < MaxSeq /\ UNCHANGED subVars
      /\ mem' = [o \in 0 .. Size - 1 |->
                     IF o \in to .. to + l - 1 THEN Torn
                     ELSE IF ~Fits(l) /\ o >= pdata THEN Zero ELSE mem[o]]
  <2>1. CASE pcP = "idle"
    BY <1>1, <2>1 DEF PublishBegin, CanPublish
  <2>2. CASE pcP # "idle"
    BY <1>1, <2>2 DEF PublishAtStart, Publishes
  <2> QED BY <2>1, <2>2
<1>3. MemTypes'
  <2>1. /\ Zero \in [epoch : 0 .. MaxEpoch, seq : 0 .. MaxSeq, unit : Nat, len : Lens \cup {0}]
        /\ Torn \in [epoch : 0 .. MaxEpoch, seq : 0 .. MaxSeq, unit : Nat, len : Lens \cup {0}]
    BY DEF Zero, Torn
  <2> HIDE DEF to
  <2> QED BY <1>2, <2>1 DEF MemTypes
<1>4. PubTypes' /\ SubTypes' /\ Publishes'
  BY <1>1, <1>2 DEF PubTypes, SubTypes, Publishes, Copying, Fits
<1>5. Written'
  BY <1>2 DEF Written
<1>6. ASSUME RoomForThree, epoch > 0, currIdx >= 0
      PROVE \E o \in 0 .. Size - 1 : LastAt(currIdx, o)' /\ Apart(o)'
  <2>1. PICK o \in 0 .. Size - 1 : LastAt(currIdx, o) /\ Behind(o)
    BY <1>2, <1>6 DEF Last
  <2> DEFINE L == mem[o].len
  <2>2. L \in Lens /\ L \in Nat \ {0} /\ 3 * L <= Size + 1 /\ 3 * l <= Size + 1
    BY <1>6, <2>1, LenFacts DEF LastAt, RoomForThree
  <2>3. (pdata = o + L \/ (pdata = 0 /\ o + L = Size)) /\ o + L <= Size
    BY <1>1, <2>1, <2>2 DEF Behind, PubTypes
  <2> HIDE DEF L
  <2>4. o + L <= to \/ to + l <= o
    BY <1>1, <2>2, <2>3 DEF Fits
  <2>8. to + l <= Size
    BY <1>1, <2>2 DEF Fits
  <2>5. ASSUME NEW u \in o .. o + L - 1 PROVE mem'[u] = mem[u]
    <3>1. u \in 0 .. Size - 1 /\ u \notin to .. to + l - 1
      BY <1>1, <2>2, <2>3, <2>4, <2>8
    <3>2. Fits(l) \/ u < pdata
      BY <1>1, <2>2, <2>3 DEF Fits
    <3> HIDE DEF to
    <3> QED BY <1>1, <1>2, <3>1, <3>2
  <2>6. LastAt(currIdx, o)' /\ mem'[o].len = L
    <3>1. \A u \in o .. o + mem[o].len - 1 : mem'[u] = mem[u]
      BY <2>5 DEF L
    <3> QED BY <1>2, <2>1, <3>1, Keeps DEF L
  <2>7. Apart(o)'
    BY <1>2, <2>4, <2>6 DEF Apart
  <2> QED BY <2>6, <2>7
<1>7. Last'
  BY <1>2, <1>6 DEF Last, Copying
<1> QED BY <1>3, <1>4, <1>5, <1>7

\* The copy is done: one more message lies whole beside the last one.
LEMMA PublishEndInv == VarInv /\ PublishEnd => VarInv'
<1> SUFFICES ASSUME VarInv, PublishEnd PROVE VarInv'
  OBVIOUS
<1> USE DEF VarInv, Typed, subVars
<1> DEFINE s == currIdx + 1
<1>1. /\ len \in Lens /\ len \in Nat \ {0} /\ pdata \in 0 .. Size - 1 /\ (pcP = "writing" => pdata + len <= Size)
      /\ currIdx \in -1 .. MaxSeq - 1 /\ epoch \in 0 .. MaxEpoch
  BY LenFacts DEF PublishEnd, PubTypes, Publishes, Copying
<1>2. /\ mem' = [o \in 0 .. Size - 1 |->
                   IF o \in pdata .. pdata + len - 1 THEN Unit(s, o - pdata, len) ELSE mem[o]]
      /\ pdata' = IF pcP = "writing" /\ pdata + len = Size /\ warp = 1 THEN 0 ELSE pdata + len
      /\ Copying /\ (pcP = "wrapped" => pdata = 0) /\ pcP' = "written" /\ currIdx' = currIdx /\ epoch' = epoch /\ len' = len
  BY DEF PublishEnd, Copying, Publishes
<1>3. MemTypes'
  <2>1. ASSUME NEW k \in Nat
        PROVE Unit(s, k, len) \in [epoch : 0 .. MaxEpoch, seq : 0 .. MaxSeq, unit : Nat, len : Lens \cup {0}]
    BY <1>1 DEF Unit
  <2>2. \A o \in 0 .. Size - 1 : o \in pdata .. pdata + len - 1 => o - pdata \in Nat
    BY <1>1
  <2> HIDE DEF s
  <2> QED BY <1>2, <2>1, <2>2 DEF MemTypes
<1>4. PubTypes' /\ SubTypes' /\ Publishes'
  BY <1>1, <1>2 DEF PubTypes, SubTypes, Publishes, Copying, PublishEnd
<1>5. Last'
  <2>1. SUFFICES ASSUME RoomForThree, epoch > 0, currIdx >= 0
                 PROVE \E o \in 0 .. Size - 1 : LastAt(currIdx, o)'
    BY <1>2 DEF Last, Copying
  <2>2. PICK o \in 0 .. Size - 1 : LastAt(currIdx, o) /\ Apart(o)
    BY <1>2, <2>1 DEF Last
  <2> DEFINE L == mem[o].len
  <2>3. L \in Nat \ {0} /\ (o + L <= pdata \/ pdata + len <= o)
    BY <2>2, LenFacts DEF LastAt, Apart
  <2>4. o + L - 1 < Size
    <3>1. L - 1 \in 0 .. L - 1
      BY <2>3
    <3>2. o + (L - 1) < Size
      BY <2>2, <3>1 DEF LastAt, IntactAt
    <3> QED BY <2>3, <3>2
  <2>5. \A u \in o .. o + mem[o].len - 1 : mem'[u] = mem[u]
    <3> SUFFICES ASSUME NEW u \in o .. o + L - 1 PROVE mem'[u] = mem[u]
      OBVIOUS
    <3> HIDE DEF L, s
    <3>1. u \in 0 .. Size - 1 /\ u \notin pdata .. pdata + len - 1
      BY <1>1, <2>3, <2>4
    <3> QED BY <1>2, <3>1
  <2> QED BY <1>2, <2>2, <2>5, Keeps
<1>6. Written'
  <2> SUFFICES ASSUME len <= Size PROVE Written'
    BY <1>2 DEF Written
  <2>1. pdata \in 0 .. Size - 1 /\ pdata + len <= Size
    BY <1>1, <1>2 DEF Copying
  <2>2. ASSUME NEW k \in 0 .. len - 1
        PROVE pdata + k \in 0 .. Size - 1 /\ mem'[pdata + k] = Unit(s, k, len)
    <3>1. pdata + k \in pdata .. pdata + len - 1 /\ pdata + k \in 0 .. Size - 1 /\ (pdata + k) - pdata = k
      BY <1>1, <2>1
    <3> HIDE DEF s
    <3> QED BY <1>2, <3>1
  <2>3. mem'[pdata] = Unit(s, 0, len)
    <3>1. 0 \in 0 .. len - 1 /\ pdata + 0 = pdata
      BY <1>1
    <3> QED BY <2>2, <3>1
  <2>4. mem'[pdata].len = len /\ mem'[pdata].seq = s /\ mem'[pdata].unit = 0 /\ mem'[pdata].epoch = epoch
    BY <2>3 DEF Unit
  <2>5. ASSUME NEW o \in 0 .. Size - 1, o = pdata PROVE LastAt(currIdx + 1, o)' /\ Behind(o)'
    <3>1. \A k \in 0 .. mem'[o].len - 1 : o + k < Size /\ mem'[o + k] = Unit(s, k, mem'[o].len)
      BY <2>2, <2>4, <2>5
    <3>2. LastAt(currIdx + 1, o)'
      <4>1. IntactAt(currIdx + 1, o)'
        <5>1. \A k, l : Unit(currIdx + 1, k, l)' = Unit(s, k, l)
          BY <1>2 DEF Unit
        <5>2. mem'[o].epoch = epoch' /\ mem'[o].seq = (currIdx + 1)' /\ mem'[o].unit = 0
          BY <1>2, <2>4, <2>5
        <5> HIDE DEF s
        <5> QED BY <3>1, <5>1, <5>2 DEF IntactAt
      <4> QED BY <1>1, <2>4, <2>5, <4>1 DEF LastAt
    <3>3. Behind(o)'
      BY <1>1, <1>2, <2>1, <2>4, <2>5 DEF Behind
    <3> QED BY <3>2, <3>3
  <2> QED BY <2>1, <2>5 DEF Written
<1> QED BY <1>3, <1>4, <1>5, <1>6

\* The message is counted, and is the last one.
LEMMA PublishCountInv == VarInv /\ PublishCount => VarInv'
<1> SUFFICES ASSUME VarInv, PublishCount PROVE VarInv'
  OBVIOUS
<1> USE DEF VarInv, Typed, subVars, PublishCount
<1>1. MemTypes' /\ PubTypes' /\ SubTypes' /\ Publishes'
  BY DEF MemTypes, PubTypes, SubTypes, Publishes, Copying
<1>2. \A o : /\ LastAt(currIdx, o)' <=> LastAt(currIdx + 1, o)
             /\ Behind(o)' <=> Behind(o)
  BY DEF LastAt, IntactAt, Unit, Behind
<1>3. Last'
  <2>1. RoomForThree => len <= Size
    <3>1. len \in Lens /\ len \in Nat
      BY LenFacts DEF Publishes
    <3>2. RoomForThree => 3 * len <= Size + 1
      BY <3>1 DEF RoomForThree
    <3> QED BY <3>1, <3>2
  <2> QED BY <1>2, <2>1 DEF Last, Written, Copying, RoomForThree
<1>4. Written'
  BY DEF Written
<1> QED BY <1>1, <1>3, <1>4

\* The subscriber's pointer is behind a place in the memory, never further.
LEMMA SubscriberInv ==
  VarInv /\ (Subscribe \/ SubPoll \/ SubVisit \/ SubThrow \/ SubDone) => VarInv'
<1> SUFFICES ASSUME VarInv, Subscribe \/ SubPoll \/ SubVisit \/ SubThrow \/ SubDone PROVE VarInv'
  OBVIOUS
<1> USE DEF VarInv, Typed
<1>1. MemTypes' /\ PubTypes' /\ Publishes' /\ Last' /\ Written'
  BY MemoryKept DEF Subscribe, SubPoll, SubVisit, SubThrow, SubDone
<1>2. CASE Subscribe \/ SubPoll \/ SubThrow \/ SubDone
  <2>1. SubTypes'
    BY <1>2 DEF Subscribe, SubPoll, SubThrow, SubDone, SubscriberGone, SubTypes, PubTypes, Null
  <2> QED BY <1>1, <2>1
<1>3. CASE SubVisit
  <2>1. PICK pd \in Polled \ {Null} : \E h \in HeadersAt(pd) : i' = h.seq + 1 /\ data' = pd + h.len
    BY <1>3 DEF SubVisit
  <2>2. pd \in 0 .. Size - 1
    BY <2>1, PolledIn
  <2>3. PICK h \in HeadersAt(pd) : i' = h.seq + 1 /\ data' = pd + h.len
    BY <2>1
  <2>4. h.seq \in 0 .. MaxSeq /\ h.len \in MsgLens
    BY <2>2, HeaderTypes
  <2>5. i' \in 0 .. MaxSeq + 1 /\ data' \in Behinds
    BY <2>2, <2>3, <2>4 DEF Behinds
  <2>6. SubTypes'
    BY <1>3, <2>5 DEF SubTypes, SubVisit, Behinds, MsgLens
  <2> QED BY <1>1, <2>6
<1> QED BY <1>2, <1>3

\* Every step keeps the invariant.
LEMMA StepInv == VarInv /\ [Next]_vars => VarInv'
<1> SUFFICES ASSUME VarInv, [Next]_vars PROVE VarInv'
  OBVIOUS
<1>1. CASE UNCHANGED vars
  <2>1. SubTypes'
    BY <1>1 DEF vars, subVars, VarInv, Typed, SubTypes
  <2> QED BY <1>1, <2>1, MemoryKept DEF vars, VarInv, Typed
<1>2. ASSUME NEW l \in Lens, PublishBegin(l) \/ PublishWrap(l) PROVE VarInv'
  BY <1>2, PublishBeginInv, PublishWrapInv DEF Begins
<1>3. CASE PublishAtStart
  BY <1>3, PublishBeginInv DEF Begins, PublishAtStart, VarInv, Typed, Publishes
<1> QED BY <1>1, <1>2, <1>3, RegisterInv, PublishEndInv, PublishCountInv, SubscriberInv DEF Next

------------------------------------------------------------------------------
(* Where the next message is.  Every message is longer than its header, and  *)
(* two of the longest fit: then message s + 1 begins behind message s, or at *)
(* the start with zeroes, something newer or a copy under way behind s.      *)
RoomForTwo == \A l \in Lens : l > Header /\ 2 * l <= Size

\* The last message written, counted or not.
Newest == IF pcP = "written" THEN currIdx + 1 ELSE currIdx
Blank(o) == mem[o] \in {Zero, Torn}
InLife(o) == epoch > 0 /\ mem[o].epoch = epoch

\* A unit that is neither zeroed nor being written belongs to a message that
\* fits, of this life or an earlier one; message 0 lies at the start.
UnitAt(o) == /\ mem[o].epoch \in 0 .. epoch
             /\ mem[o].epoch = 0 => Blank(o)
             /\ mem[o].epoch > 0 => /\ mem[o].len \in Lens /\ mem[o].unit <= o
                                    /\ o - mem[o].unit + mem[o].len <= Size
             /\ InLife(o) => /\ pcP # "down" => mem[o].seq <= Newest
                             /\ mem[o].seq = 0 => mem[o].unit = o
Units == \A o \in 0 .. Size - 1 : UnitAt(o)
First == pcP \in {"idle", "zeroing"} \/ Copying => (currIdx = -1 => pdata = 0)

\* Whatever of message s is in memory is of a copy that began at p.
StartsAt(s, p) == \A o \in 0 .. Size - 1 : InLife(o) /\ mem[o].seq = s => o - mem[o].unit = p
WrappedFrom(s, d) == /\ warp = 1 /\ StartsAt(s, 0)
                     /\ d < Size => Blank(d) \/ (InLife(d) /\ mem[d].seq > s)
\* Where the publisher will put message s, or is putting it, if it is the next.
PutsAt(d) == \/ pdata = d
             \/ pdata = 0 /\ warp = 1 /\ IF Copying THEN d + len > Size /\ (d < Size => Blank(d))
                                         ELSE d = Size
Follows(s, d) == /\ d \in 2 .. Size
                 /\ StartsAt(s, d) \/ WrappedFrom(s, d)
                 /\ pcP # "down" => s <= Newest + 1 /\ (s = Newest + 1 => PutsAt(d))

Succession == \A o \in 0 .. Size - 1 : InLife(o) /\ mem[o].unit = 0 => Follows(mem[o].seq + 1, o + mem[o].len)

\* A subscriber in step stands behind the message before the one it expects.
InStep == /\ next \in [epoch : 0 .. epoch, seq : 0 .. MaxSeq + 1]
          /\ pcS = "down" => next = Nothing
          /\ epoch > 0 /\ next.epoch = epoch => data # Null /\ Follows(next.seq, data)

OrderInv == VarInv /\ Units /\ First /\ Succession /\ InStep

\* The types of one unit.
LEMMA UnitTypes ==
  ASSUME VarInv, NEW o \in 0 .. Size - 1
  PROVE /\ mem[o].epoch \in 0 .. MaxEpoch /\ mem[o].seq \in 0 .. MaxSeq
        /\ mem[o].unit \in Nat /\ mem[o].len \in Lens \cup {0}
<1>1. mem[o] \in [epoch : 0 .. MaxEpoch, seq : 0 .. MaxSeq, unit : Nat, len : Lens \cup {0}]
  BY DEF VarInv, Typed, MemTypes
<1> QED BY <1>1

\* Nothing was published yet.
LEMMA InitOrder == Init => OrderInv
<1> SUFFICES ASSUME Init PROVE OrderInv
  OBVIOUS
<1>1. VarInv
  BY InitInv
<1>2. \A o \in 0 .. Size - 1 : mem[o] = Zero /\ mem[o].epoch = 0
  BY DEF Init, Zero
<1>3. epoch = 0 /\ next = Nothing /\ pcP = "down"
  BY DEF Init
<1>4. Units /\ First /\ Succession
  BY <1>2, <1>3 DEF Units, UnitAt, Blank, InLife, First, Copying, Succession
<1>5. InStep
  BY <1>3 DEF InStep, Nothing
<1> QED BY <1>1, <1>4, <1>5 DEF OrderInv

\* A step that leaves the memory and the publisher alone.
LEMMA OrderKept ==
  ASSUME UNCHANGED <<mem, warp, currIdx, pubVars, epoch>>
  PROVE /\ (Units <=> Units') /\ (First <=> First') /\ (Succession <=> Succession')
        /\ \A s, d : Follows(s, d) <=> Follows(s, d)'
<1> USE DEF pubVars
<1>1. \A o : /\ (InLife(o) <=> InLife(o)') /\ (Blank(o) <=> Blank(o)')
             /\ (UnitAt(o) <=> UnitAt(o)')
  BY DEF InLife, Blank, UnitAt, Newest
<1>2. \A s, d : Follows(s, d) <=> Follows(s, d)'
  BY <1>1 DEF Follows, StartsAt, WrappedFrom, PutsAt, Copying, Newest
<1>3. (Units <=> Units') /\ (First <=> First')
  BY <1>1 DEF Units, First, Copying
<1>4. Succession <=> Succession'
  BY <1>1, <1>2 DEF Succession
<1> QED BY <1>2, <1>3, <1>4
\* A new life: nothing of it is in memory; or the end of the publisher.
LEMMA RegisterOrder == OrderInv /\ (Register \/ PubDown) => OrderInv'
<1> SUFFICES ASSUME OrderInv, Register \/ PubDown PROVE OrderInv'
  OBVIOUS
<1> USE DEF OrderInv, subVars
<1>1. VarInv'
  BY RegisterInv
<1>2. epoch \in Nat /\ MaxSeq + 1 \in Nat
  BY DEF VarInv, Typed, PubTypes
<1>3. CASE Register
  <2> USE <1>3 DEF Register
  <2>1. ASSUME NEW o \in 0 .. Size - 1 PROVE UnitAt(o)' /\ ~InLife(o)'
    BY <1>2, UnitTypes DEF Units, UnitAt, InLife, Blank
  <2>2. Units' /\ Succession' /\ First'
    BY <2>1 DEF Units, Succession, First
  <2>3. InStep'
    BY <1>2 DEF InStep
  <2> QED BY <1>1, <2>2, <2>3
<1>4. CASE PubDown
  <2> USE <1>4 DEF PubDown
  <2>1. \A o : InLife(o)' <=> InLife(o)
    BY DEF InLife
  <2>2. Units' /\ First'
    BY <2>1 DEF Units, UnitAt, Blank, First, Copying
  <2>3. \A s, d : Follows(s, d) => Follows(s, d)'
    BY <2>1 DEF Follows, StartsAt, WrappedFrom, Blank
  <2>4. Succession' /\ InStep'
    BY <2>1, <2>3 DEF Succession, InStep
  <2> QED BY <1>1, <2>2, <2>4
<1> QED BY <1>3, <1>4

\* Units vanish when the publisher begins to zero or to copy; if message s still
\* goes where it did, everything follows as before.
LEMMA UnitsVanish ==
  ASSUME OrderInv, UNCHANGED <<warp, currIdx, epoch>>, Newest' = Newest, pcP # "down", pcP' # "down",
         \A o \in 0 .. Size - 1 : mem'[o] = mem[o] \/ Blank(o)',
         NEW s, NEW d, Follows(s, d), s = Newest + 1 /\ PutsAt(d) => PutsAt(d)'
  PROVE Follows(s, d)'
<1>1. d \in 2 .. Size
  BY DEF Follows
<1>2. epoch \in Nat /\ \A o \in 0 .. Size - 1 : InLife(o)' => InLife(o) /\ mem'[o] = mem[o]
  BY DEF OrderInv, VarInv, Typed, PubTypes, Blank, InLife, Zero, Torn
<1>3. \A p : StartsAt(s, p) => StartsAt(s, p)'
  BY <1>2 DEF StartsAt
<1>4. d < Size /\ (Blank(d) \/ (InLife(d) /\ mem[d].seq > s))
        => (Blank(d) \/ (InLife(d) /\ mem[d].seq > s))'
  BY <1>1 DEF Blank, InLife
<1>5. WrappedFrom(s, d) => WrappedFrom(s, d)'
  BY <1>3, <1>4 DEF WrappedFrom
<1> QED BY <1>1, <1>3, <1>5 DEF Follows

\* What is not written is as it was.
LEMMA UnitsKept ==
  ASSUME OrderInv, UNCHANGED <<currIdx, epoch>>, Newest' = Newest, pcP # "down", epoch > 0,
         \A o \in 0 .. Size - 1 : mem'[o] = mem[o] \/ Blank(o)'
  PROVE Units' /\ \A o \in 0 .. Size - 1 : InLife(o)' => InLife(o) /\ mem'[o] = mem[o]
<1>1. epoch \in Nat
  BY DEF OrderInv, VarInv, Typed, PubTypes
<1>2. \A o \in 0 .. Size - 1 : Blank(o)' => ~InLife(o)' /\ mem'[o].epoch = 0
  BY <1>1 DEF Blank, InLife, Zero, Torn
<1>3. ASSUME NEW o \in 0 .. Size - 1 PROVE UnitAt(o)'
  <2>1. UnitAt(o)
    BY DEF OrderInv, Units
  <2>2. CASE Blank(o)'
    BY <1>1, <1>2, <2>2 DEF UnitAt
  <2>3. CASE mem'[o] = mem[o]
    BY <2>1, <2>3 DEF UnitAt, InLife, Blank
  <2> QED BY <2>2, <2>3
<1>4. \A o \in 0 .. Size - 1 : InLife(o)' => InLife(o) /\ mem'[o] = mem[o]
  BY <1>2 DEF InLife
<1> QED BY <1>3, <1>4 DEF Units

\* The rest is being zeroed: no message goes elsewhere.
LEMMA PublishWrapOrder ==
  ASSUME OrderInv, RoomForTwo, NEW l \in Lens, PublishWrap(l)
  PROVE OrderInv'
<1> USE DEF OrderInv
<1>1. VarInv'
  BY PublishWrapInv
<1>2. /\ UNCHANGED <<warp, currIdx, pdata, subVars, epoch>> /\ pcP = "idle" /\ pcP' = "zeroing"
      /\ mem' = [o \in 0 .. Size - 1 |-> IF o >= pdata /\ mem[o] # Zero THEN Torn ELSE mem[o]]
  BY DEF PublishWrap, CanPublish
<1>3. Newest' = Newest /\ epoch > 0
  BY <1>2 DEF Newest, VarInv, Typed, Publishes
<1>4. \A o \in 0 .. Size - 1 : mem'[o] = mem[o] \/ Blank(o)'
  BY <1>2 DEF Blank
<1>5. Units' /\ \A o \in 0 .. Size - 1 : InLife(o)' => InLife(o) /\ mem'[o] = mem[o]
  BY <1>2, <1>3, <1>4, UnitsKept
<1>6. First'
  BY <1>2 DEF First
<1>7. ASSUME NEW s, NEW d, Follows(s, d) PROVE Follows(s, d)'
  <2>1. PutsAt(d) => PutsAt(d)'
    BY <1>2 DEF PutsAt, Copying
  <2> QED BY <1>2, <1>3, <1>4, <1>7, <2>1, UnitsVanish
<1>8. Succession'
  BY <1>5, <1>7 DEF Succession
<1>9. InStep'
  BY <1>2, <1>7 DEF InStep, subVars
<1> QED BY <1>1, <1>5, <1>6, <1>8, <1>9

\* The copy begins: units vanish, and the next message is put where it belongs.
LEMMA PublishBeginOrder ==
  ASSUME OrderInv, RoomForTwo, NEW l \in Lens, Begins(l)
  PROVE OrderInv'
<1> USE DEF OrderInv
<1> DEFINE to == IF Fits(l) THEN pdata ELSE 0
<1>1. VarInv'
  BY PublishBeginInv
<1>2. /\ pdata' = to /\ len' = l /\ Copying' /\ epoch' = epoch /\ currIdx' = currIdx
      /\ pcP \in {"idle", "zeroing"} /\ warp' = warp /\ pdata < Size /\ (Fits(l) \/ warp = 1)
      /\ UNCHANGED subVars
      /\ mem' = [o \in 0 .. Size - 1 |->
                     IF o \in to .. to + l - 1 THEN Torn
                     ELSE IF ~Fits(l) /\ o >= pdata THEN Zero ELSE mem[o]]
  <2>1. CASE PublishBegin(l)
    BY <2>1 DEF PublishBegin, CanPublish, Copying
  <2>2. CASE PublishAtStart /\ len = l
    <3>1. pdata < Size /\ warp = 1 /\ ~Fits(l)
      BY <2>2, LenFacts DEF PublishAtStart, VarInv, Typed, PubTypes, Publishes, Fits
    <3> QED BY <2>2, <3>1 DEF PublishAtStart, Copying
  <2> QED BY <2>1, <2>2 DEF Begins
<1>3. /\ l \in Nat /\ l > 1 /\ 2 * l <= Size /\ pdata \in 0 .. Size
      /\ epoch \in Nat /\ epoch > 0 /\ currIdx \in Int
  BY <1>2, LenFacts DEF RoomForTwo, Header, VarInv, Typed, PubTypes, Publishes
<1>4. \A o \in 0 .. Size - 1 : mem'[o] = mem[o] \/ Blank(o)'
  BY <1>2 DEF Blank
<1>5. Newest' = Newest /\ pcP # "down" /\ pcP' # "down"
  BY <1>2 DEF Newest, Copying
<1>6. Units' /\ \A o \in 0 .. Size - 1 : InLife(o)' => InLife(o) /\ mem'[o] = mem[o]
  BY <1>2, <1>3, <1>4, <1>5, UnitsKept
<1>7. First'
  BY <1>2 DEF First
<1>8. ASSUME NEW s, NEW d, Follows(s, d) PROVE Follows(s, d)'
  <2>1. d \in 2 .. Size
    BY <1>8 DEF Follows
  <2>2. ASSUME PutsAt(d) PROVE PutsAt(d)'
    <3>1. pdata = d \/ (d = Size /\ pdata = 0 /\ warp = 1)
      BY <1>2, <2>2 DEF PutsAt, Copying
    <3>2. CASE Fits(l)
      BY <1>2, <1>3, <2>1, <3>1, <3>2 DEF PutsAt
    <3>3. CASE ~Fits(l)
      <4>1. pdata = d /\ pdata + l > Size /\ warp = 1
        BY <1>2, <1>3, <3>1, <3>3 DEF Fits
      <4>2. Blank(d)'
        BY <1>2, <1>3, <2>1, <3>3, <4>1 DEF Blank
      <4> QED BY <1>2, <3>3, <4>1, <4>2 DEF PutsAt
    <3> QED BY <3>2, <3>3
  <2> QED BY <1>2, <1>4, <1>5, <1>8, <2>2, UnitsVanish
<1>9. Succession'
  BY <1>6, <1>8 DEF Succession
<1>10. InStep'
  BY <1>2, <1>8 DEF InStep, subVars
<1> QED BY <1>1, <1>6, <1>7, <1>9, <1>10

\* The copy is done: a message of this life lies where the one before expects it.
LEMMA PublishEndOrder ==
  ASSUME OrderInv, RoomForTwo, PublishEnd
  PROVE OrderInv'
<1> USE DEF OrderInv
<1> DEFINE new == currIdx + 1
           Covers(o) == o \in pdata .. pdata + len - 1
<1>1. VarInv'
  BY PublishEndInv
<1>2. /\ mem' = [o \in 0 .. Size - 1 |-> IF Covers(o) THEN Unit(new, o - pdata, len) ELSE mem[o]]
      /\ pdata' = IF pdata + len = Size /\ warp = 1 THEN 0 ELSE pdata + len
      /\ Copying /\ pcP' = "written" /\ currIdx' = currIdx /\ epoch' = epoch /\ len' = len
      /\ warp' = warp /\ pdata + len <= Size
  <2>3. len \in Lens /\ len \in Nat /\ len > 0 /\ 2 * len <= Size
    BY LenFacts DEF PublishEnd, RoomForTwo, VarInv, Typed, Publishes, Copying
  <2>1. pcP = "wrapped" => pdata = 0 /\ len < Size
    BY <2>3 DEF VarInv, Typed, Publishes
  <2>2. pcP = "writing" => pdata + len <= Size
    BY DEF VarInv, Typed, Publishes
  <2> QED BY <2>1, <2>2, <2>3 DEF PublishEnd, Copying
<1>3. /\ len \in Lens /\ len \in Nat /\ len > 1 /\ 2 * len <= Size
      /\ pdata \in Nat /\ pdata + len <= Size
      /\ epoch \in Nat /\ epoch > 0 /\ currIdx \in -1 .. MaxSeq
  BY <1>2, LenFacts DEF RoomForTwo, Header, VarInv, Typed, PubTypes, Publishes, Copying
<1>4. /\ Newest = currIdx /\ Newest' = new
  BY <1>2 DEF Newest, Copying
<1>places. PICK at \in Nat, end \in Nat : at = pdata /\ end = pdata + len
  BY <1>3
<1> HIDE DEF Covers
<1>5. ASSUME NEW o \in 0 .. Size - 1, Covers(o)
      PROVE /\ mem'[o].epoch = epoch /\ mem'[o].seq = new /\ mem'[o].unit = o - pdata
            /\ mem'[o].len = len /\ pdata <= o /\ o < pdata + len /\ InLife(o)'
  <2>1. mem'[o] = Unit(new, o - pdata, len)
    BY <1>2, <1>5
  <2>2. o \in pdata .. pdata + len - 1
    BY <1>5 DEF Covers
  <2> QED BY <1>2, <1>3, <2>1, <2>2 DEF Unit, InLife
<1>6. ASSUME NEW o \in 0 .. Size - 1, ~Covers(o)
      PROVE mem'[o] = mem[o] /\ (InLife(o)' <=> InLife(o)) /\ (Blank(o)' <=> Blank(o))
  BY <1>2, <1>6 DEF InLife, Blank
<1>7. \A o \in 0 .. Size - 1 : InLife(o) => mem[o].seq <= currIdx
  BY <1>2, <1>4 DEF Units, UnitAt, Copying
<1>8. Units'
  <2> SUFFICES ASSUME NEW o \in 0 .. Size - 1 PROVE UnitAt(o)'
    BY DEF Units
  <2>1. CASE Covers(o)
    <3>1. new = 0 => pdata = 0
      BY <1>2, <1>3 DEF First, Copying
    <3> QED BY <1>2, <1>3, <1>4, <1>5, <2>1, <3>1 DEF UnitAt
  <2>2. CASE ~Covers(o)
    <3>1. UnitAt(o) /\ (InLife(o) => mem[o].seq <= currIdx)
      BY <1>7 DEF Units
    <3>2. mem[o].seq \in Nat
      BY UnitTypes
    <3> QED BY <1>2, <1>3, <1>4, <1>6, <2>2, <3>1, <3>2 DEF UnitAt
  <2> QED BY <2>1, <2>2
<1>9. First'
  BY <1>2 DEF First, Copying
<1>10. ASSUME NEW s \in Nat, NEW d, Follows(s, d) PROVE Follows(s, d)'
  <2>1. d \in 2 .. Size /\ s <= new
    BY <1>2, <1>4, <1>10 DEF Follows, Copying
  <2>2. CASE s <= currIdx
    <3>1. s # new
      BY <1>3, <2>2
    <3>2. ASSUME NEW p, StartsAt(s, p) PROVE StartsAt(s, p)'
      BY <1>5, <1>6, <3>1, <3>2 DEF StartsAt
    <3>3. ASSUME d < Size, Blank(d) \/ (InLife(d) /\ mem[d].seq > s)
          PROVE (Blank(d) \/ (InLife(d) /\ mem[d].seq > s))'
      <4>1. d \in 0 .. Size - 1
        BY <2>1, <3>3
      <4>2. CASE Covers(d)
        BY <1>3, <1>5, <2>2, <4>1, <4>2
      <4>3. CASE ~Covers(d)
        BY <1>6, <3>3, <4>1, <4>3
      <4> QED BY <4>2, <4>3
    <3>4. WrappedFrom(s, d) => WrappedFrom(s, d)'
      BY <1>2, <3>2, <3>3 DEF WrappedFrom
    <3>5. s <= Newest' + 1 /\ s # Newest' + 1
      BY <1>3, <1>4, <2>2
    <3> QED BY <1>10, <2>1, <3>2, <3>4, <3>5 DEF Follows
  <2>3. CASE s = new
    <3>1. \A o \in 0 .. Size - 1 : InLife(o)' /\ mem'[o].seq = s => Covers(o)
      BY <1>3, <1>6, <1>7, <2>3
    <3>2. StartsAt(s, at)'
      <4> SUFFICES ASSUME NEW o \in 0 .. Size - 1, InLife(o)', mem'[o].seq = s
                   PROVE o - mem'[o].unit = at
        BY DEF StartsAt
      <4>1. mem'[o].unit = o - pdata
        BY <1>5, <3>1
      <4> QED BY <1>3, <1>places, <4>1
    <3>3. pdata = d \/ (/\ pdata = 0 /\ warp = 1 /\ d + len > Size /\ (d < Size => Blank(d)))
      BY <1>2, <1>4, <1>10, <2>3 DEF Follows, PutsAt, Copying
    <3>4. CASE pdata = d
      BY <1>3, <1>4, <1>places, <2>1, <2>3, <3>2, <3>4 DEF Follows
    <3>5. CASE pdata = 0 /\ warp = 1 /\ d + len > Size /\ (d < Size => Blank(d))
      <4>1. d < Size => Blank(d)'
        <5> SUFFICES ASSUME d < Size PROVE Blank(d)'
          OBVIOUS
        <5>1. d \in 0 .. Size - 1 /\ d >= len
          BY <1>3, <2>1, <3>5
        <5>2. ~Covers(d)
          BY <1>3, <3>5, <5>1 DEF Covers
        <5> QED BY <1>6, <3>5, <5>1, <5>2
      <4>2. WrappedFrom(s, d)'
        BY <1>2, <1>places, <3>2, <3>5, <4>1 DEF WrappedFrom
      <4> QED BY <1>3, <1>4, <2>1, <2>3, <4>2 DEF Follows
    <3> QED BY <3>3, <3>4, <3>5
  <2> QED BY <1>3, <2>1, <2>2, <2>3
<1>11. Follows(new + 1, end)'
  <2>1. end \in 2 .. Size
    BY <1>3, <1>places
  <2>2. \A o \in 0 .. Size - 1 : InLife(o)' => mem'[o].seq <= new
    BY <1>2, <1>4, <1>8 DEF Units, UnitAt
  <2>3. \A o \in 0 .. Size - 1 : InLife(o)' => mem'[o].seq # new + 1
    BY <1>3, <2>2
  <2>4. StartsAt(new + 1, end)'
    BY <1>2, <2>3 DEF StartsAt
  <2>5. PutsAt(end)'
    BY <1>2, <1>3, <1>places DEF PutsAt
  <2> QED BY <1>2, <1>3, <1>4, <2>1, <2>4, <2>5 DEF Follows
<1>12. Succession'
  <2> SUFFICES ASSUME NEW o \in 0 .. Size - 1, InLife(o)', mem'[o].unit = 0, NEW s, NEW d,
                      s = mem'[o].seq + 1, d = o + mem'[o].len
               PROVE Follows(s, d)'
    BY DEF Succession
  <2>1. CASE Covers(o)
    <3>1. o = pdata
      BY <1>3, <1>5, <2>1
    <3>2. s = new + 1 /\ d = end
      BY <1>5, <1>places, <2>1, <3>1
    <3> QED BY <1>2, <1>11, <3>2
  <2>2. CASE ~Covers(o)
    <3>1. Follows(s, d)
      BY <1>6, <2>2 DEF Succession
    <3>2. s \in Nat
      BY <1>6, <2>2, UnitTypes
    <3> QED BY <1>10, <3>1, <3>2
  <2> QED BY <2>1, <2>2
<1>13. InStep'
  <2>1. next.epoch = epoch => next.seq \in Nat
    BY <1>3 DEF InStep
  <2> QED BY <1>2, <1>10, <2>1 DEF InStep, PublishEnd, subVars
<1> QED BY <1>1, <1>8, <1>9, <1>12, <1>13

\* The message is counted.
LEMMA PublishCountOrder == OrderInv /\ PublishCount => OrderInv'
<1> SUFFICES ASSUME OrderInv, PublishCount PROVE OrderInv'
  OBVIOUS
<1> USE DEF OrderInv
<1>1. VarInv'
  BY PublishCountInv
<1>2. /\ UNCHANGED <<mem, warp, pdata, subVars, epoch>> /\ pcP = "written" /\ pcP' = "idle"
      /\ currIdx' = currIdx + 1 /\ Newest' = Newest /\ currIdx \in -1 .. MaxSeq
  BY DEF PublishCount, Newest, VarInv, Typed, PubTypes
<1>3. \A o : (InLife(o)' <=> InLife(o)) /\ (Blank(o)' <=> Blank(o)) /\ (UnitAt(o) => UnitAt(o)')
  BY <1>2 DEF InLife, Blank, UnitAt
<1>4. \A s, d : Follows(s, d) => Follows(s, d)'
  BY <1>2, <1>3 DEF Follows, StartsAt, WrappedFrom, PutsAt, Copying
<1>5. Units' /\ First'
  BY <1>2, <1>3 DEF Units, First, Copying
<1>6. Succession' /\ InStep'
  BY <1>2, <1>3, <1>4 DEF Succession, InStep, subVars
<1> QED BY <1>1, <1>5, <1>6

\* A visit leaves the subscriber behind the message it found.
LEMMA SubscriberOrder ==
  OrderInv /\ (Subscribe \/ SubPoll \/ SubVisit \/ SubThrow \/ SubDone) => OrderInv'
<1> SUFFICES ASSUME OrderInv, Subscribe \/ SubPoll \/ SubVisit \/ SubThrow \/ SubDone PROVE OrderInv'
  OBVIOUS
<1> USE DEF OrderInv
<1>1. VarInv'
  BY SubscriberInv
<1>2. UNCHANGED <<mem, warp, currIdx, pubVars, epoch>>
  BY DEF Subscribe, SubPoll, SubVisit, SubThrow, SubDone
<1>3. Units' /\ First' /\ Succession' /\ \A s, d : Follows(s, d) => Follows(s, d)'
  BY <1>2, OrderKept
<1>4. epoch \in Nat /\ Nothing \in [epoch : 0 .. epoch, seq : 0 .. MaxSeq + 1]
  BY DEF Nothing, VarInv, Typed, PubTypes
<1>5. CASE Subscribe \/ SubPoll \/ SubThrow \/ SubDone
  <2>1. InStep' \/ UNCHANGED <<data, next>>
    BY <1>2, <1>3, <1>4, <1>5
       DEF Subscribe, SubPoll, SubThrow, SubDone, SubscriberGone, InStep, Nothing
  <2>2. UNCHANGED <<data, next>> => InStep'
    BY <1>2, <1>3, <1>5 DEF Subscribe, SubPoll, SubThrow, SubDone, SubscriberGone, InStep, Nothing
  <2> QED BY <1>1, <1>3, <2>1, <2>2
<1>6. CASE SubVisit
  <2>found. PICK pd \in Polled \ {Null} : \E h \in HeadersAt(pd) :
           /\ data' = pd + h.len
           /\ next' = IF mem[pd].unit = 0 /\ mem[pd] # Zero
                      THEN [epoch |-> mem[pd].epoch, seq |-> mem[pd].seq + 1] ELSE Nothing
    BY <1>6 DEF SubVisit
  <2>1. PICK h \in HeadersAt(pd) :
           /\ data' = pd + h.len
           /\ next' = IF mem[pd].unit = 0 /\ mem[pd] # Zero
                      THEN [epoch |-> mem[pd].epoch, seq |-> mem[pd].seq + 1] ELSE Nothing
    BY <2>found
  <2>2. pd \in 0 .. Size - 1
    BY <2>found, PolledIn DEF VarInv, Typed
  <2>3. pcS' # "down" /\ data' # Null
    <3>1. h.len \in Nat
      BY <2>2, HeaderTypes, PointerFacts DEF VarInv, Typed
    <3> QED BY <1>6, <2>1, <2>2, <3>1 DEF SubVisit, Null
  <2>4. CASE mem[pd].unit = 0 /\ mem[pd] # Zero
    <3>1. mem[pd].epoch \in 1 .. epoch
      <4>1. mem[pd] # Torn
        BY <2>4 DEF Torn
      <4> QED BY <1>4, <2>2, <2>4, <4>1 DEF Units, UnitAt, Blank
    <3>2. mem[pd].seq \in 0 .. MaxSeq /\ mem[pd].len \in Nat /\ pd + mem[pd].len <= Size
      <4>1. mem[pd].len \in Lens /\ pd - 0 + mem[pd].len <= Size
        BY <1>4, <2>2, <2>4, <3>1 DEF Units, UnitAt
      <4>2. mem[pd].len \in Nat
        BY <4>1, LenFacts
      <4>3. mem[pd].seq \in 0 .. MaxSeq
        BY <2>2, UnitTypes
      <4> QED BY <2>2, <4>1, <4>2, <4>3
    <3>3. next' = [epoch |-> mem[pd].epoch, seq |-> mem[pd].seq + 1]
      BY <2>1, <2>4
    <3>4. next' \in [epoch : 0 .. epoch, seq : 0 .. MaxSeq + 1]
      BY <1>4, <3>1, <3>2, <3>3
    <3>5. h.len = mem[pd].len
      BY <2>1, <2>4 DEF HeadersAt
    <3>6. data' = pd + mem[pd].len
      BY <2>1, <3>5
    <3>7. mem[pd].epoch = epoch => Follows(mem[pd].seq + 1, pd + mem[pd].len)
      BY <2>2, <2>4, <3>1 DEF Succession, InLife
    <3>8. ASSUME next'.epoch = epoch, NEW s, NEW d, s = next'.seq, d = data' PROVE Follows(s, d)'
      <4>1. Follows(s, d)
        BY <3>3, <3>6, <3>7, <3>8
      <4> QED BY <1>3, <4>1
    <3>9. InStep'
      BY <1>2, <2>3, <3>4, <3>8 DEF InStep
    <3> QED BY <1>1, <1>3, <3>9
  <2>5. CASE ~(mem[pd].unit = 0 /\ mem[pd] # Zero)
    <3>1. next' = Nothing
      BY <2>1, <2>5
    <3>2. InStep'
      BY <1>2, <1>4, <2>3, <3>1 DEF InStep, Nothing
    <3> QED BY <1>1, <1>3, <3>2
  <2> QED BY <2>4, <2>5
<1> QED BY <1>5, <1>6

\* Every step keeps the order.
LEMMA StepOrder ==
  ASSUME RoomForTwo
  PROVE OrderInv /\ [Next]_vars => OrderInv'
<1> SUFFICES ASSUME OrderInv, [Next]_vars PROVE OrderInv'
  OBVIOUS
<1>1. CASE UNCHANGED vars
  <2>1. UNCHANGED <<mem, warp, currIdx, pubVars, epoch>> /\ VarInv'
    BY <1>1, StepInv DEF vars, OrderInv
  <2>2. InStep'
    BY <1>1, <2>1, OrderKept DEF vars, subVars, OrderInv, InStep
  <2> QED BY <2>1, <2>2, OrderKept DEF OrderInv
<1>2. ASSUME NEW l \in Lens, PublishBegin(l) \/ PublishWrap(l) PROVE OrderInv'
  BY <1>2, PublishBeginOrder, PublishWrapOrder DEF Begins
<1>3. CASE PublishAtStart
  BY <1>3, PublishBeginOrder DEF Begins, PublishAtStart, OrderInv, VarInv, Typed, Publishes
<1> QED BY <1>1, <1>2, <1>3, RegisterOrder, PublishEndOrder, PublishCountOrder, SubscriberOrder DEF Next

\* What follows for PollVar: from the start, behind the message before, and
\* across the end of the memory.
LEMMA OrderFinds ==
  ASSUME RoomForTwo, OrderInv
  PROVE FindsNext
<1> USE DEF OrderInv
<1>1. SUFFICES ASSUME epoch > 0, pcS # "down", Expected <= currIdx, ~Passed,
                      NEW o \in 0 .. Size - 1, IntactAt(Expected, o)
               PROVE Polled = {o}
  BY DEF FindsNext
<1>2. /\ currIdx \in -1 .. MaxSeq /\ epoch \in Nat /\ warp \in {0, 1}
      /\ data = Null \/ data \in Nat
  BY PointerFacts DEF VarInv, Typed, PubTypes, SubTypes
<1>3. InLife(o) /\ mem[o].seq = Expected /\ mem[o].unit = 0 /\ mem[o].len \in Nat /\ mem[o].len > 1 /\ o + mem[o].len <= Size
  <2>1. InLife(o) /\ mem[o].seq = Expected /\ mem[o].unit = 0 /\ mem[o].epoch > 0
    BY <1>1, <1>2 DEF IntactAt, InLife
  <2>2. mem[o].len \in Lens /\ o - 0 + mem[o].len <= Size
    BY <2>1 DEF Units, UnitAt
  <2>3. mem[o].len \in Nat /\ mem[o].len > Header
    BY <2>2, LenFacts DEF RoomForTwo
  <2> QED BY <2>1, <2>2, <2>3 DEF Header
<1>4. HeadersAt(o) = {[seq |-> mem[o].seq, len |-> mem[o].len]}
  BY <1>3 DEF HeadersAt
<1>5. CASE data = Null
  <2>1. Expected = 0
    BY <1>5 DEF Expected
  <2>2. o = 0
    BY <1>3, <2>1 DEF Units, UnitAt
  <2>3. HeadersAtData = {[seq |-> mem[o].seq, len |-> mem[o].len]}
    BY <1>4, <1>5, <2>2 DEF HeadersAtData, Null
  <2>4. Polled = {PollVar([seq |-> mem[o].seq, len |-> mem[o].len])}
    BY <2>3 DEF Polled
  <2>5. PollVar([seq |-> mem[o].seq, len |-> mem[o].len]) = 0
    BY <1>3, <1>5, <2>2 DEF PollVar, Header, Null
  <2> QED BY <2>2, <2>4, <2>5
<1>6. CASE data # Null
  <2>1. next.epoch = epoch /\ Expected = next.seq
    BY <1>1, <1>2, <1>6 DEF Expected
  <2>2. Follows(Expected, data) /\ data \in 2 .. Size
    BY <1>1, <2>1 DEF InStep, Follows
  <2>3. CASE StartsAt(Expected, data)
    <3>1. o = data
      BY <1>3, <2>2, <2>3 DEF StartsAt
    <3>2. HeadersAtData = {[seq |-> mem[o].seq, len |-> mem[o].len]}
      BY <1>4, <1>6, <3>1 DEF HeadersAtData
    <3>3. Polled = {PollVar([seq |-> mem[o].seq, len |-> mem[o].len])}
      BY <3>2 DEF Polled
    <3>4. PollVar([seq |-> mem[o].seq, len |-> mem[o].len]) = data
      BY <1>3, <1>6, <3>1 DEF PollVar, Header
    <3> QED BY <3>1, <3>3, <3>4
  <2>4. CASE WrappedFrom(Expected, data)
    <3>1. o = 0 /\ warp = 1
      BY <1>3, <2>4 DEF WrappedFrom, StartsAt
    <3>2. PICK q : HeadersAtData = {[seq |-> q, len |-> 0]}
      <4>1. CASE data = Size
        BY <4>1 DEF HeadersAtData
      <4>2. CASE data # Size
        <5>1. data \in 0 .. Size - 1
          BY <2>2, <4>2
        <5>2. mem[data] # Torn /\ ~(mem[data].epoch = epoch /\ mem[data].seq > Expected)
          BY <1>1, <5>1 DEF Passed
        <5>3. Blank(data) \/ (InLife(data) /\ mem[data].seq > Expected)
          BY <2>4, <5>1 DEF WrappedFrom
        <5>4. mem[data] = Zero
          BY <5>2, <5>3 DEF InLife, Blank
        <5> QED BY <1>6, <4>2, <5>4 DEF HeadersAtData, HeadersAt, Zero
      <4> QED BY <4>1, <4>2
    <3>3. Polled = {PollVar([seq |-> q, len |-> 0])}
      BY <3>2 DEF Polled
    <3>4. PollVar([seq |-> q, len |-> 0]) = 0
      BY <3>1 DEF PollVar
    <3> QED BY <3>1, <3>3, <3>4
  <2> QED BY <2>2, <2>3, <2>4 DEF Follows
<1> QED BY <1>5, <1>6

------------------------------------------------------------------------------
(* What follows.                                                             *)

\* The variables keep their types: the publisher's pointer stays in the memory
\* or at its end, unless a message longer than the memory is published, and the
\* subscriber's is behind what some place in the memory shows for a message,
\* whatever it takes for a header; PollVar reads nothing beyond the memory.
THEOREM TypeCorrect == Spec => []TypeOK
<1>1. VarInv => TypeOK
  BY DEF VarInv, Typed, MemTypes, PubTypes, SubTypes, Behinds, TypeOK
<1> QED BY <1>1, InitInv, StepInv, PTL DEF Spec

\* The last message counted lies whole in memory, whoever is killed and whatever
\* is being copied, if the memory holds three of the longest messages.
THEOREM LastKept ==
  ASSUME RoomForThree
  PROVE Spec => []LastIntact
<1>1. VarInv => LastIntact
  BY DEF VarInv, Last, LastAt, LastIntact
<1> QED BY <1>1, InitInv, StepInv, PTL DEF Spec

\* A subscriber in step finds the next message wherever it lies, across every
\* wrap, until the publisher has written over it or over the subscriber's
\* pointer, for every size of the memory that holds two of the longest messages.
THEOREM NextFound ==
  ASSUME RoomForTwo
  PROVE Spec => []FindsNext
<1>1. OrderInv /\ [Next]_vars => OrderInv'
  BY StepOrder
<1>2. OrderInv => FindsNext
  BY OrderFinds
<1> QED BY InitOrder, <1>1, <1>2, PTL DEF Spec
===============================================================================
