---------------------------- MODULE ChannelProofs ----------------------------
(* Channel for every length of the ring, any days and every bound: what a    *)
(* publisher has counted stays whole as far as the ring reaches back, and a  *)
(* subscriber never reads an older message.                                  *)
EXTENDS Channel, TLAPS

\* TypeOK in parts.
OwnerTypes == /\ file \in {"absent", "empty", "sized"}
              /\ header \in [magic : BOOLEAN, date : Days \cup {0}, size : BOOLEAN]
              /\ pcO \in {"down", "truncate", "header", "topic", "index", "ready"}
              /\ todo \subseteq HeaderFields \cup {"topic_size", "topic_n", "curr_idx", "warp"}
              /\ dateO \in Days \cup {0}
ControlTypes == /\ mode \in Modes
                /\ topicSize \in BOOLEAN /\ topicN \in {0, N} /\ warp \in {0, 1}
                /\ currIdx \in -1 .. MaxIdx
                /\ epoch \in 0 .. MaxEpoch /\ strayed \in BOOLEAN
DataTypes == data \in [0 .. N - 1 -> [epoch : 0 .. MaxEpoch, idx : -2 .. MaxIdx]]
PubTypes == /\ pcP \in {"down", "mapped", "idle", "writing", "written"}
            /\ pdata \in 0 .. N /\ epochP \in 0 .. MaxEpoch
SubTypes == /\ pcS \in {"down", "mapped", "idle", "visit"}
            /\ cur \in -1 .. MaxIdx /\ i \in 0 .. MaxIdx + 1 /\ done \in -1 .. MaxIdx
            /\ epochS \in 0 .. MaxEpoch

\* An owner that has yet to reset curr_idx is within the bound on the resets.
Creating == pcO \in {"truncate", "header", "topic"} \/ (pcO = "index" /\ "curr_idx" \in todo)

\* In the mode where the owner publishes, it does so once all is stored.
OwnerInv ==
  /\ Creating => epoch < MaxEpoch
  /\ mode = "primaryPub" => pcP # "mapped" /\ (pcO # "ready" => pcP = "down")
  /\ mode = "primaryPub" /\ pcO = "index" /\ "curr_idx" \notin todo => currIdx = -1

\* What the processes remember is of this life of the channel or an earlier one.
Remembers ==
  /\ epochP <= epoch /\ epochS <= epoch
  /\ pcP \in {"writing", "written"} => currIdx < MaxIdx
  /\ pcP = "writing" => pdata < N
  /\ pcS = "visit" /\ epochS = epoch /\ epoch > 0 => cur <= currIdx

\* pdata is at the slot of message k, or stuck at the end of the memory.
AtSlot(k) == pdata = k % N \/ pdata = N

\* Where the publisher stands: behind the last message counted, or it has begun
\* before the reset of curr_idx and counted nothing since.
PublisherAt ==
  epoch > 0 /\ ~strayed =>
    /\ pcP \in {"idle", "writing", "written"} /\ epochP # epoch => currIdx = -1
    /\ pcP \in {"idle", "writing"} /\ epochP = epoch => AtSlot(currIdx + 1)
    /\ pcP = "written" /\ epochP = epoch =>
         AtSlot(currIdx + 2) /\ data[(currIdx + 1) % N] = Msg(epoch, currIdx + 1)

\* The slot of message k holds it, or what has overwritten it.
Fresh(k) == \/ data[k % N] = Msg(epoch, k)
            \/ /\ ~Retained(k)
               /\ data[k % N] = Torn \/ (data[k % N].epoch = epoch /\ data[k % N].idx > k)
SlotsFresh == epoch > 0 /\ ~strayed => \A k \in 0 .. currIdx : Fresh(k)

ChannelInv == TypeOK /\ OwnerInv /\ Remembers /\ PublisherAt /\ SlotsFresh

------------------------------------------------------------------------------
(* The slots of the ring.                                                    *)

\* Division with remainder.
LEMMA Divides ==
  ASSUME NEW m \in Nat
  PROVE m \div N \in Nat /\ m % N \in 0 .. N - 1 /\ m = N * (m \div N) + (m % N)
  BY NAssumption

\* Two messages in the same slot are a multiple of N apart.
LEMMA SameSlot ==
  ASSUME NEW k \in Nat, NEW m \in Nat, k < m, k % N = m % N
  PROVE m - k >= N
<1> DEFINE a == k \div N
           b == m \div N
           r == m % N
<1>1. a \in Nat /\ b \in Nat /\ r \in 0 .. N - 1 /\ k = N * a + r /\ m = N * b + r
  BY Divides
<1> HIDE DEF a, b, r
<1>2. ~(b <= a)
  <2>1. SUFFICES ASSUME b <= a PROVE FALSE
    OBVIOUS
  <2>2. PICK d \in Nat : a = b + d
    <3>1. a - b \in Nat /\ a = b + (a - b)
      BY <1>1, <2>1
    <3> QED BY <3>1
  <2>3. N * a = N * b + N * d /\ N * d >= 0
    BY <1>1, <2>2, NAssumption
  <2> QED BY <1>1, <2>3, NAssumption
<1>3. PICK d \in Nat : b = a + 1 + d
  <2>1. b - a - 1 \in Nat /\ b = a + 1 + (b - a - 1)
    BY <1>1, <1>2
  <2> QED BY <2>1
<1>4. N * b = N * a + N + N * d /\ N * d >= 0
  BY <1>1, <1>3, NAssumption
<1> QED BY <1>1, <1>4, NAssumption

\* The slot after a message's is the next one of the ring.
LEMMA NextSlot ==
  ASSUME NEW m \in Nat
  PROVE (m + 1) % N = IF (m % N) + 1 = N THEN 0 ELSE (m % N) + 1
<1> DEFINE a == m \div N
           r == m % N
           b == (m + 1) \div N
           s == (m + 1) % N
<1>1. /\ a \in Nat /\ r \in 0 .. N - 1 /\ m = N * a + r
      /\ b \in Nat /\ s \in 0 .. N - 1 /\ m + 1 = N * b + s
  BY Divides
<1> HIDE DEF a, b, r, s
<1>2. CASE b <= a
  <2>1. PICK d \in Nat : a = b + d
    <3>1. a - b \in Nat /\ a = b + (a - b)
      BY <1>1, <1>2
    <3> QED BY <3>1
  <2>2. N * a = N * b + N * d
    BY <1>1, <2>1, NAssumption
  <2>3. d = 0
    <3>1. SUFFICES ASSUME d >= 1 PROVE FALSE
      BY <2>1
    <3>2. PICK e \in Nat : d = 1 + e
      <4>1. d - 1 \in Nat /\ d = 1 + (d - 1)
        BY <3>1
      <4> QED BY <4>1
    <3>3. N * d = N + N * e /\ N * e >= 0
      BY <3>2, NAssumption
    <3> QED BY <1>1, <2>2, <3>3, NAssumption
  <2>4. N * d = 0
    BY <2>3, NAssumption
  <2>5. s = r + 1
    BY <1>1, <2>2, <2>4, NAssumption
  <2> QED BY <1>1, <2>5, NAssumption DEF r, s
<1>3. CASE b > a
  <2>1. PICK d \in Nat : b = a + 1 + d
    <3>1. b - a - 1 \in Nat /\ b = a + 1 + (b - a - 1)
      BY <1>1, <1>3
    <3> QED BY <3>1
  <2>2. N * b = N * a + N + N * d /\ N * d >= 0
    BY <1>1, <2>1, NAssumption
  <2>3. r + 1 = N + N * d + s
    BY <1>1, <2>2, NAssumption
  <2>4. r + 1 = N /\ s = 0
    BY <1>1, <2>2, <2>3, NAssumption
  <2> QED BY <2>4 DEF r, s
<1> QED BY <1>1, <1>2, <1>3

------------------------------------------------------------------------------
(* The invariant.                                                            *)

\* The parts are the whole.
LEMMA Types ==
  /\ TypeOK <=> OwnerTypes /\ ControlTypes /\ DataTypes /\ PubTypes /\ SubTypes
  /\ TypeOK' <=> OwnerTypes' /\ ControlTypes' /\ DataTypes' /\ PubTypes' /\ SubTypes'
  BY DEF TypeOK, OwnerTypes, ControlTypes, DataTypes, PubTypes, SubTypes

\* A new channel has a whole ring of slots nobody has written.
LEMMA InitInv == Init => ChannelInv
<1> SUFFICES ASSUME Init PROVE ChannelInv
  OBVIOUS
<1> USE DEF Init, ShmInit
<1>1. OwnerTypes
  BY DEF OwnerTypes
<1>2. ControlTypes
  <2>1. currIdx \in -1 .. MaxIdx /\ epoch \in 0 .. MaxEpoch
    BY BoundsAssumption
  <2>2. strayed \in BOOLEAN /\ topicSize \in BOOLEAN /\ mode \in Modes
    OBVIOUS
  <2>3. topicN \in {0, N} /\ warp \in {0, 1}
    OBVIOUS
  <2> QED BY <2>1, <2>2, <2>3 DEF ControlTypes
<1>3. PubTypes /\ SubTypes
  BY NAssumption, BoundsAssumption DEF PubTypes, SubTypes
<1>4. DataTypes
  <2>1. Zero \in [epoch : 0 .. MaxEpoch, idx : -2 .. MaxIdx]
    BY BoundsAssumption DEF Zero, Msg
  <2> QED BY <2>1 DEF DataTypes
<1>5. OwnerInv /\ Remembers
  BY DEF OwnerInv, Creating, Remembers
<1>6. PublisherAt /\ SlotsFresh
  BY DEF PublisherAt, SlotsFresh
<1> QED BY <1>1, <1>2, <1>3, <1>4, <1>5, <1>6, Types DEF ChannelInv

\* A step that touches neither the counter nor the slots, the publisher nor the
\* history leaves them as they were.
LEMMA SlotsKept ==
  ASSUME ChannelInv, UNCHANGED <<currIdx, data, pubVars, epoch, strayed>>
  PROVE PublisherAt' /\ SlotsFresh'
<1> USE DEF pubVars
<1>1. PublisherAt'
  BY DEF ChannelInv, PublisherAt, AtSlot, Msg
<1>2. \A k : Fresh(k)' <=> Fresh(k)
  BY DEF Fresh, Retained, Msg, Torn
<1>3. SlotsFresh'
  BY <1>2 DEF ChannelInv, SlotsFresh
<1> QED BY <1>1, <1>3

\* The owner's steps up to the constructor of Channel.
LEMMA CreateInv == ChannelInv /\ (CreateStep \/ \E f \in {"topic_size", "topic_n"} : StoreTopic(f))
                   => ChannelInv'
<1> SUFFICES ASSUME ChannelInv, CreateStep \/ \E f \in {"topic_size", "topic_n"} : StoreTopic(f)
             PROVE ChannelInv'
  OBVIOUS
<1> USE DEF subVars, pubVars, controlVars
<1>1. PublisherAt' /\ SlotsFresh'
  BY SlotsKept DEF CreateStep, StoreTopic
<1>2. OwnerTypes /\ ControlTypes /\ DataTypes /\ PubTypes /\ SubTypes /\ OwnerInv /\ Remembers
  BY Types DEF ChannelInv
<1>3. DataTypes' /\ PubTypes' /\ SubTypes'
  BY <1>2 DEF CreateStep, StoreTopic, DataTypes, PubTypes, SubTypes
<1>4. ControlTypes'
  BY <1>2 DEF CreateStep, StoreTopic, ControlTypes
<1>5. Remembers'
  BY <1>2 DEF CreateStep, StoreTopic, Remembers
<1>6. OwnerTypes' /\ OwnerInv'
  <2>1. ASSUME NEW d \in Days, epoch < MaxEpoch, CreateNew(d) \/ OpenExisting(d), CreateStep
        PROVE OwnerTypes' /\ OwnerInv'
    BY <1>2, <2>1 DEF CreateNew, OpenExisting, CreateStep, OwnerTypes, OwnerInv, Creating, HeaderFields
  <2>2. CASE Truncate /\ CreateStep
    BY <1>2, <2>2 DEF Truncate, CreateStep, OwnerTypes, OwnerInv, Creating, HeaderFields
  <2>3. ASSUME NEW f \in HeaderFields, StoreHeader(f), CreateStep
        PROVE OwnerTypes' /\ OwnerInv'
    <3>1. header' \in [magic : BOOLEAN, date : Days \cup {0}, size : BOOLEAN]
      BY <1>2, <2>3 DEF StoreHeader, OwnerTypes, HeaderFields
    <3>2. OwnerTypes'
      BY <1>2, <2>3, <3>1 DEF StoreHeader, OwnerTypes
    <3>3. OwnerInv'
      BY <1>2, <2>3 DEF StoreHeader, CreateStep, OwnerInv, Creating
    <3> QED BY <3>2, <3>3
  <2>4. ASSUME NEW f \in {"topic_size", "topic_n"}, StoreTopic(f)
        PROVE OwnerTypes' /\ OwnerInv'
    BY <1>2, <2>4 DEF StoreTopic, OwnerTypes, OwnerInv, Creating
  <2> QED BY <2>1, <2>2, <2>3, <2>4 DEF CreateStep
<1> QED BY <1>1, <1>3, <1>4, <1>5, <1>6, Types DEF ChannelInv

\* The reset of curr_idx begins a life of the channel in which nothing counts
\* yet; an owner that publishes starts at slot 0.
LEMMA StoreIndexInv ==
  ASSUME ChannelInv, NEW f \in {"curr_idx", "warp"}, StoreIndex(f)
  PROVE ChannelInv'
<1> USE DEF ChannelInv, StoreIndex, subVars, pubVars, controlVars
<1>1. TypeOK'
  <2>1. OwnerTypes' /\ DataTypes' /\ SubTypes'
    BY Types DEF OwnerTypes, DataTypes, SubTypes
  <2>2. epoch \in 0 .. MaxEpoch /\ epoch' \in 0 .. MaxEpoch
    BY Types, BoundsAssumption DEF ControlTypes, OwnerInv, Creating
  <2>3. ControlTypes'
    <3>1. currIdx' \in -1 .. MaxIdx
      BY Types, BoundsAssumption DEF ControlTypes
    <3>2. strayed' \in BOOLEAN
      BY Types DEF ControlTypes
    <3>3. /\ mode' \in Modes /\ topicSize' \in BOOLEAN
          /\ topicN' \in {0, N} /\ warp' \in {0, 1}
      BY Types DEF ControlTypes
    <3> QED BY <2>2, <3>1, <3>2, <3>3 DEF ControlTypes
  <2>4. PubTypes'
    BY Types, NAssumption, <2>2 DEF PubTypes
  <2> QED BY <2>1, <2>3, <2>4, Types
<1>2. OwnerInv'
  BY DEF TypeOK, OwnerInv, Creating
<1>3. Remembers'
  BY BoundsAssumption DEF TypeOK, OwnerInv, Remembers
<1>4. 0 % N = 0
  BY NAssumption
<1>5. PublisherAt'
  <2>1. CASE f = "curr_idx"
    <3>1. currIdx' = -1 /\ (epochP' = epoch' => pdata' = 0 /\ pcP' = "idle")
      BY <2>1 DEF TypeOK, Remembers
    <3> QED BY <1>4, <3>1 DEF PublisherAt, AtSlot
  <2>2. CASE f = "warp" /\ UNCHANGED pubVars
    BY <2>2, SlotsKept
  <2>3. CASE f = "warp" /\ mode = "primaryPub" /\ todo = {f}
    <3>1. currIdx' = -1 /\ pdata' = 0 /\ pcP' = "idle" /\ epochP' = epoch'
      BY <2>3 DEF OwnerInv
    <3> QED BY <1>4, <3>1 DEF PublisherAt, AtSlot
  <2> QED BY <2>1, <2>2, <2>3
<1>6. SlotsFresh'
  <2>1. CASE f = "curr_idx"
    BY <2>1 DEF SlotsFresh
  <2>2. CASE f = "warp"
    <3>1. \A k : Fresh(k)' <=> Fresh(k)
      BY <2>2 DEF Fresh, Retained, Msg, Torn
    <3> QED BY <2>2, <3>1 DEF SlotsFresh
  <2> QED BY <2>1, <2>2
<1> QED BY <1>1, <1>2, <1>3, <1>5, <1>6

\* The slots stay as they are when the publisher ends.
LEMMA GoneInv ==
  ASSUME ChannelInv, PublisherGone, UNCHANGED <<currIdx, data, epoch, strayed>>
  PROVE PublisherAt' /\ SlotsFresh'
<1>1. PublisherAt'
  BY DEF PublisherGone, PublisherAt
<1>2. \A k : Fresh(k)' <=> Fresh(k)
  BY DEF Fresh, Retained, Msg, Torn
<1> QED BY <1>1, <1>2 DEF ChannelInv, SlotsFresh

\* The owner goes, and in one mode the publisher with it.
LEMMA OwnerDownInv == ChannelInv /\ OwnerDown => ChannelInv'
<1> SUFFICES ASSUME ChannelInv, OwnerDown PROVE ChannelInv'
  OBVIOUS
<1> USE DEF subVars, pubVars, controlVars
<1>1. PublisherAt' /\ SlotsFresh'
  BY SlotsKept, GoneInv DEF OwnerDown
<1>2. TypeOK' /\ OwnerInv' /\ Remembers'
  BY NAssumption, BoundsAssumption
  DEF ChannelInv, OwnerDown, PublisherGone, TypeOK, OwnerInv, Creating, Remembers
<1> QED BY <1>1, <1>2 DEF ChannelInv

\* A publisher that links takes up behind the last message counted.
LEMMA PubLinkInv == ChannelInv /\ (PubLink \/ PubConstruct \/ PubDown) => ChannelInv'
<1> SUFFICES ASSUME ChannelInv, PubLink \/ PubConstruct \/ PubDown PROVE ChannelInv'
  OBVIOUS
<1> USE DEF subVars, shmVars, controlVars
<1>1. (currIdx + 1) % N \in 0 .. N - 1
  <2>1. currIdx + 1 \in Nat
    BY Types DEF ChannelInv, ControlTypes
  <2> QED BY <2>1, Divides
<1>2. OwnerTypes' /\ ControlTypes' /\ DataTypes' /\ SubTypes'
  BY Types DEF ChannelInv, PubLink, PubConstruct, PubDown, OwnerTypes, ControlTypes, DataTypes, SubTypes
<1>3. PubTypes'
  BY <1>1, Types, NAssumption, BoundsAssumption
  DEF ChannelInv, PubLink, PubConstruct, PubDown, PublisherGone, PubTypes, ControlTypes
<1>4. OwnerInv' /\ Remembers'
  BY Types DEF ChannelInv, PubLink, PubConstruct, PubDown, PublisherGone, OwnerInv, Creating,
               Remembers, ControlTypes
<1>5. PublisherAt'
  <2>1. CASE PublisherGone
    BY <2>1 DEF PublisherGone, PublisherAt
  <2>2. CASE PubLink
    BY <2>2 DEF PubLink, PublisherAt
  <2>3. CASE PubConstruct /\ Constructs
    BY <2>3 DEF PubConstruct, PublisherAt, AtSlot
  <2> QED BY <2>1, <2>2, <2>3 DEF PubLink, PubConstruct, PubDown
<1>6. SlotsFresh'
  <2>1. UNCHANGED <<currIdx, data, epoch, strayed>>
    BY DEF PubLink, PubConstruct, PubDown
  <2>2. \A k : Fresh(k)' <=> Fresh(k)
    BY <2>1 DEF Fresh, Retained, Msg, Torn
  <2> QED BY <2>1, <2>2 DEF ChannelInv, SlotsFresh
<1> QED BY <1>2, <1>3, <1>4, <1>5, <1>6, Types DEF ChannelInv

\* The slot a publisher writes belongs to no message the ring still has to keep.
LEMMA WritesUnkept ==
  ASSUME ChannelInv, pcP \in {"idle", "writing"}, pdata < N, epoch > 0, ~strayed,
         NEW k \in 0 .. currIdx, k % N = pdata
  PROVE ~Retained(k) /\ epochP = epoch
<1>1. currIdx \in -1 .. MaxIdx /\ MaxIdx \in Nat /\ k \in Nat /\ currIdx + 1 \in Nat /\ N \in Nat
  BY Types, NAssumption, BoundsAssumption DEF ChannelInv, ControlTypes
<1>2. currIdx # -1
  BY <1>1
<1>3. epochP = epoch /\ AtSlot(currIdx + 1)
  BY <1>2 DEF ChannelInv, PublisherAt
<1>4. (currIdx + 1) % N = pdata
  BY <1>1, <1>3 DEF AtSlot
<1>5. currIdx + 1 - k >= N
  <2> DEFINE m == currIdx + 1
  <2>1. m \in Nat /\ k < m /\ k % N = m % N
    BY <1>1, <1>4
  <2> HIDE DEF m
  <2>2. m - k >= N
    BY <1>1, <2>1, SameSlot
  <2> QED BY <1>1, <2>2 DEF m
<1> QED BY <1>1, <1>3, <1>5 DEF Retained

\* The memcpy begins.
LEMMA PublishBeginInv == ChannelInv /\ PublishBegin => ChannelInv'
<1> SUFFICES ASSUME ChannelInv, PublishBegin PROVE ChannelInv'
  OBVIOUS
<1> USE DEF PublishBegin, subVars, shmVars, controlVars
<1>1. OwnerTypes' /\ ControlTypes' /\ PubTypes' /\ SubTypes'
  BY Types DEF ChannelInv, OwnerTypes, ControlTypes, PubTypes, SubTypes
<1>2. DataTypes'
  <2>1. Torn \in [epoch : 0 .. MaxEpoch, idx : -2 .. MaxIdx]
    BY BoundsAssumption DEF Torn, Msg
  <2> QED BY <2>1, Types DEF ChannelInv, DataTypes
<1>3. OwnerInv' /\ Remembers'
  BY DEF ChannelInv, OwnerInv, Creating, Remembers
<1>4. PublisherAt'
  BY DEF ChannelInv, PublisherAt, AtSlot
<1>5. SlotsFresh'
  <2> SUFFICES ASSUME epoch > 0, ~strayed, NEW k \in 0 .. currIdx PROVE Fresh(k)'
    BY DEF SlotsFresh
  <2>1. k % N \in 0 .. N - 1
    BY Types, Divides DEF ChannelInv, ControlTypes
  <2>2. Fresh(k)
    BY DEF ChannelInv, SlotsFresh
  <2>3. CASE k % N = pdata
    <3>1. ~Retained(k) /\ data'[k % N] = Torn
      BY <2>1, <2>3, WritesUnkept, Types DEF ChannelInv, DataTypes
    <3> QED BY <3>1 DEF Fresh, Retained, Torn, Msg
  <2>4. CASE k % N # pdata
    <3>1. data'[k % N] = data[k % N]
      BY <2>1, <2>4, Types DEF ChannelInv, DataTypes
    <3> QED BY <2>2, <3>1 DEF Fresh, Retained, Torn, Msg
  <2> QED BY <2>3, <2>4
<1> QED BY <1>1, <1>2, <1>3, <1>4, <1>5, Types DEF ChannelInv

\* The memcpy is done: the slot holds the next message, not yet counted.
LEMMA PublishEndInv == ChannelInv /\ PublishEnd => ChannelInv'
<1> SUFFICES ASSUME ChannelInv, PublishEnd PROVE ChannelInv'
  OBVIOUS
<1> USE DEF PublishEnd, subVars, shmVars, controlVars
<1> DEFINE m == Msg(epoch, currIdx + 1)
<1>1. /\ currIdx \in -1 .. MaxIdx /\ MaxIdx \in Nat /\ currIdx < MaxIdx /\ N \in Nat \ {0}
      /\ pdata \in 0 .. N - 1 /\ data \in [0 .. N - 1 -> [epoch : 0 .. MaxEpoch, idx : -2 .. MaxIdx]]
      /\ data' = [data EXCEPT ![pdata] = m] /\ epoch \in 0 .. MaxEpoch
  <2>1. currIdx \in -1 .. MaxIdx /\ MaxIdx \in Nat /\ epoch \in 0 .. MaxEpoch
    BY Types, BoundsAssumption DEF ChannelInv, ControlTypes
  <2>2. currIdx < MaxIdx /\ pdata < N
    BY DEF ChannelInv, Remembers
  <2>3. pdata \in 0 .. N - 1 /\ N \in Nat \ {0}
    BY <2>2, Types, NAssumption DEF ChannelInv, PubTypes
  <2>4. data \in [0 .. N - 1 -> [epoch : 0 .. MaxEpoch, idx : -2 .. MaxIdx]]
    BY Types DEF ChannelInv, DataTypes
  <2> QED BY <2>1, <2>2, <2>3, <2>4
<1>2. OwnerTypes' /\ ControlTypes' /\ SubTypes'
  BY Types DEF ChannelInv, OwnerTypes, ControlTypes, SubTypes
<1>3. PubTypes'
  BY <1>1, Types DEF ChannelInv, PubTypes
<1>4. DataTypes'
  <2>1. m \in [epoch : 0 .. MaxEpoch, idx : -2 .. MaxIdx]
    BY <1>1 DEF Msg
  <2> HIDE DEF m
  <2> QED BY <1>1, <2>1 DEF DataTypes
<1>5. OwnerInv' /\ Remembers'
  BY DEF ChannelInv, OwnerInv, Creating, Remembers
<1>6. PublisherAt'
  <2> SUFFICES ASSUME epoch > 0, ~strayed
               PROVE /\ epochP # epoch => currIdx = -1
                     /\ epochP = epoch => (AtSlot(currIdx + 2)' /\ data'[(currIdx + 1) % N] = m)
    BY <1>1 DEF PublisherAt, AtSlot, Msg
  <2>1. epochP # epoch => currIdx = -1
    BY DEF ChannelInv, PublisherAt
  <2>2. ASSUME epochP = epoch
        PROVE AtSlot(currIdx + 2)' /\ data'[(currIdx + 1) % N] = m
    <3>1. pdata = (currIdx + 1) % N
      BY <1>1, <2>2 DEF ChannelInv, PublisherAt, AtSlot
    <3>2. (currIdx + 1) + 1 = currIdx + 2 /\ currIdx + 1 \in Nat
      BY <1>1
    <3>3. (currIdx + 2) % N = IF pdata + 1 = N THEN 0 ELSE pdata + 1
      BY <3>1, <3>2, NextSlot
    <3>4. AtSlot(currIdx + 2)'
      BY <1>1, <3>3 DEF AtSlot
    <3>5. data'[pdata] = m
      BY <1>1
    <3> QED BY <3>1, <3>4, <3>5
  <2> QED BY <2>1, <2>2
<1>7. SlotsFresh'
  <2> SUFFICES ASSUME epoch > 0, ~strayed, NEW k \in 0 .. currIdx PROVE Fresh(k)'
    BY DEF SlotsFresh
  <2>1. k \in Nat /\ k % N \in 0 .. N - 1
    <3>1. k \in Nat
      BY <1>1
    <3> QED BY <3>1, Divides
  <2>2. Fresh(k)
    BY DEF ChannelInv, SlotsFresh
  <2>3. CASE k % N = pdata
    <3>1. ~Retained(k)
      BY <1>1, <2>3, WritesUnkept
    <3>2. data'[k % N] = m
      BY <1>1, <2>3
    <3>3. m.epoch = epoch /\ m.idx > k
      BY <1>1, <2>1 DEF Msg
    <3> HIDE DEF m
    <3> QED BY <3>1, <3>2, <3>3 DEF Fresh, Retained
  <2>4. CASE k % N # pdata
    <3>1. data'[k % N] = data[k % N]
      BY <1>1, <2>1, <2>4
    <3> QED BY <2>2, <3>1 DEF Fresh, Retained, Torn, Msg
  <2> QED BY <2>3, <2>4
<1> QED BY <1>2, <1>3, <1>4, <1>5, <1>6, <1>7, Types DEF ChannelInv

\* The message is counted.
LEMMA PublishCountInv == ChannelInv /\ PublishCount => ChannelInv'
<1> SUFFICES ASSUME ChannelInv, PublishCount PROVE ChannelInv'
  OBVIOUS
<1> USE DEF PublishCount, subVars, shmVars, controlVars
<1>1. currIdx \in -1 .. MaxIdx /\ MaxIdx \in Nat /\ currIdx < MaxIdx /\ N \in Nat \ {0}
  BY Types, NAssumption, BoundsAssumption DEF ChannelInv, ControlTypes, Remembers
<1>2. OwnerTypes' /\ DataTypes' /\ PubTypes' /\ SubTypes'
  BY Types DEF ChannelInv, OwnerTypes, DataTypes, PubTypes, SubTypes
<1>3. ControlTypes'
  <2>1. currIdx' \in -1 .. MaxIdx /\ strayed' \in BOOLEAN
    BY <1>1, Types DEF ChannelInv, ControlTypes
  <2> QED BY <2>1, Types DEF ChannelInv, ControlTypes
<1>4. OwnerInv' /\ Remembers'
  <2>1. pcP = "written" /\ mode = "primaryPub" => pcO = "ready"
    BY DEF ChannelInv, OwnerInv
  <2>2. OwnerInv'
    BY <2>1 DEF ChannelInv, OwnerInv, Creating
  <2>3. cur \in -1 .. MaxIdx
    BY Types DEF ChannelInv, SubTypes
  <2>4. Remembers'
    BY <1>1, <2>3 DEF ChannelInv, Remembers
  <2> QED BY <2>2, <2>4
<1>5. ASSUME epoch > 0, ~strayed' 
      PROVE /\ ~strayed /\ epochP = epoch /\ AtSlot(currIdx + 2)
            /\ data[(currIdx + 1) % N] = Msg(epoch, currIdx + 1)
  BY <1>5 DEF ChannelInv, PublisherAt
<1>6. PublisherAt'
  <2>1. currIdx + 2 = currIdx' + 1
    BY <1>1
  <2> QED BY <1>5, <2>1 DEF PublisherAt, AtSlot
<1>7. SlotsFresh'
  <2> SUFFICES ASSUME epoch > 0, ~strayed', NEW k \in 0 .. currIdx' PROVE Fresh(k)'
    BY DEF SlotsFresh
  <2>1. CASE k = currIdx + 1
    BY <1>5, <2>1 DEF Fresh, Msg
  <2>2. CASE k \in 0 .. currIdx
    <3>1. Fresh(k)
      BY <1>5, <2>2 DEF ChannelInv, SlotsFresh
    <3>2. ~Retained(k) => ~Retained(k)'
      BY <1>1, <2>2, NAssumption DEF Retained
    <3> QED BY <3>1, <3>2 DEF Fresh, Torn, Msg
  <2> QED BY <1>1, <2>1, <2>2
<1> QED BY <1>2, <1>3, <1>4, <1>6, <1>7, Types DEF ChannelInv

\* A subscriber only reads.
LEMMA SubscriberInv ==
  ChannelInv /\ (SubLink \/ SubConstruct \/ SubDown \/ Subscribe) => ChannelInv'
<1> SUFFICES ASSUME ChannelInv, SubLink \/ SubConstruct \/ SubDown \/ Subscribe
             PROVE ChannelInv'
  OBVIOUS
<1> USE DEF SubLink, SubConstruct, SubDown, SubscriberGone, Subscribe, SubPoll, SubVisit, SubDone,
            shmVars, controlVars, pubVars
<1>1. PublisherAt' /\ SlotsFresh'
  BY SlotsKept
<1>2. OwnerTypes' /\ ControlTypes' /\ DataTypes' /\ PubTypes'
  BY Types DEF ChannelInv, OwnerTypes, ControlTypes, DataTypes, PubTypes
<1>3. SubTypes'
  BY Types, BoundsAssumption DEF ChannelInv, SubTypes, ControlTypes
<1>4. OwnerInv'
  BY DEF ChannelInv, OwnerInv, Creating
<1>5. Remembers'
  BY Types DEF ChannelInv, Remembers, ControlTypes, SubTypes
<1> QED BY <1>1, <1>2, <1>3, <1>4, <1>5, Types DEF ChannelInv

\* Every step keeps the invariant.
LEMMA StepInv == ChannelInv /\ [Next]_vars => ChannelInv'
<1> SUFFICES ASSUME ChannelInv, [Next]_vars PROVE ChannelInv'
  OBVIOUS
<1>1. CASE UNCHANGED vars
  <2> USE <1>1 DEF vars, shmVars, controlVars, subVars, pubVars
  <2>1. PublisherAt' /\ SlotsFresh'
    BY SlotsKept
  <2>2. TypeOK' /\ OwnerInv' /\ Remembers'
    BY DEF ChannelInv, TypeOK, OwnerInv, Creating, Remembers
  <2> QED BY <2>1, <2>2 DEF ChannelInv
<1> QED
  BY <1>1, CreateInv, StoreIndexInv, OwnerDownInv, PubLinkInv, PublishBeginInv, PublishEndInv,
     PublishCountInv, SubscriberInv DEF Next

\* So it always holds.
LEMMA ChannelInvHolds == Spec => []ChannelInv
  BY InitInv, StepInv, PTL DEF Spec

------------------------------------------------------------------------------
(* What follows.                                                             *)

\* The variables of the channel keep their types, for every length of the ring.
THEOREM TypeCorrect == Spec => []TypeOK
<1>1. ChannelInv => TypeOK
  BY DEF ChannelInv
<1> QED BY <1>1, ChannelInvHolds, PTL

\* The last N - 1 messages counted are whole and each in its slot, whoever is
\* killed and started again, for every N.
THEOREM WindowKept == Spec => []WindowRetained
<1>1. ChannelInv => WindowRetained
  <2> SUFFICES ASSUME ChannelInv, epoch > 0, ~strayed, NEW k \in 0 .. MaxIdx, Retained(k)
               PROVE data[k % N] = Msg(epoch, k)
    BY DEF WindowRetained
  <2>1. k \in 0 .. currIdx
    BY Types DEF Retained, ChannelInv, ControlTypes
  <2> QED BY <2>1 DEF ChannelInv, SlotsFresh, Fresh
<1> QED BY <1>1, ChannelInvHolds, PTL

\* A visit finds the message it is for, or when the publisher has lapped the
\* subscriber a later one or one being written, for every N.
THEOREM NeverStale == Spec => VisitNeverStale
<1>1. ChannelInv /\ SubVisit /\ epochS = epoch /\ epoch > 0 /\ ~strayed => Fresh(i)
  BY Types DEF ChannelInv, SubVisit, Remembers, ControlTypes, SubTypes, SlotsFresh
<1>2. ChannelInv /\ [Next]_vars =>
        [ SubVisit /\ epochS = epoch /\ epoch > 0 /\ ~strayed =>
            \/ Visited = Msg(epoch, i)
            \/ /\ ~Retained(i)
               /\ Visited = Torn \/ (Visited.epoch = epoch /\ Visited.idx > i) ]_vars
  BY <1>1 DEF Fresh, Visited
<1> QED BY <1>2, ChannelInvHolds, PTL DEF Spec, VisitNeverStale

\* Once complete, the header of the file stays complete, for any set of days.
THEOREM HeaderKept == Spec => HeaderStays
<1>1. TypeOK /\ [Next]_vars => [HeaderComplete => HeaderComplete']_shmVars
  <2> SUFFICES ASSUME TypeOK, [Next]_vars, HeaderComplete PROVE HeaderComplete' \/ UNCHANGED shmVars
    OBVIOUS
  <2>1. ASSUME NEW f \in HeaderFields, StoreHeader(f) PROVE HeaderComplete'
    BY <2>1 DEF StoreHeader, HeaderComplete, HeaderFields, TypeOK
  <2>2. CASE UNCHANGED header
    BY <2>2 DEF HeaderComplete
  <2> QED
    BY <2>1, <2>2 DEF Next, vars, shmVars, CreateStep, CreateNew, OpenExisting, Truncate, OwnerDown,
        StoreTopic, StoreIndex, PubLink, PubConstruct, PublishBegin, PublishEnd, PublishCount, PubDown,
        SubLink, SubConstruct, SubDown, Subscribe, SubPoll, SubVisit, SubDone
<1> QED BY <1>1, TypeCorrect, PTL DEF Spec, HeaderStays
==============================================================================
