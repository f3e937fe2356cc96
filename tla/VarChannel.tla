------------------------------ MODULE VarChannel ------------------------------
(* A channel of variable-length messages (PublishVar and PollVar of          *)
(* src/zerg/tool/channel.cpp) between the owner that publishes and the       *)
(* subscriber loop of demo/test_var_channel.cpp.  The messages lie one after *)
(* another; one that does not fit before the end goes to the start, and what *)
(* it leaves is zeroed.  There is no index: the subscriber finds message     *)
(* k + 1 behind message k, or at the start when PollVar sees the end.        *)
(*                                                                           *)
(* Lengths are in units of the size of a ShmMsgHeader.  The creation of the  *)
(* memory is Shm and Channel; here it is one step, Register, that resets the *)
(* control block and keeps the bytes.  Of a message longer than the memory,  *)
(* only what lies in the memory is modelled.                                 *)
EXTENDS Integers

CONSTANTS Size,      \* data_boundary - data_start
          Lens,      \* the msg_len values published
          MaxSeq,    \* bound: the largest seq_num published
          MaxEpoch   \* bound: how often the channel is registered

ASSUME LensAssumption == Size \in Nat \ {0} /\ Lens \subseteq Nat \ {0}
ASSUME BoundsAssumption == MaxSeq \in Nat /\ MaxEpoch \in Nat

VARIABLES mem,               \* the units of the data area
          warp, currIdx,     \* ChnlCtrlBlock
          pcP, pdata, len,   \* the publisher, and the msg_len it publishes
          pcS, data, cur, i, done,   \* the subscriber and its locals
          epoch,             \* history: how often the channel was registered
          next               \* history: the message the subscriber's data is behind

pubVars == <<pcP, pdata, len>>
subVars == <<pcS, data, cur, i, done, next>>
vars == <<mem, warp, currIdx, pubVars, subVars, epoch>>

Header == 1
Null == -1
\* Unit k of message s, which takes l units; unit 0 is its header.
Unit(s, k, l) == [epoch |-> epoch, seq |-> s, unit |-> k, len |-> l]
Zero == [epoch |-> 0, seq |-> 0, unit |-> 0, len |-> 0]
Torn == [epoch |-> 0, seq |-> 0, unit |-> 1, len |-> 0]
Nothing == [epoch |-> 0, seq |-> 0]

Init == /\ mem = [o \in 0 .. Size - 1 |-> Zero]
        /\ warp = 0 /\ currIdx = 0
        /\ pcP = "down" /\ pdata = 0 /\ len = 0
        /\ pcS = "down" /\ data = Null /\ cur = -1 /\ i = 0 /\ done = -1
        /\ epoch = 0 /\ next = Nothing

------------------------------------------------------------------------------
\* RegisterPublisherVar: curr_idx = -1, pdata at the start, the bytes as they
\* were.  Likewise createChannelVar and the publisher that links right after it;
\* there warp keeps its value if the coordinator was killed before it stored 1.
Register ==
  /\ pcP = "down" /\ epoch < MaxEpoch
  /\ pcP' = "idle" /\ pdata' = 0 /\ len' = 0
  /\ currIdx' = -1 /\ epoch' = epoch + 1 /\ warp' \in {warp, 1}
  /\ UNCHANGED <<mem, subVars>>

\* The publisher is killed.
PubDown ==
  /\ pcP # "down"
  /\ pcP' = "down" /\ pdata' = 0 /\ len' = 0
  /\ UNCHANGED <<mem, warp, currIdx, subVars, epoch>>

MutFitsOffByOne(l) == pdata + l <= Size + 1
Fits(l) == pdata + l <= Size

\* PublishVar at the end of the memory, or beyond it, throws and changes nothing.
CanPublish == pcP = "idle" /\ pdata < Size /\ currIdx < MaxSeq

\* A message of length l that fits: PublishVar begins to copy it at pdata.
PublishBegin(l) ==
  /\ CanPublish /\ Fits(l)
  /\ mem' = [o \in 0 .. Size - 1 |-> IF o \in pdata .. pdata + l - 1 THEN Torn ELSE mem[o]]
  /\ len' = l /\ pcP' = "writing"
  /\ UNCHANGED <<warp, currIdx, pdata, subVars, epoch>>

\* One that does not fit: without warp nothing happens, with it the publisher
\* begins to zero the rest of the memory.
MutPublishWrapNoFill(l) ==
  /\ CanPublish /\ ~Fits(l) /\ warp = 1
  /\ mem' = [o \in 0 .. Size - 1 |-> IF o \in 0 .. l - 1 THEN Torn ELSE mem[o]]
  /\ pdata' = 0 /\ len' = l /\ pcP' = "wrapped"
  /\ UNCHANGED <<warp, currIdx, subVars, epoch>>
PublishWrap(l) ==
  /\ CanPublish /\ ~Fits(l) /\ warp = 1
  /\ mem' = [o \in 0 .. Size - 1 |-> IF o >= pdata /\ mem[o] # Zero THEN Torn ELSE mem[o]]
  /\ len' = l /\ pcP' = "zeroing"
  /\ UNCHANGED <<warp, currIdx, pdata, subVars, epoch>>

\* The rest is zeroed; the copy begins at the start.
PublishAtStart ==
  /\ pcP = "zeroing"
  /\ mem' = [o \in 0 .. Size - 1 |-> IF o \in 0 .. len - 1 THEN Torn
                                      ELSE IF o >= pdata THEN Zero ELSE mem[o]]
  /\ pdata' = 0 /\ pcP' = "wrapped"
  /\ UNCHANGED <<warp, currIdx, len, subVars, epoch>>

\* The copy is done and pdata advances, to the start if the message ends the
\* memory, is one that fitted and the channel warps.
PublishEnd ==
  /\ pcP \in {"writing", "wrapped"}
  /\ mem' = [o \in 0 .. Size - 1 |->
               IF o \in pdata .. pdata + len - 1
               THEN Unit(currIdx + 1, o - pdata, len) ELSE mem[o]]
  /\ pdata' = IF pcP = "writing" /\ pdata + len = Size /\ warp = 1 THEN 0 ELSE pdata + len
  /\ pcP' = "written"
  /\ UNCHANGED <<warp, currIdx, len, subVars, epoch>>

\* The atomic increment of curr_idx.
MutPublishCountEarly ==
  /\ pcP \in {"writing", "wrapped"}
  /\ currIdx' = currIdx + 1
  /\ pcP' = "idle" /\ len' = 0
  /\ UNCHANGED <<mem, warp, pdata, subVars, epoch>>
PublishCount ==
  /\ pcP = "written"
  /\ currIdx' = currIdx + 1
  /\ pcP' = "idle" /\ len' = 0
  /\ UNCHANGED <<mem, warp, pdata, subVars, epoch>>

------------------------------------------------------------------------------
\* A process that is gone has no locals.
SubscriberGone ==
  /\ pcS' = "down" /\ data' = Null /\ cur' = -1 /\ i' = 0 /\ done' = -1
  /\ next' = Nothing

\* RegisterSubscriber: the constructor throws once a message was published.
Subscribe ==
  /\ pcS = "down" /\ epoch > 0 /\ currIdx = -1
  /\ pcS' = "idle" /\ data' = Null /\ done' = -1
  /\ UNCHANGED <<mem, warp, currIdx, pubVars, cur, i, next, epoch>>

\* The headers the subscriber may read at offset o: inside another message it
\* takes that message's payload for one, which may say any seq_num, and as its
\* msg_len (bound: one of each kind) zero, a length published or one that reaches
\* past the memory.
MsgLens == Lens \cup {0, Size + 1}
HeadersAt(o) == IF mem[o].unit = 0
                THEN {[seq |-> mem[o].seq, len |-> mem[o].len]}
                ELSE [seq : 0 .. MaxSeq, len : MsgLens]

\* PollVar(data): the offset of the message, given the header read at data, or
\* Null.
PollVar(h) ==
  LET at == IF data = Null THEN 0 ELSE data
  IN IF at + Header < Size /\ h.len # 0 /\ at + h.len <= Size THEN at
     ELSE IF warp = 0 THEN Null ELSE 0

\* What PollVar may return now; at the end and beyond it reads no header.
HeadersAtData == IF data >= Size THEN {[seq |-> 0, len |-> 0]}
                 ELSE HeadersAt(IF data = Null THEN 0 ELSE data)
Polled == {PollVar(h) : h \in HeadersAtData}

SubPoll ==
  /\ pcS = "idle"
  /\ cur' = currIdx /\ i' = done + 1
  /\ pcS' = "visit"
  /\ UNCHANGED <<mem, warp, currIdx, pubVars, data, done, next, epoch>>

\* One turn of the loop: PollVar, take over the seq_num found, visit, go on
\* behind the message.  The loop reads the header again after PollVar did, and
\* does not look where the msg_len it reads leads.
SubVisit ==
  /\ pcS = "visit" /\ i <= cur
  /\ \E pd \in Polled \ {Null} : \E h \in HeadersAt(pd) :
       /\ i' = h.seq + 1
       /\ data' = pd + h.len
       /\ next' = IF mem[pd].unit = 0 /\ mem[pd] # Zero
                  THEN [epoch |-> mem[pd].epoch, seq |-> mem[pd].seq + 1] ELSE Nothing
  /\ UNCHANGED <<mem, warp, currIdx, pubVars, pcS, cur, done, epoch>>

\* PollVar returns nullptr: the loop throws and the subscriber ends.
SubThrow ==
  /\ pcS = "visit" /\ i <= cur /\ Null \in Polled
  /\ SubscriberGone
  /\ UNCHANGED <<mem, warp, currIdx, pubVars, epoch>>

\* The end of the loop; a curIndex below doneIndex starts over from the start.
SubDone ==
  /\ pcS = "visit" /\ i > cur
  /\ IF cur < done THEN data' = Null /\ next' = Nothing ELSE UNCHANGED <<data, next>>
  /\ done' = cur /\ pcS' = "idle" /\ cur' = -1 /\ i' = 0
  /\ UNCHANGED <<mem, warp, currIdx, pubVars, epoch>>

Next == \/ Register \/ PubDown \/ PublishAtStart \/ PublishEnd \/ PublishCount
        \/ \E l \in Lens : PublishBegin(l) \/ PublishWrap(l)
        \/ Subscribe \/ SubPoll \/ SubVisit \/ SubThrow \/ SubDone

Spec == Init /\ [][Next]_vars

------------------------------------------------------------------------------
\* The variables keep their types.  The publisher's pointer is in the memory or
\* at its end, or beyond it by a message longer than the memory.  The subscriber's
\* is behind what some place in the memory shows for a message, never further.
TypeOK == /\ DOMAIN mem = 0 .. Size - 1
          /\ warp \in {0, 1} /\ currIdx \in -1 .. MaxSeq
          /\ pcP \in {"down", "idle", "zeroing", "writing", "wrapped", "written"}
          /\ pdata \in 0 .. Size \cup {l \in Lens : l > Size} /\ len \in Lens \cup {0}
          /\ pcS \in {"down", "idle", "visit"}
          /\ data \in {Null} \cup {p + l : p \in 0 .. Size - 1, l \in MsgLens}
          /\ cur \in -1 .. MaxSeq /\ i \in 0 .. MaxSeq + 1 /\ done \in -1 .. MaxSeq
          /\ epoch \in 0 .. MaxEpoch

\* Message s of the channel's current life lies whole in memory from offset o.
IntactAt(s, o) ==
  /\ mem[o].epoch = epoch /\ mem[o].seq = s /\ mem[o].unit = 0
  /\ \A k \in 0 .. mem[o].len - 1 : o + k < Size /\ mem[o + k] = Unit(s, k, mem[o].len)

\* The message the subscriber's pointer stands for, in the current life.
Expected == IF data = Null THEN 0 ELSE IF next.epoch = epoch THEN next.seq ELSE MaxSeq + 1

\* The publisher has come round and written over the subscriber's pointer.
Passed == /\ data \in 0 .. Size - 1
          /\ mem[data] = Torn \/ (mem[data].epoch = epoch /\ mem[data].seq > Expected)

\* A subscriber that is in step finds the next message wherever it lies, across
\* every wrap of the ring: until the publisher has written over that message or
\* over the subscriber's pointer, PollVar returns it and nothing else.
FindsNext ==
  epoch > 0 /\ pcS # "down" /\ Expected <= currIdx /\ ~Passed =>
    \A o \in 0 .. Size - 1 : IntactAt(Expected, o) => Polled = {o}

\* The last message counted lies whole in memory, whoever is killed and
\* whatever is being written, if the memory holds three of the longest messages.
LastIntact ==
  epoch > 0 /\ currIdx >= 0 => \E o \in 0 .. Size - 1 : IntactAt(currIdx, o)
==============================================================================
