------------------------------- MODULE Channel -------------------------------
(* A channel of fixed-size messages (src/zerg/tool/channel.cpp): one         *)
(* publisher process writes a ring of N slots in shared memory and counts    *)
(* the messages in curr_idx; a subscriber process maps the same memory and   *)
(* polls curr_idx.  Neither waits for the other: a subscriber that falls N   *)
(* messages behind reads what has overwritten them.                          *)
(*                                                                           *)
(* In mode "primaryPub" (ChannelMgr) the publisher is the owner that creates *)
(* the memory; in mode "tube" (ChannelCoordinator) a third process creates   *)
(* it and the publisher links to it.  The subscriber is the loop of          *)
(* demo/test_channel.cpp.  Any process may be killed at any step and started *)
(* again, on the same day or a later one.                                    *)
EXTENDS Shm

CONSTANTS Modes,      \* the modes to consider, of "primaryPub" and "tube"
          N,          \* topic_n
          MaxIdx,     \* bound: the largest curr_idx reached
          MaxEpoch    \* bound: how often the channel is created

ASSUME NAssumption == N \in Nat \ {0}
ASSUME BoundsAssumption == MaxIdx \in Nat /\ MaxEpoch \in Nat
ASSUME ModesAssumption == Modes \subseteq {"primaryPub", "tube"}

VARIABLES mode,
          topicSize, topicN, warp, currIdx,  \* the rest of ChnlCtrlBlock
          data,       \* the message slots
          pcP, pdata, \* the publisher, and the slot its pdata points to (N: the end)
          pcS, cur, i, done,                 \* the subscriber and its locals
          \* History: how often curr_idx was reset; when publisher and subscriber
          \* last read it; whether a publisher older than the reset has counted.
          epoch, epochP, epochS, strayed

controlVars == <<topicSize, topicN, warp>>
pubVars == <<pcP, pdata, epochP>>
subVars == <<pcS, cur, i, done, epochS>>
vars == <<shmVars, mode, controlVars, currIdx, data, pubVars, subVars, epoch, strayed>>

Msg(e, k) == [epoch |-> e, idx |-> k]
Zero == Msg(0, -1)   \* a slot nobody has written
Torn == Msg(0, -2)   \* a slot in the middle of a memcpy

Init == /\ ShmInit
        /\ mode \in Modes
        /\ topicSize = FALSE /\ topicN = 0 /\ warp = 0 /\ currIdx = 0
        /\ data = [s \in 0 .. N - 1 |-> Zero]
        /\ pcP = "down" /\ pdata = 0
        /\ pcS = "down" /\ cur = -1 /\ i = 0 /\ done = -1
        /\ epoch = 0 /\ epochP = 0 /\ epochS = 0 /\ strayed = FALSE

------------------------------------------------------------------------------
(* The owner: RegisterPublisher or createChannel.                            *)

\* CreateShm up to its last header store.
CreateStep ==
  /\ \/ \E d \in Days : epoch < MaxEpoch /\ (CreateNew(d) \/ OpenExisting(d))
     \/ Truncate
     \/ \E f \in HeaderFields : StoreHeader(f)
  /\ UNCHANGED <<mode, controlVars, currIdx, data, pubVars, subVars, epoch, strayed>>

\* The stores to topic_size and topic_n, in any order.
StoreTopic(f) ==
  /\ pcO = "topic" /\ f \in todo
  /\ topicSize' = (topicSize \/ f = "topic_size")
  /\ topicN' = IF f = "topic_n" THEN N ELSE topicN
  /\ IF todo = {f} THEN pcO' = "index" /\ todo' = {"curr_idx", "warp"}
                   ELSE pcO' = pcO /\ todo' = todo \ {f}
  /\ UNCHANGED <<file, header, dateO, mode, warp, currIdx, data, pubVars, subVars,
                 epoch, strayed>>

\* The owner's constructor of Channel stores curr_idx = -1 and warp = 1, in any
\* order.  An owner that publishes then starts at slot 0.
MutStoreIndexKeep(f) ==
  /\ pcO = "index" /\ f \in todo
  /\ warp' = IF f = "warp" THEN 1 ELSE warp
  /\ IF f = "curr_idx"
     THEN epoch' = epoch + 1 /\ strayed' = FALSE
     ELSE UNCHANGED <<epoch, strayed>>
  /\ IF todo = {f}
     THEN /\ pcO' = "ready" /\ todo' = {}
          /\ IF mode = "primaryPub"
             THEN pcP' = "idle" /\ pdata' = 0 /\ epochP' = epoch'
             ELSE UNCHANGED pubVars
     ELSE pcO' = pcO /\ todo' = todo \ {f} /\ UNCHANGED pubVars
  /\ UNCHANGED <<file, header, dateO, mode, topicSize, topicN, currIdx, data, subVars>>
StoreIndex(f) ==
  /\ pcO = "index" /\ f \in todo
  /\ warp' = IF f = "warp" THEN 1 ELSE warp
  /\ IF f = "curr_idx"
     THEN currIdx' = -1 /\ epoch' = epoch + 1 /\ strayed' = FALSE
     ELSE UNCHANGED <<currIdx, epoch, strayed>>
  /\ IF todo = {f}
     THEN /\ pcO' = "ready" /\ todo' = {}
          /\ IF mode = "primaryPub"
             THEN pcP' = "idle" /\ pdata' = 0 /\ epochP' = epoch'
             ELSE UNCHANGED pubVars
     ELSE pcO' = pcO /\ todo' = todo \ {f} /\ UNCHANGED pubVars
  /\ UNCHANGED <<file, header, dateO, mode, topicSize, topicN, data, subVars>>

\* A process that is gone has no locals.
PublisherGone == pcP' = "down" /\ pdata' = 0 /\ epochP' = 0
SubscriberGone == pcS' = "down" /\ cur' = -1 /\ i' = 0 /\ done' = -1 /\ epochS' = 0

\* The owner is killed, or ends; a publisher in the same process with it.
OwnerDown ==
  /\ pcO # "down"
  /\ pcO' = "down" /\ todo' = {} /\ dateO' = 0
  /\ IF mode = "primaryPub" THEN PublisherGone ELSE UNCHANGED pubVars
  /\ UNCHANGED <<file, header, mode, controlVars, currIdx, data, subVars, epoch, strayed>>

------------------------------------------------------------------------------
(* The publisher.                                                            *)

\* The constructor of Channel in a process that links: with topic_size 0 it
\* throws, as curr_idx is not -1; with topic_n 0 it divides by zero.
Constructs == topicSize /\ topicN = N

\* linkChannel(name, true): LinkShm ...
PubLink ==
  /\ mode = "tube" /\ pcP = "down" /\ \E d \in Days : Links(d)
  /\ pcP' = "mapped"
  /\ UNCHANGED <<shmVars, mode, controlVars, currIdx, data, pdata, epochP, subVars,
                 epoch, strayed>>

\* ... then the constructor, which goes on after the last message counted.
MutPubConstruct ==
  /\ pcP = "mapped"
  /\ IF Constructs
     THEN pcP' = "idle" /\ pdata' = currIdx + 1 /\ epochP' = epoch
     ELSE PublisherGone
  /\ UNCHANGED <<shmVars, mode, controlVars, currIdx, data, subVars, epoch, strayed>>
PubConstruct ==
  /\ pcP = "mapped"
  /\ IF Constructs
     THEN pcP' = "idle" /\ pdata' = (currIdx + 1) % N /\ epochP' = epoch
     ELSE PublisherGone
  /\ UNCHANGED <<shmVars, mode, controlVars, currIdx, data, subVars, epoch, strayed>>

\* Publish: the memcpy begins.  At the end of the memory (warp was 0 at the
\* last wrap) Publish throws and changes nothing.
PublishBegin ==
  /\ pcP = "idle" /\ pdata < N /\ currIdx < MaxIdx
  /\ data' = [data EXCEPT ![pdata] = Torn]
  /\ pcP' = "writing"
  /\ UNCHANGED <<shmVars, mode, controlVars, currIdx, pdata, epochP, subVars,
                 epoch, strayed>>

\* The memcpy is done and pdata advances, to the start if the channel warps.
PublishEnd ==
  /\ pcP = "writing"
  /\ data' = [data EXCEPT ![pdata] = Msg(epoch, currIdx + 1)]
  /\ pdata' = IF pdata + 1 = N /\ warp = 1 THEN 0 ELSE pdata + 1
  /\ pcP' = "written"
  /\ UNCHANGED <<shmVars, mode, controlVars, currIdx, epochP, subVars, epoch, strayed>>

\* The atomic increment of curr_idx makes the message visible.
MutPublishCountEarly ==
  /\ pcP = "writing"
  /\ currIdx' = currIdx + 1
  /\ pcP' = "idle"
  /\ strayed' = (strayed \/ epochP # epoch)
  /\ UNCHANGED <<shmVars, mode, controlVars, data, pdata, epochP, subVars, epoch>>
PublishCount ==
  /\ pcP = "written"
  /\ currIdx' = currIdx + 1
  /\ pcP' = "idle"
  /\ strayed' = (strayed \/ epochP # epoch)
  /\ UNCHANGED <<shmVars, mode, controlVars, data, pdata, epochP, subVars, epoch>>

\* A linked publisher is killed.
PubDown ==
  /\ mode = "tube" /\ pcP # "down"
  /\ PublisherGone
  /\ UNCHANGED <<shmVars, mode, controlVars, currIdx, data, subVars, epoch, strayed>>

------------------------------------------------------------------------------
(* The subscriber.                                                           *)

\* RegisterSubscriber or linkChannel(name, false): LinkShm ...
SubLink ==
  /\ pcS = "down" /\ \E d \in Days : Links(d)
  /\ pcS' = "mapped"
  /\ UNCHANGED <<shmVars, mode, controlVars, currIdx, data, pubVars, cur, i, done,
                 epochS, epoch, strayed>>

\* ... then the constructor; the loop starts from doneIndex = -1.
SubConstruct ==
  /\ pcS = "mapped"
  /\ IF Constructs THEN pcS' = "idle" /\ UNCHANGED <<cur, i, done, epochS>>
                   ELSE SubscriberGone
  /\ UNCHANGED <<shmVars, mode, controlVars, currIdx, data, pubVars, epoch, strayed>>

\* GetIndex: the messages doneIndex + 1 .. curIndex are to be visited.
SubPoll ==
  /\ pcS = "idle"
  /\ cur' = currIdx /\ i' = done + 1 /\ epochS' = epoch
  /\ pcS' = "visit"
  /\ UNCHANGED <<shmVars, mode, controlVars, currIdx, data, pubVars, done, epoch, strayed>>

\* What visit(array[i % maxCount]) reads now.
Visited == data[i % N]

\* One visit.
SubVisit ==
  /\ pcS = "visit" /\ i <= cur
  /\ i' = i + 1
  /\ UNCHANGED <<shmVars, mode, controlVars, currIdx, data, pubVars, pcS, cur, done,
                 epochS, epoch, strayed>>

\* The end of the loop; a curIndex below doneIndex is only logged.
MutSubDoneIgnore ==
  /\ pcS = "visit" /\ i > cur
  /\ done' = IF cur < done THEN done ELSE cur
  /\ pcS' = "idle"
  /\ cur' = -1 /\ i' = 0
  /\ UNCHANGED <<shmVars, mode, controlVars, currIdx, data, pubVars, epochS,
                 epoch, strayed>>
SubDone ==
  /\ pcS = "visit" /\ i > cur
  /\ done' = cur /\ pcS' = "idle"
  /\ cur' = -1 /\ i' = 0   \* out of scope
  /\ UNCHANGED <<shmVars, mode, controlVars, currIdx, data, pubVars, epochS,
                 epoch, strayed>>

\* The subscriber is killed; it maps the memory read-only.
SubDown ==
  /\ pcS # "down"
  /\ SubscriberGone
  /\ UNCHANGED <<shmVars, mode, controlVars, currIdx, data, pubVars, epoch, strayed>>

------------------------------------------------------------------------------
Subscribe == SubPoll \/ SubVisit \/ SubDone

Next == \/ CreateStep \/ OwnerDown
        \/ \E f \in {"topic_size", "topic_n"} : StoreTopic(f)
        \/ \E f \in {"curr_idx", "warp"} : StoreIndex(f)
        \/ PubLink \/ PubConstruct \/ PublishBegin \/ PublishEnd \/ PublishCount \/ PubDown
        \/ SubLink \/ SubConstruct \/ SubDown \/ Subscribe

Spec == Init /\ [][Next]_vars

\* The subscriber's loop has no exit: while it is up, it goes on.
FairSpec == Spec /\ WF_vars(Subscribe)

------------------------------------------------------------------------------
\* The variables have the types of the code.
TypeOK == /\ file \in {"absent", "empty", "sized"}
          /\ header \in [magic : BOOLEAN, date : Days \cup {0}, size : BOOLEAN]
          /\ pcO \in {"down", "truncate", "header", "topic", "index", "ready"}
          /\ todo \subseteq HeaderFields \cup {"topic_size", "topic_n", "curr_idx", "warp"}
          /\ dateO \in Days \cup {0}
          /\ mode \in Modes
          /\ topicSize \in BOOLEAN /\ topicN \in {0, N} /\ warp \in {0, 1}
          /\ currIdx \in -1 .. MaxIdx
          /\ data \in [0 .. N - 1 -> [epoch : 0 .. MaxEpoch, idx : -2 .. MaxIdx]]
          /\ pcP \in {"down", "mapped", "idle", "writing", "written"}
          /\ pdata \in 0 .. N
          /\ pcS \in {"down", "mapped", "idle", "visit"}
          /\ cur \in -1 .. MaxIdx /\ i \in 0 .. MaxIdx + 1 /\ done \in -1 .. MaxIdx
          /\ epoch \in 0 .. MaxEpoch /\ epochP \in 0 .. MaxEpoch
          /\ epochS \in 0 .. MaxEpoch /\ strayed \in BOOLEAN

\* Message k of the channel's current life is not yet being overwritten.
Retained(k) == 0 <= k /\ k <= currIdx /\ currIdx + 1 - k < N

\* Once created, a channel holds its last N - 1 messages whole and each in its
\* own slot: across kills and restarts of the publisher in mid-message, and
\* however far the ring has wrapped.  It may not after a publisher has counted
\* a message in a channel that the coordinator created anew under it.
WindowRetained ==
  epoch > 0 /\ ~strayed =>
    \A k \in 0 .. MaxIdx : Retained(k) => data[k % N] = Msg(epoch, k)

\* A visit of index i finds message i, unless the publisher has lapped the
\* subscriber; then it finds a later message of the same ring position or one
\* being written, never an older message or the leftover of an earlier life.
VisitNeverStale ==
  [][ SubVisit /\ epochS = epoch /\ epoch > 0 /\ ~strayed =>
        \/ Visited = Msg(epoch, i)
        \/ /\ ~Retained(i)
           /\ Visited = Torn \/ (Visited.epoch = epoch /\ Visited.idx > i)
    ]_vars

\* When no message is published any more, as in the end the bounds force, a
\* subscriber that stays up reaches the last one, also one that was ahead of a
\* channel since created anew.
SubscriberCatchesUp == pcS = "idle" ~> (pcS = "down" \/ done = currIdx)

\* channel.h says of curr_idx: "init -1".  A subscriber that polls before
\* anything was published reads -1.
PollSeesInit == pcS = "visit" /\ epochS = 0 => cur = -1
==============================================================================
