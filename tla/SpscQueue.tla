------------------------------ MODULE SpscQueue ------------------------------
(* zerg::SpscQueue (include/zerg/algo/SpscQueue.h): a ring of Capacity slots *)
(* shared by one producer thread and one consumer thread without a lock.     *)
(*                                                                           *)
(* A step of the model is one access to memory both threads use: a load or a *)
(* store of headIndex_ or tailIndex_, or the construction, use, destruction  *)
(* of the object in a slot.  Each index has one writer, which publishes with *)
(* release what the other thread loads with acquire, so interleaving these   *)
(* steps covers every outcome.  An object under construction is a state      *)
(* (pcP = "construct"), as is a pointer the consumer holds into a slot.      *)
EXTENDS Integers, Sequences

CONSTANTS Values,    \* values of the element type T
          Raw,       \* the content of a slot that holds no object
          Capacity   \* capacity_

\* The constructor throws invalid_argument for a capacity below 2.
ASSUME CapacityAssumption == Capacity \in Nat /\ Capacity >= 2
ASSUME RawAssumption == Raw \notin Values

VARIABLES slots,       \* slots_: the object in each slot, or Raw
          headIndex,   \* headIndex_: the slot the producer fills next
          tailIndex,   \* tailIndex_: the slot the consumer reads next
          pcP,         \* where the producer thread stands
          call,        \* the operation the producer is in
          nextHead,    \* its local nextHead
          arg,         \* its argument
          pcC,         \* where the consumer thread stands
          seenHead,    \* the head its size() has loaded
          item,        \* the value the consumer has read through front()
          phase        \* "running", "destroying" (~SpscQueue), "freed"

producerVars == <<pcP, call, nextHead, arg>>
consumerVars == <<pcC, seenHead, item>>
vars == <<slots, headIndex, tailIndex, producerVars, consumerVars, phase>>

Slot == 0 .. Capacity - 1

Init == /\ slots = [i \in Slot |-> Raw]
        /\ headIndex = 0 /\ tailIndex = 0
        /\ pcP = "idle" /\ call = "emplace" /\ nextHead = 0 /\ arg = Raw
        /\ pcC = "idle" /\ seenHead = 0 /\ item = Raw
        /\ phase = "running"

\* The wrap of an index past the last slot.
MutSuccNoWrap(i) == i + 1
Succ(i) == IF i + 1 = Capacity THEN 0 ELSE i + 1

\* The number of values between a tail and a head, the arithmetic of size().
Distance(tail, head) == IF head < tail THEN head - tail + Capacity ELSE head - tail

------------------------------------------------------------------------------
(* The producer: emplace and push spin while the queue is full, try_emplace  *)
(* and try_push give up, get_cell spins and hands the slot to its caller.    *)

\* The producer enters an operation: it loads headIndex_, which it alone writes.
Enter(op, v) ==
  /\ phase = "running" /\ pcP = "idle"
  /\ pcP' = "check" /\ call' = op /\ arg' = v /\ nextHead' = Succ(headIndex)
  /\ UNCHANGED <<slots, headIndex, tailIndex, consumerVars, phase>>

\* One slot stays empty, to tell a full queue from an empty one.
MutHasSpace == TRUE
HasSpace == nextHead # tailIndex

\* The load of tailIndex_ that finds room.  A load that finds none changes
\* nothing in emplace and get_cell: they load it again.
FindSpace ==
  /\ pcP = "check" /\ HasSpace
  /\ pcP' = "construct"
  /\ UNCHANGED <<slots, headIndex, tailIndex, call, nextHead, arg, consumerVars, phase>>

\* The load that finds none in try_emplace: it returns false.
TryFails ==
  /\ pcP = "check" /\ call = "try_emplace" /\ ~HasSpace
  /\ pcP' = "idle"
  /\ UNCHANGED <<slots, headIndex, tailIndex, call, nextHead, arg, consumerVars, phase>>

\* The placement new of emplace and try_emplace.
Construct ==
  /\ pcP = "construct" /\ call # "get_cell"
  /\ slots' = [slots EXCEPT ![headIndex] = arg]
  /\ pcP' = "publish"
  /\ UNCHANGED <<headIndex, tailIndex, call, nextHead, arg, consumerVars, phase>>

\* The constructor of T throws: emplace leaves before it stores headIndex_.
ConstructThrows ==
  /\ pcP = "construct" /\ call # "get_cell"
  /\ pcP' = "idle"
  /\ UNCHANGED <<slots, headIndex, tailIndex, call, nextHead, arg, consumerVars, phase>>

\* The caller of get_cell writes the slot in place, once or more often.
FillCell(v) ==
  /\ pcP \in {"construct", "publish"} /\ call = "get_cell"
  /\ slots' = [slots EXCEPT ![headIndex] = v]
  /\ pcP' = "publish" /\ arg' = v
  /\ UNCHANGED <<headIndex, tailIndex, call, nextHead, consumerVars, phase>>

\* The store of headIndex_ that ends emplace, try_emplace and advance_head.
MutPublishEarly ==
  /\ pcP \in {"construct", "publish"}
  /\ headIndex' = nextHead
  /\ pcP' = "idle"
  /\ UNCHANGED <<slots, tailIndex, call, nextHead, arg, consumerVars, phase>>
Publish ==
  /\ pcP = "publish"
  /\ headIndex' = nextHead
  /\ pcP' = "idle"
  /\ UNCHANGED <<slots, tailIndex, call, nextHead, arg, consumerVars, phase>>

------------------------------------------------------------------------------
(* The consumer, and the destructor's loop over front() and pop().           *)

\* front() finds a value and returns a pointer to its slot.  A front() that
\* finds none returns nullptr and changes nothing.
Front ==
  /\ phase # "freed" /\ pcC = "idle" /\ headIndex # tailIndex
  /\ pcC' = "holding"
  /\ UNCHANGED <<slots, headIndex, tailIndex, producerVars, seenHead, item, phase>>

\* size() loads headIndex_ ...
SizeLoadHead ==
  /\ phase = "running" /\ pcC = "idle"
  /\ pcC' = "sizing" /\ seenHead' = headIndex
  /\ UNCHANGED <<slots, headIndex, tailIndex, producerVars, item, phase>>

\* ... then tailIndex_; a size above 0 entitles the consumer to front_no_check().
MutSizeUnchecked ==
  /\ pcC = "sizing"
  /\ pcC' = "holding"
  /\ UNCHANGED <<slots, headIndex, tailIndex, producerVars, seenHead, item, phase>>
SizeLoadTail ==
  /\ pcC = "sizing"
  /\ pcC' = IF Distance(tailIndex, seenHead) > 0 THEN "holding" ELSE "idle"
  /\ UNCHANGED <<slots, headIndex, tailIndex, producerVars, seenHead, item, phase>>

\* The consumer reads the object it points to.
Use ==
  /\ phase = "running" /\ pcC = "holding"
  /\ item' = slots[tailIndex] /\ pcC' = "used"
  /\ UNCHANGED <<slots, headIndex, tailIndex, producerVars, seenHead, phase>>

\* pop() destroys the object ...
MutPopKeep ==
  /\ pcC \in {"holding", "used"}
  /\ pcC' = "popping"
  /\ UNCHANGED <<slots, headIndex, tailIndex, producerVars, seenHead, item, phase>>
PopDestroy ==
  /\ pcC \in {"holding", "used"}
  /\ slots' = [slots EXCEPT ![tailIndex] = Raw]
  /\ pcC' = "popping"
  /\ UNCHANGED <<headIndex, tailIndex, producerVars, seenHead, item, phase>>

\* ... then gives the slot back to the producer.
MutPopNoStore ==
  /\ pcC = "popping"
  /\ pcC' = "idle"
  /\ UNCHANGED <<slots, headIndex, tailIndex, producerVars, seenHead, item, phase>>
PopStore ==
  /\ pcC = "popping"
  /\ tailIndex' = Succ(tailIndex)
  /\ pcC' = "idle"
  /\ UNCHANGED <<slots, headIndex, producerVars, seenHead, item, phase>>

------------------------------------------------------------------------------
\* ~SpscQueue runs when both threads have left the queue ...
Destroy ==
  /\ phase = "running" /\ pcP = "idle" /\ pcC = "idle"
  /\ phase' = "destroying"
  /\ UNCHANGED <<slots, headIndex, tailIndex, producerVars, consumerVars>>

\* ... pops what is left, and returns the memory once front() is null.
Free ==
  /\ phase = "destroying" /\ pcC = "idle" /\ headIndex = tailIndex
  /\ phase' = "freed"
  /\ UNCHANGED <<slots, headIndex, tailIndex, producerVars, consumerVars>>

\* The object is gone.
Freed == phase = "freed" /\ UNCHANGED vars

Operations == {"emplace", "try_emplace", "get_cell"}

ProducerStep == \/ FindSpace \/ TryFails \/ Construct \/ ConstructThrows \/ Publish
                \/ \E v \in Values : FillCell(v)
ConsumerStep == Front \/ SizeLoadHead \/ SizeLoadTail \/ Use \/ PopDestroy \/ PopStore

Next == \/ \E op \in Operations, v \in Values : Enter(op, v)
        \/ ProducerStep \/ ConsumerStep \/ Destroy \/ Free \/ Freed

Spec == Init /\ [][Next]_vars

\* The scheduler runs both threads: an operation begun goes on, a consumer
\* that polls front() finds what is there.  Nobody has to start a push or the
\* destructor, and no constructor has to throw.
Fairness == /\ WF_vars(FindSpace \/ TryFails)
            /\ WF_vars(Construct \/ \E v \in Values : FillCell(v))
            /\ WF_vars(Publish)
            /\ SF_vars(Front)
            /\ WF_vars(SizeLoadTail \/ PopDestroy) /\ WF_vars(PopStore)

FairSpec == Spec /\ Fairness

------------------------------------------------------------------------------
\* The slot the next front() will return: tailIndex_, or the one after it
\* once pop() has destroyed the object at tailIndex_.
FirstLive == IF pcC = "popping" THEN Succ(tailIndex) ELSE tailIndex

\* The number of values pushed and not yet popped.
Count == Distance(FirstLive, headIndex)

\* Slot i holds a value of the queue.
InUse(i) == IF FirstLive <= headIndex
            THEN FirstLive <= i /\ i < headIndex
            ELSE FirstLive <= i \/ i < headIndex

\* The slot k places after slot i.
After(i, k) == IF i + k < Capacity THEN i + k ELSE i + k - Capacity

\* The queue the slots stand for.
Queue == [k \in 1 .. Count |-> slots[After(FirstLive, k - 1)]]

\* The variables have the types of the code: indices name slots, slots hold
\* objects of T or nothing.
TypeOK == /\ slots \in [Slot -> Values \cup {Raw}]
          /\ headIndex \in Slot /\ tailIndex \in Slot
          /\ nextHead \in Slot /\ seenHead \in Slot
          /\ arg \in Values \cup {Raw} /\ item \in Values \cup {Raw}
          /\ pcP \in {"idle", "check", "construct", "publish"}
          /\ call \in Operations
          /\ pcC \in {"idle", "sizing", "holding", "used", "popping"}
          /\ phase \in {"running", "destroying", "freed"}

\* While the producer builds an object in slot headIndex_ the consumer neither
\* reads nor destroys that slot: the lock-free hand-over has no data race.
NoDataRace ==
  pcP \in {"construct", "publish"} /\ pcC \in {"holding", "used", "popping"}
    => headIndex # tailIndex

\* Object lifetimes: a slot holds an object exactly when it lies between tail
\* and head (or was just built there and awaits its publication), so no object
\* is built over another, destroyed twice, or leaked when the ring is freed.
SlotLifetimes ==
  \A i \in Slot :
    slots[i] # Raw <=> InUse(i) \/ (pcP = "publish" /\ i = headIndex)

\* The consumer only ever dereferences a slot that holds an object, be it from
\* front() or from front_no_check() after a positive size().
HeldIsLive == pcC \in {"holding", "used"} => slots[tailIndex] # Raw

\* The ring implements a first-in first-out queue that holds Capacity - 1
\* values: nothing is lost, duplicated, reordered or overwritten.
Fifo == INSTANCE BoundedFifo
          WITH queue <- Queue, item <- item, Bound <- Capacity - 1, NoValue <- Raw
ImplementsFifo == Fifo!Spec

\* A producer spinning in emplace or get_cell gets its slot as long as the
\* consumer keeps polling: neither side waits on the other for ever.
EmplaceReturns == pcP = "check" ~> pcP # "check"

------------------------------------------------------------------------------
(* The inductive invariant: what each thread knows of the two indices at     *)
(* each of its steps.                                                        *)

\* The producer's nextHead is one past the head it alone moves, and once it
\* has found space the consumer can only make more of it.
ProducerKnows ==
  /\ pcP # "idle" => /\ nextHead = Succ(headIndex)
                     /\ arg \in Values
                     /\ phase = "running"
  /\ pcP \in {"construct", "publish"} => nextHead # tailIndex
  /\ pcP = "publish" => slots[headIndex] = arg

\* A consumer that holds a slot knows the queue is not empty; the head that
\* size() has loaded may be old, never ahead of the real one.
ConsumerKnows ==
  /\ pcC \in {"holding", "used", "popping"} => headIndex # tailIndex
  /\ pcC = "sizing" => Distance(tailIndex, seenHead) <= Distance(tailIndex, headIndex)
  /\ phase = "freed" => pcC = "idle"

IInv == TypeOK /\ ProducerKnows /\ ConsumerKnows /\ SlotLifetimes
==============================================================================
