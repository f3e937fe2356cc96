--------------------------- MODULE SpscQueueProofs ---------------------------
(* SpscQueue for every capacity and every element type: the invariants hold  *)
(* and the ring implements BoundedFifo.                                      *)
EXTENDS SpscQueue, SequenceTheorems, TLAPS

\* The initial ring is empty and every slot holds nothing.
LEMMA InitIInv == Init => IInv
  BY CapacityAssumption, RawAssumption
  DEF Init, IInv, TypeOK, ProducerKnows, ConsumerKnows, SlotLifetimes, InUse,
      FirstLive, Slot, Operations

\* The wrapped successor of a slot is another slot.
LEMMA SuccSlot == \A i \in Slot : Succ(i) \in Slot /\ Succ(i) # i
  BY CapacityAssumption DEF Slot, Succ

\* Every step keeps the variables in their types.
LEMMA NextTypeOK == TypeOK /\ ProducerKnows /\ [Next]_vars => TypeOK'
<1> SUFFICES ASSUME TypeOK, ProducerKnows, [Next]_vars PROVE TypeOK'
  OBVIOUS
<1> USE SuccSlot DEF TypeOK, ProducerKnows, producerVars, consumerVars, Operations
<1>1. ASSUME NEW op \in Operations, NEW v \in Values, Enter(op, v) PROVE TypeOK'
  BY <1>1 DEF Enter
<1>2. CASE FindSpace \/ TryFails \/ ConstructThrows
  BY <1>2 DEF FindSpace, TryFails, ConstructThrows
<1>3. CASE Construct
  BY <1>3 DEF Construct
<1>4. ASSUME NEW v \in Values, FillCell(v) PROVE TypeOK'
  BY <1>4 DEF FillCell
<1>5. CASE Publish
  BY <1>5 DEF Publish
<1>6. CASE Front \/ SizeLoadHead \/ SizeLoadTail
  BY <1>6 DEF Front, SizeLoadHead, SizeLoadTail
<1>7. CASE Use
  BY <1>7 DEF Use
<1>8. CASE PopDestroy
  BY <1>8 DEF PopDestroy
<1>9. CASE PopStore
  BY <1>9 DEF PopStore
<1>10. CASE Destroy \/ Free
  BY <1>10 DEF Destroy, Free
<1>11. CASE UNCHANGED vars
  BY <1>11 DEF vars
<1>12. QED
  BY <1>1, <1>2, <1>3, <1>4, <1>5, <1>6, <1>7, <1>8, <1>9, <1>10, <1>11
  DEF Next, ProducerStep, ConsumerStep, Freed

\* Every step keeps what the producer relies on.
LEMMA NextProducerKnows == IInv /\ TypeOK' /\ [Next]_vars => ProducerKnows'
<1> SUFFICES ASSUME IInv, TypeOK', [Next]_vars PROVE ProducerKnows'
  OBVIOUS
<1> USE CapacityAssumption, RawAssumption DEF IInv, TypeOK, Slot, Succ, ProducerKnows, ConsumerKnows, Operations, producerVars, consumerVars
<1>1. ASSUME NEW op \in Operations, NEW v \in Values, Enter(op, v) PROVE ProducerKnows'
  BY <1>1 DEF Enter
<1>2. CASE FindSpace
  BY <1>2 DEF FindSpace, HasSpace
<1>3. CASE TryFails
  BY <1>3 DEF TryFails, HasSpace
<1>4. CASE Construct
  BY <1>4 DEF Construct
<1>5. CASE ConstructThrows
  BY <1>5 DEF ConstructThrows
<1>6. CASE Publish
  BY <1>6 DEF Publish
<1>7. ASSUME NEW v \in Values, FillCell(v) PROVE ProducerKnows'
  BY <1>7 DEF FillCell
<1>8. CASE Front
  BY <1>8 DEF Front
<1>9. CASE SizeLoadHead
  BY <1>9 DEF SizeLoadHead
<1>10. CASE SizeLoadTail
  BY <1>10 DEF SizeLoadTail
<1>11. CASE Use
  BY <1>11 DEF Use
<1>12. CASE PopDestroy
  BY <1>12 DEF PopDestroy
<1>13. CASE PopStore
  BY <1>13 DEF PopStore
<1>14. CASE Destroy
  BY <1>14 DEF Destroy
<1>15. CASE Free
  BY <1>15 DEF Free
<1>16. CASE UNCHANGED vars
  BY <1>16 DEF vars
<1>17. QED
  BY <1>1, <1>2, <1>3, <1>4, <1>5, <1>6, <1>7, <1>8, <1>9, <1>10, <1>11, <1>12, <1>13, <1>14, <1>15, <1>16
  DEF Next, ProducerStep, ConsumerStep, Freed


\* Every step keeps what the consumer relies on.
LEMMA NextConsumerKnows == IInv /\ TypeOK' /\ [Next]_vars => ConsumerKnows'
<1> SUFFICES ASSUME IInv, TypeOK', [Next]_vars PROVE ConsumerKnows'
  OBVIOUS
<1> USE CapacityAssumption, RawAssumption DEF IInv, TypeOK, Slot, Succ, ProducerKnows, ConsumerKnows, Distance, producerVars, consumerVars
<1>1. ASSUME NEW op \in Operations, NEW v \in Values, Enter(op, v) PROVE ConsumerKnows'
  BY <1>1 DEF Enter
<1>2. CASE FindSpace
  BY <1>2 DEF FindSpace, HasSpace
<1>3. CASE TryFails
  BY <1>3 DEF TryFails, HasSpace
<1>4. CASE Construct
  BY <1>4 DEF Construct
<1>5. CASE ConstructThrows
  BY <1>5 DEF ConstructThrows
<1>6. CASE Publish
  BY <1>6 DEF Publish
<1>7. ASSUME NEW v \in Values, FillCell(v) PROVE ConsumerKnows'
  BY <1>7 DEF FillCell
<1>8. CASE Front
  BY <1>8 DEF Front
<1>9. CASE SizeLoadHead
  BY <1>9 DEF SizeLoadHead
<1>10. CASE SizeLoadTail
  BY <1>10 DEF SizeLoadTail
<1>11. CASE Use
  BY <1>11 DEF Use
<1>12. CASE PopDestroy
  BY <1>12 DEF PopDestroy
<1>13. CASE PopStore
  BY <1>13 DEF PopStore
<1>14. CASE Destroy
  BY <1>14 DEF Destroy
<1>15. CASE Free
  BY <1>15 DEF Free
<1>16. CASE UNCHANGED vars
  BY <1>16 DEF vars
<1>17. QED
  BY <1>1, <1>2, <1>3, <1>4, <1>5, <1>6, <1>7, <1>8, <1>9, <1>10, <1>11, <1>12, <1>13, <1>14, <1>15, <1>16
  DEF Next, ProducerStep, ConsumerStep, Freed


\* Every step keeps the lifetimes of the objects.
LEMMA NextSlotLifetimes == IInv /\ TypeOK' /\ [Next]_vars => SlotLifetimes'
<1> SUFFICES ASSUME IInv, TypeOK', [Next]_vars PROVE SlotLifetimes'
  OBVIOUS
<1> USE CapacityAssumption, RawAssumption DEF IInv, TypeOK, Slot, Succ, ProducerKnows, ConsumerKnows, SlotLifetimes, InUse, FirstLive, producerVars, consumerVars
<1>1. ASSUME NEW op \in Operations, NEW v \in Values, Enter(op, v) PROVE SlotLifetimes'
  BY <1>1 DEF Enter
<1>2. CASE FindSpace
  BY <1>2 DEF FindSpace, HasSpace
<1>3. CASE TryFails
  BY <1>3 DEF TryFails, HasSpace
<1>4. CASE Construct
  BY <1>4 DEF Construct
<1>5. CASE ConstructThrows
  BY <1>5 DEF ConstructThrows
<1>6. CASE Publish
  BY <1>6 DEF Publish
<1>7. ASSUME NEW v \in Values, FillCell(v) PROVE SlotLifetimes'
  BY <1>7 DEF FillCell
<1>8. CASE Front
  BY <1>8 DEF Front
<1>9. CASE SizeLoadHead
  BY <1>9 DEF SizeLoadHead
<1>10. CASE SizeLoadTail
  BY <1>10 DEF SizeLoadTail
<1>11. CASE Use
  BY <1>11 DEF Use
<1>12. CASE PopDestroy
  BY <1>12 DEF PopDestroy
<1>13. CASE PopStore
  BY <1>13 DEF PopStore
<1>14. CASE Destroy
  BY <1>14 DEF Destroy
<1>15. CASE Free
  BY <1>15 DEF Free
<1>16. CASE UNCHANGED vars
  BY <1>16 DEF vars
<1>17. QED
  BY <1>1, <1>2, <1>3, <1>4, <1>5, <1>6, <1>7, <1>8, <1>9, <1>10, <1>11, <1>12, <1>13, <1>14, <1>15, <1>16
  DEF Next, ProducerStep, ConsumerStep, Freed

\* The inductive invariant holds of every reachable state.
LEMMA IInvHolds == Spec => []IInv
<1>1. Init => IInv
  BY InitIInv
<1>2. IInv /\ [Next]_vars => IInv'
  <2> SUFFICES ASSUME IInv, [Next]_vars PROVE IInv'
    OBVIOUS
  <2>1. TypeOK'
    BY NextTypeOK DEF IInv
  <2>2. ProducerKnows' /\ ConsumerKnows' /\ SlotLifetimes'
    BY <2>1, NextProducerKnows, NextConsumerKnows, NextSlotLifetimes
  <2>3. QED
    BY <2>1, <2>2 DEF IInv
<1>3. QED
  BY <1>1, <1>2, PTL DEF Spec

\* The variables keep the types of the code, whatever the capacity.
THEOREM TypeCorrect == Spec => []TypeOK
<1>1. IInv => TypeOK
  BY DEF IInv
<1>2. QED
  BY <1>1, IInvHolds, PTL

\* Producer and consumer never touch the same slot at once.
THEOREM RaceFree == Spec => []NoDataRace
<1>1. IInv => NoDataRace
  BY DEF IInv, ConsumerKnows, NoDataRace
<1>2. QED
  BY <1>1, IInvHolds, PTL

\* A slot holds an object exactly when a value was pushed there and not popped.
THEOREM LifetimesCorrect == Spec => []SlotLifetimes
<1>1. IInv => SlotLifetimes
  BY DEF IInv
<1>2. QED
  BY <1>1, IInvHolds, PTL

\* What front() and front_no_check() return is an object.
THEOREM FrontIsLive == Spec => []HeldIsLive
<1>1. IInv => HeldIsLive
  BY CapacityAssumption
  DEF IInv, TypeOK, ConsumerKnows, SlotLifetimes, InUse, FirstLive, HeldIsLive, Slot
<1>2. QED
  BY <1>1, IInvHolds, PTL

------------------------------------------------------------------------------
(* The refinement: Queue is a sequence of values, a publication appends to   *)
(* it, the destruction in pop() takes its head, any other step leaves it.    *)

\* What the refinement needs of Queue: a sequence of at most Capacity - 1
\* values, the contents of the slots in use in the order of the ring.
QueueFacts ==
  /\ Count \in 0 .. Capacity - 1
  /\ Queue \in Seq(Values)
  /\ Len(Queue) = Count
  /\ \A k \in 1 .. Count : /\ After(FirstLive, k - 1) \in Slot
                           /\ InUse(After(FirstLive, k - 1))
                           /\ Queue[k] = slots[After(FirstLive, k - 1)]

\* Those facts follow from the inductive invariant.
LEMMA QueueIsSeq == IInv => QueueFacts
<1> SUFFICES ASSUME IInv PROVE QueueFacts
  OBVIOUS
<1>1. FirstLive \in Slot /\ headIndex \in Slot
  BY SuccSlot DEF IInv, TypeOK, FirstLive
<1>2. Count \in 0 .. Capacity - 1
  BY <1>1, CapacityAssumption DEF Count, Distance, Slot
<1>3. \A k \in 1 .. Count : /\ After(FirstLive, k - 1) \in Slot
                            /\ InUse(After(FirstLive, k - 1))
  BY <1>1, <1>2, CapacityAssumption DEF Count, Distance, Slot, After, InUse
<1>4. \A k \in 1 .. Count : slots[After(FirstLive, k - 1)] \in Values
  BY <1>3 DEF IInv, TypeOK, SlotLifetimes
<1>5. Queue \in [1 .. Count -> Values]
  BY <1>4 DEF Queue
<1>6. Queue \in Seq(Values) /\ Len(Queue) = Count
  BY <1>2, <1>5, SeqDef
<1>7. \A k \in 1 .. Count : Queue[k] = slots[After(FirstLive, k - 1)]
  BY DEF Queue
<1>8. QED
  BY <1>2, <1>3, <1>6, <1>7 DEF QueueFacts

\* A step that keeps the slots in use and both ends keeps the queue.
LEMMA QueueKept ==
  ASSUME IInv, FirstLive' = FirstLive, headIndex' = headIndex,
         \A i \in Slot : InUse(i) => slots'[i] = slots[i]
  PROVE  Queue' = Queue
<1>1. Count' = Count
  BY DEF Count
<1>2. \A k \in 1 .. Count :
         slots'[After(FirstLive, k - 1)] = slots[After(FirstLive, k - 1)]
  BY QueueIsSeq DEF QueueFacts
<1>3. QED
  BY <1>1, <1>2 DEF Queue

\* The store of headIndex_ appends the producer's value.
LEMMA PublishPushes == IInv /\ IInv' /\ Publish => Fifo!Push(arg)
<1> SUFFICES ASSUME IInv, IInv', Publish PROVE Fifo!Push(arg)
  OBVIOUS
<1>1. FirstLive \in Slot /\ FirstLive' = FirstLive /\ arg \in Values
  BY SuccSlot DEF IInv, TypeOK, ProducerKnows, FirstLive, Publish, consumerVars
<1>2. nextHead # FirstLive /\ nextHead = Succ(headIndex)
  BY SuccSlot, CapacityAssumption
  DEF IInv, TypeOK, ProducerKnows, ConsumerKnows, FirstLive, Publish, Succ, Slot
<1>3. Count' = Count + 1 /\ After(FirstLive, Count) = headIndex /\ Count < Capacity - 1
  BY <1>1, <1>2, CapacityAssumption
  DEF Count, Distance, After, Succ, Slot, Publish, IInv, TypeOK
<1>4. QueueFacts /\ QueueFacts'
  BY QueueIsSeq, PTL
<1>5. Append(Queue, arg) \in Seq(Values) /\ Len(Append(Queue, arg)) = Count'
  BY <1>1, <1>3, <1>4, AppendProperties DEF QueueFacts
<1>6. ASSUME NEW k \in 1 .. Count' PROVE Queue'[k] = Append(Queue, arg)[k]
  <2>1. Queue'[k] = slots[After(FirstLive, k - 1)]
    BY <1>1, <1>4 DEF QueueFacts, After, Publish
  <2>2. CASE k = Count + 1
    BY <1>1, <1>3, <1>4, <2>1, <2>2, AppendProperties
    DEF QueueFacts, IInv, ProducerKnows, Publish
  <2>3. CASE k # Count + 1
    BY <1>1, <1>3, <1>4, <2>1, <2>3, AppendProperties DEF QueueFacts
  <2>4. QED
    BY <2>2, <2>3
<1>7. Queue' = Append(Queue, arg)
  BY <1>4, <1>5, <1>6, SeqEqual DEF QueueFacts
<1>8. QED
  BY <1>3, <1>4, <1>7 DEF Fifo!Push, QueueFacts, Publish, consumerVars

\* The destruction of the object in pop() takes the head of the queue.
LEMMA DestroyPops == IInv /\ IInv' /\ PopDestroy => Fifo!Pop
<1> SUFFICES ASSUME IInv, IInv', PopDestroy PROVE Fifo!Pop
  OBVIOUS
<1>1. /\ FirstLive = tailIndex /\ FirstLive' = Succ(tailIndex)
      /\ headIndex # tailIndex
      /\ headIndex \in Slot /\ tailIndex \in Slot /\ headIndex' = headIndex
  BY DEF PopDestroy, FirstLive, IInv, TypeOK, ConsumerKnows, Succ
<1>2. Count > 0 /\ Count' = Count - 1
  BY <1>1, CapacityAssumption DEF Count, Distance, Succ, Slot
<1>3. QueueFacts /\ QueueFacts'
  BY QueueIsSeq, PTL
<1>4. Queue # <<>>
  BY <1>2, <1>3, EmptySeq DEF QueueFacts
<1>5. /\ Tail(Queue) \in Seq(Values) /\ Len(Tail(Queue)) = Count'
      /\ \A k \in 1 .. Count' : Tail(Queue)[k] = Queue[k + 1]
  BY <1>2, <1>3, <1>4, HeadTailProperties DEF QueueFacts
<1>6. ASSUME NEW k \in 1 .. Count' PROVE Queue'[k] = Tail(Queue)[k]
  <2>0. k \in Nat /\ 1 <= k /\ k < Capacity
    BY <1>2, <1>3, CapacityAssumption DEF QueueFacts
  <2>1. /\ After(Succ(tailIndex), k - 1) = After(tailIndex, k)
        /\ After(tailIndex, k) # tailIndex
    BY <2>0, <1>1, CapacityAssumption DEF After, Succ, Slot
  <2>2. Queue'[k] = slots'[After(tailIndex, k)]
    BY <1>1, <1>3, <2>1 DEF QueueFacts, After
  <2>3. Queue[k + 1] = slots[After(tailIndex, k)]
    BY <1>1, <1>2, <1>3 DEF QueueFacts
  <2>4. slots'[After(tailIndex, k)] = slots[After(tailIndex, k)]
    BY <2>1 DEF PopDestroy, IInv, TypeOK
  <2>5. QED
    BY <1>5, <2>2, <2>3, <2>4
<1>7. Queue' = Tail(Queue)
  BY <1>3, <1>5, <1>6, SeqEqual DEF QueueFacts
<1>8. QED
  BY <1>4, <1>7 DEF Fifo!Pop, PopDestroy

\* Reading through the pointer of front() reads the oldest value.
LEMMA UseReads == IInv /\ Use => Fifo!Read
<1> SUFFICES ASSUME IInv, Use PROVE Fifo!Read
  OBVIOUS
<1>1. FirstLive = tailIndex /\ FirstLive' = tailIndex /\ tailIndex \in Slot
  BY DEF Use, FirstLive, IInv, TypeOK
<1>2. QueueFacts
  BY QueueIsSeq
<1>3. Count > 0 /\ After(tailIndex, 0) = tailIndex
  BY <1>1, CapacityAssumption
  DEF Count, Distance, Use, IInv, TypeOK, ConsumerKnows, After, Slot
<1>4. Queue # <<>> /\ Head(Queue) = slots[tailIndex]
  BY <1>1, <1>2, <1>3 DEF QueueFacts
<1>5. Queue' = Queue
  BY <1>1, QueueKept DEF Use, producerVars
<1>6. QED
  BY <1>4, <1>5 DEF Fifo!Read, Use

\* Every step of the ring is a step of the queue or leaves it as it is.
LEMMA StepRefines == IInv /\ IInv' /\ [Next]_vars => [Fifo!Next]_(Fifo!vars)
<1> SUFFICES ASSUME IInv, IInv', [Next]_vars PROVE [Fifo!Next]_(Fifo!vars)
  OBVIOUS
<1> USE DEF Fifo!vars, producerVars, consumerVars
<1>1. ASSUME NEW op \in Operations, NEW v \in Values, Enter(op, v)
      PROVE UNCHANGED Fifo!vars
  BY <1>1, QueueKept DEF Enter, FirstLive
<1>2. CASE FindSpace \/ TryFails \/ ConstructThrows
  BY <1>2, QueueKept DEF FindSpace, TryFails, ConstructThrows, FirstLive
<1>3. CASE Construct
  <2>1. ~InUse(headIndex)
    BY <1>3, SuccSlot DEF Construct, InUse, FirstLive, Succ, Slot,
                IInv, TypeOK, ConsumerKnows, ProducerKnows, SlotLifetimes
  <2>2. QED
    BY <1>3, <2>1, QueueKept DEF Construct, FirstLive, IInv, TypeOK
<1>4. ASSUME NEW v \in Values, FillCell(v) PROVE UNCHANGED Fifo!vars
  <2>1. ~InUse(headIndex)
    BY <1>4, SuccSlot DEF FillCell, InUse, FirstLive, Succ, Slot,
                IInv, TypeOK, ConsumerKnows, ProducerKnows, SlotLifetimes
  <2>2. QED
    BY <1>4, <2>1, QueueKept DEF FillCell, FirstLive, IInv, TypeOK
<1>5. CASE Publish
  BY <1>5, PublishPushes DEF Fifo!Next, IInv, ProducerKnows, Publish
<1>6. CASE Front \/ SizeLoadHead \/ SizeLoadTail
  BY <1>6, QueueKept DEF Front, SizeLoadHead, SizeLoadTail, FirstLive
<1>7. CASE Use
  BY <1>7, UseReads DEF Fifo!Next
<1>8. CASE PopDestroy
  BY <1>8, DestroyPops DEF Fifo!Next
<1>9. CASE PopStore
  BY <1>9, QueueKept DEF PopStore, FirstLive
<1>10. CASE Destroy \/ Free
  BY <1>10, QueueKept DEF Destroy, Free, FirstLive
<1>11. CASE UNCHANGED vars
  BY <1>11, QueueKept DEF vars, FirstLive
<1>12. QED
  BY <1>1, <1>2, <1>3, <1>4, <1>5, <1>6, <1>7, <1>8, <1>9, <1>10, <1>11
  DEF Next, ProducerStep, ConsumerStep, Freed

\* The ring implements the bounded first-in first-out queue, for every
\* capacity and every element type.
THEOREM RefinesFifo == Spec => ImplementsFifo
<1>1. Init => Fifo!Init
  <2> SUFFICES ASSUME Init PROVE Fifo!Init
    OBVIOUS
  <2>1. Count = 0 /\ item = Raw
    BY DEF Init, Count, Distance, FirstLive
  <2>2. QueueFacts
    BY InitIInv, QueueIsSeq
  <2>3. Queue = <<>>
    BY <2>1, <2>2, EmptySeq DEF QueueFacts
  <2>4. QED
    BY <2>1, <2>3 DEF Fifo!Init
<1>2. IInv /\ IInv' /\ [Next]_vars => [Fifo!Next]_(Fifo!vars)
  BY StepRefines
<1>3. QED
  BY <1>1, <1>2, IInvHolds, PTL DEF Spec, ImplementsFifo, Fifo!Spec
==============================================================================
