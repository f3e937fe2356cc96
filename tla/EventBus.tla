------------------------------ MODULE EventBus ------------------------------
(* event_bus.h: per event one vector of callbacks, all of the type of the    *)
(* first subscription.  fire_event walks the vector while the callbacks it   *)
(* calls may subscribe or fire events themselves, so firings are a stack of  *)
(* frames.  A frame keeps the vector's end and storage as they were when its *)
(* walk began; storage counts the times push_back has moved the vector.      *)
EXTENDS Integers, SequencesExt

CONSTANTS Event, Type, Callback,
          MaxCallbacks,  \* bound: callbacks of all events
          MaxDepth       \* bound: firings within firings

VARIABLES infos,      \* m_cb_infos: an event's callback type, or "none"
          callbacks,  \* m_cbs: an event's vector, with its capacity and storage
          frames,     \* the firings in progress, the innermost last
          heard       \* history: the callbacks each frame has called
busVars == <<infos, callbacks, frames, heard>>

NoVector == [type |-> "none", cbs |-> <<>>, capacity |-> 0, storage |-> 0]

Init == /\ infos = [e \in Event |-> "none"]
        /\ callbacks = [e \in Event |-> NoVector]
        /\ frames = <<>> /\ heard = <<>>

Top == frames[Len(frames)]
\* A walk whose vector has moved reads freed memory with its next step.
Dangling(f) == callbacks[f.event].storage # f.storage
Running == \A k \in 1 .. Len(frames) : ~Dangling(frames[k])
\* Whoever calls the bus: its owner, or the callback a firing is in.
Calls == Running /\ (frames # <<>> => Top.at > 1)

\* push_back: a full vector doubles and moves.
PushBack(v, c) == [v EXCEPT !.cbs = Append(@, c),
                            !.capacity = IF Len(v.cbs) < @ THEN @ ELSE IF @ = 0 THEN 1 ELSE 2 * @,
                            !.storage = IF Len(v.cbs) < v.capacity THEN @ ELSE @ + 1]

Room == MapThenSumSet(LAMBDA e : Len(callbacks[e].cbs), Event) < MaxCallbacks

Subscribe(e, y, c) ==
    /\ Calls
    /\ infos[e] \in {"none", y} /\ Room
    /\ infos' = [infos EXCEPT ![e] = y]
    /\ callbacks' = [callbacks EXCEPT ![e] = PushBack([@ EXCEPT !.type = y], c)]
    /\ UNCHANGED <<frames, heard>>

\* subscribe of another type and fire_event of another type throw, and an
\* exception no callback catches ends every firing in progress.
Throws(e, y) ==
    /\ Calls
    /\ \/ infos[e] \notin {"none", y}
       \/ callbacks[e].type \notin {"none", y}
    /\ frames' = <<>> /\ heard' = <<>>
    /\ UNCHANGED <<infos, callbacks>>

\* Nothing happens when nobody has subscribed.
Fire(e, y) ==
    /\ Calls /\ Len(frames) < MaxDepth /\ callbacks[e].type = y
    /\ frames' = Append(frames, [event |-> e, at |-> 1, end |-> Len(callbacks[e].cbs),
                                 storage |-> callbacks[e].storage, began |-> callbacks[e].cbs])
    /\ heard' = Append(heard, <<>>)
    /\ UNCHANGED <<infos, callbacks>>

MutCallNext ==  \* the walk goes to the end the vector has now
    /\ Running /\ frames # <<>> /\ Top.at <= Len(callbacks[Top.event].cbs)
    /\ heard' = [heard EXCEPT ![Len(frames)] = Append(@, callbacks[Top.event].cbs[Top.at])]
    /\ frames' = [frames EXCEPT ![Len(frames)].at = @ + 1]
    /\ UNCHANGED <<infos, callbacks>>
CallNext ==
    /\ Running /\ frames # <<>> /\ Top.at <= Top.end
    /\ heard' = [heard EXCEPT ![Len(frames)] = Append(@, callbacks[Top.event].cbs[Top.at])]
    /\ frames' = [frames EXCEPT ![Len(frames)].at = @ + 1]
    /\ UNCHANGED <<infos, callbacks>>

FireReturns ==
    /\ Running /\ frames # <<>> /\ Top.at > Top.end
    /\ frames' = SubSeq(frames, 1, Len(frames) - 1)
    /\ heard' = SubSeq(heard, 1, Len(frames) - 1)
    /\ UNCHANGED <<infos, callbacks>>

Next == \/ CallNext \/ FireReturns
        \/ \E e \in Event, y \in Type : Throws(e, y) \/ Fire(e, y)
        \/ \E e \in Event, y \in Type, c \in Callback : Subscribe(e, y, c)
-----------------------------------------------------------------------------
TypeOK == /\ infos \in [Event -> Type \cup {"none"}]
          /\ \A e \in Event : /\ Len(callbacks[e].cbs) \in 0 .. callbacks[e].capacity
                              /\ callbacks[e].type \in Type \cup {"none"}
          /\ Len(frames) \in 0 .. MaxDepth /\ Len(heard) = Len(frames)

(* While callbacks subscribe and fire events inside firings, each firing     *)
(* calls, in the order of subscription and once, the callbacks there were    *)
(* when it began; the walk breaks only in a firing of an event to which one  *)
(* of its own callbacks subscribed.  And the vector under an event has the   *)
(* type its first subscription recorded.                                     *)
HeardInOrder ==
    /\ \A k \in 1 .. Len(frames) :
          /\ IsPrefix(heard[k], frames[k].began) /\ Len(heard[k]) = frames[k].at - 1
          /\ Dangling(frames[k]) => Len(callbacks[frames[k].event].cbs) > frames[k].end /\ frames[k].at > 1
    /\ \A e \in Event : callbacks[e].type = infos[e]
=============================================================================
