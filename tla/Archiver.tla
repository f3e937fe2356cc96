------------------------------ MODULE Archiver ------------------------------
(* archiver.h: operator* of ArchiverWriter, ArchiverReader and ArchiverSizer *)
(* on each kind of type, and a checkpoint file saved and loaded with them.   *)
(* A byte is a pair <<value, index>>: byte index of the word that holds the  *)
(* value.  An object is a sequence of members; an unordered container is the *)
(* sequence in which its elements were inserted and are met by its iterator  *)
(* (an order nothing depends on), a stack its elements from the bottom up.   *)
EXTENDS Integers, Sequences, FiniteSets

CONSTANTS SizeT,    \* sizeof(size_t)
          IntMax,   \* of an int, as far as a checkpoint may reach it
          Samples   \* bound: a sequence of types, with the values tried of each

Word(w, v) == [i \in 1 .. w |-> <<v, i>>]
\* memcpy of w bytes out of b: the word's value, if they are one word's bytes.
Taken(w, b) == [val |-> IF \A i \in 1 .. w : b[i] = <<b[1][1], i>> THEN b[1][1] ELSE "torn",
                rest |-> SubSeq(b, w + 1, Len(b))]

\* The conversion of a size to an int.
AsInt(n) == ((n + IntMax + 1) % (2 * IntMax + 2)) - (IntMax + 1)

RECURSIVE Write(_, _), Read(_, _), Bytes(_, _)

\* Every element in turn: of type ts[i] for the i-th.
Each(t, n) == [i \in 1 .. n |-> t]
WriteEach(ts, s) == LET f[n \in 0 .. Len(s)] == IF n = 0 THEN <<>> ELSE f[n - 1] \o Write(ts[n], s[n])
                    IN f[Len(s)]
ReadEach(ts, b) ==
    LET f[k \in 0 .. Len(ts)] == IF k = 0 THEN [val |-> <<>>, rest |-> b]
                                 ELSE LET r == Read(ts[k], f[k - 1].rest)
                                      IN [val |-> Append(f[k - 1].val, r.val), rest |-> r.rest]
    IN f[Len(ts)]
BytesEach(ts, s) == LET f[n \in 0 .. Len(s)] == IF n = 0 THEN 0 ELSE f[n - 1] + Bytes(ts[n], s[n])
                    IN f[Len(s)]
Reverse(s) == [i \in 1 .. Len(s) |-> s[Len(s) + 1 - i]]

\* CHECKPOINT_SUPPORT_STRUCT and bool: the bytes of the value itself.
WritePrim(t, v) == Word(t.width, v)
ReadPrim(t, b) == Taken(t.width, b)
\* addSize takes an int: a longer run of bytes is counted modulo its span.
BytesPrim(t, v) == AsInt(t.width)

\* The vector of such a type: its size, then all elements in one copy.
WriteRaw(t, v) == Word(SizeT, Len(v)) \o WriteEach(Each(t.of, Len(v)), v)
ReadRaw(t, b) == LET s == Taken(SizeT, b) IN ReadEach(Each(t.of, s.val), s.rest)
BytesRaw(t, v) == AsInt(SizeT + Len(v) * t.of.width)

\* A C array: its elements only.
WriteArray(t, v) == WriteEach(Each(t.of, Len(v)), v)
ReadArray(t, b) == ReadEach(Each(t.of, t.n), b)
BytesArray(t, v) == BytesEach(Each(t.of, Len(v)), v)

WriteString(v) == Word(SizeT, Len(v)) \o WriteEach(Each([kind |-> "prim", width |-> 1], Len(v)), v)
ReadString(b) == LET s == Taken(SizeT, b)
                 IN ReadEach(Each([kind |-> "prim", width |-> 1], s.val), s.rest)
BytesString(v) == AsInt(SizeT + Len(v))

\* vector, deque and list: the size as an element of its own, then each one.
WriteCounted(t, v) == Write([kind |-> "prim", width |-> SizeT], Len(v)) \o WriteEach(Each(t.of, Len(v)), v)
ReadCounted(t, b) == LET s == Read([kind |-> "prim", width |-> SizeT], b)
                     IN ReadEach(Each(t.of, s.val), s.rest)
BytesCounted(t, v) == Bytes([kind |-> "prim", width |-> SizeT], Len(v)) + BytesEach(Each(t.of, Len(v)), v)

\* unordered_set: insert drops an element that is there.
ReadSet(t, b) ==
    LET r == ReadCounted(t, b)
        keep(i) == \A j \in 1 .. i - 1 : r.val[j] # r.val[i]
        f[n \in 0 .. Len(r.val)] == IF n = 0 THEN <<>> ELSE IF keep(n) THEN Append(f[n - 1], r.val[n]) ELSE f[n - 1]
    IN [r EXCEPT !.val = f[Len(r.val)]]

\* unordered_map and map: pairs of key and value, var[key] = value.
Pair(t) == [kind |-> "object", members |-> <<t.key, t.of>>]
WriteMap(t, v) == WriteCounted([of |-> Pair(t)], v)
ReadMap(t, b) ==
    LET r == ReadCounted([of |-> Pair(t)], b)
        last(i) == \A j \in i + 1 .. Len(r.val) : r.val[j][1] # r.val[i][1]
        f[n \in 0 .. Len(r.val)] == IF n = 0 THEN <<>> ELSE IF last(n) THEN Append(f[n - 1], r.val[n]) ELSE f[n - 1]
    IN [r EXCEPT !.val = f[Len(r.val)]]
BytesMap(t, v) == BytesCounted([of |-> Pair(t)], v)

\* stack: popped into a vector, so written from the top; read back from its end.
Popped(t) == [t EXCEPT !.kind = "vector"]
MutWriteStack(t, v) == Write(Popped(t), v)
WriteStack(t, v) == Write(Popped(t), Reverse(v))
ReadStack(t, b) == LET r == Read(Popped(t), b) IN [r EXCEPT !.val = Reverse(@)]
BytesStack(t, v) == Bytes([kind |-> "prim", width |-> SizeT], Len(v)) + BytesEach(Each(t.of, Len(v)), Reverse(v))

\* checkpoint_save, _load and _bytes of a class: its members, a base's first.
WriteObject(t, v) == WriteEach(t.members, v)
ReadObject(t, b) == ReadEach(t.members, b)
BytesObject(t, v) == BytesEach(t.members, v)

\* The overload C++ picks: a vector of a plain type is copied as a whole.
Overload(t) == IF t.kind = "vector" /\ t.of.kind = "prim" THEN "raw"
               ELSE IF t.kind \in {"vector", "deque", "list"} THEN "counted" ELSE t.kind
Write(t, v) == CASE Overload(t) = "prim" -> WritePrim(t, v)
                 [] Overload(t) = "raw" -> WriteRaw(t, v)
                 [] Overload(t) = "array" -> WriteArray(t, v)
                 [] Overload(t) = "string" -> WriteString(v)
                 [] Overload(t) \in {"counted", "set"} -> WriteCounted(t, v)
                 [] Overload(t) = "map" -> WriteMap(t, v)
                 [] Overload(t) = "stack" -> WriteStack(t, v)
                 [] Overload(t) = "object" -> WriteObject(t, v)
Read(t, b) == CASE Overload(t) = "prim" -> ReadPrim(t, b)
                [] Overload(t) = "raw" -> ReadRaw(t, b)
                [] Overload(t) = "array" -> ReadArray(t, b)
                [] Overload(t) = "string" -> ReadString(b)
                [] Overload(t) = "counted" -> ReadCounted(t, b)
                [] Overload(t) = "set" -> ReadSet(t, b)
                [] Overload(t) = "map" -> ReadMap(t, b)
                [] Overload(t) = "stack" -> ReadStack(t, b)
                [] Overload(t) = "object" -> ReadObject(t, b)
Bytes(t, v) == CASE Overload(t) = "prim" -> BytesPrim(t, v)
                 [] Overload(t) = "raw" -> BytesRaw(t, v)
                 [] Overload(t) = "array" -> BytesArray(t, v)
                 [] Overload(t) = "string" -> BytesString(v)
                 [] Overload(t) \in {"counted", "set"} -> BytesCounted(t, v)
                 [] Overload(t) = "map" -> BytesMap(t, v)
                 [] Overload(t) = "stack" -> BytesStack(t, v)
                 [] Overload(t) = "object" -> BytesObject(t, v)

-----------------------------------------------------------------------------
VARIABLES sample,   \* which of Samples is in use, 0 before one is
          object,   \* the program's value
          file,     \* the checkpoint: whether it exists, and its bytes
          buffer,   \* the writer's buffer
          stage,    \* idle; filled: the buffer is; opened: write_to_file has
                    \* opened, so emptied, the file; overrun: of a buffer
          meant,    \* history: the value the file was last opened for
          answer    \* what the last save or load returned
archiveVars == <<sample, object, file, buffer, stage, meant, answer>>

Init == /\ sample = 0 /\ object = "none" /\ file = [exists |-> FALSE, bytes |-> <<>>] /\ buffer = <<>>
        /\ stage = "idle" /\ meant = "none" /\ answer = 0

TypeInUse == Samples[sample].type
Declare == /\ sample = 0
           /\ sample' \in DOMAIN Samples
           /\ object' \in Samples[sample'].values
           /\ UNCHANGED <<file, buffer, stage, meant, answer>>

Idle == sample # 0 /\ stage = "idle"

Change == /\ Idle
          /\ object' \in Samples[sample].values
          /\ UNCHANGED <<sample, file, buffer, stage, meant, answer>>

\* The sizer's pass, alloc_mem and the writer's pass; nothing to save is 0.  The
\* total is a size_t: one below 0 is more than alloc_mem can get, and it throws.
SaveBegin ==
    /\ Idle
    /\ LET total == Bytes(TypeInUse, object)
           bytes == Write(TypeInUse, object)
       IN /\ total >= 0
          /\ IF total = 0 THEN answer' = 0 /\ UNCHANGED <<buffer, stage>>
             ELSE IF total < Len(bytes) THEN stage' = "overrun" /\ UNCHANGED <<buffer, answer>>
             ELSE buffer' = bytes /\ stage' = "filled" /\ UNCHANGED answer
    /\ UNCHANGED <<sample, object, file, meant>>

\* fopen "wb": the old checkpoint is gone; or the file cannot be opened.
SaveOpen == /\ stage = "filled"
            /\ stage' = "opened" /\ file' = [exists |-> TRUE, bytes |-> <<>>] /\ meant' = object
            /\ UNCHANGED <<sample, object, buffer, answer>>
SaveFails == /\ stage = "filled"
             /\ stage' = "idle" /\ buffer' = <<>> /\ answer' = -1
             /\ UNCHANGED <<sample, object, file, meant>>

\* fwrite's result is not looked at: on a full disk a save is cut and reported done.
Written == \E n \in 0 .. Len(buffer) : file' = [exists |-> TRUE, bytes |-> SubSeq(buffer, 1, n)]
SaveWrite == /\ stage = "opened" /\ Written
             /\ stage' = "idle" /\ buffer' = <<>> /\ answer' = AsInt(Len(buffer))
             /\ UNCHANGED <<sample, object, meant>>

\* The process is killed and starts again with any value.
Crash == /\ sample # 0
         /\ IF stage = "opened" THEN Written ELSE UNCHANGED file
         /\ object' \in Samples[sample].values /\ buffer' = <<>> /\ stage' = "idle" /\ answer' = 0
         /\ UNCHANGED <<sample, meant>>

\* load_checkpoint: no file, an empty one and one whose size is no positive int
\* are refused; one that was cut is read past the buffer's end.
Short == Len(file.bytes) < Len(Write(TypeInUse, meant))
Load == /\ Idle
        /\ IF AsInt(Len(file.bytes)) <= 0 THEN answer' = -1 /\ UNCHANGED <<object, stage>>
           ELSE IF Short THEN stage' = "overrun" /\ UNCHANGED <<object, answer>>
           ELSE LET r == Read(TypeInUse, file.bytes)
                IN object' = r.val /\ answer' = AsInt(Len(file.bytes) - Len(r.rest)) /\ UNCHANGED stage
        /\ UNCHANGED <<sample, file, buffer, meant>>

Next == Declare \/ Change \/ SaveBegin \/ SaveOpen \/ SaveFails \/ SaveWrite \/ Crash \/ Load
-----------------------------------------------------------------------------
TypeOK == /\ sample \in {0} \cup DOMAIN Samples
          /\ stage \in {"idle", "filled", "opened", "overrun"}
          /\ file.exists \in BOOLEAN /\ answer \in -(IntMax + 1) .. IntMax

(* For every kind of member, nested in any way: the sizer counts exactly the *)
(* bytes the writer then puts into the allocation (it checks no boundary) of *)
(* a value whose bytes an int can count, and a file that was not cut by a    *)
(* crash or a full disk gives back the value it was saved for and is read to *)
(* its last byte, whatever happened in between.                              *)
CheckpointRestores ==
    /\ sample # 0 /\ Len(Write(TypeInUse, object)) <= IntMax =>
          Len(Write(TypeInUse, object)) = Bytes(TypeInUse, object)
    /\ file.bytes # <<>> => Short \/ Read(TypeInUse, file.bytes) = [val |-> meant, rest |-> <<>>]
=============================================================================
