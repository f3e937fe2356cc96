--------------------------------- MODULE Shm ---------------------------------
(* The file-backed shared memory of src/zerg/shm.cpp: one owner process      *)
(* creates the file with CreateShm, other processes map it with LinkShm.     *)
(*                                                                           *)
(* A step is one system call or one store to the mapping.  The stores to     *)
(* magic, date and size are plain stores with no call between them, which    *)
(* the compiler may reorder: they happen in any order.  The file outlives    *)
(* every process, so a crash leaves it as the last store left it.            *)
EXTENDS Integers

CONSTANT Days      \* the trading days the processes may be started on

ASSUME DaysAssumption == Days \subseteq Nat \ {0}

VARIABLES file,    \* "absent", "empty" (created, no bytes yet) or "sized"
          header,  \* the ShmHeader fields the checks read; size is 0 until stored
          pcO,     \* where the owner process stands
          todo,    \* the stores of the owner's current group that are not done
          dateO    \* the day the owner was started on

shmVars == <<file, header, pcO, todo, dateO>>

HeaderFields == {"magic", "date", "size"}
HeaderComplete == header.magic /\ header.size

ShmInit == /\ file = "absent"
           /\ header = [magic |-> FALSE, date |-> 0, size |-> FALSE]
           /\ pcO = "down" /\ todo = {} /\ dateO = 0

\* open(O_CREAT) of a file that is not there: it has no bytes yet.
CreateNew(d) ==
  /\ pcO = "down" /\ file = "absent"
  /\ file' = "empty" /\ pcO' = "truncate" /\ dateO' = d
  /\ UNCHANGED <<header, todo>>

\* ftruncate gives the file its bytes, all zero.
Truncate ==
  /\ pcO = "truncate"
  /\ file' = "sized" /\ pcO' = "header" /\ todo' = HeaderFields
  /\ UNCHANGED <<header, dateO>>

\* CreateShm of a file that is there keeps its bytes, if its size and magic are
\* the expected ones.  Otherwise the owner ends as it began: with an exception,
\* or by SIGBUS when the file has no bytes.
MutOpenReset(d) ==
  /\ pcO = "down" /\ file = "sized" /\ HeaderComplete
  /\ pcO' = "header" /\ todo' = HeaderFields /\ dateO' = d
  /\ header' = [magic |-> FALSE, date |-> 0, size |-> FALSE]
  /\ UNCHANGED file
OpenExisting(d) ==
  /\ pcO = "down" /\ file = "sized" /\ HeaderComplete
  /\ pcO' = "header" /\ todo' = HeaderFields /\ dateO' = d
  /\ UNCHANGED <<file, header>>

\* One of the header's stores; the last one ends CreateShm.
StoreHeader(f) ==
  /\ pcO = "header" /\ f \in todo
  /\ header' = [header EXCEPT ![f] = IF f = "date" THEN dateO ELSE TRUE]
  /\ IF todo = {f} THEN pcO' = "topic" /\ todo' = {"topic_size", "topic_n"}
                   ELSE pcO' = pcO /\ todo' = todo \ {f}
  /\ UNCHANGED <<file, dateO>>

\* LinkShm returns a usable mapping.  Without magic or with another date it
\* throws; the other failures end the process: SIGBUS on a file without bytes,
\* a null mapping, which the callers use unchecked, when size is still 0.
Links(d) == file = "sized" /\ HeaderComplete /\ header.date = d

\* Once complete, a header stays complete: no restart of the owner makes a
\* channel impossible to link or to create again.
HeaderStays == [][HeaderComplete => HeaderComplete']_shmVars
==============================================================================
