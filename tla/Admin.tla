------------------------------- MODULE Admin --------------------------------
(* The admin mailbox of admin.cpp: a file mapped by a server and a client, a *)
(* command and a return in it, each stored by strcpy and then stamped with   *)
(* the time.  A strcpy is two steps, and the n-th command is <<n, n>> so     *)
(* that a torn one shows; the server answers what it read, like the demo.    *)
EXTENDS Integers, FiniteSets

CONSTANTS MaxTime,  \* bound: the clock, in microseconds
          MaxCmds   \* bound: commands issued

VARIABLES time,
          box,      \* AdminShmData; pid is consumerPID, whose it is
          server,   \* last: last_cmd_time; doing: the command read; done: history, those read before in this life
          client,   \* link: how it mapped the file; cmd: the last it issued; got: the last answer
          owed,     \* history: the client stopped waiting without an answer
          astray    \* history: a command was issued while one was owed, or a server started with an answered one
adminVars == <<time, box, server, client, owed, astray>>

None == <<0, 0>>
NewServer == [pc |-> "down", last |-> 0, doing |-> None, done |-> {}]
NewClient == [pc |-> "idle", link |-> "none", cmd |-> 0, got |-> None]
Init == /\ time = 1 /\ owed = FALSE /\ astray = FALSE /\ server = NewServer /\ client = NewClient
        /\ box = [cmd |-> None, ret |-> None, cmdTime |-> 0, retTime |-> 0, pid |-> "none"]

Alive == box.pid = "client" \/ (box.pid = "server" /\ server.pc # "down")
Serves == server.pc # "down"

\* OpenForCreate of the server: an existing file keeps its command, and
\* last_cmd_time begins at 0.
OpenForCreate == /\ ~Serves /\ box' = [box EXCEPT !.pid = "server"]
                 /\ server' = [NewServer EXCEPT !.pc = "idle"]
                 /\ astray' = (astray \/ (box.cmdTime > 0 /\ (client.pc # "wait" \/ box.retTime > box.cmdTime)))
                 /\ UNCHANGED <<time, client, owed>>
ServerDown == Serves /\ server' = NewServer /\ UNCHANGED <<time, box, client, owed, astray>>

\* ReadCmd: the stamp is compared and kept before the command is copied.
Quiet == UNCHANGED <<time, client, owed, astray>>
MutReadTime == /\ server.pc = "idle" /\ box.cmdTime > server.last
               /\ server' = [server EXCEPT !.pc = "copy"] /\ UNCHANGED box /\ Quiet
ReadTime == /\ server.pc = "idle" /\ box.cmdTime > server.last
            /\ server' = [server EXCEPT !.pc = "copy", !.last = box.cmdTime] /\ UNCHANGED box /\ Quiet
CopyCmd == /\ server.pc = "copy" /\ UNCHANGED box /\ Quiet
           /\ server' = [server EXCEPT !.pc = "answer", !.doing = box.cmd,
                                       !.done = @ \cup {server.doing}]
WriteReturn == /\ server.pc \in {"answer", "half", "stamp"} /\ Quiet
               /\ LET pc == server.pc
                  IN /\ box' = [box EXCEPT !.ret = IF pc = "answer" THEN <<server.doing[1], @[2]>>
                                                   ELSE IF pc = "half" THEN server.doing ELSE @,
                                           !.retTime = IF pc = "stamp" THEN time ELSE @]
                     /\ server' = [server EXCEPT !.pc = [answer |-> "half", half |-> "stamp", stamp |-> "idle"][pc]]

\* The client: OpenForRead maps the file for reading, OpenForCreate for writing
\* too and takes consumerPID.
Asks == UNCHANGED <<time, server>>
OpenForRead == /\ client.link = "none" /\ box.pid # "none" /\ Asks
               /\ client' = [client EXCEPT !.link = "read"] /\ UNCHANGED <<box, owed, astray>>
ClientCreates == /\ client.link = "none" /\ Asks
                 /\ client' = [client EXCEPT !.link = "write"] /\ box' = [box EXCEPT !.pid = "client"]
                 /\ UNCHANGED <<owed, astray>>

\* A store through a mapping for reading ends the process.
IssueFaults == /\ client.link = "read" /\ client.pc = "idle" /\ Asks
               /\ client' = [client EXCEPT !.link = "none"] /\ UNCHANGED <<box, owed, astray>>
IssueCmd == /\ client.link = "write" /\ client.pc \in {"idle", "half", "stamp"} /\ Asks /\ UNCHANGED owed
            /\ client.pc = "idle" => client.cmd < MaxCmds
            /\ LET pc == client.pc
                   n == IF pc = "idle" THEN client.cmd + 1 ELSE client.cmd
               IN /\ client' = [client EXCEPT !.pc = [idle |-> "half", half |-> "stamp", stamp |-> "wait"][pc],
                                              !.cmd = n, !.got = None]
                  /\ box' = [box EXCEPT !.cmd = IF pc = "idle" THEN <<n, @[2]>> ELSE IF pc = "half" THEN <<n, n>> ELSE @,
                                        !.cmdTime = IF pc = "stamp" THEN time ELSE @]
            /\ astray' = (astray \/ owed)
ReadReturn == /\ client.pc = "wait" /\ Asks /\ UNCHANGED <<box, astray>>
              /\ \/ /\ box.retTime > box.cmdTime
                    /\ client' = [client EXCEPT !.pc = "idle", !.got = box.ret] /\ UNCHANGED owed
                 \/ /\ box.retTime <= box.cmdTime /\ ~Alive  \* "DIE"
                    /\ client' = [client EXCEPT !.pc = "idle"] /\ owed' = TRUE
ClientDown == /\ client.pc # "idle" /\ client' = [client EXCEPT !.pc = "idle", !.link = "none"]
              /\ owed' = TRUE /\ Asks /\ UNCHANGED <<box, astray>>

Tick == time < MaxTime /\ time' = time + 1 /\ UNCHANGED <<box, server, client, owed, astray>>

Next == \/ OpenForCreate \/ ServerDown \/ ReadTime \/ CopyCmd \/ WriteReturn \/ OpenForRead \/ ClientCreates
        \/ IssueFaults \/ IssueCmd \/ ReadReturn \/ ClientDown \/ Tick
-----------------------------------------------------------------------------
TypeOK == /\ time \in 1 .. MaxTime /\ box.cmdTime <= time /\ box.retTime <= time
          /\ server.pc \in {"down", "idle", "copy", "answer", "half", "stamp"}
          /\ client.pc \in {"idle", "half", "stamp", "wait"} /\ client.cmd <= MaxCmds

(* While each command is issued after the answer to the one before, and no   *)
(* server starts over an answered one, each life of a server reads whole     *)
(* commands in the order they were issued, none twice and none overlooked,   *)
(* and the client takes the answer to its own command for one, whatever the  *)
(* steps of the two, and when several happen in a microsecond.  A command    *)
(* whose server was killed before it stamped the answer is read again by the *)
(* next one.                                                                 *)
AnswersBelong ==
    ~astray =>
      /\ server.doing[1] = server.doing[2]
      /\ \A c \in server.done : c[1] < server.doing[1]
      /\ client.got # None => client.got = <<client.cmd, client.cmd>>
      /\ client.pc = "wait" /\ server.pc = "idle" /\ server.last >= box.cmdTime => box.ret = <<client.cmd, client.cmd>>
=============================================================================
