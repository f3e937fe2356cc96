------------------------------ MODULE PidFile -------------------------------
(* proc.cpp: programs that keep their pid in a file and refuse to run twice. *)
(* A program calls EnsureOneInstance and then WriteProgramPid; it may end at *)
(* any time and leave the file.  The system gives an ended process' pid to   *)
(* another.                                                                  *)
EXTENDS Integers, FiniteSets

CONSTANTS Program,   \* the processes that run the program
          Stranger,  \* processes of other programs
          Pid,       \* the pids; not 0
          Cmdline    \* the command line of each process

VARIABLES pid,    \* the pid of each process, 0 while it does not run
          phase,  \* where a program is: "out", "start", "looked", "checked", "cleared" or "running"
          seen,   \* filePid, what it read
          pidFile,  \* the pid in the file, 0 for no file and for an empty one
          overlap, \* history: a program began while another was on the way to its pid
          mixed    \* history: one with another command line wrote the file while a program ran,
                   \* or a pid met a full disk
pidVars == <<pid, phase, seen, pidFile, overlap, mixed>>

Init == /\ pid = [p \in Program \cup Stranger |-> 0] /\ phase = [p \in Program |-> "out"]
        /\ seen = [p \in Program |-> 0] /\ pidFile = 0 /\ overlap = FALSE /\ mixed = FALSE

Owner(n) == {p \in DOMAIN pid : pid[p] = n}
Way(p) == phase[p] \in {"start", "looked", "checked", "cleared"}
Run(p, n) == pid[p] = 0 /\ Owner(n) = {} /\ pid' = [pid EXCEPT ![p] = n]
Move(p, from, to) == phase[p] = from /\ phase' = [phase EXCEPT ![p] = to]

StrangerRuns(p, n) == Run(p, n) /\ UNCHANGED <<phase, seen, pidFile, overlap, mixed>>
Start(p, n) == /\ Run(p, n) /\ Move(p, "out", "start") /\ UNCHANGED <<seen, pidFile, mixed>>
               /\ overlap' = (overlap \/ \E q \in Program : Way(q))

\* EnsureOneInstance: the file is read, then the process looked up.
GetProgramPid(p) == /\ Move(p, "start", "looked") /\ seen' = [seen EXCEPT ![p] = pidFile]
                    /\ UNCHANGED <<pid, pidFile, overlap, mixed>>
MutOnlyInstance(p) == \/ seen[p] = pid[p]
                      \/ Owner(seen[p]) = {} \/ seen[p] = 0
                      \/ \A q \in Owner(seen[p]) : Cmdline[q] = Cmdline[p]
OnlyInstance(p) == \/ seen[p] = pid[p]
                   \/ Owner(seen[p]) = {} \/ seen[p] = 0
                   \/ \A q \in Owner(seen[p]) : Cmdline[q] # Cmdline[p]
EnsureOneInstance(p) == /\ OnlyInstance(p) /\ Move(p, "looked", "checked")
                        /\ UNCHANGED <<pid, seen, pidFile, overlap, mixed>>

\* WriteProgramPid: open truncates the file (or it throws, and the program can
\* but end), close writes it.  Neither write nor close is checked: on a full
\* disk the file stays empty and the program goes on.
ClearFile(p) == /\ Move(p, "checked", "cleared") /\ pidFile' = 0 /\ UNCHANGED <<pid, seen, overlap>>
                /\ mixed' = (mixed \/ \E q \in Program : phase[q] = "running" /\ Cmdline[q] # Cmdline[p])
WriteProgramPid(p) == /\ Move(p, "cleared", "running") /\ UNCHANGED <<pid, seen, overlap>>
                      /\ \/ pidFile' = pid[p] /\ UNCHANGED mixed
                         \/ UNCHANGED pidFile /\ mixed' = TRUE

\* Also a program that was refused.
End(p) == /\ pid[p] # 0 /\ pid' = [pid EXCEPT ![p] = 0]
          /\ phase' = IF p \in Program THEN [phase EXCEPT ![p] = "out"] ELSE phase
          /\ seen' = IF p \in Program THEN [seen EXCEPT ![p] = 0] ELSE seen
          /\ UNCHANGED <<pidFile, overlap, mixed>>

Next == \/ \E p \in Program : GetProgramPid(p) \/ EnsureOneInstance(p) \/ ClearFile(p) \/ WriteProgramPid(p)
        \/ \E p \in Program, n \in Pid : Start(p, n)
        \/ \E p \in Stranger, n \in Pid : StrangerRuns(p, n)
        \/ \E p \in DOMAIN pid : End(p)
-----------------------------------------------------------------------------
TypeOK == pidFile \in Pid \cup {0} /\ \A p \in DOMAIN pid : pid[p] \in Pid \cup {0}

(* Programs that check one after the other, none with another command line   *)
(* writing the file meanwhile and every one that runs with its pid written,  *)
(* run once: whichever of them end, leave the file, and lose their pid to    *)
(* another process.                                                          *)
OneInstance ==
    ~overlap /\ ~mixed =>
       \A p, q \in Program : phase[p] = "running" /\ phase[q] = "running" /\ Cmdline[p] = Cmdline[q] => p = q
=============================================================================
