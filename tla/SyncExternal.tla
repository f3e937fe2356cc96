----------------------------- MODULE SyncExternal -----------------------------
(* script/sync_external.py: a run clones or updates every configured project *)
(* below one directory, with a pool of worker threads, then removes what is  *)
(* not configured, prunes the backups and prints a summary.  The directory   *)
(* outlives the runs; a run may be killed at any step.                       *)
(*                                                                           *)
(* A step is one git command or one change of the directory, and commands    *)
(* may fail.  Of a working tree the model keeps the commit checked out and   *)
(* whether git status finds changes; commits of a remote branch are numbered *)
(* and a pinned project wants the first.  Developers edit the trees, remotes *)
(* advance, and the configuration is edited between runs.  Local source      *)
(* directories are taken not to be git repositories themselves.              *)
EXTENDS Integers, FiniteSets

CONSTANTS Projects,    \* numbered in the alphabetical order of their names
          Configs,     \* the configurations a run may find
          Threads,     \* max_workers
          MaxBackups,  \* max_backups, 5 in main; with 0 the slice [:-0] would remove none
          MaxRuns,     \* bound: runs started
          MaxTip,      \* bound: commits of a remote branch
          MaxEdits     \* bound: edits by developers

\* What a configuration says of a project: "none" if it is not listed,
\* "pinned" for a git project with a commit, "link" or "copy" for a local
\* directory with and without use_symlink.
Kinds == {"none", "git", "pinned", "link", "copy", "archive"}

ASSUME ProjectsAssumption == Projects \subseteq Nat /\ IsFiniteSet(Projects)
ASSUME ConfigsAssumption == Configs \subseteq [Projects -> Kinds]
ASSUME BoundsAssumption == /\ Threads \in Nat \ {0} /\ MaxBackups \in Nat \ {0}
                           /\ MaxRuns \in Nat /\ MaxTip \in Nat \ {0} /\ MaxEdits \in Nat

VARIABLES tree,        \* what lies at dest_dir/<name>
          backups,     \* the .bak entries, each with what it holds
          tip,         \* the newest commit of each remote
          config,      \* the configuration of this run
          phase,       \* where main stands: "idle" when no run is going on
          pc,          \* where each project's clone_project stands
          status,      \* statuses[name][2]
          raised,      \* an exception left some clone_project
          summary,     \* what main has printed at the end
          runs, edits, \* history: how often a run started, a developer edited
          atStart      \* history: the tips when this run started

dirVars == <<tree, backups>>
jobVars == <<pc, status, raised>>
runVars == <<config, phase, summary, runs, atStart>>
vars == <<dirVars, tip, jobVars, runVars, edits>>

Dir(kind) == [kind |-> kind, head |-> 0, dirty |-> FALSE]
Absent == Dir("absent")
Part == Dir("other")     \* a part of a tree, or something that is no git tree
Repo(h, d) == [kind |-> "repo", head |-> h, dirty |-> d]
PinnedCommit == 1

\* The directory may hold anything before the first run.
Init == /\ tree \in [Projects -> {Absent, Part}]
        /\ backups = {} /\ tip = [p \in Projects |-> 1]
        /\ config = [p \in Projects |-> "none"] /\ phase = "idle" /\ summary = "none"
        /\ pc = [p \in Projects |-> "done"] /\ status = [p \in Projects |-> "none"]
        /\ raised = FALSE /\ runs = 0 /\ edits = 0 /\ atStart = tip

IsGit(p) == config[p] \in {"git", "pinned"}
Listed == {p \in Projects : config[p] # "none"}

------------------------------------------------------------------------------
\* main: every listed project is submitted to the pool.
StartRun(c) ==
  /\ phase = "idle" /\ runs < MaxRuns
  /\ config' = c /\ phase' = "sync" /\ summary' = "none"
  /\ pc' = [p \in Projects |-> IF c[p] = "none" THEN "done" ELSE "queued"]
  /\ status' = [p \in Projects |-> IF c[p] = "none" THEN "none" ELSE "Waiting..."]
  /\ raised' = FALSE /\ runs' = runs + 1 /\ atStart' = tip
  /\ UNCHANGED <<dirVars, tip, edits>>

Busy == {p \in Projects : pc[p] \notin {"queued", "done"}}

GoTo(p, l) == pc' = [pc EXCEPT ![p] = l] /\ UNCHANGED status
EndJob(p, s) == pc' = [pc EXCEPT ![p] = "done"] /\ status' = [status EXCEPT ![p] = s]
Put(p, t) == tree' = [tree EXCEPT ![p] = t] /\ UNCHANGED backups

\* A worker takes a project and finds out what its url names; projects are
\* listed in any order.  For an archive clone_project raises outside its try.
Begin(p) ==
  /\ pc[p] = "queued" /\ Cardinality(Busy) < Threads
  /\ GoTo(p, IF IsGit(p) THEN "look" ELSE IF config[p] = "archive" THEN "done" ELSE "clear")
  /\ raised' = (raised \/ config[p] = "archive")
  /\ UNCHANGED <<dirVars, tip, runVars, edits>>

\* is_git_repo: a git command that fails says no, so a repository may too.
FoundGit(p) == IF tree[p].kind = "repo" THEN BOOLEAN ELSE {FALSE}

\* Is there anything, and is it a git repository?
MutLookNoExists(p) ==
  /\ pc[p] = "look"
  /\ \E git \in FoundGit(p) : GoTo(p, IF git THEN "status" ELSE "backup")
  /\ UNCHANGED <<dirVars, tip, raised, runVars, edits>>
Look(p) ==
  /\ pc[p] = "look"
  /\ \/ tree[p] = Absent /\ GoTo(p, "clone")
     \/ tree[p] # Absent /\ \E git \in FoundGit(p) : GoTo(p, IF git THEN "status" ELSE "backup")
  /\ UNCHANGED <<dirVars, tip, raised, runVars, edits>>

\* update_repo: git status.  A tree with changes is skipped.
MutSkipWaits(p) ==
  /\ pc[p] = "status" /\ ~tree[p].dirty /\ GoTo(p, "fetch")
  /\ UNCHANGED <<dirVars, tip, raised, runVars, edits>>
CheckStatus(p) ==
  /\ pc[p] = "status"
  /\ \/ tree[p].dirty /\ EndJob(p, "Skipped (dirty)")
     \/ ~tree[p].dirty /\ GoTo(p, "fetch")
     \/ GoTo(p, "backup")
  /\ UNCHANGED <<dirVars, tip, raised, runVars, edits>>

\* git fetch and git checkout of what was fetched; each may fail.  A change
\* made since git status is carried along.
MutUpdateIgnoresError(p) ==
  /\ pc[p] = "fetch" /\ GoTo(p, "commit")
  /\ \/ Put(p, Repo(tip[p], tree[p].dirty))
     \/ UNCHANGED dirVars
  /\ UNCHANGED <<tip, raised, runVars, edits>>
Update(p) ==
  /\ pc[p] = "fetch"
  /\ \/ Put(p, Repo(tip[p], tree[p].dirty)) /\ GoTo(p, "commit")
     \/ UNCHANGED dirVars /\ GoTo(p, "backup")
  /\ UNCHANGED <<tip, raised, runVars, edits>>

\* What cannot be updated is moved out of the way, under a name that ends in
\* the time, here the number of the run.  The move may fail.
MutBackupRemoves(p) ==
  /\ pc[p] = "backup"
  /\ Put(p, Absent) /\ GoTo(p, "clone")
  /\ UNCHANGED <<tip, raised, runVars, edits>>
Backup(p) ==
  /\ pc[p] = "backup"
  /\ \/ /\ backups' = backups \cup {[project |-> p, run |-> runs, tree |-> tree[p]]}
        /\ tree' = [tree EXCEPT ![p] = Absent]
        /\ GoTo(p, "clone")
     \/ UNCHANGED dirVars /\ EndJob(p, "x Error")
  /\ UNCHANGED <<tip, raised, runVars, edits>>

\* git clone; one that fails removes what it has made.
Clone(p) ==
  /\ pc[p] = "clone"
  /\ \/ Put(p, Repo(tip[p], FALSE)) /\ GoTo(p, "commit")
     \/ UNCHANGED dirVars /\ EndJob(p, "x Error")
  /\ UNCHANGED <<tip, raised, runVars, edits>>

\* checkout_commit if a commit is configured, whose commands may fail, the one
\* that asks for the head included; then the final status.
CheckoutCommit(p) ==
  /\ pc[p] = "commit"
  /\ \/ /\ config[p] = "pinned" => tree[p].head = PinnedCommit
        /\ UNCHANGED dirVars /\ EndJob(p, "successfully!")
     \/ /\ config[p] = "pinned" /\ tree[p].head # PinnedCommit
        /\ Put(p, Repo(PinnedCommit, tree[p].dirty)) /\ EndJob(p, "successfully!")
     \/ config[p] = "pinned" /\ UNCHANGED dirVars /\ EndJob(p, "x Error")
  /\ UNCHANGED <<tip, raised, runVars, edits>>

\* process_local_project: what is there is removed, if the source exists; a
\* removal that fails may leave a part.
LocalClear(p) ==
  /\ pc[p] = "clear"
  /\ \/ Put(p, Absent) /\ GoTo(p, "place")
     \/ UNCHANGED dirVars /\ EndJob(p, "X Error")
     \/ tree[p].kind \in {"repo", "copy"} /\ Put(p, Part) /\ EndJob(p, "X Error")
  /\ UNCHANGED <<tip, raised, runVars, edits>>

\* A link is made at once ...
MakeLink(p) ==
  /\ pc[p] = "place" /\ config[p] = "link"
  /\ \/ Put(p, Dir("link")) /\ EndJob(p, "Linked")
     \/ UNCHANGED dirVars /\ EndJob(p, "X Error")
  /\ UNCHANGED <<tip, raised, runVars, edits>>

\* ... and a copy, with rsync or without, may fail halfway.
CopyTree(p) ==
  /\ pc[p] = "place" /\ config[p] = "copy"
  /\ \/ Put(p, Dir("copy")) /\ EndJob(p, "V Copied")
     \/ (\E t \in {Part, Absent} : Put(p, t)) /\ EndJob(p, "X Error")
  /\ UNCHANGED <<tip, raised, runVars, edits>>

Job(p) == \/ Begin(p) \/ Look(p) \/ CheckStatus(p) \/ Update(p) \/ Backup(p)
          \/ Clone(p) \/ CheckoutCommit(p)
          \/ LocalClear(p) \/ MakeLink(p) \/ CopyTree(p)

------------------------------------------------------------------------------
\* The pool is left when every job has ended, even if one has raised: then the
\* exception ends main.
LeavePool ==
  /\ phase = "sync" /\ \A p \in Projects : pc[p] = "done"
  /\ phase' = IF raised THEN "idle" ELSE "unused"
  /\ UNCHANGED <<dirVars, tip, jobVars, config, summary, runs, atStart, edits>>

Unused == {p \in Projects \ Listed : tree[p] # Absent}

\* cleanup_unused_dirs removes one entry after the other; backups stay.  A
\* removal that fails leaves a part or all, and the exception ends main.
RemoveUnused ==
  /\ phase = "unused" /\ UNCHANGED backups
  /\ \/ \E p \in Unused : tree' = [tree EXCEPT ![p] = Absent] /\ UNCHANGED phase
     \/ \E p \in Unused : \E t \in {tree[p], Part} :
          tree' = [tree EXCEPT ![p] = t] /\ phase' = "idle"
     \/ Unused = {} /\ phase' = "prune" /\ UNCHANGED tree
  /\ UNCHANGED <<tip, jobVars, config, summary, runs, atStart, edits>>

\* The order of the names: by project first and then by time.
SortsBefore(a, b) ==
  a.project < b.project \/ (a.project = b.project /\ a.run < b.run)
IsFirst(b) == \A a \in backups \ {b} : SortsBefore(b, a)

\* cleanup_old_backups removes the first in this order while there are too
\* many.  It cannot remove a link, and any removal may fail: that ends main.
MutPruneOffByOne ==
  /\ phase = "prune" /\ UNCHANGED tree
  /\ \/ /\ Cardinality(backups) > MaxBackups + 1
        /\ \E b \in backups : IsFirst(b) /\ backups' = backups \ {b}
        /\ UNCHANGED phase
     \/ /\ Cardinality(backups) <= MaxBackups + 1
        /\ phase' = "report" /\ UNCHANGED backups
  /\ UNCHANGED <<tip, jobVars, config, summary, runs, atStart, edits>>
Prune ==
  /\ phase = "prune" /\ UNCHANGED tree
  /\ \/ /\ Cardinality(backups) > MaxBackups
        /\ \E b \in backups : /\ IsFirst(b) /\ b.tree.kind # "link"
                              /\ backups' = backups \ {b}
        /\ UNCHANGED phase
     \/ /\ Cardinality(backups) > MaxBackups
        /\ phase' = "idle" /\ UNCHANGED backups
     \/ /\ Cardinality(backups) <= MaxBackups
        /\ phase' = "report" /\ UNCHANGED backups
  /\ UNCHANGED <<tip, jobVars, config, summary, runs, atStart, edits>>

\* The summary looks for a capital X in the statuses (no name or url has one).
Report ==
  /\ phase = "report" /\ phase' = "idle"
  /\ summary' = IF \E p \in Listed : status[p] = "X Error"
                THEN "Errors occurred" ELSE "All projects cloned successfully!"
  /\ UNCHANGED <<dirVars, tip, jobVars, config, runs, atStart, edits>>

\* What a command that is killed leaves of a tree.  git status sees the files
\* missing from a clone's working tree, unless no branch was set up yet.
Leftovers(p) ==
  CASE pc[p] = "clone" -> {Part, Repo(0, FALSE), Repo(tip[p], TRUE)}
    [] pc[p] = "fetch" -> {Repo(h, TRUE) : h \in {tree[p].head, tip[p]}}
    [] pc[p] = "commit" /\ config[p] = "pinned"
         -> {Repo(h, TRUE) : h \in {tree[p].head, PinnedCommit}}
    [] pc[p] = "clear" /\ tree[p] # Absent -> {Absent, Part}
    [] pc[p] = "place" /\ config[p] = "copy" -> {Part}
    [] OTHER -> {}

\* The run is killed.
Kill ==
  /\ phase # "idle" /\ phase' = "idle"
  /\ tree' \in {t \in [Projects -> UNION {{tree[p]} \cup Leftovers(p) : p \in Projects}] :
                  \A p \in Projects : t[p] \in {tree[p]} \cup Leftovers(p)}
  /\ pc' = [p \in Projects |-> "done"] /\ status' = [p \in Projects |-> "none"]
  /\ raised' = FALSE
  /\ UNCHANGED <<backups, tip, config, summary, runs, atStart, edits>>

------------------------------------------------------------------------------
(* The environment.                                                          *)

\* Somebody pushes to the remote branch of a project of the configuration.
Push(p) ==
  /\ IsGit(p) /\ tip[p] < MaxTip /\ tip' = [tip EXCEPT ![p] = @ + 1]
  /\ UNCHANGED <<dirVars, jobVars, runVars, edits>>

\* A developer changes a file of a tree, or takes the changes back.
Edit(p) ==
  /\ tree[p].kind = "repo" /\ edits < MaxEdits
  /\ Put(p, [tree[p] EXCEPT !.dirty = ~@])
  /\ edits' = edits + 1
  /\ UNCHANGED <<tip, jobVars, runVars>>

Main == LeavePool \/ RemoveUnused \/ Prune \/ Report

Next == \/ \E c \in Configs : StartRun(c)
        \/ \E p \in Projects : Job(p) \/ Push(p) \/ Edit(p)
        \/ Main \/ Kill

Spec == Init /\ [][Next]_vars

\* The commands end, so the worker threads and main go on.  Nothing is assumed
\* of the runs, the developers and the remotes.
FairSpec == Spec /\ WF_vars(Main) /\ \A p \in Projects : WF_vars(Job(p))

------------------------------------------------------------------------------
(* Correctness.                                                              *)

Trees == [kind : {"absent", "other", "link", "copy"}, head : {0}, dirty : {FALSE}]
           \cup [kind : {"repo"}, head : Nat, dirty : BOOLEAN]

\* The variables range over what the script can leave in them.
TypeOK ==
  /\ tree \in [Projects -> Trees]
  /\ backups \subseteq [project : Projects, run : 1..runs, tree : Trees \ {Absent}]
  /\ tip \in [Projects -> 1..MaxTip] /\ atStart \in [Projects -> 1..MaxTip]
  /\ config \in [Projects -> Kinds] /\ raised \in BOOLEAN
  /\ phase \in {"idle", "sync", "unused", "prune", "report"}
  /\ pc \in [Projects -> {"queued", "look", "status", "fetch", "backup", "clone",
                          "commit", "clear", "place", "done"}]
  /\ status \in [Projects -> {"none", "Waiting...", "Skipped (dirty)", "successfully!",
                              "x Error", "X Error", "Linked", "V Copied"}]
  /\ summary \in {"none", "Errors occurred", "All projects cloned successfully!"}
  /\ runs \in 0..MaxRuns /\ edits \in 0..MaxEdits

\* A final status that reports success is true of the directory: the tree is a
\* repository at the pinned commit, or at a commit no older than the remote was
\* when the run started, or the link or the complete copy is in place; through
\* the rest of the run and after it (clone_project, process_local_project).
StatusTrue ==
  \A p \in Projects :
    /\ status[p] = "successfully!" =>
         /\ tree[p].kind = "repo"
         /\ IF config[p] = "pinned" THEN tree[p].head = PinnedCommit
                                    ELSE tree[p].head >= atStart[p]
    /\ status[p] = "Linked" => tree[p].kind = "link"
    /\ status[p] = "V Copied" => tree[p].kind = "copy"

\* No step of a run destroys the uncommitted changes of a project configured
\* as a git repository: a tree with changes keeps them, or goes whole into a
\* backup.  Only its developer takes them back (update_repo, clone_project).
WorkKept ==
  [][\A p \in Projects :
       tree[p].dirty /\ IsGit(p) /\ edits' = edits =>
         \/ tree'[p].dirty
         \/ \E b \in backups' : b.project = p /\ b.tree = tree[p]]_vars

\* A run that gets as far as its summary has left nothing that is not listed
\* and no more backups than allowed (cleanup_unused_dirs, cleanup_old_backups).
Tidy ==
  summary # "none" => Unused = {} /\ Cardinality(backups) <= MaxBackups

\* A run ends, whatever fails in it: no job waits for another (main).
RunEnds == phase # "idle" ~> phase = "idle"

\* The summary says that all projects were cloned only when no project has
\* failed (main, the last message).
SummaryTrue ==
  summary = "All projects cloned successfully!" =>
    \A p \in Listed : status[p] \notin {"x Error", "X Error"}
==============================================================================
