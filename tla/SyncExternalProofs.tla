-------------------------- MODULE SyncExternalProofs --------------------------
(* SyncExternal for every set of projects, configurations, threads and       *)
(* backups: statuses are true, uncommitted work is kept, runs leave the      *)
(* directory tidy.                                                           *)
EXTENDS SyncExternal, TLAPS

\* Where a job stands, the statuses, and what a backup is.
Places == {"queued", "look", "status", "fetch", "backup", "clone", "commit", "clear", "place", "done"}
Statuses == {"none", "Waiting...", "Skipped (dirty)", "successfully!",
             "x Error", "X Error", "Linked", "V Copied"}
Kept == [project : Projects, run : 1..runs, tree : Trees \ {Absent}]

\* TypeOK in parts.
JobTypes == /\ tree \in [Projects -> Trees] /\ backups \subseteq Kept
            /\ pc \in [Projects -> Places] /\ status \in [Projects -> Statuses]
            /\ raised \in BOOLEAN
RunTypes == /\ tip \in [Projects -> 1..MaxTip] /\ atStart \in [Projects -> 1..MaxTip]
            /\ config \in [Projects -> Kinds]
            /\ phase \in {"idle", "sync", "unused", "prune", "report"}
            /\ summary \in {"none", "Errors occurred", "All projects cloned successfully!"}
            /\ runs \in 0..MaxRuns /\ edits \in 0..MaxEdits

\* The status of p is true of the directory.
Truthful(p) ==
  /\ status[p] = "successfully!" =>
       /\ tree[p].kind = "repo"
       /\ IF config[p] = "pinned" THEN tree[p].head = PinnedCommit
                                  ELSE tree[p].head >= atStart[p]
  /\ status[p] = "Linked" => tree[p].kind = "link"
  /\ status[p] = "V Copied" => tree[p].kind = "copy"

\* What the place of p in its job says of its tree and its configuration.
JobInv(p) ==
  /\ pc[p] # "done" => phase = "sync" /\ runs >= 1 /\ status[p] = "Waiting..." /\ config[p] # "none"
  /\ pc[p] \in {"look", "status", "fetch", "backup", "clone", "commit"} => IsGit(p)
  /\ pc[p] \in {"clear", "place"} => config[p] \in {"link", "copy"}
  /\ pc[p] \in {"status", "fetch", "commit"} => tree[p].kind = "repo"
  /\ pc[p] = "backup" => tree[p] # Absent
  /\ pc[p] = "clone" => tree[p] = Absent
  /\ pc[p] = "commit" => tree[p].head >= atStart[p]
  /\ config[p] = "none" => status[p] = "none"
  /\ tip[p] >= atStart[p]
  /\ Truthful(p)

\* How far main has tidied up.
MainInv ==
  /\ phase # "idle" => summary = "none"
  /\ phase \in {"prune", "report"} \/ summary # "none" => Unused = {}
  /\ phase = "report" \/ summary # "none" => Cardinality(backups) <= MaxBackups

SyncInv == JobTypes /\ RunTypes /\ (\A p \in Projects : JobInv(p)) /\ MainInv

------------------------------------------------------------------------------
(* What can lie in the directory.                                            *)

\* The constructors make trees.
LEMMA TreeFacts ==
  /\ Absent \in Trees /\ Part \in Trees /\ Dir("link") \in Trees /\ Dir("copy") \in Trees
  /\ Absent.kind = "absent" /\ Dir("link").kind = "link" /\ Dir("copy").kind = "copy"
  /\ \A h \in Nat, d \in BOOLEAN :
       /\ Repo(h, d) \in Trees /\ Repo(h, d).kind = "repo"
       /\ Repo(h, d).head = h /\ Repo(h, d).dirty = d
  BY DEF Absent, Part, Dir, Repo, Trees

\* Only a repository can have changes.
LEMMA TreeParts ==
  \A t \in Trees : /\ t.dirty \in BOOLEAN /\ t.head \in Nat
                   /\ t.dirty => t.kind = "repo"
<1> TAKE t \in Trees
<1>1. CASE t \in [kind : {"absent", "other", "link", "copy"}, head : {0}, dirty : {FALSE}]
  <2>1. t.head = 0 /\ t.dirty = FALSE
    BY <1>1
  <2>2. ~t.dirty
    BY <2>1, Zenon
  <2>3. t.head \in Nat
    BY <2>1
  <2>4. t.dirty \in BOOLEAN
    BY <2>1, Zenon
  <2> QED BY <2>2, <2>3, <2>4
<1>2. CASE t \in [kind : {"repo"}, head : Nat, dirty : BOOLEAN]
  BY <1>2
<1> QED BY <1>1, <1>2 DEF Trees

\* An edit changes nothing but dirty.
LEMMA Edited ==
  ASSUME NEW t \in Trees, t.kind = "repo"
  PROVE LET u == [t EXCEPT !.dirty = ~@]
        IN u \in Trees /\ u.kind = "repo" /\ u.head = t.head
<1>1. t \in [kind : {"repo"}, head : Nat, dirty : BOOLEAN]
  BY DEF Trees
<1> QED BY <1>1 DEF Trees

\* The parts are the whole.
LEMMA Types == /\ TypeOK <=> JobTypes /\ RunTypes
               /\ TypeOK' <=> JobTypes' /\ RunTypes'
  BY DEF TypeOK, JobTypes, RunTypes, Kept, Places, Statuses

\* Before the first run nothing is listed and nothing goes on.
LEMMA InitInv == Init => SyncInv
<1> SUFFICES ASSUME Init PROVE SyncInv
  OBVIOUS
<1> USE DEF Init
<1>1. JobTypes
  BY TreeFacts DEF JobTypes, Places, Statuses
<1>2. RunTypes
  BY BoundsAssumption DEF RunTypes, Kinds
<1>3. ASSUME NEW p \in Projects PROVE JobInv(p)
  BY <1>3 DEF JobInv, Truthful
<1>4. MainInv
  BY DEF MainInv
<1> QED BY <1>1, <1>2, <1>3, <1>4 DEF SyncInv

------------------------------------------------------------------------------
(* The jobs.                                                                 *)

\* A step of the job of p, as the others and main see it.
OnlyAt(p) ==
  /\ \A q \in Projects \ {p} : tree'[q] = tree[q] /\ pc'[q] = pc[q] /\ status'[q] = status[q]
  /\ UNCHANGED <<tip, config, phase, summary, runs, atStart, edits>>

\* The others' jobs and main do not notice it.
LEMMA JobAlone ==
  ASSUME SyncInv, NEW p \in Projects, pc[p] # "done", OnlyAt(p), JobTypes', JobInv(p)'
  PROVE SyncInv'
<1>1. RunTypes'
  BY DEF SyncInv, RunTypes, OnlyAt
<1>2. ASSUME NEW q \in Projects PROVE JobInv(q)'
  <2>1. CASE q = p
    BY <2>1
  <2>2. CASE q # p
    BY <2>2 DEF OnlyAt, SyncInv, JobInv, Truthful, IsGit
  <2> QED BY <2>1, <2>2
<1>3. MainInv'
  <2>1. phase = "sync" /\ summary = "none"
    BY DEF SyncInv, JobInv, MainInv
  <2> QED BY <2>1 DEF OnlyAt, MainInv
<1> QED BY <1>1, <1>2, <1>3 DEF SyncInv

\* Steps that leave the directory alone.
LEMMA LooksInv ==
  ASSUME SyncInv, NEW p \in Projects, Begin(p) \/ Look(p) \/ CheckStatus(p)
  PROVE SyncInv'
<1> USE DEF GoTo, EndJob, dirVars, runVars
<1>1. pc[p] # "done" /\ JobTypes /\ JobInv(p) /\ config[p] \in Kinds /\ tree' = tree /\ backups' = backups
  BY DEF SyncInv, RunTypes, Begin, Look, CheckStatus
<1>2. JobTypes'
  BY <1>1 DEF JobTypes, Kept, Places, Statuses, Begin, Look, CheckStatus
<1>3. OnlyAt(p)
  BY <1>1 DEF JobTypes, OnlyAt, Begin, Look, CheckStatus
<1>4. CASE Begin(p)
  <2>1. JobInv(p)'
    BY <1>1, <1>4 DEF JobTypes, Begin, JobInv, Truthful, IsGit, Kinds
  <2> QED BY <1>1, <1>2, <1>3, <2>1, JobAlone
<1>5. CASE Look(p)
  <2>1. JobInv(p)'
    BY <1>1, <1>5 DEF JobTypes, Look, FoundGit, JobInv, Truthful, IsGit
  <2> QED BY <1>1, <1>2, <1>3, <2>1, JobAlone
<1>6. CASE CheckStatus(p)
  <2>1. tree[p] # Absent
    BY <1>1, <1>6, TreeFacts DEF CheckStatus, JobInv
  <2>2. JobInv(p)'
    BY <1>1, <1>6, <2>1 DEF JobTypes, CheckStatus, JobInv, Truthful, IsGit
  <2> QED BY <1>1, <1>2, <1>3, <2>2, JobAlone
<1> QED BY <1>4, <1>5, <1>6

\* Fetching, moving out of the way and cloning.
LEMMA FetchInv ==
  ASSUME SyncInv, NEW p \in Projects, Update(p) \/ Backup(p) \/ Clone(p)
  PROVE SyncInv'
<1> USE DEF GoTo, EndJob, Put, dirVars, runVars
<1>1. /\ pc[p] # "done" /\ JobTypes /\ JobInv(p) /\ tree[p] \in Trees
      /\ tip[p] \in Nat /\ atStart[p] \in Nat /\ tip[p] >= atStart[p]
  <2>1. pc[p] # "done" /\ JobTypes /\ JobInv(p)
    BY DEF SyncInv, Update, Backup, Clone
  <2>2. tip[p] \in 1..MaxTip /\ atStart[p] \in 1..MaxTip
    BY DEF SyncInv, RunTypes
  <2> QED BY <2>1, <2>2, BoundsAssumption DEF JobTypes, JobInv
<1>2. OnlyAt(p)
  BY <1>1 DEF JobTypes, OnlyAt, Update, Backup, Clone
<1>3. CASE Update(p)
  <2>1. Repo(tip[p], tree[p].dirty) \in Trees
    BY <1>1, TreeFacts, TreeParts
  <2>2. JobTypes'
    BY <1>1, <1>3, <2>1 DEF JobTypes, Kept, Places, Statuses, Update
  <2>3. tree[p] # Absent
    BY <1>1, <1>3, TreeFacts DEF Update, JobInv
  <2>4. JobInv(p)'
    <3>1. CASE tree' = [tree EXCEPT ![p] = Repo(tip[p], tree[p].dirty)] /\ pc' = [pc EXCEPT ![p] = "commit"]
      <4>1. tree'[p].kind = "repo" /\ tree'[p].head = tip[p] /\ pc'[p] = "commit"
        BY <1>1, <3>1, TreeFacts, TreeParts DEF JobTypes
      <4> QED BY <1>1, <1>3, <4>1 DEF Update, JobInv, Truthful, IsGit
    <3>2. CASE tree' = tree /\ pc' = [pc EXCEPT ![p] = "backup"]
      BY <1>1, <1>3, <2>3, <3>2 DEF JobTypes, Update, JobInv, Truthful, IsGit
    <3> QED BY <1>3, <3>1, <3>2 DEF Update
  <2> QED BY <1>1, <1>2, <2>2, <2>4, JobAlone
<1>4. CASE Backup(p)
  <2>1. [project |-> p, run |-> runs, tree |-> tree[p]] \in Kept'
    <3>1. runs \in 1..runs /\ tree[p] # Absent /\ runs' = runs
      <4>1. runs \in 0..MaxRuns
        BY DEF SyncInv, RunTypes
      <4>2. runs >= 1 /\ tree[p] # Absent /\ runs' = runs
        BY <1>1, <1>4 DEF JobInv, Backup
      <4> QED BY <4>1, <4>2, BoundsAssumption
    <3> QED BY <1>1, <3>1 DEF Kept
  <2>2. JobTypes'
    <3>1. runs' = runs /\ Kept' = Kept
      BY <1>4 DEF Kept, Backup
    <3>2. tree' \in [Projects -> Trees] /\ backups' \subseteq Kept'
      BY <1>1, <1>4, <2>1, <3>1, TreeFacts DEF JobTypes, Backup
    <3>3. pc' \in [Projects -> Places] /\ status' \in [Projects -> Statuses] /\ raised' \in BOOLEAN
      BY <1>1, <1>4 DEF JobTypes, Places, Statuses, Backup
    <3> QED BY <3>2, <3>3 DEF JobTypes
  <2>3. JobInv(p)'
    BY <1>1, <1>4 DEF JobTypes, Backup, JobInv, Truthful, IsGit
  <2> QED BY <1>1, <1>2, <2>2, <2>3, JobAlone
<1>5. CASE Clone(p)
  <2>1. Repo(tip[p], FALSE) \in Trees
    BY <1>1, TreeFacts
  <2>2. JobTypes'
    BY <1>1, <1>5, <2>1 DEF JobTypes, Kept, Places, Statuses, Clone
  <2>3. JobInv(p)'
    <3>1. CASE Put(p, Repo(tip[p], FALSE)) /\ GoTo(p, "commit")
      <4>1. tree'[p].kind = "repo" /\ tree'[p].head = tip[p] /\ pc'[p] = "commit"
        BY <1>1, <3>1, TreeFacts DEF JobTypes
      <4>2. pc[p] = "clone" /\ UNCHANGED <<config, atStart, tip, phase, runs, status>>
        BY <1>5, <3>1 DEF Clone
      <4> QED BY <1>1, <4>1, <4>2 DEF JobInv, Truthful, IsGit
    <3>2. CASE tree' = tree /\ EndJob(p, "x Error")
      BY <1>1, <1>5, <3>2 DEF JobTypes, Clone, JobInv, Truthful, IsGit
    <3> QED BY <1>5, <3>1, <3>2 DEF Clone
  <2> QED BY <1>1, <1>2, <2>2, <2>3, JobAlone
<1> QED BY <1>3, <1>4, <1>5

\* The pinned commit is checked out, and the job ends.
LEMMA CheckoutInv ==
  ASSUME SyncInv, NEW p \in Projects, CheckoutCommit(p)
  PROVE SyncInv'
<1> USE DEF EndJob, Put, dirVars, runVars
<1>1. /\ pc[p] = "commit" /\ JobTypes /\ JobInv(p) /\ tree[p] \in Trees /\ tree[p].kind = "repo"
  BY DEF SyncInv, JobTypes, JobInv, CheckoutCommit
<1>2. OnlyAt(p)
  BY <1>1 DEF JobTypes, OnlyAt, CheckoutCommit
<1>3. Repo(PinnedCommit, tree[p].dirty) \in Trees
  BY <1>1, TreeFacts, TreeParts DEF PinnedCommit
<1>4. JobTypes'
  BY <1>1, <1>3 DEF JobTypes, Kept, Places, Statuses, CheckoutCommit
<1>5. /\ pc'[p] = "done" /\ status'[p] \in {"successfully!", "x Error"}
      /\ UNCHANGED <<config, atStart, tip>>
      /\ status'[p] = "successfully!" =>
           /\ tree'[p].kind = "repo"
           /\ tree'[p] = tree[p] \/ (config[p] = "pinned" /\ tree'[p].head = PinnedCommit)
           /\ config[p] = "pinned" => tree'[p].head = PinnedCommit
  <2>1. CASE /\ config[p] = "pinned" => tree[p].head = PinnedCommit
             /\ UNCHANGED dirVars /\ EndJob(p, "successfully!")
    BY <1>1, <2>1 DEF JobTypes, CheckoutCommit
  <2>2. CASE /\ config[p] = "pinned" /\ Put(p, Repo(PinnedCommit, tree[p].dirty))
             /\ EndJob(p, "successfully!")
    <3>1. Repo(PinnedCommit, tree[p].dirty).kind = "repo" /\ Repo(PinnedCommit, tree[p].dirty).head = PinnedCommit
      BY <1>1, TreeFacts, TreeParts DEF PinnedCommit
    <3>2. tree'[p] = Repo(PinnedCommit, tree[p].dirty)
      BY <1>1, <2>2 DEF JobTypes
    <3> QED BY <1>1, <2>2, <3>1, <3>2 DEF JobTypes, CheckoutCommit
  <2>3. CASE EndJob(p, "x Error")
    BY <1>1, <2>3 DEF JobTypes, CheckoutCommit
  <2> QED BY <2>1, <2>2, <2>3 DEF CheckoutCommit
<1>6. JobInv(p)'
  BY <1>1, <1>5 DEF JobInv, Truthful, IsGit
<1> QED BY <1>1, <1>2, <1>4, <1>6, JobAlone

\* A local directory is linked or copied.
LEMMA LocalInv ==
  ASSUME SyncInv, NEW p \in Projects, LocalClear(p) \/ MakeLink(p) \/ CopyTree(p)
  PROVE SyncInv'
<1> USE DEF GoTo, EndJob, Put, dirVars, runVars
<1>1. /\ pc[p] \in {"clear", "place"} /\ JobTypes /\ JobInv(p)
  BY DEF SyncInv, LocalClear, MakeLink, CopyTree
<1>2. OnlyAt(p)
  BY <1>1 DEF JobTypes, OnlyAt, LocalClear, MakeLink, CopyTree
<1>3. JobTypes'
  <2>1. backups' \subseteq Kept' /\ raised' \in BOOLEAN
    BY <1>1 DEF JobTypes, Kept, LocalClear, MakeLink, CopyTree
  <2>2. tree' \in [Projects -> Trees]
    <3>1. tree' = tree \/ \E t \in Trees : tree' = [tree EXCEPT ![p] = t]
      BY TreeFacts DEF LocalClear, MakeLink, CopyTree
    <3> QED BY <1>1, <3>1 DEF JobTypes
  <2>3. pc' \in [Projects -> Places] /\ status' \in [Projects -> Statuses]
    BY <1>1 DEF JobTypes, Places, Statuses, LocalClear, MakeLink, CopyTree
  <2> QED BY <2>1, <2>2, <2>3 DEF JobTypes
<1>4. CASE LocalClear(p)
  <2>1. /\ UNCHANGED <<config, atStart, tip, phase, runs>>
        /\ \/ pc'[p] = "place" /\ status'[p] = status[p]
           \/ pc'[p] = "done" /\ status'[p] = "X Error"
    BY <1>1, <1>4 DEF JobTypes, LocalClear
  <2>2. JobInv(p)'
    BY <1>1, <2>1 DEF JobInv, Truthful, IsGit
  <2> QED BY <1>1, <1>2, <1>3, <2>2, JobAlone
<1>5. CASE MakeLink(p) \/ CopyTree(p)
  <2>1. /\ UNCHANGED <<config, atStart, tip>> /\ pc'[p] = "done"
        /\ \/ status'[p] = "X Error"
           \/ status'[p] = "Linked" /\ tree'[p].kind = "link"
           \/ status'[p] = "V Copied" /\ tree'[p].kind = "copy"
    BY <1>1, <1>5, TreeFacts DEF JobTypes, MakeLink, CopyTree
  <2>2. JobInv(p)'
    BY <1>1, <2>1 DEF JobInv, Truthful, IsGit
  <2> QED BY <1>1, <1>2, <1>3, <2>2, JobAlone
<1> QED BY <1>4, <1>5

------------------------------------------------------------------------------
(* Main, the kill and the environment.                                       *)

\* A run begins: every project waits.
LEMMA StartInv ==
  ASSUME SyncInv, NEW c \in Configs, StartRun(c)
  PROVE SyncInv'
<1> USE DEF StartRun, dirVars
<1>1. c \in [Projects -> Kinds] /\ runs' = runs + 1 /\ runs \in 0..MaxRuns /\ runs < MaxRuns
  BY ConfigsAssumption DEF SyncInv, RunTypes
<1>2. JobTypes'
  <2>1. Kept \subseteq Kept'
    BY <1>1, BoundsAssumption DEF Kept
  <2> QED BY <2>1 DEF SyncInv, JobTypes, Places, Statuses
<1>3. RunTypes'
  <2>1. runs' \in 0..MaxRuns
    BY <1>1, BoundsAssumption
  <2> QED BY <1>1, <2>1 DEF SyncInv, RunTypes
<1>4. ASSUME NEW p \in Projects PROVE JobInv(p)'
  <2>1. atStart'[p] = tip[p] /\ tip'[p] = tip[p] /\ tip[p] \in 1..MaxTip
    BY DEF SyncInv, RunTypes
  <2>2. /\ \/ c[p] = "none" /\ pc'[p] = "done" /\ status'[p] = "none"
           \/ c[p] # "none" /\ pc'[p] = "queued" /\ status'[p] = "Waiting..."
        /\ runs' >= 1
    BY <1>1, BoundsAssumption
  <2> QED BY <2>1, <2>2, BoundsAssumption DEF JobInv, Truthful
<1>5. MainInv'
  BY DEF MainInv
<1> QED BY <1>2, <1>3, <1>4, <1>5 DEF SyncInv

\* While main goes on after the pool, every job has ended.
LEMMA AllEnded ==
  SyncInv /\ phase # "sync" => \A p \in Projects : pc[p] = "done"
  BY DEF SyncInv, JobInv

\* main leaves the pool, prunes the backups, and prints its summary.
LEMMA MainStepInv == SyncInv /\ (LeavePool \/ Prune \/ Report) => SyncInv'
<1> SUFFICES ASSUME SyncInv, LeavePool \/ Prune \/ Report PROVE SyncInv'
  OBVIOUS
<1> USE DEF dirVars, jobVars
<1>1. /\ UNCHANGED <<tree, tip, pc, status, raised, config, runs, atStart, edits>>
      /\ \A p \in Projects : pc[p] = "done"
      /\ backups' \subseteq backups
  BY AllEnded DEF LeavePool, Prune, Report
<1>2. JobTypes'
  BY <1>1 DEF SyncInv, JobTypes, Kept
<1>3. RunTypes'
  BY <1>1 DEF SyncInv, RunTypes, LeavePool, Prune, Report
<1>4. ASSUME NEW p \in Projects PROVE JobInv(p)'
  BY <1>1 DEF SyncInv, JobInv, Truthful, IsGit
<1>5. MainInv'
  <2>1. Unused' = Unused
    BY <1>1 DEF Unused, Listed
  <2>2. CASE LeavePool
    BY <2>2 DEF SyncInv, MainInv, LeavePool
  <2>3. CASE Prune
    BY <2>1, <2>3 DEF SyncInv, MainInv, Prune
  <2>4. CASE Report
    BY <2>1, <2>4 DEF SyncInv, MainInv, Report
  <2> QED BY <2>2, <2>3, <2>4
<1> QED BY <1>2, <1>3, <1>4, <1>5 DEF SyncInv

\* Only what is not listed is removed, so the statuses stay true.
LEMMA RemoveInv == SyncInv /\ RemoveUnused => SyncInv'
<1> SUFFICES ASSUME SyncInv, RemoveUnused PROVE SyncInv'
  OBVIOUS
<1> USE DEF jobVars
<1>1. /\ UNCHANGED <<backups, tip, pc, status, raised, config, summary, runs, atStart, edits>>
      /\ phase = "unused" /\ phase' \in {"unused", "idle", "prune"} /\ summary = "none"
      /\ \A p \in Projects : pc[p] = "done"
  BY AllEnded DEF SyncInv, MainInv, RemoveUnused
<1>2. tree' \in [Projects -> Trees] /\ \A p \in Projects : config[p] # "none" => tree'[p] = tree[p]
  BY TreeFacts DEF SyncInv, JobTypes, RemoveUnused, Unused, Listed
<1>3. JobTypes' /\ RunTypes'
  BY <1>1, <1>2 DEF SyncInv, JobTypes, RunTypes, Kept
<1>4. ASSUME NEW p \in Projects PROVE JobInv(p)'
  <2>1. CASE config[p] = "none"
    BY <1>1, <2>1 DEF SyncInv, JobInv, Truthful, IsGit
  <2>2. CASE config[p] # "none"
    BY <1>1, <1>2, <2>2 DEF SyncInv, JobInv, Truthful, IsGit
  <2> QED BY <2>1, <2>2
<1>5. MainInv'
  <2>1. phase' = "prune" => Unused' = {}
    BY <1>1 DEF RemoveUnused, Unused, Listed
  <2> QED BY <1>1, <2>1 DEF MainInv
<1> QED BY <1>3, <1>4, <1>5 DEF SyncInv

\* What a killed command leaves is something that can lie there.
LEMMA LeftoversFacts ==
  ASSUME SyncInv, NEW p \in Projects, NEW t \in Leftovers(p)
  PROVE t \in Trees /\ (tree[p].dirty /\ IsGit(p) => t.dirty)
<1>1. tree[p] \in Trees /\ tree[p].head \in Nat /\ tip[p] \in Nat /\ PinnedCommit \in Nat /\ JobInv(p)
  <2>1. tree[p] \in Trees /\ tip[p] \in 1..MaxTip /\ JobInv(p)
    BY DEF SyncInv, JobTypes, RunTypes
  <2>2. tip[p] \in Nat
    BY <2>1, BoundsAssumption
  <2> QED BY <2>1, <2>2, TreeParts DEF PinnedCommit
<1>2. CASE pc[p] = "clone"
  <2>1. t \in {Part, Repo(0, FALSE), Repo(tip[p], TRUE)}
    BY <1>2 DEF Leftovers
  <2>2. ~tree[p].dirty
    <3>1. tree[p].kind # "repo"
      BY <1>1, <1>2, TreeFacts DEF JobInv
    <3> QED BY <1>1, <3>1, TreeParts
  <2>3. t \in Trees
    <3>1. Repo(0, FALSE) \in Trees
      BY TreeFacts
    <3>2. Repo(tip[p], TRUE) \in Trees
      BY <1>1, TreeFacts
    <3> QED BY <2>1, <3>1, <3>2, TreeFacts
  <2> QED BY <2>2, <2>3
<1>3. CASE pc[p] = "fetch" \/ (pc[p] = "commit" /\ config[p] = "pinned")
  <2>1. \E h \in Nat : t = Repo(h, TRUE)
    BY <1>1, <1>3 DEF Leftovers
  <2>2. t \in Trees /\ t.dirty = TRUE
    BY <2>1, TreeFacts
  <2> QED BY <2>2
<1>4. CASE pc[p] \in {"clear", "place"}
  <2>1. t \in {Absent, Part} /\ ~IsGit(p)
    BY <1>1, <1>4 DEF Leftovers, JobInv, IsGit
  <2> QED BY <2>1, TreeFacts
<1> QED BY <1>2, <1>3, <1>4 DEF Leftovers

\* A killed run leaves no status behind.
LEMMA KillInv == SyncInv /\ Kill => SyncInv'
<1> SUFFICES ASSUME SyncInv, Kill PROVE SyncInv'
  OBVIOUS
<1> USE DEF Kill
<1>1. tree' \in [Projects -> Trees]
  <2>1. \A p \in Projects : tree'[p] \in Trees
    BY LeftoversFacts DEF SyncInv, JobTypes
  <2>2. tree' = [p \in Projects |-> tree'[p]]
    OBVIOUS
  <2> QED BY <2>1, <2>2
<1>2. JobTypes'
  BY <1>1 DEF SyncInv, JobTypes, Kept, Places, Statuses
<1>3. RunTypes'
  BY DEF SyncInv, RunTypes
<1>4. ASSUME NEW p \in Projects PROVE JobInv(p)'
  BY DEF SyncInv, JobInv, Truthful, IsGit
<1>5. MainInv'
  BY DEF SyncInv, MainInv
<1> QED BY <1>2, <1>3, <1>4, <1>5 DEF SyncInv

\* Somebody pushes.
LEMMA PushInv ==
  ASSUME SyncInv, NEW p \in Projects, Push(p)
  PROVE SyncInv'
<1> USE DEF Push, dirVars, jobVars, runVars
<1>1. JobTypes' /\ MainInv'
  BY DEF SyncInv, JobTypes, Kept, MainInv, Unused, Listed
<1>2. tip[p] \in 1..MaxTip /\ tip[p] < MaxTip /\ tip \in [Projects -> 1..MaxTip]
  BY DEF SyncInv, RunTypes
<1>3. RunTypes'
  <2>1. tip[p] + 1 \in 1..MaxTip
    BY <1>2, BoundsAssumption
  <2>2. tip' \in [Projects -> 1..MaxTip]
    BY <1>2, <2>1
  <2> QED BY <2>2 DEF SyncInv, RunTypes
<1>4. ASSUME NEW q \in Projects PROVE JobInv(q)'
  <2>1. tip[q] \in 1..MaxTip /\ atStart[q] \in 1..MaxTip /\ tip'[q] >= tip[q]
    <3>1. tip[q] \in 1..MaxTip /\ atStart[q] \in 1..MaxTip
      BY DEF SyncInv, RunTypes
    <3>2. tip'[q] = tip[q] \/ tip'[q] = tip[q] + 1
      BY <1>2
    <3> QED BY <3>1, <3>2, BoundsAssumption
  <2>2. tip'[q] >= atStart[q]
    BY <2>1, BoundsAssumption DEF SyncInv, JobInv
  <2> QED BY <2>2 DEF SyncInv, JobInv, Truthful, IsGit
<1> QED BY <1>1, <1>3, <1>4 DEF SyncInv

\* A developer edits.
LEMMA EditInv ==
  ASSUME SyncInv, NEW p \in Projects, Edit(p)
  PROVE SyncInv'
<1> USE DEF Edit, Put, jobVars, runVars
<1>1. tree \in [Projects -> Trees] /\ tree[p].kind = "repo"
  BY DEF SyncInv, JobTypes
<1>2. tree'[p] \in Trees /\ tree'[p].kind = "repo" /\ tree'[p].head = tree[p].head
  BY <1>1, Edited
<1>3. \A q \in Projects : /\ tree'[q].kind = tree[q].kind /\ tree'[q].head = tree[q].head
                          /\ tree'[q] = Absent <=> tree[q] = Absent
  BY <1>1, <1>2, TreeFacts
<1>4. JobTypes'
  <2>1. tree' \in [Projects -> Trees]
    BY <1>1, <1>2
  <2> QED BY <2>1 DEF SyncInv, JobTypes, Kept
<1>5. RunTypes'
  <2>1. edits \in 0..MaxEdits /\ edits < MaxEdits /\ edits' = edits + 1
    BY DEF SyncInv, RunTypes
  <2>2. edits' \in 0..MaxEdits
    BY <2>1, BoundsAssumption
  <2> QED BY <2>2 DEF SyncInv, RunTypes
<1>6. ASSUME NEW q \in Projects PROVE JobInv(q)'
  BY <1>3 DEF SyncInv, JobInv, Truthful, IsGit
<1>7. MainInv'
  BY <1>3 DEF SyncInv, MainInv, Unused, Listed
<1> QED BY <1>4, <1>5, <1>6, <1>7 DEF SyncInv

\* Every step keeps the invariant.
LEMMA StepInv == SyncInv /\ [Next]_vars => SyncInv'
<1> SUFFICES ASSUME SyncInv, [Next]_vars PROVE SyncInv'
  OBVIOUS
<1>1. ASSUME NEW p \in Projects, Job(p) PROVE SyncInv'
  BY <1>1, LooksInv, FetchInv, CheckoutInv, LocalInv DEF Job
<1>2. CASE UNCHANGED vars
  <2> USE <1>2 DEF vars, dirVars, jobVars, runVars
  <2>1. JobTypes' /\ RunTypes'
    BY DEF SyncInv, JobTypes, RunTypes, Kept
  <2>2. MainInv' /\ \A p \in Projects : JobInv(p)'
    BY DEF SyncInv, MainInv, Unused, Listed, JobInv, Truthful, IsGit
  <2> QED BY <2>1, <2>2 DEF SyncInv
<1> QED
  BY <1>1, <1>2, StartInv, MainStepInv, RemoveInv, KillInv, PushInv, EditInv DEF Next, Main

\* So it always holds.
LEMMA SyncInvHolds == Spec => []SyncInv
  BY InitInv, StepInv, PTL DEF Spec

------------------------------------------------------------------------------
(* What follows.                                                             *)

\* The variables keep their types, for every set of projects and configurations.
THEOREM TypeCorrect == Spec => []TypeOK
<1>1. SyncInv => TypeOK
  BY Types DEF SyncInv
<1> QED BY <1>1, SyncInvHolds, PTL

\* A final status that reports success is true of the directory, through the
\* rest of the run and after it.
THEOREM StatusesTrue == Spec => []StatusTrue
<1>1. SyncInv => StatusTrue
  BY DEF SyncInv, JobInv, Truthful, StatusTrue
<1> QED BY <1>1, SyncInvHolds, PTL

\* A run that gets as far as its summary has left nothing that is not listed and
\* no more backups than allowed.
THEOREM LeftTidy == Spec => []Tidy
<1>1. SyncInv => Tidy
  BY DEF SyncInv, MainInv, Tidy
<1> QED BY <1>1, SyncInvHolds, PTL

\* A step of a job or of main keeps the uncommitted changes of a git project in
\* its tree or moves the tree as it is into a backup.
LEMMA StepKeepsWork ==
  ASSUME SyncInv, [Next]_vars, NEW p \in Projects, tree[p].dirty, IsGit(p), edits' = edits
  PROVE tree'[p].dirty \/ \E b \in backups' : b.project = p /\ b.tree = tree[p]
<1> USE DEF dirVars, jobVars, runVars, Put, GoTo, EndJob
<1>1. tree \in [Projects -> Trees] /\ tree[p] \in Trees /\ JobInv(p)
  BY DEF SyncInv, JobTypes
<1>2. CASE tree'[p] = tree[p]
  BY <1>2
<1>3. ASSUME NEW q \in Projects, Job(q), tree'[p] # tree[p]
      PROVE tree'[p].dirty \/ \E b \in backups' : b.project = p /\ b.tree = tree[p]
  <2>1. q = p
    BY <1>1, <1>3 DEF Job, Begin, Look, CheckStatus, Update, Backup, Clone, CheckoutCommit,
                      LocalClear, MakeLink, CopyTree
  <2>2. CASE Update(p)
    <3>1. tree'[p] = Repo(tip[p], tree[p].dirty)
      BY <1>1, <1>3, <2>2 DEF Update
    <3>2. tree'[p].dirty = tree[p].dirty
      BY <3>1 DEF Repo
    <3> QED BY <3>2
  <2>3. CASE Backup(p)
    <3>1. [project |-> p, run |-> runs, tree |-> tree[p]] \in backups'
      BY <1>1, <1>3, <2>3 DEF Backup
    <3> QED BY <3>1
  <2>4. CASE Clone(p)
    <3>1. tree[p].kind # "repo"
      BY <1>1, <2>4, TreeFacts DEF Clone, JobInv
    <3> QED BY <1>1, <3>1, TreeParts
  <2>5. CASE CheckoutCommit(p)
    <3>1. tree'[p] = Repo(PinnedCommit, tree[p].dirty)
      BY <1>1, <1>3, <2>5 DEF CheckoutCommit
    <3>2. tree'[p].dirty = tree[p].dirty
      BY <3>1 DEF Repo
    <3> QED BY <3>2
  <2>6. ~(LocalClear(p) \/ MakeLink(p) \/ CopyTree(p))
    BY <1>1 DEF LocalClear, MakeLink, CopyTree, JobInv, IsGit
  <2>7. ~(Begin(p) \/ Look(p) \/ CheckStatus(p))
    BY <1>3 DEF Begin, Look, CheckStatus
  <2> QED BY <1>3, <2>1, <2>2, <2>3, <2>4, <2>5, <2>6, <2>7 DEF Job
<1>4. CASE RemoveUnused
  <2>1. p \notin Unused
    BY DEF IsGit, Unused, Listed
  <2>2. tree'[p] = tree[p]
    BY <1>1, <1>4, <2>1 DEF RemoveUnused
  <2> QED BY <1>2, <2>2
<1>5. CASE Kill
  <2>1. tree'[p] = tree[p] \/ tree'[p] \in Leftovers(p)
    BY <1>5 DEF Kill
  <2> QED BY <1>2, <2>1, LeftoversFacts
<1>6. ASSUME NEW q \in Projects, Edit(q) PROVE FALSE
  <2>1. edits \in 0..MaxEdits /\ edits' = edits + 1
    BY <1>6 DEF Edit, SyncInv, RunTypes
  <2> QED BY <2>1, BoundsAssumption
<1>7. tree' = tree \/ RemoveUnused \/ Kill \/ \E q \in Projects : Job(q) \/ Edit(q)
  BY DEF Next, Main, StartRun, Push, LeavePool, Prune, Report, vars
<1> QED BY <1>2, <1>3, <1>4, <1>5, <1>6, <1>7

\* No step of a run destroys the uncommitted changes of a git project, for every
\* set of projects: a kill in the middle of any command included.
THEOREM WorkAlwaysKept == Spec => WorkKept
<1>1. SyncInv /\ [Next]_vars =>
        [\A p \in Projects :
           tree[p].dirty /\ IsGit(p) /\ edits' = edits =>
             \/ tree'[p].dirty
             \/ \E b \in backups' : b.project = p /\ b.tree = tree[p]]_vars
  BY StepKeepsWork
<1> QED BY <1>1, SyncInvHolds, PTL DEF Spec, WorkKept
===============================================================================
