----------------------------- MODULE CycleTrigger -----------------------------
(***************************************************************************)
(* `testo run --cycle` of one cycle that has a trigger: the gate of        *)
(* testo_core/triggers.py, the plan behind it, and the snapshot that is    *)
(* written when the plan was green.  Several invocations share the working *)
(* tree, which is edited meanwhile, and the snapshot file of the cycle.    *)
(*                                                                         *)
(* A file is a matching file of the tree; its version stands for what Git  *)
(* compares, the contents, and for what the snapshot compares, its mtime   *)
(* and size; Absent is the version of a file that is not there.  A scan of *)
(* the tree is one step.  The plan is PlanExecution, here its verdict; the *)
(* reports, the archive and the messages are left out, but for the time    *)
(* that they take before the snapshot.                                     *)
(***************************************************************************)
EXTENDS Integers, FiniteSets

CONSTANTS
    Procs,         \* processes that invoke the command, one after the other
    Watchers,      \* those of them that do so for ever (watch mode, a CI schedule)
    Files,         \* files under the globs of the trigger
    Versions,      \* versions of a file
    Absent,        \* the version of a missing file
    Broken,        \* a snapshot file that is not JSON
    Missing,       \* no snapshot file
    MaxCalls,      \* bound on the invocations of the other processes
    MaxEdits,      \* bound on edits and commits
    MaxFaults      \* bound on red plans, crashes and failing Git commands

ASSUME WatchersAssumption == Watchers \subseteq Procs
ASSUME VersionAssumption == Absent \notin Versions
ASSUME BoundAssumption == MaxCalls \in Nat /\ MaxEdits \in Nat /\ MaxFaults \in Nat

Catalog == [Files -> Versions \cup {Absent}]
ASSUME SnapshotAssumption == {Broken, Missing} \cap Catalog = {}

VARIABLES
    git,       \* "repo": the configuration lies in a work tree, "none": it
               \* does not, "missing": there is no git to ask
    since,     \* the trigger has a since_ref
    base,      \* the tree of since_ref
    head,      \* the tree of HEAD
    tree,      \* the working tree
    snapshot,  \* the state file of the cycle
    pc,        \* phase of the process
    catalog,   \* the catalog that it has read
    saves,     \* persist_snapshot_after_run
    mode,      \* of its last evaluation, "none" with --force
    outcome,   \* of its invocation
    touched,   \* the tree was edited since the process looked at it
    tested,    \* trees on which a plan was green from its evaluation on
    slipped,   \* catalogs saved for a plan under which the tree was edited
    calls, edits, faults

gitVars == <<git, since, base, head>>
ghosts == <<touched, tested, slipped>>
counters == <<calls, edits, faults>>
vars == <<gitVars, tree, snapshot, pc, catalog, saves, mode, outcome, ghosts, counters>>

TypeOK ==
    /\ git \in {"repo", "none", "missing"} /\ since \in BOOLEAN
    /\ base \in Catalog /\ head \in Catalog /\ tree \in Catalog
    /\ snapshot \in Catalog \cup {Broken, Missing}
    /\ pc \in [Procs -> {"idle", "evaluating", "comparing", "running",
                         "deciding", "saving", "writing"}]
    /\ catalog \in [Procs -> Catalog]
    /\ saves \in [Procs -> BOOLEAN]
    /\ mode \in [Procs -> {"none", "git", "snapshot"}]
    /\ outcome \in [Procs -> {"none", "rested", "green", "red"}]
    /\ touched \in [Procs -> BOOLEAN]
    /\ tested \in SUBSET Catalog /\ slipped \in SUBSET Catalog
    /\ calls \in [Procs -> 0..MaxCalls]
    /\ edits \in 0..MaxEdits
    /\ faults \in 0..MaxFaults

Init ==
    /\ git \in {"repo", "none", "missing"}
    /\ since \in BOOLEAN /\ (since => git = "repo")
    /\ tree \in Catalog
    /\ base = tree /\ head = tree
    /\ snapshot = Missing
    /\ pc = [p \in Procs |-> "idle"]
    /\ catalog = [p \in Procs |-> tree]
    /\ saves = [p \in Procs |-> FALSE]
    /\ mode = [p \in Procs |-> "none"]
    /\ outcome = [p \in Procs |-> "none"]
    /\ touched = [p \in Procs |-> FALSE]
    /\ tested = {} /\ slipped = {}
    /\ calls = [p \in Procs |-> 0]
    /\ edits = 0 /\ faults = 0

Goto(p, l) == pc' = [pc EXCEPT ![p] = l]

-----------------------------------------------------------------------------
(* The developer                                                           *)

Edit(f, v) ==
    /\ edits < MaxEdits
    /\ v # tree[f]
    /\ edits' = edits + 1
    /\ tree' = [tree EXCEPT ![f] = v]
    /\ touched' = [p \in Procs |-> pc[p] # "idle"]
    /\ UNCHANGED <<gitVars, snapshot, pc, catalog, saves, mode, outcome, tested, slipped,
                   calls, faults>>

Commit ==
    /\ git = "repo"
    /\ edits < MaxEdits
    /\ head # tree
    /\ edits' = edits + 1
    /\ head' = tree
    /\ UNCHANGED <<git, since, base, tree, snapshot, pc, catalog, saves, mode, outcome,
                   ghosts, calls, faults>>

-----------------------------------------------------------------------------
(* The gate                                                                *)

\* _execute_one_cycle, up to its gate; --force passes it by.
Invoke(p, force) ==
    /\ pc[p] = "idle"
    /\ p \in Watchers => ~force
    /\ p \notin Watchers => calls[p] < MaxCalls
    /\ calls' = IF p \in Watchers THEN calls ELSE [calls EXCEPT ![p] = @ + 1]
    /\ Goto(p, IF force THEN "running" ELSE "evaluating")
    /\ outcome' = [outcome EXCEPT ![p] = "none"]
    /\ mode' = [mode EXCEPT ![p] = "none"]
    /\ saves' = [saves EXCEPT ![p] = FALSE]
    /\ touched' = [touched EXCEPT ![p] = FALSE]
    /\ UNCHANGED <<gitVars, tree, snapshot, catalog, tested, slipped, edits, faults>>

Activate(p, m, save) ==
    /\ Goto(p, "running")
    /\ mode' = [mode EXCEPT ![p] = m]
    /\ saves' = [saves EXCEPT ![p] = save]
    /\ UNCHANGED outcome

Rest(p, m) ==
    /\ Goto(p, "idle")
    /\ mode' = [mode EXCEPT ![p] = m]
    /\ outcome' = [outcome EXCEPT ![p] = "rested"]
    /\ UNCHANGED saves

\* git diff --name-only of since_ref...HEAD, or of HEAD against the working
\* tree, and the untracked files.
GitChanges ==
    {f \in Files : IF since THEN base[f] # head[f]
                   ELSE head[f] # Absent /\ tree[f] # head[f]}
    \cup {f \in Files : head[f] = Absent /\ tree[f] # Absent}

EvaluateGit(p) ==
    /\ pc[p] = "evaluating"
    /\ git = "repo"
    /\ IF GitChanges # {} THEN Activate(p, "git", FALSE) ELSE Rest(p, "git")
    /\ touched' = [touched EXCEPT ![p] = FALSE]
    /\ UNCHANGED <<gitVars, tree, snapshot, catalog, tested, slipped, counters>>

\* _git_repo_root is asked outside of the try: the command ends with the
\* exception of the subprocess.
EvaluateRaises(p) ==
    /\ pc[p] = "evaluating"
    /\ git = "missing"
    /\ Goto(p, "idle")
    /\ UNCHANGED <<gitVars, tree, snapshot, catalog, saves, mode, outcome, ghosts, counters>>

\* The catalog of the tree is read before the state file: outside of a
\* repository, or because a Git command failed or took too long.
ReadCatalog(p) ==
    /\ pc[p] = "evaluating"
    /\ git # "missing"
    /\ git = "repo" => faults < MaxFaults
    /\ faults' = IF git = "repo" THEN faults + 1 ELSE faults
    /\ catalog' = [catalog EXCEPT ![p] = tree]
    /\ touched' = [touched EXCEPT ![p] = FALSE]
    /\ Goto(p, "comparing")
    /\ UNCHANGED <<gitVars, tree, snapshot, saves, mode, outcome, tested, slipped, calls, edits>>

\* Mutant: only the first run of a cycle saves its snapshot.
CompareSavingOnce(p) ==
    /\ pc[p] = "comparing"
    /\ IF snapshot = catalog[p] THEN Rest(p, "snapshot")
       ELSE Activate(p, "snapshot", snapshot = Missing)
    /\ UNCHANGED <<gitVars, tree, snapshot, catalog, ghosts, counters>>

\* No state file, or one that is not JSON: activate.
Compare(p) ==
    /\ pc[p] = "comparing"
    /\ IF snapshot = catalog[p] THEN Rest(p, "snapshot")
       ELSE Activate(p, "snapshot", TRUE)
    /\ UNCHANGED <<gitVars, tree, snapshot, catalog, ghosts, counters>>

-----------------------------------------------------------------------------
(* The plan and what follows it                                            *)

\* The plan, and the archive of its reports, which swallows its errors.
RunPlan(p, green) ==
    /\ pc[p] = "running"
    /\ green \/ faults < MaxFaults
    /\ faults' = IF green THEN faults ELSE faults + 1
    /\ outcome' = [outcome EXCEPT ![p] = IF green THEN "green" ELSE "red"]
    /\ tested' = IF green /\ ~touched[p] THEN tested \cup {tree} ELSE tested
    /\ Goto(p, "deciding")
    /\ UNCHANGED <<gitVars, tree, snapshot, catalog, saves, mode, touched, slipped, calls, edits>>

\* Mutant: a red plan saves its snapshot too.
DecideToSave(p) ==
    /\ pc[p] = "deciding"
    /\ Goto(p, IF saves[p] THEN "saving" ELSE "idle")
    /\ UNCHANGED <<gitVars, tree, snapshot, catalog, saves, mode, outcome, ghosts, counters>>

\* The last condition of _execute_one_cycle.
Decide(p) ==
    /\ pc[p] = "deciding"
    /\ Goto(p, IF saves[p] /\ outcome[p] = "green" THEN "saving" ELSE "idle")
    /\ UNCHANGED <<gitVars, tree, snapshot, catalog, saves, mode, outcome, ghosts, counters>>

\* persist_trigger_snapshot reads the tree anew ...
ReadAgain(p) ==
    /\ pc[p] = "saving"
    /\ catalog' = [catalog EXCEPT ![p] = tree]
    /\ slipped' = IF touched[p] THEN slipped \cup {tree} ELSE slipped
    /\ Goto(p, "writing")
    /\ UNCHANGED <<gitVars, tree, snapshot, saves, mode, outcome, touched, tested, counters>>

\* ... and write_text empties the file before it writes.
Truncate(p) ==
    /\ pc[p] = "writing"
    /\ snapshot' = Broken
    /\ UNCHANGED <<gitVars, tree, pc, catalog, saves, mode, outcome, ghosts, counters>>

Write(p) ==
    /\ pc[p] = "writing"
    /\ snapshot' = catalog[p]
    /\ Goto(p, "idle")
    /\ UNCHANGED <<gitVars, tree, catalog, saves, mode, outcome, ghosts, counters>>

\* The process dies, by a signal or by an exception of the plan or of the
\* snapshot.
Crash(p) ==
    /\ pc[p] # "idle"
    /\ faults < MaxFaults
    /\ faults' = faults + 1
    /\ Goto(p, "idle")
    /\ UNCHANGED <<gitVars, tree, snapshot, catalog, saves, mode, outcome, ghosts, calls, edits>>

-----------------------------------------------------------------------------
DeveloperStep ==
    \/ \E f \in Files, v \in Versions \cup {Absent} : Edit(f, v)
    \/ Commit

CommandStep(p) ==
    \/ EvaluateGit(p) \/ EvaluateRaises(p) \/ ReadCatalog(p) \/ Compare(p)
    \/ \E green \in BOOLEAN : RunPlan(p, green)
    \/ Decide(p) \/ ReadAgain(p) \/ Truncate(p) \/ Write(p)

Next ==
    \/ DeveloperStep
    \/ \E p \in Procs :
           \/ \E force \in BOOLEAN : Invoke(p, force)
           \/ CommandStep(p)
           \/ Crash(p)

Spec == Init /\ [][Next]_vars

\* Invocations end (every stage has a timeout), and watchers come back.
FairSpec ==
    /\ Spec
    /\ \A p \in Procs : WF_vars(CommandStep(p)) /\ WF_vars(Write(p))
    /\ \A p \in Watchers : WF_vars(Invoke(p, FALSE))

-----------------------------------------------------------------------------
(* Properties                                                              *)

\* A cycle rests on its snapshot only when its files are as they were under
\* a green plan; with the one exception that a file was edited after the
\* plan had been activated, and the snapshot taken after it.  Neither a red
\* plan, nor a crash, nor two invocations that write one state file, nor
\* the change between Git and the snapshot, can put it to rest.
RestsOnTestedFiles ==
    \A p \in Procs :
        outcome[p] = "rested" /\ mode[p] = "snapshot" => catalog[p] \in tested \cup slipped

\* Outside of a repository, a cycle that is invoked again and again comes to
\* rest: the snapshot catches up with the last edit.
ComesToRest ==
    git = "none" => \A p \in Watchers : []<>(outcome[p] = "rested")
-----------------------------------------------------------------------------
(* The inductive invariant behind the first property.                      *)

Backed == tested \cup slipped

\* What a process knows: before its plan it has no outcome, after a green
\* one the tree was tested, unless it was edited, and the catalog that it is
\* about to write is one of the two kinds.
CommandInv(p) ==
    /\ pc[p] \in {"evaluating", "comparing", "running"} => outcome[p] = "none"
    /\ pc[p] \in {"saving", "writing"} => outcome[p] = "green"
    /\ pc[p] \in {"deciding", "saving"} /\ outcome[p] = "green" /\ ~touched[p] => tree \in tested
    /\ pc[p] = "writing" => catalog[p] \in Backed

Inv ==
    /\ TypeOK
    /\ snapshot \in Backed \cup {Broken, Missing}
    /\ \A p \in Procs : CommandInv(p)
    /\ RestsOnTestedFiles
=============================================================================
