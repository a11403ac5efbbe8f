---------------------------- MODULE CycleProofs ----------------------------
(***************************************************************************)
(* What a cycle rests on and what it leaves, for any number of processes,  *)
(* files and versions, invocations and stages, edits and faults.           *)
(*                                                                         *)
(* The gate (CycleTrigger): a step of one process changes the knowledge of *)
(* no other; the tested trees and the slipped catalogs only grow, and an   *)
(* edit touches every process that is under way.                           *)
(*                                                                         *)
(* The archive (CycleArchive): an invocation that shares the directory     *)
(* with no other one is alone under way and the last that has begun, so    *)
(* that what it reads of the directory is what it has put there; and a row *)
(* is inserted before a later invocation begins, or both share.            *)
(***************************************************************************)
EXTENDS CycleTrigger, CycleArchive, FiniteSetTheorems, SequenceTheorems, TLAPS

-----------------------------------------------------------------------------
(* The gate                                                                *)

\* The part of RestsOnTestedFiles that speaks of one process.
RestInv(p) ==
    outcome[p] = "rested" /\ mode[p] = "snapshot" => catalog[p] \in Backed

LEMMA InvParts ==
    Inv <=> /\ TypeOK
            /\ snapshot \in Backed \cup {Broken, Missing}
            /\ \A p \in Procs : CommandInv(p) /\ RestInv(p)
BY DEF Inv, RestsOnTestedFiles, RestInv, Backed

\* The types that a step needs.
Types ==
    /\ catalog \in [Procs -> Catalog]
    /\ DOMAIN pc = Procs /\ pc = [q \in Procs |-> pc[q]]
    /\ DOMAIN mode = Procs /\ mode = [q \in Procs |-> mode[q]]
    /\ DOMAIN outcome = Procs /\ outcome = [q \in Procs |-> outcome[q]]
    /\ DOMAIN touched = Procs /\ touched = [q \in Procs |-> touched[q]]

LEMMA InvTypes == Inv => Types
BY InvParts DEF TypeOK, Types

LEMMA InitInv == Init => Inv
<1> SUFFICES ASSUME Init PROVE Inv
  OBVIOUS
<1>1. TypeOK
  BY BoundAssumption DEF Init, TypeOK, Catalog
<1>2. snapshot \in Backed \cup {Broken, Missing}
  BY DEF Init
<1>3. ASSUME NEW p \in Procs PROVE CommandInv(p) /\ RestInv(p)
  BY DEF Init, CommandInv, RestInv
<1> QED
  BY <1>1, <1>2, <1>3, InvParts

-----------------------------------------------------------------------------
(* Types                                                                   *)

LEMMA TypeDeveloper == TypeOK /\ DeveloperStep => TypeOK'
<1> SUFFICES ASSUME TypeOK, DeveloperStep PROVE TypeOK'
  OBVIOUS
<1> USE BoundAssumption
<1>1. ASSUME NEW f \in Files, NEW v \in Versions \cup {Absent}, Edit(f, v) PROVE TypeOK'
  <2>1. tree' \in Catalog
    BY <1>1 DEF Edit, TypeOK, Catalog
  <2>2. touched' \in [Procs -> BOOLEAN] /\ edits' \in 0..MaxEdits
    BY <1>1 DEF Edit, TypeOK
  <2> QED
    BY <1>1, <2>1, <2>2 DEF Edit, TypeOK, gitVars
<1>2. CASE Commit
  BY <1>2 DEF Commit, TypeOK, ghosts
<1> QED
  BY <1>1, <1>2 DEF DeveloperStep

LEMMA TypeProcess ==
    ASSUME TypeOK, NEW p \in Procs,
           (\E force \in BOOLEAN : Invoke(p, force)) \/ CommandStep(p) \/ Crash(p)
    PROVE  TypeOK'
<1> USE BoundAssumption
<1>1. ASSUME NEW force \in BOOLEAN, Invoke(p, force) PROVE TypeOK'
  BY <1>1 DEF Invoke, Goto, TypeOK, gitVars
<1>2. CASE EvaluateGit(p)
  BY <1>2 DEF EvaluateGit, Activate, Rest, Goto, TypeOK, gitVars, counters
<1>3. CASE EvaluateRaises(p)
  BY <1>3 DEF EvaluateRaises, Goto, TypeOK, gitVars, ghosts, counters
<1>4. CASE ReadCatalog(p)
  BY <1>4 DEF ReadCatalog, Goto, TypeOK, gitVars
<1>5. CASE Compare(p)
  BY <1>5 DEF Compare, Activate, Rest, Goto, TypeOK, gitVars, ghosts, counters
<1>6. ASSUME NEW green \in BOOLEAN, RunPlan(p, green) PROVE TypeOK'
  BY <1>6 DEF RunPlan, Goto, TypeOK, gitVars
<1>7. CASE Decide(p)
  BY <1>7 DEF Decide, Goto, TypeOK, gitVars, ghosts, counters
<1>8. CASE ReadAgain(p)
  BY <1>8 DEF ReadAgain, Goto, TypeOK, gitVars, counters
<1>9. CASE Truncate(p)
  BY <1>9 DEF Truncate, TypeOK, gitVars, ghosts, counters
<1>10. CASE Write(p)
  BY <1>10 DEF Write, Goto, TypeOK, gitVars, ghosts, counters
<1>11. CASE Crash(p)
  BY <1>11 DEF Crash, Goto, TypeOK, gitVars, ghosts
<1> QED
  BY <1>1, <1>2, <1>3, <1>4, <1>5, <1>6, <1>7, <1>8, <1>9, <1>10, <1>11 DEF CommandStep

-----------------------------------------------------------------------------
(* The knowledge of the processes                                          *)

\* What a step of p leaves alone.
Undisturbed(p) ==
    /\ tree' = tree
    /\ tested \subseteq tested' /\ slipped \subseteq slipped'
    /\ \A q \in Procs \ {p} :
           /\ pc'[q] = pc[q] /\ catalog'[q] = catalog[q]
           /\ mode'[q] = mode[q] /\ outcome'[q] = outcome[q]
           /\ touched'[q] = touched[q]

LEMMA Others ==
    ASSUME Inv, NEW p \in Procs, Undisturbed(p),
           NEW q \in Procs, q # p
    PROVE  CommandInv(q)' /\ RestInv(q)'
BY InvParts DEF CommandInv, RestInv, Backed, Undisturbed

\* It suffices to look at what a step of p does to p and to the state file.
LEMMA OneProcess ==
    ASSUME Inv, TypeOK', NEW p \in Procs, Undisturbed(p),
           (snapshot \in Backed \cup {Broken, Missing})',
           CommandInv(p)', RestInv(p)'
    PROVE  Inv'
<1>1. ASSUME NEW q \in Procs PROVE CommandInv(q)' /\ RestInv(q)'
  BY Others
<1> QED
  BY <1>1 DEF Inv, RestsOnTestedFiles, RestInv, Backed

LEMMA GrowingBacked ==
    ASSUME Inv, NEW p \in Procs, Undisturbed(p), snapshot' = snapshot
    PROVE  (snapshot \in Backed \cup {Broken, Missing})'
BY InvParts DEF Undisturbed, Backed

-----------------------------------------------------------------------------
(* One lemma for each part of the command                                  *)

LEMMA Gate ==
    ASSUME Inv, TypeOK', NEW p \in Procs,
           \/ \E force \in BOOLEAN : Invoke(p, force)
           \/ EvaluateGit(p) \/ EvaluateRaises(p) \/ ReadCatalog(p) \/ Compare(p)
    PROVE  Inv'
<1> USE InvTypes
<1>1. ASSUME NEW force \in BOOLEAN, Invoke(p, force) PROVE Inv'
  <2>1. Undisturbed(p) /\ snapshot' = snapshot
    BY <1>1, InvParts DEF Invoke, Goto, Undisturbed, Types
  <2>2. CommandInv(p)' /\ RestInv(p)'
    BY <1>1, InvParts DEF Invoke, Goto, CommandInv, RestInv, Types
  <2> QED
    BY <2>1, <2>2, OneProcess, GrowingBacked
<1>2. CASE EvaluateGit(p)
  <2>1. Undisturbed(p) /\ snapshot' = snapshot
    BY <1>2, InvParts DEF EvaluateGit, Activate, Rest, Goto, Undisturbed, Types
  <2>2. CommandInv(p)' /\ RestInv(p)'
    BY <1>2, InvParts DEF EvaluateGit, Activate, Rest, Goto, CommandInv, RestInv, Types
  <2> QED
    BY <2>1, <2>2, OneProcess, GrowingBacked
<1>3. CASE EvaluateRaises(p)
  <2>1. Undisturbed(p) /\ snapshot' = snapshot
    BY <1>3, InvParts DEF EvaluateRaises, Goto, Undisturbed, ghosts, Types
  <2>2. CommandInv(p)' /\ RestInv(p)'
    BY <1>3, InvParts DEF EvaluateRaises, Goto, CommandInv, RestInv, Backed, ghosts, Types
  <2> QED
    BY <2>1, <2>2, OneProcess, GrowingBacked
<1>4. CASE ReadCatalog(p)
  <2>1. Undisturbed(p) /\ snapshot' = snapshot
    BY <1>4, InvParts DEF ReadCatalog, Goto, Undisturbed, Types
  <2>2. CommandInv(p)' /\ RestInv(p)'
    BY <1>4, InvParts DEF ReadCatalog, Goto, CommandInv, RestInv, Backed, Types
  <2> QED
    BY <2>1, <2>2, OneProcess, GrowingBacked
<1>5. CASE Compare(p)
  <2>1. Undisturbed(p) /\ snapshot' = snapshot
    BY <1>5, InvParts DEF Compare, Activate, Rest, Goto, Undisturbed, ghosts, Types
  <2>2. snapshot = catalog[p] => catalog[p] \in Backed
    BY InvParts, SnapshotAssumption DEF Types
  <2>3. CommandInv(p)' /\ RestInv(p)'
    BY <1>5, <2>2, InvParts
    DEF Compare, Activate, Rest, Goto, CommandInv, RestInv, Backed, ghosts, Types
  <2> QED
    BY <2>1, <2>3, OneProcess, GrowingBacked
<1> QED
  BY <1>1, <1>2, <1>3, <1>4, <1>5

LEMMA PlanAndSnapshot ==
    ASSUME Inv, TypeOK', NEW p \in Procs,
           \/ \E green \in BOOLEAN : RunPlan(p, green)
           \/ Decide(p) \/ ReadAgain(p) \/ Truncate(p) \/ Write(p) \/ Crash(p)
    PROVE  Inv'
<1> USE InvTypes
<1>1. ASSUME NEW green \in BOOLEAN, RunPlan(p, green) PROVE Inv'
  <2>1. Undisturbed(p) /\ snapshot' = snapshot
    BY <1>1, InvParts DEF RunPlan, Goto, Undisturbed, Types
  <2>2. CommandInv(p)' /\ RestInv(p)'
    BY <1>1, InvParts DEF RunPlan, Goto, CommandInv, RestInv, Backed, Types
  <2> QED
    BY <2>1, <2>2, OneProcess, GrowingBacked
<1>2. CASE Decide(p)
  <2>1. Undisturbed(p) /\ snapshot' = snapshot
    BY <1>2, InvParts DEF Decide, Goto, Undisturbed, ghosts, Types
  <2>2. CommandInv(p)' /\ RestInv(p)'
    BY <1>2, InvParts DEF Decide, Goto, CommandInv, RestInv, Backed, ghosts, Types
  <2> QED
    BY <2>1, <2>2, OneProcess, GrowingBacked
<1>3. CASE ReadAgain(p)
  <2>1. Undisturbed(p) /\ snapshot' = snapshot
    BY <1>3, InvParts DEF ReadAgain, Goto, Undisturbed, Types
  <2>2. tree \in Backed'
    BY <1>3, InvParts DEF ReadAgain, CommandInv, Backed
  <2>3. CommandInv(p)' /\ RestInv(p)'
    BY <1>3, <2>2, InvParts DEF ReadAgain, Goto, CommandInv, RestInv, Types
  <2> QED
    BY <2>1, <2>3, OneProcess, GrowingBacked
<1>4. CASE Truncate(p)
  <2>1. Undisturbed(p)
    BY <1>4, InvParts DEF Truncate, Undisturbed, ghosts, Types
  <2>2. CommandInv(p)' /\ RestInv(p)'
    BY <1>4, InvParts DEF Truncate, CommandInv, RestInv, Backed, ghosts, Types
  <2>3. (snapshot \in Backed \cup {Broken, Missing})'
    BY <1>4 DEF Truncate
  <2> QED
    BY <2>1, <2>2, <2>3, OneProcess
<1>5. CASE Write(p)
  <2>1. Undisturbed(p)
    BY <1>5, InvParts DEF Write, Goto, Undisturbed, ghosts, Types
  <2>2. CommandInv(p)' /\ RestInv(p)'
    BY <1>5, InvParts DEF Write, Goto, CommandInv, RestInv, Backed, ghosts, Types
  <2>3. (snapshot \in Backed \cup {Broken, Missing})'
    BY <1>5, InvParts DEF Write, CommandInv, Backed, ghosts
  <2> QED
    BY <2>1, <2>2, <2>3, OneProcess
<1>6. CASE Crash(p)
  <2>1. Undisturbed(p) /\ snapshot' = snapshot
    BY <1>6, InvParts DEF Crash, Goto, Undisturbed, ghosts, Types
  <2>2. CommandInv(p)' /\ RestInv(p)'
    BY <1>6, InvParts DEF Crash, Goto, CommandInv, RestInv, Backed, ghosts, Types
  <2> QED
    BY <2>1, <2>2, OneProcess, GrowingBacked
<1> QED
  BY <1>1, <1>2, <1>3, <1>4, <1>5, <1>6

\* An edit takes the tree away from under every process that relies on it.
LEMMA Developer == ASSUME Inv, TypeOK', DeveloperStep PROVE Inv'
<1>1. ASSUME NEW f \in Files, NEW v \in Versions \cup {Absent}, Edit(f, v) PROVE Inv'
  <2>1. ASSUME NEW p \in Procs PROVE CommandInv(p)' /\ RestInv(p)'
    BY <1>1, InvParts DEF Edit, CommandInv, RestInv, Backed
  <2>2. (snapshot \in Backed \cup {Broken, Missing})'
    BY <1>1, InvParts DEF Edit, Backed
  <2> QED
    BY <2>1, <2>2 DEF Inv, RestsOnTestedFiles, RestInv, Backed
<1>2. CASE Commit
  <2>1. ASSUME NEW p \in Procs PROVE CommandInv(p)' /\ RestInv(p)'
    BY <1>2, InvParts DEF Commit, CommandInv, RestInv, Backed, ghosts
  <2>2. (snapshot \in Backed \cup {Broken, Missing})'
    BY <1>2, InvParts DEF Commit, Backed, ghosts
  <2> QED
    BY <2>1, <2>2 DEF Inv, RestsOnTestedFiles, RestInv, Backed
<1> QED
  BY <1>1, <1>2 DEF DeveloperStep

LEMMA Stuttering == ASSUME Inv, UNCHANGED vars PROVE Inv'
<1>1. TypeOK'
  BY InvParts DEF TypeOK, vars, gitVars, ghosts, counters, Catalog
<1>2. ASSUME NEW p \in Procs PROVE CommandInv(p)' /\ RestInv(p)'
  BY InvParts DEF CommandInv, RestInv, Backed, vars, ghosts
<1>3. (snapshot \in Backed \cup {Broken, Missing})'
  BY InvParts DEF Backed, vars, ghosts
<1> QED
  BY <1>1, <1>2, <1>3 DEF Inv, RestsOnTestedFiles, RestInv, Backed

-----------------------------------------------------------------------------
(* Theorems                                                                *)

\* The inductive invariant: what every process knows of the tree, and what
\* the state file can hold.
THEOREM Invariance == Spec => []Inv
<1>1. Inv /\ [Next]_vars => Inv'
  <2> SUFFICES ASSUME Inv, [Next]_vars PROVE Inv'
    OBVIOUS
  <2>1. CASE DeveloperStep
    BY <2>1, InvParts, TypeDeveloper, Developer
  <2>2. ASSUME NEW p \in Procs,
               (\E force \in BOOLEAN : Invoke(p, force)) \/ CommandStep(p) \/ Crash(p)
        PROVE  Inv'
    <3>1. TypeOK'
      BY <2>2, InvParts, TypeProcess
    <3> QED
      BY <2>2, <3>1, Gate, PlanAndSnapshot DEF CommandStep
  <2> QED
    BY <2>1, <2>2, Stuttering DEF Next
<1> QED
  BY <1>1, InitInv, PTL DEF Spec

\* The variables of the gate, the plan and the snapshot keep their types.
THEOREM TypeCorrect == Spec => []TypeOK
<1>1. Inv => TypeOK
  BY DEF Inv
<1> QED
  BY <1>1, Invariance, PTL

\* A cycle rests on its snapshot only when its files are as they were under
\* a green plan, or were edited under one (_evaluate_snapshot_trigger and
\* persist_trigger_snapshot).
THEOREM RestIsEarned == Spec => []RestsOnTestedFiles
<1>1. Inv => RestsOnTestedFiles
  BY DEF Inv
<1> QED
  BY <1>1, Invariance, PTL

-----------------------------------------------------------------------------
(* The archive: the least and the greatest of some numbers                *)

\* The least of some numbers: of the sets 1..x one is minimal.
LEMMA MinIsMember ==
    ASSUME NEW S, S \subseteq Nat, S # {}
    PROVE  Min(S) \in S /\ \A y \in S : Min(S) <= y
<1> DEFINE R == StrictSubsetOrdering(Nat)
           F == FiniteSubsetsOf(Nat)
           T == {1..x : x \in S}
<1>1. T # {}
  OBVIOUS
<1>2. T \subseteq F
  BY FS_Interval DEF FiniteSubsetsOf
<1>3. IsWellFoundedOn(R, F)
  BY FS_StrictSubsetOrderingWellFounded
<1>4. PICK t \in T : \A u \in T : ~(<<u, t>> \in R)
  <2> HIDE DEF R, F, T
  <2> QED
    BY <1>1, <1>2, <1>3, WFMin
<1>5. PICK x \in S : t = 1..x
  OBVIOUS
<1>6. ASSUME NEW y \in S PROVE x <= y
  <2> SUFFICES ASSUME y < x PROVE FALSE
    OBVIOUS
  <2>1. (1..y) \subseteq 1..x /\ x \in 1..x /\ x \notin 1..y
    OBVIOUS
  <2>2. <<1..y, 1..x>> \in R
    BY <2>1 DEF StrictSubsetOrdering
  <2> QED
    BY <2>2, <1>4, <1>5
<1> QED
  BY <1>6 DEF Min

\* The greatest: the distances to the bound have a least one.
LEMMA MaxIsMember ==
    ASSUME NEW n \in Nat, NEW S, S \subseteq 0..n, S # {}
    PROVE  Max(S) \in S /\ \A y \in S : Max(S) >= y
<1> DEFINE T == {n - x : x \in S}
<1>1. T # {} /\ T \subseteq Nat
  <2>1. \A x \in S : n - x \in Nat
    OBVIOUS
  <2> QED
    BY <2>1
<1>2. Min(T) \in T /\ \A y \in T : Min(T) <= y
  <2> HIDE DEF T
  <2> QED
    BY <1>1, MinIsMember
<1>3. PICK x \in S : Min(T) = n - x
  BY <1>2
<1>4. \A y \in S : n - x <= n - y
  BY <1>2, <1>3
<1>5. \A y \in S : x >= y
  BY <1>4
<1> QED
  BY <1>5 DEF Max

-----------------------------------------------------------------------------
(* The inductive invariant                                                 *)

Started == {i \in Invocations : phase[i] # "new"}

\* Invocations begin in their order, and two that are under way share the directory.
OrderInv ==
    \A i, j \in Invocations : i < j /\ j \in Started =>
        i \in Started /\ (i \in Active => {i, j} \subseteq shared)

\* Results and histories are of invocations that have begun.
DirInv ==
    \A s \in Stages : /\ dir.results[s] \subseteq Started
                      /\ dir.history[s] \in Started \cup {None}

\* What the program and the archiving thread of an invocation that has the directory to itself
\* know of it.
AloneInv(i) ==
    i \in Active \ shared =>
        /\ \A s \in selected[i] : s \notin todo[i] \/ (phase[i] = "stage" /\ s = Current(i))
                => dir.results[s] \subseteq {i}
        /\ phase[i] \in {"persist", "archive"} => plan_result = i \/ i \in unlucky
        /\ job[i] \in {"zip", "read", "measure", "insert"} => payload[i].results = dir.results
        /\ job[i] \in {"measure", "insert"} => summary[i] = plan_result
        /\ job[i] = "insert" => measured[i] = dir.results

\* The job is there from the archiving on, and over at the exit; what was to be inserted is,
\* or failed.
JobInv(i) ==
    /\ phase[i] \in {"new", "between", "stage", "persist"} => job[i] = "none"
    /\ phase[i] = "archive" => job[i] # "none"
    /\ phase[i] = "exit" => job[i] \in {"none", "over"}
    /\ phase[i] = "stage" => todo[i] # {}
    /\ phase[i] \in {"persist", "archive"} => todo[i] = {}
    /\ \A s \in Stages : payload[i].history[s] \in Started \cup {None}
    /\ job[i] = "over" /\ ~async[i] /\ i \notin unlucky =>
           \E k \in DOMAIN archive : archive[k].run = i

\* A row is of a job that is over; nothing in it is of a later invocation, unless the two met.
RowInv(row) ==
    /\ job[row.run] = "over"
    /\ row.run \notin shared =>
        /\ \A s \in selected[row.run] : row.content.results[s] \subseteq {row.run}
        /\ \A s \in Stages : \A j \in row.content.results[s] : j <= row.run
        /\ row.metrics = row.content.results
        /\ row.summary = row.run \/ row.run \in unlucky
    /\ \A s \in Stages : row.content.history[s] \in Started \cup {None}
    /\ \A i \in Started : row.run < i /\ i \notin shared =>
        \A s \in Stages : row.content.history[s] < i

RowsInOrder ==
    \A k, l \in DOMAIN archive : k < l =>
        /\ archive[k].run # archive[l].run
        /\ archive[k].run < archive[l].run \/ {archive[k].run, archive[l].run} \subseteq shared

Row == [run : Invocations, content : Contents, summary : 0..Latest,
        metrics : [Stages -> SUBSET Invocations]]

\* The types of what the proofs speak of.
ArchiveTypes ==
    /\ dir \in Contents
    /\ plan_result \in 0..Latest
    /\ phase \in [Invocations -> {"new", "between", "stage", "persist", "archive", "exit"}]
    /\ todo \in [Invocations -> SUBSET Stages]
    /\ selected \in [Invocations -> SUBSET Stages]
    /\ async \in [Invocations -> BOOLEAN]
    /\ job \in [Invocations -> {"none", "list", "zip", "read", "measure", "insert", "over"}]
    /\ payload \in [Invocations -> Contents]
    /\ summary \in [Invocations -> 0..Latest]
    /\ measured \in [Invocations -> [Stages -> SUBSET Invocations]]
    /\ archive \in Seq(Row)
    /\ shared \subseteq Invocations /\ unlucky \subseteq Invocations
    /\ report \in {"idle", "inject", "generate"}
    /\ view.kind \in {"nothing", "summary", "page"}
    /\ events \in 0..MaxEvents

ArchiveRules ==
    /\ OrderInv /\ DirInv
    /\ \A i \in Invocations : AloneInv(i) /\ JobInv(i)
    /\ \A k \in DOMAIN archive : RowInv(archive[k])
    /\ RowsInOrder /\ SummaryIsForward

ArchiveIInv == ArchiveTypes /\ ArchiveRules

\* No invocation has begun.
LEMMA InitArchive == ArchiveInit => ArchiveIInv
<1> SUFFICES ASSUME ArchiveInit PROVE ArchiveIInv
  OBVIOUS
<1> USE LastAssumption, StageCountAssumption, MaxEventsAssumption
<1>0. Started = {} /\ Active = {}
  BY DEF ArchiveInit, Started, Active
<1>1. ArchiveTypes
  <2>1. Empty \in Contents
    BY DEF Empty, Contents, None
  <2>2. archive \in Seq(Row)
    BY DEF ArchiveInit
  <2>3. Empty.results \in [Stages -> SUBSET Invocations]
    BY <2>1 DEF Contents
  <2> QED
    BY <2>1, <2>2, <2>3 DEF ArchiveInit, ArchiveTypes, None, Nothing
<1>2. OrderInv
  BY <1>0 DEF OrderInv
<1>3. DirInv
  BY DEF ArchiveInit, DirInv, Empty, None
<1>4. \A i \in Invocations : AloneInv(i) /\ JobInv(i)
  BY <1>0 DEF ArchiveInit, AloneInv, JobInv, Empty, None
<1>5. DOMAIN archive = {}
  BY DEF ArchiveInit
<1>6. SummaryIsForward
  BY DEF ArchiveInit, SummaryIsForward, Nothing
<1> QED
  BY <1>1, <1>2, <1>3, <1>4, <1>5, <1>6 DEF ArchiveIInv, ArchiveRules, RowsInOrder

-----------------------------------------------------------------------------
(* What an action of one invocation leaves to the others                   *)

\* The state of the others, but for what they share.
Elsewhere(p) ==
    \A i \in Invocations \ {p} :
        /\ phase'[i] = phase[i] /\ todo'[i] = todo[i]
        /\ selected'[i] = selected[i] /\ async'[i] = async[i]
        /\ job'[i] = job[i] /\ payload'[i] = payload[i]

\* An invocation under way that shares nothing is the only one and the last.
LEMMA Alone ==
    ASSUME ArchiveIInv, NEW i \in Active \ shared
    PROVE  /\ i \in Invocations /\ Active = {i}
           /\ \A j \in Started : j <= i
<1>1. \A j \in Started : j <= i
  BY DEF ArchiveIInv, ArchiveRules, OrderInv, Active, Started, Invocations
<1>2. \A j \in Active : j = i
  BY <1>1 DEF ArchiveIInv, ArchiveRules, OrderInv, Active, Started, Invocations
<1>3. i \in Invocations
  BY DEF Active
<1> QED
  BY <1>1, <1>2, <1>3

\* While p is under way there is nothing to know of another one.
LEMMA OthersShare ==
    ASSUME ArchiveIInv, NEW p \in Active, Elsewhere(p), shared' = shared,
           NEW i \in Invocations, i # p
    PROVE  AloneInv(i)'
BY Alone DEF AloneInv, Active, Elsewhere

\* A row is added after those that are there.
LEMMA ArchiveGrows ==
    ASSUME archive \in Seq(Row), NEW row \in Row
    PROVE  /\ Append(archive, row) \in Seq(Row)
           /\ DOMAIN Append(archive, row) = (DOMAIN archive) \cup {Len(archive) + 1}
           /\ \A k \in DOMAIN archive : Append(archive, row)[k] = archive[k] /\ k < Len(archive) + 1
           /\ Append(archive, row)[Len(archive) + 1] = row
           /\ Len(archive) \in Nat /\ DOMAIN archive = 1..Len(archive)
BY AppendProperties, LenProperties

\* What a row holds.
LEMMA RowType ==
    ASSUME ArchiveIInv, NEW k \in DOMAIN archive
    PROVE  archive[k] \in Row /\ archive[k].run \in Invocations
<1>1. archive \in Seq(Row)
  BY DEF ArchiveIInv, ArchiveRules, ArchiveTypes
<1>2. archive[k] \in Row
  BY <1>1, LenProperties
<1> QED
  BY <1>2 DEF Row

\* What is known of the job of another invocation stays known.
LEMMA OthersJob ==
    ASSUME ArchiveIInv, NEW p, Elsewhere(p), Started \subseteq Started', unlucky \subseteq unlucky',
           archive' = archive \/ \E row \in Row : archive' = Append(archive, row),
           NEW i \in Invocations, i # p
    PROVE  JobInv(i)'
<1>1. \A k \in DOMAIN archive : k \in DOMAIN archive' /\ archive'[k] = archive[k]
  <2>1. archive \in Seq(Row)
    BY DEF ArchiveIInv, ArchiveRules, ArchiveTypes
  <2> QED
    BY <2>1, ArchiveGrows
<1>2. JobInv(i)
  BY DEF ArchiveIInv, ArchiveRules
<1>3. /\ phase'[i] = phase[i] /\ todo'[i] = todo[i] /\ async'[i] = async[i]
      /\ job'[i] = job[i] /\ payload'[i] = payload[i]
  BY DEF Elsewhere
<1>4. job[i] = "over" /\ ~async[i] /\ i \notin unlucky' =>
        \E k \in DOMAIN archive' : archive'[k].run = i
  BY <1>1, <1>2 DEF JobInv
<1> QED
  BY <1>2, <1>3, <1>4 DEF JobInv

\* The order, when none begins and one may end.
LEMMA OrderKept ==
    ASSUME ArchiveIInv, Started' = Started, Active' \subseteq Active, shared' = shared
    PROVE  OrderInv'
BY DEF ArchiveIInv, ArchiveRules, OrderInv

\* The rows that are there, when none begins.
LEMMA RowKept ==
    ASSUME Started' = Started, shared' = shared, unlucky \subseteq unlucky',
           selected' = selected, NEW row, job[row.run] = "over" => job'[row.run] = "over",
           RowInv(row)
    PROVE  RowInv(row)'
BY DEF RowInv

\* A row is in its place in the new archive.
LEMMA RowStays ==
    ASSUME NEW row, NEW k, archive'[k] = row, RowInv(row)'
    PROVE  RowInv(archive[k])'
BY DEF RowInv

\* The rows and what is shown of them, when none begins, ends badly or is archived.
LEMMA RowsKept ==
    ASSUME ArchiveIInv, Started' = Started, shared' = shared, unlucky \subseteq unlucky',
           selected' = selected, \A i \in Invocations : job[i] = "over" => job'[i] = "over",
           archive' = archive, view' = view
    PROVE  (\A k \in DOMAIN archive : RowInv(archive[k]))' /\ RowsInOrder' /\ SummaryIsForward'
<1>1. ASSUME NEW k \in DOMAIN archive PROVE RowInv(archive[k])'
  <2>1. RowInv(archive[k]) /\ archive[k].run \in Invocations
    BY RowType DEF ArchiveIInv, ArchiveRules
  <2> DEFINE row == archive[k]
  <2>2. archive'[k] = archive[k]
    OBVIOUS
  <2>3. job'[archive[k].run] = "over"
    BY <2>1 DEF RowInv
  <2> QED
    BY <2>1, <2>2, <2>3 DEF RowInv
<1> QED
  BY <1>1 DEF ArchiveIInv, ArchiveRules, RowsInOrder, SummaryIsForward

-----------------------------------------------------------------------------
(* Types                                                                   *)

\* The stage that an invocation is in.
LEMMA CurrentType ==
    ASSUME ArchiveIInv, NEW i \in Invocations, todo[i] # {}
    PROVE  Current(i) \in todo[i] /\ Current(i) \in Stages
<1>1. todo[i] \subseteq Stages /\ todo[i] \subseteq Nat
  BY DEF ArchiveIInv, ArchiveRules, ArchiveTypes, Stages
<1> QED
  BY <1>1, MinIsMember DEF Current

\* The two newest rows.
LEMMA Recent ==
    ASSUME archive \in Seq(Row), Len(archive) >= 2
    PROVE  /\ Newest = archive[Len(archive)] /\ list_recent(2)[1] = archive[Len(archive)]
           /\ Prior = archive[Len(archive) - 1] /\ list_recent(2)[2] = archive[Len(archive) - 1]
           /\ Len(archive) \in DOMAIN archive /\ Len(archive) - 1 \in DOMAIN archive
<1>1. Min({2, Len(archive)}) = 2
  <2>1. {2, Len(archive)} \subseteq Nat
    BY LenProperties
  <2>2. /\ Min({2, Len(archive)}) \in {2, Len(archive)}
        /\ \A y \in {2, Len(archive)} : Min({2, Len(archive)}) <= y
    BY <2>1, MinIsMember
  <2> QED
    BY <2>1, <2>2
<1> DEFINE rev == Reverse(archive)
<1>2. rev \in Seq(Row) /\ Len(rev) = Len(archive) /\ rev[1] = archive[Len(archive)]
      /\ rev[2] = archive[Len(archive) - 1]
  <2>1. \A k \in 1..Len(archive) : archive[(Len(archive) - k) + 1] \in Row
    BY LenProperties
  <2>2. Len(archive) \in Nat
    BY LenProperties
  <2>3. rev \in [1..Len(archive) -> Row]
    BY <2>1 DEF Reverse
  <2> QED
    BY <2>2, <2>3, IsASeq DEF Reverse
<1>3. list_recent(2) = SubSeq(rev, 1, 2)
  BY <1>1 DEF list_recent
<1>4. list_recent(2)[1] = rev[1] /\ list_recent(2)[2] = rev[2]
  <2> HIDE DEF rev
  <2> QED
    BY <1>2, <1>3, SubSeqProperties
<1> QED
  BY <1>2, <1>4, LenProperties DEF Newest, Prior

\* The invocation whose results of a stage are the latest.
LEMMA LatestResult ==
    ASSUME ArchiveIInv, NEW s \in Stages, dir.results[s] # {}
    PROVE  Max(dir.results[s]) \in dir.results[s] /\ Max(dir.results[s]) \in Invocations
<1>1. dir.results[s] \subseteq Invocations
  BY DEF ArchiveIInv, ArchiveRules, ArchiveTypes, Contents
<1>2. Latest \in Nat /\ dir.results[s] \subseteq 0..Latest
  BY <1>1, LastAssumption DEF Invocations
<1> QED
  BY <1>1, <1>2, MaxIsMember

\* The first and the last of some stages.
LEMMA LastStage ==
    ASSUME NEW S, S \subseteq Stages, S # {}
    PROVE  Max(S) \in S /\ Min(S) \in S
<1>1. StageCount \in Nat /\ S \subseteq 0..StageCount /\ S \subseteq Nat
  BY StageCountAssumption DEF Stages
<1> QED
  BY <1>1, MaxIsMember, MinIsMember

\* Empty is such contents, and so is what is put together of their parts.
LEMMA ContentsType ==
    /\ Empty \in Contents
    /\ \A c \in Contents : /\ c.results \in [Stages -> SUBSET Invocations]
                           /\ c.history \in [Stages -> 0..Latest]
    /\ \A r \in [Stages -> SUBSET Invocations], h \in [Stages -> 0..Latest] :
            [results |-> r, history |-> h] \in Contents
BY LastAssumption DEF Contents, Empty, None

\* The program keeps the types, ...
LEMMA TypesOfRun ==
    ASSUME ArchiveIInv, NEW i \in Invocations, Run(i)
    PROVE  ArchiveTypes'
<1>0. ArchiveTypes
  BY DEF ArchiveIInv, ArchiveRules
<1>1. CASE Begin(i)
  BY <1>0, <1>1, SelectionsAssumption DEF Begin, ArchiveTypes, Active, archiving, reading
<1>2. CASE StageBegins(i)
  <2>1. Current(i) \in Stages
    BY <1>2, CurrentType DEF StageBegins
  <2>2. dir' \in Contents
    <3>1. dir' = [results |-> [dir.results EXCEPT ![Current(i)] = {}],
                  history |-> [dir.history EXCEPT ![Current(i)] = None]]
      BY <1>0, <1>2 DEF StageBegins, ArchiveTypes, Contents
    <3>2. /\ [dir.results EXCEPT ![Current(i)] = {}] \in [Stages -> SUBSET Invocations]
          /\ [dir.history EXCEPT ![Current(i)] = None] \in [Stages -> 0..Latest]
      BY <1>0, <2>1, ContentsType, LastAssumption DEF ArchiveTypes, None
    <3> QED
      BY <3>1, <3>2, ContentsType
  <2> QED
    BY <1>0, <1>2, <2>2 DEF StageBegins, ArchiveTypes, archiving, reading
<1>3. CASE StageEnds(i)
  <2>1. Current(i) \in Stages
    BY <1>3, CurrentType DEF StageEnds, ArchiveIInv, ArchiveRules, JobInv
  <2>2. dir.results[Current(i)] \cup {i} \in SUBSET Invocations
    BY <1>0, <2>1, ContentsType DEF ArchiveTypes
  <2>3. dir' \in Contents
    <3>1. [dir.results EXCEPT ![Current(i)] = @ \cup {i}] \in [Stages -> SUBSET Invocations]
      BY <1>0, <2>2, ContentsType DEF ArchiveTypes
    <3>2. dir' = [results |-> [dir.results EXCEPT ![Current(i)] = @ \cup {i}],
                  history |-> dir.history]
      BY <1>0, <1>3 DEF StageEnds, ArchiveTypes, Contents
    <3> QED
      BY <1>0, <3>1, <3>2, ContentsType DEF ArchiveTypes
  <2> QED
    BY <1>0, <1>3, <2>3 DEF StageEnds, ArchiveTypes, archiving, reading
<1>4. CASE Persist(i)
  <2>1. plan_result' \in 0..Latest
    BY <1>0, <1>4, LastAssumption DEF Persist, ArchiveTypes, Invocations
  <2>2. events' \in 0..MaxEvents /\ unlucky' \subseteq Invocations
    BY <1>0, <1>4, MaxEventsAssumption DEF Persist, NoFault, Fault, Event, ArchiveTypes
  <2> QED
    BY <1>0, <1>4, <2>1, <2>2 DEF Persist, ArchiveTypes, archiving, reading
<1>5. CASE NoArchive(i)
  BY <1>0, <1>5 DEF NoArchive, ArchiveTypes, archiving, reading
<1>6. CASE Archive(i)
  BY <1>0, <1>6 DEF Archive, ArchiveTypes, reading
<1>7. CASE Exit(i)
  <2>1. Empty \in Contents /\ Empty.results \in [Stages -> SUBSET Invocations] /\ None \in 0..Latest
    BY ContentsType, LastAssumption DEF None
  <2> QED
    BY <1>0, <1>7, <2>1 DEF Exit, Forget, ArchiveTypes, reading
<1> QED
  BY <1>1, <1>2, <1>3, <1>4, <1>5, <1>6, <1>7 DEF Run

\* ... its archiving does, ...
LEMMA TypesOfJob ==
    ASSUME ArchiveIInv, NEW i \in Invocations, Job(i)
    PROVE  ArchiveTypes'
<1>0. ArchiveTypes
  BY DEF ArchiveIInv, ArchiveRules
<1>e. Empty \in Contents /\ Empty.results \in [Stages -> SUBSET Invocations] /\ None \in 0..Latest
  BY ContentsType, LastAssumption DEF None
<1>1. CASE ListFiles(i)
  BY <1>0, <1>1 DEF ListFiles, JobStep, ArchiveTypes, invocation, reading
<1>2. CASE ZipFiles(i)
  <2>1. \A s \in Stages : /\ payload[i].results[s] \cap dir.results[s] \in SUBSET Invocations
                          /\ dir.history[s] \in 0..Latest
    BY <1>0, ContentsType DEF ArchiveTypes
  <2>2. StillThere(i) \in Contents
    BY <1>e, <2>1, ContentsType DEF StillThere
  <2> QED
    BY <1>0, <1>2, <2>2 DEF ZipFiles, JobStep, ArchiveTypes, invocation, reading
<1>3. CASE ReadSummary(i)
  BY <1>0, <1>3 DEF ReadSummary, JobStep, ArchiveTypes, invocation, reading
<1>4. CASE Measure(i)
  BY <1>0, <1>4, ContentsType DEF Measure, JobStep, ArchiveTypes, invocation, reading
<1>5. CASE Insert(i)
  <2>1. [run |-> i, content |-> payload[i], summary |-> summary[i], metrics |-> measured[i]] \in Row
    BY <1>0 DEF ArchiveTypes, Row
  <2>2. archive' \in Seq(Row)
    BY <1>0, <1>5, <2>1, ArchiveGrows DEF Insert, ArchiveTypes
  <2> QED
    BY <1>0, <1>e, <1>5, <2>2 DEF Insert, JobStep, Forget, ArchiveTypes, invocation, reading
<1>6. CASE ArchiveFails(i)
  <2>1. events' \in 0..MaxEvents /\ unlucky' \subseteq Invocations
    BY <1>0, <1>6, MaxEventsAssumption DEF ArchiveFails, Fault, Event, ArchiveTypes
  <2> QED
    BY <1>0, <1>e, <1>6, <2>1 DEF ArchiveFails, Forget, ArchiveTypes, invocation, reading
<1> QED
  BY <1>1, <1>2, <1>3, <1>4, <1>5, <1>6 DEF Job

\* The commands that read, and what comes from outside.
Reads == ReportBegins \/ Inject \/ Generate \/ OpenArchived \/ Summary
         \/ \E s \in Stages : HistoryFromOutside(s)

\* The directory after an injection.
Injected ==
    \/ dir' = dir
    \/ /\ Len(archive) >= 2
       /\ \E s, t \in Stages : /\ dir' = [dir EXCEPT !.history[s] = Prior.content.history[t]]
                               /\ Prior.content.history[t] \in 0..Latest

\* A history is copied only from the row before the newest.
LEMMA InjectCopies == ASSUME ArchiveIInv, Inject PROVE Injected
<1> DEFINE found == IF Len(archive) < 2 THEN {}
                    ELSE {s \in Stages : Prior.content.history[s] # None}
<1>1. dir' = IF found = {} \/ Collected = {} THEN dir
             ELSE [dir EXCEPT !.history[Min(Collected)] = Prior.content.history[Max(found)]]
  BY DEF Inject
<1>2. CASE found = {} \/ Collected = {}
  BY <1>1, <1>2 DEF Injected
<1>3. CASE found # {} /\ Collected # {}
  <2>1. archive \in Seq(Row) /\ Len(archive) \in Nat /\ Len(archive) >= 2
    <3>1. archive \in Seq(Row)
      BY DEF ArchiveIInv, ArchiveRules, ArchiveTypes
    <3>2. Len(archive) \in Nat
      BY <3>1, LenProperties
    <3> QED
      BY <1>3, <3>1, <3>2
  <2>2. Min(Collected) \in Stages
    BY <1>3, LastStage DEF Collected
  <2>3. Max(found) \in Stages
    BY <1>3, <2>1, LastStage
  <2>4. Prior.content \in Contents
    BY <2>1, Recent, RowType DEF Row
  <2>5. Prior.content.history[Max(found)] \in 0..Latest
    BY <2>3, <2>4, ContentsType
  <2> HIDE DEF found
  <2> QED
    BY <1>1, <1>3, <2>1, <2>2, <2>3, <2>5 DEF Injected
<1> QED
  BY <1>2, <1>3

\* ... and so do the commands that read.
LEMMA TypesOfReads ==
    ASSUME ArchiveIInv, Reads
    PROVE  ArchiveTypes'
<1>0. ArchiveTypes
  BY DEF ArchiveIInv, ArchiveRules
<1>1. CASE ReportBegins
  BY <1>0, <1>1, MaxEventsAssumption DEF ReportBegins, Event, ArchiveTypes, invocation, archiving
<1>2. CASE Inject
  <2>1. dir' \in Contents
    <3>1. CASE dir' = dir
      BY <1>0, <3>1 DEF ArchiveTypes
    <3>2. ASSUME NEW s \in Stages, NEW h \in 0..Latest, dir' = [dir EXCEPT !.history[s] = h]
          PROVE  dir' \in Contents
      BY <1>0, <3>2 DEF ArchiveTypes, Contents
    <3> QED
      BY <1>2, <3>1, <3>2, InjectCopies DEF Injected
  <2> QED
    BY <1>0, <1>2, <2>1 DEF Inject, ArchiveTypes, invocation, archiving
<1>3. CASE Generate
  BY <1>0, <1>3 DEF Generate, ArchiveTypes, invocation, archiving, Nothing
<1>4. CASE OpenArchived
  BY <1>0, <1>4, MaxEventsAssumption DEF OpenArchived, Event, ArchiveTypes, invocation, archiving
<1>5. CASE Summary
  BY <1>0, <1>5, MaxEventsAssumption DEF Summary, Event, ArchiveTypes, invocation, archiving
<1>6. ASSUME NEW s \in Stages, HistoryFromOutside(s) PROVE ArchiveTypes'
  <2>1. Max(dir.results[s]) \in 0..Latest
    BY <1>6, LatestResult, LastAssumption DEF HistoryFromOutside, Invocations
  <2>2. dir' \in Contents
    BY <1>0, <1>6, <2>1 DEF HistoryFromOutside, ArchiveTypes, Contents
  <2> QED
    BY <1>0, <1>6, <2>2, MaxEventsAssumption
    DEF HistoryFromOutside, Event, ArchiveTypes, invocation, archiving, reading
<1> QED
  BY <1>1, <1>2, <1>3, <1>4, <1>5, <1>6 DEF Reads

-----------------------------------------------------------------------------
(* The steps                                                               *)

\* A step of one invocation that is under way, which neither begins one nor archives one.
LEMMA RulesKept ==
    ASSUME ArchiveIInv, NEW p \in Active, Elsewhere(p), Started' = Started,
           Active' \subseteq Active, shared' = shared, unlucky \subseteq unlucky',
           selected' = selected,
           job[p] = "over" => job'[p] = "over",
           archive' = archive, view' = view, DirInv', AloneInv(p)', JobInv(p)'
    PROVE  ArchiveRules'
<1>1. OrderInv'
  BY OrderKept
<1>2. \A i \in Invocations : AloneInv(i)' /\ JobInv(i)'
  BY OthersShare, OthersJob
<1>3. \A i \in Invocations : job[i] = "over" => job'[i] = "over"
  BY DEF Elsewhere
<1>4. (\A k \in DOMAIN archive : RowInv(archive[k]))' /\ RowsInOrder' /\ SummaryIsForward'
  BY <1>3, RowsKept
<1> QED
  BY <1>1, <1>2, <1>4 DEF ArchiveRules

\* One that begins while another is under way shares with it; otherwise it is alone.
LEMMA BeginKeeps ==
    ASSUME ArchiveIInv, NEW p \in Invocations, Begin(p)
    PROVE  ArchiveRules'
<1> USE DEF ArchiveIInv, ArchiveRules
<1>1. /\ phase' = [phase EXCEPT ![p] = "between"] /\ phase[p] = "new"
      /\ Started' = Started \cup {p} /\ Active' = Active \cup {p} /\ p \notin Started
  BY DEF Begin, Started, Active, ArchiveTypes
<1>2. \A j \in Started : j < p
  <2> SUFFICES ASSUME NEW j \in Started, ~(j < p) PROVE FALSE
    OBVIOUS
  <2>1. j \in Invocations /\ j \in Int /\ p \in Int /\ j # p
    BY <1>1 DEF Started, Invocations
  <2> QED
    BY <1>1, <2>1 DEF OrderInv
<1>3. \A j \in Invocations : j < p => j \in Started
  BY DEF Begin, Started, Invocations
<1>4. shared \subseteq shared' /\ (Active # {} => Active \cup {p} \subseteq shared')
  BY DEF Begin
<1>5. Elsewhere(p) /\ Active \subseteq Started
  BY DEF Begin, Elsewhere, ArchiveTypes, archiving, Active, Started
<1>6. OrderInv'
  <2> SUFFICES ASSUME NEW i \in Invocations, NEW j \in Invocations, i < j, j \in Started'
               PROVE  i \in Started' /\ (i \in Active' => {i, j} \subseteq shared')
    BY DEF OrderInv
  <2>1. CASE j = p
    BY <1>1, <1>3, <1>4, <2>1 DEF Invocations
  <2>2. CASE j # p
    <3>1. j \in Started /\ i # p
      BY <1>1, <1>2, <2>2 DEF Invocations
    <3> QED
      BY <1>1, <1>4, <3>1 DEF OrderInv
  <2> QED
    BY <2>1, <2>2
<1>7. DirInv'
  BY <1>1 DEF DirInv, Begin
<1>8. ASSUME NEW i \in Invocations PROVE AloneInv(i)'
  <2>1. CASE i = p
    <3>1. /\ job'[p] = "none" /\ phase'[p] = "between" /\ selected'[p] = todo'[p]
      BY <1>1 DEF JobInv, Begin, archiving, ArchiveTypes
    <3> QED
      BY <2>1, <3>1 DEF AloneInv
  <2>2. CASE i # p
    BY <1>1, <1>4, <2>2 DEF AloneInv
  <2> QED
    BY <2>1, <2>2
<1>9. ASSUME NEW i \in Invocations PROVE JobInv(i)'
  <2>1. CASE i = p
    <3>1. JobInv(p)
      OBVIOUS
    <3> QED
      BY <1>1, <2>1, <3>1 DEF JobInv, Begin, archiving, ArchiveTypes
  <2>2. CASE i # p
    BY <1>1, <1>5, <2>2, OthersJob DEF Begin
  <2> QED
    BY <2>1, <2>2
<1>10. archive' = archive /\ view' = view /\ job' = job /\ unlucky' = unlucky
  BY DEF Begin, archiving, reading
<1>11. ASSUME NEW row \in Row, RowInv(row) PROVE RowInv(row)'
  <2>1. row.run \in Invocations /\ job[row.run] = "over"
    BY <1>11 DEF Row, RowInv
  <2>2. row.run # p
    <3>1. job[p] = "none"
      BY <1>1 DEF JobInv
    <3> QED
      BY <2>1, <3>1
  <2>3. selected'[row.run] = selected[row.run]
    BY <1>5, <2>1, <2>2 DEF Elsewhere
  <2>4. row.run \notin shared' => row.run \notin shared
    BY <1>4
  <2>5. \A s \in Stages : row.content.history[s] \in Started' \cup {None}
    BY <1>1, <1>11 DEF RowInv
  <2>6. ASSUME NEW i \in Started', row.run < i, i \notin shared', NEW s \in Stages
        PROVE  row.content.history[s] < i
    <3>1. CASE i = p
      <4>1. row.content.history[s] \in Started \cup {None}
        BY <1>11 DEF RowInv
      <4>2. None < p
        BY DEF None, Invocations
      <4> QED
        BY <1>2, <3>1, <4>1, <4>2
    <3>2. CASE i # p
      BY <1>1, <1>4, <1>11, <2>6, <3>2 DEF RowInv
    <3> QED
      BY <3>1, <3>2
  <2> QED
    BY <1>10, <1>11, <2>1, <2>3, <2>4, <2>5, <2>6 DEF RowInv
<1>12. (\A k \in DOMAIN archive : RowInv(archive[k]))'
  <2>1. ASSUME NEW k \in DOMAIN archive PROVE RowInv(archive[k])'
    <3>1. PICK row \in Row : row = archive[k]
      BY RowType
    <3>2. archive'[k] = row /\ RowInv(row)
      BY <1>10, <3>1
    <3>3. RowInv(row)'
      BY <1>11, <3>2
    <3> QED
      BY <3>2, <3>3, RowStays
  <2> QED
    BY <1>10, <2>1
<1>14. RowsInOrder' /\ SummaryIsForward'
  BY <1>4, <1>10 DEF RowsInOrder, SummaryIsForward
<1> QED
  BY <1>6, <1>7, <1>8, <1>9, <1>12, <1>14

\* The other steps of an invocation.
LEMMA RunKeeps ==
    ASSUME ArchiveIInv, NEW p \in Invocations, Run(p)
    PROVE  ArchiveRules'
<1> USE DEF ArchiveIInv, ArchiveRules
<1>t. ArchiveTypes /\ JobInv(p) /\ AloneInv(p) /\ DirInv
  OBVIOUS
<1>1. CASE Begin(p)
  BY <1>1, BeginKeeps
<1>2. CASE StageBegins(p)
  <2>1. /\ p \in Active /\ Elsewhere(p) /\ Started' = Started /\ Active' \subseteq Active
        /\ shared' = shared /\ unlucky \subseteq unlucky' /\ selected' = selected
        /\ job' = job /\ archive' = archive /\ view' = view
    BY <1>t, <1>2 DEF StageBegins, Elsewhere, Started, Active, ArchiveTypes, archiving, reading
  <2>2. Current(p) \in Stages /\ Current(p)' = Current(p)
    BY <1>2, CurrentType DEF StageBegins, Current
  <2>3. \A s \in Stages : /\ dir'.results[s] = IF s = Current(p) THEN {} ELSE dir.results[s]
                          /\ dir'.history[s] = IF s = Current(p) THEN None ELSE dir.history[s]
    BY <1>t, <1>2, <2>2 DEF StageBegins, ArchiveTypes, Contents
  <2>4. DirInv'
    BY <1>t, <2>1, <2>3 DEF DirInv
  <2>5. job'[p] = "none" /\ phase'[p] = "stage" /\ todo' = todo /\ payload' = payload
    BY <1>t, <1>2 DEF StageBegins, JobInv, ArchiveTypes, archiving
  <2>6. AloneInv(p)'
    <3> SUFFICES ASSUME p \in Active' \ shared', NEW s \in selected[p],
                        s \notin todo[p] \/ s = Current(p)
                 PROVE  dir'.results[s] \subseteq {p}
      BY <2>1, <2>2, <2>5 DEF AloneInv
    <3>1. s \in Stages
      BY <1>t DEF ArchiveTypes
    <3> QED
      BY <1>t, <2>1, <2>3, <3>1 DEF AloneInv
  <2>7. JobInv(p)'
    BY <1>t, <1>2, <2>1, <2>5 DEF JobInv, StageBegins
  <2> QED
    BY <2>1, <2>4, <2>6, <2>7, RulesKept
<1>3. CASE StageEnds(p)
  <2>1. /\ p \in Active /\ Elsewhere(p) /\ Started' = Started /\ Active' \subseteq Active
        /\ shared' = shared /\ unlucky \subseteq unlucky' /\ selected' = selected
        /\ job' = job /\ archive' = archive /\ view' = view
    BY <1>t, <1>3 DEF StageEnds, Elsewhere, Started, Active, ArchiveTypes, archiving, reading
  <2>2. Current(p) \in Stages
    BY <1>t, <1>3, CurrentType DEF StageEnds, JobInv
  <2>3. \A s \in Stages :
            /\ dir'.results[s] = IF s = Current(p) THEN dir.results[s] \cup {p} ELSE dir.results[s]
            /\ dir'.history[s] = dir.history[s]
    BY <1>t, <1>3, <2>2 DEF StageEnds, ArchiveTypes, Contents
  <2>4. DirInv'
    <3>1. p \in Started
      BY <2>1 DEF Active, Started
    <3> QED
      BY <1>t, <2>1, <2>3, <3>1 DEF DirInv
  <2>5. /\ job'[p] = "none" /\ phase'[p] = "between" /\ payload' = payload
        /\ todo'[p] = todo[p] \ {Current(p)}
    BY <1>t, <1>3 DEF StageEnds, JobInv, ArchiveTypes, archiving
  <2>6. AloneInv(p)'
    <3> SUFFICES ASSUME p \in Active' \ shared', NEW s \in selected[p], s \notin todo'[p]
                 PROVE  dir'.results[s] \subseteq {p}
      BY <2>1, <2>5 DEF AloneInv
    <3>1. s \in Stages
      BY <1>t DEF ArchiveTypes
    <3>2. dir.results[s] \subseteq {p}
      BY <1>t, <1>3, <2>1, <2>5 DEF AloneInv, StageEnds
    <3> QED
      BY <2>3, <3>1, <3>2
  <2>7. JobInv(p)'
    BY <1>t, <2>1, <2>5 DEF JobInv
  <2> QED
    BY <2>1, <2>4, <2>6, <2>7, RulesKept
<1>4. CASE Persist(p)
  <2>1. /\ p \in Active /\ Elsewhere(p) /\ Started' = Started /\ Active' \subseteq Active
        /\ shared' = shared /\ unlucky \subseteq unlucky' /\ selected' = selected
        /\ job' = job /\ archive' = archive /\ view' = view
    BY <1>t, <1>4 DEF Persist, NoFault, Fault, Elsewhere, Started, Active, ArchiveTypes,
                      archiving, reading
  <2>2. /\ job'[p] = "none" /\ phase'[p] = "persist" /\ payload' = payload
        /\ todo' = todo /\ todo[p] = {} /\ dir' = dir /\ phase[p] = "between"
        /\ plan_result' = p \/ p \in unlucky'
    BY <1>t, <1>4 DEF Persist, Fault, JobInv, ArchiveTypes, archiving
  <2>3. DirInv'
    BY <1>t, <2>1, <2>2 DEF DirInv
  <2>4. AloneInv(p)'
    BY <1>t, <2>1, <2>2 DEF AloneInv
  <2>5. JobInv(p)'
    BY <1>t, <2>1, <2>2 DEF JobInv
  <2> QED
    BY <2>1, <2>3, <2>4, <2>5, RulesKept
<1>5. CASE NoArchive(p)
  <2>1. /\ p \in Active /\ Elsewhere(p) /\ Started' = Started /\ Active' \subseteq Active
        /\ shared' = shared /\ unlucky \subseteq unlucky' /\ selected' = selected
        /\ job' = job /\ archive' = archive /\ view' = view
    BY <1>t, <1>5 DEF NoArchive, Elsewhere, Started, Active, ArchiveTypes, archiving, reading
  <2>2. job'[p] = "none" /\ phase'[p] = "exit" /\ payload' = payload /\ dir' = dir
    BY <1>t, <1>5 DEF NoArchive, JobInv, ArchiveTypes, archiving
  <2>3. DirInv'
    BY <1>t, <2>1, <2>2 DEF DirInv
  <2>4. AloneInv(p)'
    BY <2>2 DEF AloneInv, Active
  <2>5. JobInv(p)'
    BY <1>t, <2>1, <2>2 DEF JobInv
  <2> QED
    BY <2>1, <2>3, <2>4, <2>5, RulesKept
<1>6. CASE Archive(p)
  <2>1. /\ p \in Active /\ Elsewhere(p) /\ Started' = Started /\ Active' \subseteq Active
        /\ shared' = shared /\ unlucky' = unlucky /\ selected' = selected
        /\ job[p] = "none" /\ archive' = archive /\ view' = view
    BY <1>t, <1>6 DEF Archive, Elsewhere, Started, Active, JobInv, ArchiveTypes, reading
  <2>2. /\ job'[p] = "list" /\ phase'[p] = "archive" /\ payload' = payload /\ dir' = dir
        /\ phase[p] = "persist" /\ plan_result' = plan_result /\ todo' = todo
    BY <1>t, <1>6 DEF Archive, ArchiveTypes
  <2>3. DirInv'
    BY <1>t, <2>1, <2>2 DEF DirInv
  <2>4. AloneInv(p)'
    BY <1>t, <2>1, <2>2 DEF AloneInv
  <2>5. JobInv(p)'
    BY <1>t, <2>1, <2>2 DEF JobInv
  <2> QED
    BY <2>1, <2>3, <2>4, <2>5, RulesKept
<1>7. CASE Exit(p)
  <2>1. /\ p \in Active /\ Elsewhere(p) /\ Started' = Started /\ Active' \subseteq Active
        /\ shared' = shared /\ unlucky' = unlucky /\ selected' = selected
        /\ archive' = archive /\ view' = view
    BY <1>t, <1>7 DEF Exit, Forget, Elsewhere, Started, Active, ArchiveTypes, reading
  <2>2. /\ job'[p] = "over" /\ phase'[p] = "exit" /\ payload'[p] = Empty /\ dir' = dir
        /\ async' = async /\ (async[p] \/ job[p] = "over")
    BY <1>t, <1>7 DEF Exit, Waited, MayExit, Forget, ArchiveTypes
  <2>3. DirInv'
    BY <1>t, <2>1, <2>2 DEF DirInv
  <2>4. AloneInv(p)'
    BY <2>2 DEF AloneInv, Active
  <2>5. JobInv(p)'
    BY <1>t, <2>1, <2>2 DEF JobInv, Empty
  <2> QED
    BY <2>1, <2>2, <2>3, <2>4, <2>5, RulesKept
<1> QED
  BY <1>1, <1>2, <1>3, <1>4, <1>5, <1>6, <1>7 DEF Run

\* The archiving of a cycle: its invocation is in its last phase.
LEMMA JobIsActive ==
    ASSUME ArchiveIInv, NEW p \in Invocations, job[p] \notin {"none", "over"}
    PROVE  phase[p] = "archive" /\ p \in Active
BY DEF ArchiveIInv, ArchiveRules, ArchiveTypes, JobInv, Active

\* Up to the insertion.
LEMMA ReadingJobKeeps ==
    ASSUME ArchiveIInv, NEW p \in Invocations,
           ListFiles(p) \/ ZipFiles(p) \/ ReadSummary(p) \/ Measure(p)
    PROVE  ArchiveRules'
<1> USE DEF ArchiveIInv, ArchiveRules
<1>t. ArchiveTypes /\ JobInv(p) /\ AloneInv(p) /\ DirInv
  OBVIOUS
<1>1. phase[p] = "archive" /\ p \in Active
  BY JobIsActive DEF ListFiles, ZipFiles, ReadSummary, Measure, JobStep
<1>2. /\ Elsewhere(p) /\ Started' = Started /\ Active' = Active
      /\ shared' = shared /\ unlucky' = unlucky /\ selected' = selected
      /\ archive' = archive /\ view' = view /\ dir' = dir /\ plan_result' = plan_result
      /\ phase' = phase /\ todo' = todo /\ async' = async
      /\ job[p] # "over" /\ job' = [job EXCEPT ![p] = job'[p]]
  BY <1>t DEF ListFiles, ZipFiles, ReadSummary, Measure, JobStep, Elsewhere, Started, Active,
              ArchiveTypes, invocation, reading
<1>3. DirInv'
  BY <1>t, <1>2 DEF DirInv
<1>4. AloneInv(p)' /\ JobInv(p)'
  <2>1. CASE ListFiles(p)
    <3>1. job'[p] = "zip" /\ payload'[p] = dir
      BY <1>t, <2>1 DEF ListFiles, JobStep, ArchiveTypes
    <3> QED
      BY <1>t, <1>1, <1>2, <3>1 DEF AloneInv, JobInv, DirInv
  <2>2. CASE ZipFiles(p)
    <3>1. job[p] = "zip" /\ job'[p] = "read" /\ payload'[p] = StillThere(p)
      BY <1>t, <2>2 DEF ZipFiles, JobStep, ArchiveTypes
    <3>2. ASSUME payload[p].results = dir.results PROVE StillThere(p).results = dir.results
      <4>1. dir.results = [s \in Stages |-> dir.results[s]]
        BY <1>t, ContentsType DEF ArchiveTypes
      <4>2. \A s \in Stages : payload[p].results[s] \cap dir.results[s] = dir.results[s]
        BY <3>2
      <4>3. StillThere(p).results = [s \in Stages |-> payload[p].results[s] \cap dir.results[s]]
        BY DEF StillThere
      <4> QED
        BY <4>1, <4>2, <4>3
    <3>3. \A s \in Stages : StillThere(p).history[s] \in Started \cup {None}
      BY <1>t DEF StillThere, DirInv
    <3> QED
      BY <1>t, <1>1, <1>2, <3>1, <3>2, <3>3 DEF AloneInv, JobInv
  <2>3. CASE ReadSummary(p)
    <3>1. /\ job[p] = "read" /\ job'[p] = "measure" /\ payload' = payload
          /\ summary'[p] = plan_result
      BY <1>t, <2>3 DEF ReadSummary, JobStep, ArchiveTypes
    <3> QED
      BY <1>t, <1>1, <1>2, <3>1 DEF AloneInv, JobInv
  <2>4. CASE Measure(p)
    <3>1. /\ job[p] = "measure" /\ job'[p] = "insert" /\ payload' = payload
          /\ summary' = summary /\ measured'[p] = dir.results
      BY <1>t, <2>4 DEF Measure, JobStep, ArchiveTypes
    <3> QED
      BY <1>t, <1>1, <1>2, <3>1 DEF AloneInv, JobInv
  <2> QED
    BY <2>1, <2>2, <2>3, <2>4
<1> QED
  BY <1>1, <1>2, <1>3, <1>4, RulesKept

\* An archive that fails has been unlucky.
LEMMA FailureKeeps ==
    ASSUME ArchiveIInv, NEW p \in Invocations, ArchiveFails(p)
    PROVE  ArchiveRules'
<1> USE DEF ArchiveIInv, ArchiveRules
<1>t. ArchiveTypes /\ JobInv(p) /\ DirInv
  OBVIOUS
<1>1. phase[p] = "archive" /\ p \in Active
  BY JobIsActive DEF ArchiveFails
<1>2. /\ Elsewhere(p) /\ Started' = Started /\ Active' = Active
      /\ shared' = shared /\ unlucky' = unlucky \cup {p} /\ selected' = selected
      /\ archive' = archive /\ view' = view /\ dir' = dir
      /\ phase' = phase /\ todo' = todo /\ job'[p] = "over" /\ payload'[p] = Empty
  BY <1>t DEF ArchiveFails, Fault, Forget, Elsewhere, Started, Active, ArchiveTypes,
              invocation, reading
<1>3. DirInv'
  BY <1>t, <1>2 DEF DirInv
<1>4. AloneInv(p)' /\ JobInv(p)'
  BY <1>t, <1>1, <1>2 DEF AloneInv, JobInv, Empty
<1> QED
  BY <1>1, <1>2, <1>3, <1>4, RulesKept

\* The row of an invocation that had the directory to itself is its own.
LEMMA InsertKeeps ==
    ASSUME ArchiveIInv, NEW p \in Invocations, Insert(p)
    PROVE  ArchiveRules'
<1> USE DEF ArchiveIInv, ArchiveRules
<1>t. ArchiveTypes /\ JobInv(p) /\ AloneInv(p) /\ DirInv /\ OrderInv /\ RowsInOrder
  OBVIOUS
<1>1. phase[p] = "archive" /\ p \in Active /\ job[p] = "insert" /\ todo[p] = {}
  <2>1. job[p] = "insert"
    BY DEF Insert, JobStep
  <2> QED
    BY <1>t, <2>1, JobIsActive DEF JobInv
<1>2. /\ Elsewhere(p) /\ Started' = Started /\ Active' = Active
      /\ shared' = shared /\ unlucky' = unlucky /\ selected' = selected
      /\ view' = view /\ dir' = dir
      /\ phase' = phase /\ todo' = todo /\ job' = [job EXCEPT ![p] = "over"] /\ payload'[p] = Empty
  BY <1>t DEF Insert, JobStep, Forget, Elsewhere, Started, Active, ArchiveTypes,
              invocation, reading
<1> DEFINE row == [run |-> p, content |-> payload[p], summary |-> summary[p],
                   metrics |-> measured[p]]
<1>3. row \in Row /\ archive' = Append(archive, row)
  BY <1>t DEF Insert, ArchiveTypes, Row
<1>4. /\ archive \in Seq(Row) /\ Len(archive) \in Nat
      /\ DOMAIN archive' = DOMAIN archive \cup {Len(archive) + 1}
      /\ \A k \in DOMAIN archive : archive'[k] = archive[k] /\ k < Len(archive) + 1
      /\ archive'[Len(archive) + 1] = row
  <2>1. archive \in Seq(Row)
    BY <1>t DEF ArchiveTypes
  <2> HIDE DEF row
  <2> QED
    BY <1>3, <2>1, ArchiveGrows
<1>5. OrderInv' /\ DirInv'
  BY <1>t, <1>2 DEF OrderInv, DirInv
<1>6. \A i \in Invocations : AloneInv(i)' /\ JobInv(i)'
  <2>1. JobInv(p)'
    <3>1. archive'[Len(archive) + 1].run = p
      BY <1>4
    <3> QED
      BY <1>1, <1>2, <1>4, <3>1 DEF JobInv, Empty
  <2>2. AloneInv(p)'
    <3>1. job'[p] = "over" /\ plan_result' = plan_result
      BY <1>t, <1>2 DEF Insert, ArchiveTypes
    <3> QED
      BY <1>t, <1>1, <1>2, <3>1 DEF AloneInv
  <2>3. archive' = archive \/ \E r \in Row : archive' = Append(archive, r)
    BY <1>3
  <2> QED
    BY <1>1, <1>2, <2>1, <2>2, <2>3, OthersShare, OthersJob
<1>7. /\ row.run = p /\ row.content = payload[p] /\ row.summary = summary[p]
      /\ row.metrics = measured[p]
  OBVIOUS
<1>8. p \notin shared =>
        /\ \A s \in selected[p] : payload[p].results[s] \subseteq {p}
        /\ \A s \in Stages : \A j \in payload[p].results[s] : j <= p
        /\ measured[p] = payload[p].results
        /\ summary[p] = p \/ p \in unlucky
  <2> SUFFICES ASSUME p \notin shared
               PROVE  /\ \A s \in selected[p] : payload[p].results[s] \subseteq {p}
                      /\ \A s \in Stages : \A j \in payload[p].results[s] : j <= p
                      /\ measured[p] = payload[p].results
                      /\ summary[p] = p \/ p \in unlucky
    OBVIOUS
  <2>1. /\ payload[p].results = dir.results /\ measured[p] = dir.results
        /\ summary[p] = p \/ p \in unlucky
        /\ \A s \in selected[p] : dir.results[s] \subseteq {p}
    BY <1>t, <1>1 DEF AloneInv
  <2>2. \A j \in Started : j <= p
    BY <1>1, Alone
  <2> QED
    BY <1>t, <2>1, <2>2 DEF DirInv
<1>9. \A i \in Started : p < i => {p, i} \subseteq shared
  BY <1>t, <1>1 DEF OrderInv, Started
<1>10. (\A k \in DOMAIN archive : RowInv(archive[k]))'
  <2>1. ASSUME NEW k \in DOMAIN archive PROVE RowInv(archive[k])'
    <3>1. PICK r \in Row : r = archive[k]
      BY RowType
    <3>2. archive'[k] = r /\ RowInv(r)
      BY <1>4, <3>1
    <3>3. job[r.run] = "over" => job'[r.run] = "over"
      BY <1>t, <1>1, <1>2 DEF ArchiveTypes, Row
    <3>4. RowInv(r)'
      BY <1>2, <3>2, <3>3, RowKept
    <3> QED
      BY <3>2, <3>4, RowStays
  <2>2. ASSUME NEW k, k = Len(archive) + 1 PROVE RowInv(archive[k])'
    <3>1. PICK r \in Row : r = row
      BY <1>3
    <3>2. archive'[k] = r
      BY <1>4, <2>2, <3>1
    <3>3. RowInv(r)'
      <4> HIDE DEF row
      <4>1. job'[p] = "over"
        BY <1>t, <1>2 DEF ArchiveTypes
      <4>2. \A s \in Stages : payload[p].history[s] \in Started \cup {None}
        BY <1>t DEF JobInv
      <4> QED
        BY <1>2, <1>7, <1>8, <1>9, <3>1, <4>1, <4>2 DEF RowInv
    <3> QED
      BY <3>2, <3>3, RowStays
  <2> QED
    BY <1>4, <2>1, <2>2
<1>11. RowsInOrder'
  <2>1. ASSUME NEW k \in DOMAIN archive
        PROVE  /\ archive[k].run # p
               /\ archive[k].run < p \/ {archive[k].run, p} \subseteq shared
    <3>1. archive[k].run \in Invocations /\ job[archive[k].run] = "over"
      BY RowType DEF RowInv
    <3>2. archive[k].run \in Started
      BY <3>1 DEF JobInv, Started
    <3>3. archive[k].run # p
      BY <1>1, <3>1
    <3> QED
      BY <1>9, <3>1, <3>2, <3>3 DEF Invocations
  <2> SUFFICES ASSUME NEW k \in DOMAIN archive', NEW l \in DOMAIN archive', k < l
               PROVE  /\ archive'[k].run # archive'[l].run
                      /\ \/ archive'[k].run < archive'[l].run
                         \/ {archive'[k].run, archive'[l].run} \subseteq shared'
    BY DEF RowsInOrder
  <2>2. k \in DOMAIN archive
    BY <1>4
  <2>3. CASE l \in DOMAIN archive
    BY <1>t, <1>2, <1>4, <2>2, <2>3 DEF RowsInOrder
  <2>4. CASE l = Len(archive) + 1
    BY <1>2, <1>4, <1>7, <2>1, <2>2, <2>4
  <2> QED
    BY <1>4, <2>3, <2>4
<1>12. SummaryIsForward'
  BY <1>2 DEF SummaryIsForward
<1> QED
  BY <1>5, <1>6, <1>10, <1>11, <1>12

\* The archiving.
LEMMA JobKeeps ==
    ASSUME ArchiveIInv, NEW p \in Invocations, Job(p)
    PROVE  ArchiveRules'
BY ReadingJobKeeps, InsertKeeps, FailureKeeps DEF Job

\* A command that reads, and what is put among the results, leave the results alone.
LEMMA ReadsKeep ==
    ASSUME ArchiveIInv, Reads
    PROVE  ArchiveRules'
<1> USE DEF ArchiveIInv, ArchiveRules
<1>t. ArchiveTypes /\ DirInv /\ RowsInOrder /\ SummaryIsForward
  OBVIOUS
<1>1. UNCHANGED <<plan_result, invocation, archiving, archive, shared, unlucky>>
  BY DEF Reads, ReportBegins, Inject, Generate, OpenArchived, Summary, HistoryFromOutside
<1>2. Started' = Started /\ Active' = Active
  BY <1>1 DEF Started, Active, invocation
<1>3. /\ \A s \in Stages : dir'.history[s] \in Started \cup {None}
      /\ dir'.results = dir.results
  <2>1. CASE dir' = dir
    BY <1>t, <2>1 DEF DirInv
  <2>2. ASSUME NEW t \in Stages, NEW h \in Started \cup {None}, dir' = [dir EXCEPT !.history[t] = h]
        PROVE  /\ \A s \in Stages : dir'.history[s] \in Started \cup {None}
               /\ dir'.results = dir.results
    BY <1>t, <2>2 DEF DirInv, ArchiveTypes, Contents
  <2>3. CASE Inject
    <3>1. ASSUME Len(archive) >= 2, NEW s \in Stages
          PROVE  Prior.content.history[s] \in Started \cup {None}
      <4>1. archive \in Seq(Row)
        BY <1>t DEF ArchiveTypes
      <4>2. Len(archive) - 1 \in DOMAIN archive /\ Prior = archive[Len(archive) - 1]
        BY <3>1, <4>1, Recent
      <4> QED
        BY <4>2 DEF RowInv
    <3> QED
      BY <2>1, <2>2, <2>3, <3>1, InjectCopies DEF Injected
  <2>4. ASSUME NEW s \in Stages, HistoryFromOutside(s)
        PROVE  \E t \in Stages, h \in Started \cup {None} : dir' = [dir EXCEPT !.history[t] = h]
    <3>1. Max(dir.results[s]) \in Started
      BY <1>t, <2>4, LatestResult DEF HistoryFromOutside, DirInv
    <3> QED
      BY <2>4, <3>1 DEF HistoryFromOutside
  <2>5. CASE ~Inject /\ ~(\E s \in Stages : HistoryFromOutside(s))
    BY <2>1, <2>5 DEF Reads, ReportBegins, Generate, OpenArchived, Summary
  <2> QED
    BY <2>2, <2>3, <2>4, <2>5
<1>4. OrderInv' /\ DirInv'
  BY <1>1, <1>2, <1>3 DEF OrderInv, DirInv
<1>5. ASSUME NEW i \in Invocations PROVE AloneInv(i)' /\ JobInv(i)'
  <2>1. AloneInv(i) /\ JobInv(i)
    OBVIOUS
  <2>2. Current(i)' = Current(i)
    BY <1>1 DEF Current, invocation
  <2> QED
    BY <1>1, <1>2, <1>3, <2>1, <2>2 DEF AloneInv, JobInv, invocation, archiving
<1>6. (\A k \in DOMAIN archive : RowInv(archive[k]))'
  BY <1>1, <1>2 DEF RowInv, invocation, archiving
<1>7. RowsInOrder'
  BY <1>1 DEF RowsInOrder
<1>8. SummaryIsForward'
  <2>1. CASE Summary
    <3>1. archive \in Seq(Row) /\ Len(archive) >= 2
      BY <1>t, <2>1 DEF ArchiveTypes, Summary
    <3>2. Len(archive) - 1 < Len(archive)
      BY <3>1, LenProperties
    <3>3. /\ view'.current = archive[Len(archive)].run
          /\ view'.baseline = archive[Len(archive) - 1].run
      BY <2>1, <3>1, Recent DEF Summary
    <3> QED
      BY <1>t, <1>1, <3>1, <3>2, <3>3, Recent DEF RowsInOrder, SummaryIsForward
  <2>2. CASE Generate
    BY <2>2 DEF Generate, SummaryIsForward, Nothing
  <2>3. CASE OpenArchived
    BY <2>3 DEF OpenArchived, SummaryIsForward
  <2>4. CASE view' = view
    BY <1>t, <1>1, <2>4 DEF SummaryIsForward
  <2> QED
    BY <2>1, <2>2, <2>3, <2>4 DEF Reads, ReportBegins, Inject, HistoryFromOutside, reading
<1> QED
  BY <1>4, <1>5, <1>6, <1>7, <1>8

\* Every step.
LEMMA ArchiveSteps ==
    ASSUME ArchiveIInv, [ArchiveNext]_archiveVars
    PROVE  ArchiveIInv'
<1>1. ASSUME NEW i \in Invocations, Run(i) PROVE ArchiveIInv'
  BY <1>1, TypesOfRun, RunKeeps DEF ArchiveIInv
<1>2. ASSUME NEW i \in Invocations, Job(i) PROVE ArchiveIInv'
  BY <1>2, TypesOfJob, JobKeeps DEF ArchiveIInv
<1>3. CASE Reads
  BY <1>3, TypesOfReads, ReadsKeep DEF ArchiveIInv
<1>4. CASE UNCHANGED archiveVars
  BY <1>4 DEF archiveVars, invocation, archiving, reading, ArchiveIInv, ArchiveRules, ArchiveTypes,
              OrderInv, DirInv, AloneInv, JobInv, RowInv, RowsInOrder, SummaryIsForward,
              Started, Active, Current
<1> QED
  BY <1>1, <1>2, <1>3, <1>4 DEF ArchiveNext, Reads

\* The inductive invariant: results are of invocations that have begun, one that is alone reads
\* what it wrote, rows are of jobs that are over and in order.
THEOREM ArchiveInvariance == ArchiveSpec => []ArchiveIInv
<1>1. ArchiveInit => ArchiveIInv
  BY InitArchive
<1>2. ArchiveIInv /\ [ArchiveNext]_archiveVars => ArchiveIInv'
  BY ArchiveSteps
<1> QED
  BY <1>1, <1>2, PTL DEF ArchiveSpec

\* Two rows in order are two runs'.
LEMMA OneRun == ArchiveIInv => ArchiveIsOfOneRun
<1> SUFFICES ASSUME ArchiveIInv PROVE ArchiveIsOfOneRun
  OBVIOUS
<1>1. \A k, l \in DOMAIN archive : archive[k].run = archive[l].run => k = l
  <2>1. DOMAIN archive \subseteq Int
    BY LenProperties DEF ArchiveIInv, ArchiveTypes
  <2> QED
    BY <2>1 DEF ArchiveIInv, ArchiveRules, RowsInOrder
<1> QED
  BY <1>1 DEF ArchiveIInv, ArchiveRules, RowInv, ArchiveIsOfOneRun

\* A row of the archive is one run's: results, metrics and summary belong together when the
\* invocation had the directory to itself, no invocation has two rows, and `summary' compares a
\* newer run with an older one (report_archive.py, summary_dashboard.py).
THEOREM ArchiveOfOneRun == ArchiveSpec => []ArchiveInv
<1>1. ArchiveIInv => ArchiveTypeOK
  <2> SUFFICES ASSUME ArchiveIInv PROVE ArchiveTypeOK
    OBVIOUS
  <2>1. \A k \in DOMAIN archive : archive[k].run \in Invocations /\ archive[k].content \in Contents
    BY RowType DEF Row
  <2> QED
    BY <2>1 DEF ArchiveIInv, ArchiveTypes, ArchiveTypeOK
<1>2. ArchiveIInv => ArchiveInv
  BY <1>1, OneRun DEF ArchiveInv, ArchiveIInv, ArchiveRules
<1> QED
  BY <1>2, ArchiveInvariance, PTL

\* Without --async-report-db and without a failed write, a cycle that has been archived has its
\* row when the command ends (cli/runner.py).
THEOREM ForegroundArchives == ArchiveSpec => []SyncIsArchived
<1>1. ArchiveIInv => SyncIsArchived
  BY DEF ArchiveIInv, ArchiveRules, JobInv, SyncIsArchived
<1> QED
  BY <1>1, ArchiveInvariance, PTL

\* The history that a report is given ends before the newest archived run, if that run had the
\* directory to itself (history_inject.py).
THEOREM TrendIsOlder == ArchiveSpec => InjectedHistoryIsOlder
<1> DEFINE Older == report = "inject" /\ report' # report =>
                \A s \in Stages : dir'.history[s] # dir.history[s] =>
                    LET newest == archive[Len(archive)].run
                    IN dir'.history[s] < newest \/ newest \in shared
<1>1. ASSUME ArchiveIInv, [ArchiveNext]_archiveVars PROVE [Older]_archiveVars
  <2> SUFFICES ASSUME report = "inject", report' # report, NEW s \in Stages,
                      dir'.history[s] # dir.history[s]
               PROVE  \/ dir'.history[s] < archive[Len(archive)].run
                      \/ archive[Len(archive)].run \in shared
    OBVIOUS
  <2>1. Inject /\ dir' # dir
    BY <1>1 DEF ArchiveNext, archiveVars, reading, Run, Begin, StageBegins, StageEnds, Persist,
        NoArchive, Archive, Exit, Job, ListFiles, ZipFiles, ReadSummary, Measure, Insert,
        ArchiveFails, ReportBegins, Generate, OpenArchived, Summary, HistoryFromOutside
  <2>2. PICK t \in Stages : Len(archive) >= 2 /\ dir'.history[s] = Prior.content.history[t]
    <3>1. Injected
      BY <1>1, <2>1, InjectCopies
    <3>2. PICK r, t \in Stages : Len(archive) >= 2
                                /\ dir' = [dir EXCEPT !.history[r] = Prior.content.history[t]]
      BY <2>1, <3>1 DEF Injected
    <3>3. dir'.history = [dir.history EXCEPT ![r] = Prior.content.history[t]]
      BY <1>1, <3>2 DEF ArchiveIInv, ArchiveTypes, Contents
    <3>4. dir.history \in [Stages -> 0..Latest]
      BY <1>1, ContentsType DEF ArchiveIInv, ArchiveTypes
    <3> QED
      BY <3>2, <3>3, <3>4
  <2>3. archive \in Seq(Row) /\ Len(archive) \in Nat
    BY <1>1, LenProperties DEF ArchiveIInv, ArchiveTypes
  <2> DEFINE prior == archive[Len(archive) - 1]
             newest == archive[Len(archive)]
  <2>4. Prior = prior /\ Len(archive) - 1 \in DOMAIN archive /\ Len(archive) \in DOMAIN archive
    BY <2>2, <2>3, Recent
  <2>5. prior.run < newest.run \/ newest.run \in shared
    BY <1>1, <2>3, <2>4 DEF ArchiveIInv, ArchiveRules, RowsInOrder
  <2>6. newest.run \in Started
    BY <1>1, <2>4, RowType DEF ArchiveIInv, ArchiveRules, RowInv, JobInv, Started
  <2>7. RowInv(prior)
    BY <1>1, <2>4 DEF ArchiveIInv, ArchiveRules
  <2> QED
    BY <2>2, <2>4, <2>5, <2>6, <2>7 DEF RowInv
<1> QED
  BY <1>1, ArchiveInvariance, PTL DEF ArchiveSpec, InjectedHistoryIsOlder
=============================================================================
