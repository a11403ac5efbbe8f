---------------------------- MODULE CycleArchive ----------------------------
(***************************************************************************)
(* What `testo run' leaves of a cycle: the directory of its artifacts,     *)
(* which every invocation for that cycle shares, and the archive of zipped *)
(* directories in the database (runner.py, executor.py, json_backend.py,   *)
(* report_archive.py), and the commands that read them: `testo report' with*)
(* the history of an earlier archive, `report open' and `summary'          *)
(* (reporting/, cli/commands/).                                            *)
(*                                                                         *)
(* A result file is known by the invocation whose tests wrote it.  How     *)
(* stages are run and logged is PlanExecution's matter, what starts a      *)
(* cycle CycleTrigger's; the stages here are of one framework.             *)
(***************************************************************************)
EXTENDS Integers, Sequences, FiniteSets, FiniteSetsExt, SequencesExt

CONSTANTS
    Latest,          \* invocations are 1 .. Latest, in the order in which they start
    StageCount,      \* number of the stages of the cycle
    Selections,      \* the sets of stages that the environment of an invocation may enable
    MaxEvents        \* bound on the writes that fail, on the commands that read, and on what
                     \* is put into the directory from outside

ASSUME LastAssumption == Latest \in Nat \ {0}
ASSUME StageCountAssumption == StageCount \in Nat \ {0}
ASSUME MaxEventsAssumption == MaxEvents \in Nat

Invocations == 1..Latest
Stages == 1..StageCount  \* in the order of their names
None == 0
Contents == [results : [Stages -> SUBSET Invocations], history : [Stages -> 0..Latest]]
Empty == [results |-> [s \in Stages |-> {}], history |-> [s \in Stages |-> None]]

ASSUME SelectionsAssumption == Selections \subseteq SUBSET Stages \ {{}}

VARIABLES
    dir,          \* <artifacts>/<cycle>: per stage its results, and Allure's history
    plan_result,  \* the invocation that wrote plan_result.json
    phase,        \* where each invocation is
    todo,         \* its stages that have not begun
    selected,     \* the stages of it that are enabled in its environment
    async,        \* --async-report-db
    job,          \* where try_persist_cycle_report is, in the thread or in the main program
    payload,      \* what it has zipped
    summary,      \* the plan_result.json that it has read
    measured,     \* the results that aggregate_cycle_metrics has counted
    archive,      \* the rows of ReportArchive, oldest first
    shared,       \* invocations that have had the directory with another one
    unlucky,      \* invocations one of whose writes failed
    report,       \* where `testo report' is
    view,         \* what the last command showed
    events

invocation == <<phase, todo, selected, async>>
archiving == <<job, payload, summary, measured>>
reading == <<report, view>>
archiveVars ==
    <<dir, plan_result, invocation, archiving, archive, shared, unlucky, reading, events>>

Nothing == [kind |-> "nothing"]

ArchiveTypeOK ==
    /\ dir \in Contents
    /\ plan_result \in 0..Latest
    /\ phase \in [Invocations -> {"new", "between", "stage", "persist", "archive", "exit"}]
    /\ todo \in [Invocations -> SUBSET Stages]
    /\ selected \in [Invocations -> SUBSET Stages]
    /\ async \in [Invocations -> BOOLEAN]
    /\ job \in [Invocations -> {"none", "list", "zip", "read", "measure", "insert", "over"}]
    /\ \A i \in Invocations : /\ payload[i] \in Contents
                              /\ summary[i] \in 0..Latest
                              /\ measured[i] \in [Stages -> SUBSET Invocations]
    /\ \A k \in DOMAIN archive : archive[k].run \in Invocations /\ archive[k].content \in Contents
    /\ shared \subseteq Invocations /\ unlucky \subseteq Invocations
    /\ report \in {"idle", "inject", "generate"}
    /\ view.kind \in {"nothing", "summary", "page"}
    /\ events \in 0..MaxEvents

ArchiveInit ==
    /\ dir = Empty /\ plan_result = None
    /\ phase = [i \in Invocations |-> "new"]
    /\ todo = [i \in Invocations |-> {}]
    /\ selected = [i \in Invocations |-> {}]
    /\ async = [i \in Invocations |-> FALSE]
    /\ job = [i \in Invocations |-> "none"]
    /\ payload = [i \in Invocations |-> Empty]
    /\ summary = [i \in Invocations |-> None]
    /\ measured = [i \in Invocations |-> Empty.results]
    /\ archive = <<>>
    /\ shared = {} /\ unlucky = {}
    /\ report = "idle" /\ view = Nothing
    /\ events = 0

Event == events < MaxEvents /\ events' = events + 1
Fault(i) == Event /\ unlucky' = unlucky \cup {i}
NoFault == UNCHANGED <<events, unlucky>>

-----------------------------------------------------------------------------
(* testo run                                                               *)

Active == {i \in Invocations : phase[i] \notin {"new", "exit"}}

\* The stages whose `if' does not hold are left out; a cycle without any is not run.
Begin(i) ==
    /\ phase[i] = "new" /\ \A j \in 1..(i - 1) : phase[j] # "new"
    /\ \E enabled \in Selections, a \in BOOLEAN :
        /\ selected' = [selected EXCEPT ![i] = enabled]
        /\ todo' = [todo EXCEPT ![i] = enabled]
        /\ async' = [async EXCEPT ![i] = a]
    /\ phase' = [phase EXCEPT ![i] = "between"]
    /\ shared' = IF Active = {} THEN shared ELSE shared \cup Active \cup {i}
    /\ UNCHANGED <<dir, plan_result, archiving, archive, unlucky, reading, events>>

Current(i) == Min(todo[i])

\* Mutant: the results of the stage are kept.
StageKeeps(i) ==
    /\ phase[i] = "between" /\ todo[i] # {}
    /\ phase' = [phase EXCEPT ![i] = "stage"]
    /\ UNCHANGED <<dir, plan_result, todo, selected, async, archiving, archive, shared, unlucky,
                   reading, events>>

\* run_stage removes the results of the stage and what else is among them.
StageBegins(i) ==
    /\ phase[i] = "between" /\ todo[i] # {}
    /\ phase' = [phase EXCEPT ![i] = "stage"]
    /\ dir' = [dir EXCEPT !.results[Current(i)] = {}, !.history[Current(i)] = None]
    /\ UNCHANGED <<plan_result, todo, selected, async, archiving, archive, shared, unlucky,
                   reading, events>>

StageEnds(i) ==
    /\ phase[i] = "stage"
    /\ phase' = [phase EXCEPT ![i] = "between"]
    /\ todo' = [todo EXCEPT ![i] = @ \ {Current(i)}]
    /\ dir' = [dir EXCEPT !.results[Current(i)] = @ \cup {i}]
    /\ UNCHANGED <<plan_result, selected, async, archiving, archive, shared, unlucky, reading, events>>

\* JsonBackend swallows an OSError.
Persist(i) ==
    /\ phase[i] = "between" /\ todo[i] = {}
    /\ \/ plan_result' = i /\ NoFault
       \/ Fault(i) /\ UNCHANGED plan_result
    /\ phase' = [phase EXCEPT ![i] = "persist"]
    /\ UNCHANGED <<dir, todo, selected, async, archiving, archive, shared, reading>>

\* --no-persist and --no-report-db end here.
NoArchive(i) ==
    /\ phase[i] = "persist"
    /\ phase' = [phase EXCEPT ![i] = "exit"]
    /\ UNCHANGED <<dir, plan_result, todo, selected, async, archiving, archive, shared, unlucky,
                   reading, events>>

\* In the main program, or in a daemon thread.
Archive(i) ==
    /\ phase[i] = "persist"
    /\ phase' = [phase EXCEPT ![i] = "archive"]
    /\ job' = [job EXCEPT ![i] = "list"]
    /\ UNCHANGED <<dir, plan_result, todo, selected, async, payload, summary, measured, archive,
                   shared, unlucky, reading, events>>

Forget(i) ==
    /\ payload' = [payload EXCEPT ![i] = Empty]
    /\ summary' = [summary EXCEPT ![i] = None]
    /\ measured' = [measured EXCEPT ![i] = Empty.results]

\* The thread goes on; when the process ends it ends too, wherever it is.
MayExit(i) == async[i] \/ job[i] = "over"

\* Mutant: the main program never waits.
NeverWaits(i) == TRUE

Waited(i) == MayExit(i)

Exit(i) ==
    /\ phase[i] = "archive"
    /\ Waited(i)
    /\ phase' = [phase EXCEPT ![i] = "exit"]
    /\ job' = [job EXCEPT ![i] = "over"]
    /\ Forget(i)
    /\ UNCHANGED <<dir, plan_result, todo, selected, async, archive, shared, unlucky, reading, events>>

-----------------------------------------------------------------------------
(* try_persist_cycle_report                                                *)

JobStep(i, from, to) == job[i] = from /\ job' = [job EXCEPT ![i] = to]

ListFiles(i) ==
    /\ JobStep(i, "list", "zip")
    /\ payload' = [payload EXCEPT ![i] = dir]
    /\ UNCHANGED <<dir, plan_result, invocation, summary, measured, archive, shared, unlucky,
                   reading, events>>

\* A file that was listed and is gone is left out.
StillThere(i) ==
    [results |-> [s \in Stages |-> payload[i].results[s] \cap dir.results[s]],
     history |-> [s \in Stages |-> IF payload[i].history[s] = dir.history[s]
                                   THEN dir.history[s] ELSE None]]

ZipFiles(i) ==
    /\ JobStep(i, "zip", "read")
    /\ payload' = [payload EXCEPT ![i] = StillThere(i)]
    /\ UNCHANGED <<dir, plan_result, invocation, summary, measured, archive, shared, unlucky,
                   reading, events>>

ReadSummary(i) ==
    /\ JobStep(i, "read", "measure")
    /\ summary' = [summary EXCEPT ![i] = plan_result]
    /\ UNCHANGED <<dir, plan_result, invocation, payload, measured, archive, shared, unlucky,
                   reading, events>>

\* aggregate_cycle_metrics reads the directory, not the zip.
Measure(i) ==
    /\ JobStep(i, "measure", "insert")
    /\ measured' = [measured EXCEPT ![i] = dir.results]
    /\ UNCHANGED <<dir, plan_result, invocation, payload, summary, archive, shared, unlucky,
                   reading, events>>

Insert(i) ==
    /\ JobStep(i, "insert", "over")
    /\ Forget(i)
    /\ archive' = Append(archive, [run |-> i, content |-> payload[i], summary |-> summary[i],
                                   metrics |-> measured[i]])
    /\ UNCHANGED <<dir, plan_result, invocation, shared, unlucky, reading, events>>

\* Whatever is raised is logged, and the invocation ends as if nothing had been.
ArchiveFails(i) ==
    /\ job[i] \in {"zip", "measure", "insert"}
    /\ Fault(i)
    /\ job' = [job EXCEPT ![i] = "over"]
    /\ Forget(i)
    /\ UNCHANGED <<dir, plan_result, invocation, archive, shared, reading>>

-----------------------------------------------------------------------------
(* testo report                                                            *)

\* Newest first.
list_recent(limit) == SubSeq(Reverse(archive), 1, Min({limit, Len(archive)}))

\* collect_results: the stages that have begun at some time.
Collected ==
    {s \in Stages : \E i \in Invocations :
        s \in selected[i] /\ (s \notin todo[i] \/ (phase[i] = "stage" /\ s = Current(i)))}

\* No stage has results: INVALID_INPUT, and nothing is shown.
ReportBegins ==
    /\ report = "idle"
    /\ Event
    /\ Collected # {}
    /\ report' = "inject"
    /\ UNCHANGED <<dir, plan_result, invocation, archiving, archive, shared, unlucky, view>>

\* Mutant: the archive of the run that is reported.
Newest == list_recent(2)[1]

\* The row that try_inject_prior_history unpacks.
Prior == list_recent(2)[2]

\* The stages are of one framework: the history that is copied is that of the last
\* stage that has one, and the copying ends with the first stage that gets it.
Inject ==
    /\ report = "inject"
    /\ report' = "generate"
    /\ LET found == IF Len(archive) < 2 THEN {}
                    ELSE {s \in Stages : Prior.content.history[s] # None}
       IN dir' = IF found = {} \/ Collected = {} THEN dir
                 ELSE [dir EXCEPT !.history[Min(Collected)] = Prior.content.history[Max(found)]]
    /\ UNCHANGED <<plan_result, invocation, archiving, archive, shared, unlucky, view, events>>

\* Without the CLI, or when it fails, nothing is shown: INFRA_FAILURE.
Generate ==
    /\ report = "generate"
    /\ report' = "idle"
    /\ view' \in {Nothing, [kind |-> "page"]}
    /\ UNCHANGED <<dir, plan_result, invocation, archiving, archive, shared, unlucky, events>>

\* `report open' unpacks an archive and injects nothing.
OpenArchived ==
    /\ report = "idle"
    /\ Event
    /\ archive # <<>>
    /\ view' = [kind |-> "page"]
    /\ UNCHANGED <<dir, plan_result, invocation, archiving, archive, shared, unlucky, report>>

\* The two newest, the newer one as the current one.
Summary ==
    /\ report = "idle"
    /\ Event
    /\ Len(archive) >= 2
    /\ view' = [kind |-> "summary", current |-> list_recent(2)[1].run,
                baseline |-> list_recent(2)[2].run]
    /\ UNCHANGED <<dir, plan_result, invocation, archiving, archive, shared, unlucky, report>>

\* The tests, or a script that keeps the history of a report, put it among the
\* results: nothing in the program does.
HistoryFromOutside(s) ==
    /\ Event
    /\ dir.results[s] # {} /\ dir.history[s] = None
    /\ dir' = [dir EXCEPT !.history[s] = Max(dir.results[s])]
    /\ UNCHANGED <<plan_result, invocation, archiving, archive, shared, unlucky, reading>>

Job(i) == ListFiles(i) \/ ZipFiles(i) \/ ReadSummary(i) \/ Measure(i) \/ Insert(i) \/ ArchiveFails(i)

Run(i) ==
    \/ Begin(i) \/ StageBegins(i) \/ StageEnds(i) \/ Persist(i) \/ NoArchive(i)
    \/ Archive(i) \/ Exit(i)

ArchiveNext ==
    \/ \E i \in Invocations : Run(i) \/ Job(i)
    \/ ReportBegins \/ Inject \/ Generate \/ OpenArchived \/ Summary
    \/ \E s \in Stages : HistoryFromOutside(s)

ArchiveSpec == ArchiveInit /\ [][ArchiveNext]_archiveVars

-----------------------------------------------------------------------------
(* Properties                                                              *)

\* An archive is of one run: when the invocation had the directory to itself, the
\* row holds its own results for the stages that it ran and earlier ones for the
\* others, the metrics of the row count the results that are in it, and its
\* summary is the run's unless it could not be written.  No invocation has two.
ArchiveIsOfOneRun ==
    /\ \A k \in DOMAIN archive : LET row == archive[k] IN row.run \notin shared =>
        /\ \A s \in selected[row.run] : row.content.results[s] \subseteq {row.run}
        /\ \A s \in Stages : \A j \in row.content.results[s] : j <= row.run
        /\ row.metrics = row.content.results
        /\ row.summary = row.run \/ row.run \in unlucky
    /\ \A k, l \in DOMAIN archive : archive[k].run = archive[l].run => k = l

\* An invocation that is over, that was to archive its cycle in the foreground and
\* none of whose writes failed has its row, whoever else used the directory.
SyncIsArchived ==
    \A i \in Invocations : phase[i] = "exit" /\ job[i] = "over" /\ ~async[i] /\ i \notin unlucky =>
        \E k \in DOMAIN archive : archive[k].run = i

\* What `summary' compares is in the order of the runs, newer against older: only
\* runs that had the directory in common may be archived in another order.
SummaryIsForward ==
    view.kind = "summary" =>
        view.baseline < view.current \/ {view.baseline, view.current} \subseteq shared

\* The types, with what an archive is and what is compared of two.
ArchiveInv == ArchiveTypeOK /\ ArchiveIsOfOneRun /\ SummaryIsForward

\* A report never continues the trend with the run that it shows: the history that
\* is copied among the results ends before the newest archived run, if that run
\* had the directory to itself.
InjectedHistoryIsOlder ==
    [][report = "inject" /\ report' # report =>
        \A s \in Stages : dir'.history[s] # dir.history[s] =>
            LET newest == archive[Len(archive)].run
            IN dir'.history[s] < newest \/ newest \in shared]_archiveVars
=============================================================================
