---------------------------- MODULE RunLifecycle ----------------------------
(***************************************************************************)
(* The life of a run row: HeadlessEngineService.stream creates one row per *)
(* run spec, runs the specs one after the other, and records the results;  *)
(* every Streamlit session that opens marks the rows it finds RUNNING as   *)
(* orphaned; an AI-summary request patches the metadata of a failed row.   *)
(* All of them write the same table, from different processes, and the     *)
(* writers that go through bulk_update write whole rows they read earlier. *)
(*                                                                         *)
(* One repository call (one SQLAlchemy session, one commit) is one step.   *)
(* A runner outcome is abstracted to the three classes that                *)
(* classify_exit_code tells apart: "zero", "nonzero", and "infra" for the  *)
(* return codes 124 and 127.  run_streaming always returns a RunResult or  *)
(* raises, so `stop.value is None` does not occur.                         *)
(***************************************************************************)
EXTENDS Integers

CONSTANTS
    Execs,        \* calls of HeadlessEngineService.stream
    NumRuns,      \* NumRuns[e]: number of run specs in the request of e
    Hosts,        \* operating-system processes (Streamlit, API server, CLI)
    Host,         \* Host[e]: the process in which e executes
    Sessions,     \* Streamlit sessions, each of which runs the cleanup once
    Summarized,   \* runs for which somebody asks for an AI summary
    MaxAttempts,  \* attempts of _run_with_retry (3 in the code)
    MaxFaults     \* bound on the repository calls that fail

ASSUME NumRunsAssumption == NumRuns \in [Execs -> Nat \ {0}]
ASSUME HostAssumption == Host \in [Execs -> Hosts]
ASSUME BoundsAssumption == MaxAttempts \in Nat \ {0} /\ MaxFaults \in Nat

RunsOf(e) == {e} \X (1..NumRuns[e])
RunIds == UNION {RunsOf(e) : e \in Execs}

ReturnCode == {"zero", "nonzero", "infra"}

\* A row of RunRecord.  rc is metadata["returncode"], orphaned stands for
\* metadata["orphaned_at"], ai for metadata["ai_summary_v1"].
Row == [status : {"RUNNING", "COMPLETED", "FAILED"},
        rc : ReturnCode \cup {"none"}, orphaned : BOOLEAN, ai : BOOLEAN]
NoRow == [status |-> "absent", rc |-> "none", orphaned |-> FALSE, ai |-> FALSE]

VARIABLES
    db,        \* db[r]: the row of run r, NoRow before create_run
    pc,        \* pc[e]: where the generator of e stands
    cur,       \* cur[e]: the run of e the current loop is at
    persist,   \* persist[e]: request.persist
    result,    \* result[r]: return code of r, "none" while there is no RunResult
    infra,     \* infra[e]: infra_error is not None
    sync,      \* sync[r]: the RunSyncStatus of r
    attempt,   \* attempt[e]: attempts of the db update in record_completed_run
    snap,      \* snap[s]: the detached rows list_runs_by_status gave session s
    sess,      \* sess[s]: control state of session s
    ann,       \* ann[r]: control state and detached row of the AI-summary request for r
    faults     \* repository calls that have failed

engineVars == <<pc, cur, persist, result, infra, sync, attempt>>
sessionVars == <<snap, sess>>
vars == <<db, pc, cur, persist, result, infra, sync, attempt, snap, sess, ann, faults>>

PcValues == {"idle", "creating", "running", "failing", "recording", "finalizing",
             "done", "raised", "crashed"}
Ended == {"done", "raised", "crashed"}
DbStatus == {"none", "success", "failed"}
ArtifactStatus == {"none", "success", "failed", "skipped"}
SyncStatus == [db : DbStatus, artifact : ArtifactStatus]
NoSync == [db |-> "none", artifact |-> "none"]

TypeOK ==
    /\ db \in [RunIds -> Row \cup {NoRow}]
    /\ pc \in [Execs -> PcValues]
    /\ cur \in [Execs -> Nat \ {0}]
    /\ persist \in [Execs -> BOOLEAN]
    /\ result \in [RunIds -> ReturnCode \cup {"none"}]
    /\ infra \in [Execs -> BOOLEAN]
    /\ sync \in [RunIds -> SyncStatus]
    /\ attempt \in [Execs -> 0..MaxAttempts]
    /\ snap \in [Sessions -> [RunIds -> Row \cup {NoRow}]]
    /\ sess \in [Sessions -> {"new", "listed"}]
    /\ ann \in [RunIds -> [pc : {"idle", "checked", "got"}, row : Row \cup {NoRow}]]
    /\ faults \in 0..MaxFaults

NoRequest == [pc |-> "idle", row |-> NoRow]

Init ==
    /\ db = [r \in RunIds |-> NoRow]
    /\ pc = [e \in Execs |-> "idle"]
    /\ cur = [e \in Execs |-> 1]
    /\ persist = [e \in Execs |-> FALSE]
    /\ result = [r \in RunIds |-> "none"]
    /\ infra = [e \in Execs |-> FALSE]
    /\ sync = [r \in RunIds |-> NoSync]
    /\ attempt = [e \in Execs |-> 0]
    /\ snap = [s \in Sessions |-> [r \in RunIds |-> NoRow]]
    /\ sess = [s \in Sessions |-> "new"]
    /\ ann = [r \in RunIds |-> NoRequest]
    /\ faults = 0

-----------------------------------------------------------------------------
(* The rows                                                                *)

\* create_run(status=RUNNING, metadata=...)
NewRow == [status |-> "RUNNING", rc |-> "none", orphaned |-> FALSE, ai |-> FALSE]

\* update_run_status: the status is overwritten whatever it was, and the
\* metadata patch is merged into the metadata the row has now.
Updated(row, status, rc) ==
    [row EXCEPT !.status = status, !.rc = IF rc = "none" THEN @ ELSE rc]

FinalStatus(rc) == IF rc = "zero" THEN "COMPLETED" ELSE "FAILED"

\* The payload of record_completed_run applied to a row.
Finalized(row, rc) == Updated(row, FinalStatus(rc), rc)

\* cleanup_orphaned_runs on a detached row.
Orphaned(row) == [row EXCEPT !.status = "FAILED", !.orphaned = TRUE]

\* One repository call raises.
Fault == faults < MaxFaults /\ faults' = faults + 1

-----------------------------------------------------------------------------
(* HeadlessEngineService.stream                                            *)

Current(e) == <<e, cur[e]>>

\* The loop of e goes to its next run, or its control state becomes `after`.
Advance(e, here, after) ==
    IF cur[e] < NumRuns[e]
    THEN /\ cur' = [cur EXCEPT ![e] = @ + 1]
         /\ pc' = [pc EXCEPT ![e] = here]
    ELSE /\ cur' = [cur EXCEPT ![e] = 1]
         /\ pc' = [pc EXCEPT ![e] = after]

\* stream() is entered; without persistence no row is created.
Start(e, p) ==
    /\ pc[e] = "idle"
    /\ persist' = [persist EXCEPT ![e] = p]
    /\ pc' = [pc EXCEPT ![e] = IF p THEN "creating" ELSE "running"]
    /\ UNCHANGED <<db, cur, result, infra, sync, attempt, sessionVars, ann, faults>>

CreateRun(e) ==
    /\ pc[e] = "creating"
    /\ db' = [db EXCEPT ![Current(e)] = NewRow]
    /\ Advance(e, "creating", "running")
    /\ UNCHANGED <<persist, result, infra, sync, attempt, sessionVars, ann, faults>>

\* create_run raises, before or after the commit: InfrastructureRuntimeError
\* leaves stream(), and the rows created so far stay as they are.
CreateRunFails(e, committed) ==
    /\ pc[e] = "creating"
    /\ Fault
    /\ db' = IF committed THEN [db EXCEPT ![Current(e)] = NewRow] ELSE db
    /\ pc' = [pc EXCEPT ![e] = "raised"]
    /\ UNCHANGED <<cur, persist, result, infra, sync, attempt, sessionVars, ann>>

\* The runner of the current spec returns a RunResult, which is published.
RunnerReturns(e, rc) ==
    /\ pc[e] = "running"
    /\ result' = [result EXCEPT ![Current(e)] = rc]
    /\ Advance(e, "running", "recording")
    /\ UNCHANGED <<db, persist, infra, sync, attempt, sessionVars, ann, faults>>

\* The runner raises.  In a batch stream_multi_run swallows the exception;
\* in a single run it becomes infra_error.
RunnerRaises(e) ==
    /\ pc[e] = "running"
    /\ infra' = [infra EXCEPT ![e] = NumRuns[e] = 1]
    /\ IF persist[e]
       THEN pc' = [pc EXCEPT ![e] = "failing"] /\ UNCHANGED cur
       ELSE Advance(e, "running", "recording")
    /\ UNCHANGED <<db, persist, result, sync, attempt, sessionVars, ann, faults>>

\* update_run_status(FAILED, {"error": ...}) for the run that raised.
FailRun(e) ==
    /\ pc[e] = "failing"
    /\ db' = [db EXCEPT ![Current(e)] = Updated(@, "FAILED", "none")]
    /\ Advance(e, "running", "recording")
    /\ UNCHANGED <<persist, result, infra, sync, attempt, sessionVars, ann, faults>>

\* The same call raises and the exception is swallowed.
FailRunFails(e) ==
    /\ pc[e] = "failing"
    /\ Fault
    /\ Advance(e, "running", "recording")
    /\ UNCHANGED <<db, persist, result, infra, sync, attempt, sessionVars, ann>>

-----------------------------------------------------------------------------
(* record_completed_run, called for each result after the last run ended.  *)
(* cur[e] = NumRuns[e] + 1 once the loop over the results is over.         *)

Recording(e) == pc[e] = "recording" /\ persist[e] /\ cur[e] <= NumRuns[e]

NextResult(e) == cur' = [cur EXCEPT ![e] = @ + 1]

\* A run that raised has no RunResult, hence no iteration.
SkipRun(e) ==
    /\ Recording(e)
    /\ result[Current(e)] = "none"
    /\ NextResult(e)
    /\ UNCHANGED <<db, pc, persist, result, infra, sync, attempt, sessionVars, ann, faults>>

\* Snapshot of the reports and upload of the Allure results.
SyncArtifacts(e, status) ==
    /\ Recording(e)
    /\ result[Current(e)] # "none"
    /\ sync' = [sync EXCEPT ![Current(e)].artifact = status]
    /\ attempt' = [attempt EXCEPT ![e] = 1]
    /\ pc' = [pc EXCEPT ![e] = "finalizing"]
    /\ UNCHANGED <<db, cur, persist, result, infra, sessionVars, ann, faults>>

\* record_completed_run itself raises: no RunSyncStatus, infra_error is set.
RecordRaises(e) ==
    /\ Recording(e)
    /\ result[Current(e)] # "none"
    /\ Fault
    /\ infra' = [infra EXCEPT ![e] = TRUE]
    /\ NextResult(e)
    /\ UNCHANGED <<db, pc, persist, result, sync, attempt, sessionVars, ann>>

Finalize(e) ==
    /\ pc[e] = "finalizing"
    /\ db' = [db EXCEPT ![Current(e)] = Finalized(@, result[Current(e)])]
    /\ sync' = [sync EXCEPT ![Current(e)].db = "success"]
    /\ attempt' = [attempt EXCEPT ![e] = 0]
    /\ pc' = [pc EXCEPT ![e] = "recording"]
    /\ NextResult(e)
    /\ UNCHANGED <<persist, result, infra, sessionVars, ann, faults>>

\* Mutant: the error of the last attempt is not looked at.
FinalizeFailsUnseen(e, committed, transient) ==
    /\ pc[e] = "finalizing"
    /\ Fault
    /\ sync' = [sync EXCEPT ![Current(e)].db = "success"]
    /\ attempt' = [attempt EXCEPT ![e] = 0]
    /\ pc' = [pc EXCEPT ![e] = "recording"]
    /\ NextResult(e)
    /\ UNCHANGED <<db, persist, result, infra, sessionVars, ann>>

\* The update raises, before or after its commit; _run_with_retry tries a
\* transient error again until the attempts are used up.
FinalizeFails(e, committed, transient) ==
    /\ pc[e] = "finalizing"
    /\ Fault
    /\ db' = IF committed
             THEN [db EXCEPT ![Current(e)] = Finalized(@, result[Current(e)])]
             ELSE db
    /\ IF transient /\ attempt[e] < MaxAttempts
       THEN /\ attempt' = [attempt EXCEPT ![e] = @ + 1]
            /\ UNCHANGED <<sync, pc, cur>>
       ELSE /\ sync' = [sync EXCEPT ![Current(e)].db = "failed"]
            /\ attempt' = [attempt EXCEPT ![e] = 0]
            /\ pc' = [pc EXCEPT ![e] = "recording"]
            /\ NextResult(e)
    /\ UNCHANGED <<persist, result, infra, sessionVars, ann>>

\* stream() returns its EngineSummary.
Summarize(e) ==
    /\ pc[e] = "recording"
    /\ persist[e] => cur[e] > NumRuns[e]
    /\ pc' = [pc EXCEPT ![e] = "done"]
    /\ UNCHANGED <<db, cur, persist, result, infra, sync, attempt, sessionVars, ann, faults>>

\* A process dies with every execution it runs.
Crash(h) ==
    /\ \E e \in Execs : Host[e] = h /\ pc[e] \notin Ended \cup {"idle"}
    /\ pc' = [e \in Execs |-> IF Host[e] = h /\ pc[e] \notin Ended \cup {"idle"}
                              THEN "crashed" ELSE pc[e]]
    /\ UNCHANGED <<db, cur, persist, result, infra, sync, attempt, sessionVars, ann, faults>>

-----------------------------------------------------------------------------
(* The summary.  Its inputs no longer change once pc[e] = "done".          *)

ReturnCodes(e) == {result[r] : r \in RunsOf(e)} \ {"none"}

classify_exit_code(codes, infraError) ==
    IF infraError THEN 3
    ELSE IF codes = {} THEN 4
    ELSE IF "infra" \in codes THEN 3
    ELSE IF "nonzero" \in codes THEN 1
    ELSE 0

\* Mutant: only the artifact upload counts as a sync failure.
HasArtifactFailure(e) == \E r \in RunsOf(e) : sync[r].artifact = "failed"

\* sync_results holds the RunSyncStatus of the runs that were recorded.
HasSyncFailure(e) ==
    \E r \in RunsOf(e) : sync[r].db # "none" /\ (sync[r].db # "success" \/ sync[r].artifact = "failed")

\* Mutant: a sync failure does not reach the exit code.
ExitCodeOfTests(e) == classify_exit_code(ReturnCodes(e), infra[e])

ExitCode(e) ==
    IF ~infra[e] /\ HasSyncFailure(e) THEN 3
    ELSE classify_exit_code(ReturnCodes(e), infra[e])

AggregateReturncode(e) == IF ReturnCodes(e) = {"zero"} THEN 0 ELSE 1

FailureType(e) ==
    IF infra[e] THEN "infra_failure"
    ELSE IF ReturnCodes(e) \ {"zero"} # {} THEN "test_failure"
    ELSE IF HasSyncFailure(e) THEN "sync_failure"
    ELSE "null"

-----------------------------------------------------------------------------
(* cleanup_orphaned_runs, once per Streamlit session.  A session that has  *)
(* finished is free to stand for the next one.                             *)

ListRunning(s) ==
    /\ sess[s] = "new"
    /\ \E r \in RunIds : db[r].status = "RUNNING"
    /\ snap' = [snap EXCEPT ![s] = [r \in RunIds |-> IF db[r].status = "RUNNING"
                                                     THEN db[r] ELSE NoRow]]
    /\ sess' = [sess EXCEPT ![s] = "listed"]
    /\ UNCHANGED <<db, engineVars, ann, faults>>

\* Mutant: the cleanup flag is kept for good, not per session.
CloseForGood(s) ==
    /\ snap' = [snap EXCEPT ![s] = [r \in RunIds |-> NoRow]]
    /\ sess' = [sess EXCEPT ![s] = "closed"]

CloseSession(s) ==
    /\ snap' = [snap EXCEPT ![s] = [r \in RunIds |-> NoRow]]
    /\ sess' = [sess EXCEPT ![s] = "new"]

\* bulk_update merges the detached rows, column by column, over whatever
\* the table holds by now.
MarkOrphaned(s) ==
    /\ sess[s] = "listed"
    /\ db' = [r \in RunIds |-> IF snap[s][r] = NoRow THEN db[r] ELSE Orphaned(snap[s][r])]
    /\ CloseSession(s)
    /\ UNCHANGED <<engineVars, ann, faults>>

\* bulk_update raises: the app ignores it and sets its done flag anyway.
MarkOrphanedFails(s) ==
    /\ sess[s] = "listed"
    /\ Fault
    /\ CloseSession(s)
    /\ UNCHANGED <<db, engineVars, ann>>

-----------------------------------------------------------------------------
(* An AI summary: generate_summary reads the run and requires a non-zero   *)
(* return code; the provider takes its time; upsert_run_metadata then      *)
(* reads the row again, patches it, and writes the whole row back.         *)

\* Mutant: a run without a return code is summarised too.
CheckAnyRun(r) ==
    /\ ann[r].pc = "idle"
    /\ db[r] # NoRow
    /\ ann' = [ann EXCEPT ![r].pc = "checked"]
    /\ UNCHANGED <<db, engineVars, sessionVars, faults>>

CheckRun(r) ==
    /\ ann[r].pc = "idle"
    /\ db[r].rc \in {"nonzero", "infra"}
    /\ ann' = [ann EXCEPT ![r].pc = "checked"]
    /\ UNCHANGED <<db, engineVars, sessionVars, faults>>

GetRow(r) ==
    /\ ann[r].pc = "checked"
    /\ ann' = [ann EXCEPT ![r] = [pc |-> "got", row |-> db[r]]]
    /\ UNCHANGED <<db, engineVars, sessionVars, faults>>

PutRow(r) ==
    /\ ann[r].pc = "got"
    /\ db' = [db EXCEPT ![r] = [ann[r].row EXCEPT !.ai = TRUE]]
    /\ ann' = [ann EXCEPT ![r] = NoRequest]
    /\ UNCHANGED <<engineVars, sessionVars, faults>>

\* The provider or the repository raises, or the answer is not worth
\* storing: nothing is written.
GiveUp(r) ==
    /\ ann[r].pc # "idle"
    /\ ann' = [ann EXCEPT ![r] = NoRequest]
    /\ UNCHANGED <<db, engineVars, sessionVars, faults>>

-----------------------------------------------------------------------------
EngineStep(e) ==
    \/ CreateRun(e)
    \/ \E committed \in BOOLEAN : CreateRunFails(e, committed)
    \/ \E rc \in ReturnCode : RunnerReturns(e, rc)
    \/ RunnerRaises(e)
    \/ FailRun(e)
    \/ FailRunFails(e)
    \/ SkipRun(e)
    \/ \E status \in ArtifactStatus \ {"none"} : SyncArtifacts(e, status)
    \/ RecordRaises(e)
    \/ Finalize(e)
    \/ \E committed, transient \in BOOLEAN : FinalizeFails(e, committed, transient)
    \/ Summarize(e)

SessionStep(s) == ListRunning(s) \/ MarkOrphaned(s) \/ MarkOrphanedFails(s)

AnnotatorStep(r) == CheckRun(r) \/ GetRow(r) \/ PutRow(r) \/ GiveUp(r)

Next ==
    \/ \E e \in Execs : (\E p \in BOOLEAN : Start(e, p)) \/ EngineStep(e)
    \/ \E h \in Hosts : Crash(h)
    \/ \E s \in Sessions : SessionStep(s)
    \/ \E r \in RunIds \cap Summarized : AnnotatorStep(r)

Spec == Init /\ [][Next]_vars

\* A started execution keeps going (every runner has a timeout), and the
\* dashboard is opened again and again.  Starts, crashes and summaries are
\* not promised.
Fairness ==
    /\ \A e \in Execs : WF_vars(EngineStep(e))
    /\ \A s \in Sessions : WF_vars(SessionStep(s))

FairSpec == Spec /\ Fairness

-----------------------------------------------------------------------------
(* Properties                                                              *)

\* A row that carries a return code has the status that return code means,
\* whichever of the four writers wrote it last: record_completed_run sets
\* both, and the whole-row writes of the cleanup and of the AI summary take
\* both from the same read.
RowMatchesResult ==
    \A r \in RunIds : db[r].rc # "none" => db[r].status = FinalStatus(db[r].rc)

\* When a persisted execution reports exit code 0, every run that produced a
\* result passed and was saved, and its row says COMPLETED unless a cleanup
\* that mistook it for an orphan has overwritten it.
GreenSummaryIsBacked ==
    \A e \in Execs : pc[e] = "done" /\ ExitCode(e) = 0 =>
        /\ AggregateReturncode(e) = 0 /\ FailureType(e) = "null"
        /\ persist[e] => \A r \in RunsOf(e) : result[r] # "none" =>
               /\ sync[r].db = "success" /\ sync[r].artifact # "failed"
               /\ db[r].status = "COMPLETED" \/ db[r].orphaned

\* A return code reported as saved (db_finalize success) stays in the row;
\* the only writer that can lose it is a cleanup, which leaves its mark.
SavedResultSurvives ==
    \A r \in RunIds : sync[r].db = "success" => db[r].rc = result[r] \/ db[r].orphaned

\* A row still RUNNING after its execution returned a summary is never
\* silent: its own result failed to be saved and the exit code is 3, or the
\* run produced no result at all.
StuckRowIsReported ==
    \A r \in RunIds : db[r].status = "RUNNING" /\ pc[r[1]] = "done" =>
        result[r] = "none" \/ ExitCode(r[1]) = 3

\* The table promises what RunTable says: no closed row runs again.
Table == INSTANCE RunTable WITH Rows <- RunIds, table <- [r \in RunIds |-> db[r].status]
RefinesRunTable == Table!Spec

\* Rows of executions that died, or that left stream() by the exception of a
\* failing create_run, do not stay RUNNING while dashboards are opened.
DeadRowsAreClosed ==
    \A r \in RunIds :
        (db[r].status = "RUNNING" /\ pc[r[1]] \in {"crashed", "raised"}) ~> (db[r].status # "RUNNING")

-----------------------------------------------------------------------------
(* The inductive invariant behind the first four properties.               *)

Closed(row) == row.status \in {"COMPLETED", "FAILED"}

\* A row that shows the result of r, or the mark of the cleanup in its stead.
Settled(r, row) ==
    /\ Closed(row)
    /\ result[r] # "none"
    /\ row.rc = result[r] \/ (row.rc = "none" /\ row.orphaned)
    /\ row.rc # "none" => row.status = FinalStatus(row.rc)

\* What the table says of r.
RowInv(r) ==
    /\ db[r].status = "RUNNING" => db[r] = NewRow
    /\ db[r].rc # "none" => db[r].rc = result[r] /\ db[r].status = FinalStatus(db[r].rc)
    /\ sync[r].db = "success" => Settled(r, db[r])

\* What the sessions and the summary requests still mean to write to r.
WriterInv(r) ==
    /\ \A s \in Sessions : snap[s][r] # NoRow => snap[s][r] = NewRow /\ db[r] # NoRow
    /\ ann[r].pc = "checked" => Settled(r, db[r])
    /\ ann[r].pc = "got" => Settled(r, ann[r].row) /\ Settled(r, db[r])

\* How far the loops of its execution have brought r.
ProgressInv(r) ==
    LET e == r[1]
        ahead == r[2] >= cur[e]
    IN  /\ pc[e] = "idle" \/ (pc[e] = "creating" /\ ahead) \/ ~persist[e] => db[r] = NoRow
        /\ (pc[e] = "creating" /\ ~ahead)
              \/ (persist[e] /\ pc[e] \in {"running", "failing", "recording", "finalizing", "done"})
              => db[r] # NoRow
        /\ pc[e] \in {"idle", "creating"} \/ (pc[e] \in {"running", "failing"} /\ ahead)
              => result[r] = "none"
        /\ pc[e] \in {"idle", "creating", "running", "failing"}
              \/ (pc[e] \in {"recording", "finalizing"} /\ ahead) => sync[r].db = "none"
        /\ persist[e] /\ pc[e] \in {"recording", "finalizing", "done"} /\ ~ahead /\ result[r] # "none"
              => sync[r].db # "none" \/ infra[e]

EngineInv(e) ==
    /\ pc[e] = "idle" => cur[e] = 1
    /\ pc[e] \in {"idle", "creating", "running", "failing", "finalizing"} => cur[e] <= NumRuns[e]
    /\ pc[e] \in {"creating", "failing", "finalizing"} => persist[e]
    /\ pc[e] = "finalizing" => result[Current(e)] # "none"
    /\ pc[e] = "done" /\ persist[e] => cur[e] > NumRuns[e]

Inv ==
    /\ TypeOK
    /\ \A r \in RunIds : RowInv(r) /\ WriterInv(r) /\ ProgressInv(r)
    /\ \A e \in Execs : EngineInv(e)

-----------------------------------------------------------------------------
(* What the repository says of the program and the program does not do     *)

\* "success only when every config produced zero" (multi_run.py:40): an
\* aggregate return code 0 means that every run of the request passed.
AggregateZeroMeansAllPassed ==
    \A e \in Execs : pc[e] = "done" /\ AggregateReturncode(e) = 0 =>
        \A r \in RunsOf(e) : result[r] = "zero"

\* "any DB runs in RUNNING are marked FAILED" (README.md:233): the cleanup
\* does not turn a run that has COMPLETED into a failed one.
CompletedIsNotDemoted ==
    [][\A r \in RunIds : db[r].status = "COMPLETED" => db'[r].status = "COMPLETED"]_db
=============================================================================
