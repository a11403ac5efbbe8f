---------------------------- MODULE RunArtifacts ----------------------------
(***************************************************************************)
(* Where the results and reports of a run go: the directory of its Allure  *)
(* results, the static mirrors that all runs share, the object store, and  *)
(* the columns of its row that name them (runners.py, report_generator.py, *)
(* record_completed_run and list_run_sessions of run_history.py).          *)
(*                                                                         *)
(* A file is known by the run that it shows: a results directory, a mirror *)
(* or a report is the set of the runs whose results are in it.  Runs of    *)
(* one framework, and of several processes, are under way at once.  The    *)
(* order of the runs of a request is left to RunLifecycle, and so are the  *)
(* row's other columns.                                                    *)
(***************************************************************************)
EXTENDS Integers, FiniteSets

CONSTANTS
    Runs,          \* the runs that are followed
    BehavexRuns,   \* those of them that BehaveX executes; the others are pytest's
    Unfollowed,    \* stands for the others: runs that were over before, phases of audits
    MaxAttempts,   \* max_attempts of _run_with_retry
    MaxFaults,     \* bound on the failures of the store, the disk and the CLI, on the
                   \* reports that users ask for, and on the audits
    AuditCost,     \* for how many of these an audit counts
    AuditAlong,    \* bound on the followed runs that are under way while an audit is
    Calm           \* a bound as well: runs that are followed only where there are none of
                   \* those; {} leaves nothing out

ASSUME RunsAssumption == IsFiniteSet(Runs)
ASSUME BehavexRunsAssumption == BehavexRuns \subseteq Runs
ASSUME UnfollowedAssumption == Unfollowed \notin Runs
ASSUME MaxAttemptsAssumption == MaxAttempts \in Nat \ {0}
ASSUME MaxFaultsAssumption == MaxFaults \in Nat
ASSUME AuditCostAssumption == AuditCost \in Nat
ASSUME AuditAlongAssumption == AuditAlong \in Nat
ASSUME CalmAssumption == Calm \subseteq Runs

Kinds == {"pytest", "behavex"}
Kind(r) == IF r \in BehavexRuns THEN "behavex" ELSE "pytest"
AnyRun == Runs \cup {Unfollowed}
Absent == {}

VARIABLES
    pc,           \* where each run is
    results,      \* allure-results/<kind>/<run>: the runs whose results are in it
    loose,        \* loose[k]: allure-results/<kind> itself: the runs whose results are in it
    behave_json,  \* JSON below artifacts/behave_reports, the output of every BehaveX run
    native,       \* report.html of artifacts/behave_reports, {} or one run
    mirror,       \* static/behave, {} or one run
    allure_html,  \* static/allure_reports/<kind>: {} or the runs it was made from
    produced,     \* runs whose tests wrote results
    auditing,     \* where the audit that is under way is
    audited,      \* runs that were under way when an audit cleared or gathered results
    overtaken,    \* BehaveX runs whose output another one, or an audit, emptied before it
                  \* was collected
    metrics,      \* m of record_completed_run
    staged,       \* the parts that _snapshot_reports copied to its temporary directory
    attempts,     \* of the upload
    outcome,      \* what record_completed_run has noted of a run
    store,        \* the objects of the bucket
    row,          \* the row of the run table
    faults

reports == <<behave_json, native, mirror, allure_html>>
others == <<auditing, audited, overtaken>>
files == <<results, loose, produced, reports, others>>
local == <<metrics, staged, attempts, outcome>>
vars == <<pc, files, local, store, row, faults>>

Part(name, of) == [name |-> name, of |-> of]
PartNames == {"allure_pytest", "allure_behavex", "behave", "html", "raw"}
Parts == [name : PartNames, of : SUBSET AnyRun]
AllureName(k) == IF k = "pytest" THEN "allure_pytest" ELSE "allure_behavex"

NothingNoted == [prefix |-> FALSE, count |-> 0, error |-> FALSE]
OpenRow == [status |-> "RUNNING", metrics |-> Absent, prefix |-> FALSE, url |-> FALSE,
            sync |-> "none"]

TypeOK ==
    /\ pc \in [Runs -> {"test", "testing", "hooks", "sync", "measure", "stage", "snapshot",
                        "collect", "raw", "finalize", "done"}]
    /\ results \in [Runs -> SUBSET AnyRun]
    /\ behave_json \subseteq AnyRun
    /\ native \subseteq AnyRun /\ Cardinality(native) <= 1
    /\ mirror \subseteq AnyRun /\ Cardinality(mirror) <= 1
    /\ allure_html \in [Kinds -> SUBSET AnyRun]
    /\ produced \subseteq Runs /\ loose \in [Kinds -> SUBSET AnyRun]
    /\ auditing \in {"no", "pytest", "behavex", "report"} /\ audited \subseteq Runs /\ overtaken \subseteq Runs
    /\ metrics \in [Runs -> SUBSET AnyRun]
    /\ staged \in [Runs -> SUBSET Parts]
    /\ attempts \in [Runs -> 1..MaxAttempts]
    /\ outcome \in [Runs -> [prefix : BOOLEAN, count : Nat, error : BOOLEAN]]
    /\ store \subseteq [run : Runs, part : Parts]
    /\ row \in [Runs -> [status : {"RUNNING", "FINISHED"}, metrics : SUBSET AnyRun,
                         prefix : BOOLEAN, url : BOOLEAN,
                         sync : {"none", "success", "skipped", "failed"}]]
    /\ faults \in 0..MaxFaults

Init ==
    /\ pc = [r \in Runs |-> "test"]
    /\ results = [r \in Runs |-> Absent]
    /\ \E left \in SUBSET {Unfollowed} :
        /\ behave_json = left /\ native = left /\ mirror = left
        /\ allure_html = [k \in Kinds |-> left]
    /\ loose = [k \in Kinds |-> Absent] /\ produced = {} /\ auditing = "no" /\ audited = {} /\ overtaken = {}
    /\ metrics = [r \in Runs |-> Absent]
    /\ staged = [r \in Runs |-> {}]
    /\ attempts = [r \in Runs |-> 1]
    /\ outcome = [r \in Runs |-> NothingNoted]
    /\ store = {}
    /\ row = [r \in Runs |-> OpenRow]
    /\ faults = 0

At(r, from, to) == pc[r] = from /\ pc' = [pc EXCEPT ![r] = to]

Disturbance(cost) ==
    /\ faults + cost <= MaxFaults /\ faults' = faults + cost
    /\ \A r \in Calm : pc[r] = "test"

Fault == Disturbance(1)

UnderWay == {r \in Runs : pc[r] \notin {"test", "done"}}

\* The bounds on what is followed.
Followed(r) ==
    /\ r \in Calm => faults = 0
    /\ auditing # "no" => Cardinality(UnderWay \cup {r}) <= AuditAlong

-----------------------------------------------------------------------------
(* run_streaming                                                           *)

\* BehaveX may or may not empty its output when it starts, of what another run
\* has there too, or is about to write there.
BehavexStarts ==
    \/ UNCHANGED <<behave_json, native, overtaken>>
    \/ /\ behave_json' = Absent
       /\ native' = Absent
       /\ overtaken' = overtaken \cup {s \in Runs : pc[s] \in {"testing", "hooks"}}

Start(r) ==
    /\ r \in BehavexRuns
    /\ At(r, "test", "testing")
    /\ Followed(r)
    /\ BehavexStarts
    /\ UNCHANGED <<results, loose, produced, mirror, allure_html, auditing, audited, local, store,
                   row, faults>>

\* BehaveX writes its results where it is told, or below its own output; that
\* pytest has begun makes no difference before.
Execute(r, wrote) ==
    /\ IF r \in BehavexRuns THEN At(r, "testing", "hooks") ELSE At(r, "test", "sync")
    /\ Followed(r)
    /\ \E nested \in BOOLEAN :
        /\ nested => r \in BehavexRuns
        /\ results' = [results EXCEPT ![r] = @ \cup IF nested THEN {} ELSE wrote]
        /\ behave_json' = behave_json \cup IF nested THEN wrote ELSE {}
    /\ native' = IF r \in BehavexRuns THEN {r} ELSE native
    /\ produced' = produced \cup wrote
    /\ UNCHANGED <<loose, mirror, allure_html, others, local, store, row, faults>>

\* collect_behavex_native_report
Mirrored == IF native = {} THEN mirror ELSE native

\* Mutant: the results are looked for below the root of all results as well.
CollectAnything(r) ==
    /\ At(r, "hooks", "sync")
    /\ results' = [results EXCEPT ![r] = behave_json \cup UNION {results[s] : s \in Runs}]
    /\ mirror' = Mirrored
    /\ UNCHANGED <<loose, produced, behave_json, native, allure_html, others, local, store, row, faults>>

\* _collect_behavex_allure_json_into_shared_dir and collect_behavex_native_report
CollectBehavex(r) ==
    /\ At(r, "hooks", "sync")
    /\ results' = [results EXCEPT ![r] = @ \cup behave_json]
    /\ mirror' = Mirrored
    /\ UNCHANGED <<loose, produced, behave_json, native, allure_html, others, local, store, row, faults>>

\* The mirror is replaced by every run, whatever its framework; its exceptions
\* are swallowed, and static/behave may be gone by then.
SyncStatic(r) ==
    /\ At(r, "sync", "measure")
    /\ \/ mirror' = Mirrored /\ UNCHANGED faults
       \/ native # {} /\ Fault /\ mirror' = Absent
    /\ UNCHANGED <<results, loose, produced, behave_json, native, allure_html, others, local, store, row>>

-----------------------------------------------------------------------------
(* record_completed_run: metrics and snapshot                              *)

Measure(r) ==
    /\ At(r, "measure", "stage")
    /\ metrics' = [metrics EXCEPT ![r] = results[r]]
    /\ UNCHANGED <<files, staged, attempts, outcome, store, row, faults>>

StaticReports ==
    {Part(AllureName(k), allure_html[k]) : k \in {j \in Kinds : allure_html[j] # Absent}}
        \cup {Part("behave", f) : f \in {mirror} \ {Absent}}

\* No credentials, no bucket: the snapshot is skipped.
SnapshotUnavailable(r) ==
    /\ At(r, "stage", "collect")
    /\ Fault
    /\ UNCHANGED <<files, local, store, row>>

\* A report that is replaced meanwhile ends the copying of the Allure reports.
StageReports(r) ==
    /\ At(r, "stage", "snapshot")
    /\ \E lost \in SUBSET {p \in StaticReports : p.name # "behave"} :
        /\ IF lost = {} THEN UNCHANGED faults ELSE Fault
        /\ staged' = [staged EXCEPT ![r] = StaticReports \ lost]
    /\ UNCHANGED <<files, metrics, attempts, outcome, store, row>>

Upload(r, parts) == store' = store \cup {[run |-> r, part |-> p] : p \in parts}

\* Nothing staged: no prefix.
UploadSnapshot(r) ==
    /\ At(r, "snapshot", "collect")
    /\ Upload(r, staged[r])
    /\ outcome' = [outcome EXCEPT ![r].prefix = staged[r] # {}]
    /\ UNCHANGED <<files, metrics, staged, attempts, row, faults>>

SomeReportsOnly(r) == \E parts \in SUBSET staged[r] : parts # staged[r] /\ Upload(r, parts)

\* Mutant: the prefix is returned for what was uploaded before the error.
SnapshotPartial(r) ==
    /\ At(r, "snapshot", "collect")
    /\ Fault
    /\ SomeReportsOnly(r)
    /\ outcome' = [outcome EXCEPT ![r].prefix = TRUE]
    /\ UNCHANGED <<files, metrics, staged, attempts, row>>

\* An OSError is swallowed and nothing is noted; what was uploaded stays.
SnapshotOSError(r) ==
    /\ At(r, "snapshot", "collect")
    /\ Fault
    /\ SomeReportsOnly(r)
    /\ UNCHANGED <<files, local, row>>

\* Any other exception is not transient: no second attempt.
SnapshotFails(r) ==
    /\ At(r, "snapshot", "collect")
    /\ Fault
    /\ SomeReportsOnly(r)
    /\ outcome' = [outcome EXCEPT ![r].error = TRUE]
    /\ UNCHANGED <<files, metrics, staged, attempts, row>>

-----------------------------------------------------------------------------
(* record_completed_run: raw results and the HTML bundle                   *)

\* allure-results/<kind> as a whole, with the directories of other runs.
OfKind(k) == UNION {results[s] : s \in {t \in Runs : Kind(t) = k}}
InputOf(r) == OfKind(Kind(r)) \cup loose[Kind(r)]

UploadUnavailable(r) ==
    /\ At(r, "collect", "finalize")
    /\ Fault
    /\ UNCHANGED <<files, local, store, row>>

UploadHtml(r) ==
    /\ At(r, "collect", "raw")
    /\ Upload(r, {Part("html", InputOf(r))})
    /\ outcome' = [outcome EXCEPT ![r].count = 1]
    /\ UNCHANGED <<files, metrics, staged, attempts, row, faults>>

\* No CLI, a failed generation, an OSError, or no results: zero files are reported.
NoHtml(r) ==
    /\ At(r, "collect", "raw")
    /\ IF InputOf(r) = {} THEN UNCHANGED faults ELSE Fault
    /\ UNCHANGED <<files, local, store, row>>

RawParts(r) == {Part("raw", {s}) : s \in InputOf(r)}

UploadResults(r) ==
    /\ At(r, "raw", "finalize")
    /\ Upload(r, RawParts(r))
    /\ outcome' = [outcome EXCEPT ![r].count = @ + Cardinality(InputOf(r))]
    /\ UNCHANGED <<files, metrics, staged, attempts, row, faults>>

SomeResultsOnly(r) == \E parts \in SUBSET RawParts(r) : parts # RawParts(r) /\ Upload(r, parts)

\* Mutant: what the attempt that failed had uploaded counts, and no error does.
UploadFailsUnseen(r) ==
    /\ At(r, "raw", "finalize")
    /\ Fault
    /\ SomeResultsOnly(r)
    /\ UNCHANGED <<files, local, row>>

\* An OSError is retried from the HTML on ...
UploadRetried(r) ==
    /\ At(r, "raw", "collect")
    /\ Fault
    /\ attempts[r] < MaxAttempts
    /\ SomeResultsOnly(r)
    /\ attempts' = [attempts EXCEPT ![r] = @ + 1]
    /\ outcome' = [outcome EXCEPT ![r].count = 0]
    /\ UNCHANGED <<files, metrics, staged, row>>

\* ... the last one, and any other exception, is not.
UploadFails(r) ==
    /\ At(r, "raw", "finalize")
    /\ Fault
    /\ SomeResultsOnly(r)
    /\ outcome' = [outcome EXCEPT ![r].count = 0, ![r].error = TRUE]
    /\ UNCHANGED <<files, metrics, staged, attempts, row>>

-----------------------------------------------------------------------------
(* record_completed_run: the row                                           *)

ArtifactStatus(o) ==
    IF o.error THEN "failed"
    ELSE IF ~o.prefix /\ o.count <= 0 THEN "skipped"
    ELSE "success"

Finalize(r) ==
    /\ At(r, "finalize", "done")
    /\ row' = [row EXCEPT ![r] = [status |-> "FINISHED", metrics |-> metrics[r],
                                  prefix |-> outcome[r].prefix, url |-> outcome[r].count > 0,
                                  sync |-> ArtifactStatus(outcome[r])]]
    /\ metrics' = [metrics EXCEPT ![r] = Absent]
    /\ attempts' = [attempts EXCEPT ![r] = 1]
    /\ outcome' = [outcome EXCEPT ![r] = NothingNoted]
    /\ UNCHANGED <<files, staged, store, faults>>

Record(r) ==
    \/ Measure(r)
    \/ SnapshotUnavailable(r) \/ StageReports(r) \/ UploadSnapshot(r) \/ SnapshotOSError(r)
    \/ SnapshotFails(r)
    \/ UploadUnavailable(r) \/ UploadHtml(r) \/ NoHtml(r) \/ UploadResults(r)
    \/ UploadRetried(r) \/ UploadFails(r)
    \/ Finalize(r)

-----------------------------------------------------------------------------
(* The reports that a user asks for, and an audit                          *)

\* From the directories of all runs of the framework, or from what lies in the
\* one that they are in; the old report is removed before the CLI runs.
generate_allure_html(k) == {IF OfKind(k) = Absent THEN loose[k] ELSE OfKind(k), Absent}

GenerateReport(k) ==
    /\ Fault
    /\ \E made \in generate_allure_html(k) : allure_html' = [allure_html EXCEPT ![k] = made]
    /\ UNCHANGED <<pc, results, loose, produced, behave_json, native, mirror, others,
                   local, store, row>>

\* run_audit_streaming removes the root of all results when it starts, with what
\* the tests of a run that has begun have written so far, ...
AuditBegins ==
    /\ auditing = "no"
    /\ Disturbance(AuditCost)
    /\ Cardinality(UnderWay) <= AuditAlong
    /\ auditing' = "pytest"
    /\ results' = [r \in Runs |-> Absent]
    /\ loose' = [k \in Kinds |-> Absent]
    /\ \E begun \in SUBSET {r \in Runs \ BehavexRuns : pc[r] = "test"} :
        audited' = audited \cup UnderWay \cup begun
    /\ UNCHANGED <<pc, produced, reports, overtaken, local, store, row>>

\* ... runs pytest, then BehaveX, whose phase has the output of all BehaveX runs
\* for its own and no hooks that collect it, ...
AuditRunsPytest ==
    /\ auditing = "pytest"
    /\ auditing' = "behavex"
    /\ \E wrote \in SUBSET {Unfollowed} : loose' = [loose EXCEPT !["pytest"] = @ \cup wrote]
    /\ BehavexStarts
    /\ UNCHANGED <<pc, results, produced, mirror, allure_html, audited, local, store, row, faults>>

AuditRunsBehavex ==
    /\ auditing = "behavex"
    /\ auditing' = "report"
    /\ \E wrote \in SUBSET {Unfollowed}, nested \in BOOLEAN :
        /\ loose' = [loose EXCEPT !["behavex"] = @ \cup IF nested THEN {} ELSE wrote]
        /\ behave_json' = behave_json \cup IF nested THEN wrote ELSE {}
    /\ native' = {Unfollowed}
    /\ UNCHANGED <<pc, results, produced, mirror, allure_html, audited, overtaken, local, store,
                   row, faults>>

\* _flatten_allure_result_json of allure-results/behavex, whose directory ever it is in.
Flattened == loose["behavex"] \cup OfKind("behavex")

\* ... and reports: it gathers every BehaveX result in allure-results/behavex and
\* makes the reports of both frameworks, unless there is no CLI.
AuditReports ==
    /\ auditing = "report"
    /\ auditing' = "no"
    /\ loose' = [loose EXCEPT !["behavex"] = Flattened]
    /\ results' = [r \in Runs |-> IF r \in BehavexRuns THEN Absent ELSE results[r]]
    /\ \E made \in {Kinds, {}} :
        allure_html' = [k \in Kinds |-> IF k \in made THEN OfKind(k) \cup loose[k] ELSE Absent]
    /\ mirror' = Mirrored
    /\ audited' = audited \cup UnderWay
    /\ UNCHANGED <<pc, produced, behave_json, native, overtaken, local, store, row, faults>>

Next ==
    \/ \E r \in Runs : \/ Start(r) \/ \E wrote \in SUBSET {r} : Execute(r, wrote)
                       \/ CollectBehavex(r) \/ SyncStatic(r)
                       \/ Record(r)
    \/ \E k \in Kinds : GenerateReport(k)
    \/ AuditBegins \/ AuditRunsPytest \/ AuditRunsBehavex \/ AuditReports

Spec == Init /\ [][Next]_vars

-----------------------------------------------------------------------------
(* What a session of the dashboard offers                                  *)

Stored(r) == {o.part : o \in {x \in store : x.run = r}}

\* list_run_sessions, _s3_session_links: one object_exists per framework.  The
\* copy of static/behave takes the place of BehaveX' own report.
LinkNames(parts) ==
    {IF p.name = "allure_pytest" THEN "pytest" ELSE "behavex" :
        p \in {x \in parts : x.name \in {"allure_pytest", "allure_behavex", "behave"}}}

SessionLinks(r) == IF row[r].prefix THEN LinkNames(Stored(r)) ELSE {}

-----------------------------------------------------------------------------
(* Properties                                                              *)

\* A row that names a snapshot has all of it in the store, and the session
\* offers a link for each report in it; an upload that broke off is not named,
\* though its first objects are there.
SnapshotIsWhole ==
    \A r \in Runs : row[r].prefix =>
        /\ staged[r] \subseteq Stored(r)
        /\ SessionLinks(r) = LinkNames(staged[r])

\* What a row reports of its upload is so: success means that a whole snapshot or
\* an upload is in the store, skipped that neither is named; and when an upload is
\* named, however many attempts it took, every result that the row counts is in the
\* store (save one that an audit removed in between).  Nothing is said of what the url
\* leads to where only the results were uploaded: run_history.py:462 has it lead to
\* the HTML bundle, which is then not there (README, section 6).
SyncIsTrue ==
    \A r \in Runs :
        /\ row[r].sync = "success" =>
               \/ row[r].prefix /\ staged[r] # {} /\ staged[r] \subseteq Stored(r)
               \/ row[r].url /\ Stored(r) # {}
        /\ row[r].sync = "skipped" => ~row[r].prefix /\ ~row[r].url
        /\ row[r].url /\ r \notin audited =>
            \A s \in row[r].metrics : Part("raw", {s}) \in Stored(r)

\* The results of a run are counted as its own and as nobody else's: those of a
\* pytest run are in a directory that no other run writes to; a BehaveX run may
\* count what an earlier one left in the folder that they share, but never the
\* results of another framework.  And what its tests wrote is counted, unless an
\* audit removed or gathered it, or another BehaveX run or the BehaveX phase of an
\* audit emptied that folder, before.
MetricsAreOwn ==
    \A r \in Runs : row[r].status = "FINISHED" =>
        /\ IF r \in BehavexRuns THEN row[r].metrics \cap (Runs \ BehavexRuns) = {}
           ELSE row[r].metrics \subseteq {r}
        /\ r \in produced \ (audited \cup overtaken) => r \in row[r].metrics

\* The types, with the directories that MetricsAreOwn rests on.
Inv == TypeOK /\ MetricsAreOwn
=============================================================================
