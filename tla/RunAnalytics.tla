---------------------------- MODULE RunAnalytics ----------------------------
(***************************************************************************)
(* The requests that compare runs: /analytics/delta, the overview of the   *)
(* dashboard and its recent runs (delta_service.py, dashboard_service.py   *)
(* and their routes), over rows that the engine opens and completes        *)
(* meanwhile.  An overview reads the table five times, each time in a      *)
(* session of its own.                                                     *)
(*                                                                         *)
(* Who writes a row and what may go wrong is RunLifecycle's matter: here a *)
(* row is created, perhaps closed without a result, and recorded, and two  *)
(* writers that hold a copy of it may write it back whole at any moment.   *)
(* Rates and averages are rounded down.                                    *)
(***************************************************************************)
EXTENDS ResultFiles

CONSTANTS
    Kinds,       \* test kinds
    Outcomes,    \* how a run may end: its return code, its duration, the health of an audit
                 \* (NULL of any other run), and the result files
    Limits,      \* values of recent_limit and limit that clients ask for
    MaxRows      \* bound on the rows of the table

ASSUME OutcomesAssumption ==
    \A o \in Outcomes : /\ {o.returncode, o.wall, o.health} \subseteq Int /\ o.is_dir \in BOOLEAN
                        /\ IsDirectory(o.files)
ASSUME LimitsAssumption == Limits \subseteq Int
ASSUME MaxRowsAssumption == MaxRows \in Nat

Unknown == "unknown"   \* the kind of a row whose metadata name none

VARIABLES
    rows,       \* the table, oldest row first: the position of a row is its run id
    saved,      \* by run id, the rows as the engine recorded them
    rewritten,  \* the runs whose recorded row was written back whole during the request
    pc,         \* where the request is
    sessions,   \* the rows that list_run_sessions returned, newest first
    latest, baseline,   \* the rows that the overview has looked up
    current,    \* the row that compare_runs has looked up first
    answer      \* what the last request was answered

request == <<sessions, latest, baseline, current>>
table == <<rows, saved, rewritten>>
analyticsVars == <<table, pc, request, answer>>

NoRun == [id |-> 0]
NoAnswer == [code |-> 0]

AnalyticsInit ==
    /\ rows = <<>> /\ saved = <<>> /\ rewritten = {}
    /\ pc = "idle"
    /\ sessions = <<>> /\ latest = NoRun /\ baseline = NoRun /\ current = NoRun
    /\ answer = NoAnswer

-----------------------------------------------------------------------------
(* The table                                                               *)

\* The return code and the duration of a row that has none are shown as 0, and kept so here.
NewRow(k, s) ==
    [kind |-> k, status |-> s, recorded |-> FALSE, returncode |-> 0, wall |-> 0, health |-> NULL,
     m |-> Nothing]

CreateRun(k) ==
    /\ Len(rows) < MaxRows
    /\ rows' = Append(rows, NewRow(k, "RUNNING"))
    /\ UNCHANGED <<saved, rewritten, pc, request, answer>>

\* `testo run --persist' writes a row for the whole cycle, with keys of its own.
PersistCycle(s) ==
    /\ Len(rows) < MaxRows
    /\ rows' = Append(rows, NewRow(Unknown, s))
    /\ UNCHANGED <<saved, rewritten, pc, request, answer>>

OfEngine(i) == rows[i].kind # Unknown

\* The engine closes a row before it has a result.
FailRun(i) ==
    /\ OfEngine(i) /\ i \notin DOMAIN saved
    /\ rows' = [rows EXCEPT ![i].status = "FAILED"]
    /\ UNCHANGED <<saved, rewritten, pc, request, answer>>

\* A run that failed is not recorded where its failures cannot be read.
RecordRun(i, o) ==
    /\ OfEngine(i) /\ i \notin DOMAIN saved
    /\ o.returncode # 0 /\ o.is_dir => ~extract_failure_context(o.files).raises
    /\ rows' = [rows EXCEPT ![i] =
            [kind |-> @.kind, status |-> IF o.returncode = 0 THEN "COMPLETED" ELSE "FAILED",
             recorded |-> TRUE, returncode |-> o.returncode, wall |-> o.wall, health |-> o.health,
             m |-> IF o.is_dir THEN parse_allure_results_dir(o.files) ELSE Nothing]]
    /\ saved' = [k \in DOMAIN saved \cup {i} |-> IF k = i THEN rows'[i] ELSE saved[k]]
    /\ UNCHANGED <<rewritten, pc, request, answer>>

WrittenBack(i, row) ==
    /\ rows' = [rows EXCEPT ![i] = row]
    /\ rewritten' = IF i \in DOMAIN saved /\ pc \notin {"idle", "answered"} THEN rewritten \cup {i}
                    ELSE rewritten
    /\ UNCHANGED <<saved, pc, request, answer>>

\* cleanup_orphaned_runs has listed the row while it was RUNNING, as every row of the engine once
\* is, and writes its copy, closed, however late, over whatever has been recorded since.
CleanUpRun(i) == OfEngine(i) /\ WrittenBack(i, NewRow(rows[i].kind, "FAILED"))

\* upsert_run_metadata adds a summary to its copy of the row of a run that failed.
AnnotateRun(i) ==
    /\ i \in DOMAIN saved /\ saved[i].returncode # 0
    /\ WrittenBack(i, saved[i])

\* The view of a row: the metrics that have not been recorded are missing.
View(i) ==
    LET r == rows[i]
        m == r.m
        Of(c) == IF m = Nothing THEN NULL ELSE m.counts[c]
        PerTest(n) == IF m = Nothing THEN NULL ELSE IF m.total = 0 THEN NULL ELSE n \div m.total
    IN  [id |-> i, kind |-> r.kind, status |-> r.status, returncode |-> r.returncode,
         recorded |-> r.recorded,
         total_tests |-> m.total, passed |-> Of("passed"), failed |-> Of("failed"),
         broken |-> Of("broken"), skipped |-> Of("skipped"),
         health_pct |-> IF r.health # NULL \/ m = Nothing THEN r.health ELSE PerTest(100 * Of("passed")),
         wall_duration_ms |-> r.wall,
         metrics_duration_ms |-> IF m = Nothing THEN NULL ELSE m.duration_ms,
         avg_case_ms |-> IF m = Nothing THEN NULL ELSE PerTest(m.duration_ms)]

get_run(i) == IF i \in DOMAIN rows THEN View(i) ELSE NoRun
list_run_sessions(limit) ==
    [n \in 1..Min({limit, Len(rows)}) |-> View(Len(rows) + 1 - n)]

-----------------------------------------------------------------------------
(* Two runs compared                                                       *)

Policy == [
    total_tests         |-> [group |-> "reliability", direction |-> "higher_is_better"],
    passed              |-> [group |-> "reliability", direction |-> "higher_is_better"],
    failed              |-> [group |-> "reliability", direction |-> "lower_is_better"],
    broken              |-> [group |-> "reliability", direction |-> "lower_is_better"],
    skipped             |-> [group |-> "reliability", direction |-> "lower_is_better"],
    health_pct          |-> [group |-> "reliability", direction |-> "higher_is_better"],
    wall_duration_ms    |-> [group |-> "performance", direction |-> "lower_is_better"],
    metrics_duration_ms |-> [group |-> "performance", direction |-> "lower_is_better"],
    avg_case_ms         |-> [group |-> "performance", direction |-> "lower_is_better"]]
Order == <<"total_tests", "passed", "failed", "broken", "skipped", "health_pct",
           "wall_duration_ms", "metrics_duration_ms", "avg_case_ms">>
Metrics == ToSet(Order)

\* Mutant: more is always better.
ClassifyUp(delta, direction) ==
    IF delta = 0 THEN "neutral" ELSE IF delta > 0 THEN "improvement" ELSE "regression"
\* Mutant: a metric that has not moved is judged with those that went down.
ClassifyAll(delta, direction) ==
    IF (delta > 0) = (direction = "higher_is_better") THEN "improvement" ELSE "regression"

Classify(delta, direction) ==
    IF delta = 0 THEN "neutral"
    ELSE IF (delta > 0) = (direction = "higher_is_better") THEN "improvement" ELSE "regression"

Unclassified(why) == [classification |-> "unknown", reason |-> why, delta |-> 0, pct |-> NULL]

build_metric_delta(key, cur, base) ==
    LET delta == cur[key] - base[key]
    IN  IF cur[key] = NULL THEN Unclassified("missing_current_metric")
        ELSE IF base[key] = NULL THEN Unclassified("missing_baseline_metric")
        ELSE [classification |-> Classify(delta, Policy[key].direction), delta |-> delta,
              reason |-> IF base[key] = 0 THEN "zero_baseline_for_relative" ELSE "none",
              pct |-> IF base[key] = 0 THEN NULL ELSE (100 * delta) \div base[key]]

build_metric_deltas(cur, base) == [key \in Metrics |-> build_metric_delta(key, cur, base)]

StatusSummary(deltas, keys) ==
    [c \in {"regression", "improvement", "neutral", "unknown"} |->
        Cardinality({key \in keys : deltas[key].classification = c})]

\* The five metrics that moved most, milliseconds, percents and tests alike; of two that moved
\* by the same the first in the order of the policy.
build_highlights(deltas) ==
    LET moved == {n \in DOMAIN Order :
                    deltas[Order[n]].classification \in {"regression", "improvement"}}
        By(n) == IF deltas[Order[n]].delta < 0 THEN -deltas[Order[n]].delta ELSE deltas[Order[n]].delta
        Outranks(a, b) == By(a) > By(b) \/ (By(a) = By(b) /\ a < b)
        Ranked(p) == CHOOSE n \in moved : Cardinality({k \in moved : Outranks(k, n)}) = p - 1
    IN  [p \in 1..Min({5, Cardinality(moved)}) |-> Order[Ranked(p)]]

CompareError(cur, base) ==
    IF NoRun \in {cur, base} THEN 404 ELSE IF cur.kind # base.kind THEN 422 ELSE 200

Compared(cur, base) ==
    LET deltas == build_metric_deltas(cur, base)
    IN  [current |-> cur, baseline |-> base, deltas |-> deltas,
         summary |-> StatusSummary(deltas, Metrics), highlights |-> build_highlights(deltas)]

Answered(a) ==
    /\ pc' = "answered" /\ answer' = a
    /\ sessions' = <<>> /\ latest' = NoRun /\ baseline' = NoRun /\ current' = NoRun
    /\ UNCHANGED table

\* /analytics/delta; 0 stands for an id that is blank, and is refused before the table is read.
GetDelta(cur, base) ==
    /\ pc = "idle"
    /\ IF 0 \in {cur, base} THEN Answered([code |-> 400])
       ELSE IF get_run(cur) = NoRun THEN Answered([code |-> 404])
       ELSE /\ pc' = "delta" /\ current' = get_run(cur) /\ baseline' = [id |-> base]
            /\ UNCHANGED <<table, sessions, latest, answer>>

LookUpBaselineOfDelta ==
    /\ pc = "delta"
    /\ LET base == get_run(baseline.id)
           code == CompareError(current, base)
       IN  IF code # 200 THEN Answered([code |-> code])
           ELSE Answered([code |-> 200, kind |-> "delta", delta |-> Compared(current, base)])

-----------------------------------------------------------------------------
(* The dashboard                                                           *)

build_trend(cur, base) ==
    IF NULL \in {cur, base} THEN "unknown"
    ELSE IF cur > base THEN "up" ELSE IF cur < base THEN "down" ELSE "flat"

\* A run is linked to the comparison with the next older one in the list, of whatever kind.
compare_url(index) ==
    IF index + 1 \in DOMAIN sessions
    THEN [current |-> sessions[index].id, baseline |-> sessions[index + 1].id]
    ELSE NoRun

\* A highlight is put under a group if it contains the key of one of the group's metrics; the
\* line has the metric's label, so keys of several words never match.
InLine(key, shown) == key = shown /\ key \in {"passed", "failed", "broken", "skipped"}

\* Mutant: metrics that cannot be compared count as unchanged.
build_rollup_lenient(delta, group) ==
    LET keys == {key \in Metrics : Policy[key].group = group}
        summary == StatusSummary(delta.deltas, keys)
    IN  [summary |-> [summary EXCEPT !["neutral"] = @ + summary["unknown"]],
         highlights |-> SelectSeq(delta.highlights, LAMBDA shown : \E key \in keys : InLine(key, shown))]

build_rollup(delta, group) ==
    LET keys == {key \in Metrics : Policy[key].group = group}
    IN  [summary |-> StatusSummary(delta.deltas, keys),
         highlights |-> SelectSeq(delta.highlights, LAMBDA shown : \E key \in keys : InLine(key, shown))]

NoRollup == [summary |-> [c \in {"regression", "improvement", "neutral", "unknown"} |-> 0],
             highlights |-> <<>>]

\* delta: a singleton of the comparison, or empty.  The headline falls back to the listed row.
Overview(delta, notes) ==
    LET Of(run, key) == IF run = NoRun THEN NULL ELSE run[key]
        Trend(key) == build_trend(Of(latest, key), Of(baseline, key))
        Rollup(group) == IF delta = {} THEN NoRollup
                         ELSE build_rollup(CHOOSE d \in delta : TRUE, group)
    IN  [code |-> 200, kind |-> "overview", listed |-> sessions,
         headline |-> IF latest # NoRun THEN latest
                      ELSE IF sessions # <<>> THEN Head(sessions) ELSE NoRun,
         health |-> Trend("health_pct"), failed |-> Trend("failed"),
         duration |-> Trend("wall_duration_ms"),
         reliability |-> Rollup("reliability"), performance |-> Rollup("performance"),
         delta |-> delta, notes |-> notes, degraded |-> notes # {}]

\* The overview needs two rows to compare, however few it shows.
GetOverview(limit) ==
    /\ pc = "idle"
    /\ IF limit <= 0 THEN Answered([code |-> 400])
       ELSE /\ sessions' = list_run_sessions(Max({2, limit})) /\ pc' = "listed"
            /\ UNCHANGED <<table, latest, baseline, current, answer>>

LookUpLatest ==
    /\ pc = "listed"
    /\ IF sessions = <<>> THEN Answered(Overview({}, {"no_runs_available"}))
       ELSE /\ latest' = get_run(sessions[1].id) /\ pc' = "latest"
            /\ UNCHANGED <<table, sessions, baseline, current, answer>>

LookUpBaseline ==
    /\ pc = "latest"
    /\ IF Len(sessions) < 2 THEN Answered(Overview({}, {"insufficient_runs_for_delta"}))
       ELSE /\ baseline' = get_run(sessions[2].id) /\ pc' = "both"
            /\ UNCHANGED <<table, sessions, latest, current, answer>>

\* compare_runs looks both rows up again.
LookUpCurrent ==
    /\ pc = "both"
    /\ current' = get_run(latest.id) /\ pc' = "current"
    /\ UNCHANGED <<table, sessions, latest, baseline, answer>>

LookUpBaselineAgain ==
    /\ pc = "current"
    /\ LET base == get_run(baseline.id)
       IN  IF CompareError(current, base) # 200
           THEN Answered(Overview({}, {"delta_comparison_unavailable"}))
           ELSE Answered(Overview({Compared(current, base)}, {}))

\* /dashboard/runs/recent
GetRecentRuns(limit) ==
    /\ pc = "idle"
    /\ IF limit <= 0 THEN Answered([code |-> 400])
       ELSE /\ sessions' = list_run_sessions(limit) /\ pc' = "recent"
            /\ UNCHANGED <<table, latest, baseline, current, answer>>

BuildRecentRuns ==
    /\ pc = "recent"
    /\ Answered([code |-> 200, kind |-> "recent",
                 links |-> [n \in DOMAIN sessions |-> compare_url(n)]])

Forget == /\ pc = "answered" /\ pc' = "idle" /\ answer' = NoAnswer
          /\ rewritten' = {} /\ UNCHANGED <<rows, saved, request>>

TableStep ==
    \/ \E k \in Kinds : CreateRun(k)
    \/ \E s \in {"COMPLETED", "FAILED"} : PersistCycle(s)
    \/ \E i \in DOMAIN rows : \/ FailRun(i) \/ \E o \in Outcomes : RecordRun(i, o)
                             \/ CleanUpRun(i) \/ AnnotateRun(i)

RequestStep ==
    \/ \E cur, base \in 0..MaxRows : GetDelta(cur, base)
    \/ \E limit \in Limits : GetOverview(limit) \/ GetRecentRuns(limit)
    \/ LookUpBaselineOfDelta \/ LookUpLatest \/ LookUpBaseline \/ LookUpCurrent
    \/ LookUpBaselineAgain \/ BuildRecentRuns \/ Forget

AnalyticsNext == TableStep \/ RequestStep

AnalyticsSpec == AnalyticsInit /\ [][AnalyticsNext]_analyticsVars

-----------------------------------------------------------------------------
(* Properties                                                              *)

AnalyticsTypeOK ==
    /\ Len(rows) <= MaxRows
    /\ pc \in {"idle", "listed", "latest", "both", "current", "delta", "recent", "answered"}
    /\ Len(sessions) <= MaxRows
    /\ {latest.id, baseline.id, current.id} \subseteq 0..MaxRows
    /\ answer.code \in {0, 200, 400, 404, 422}

Shows(kind) == answer.code = 200 /\ answer.kind = kind
Verdict(delta, key) == delta.deltas[key].classification

\* The parts of an overview come from five reads between which runs go on, and still do not
\* contradict each other: where the trend of the health or of the failures is known, the
\* comparison gives the same verdict, and the headline is not behind the list: what the list
\* shows of a recorded run the headline shows (dashboard_service.py:114-179).  Excepted are the
\* runs whose recorded row a cleanup or a summary overwrote between these reads.
ReadsAgree ==
    Shows("overview") =>
        /\ \A d \in answer.delta : {d.current.id, d.baseline.id} \cap rewritten = {} =>
            /\ answer.health = "up" => Verdict(d, "health_pct") = "improvement"
            /\ answer.health = "down" => Verdict(d, "health_pct") = "regression"
            /\ answer.health = "flat" => Verdict(d, "health_pct") = "neutral"
            /\ answer.failed = "up" => Verdict(d, "failed") = "regression"
            /\ answer.failed = "down" => Verdict(d, "failed") = "improvement"
            /\ answer.failed = "flat" => Verdict(d, "failed") = "neutral"
        /\ answer.listed # <<>> =>
            LET first == answer.listed[1]
            IN  first.recorded /\ first.id \notin rewritten => answer.headline = first

Mirror(verdict) ==
    CASE verdict = "regression" -> "improvement"
      [] verdict = "improvement" -> "regression"
      [] verdict \in {"neutral", "unknown"} -> verdict
Size(n) == IF n < 0 THEN -n ELSE n

\* The duration of a run that has not been recorded is shown as 0, not as missing.
HasValue(there, key) ==
    key # "wall_duration_ms" \/ (there.current.recorded /\ there.baseline.recorded)

\* A comparison judges every metric once and as its direction says: what is a regression from
\* one run to the other is an improvement the other way round, what is judged has been measured
\* in both runs, and no metric that moved further is left out of the highlights.  Nothing is said
\* of the wall clock where a run has not been recorded: it is judged by a duration of 0 there, and
\* docs/Release Management/Delta Comparison Policy.md:36 says unknown (README, section 6).
IsFair(there) ==
    LET back == Compared(there.baseline, there.current)
        shown == ToSet(there.highlights)
    IN  \A key \in Metrics : HasValue(there, key) =>
            /\ Verdict(back, key) = Mirror(Verdict(there, key))
            /\ Verdict(there, key) # "unknown" => there.current.recorded /\ there.baseline.recorded
            /\ key \notin shown =>
                  \/ there.deltas[key].delta = 0
                  \/ /\ Len(there.highlights) = 5
                     /\ \A s \in shown : Size(there.deltas[s].delta) >= Size(there.deltas[key].delta)

\* Every comparison that is answered is fair in this sense (delta_service.py:82-213).
DeltaIsFair == Shows("delta") => IsFair(answer.delta)

\* The overview accounts for what it shows: unless it says that it is degraded its rollups count
\* every metric of the comparison once, and a metric that lacks a measurement among the unknown
\* ones (dashboard_service.py:196-225).
RollupsAccount ==
    Shows("overview") =>
        LET counts(c) == answer.reliability.summary[c] + answer.performance.summary[c]
        IN  /\ answer.degraded <=> answer.delta = {}
            /\ \A d \in answer.delta : \A c \in DOMAIN d.summary :
                  counts(c) = Cardinality({key \in Metrics : Verdict(d, key) = c})
            /\ answer.delta = {} => \A c \in DOMAIN NoRollup.summary : counts(c) = 0

\* A link to a comparison leads to one: of the run with an older one, and refused only because
\* the two are of different kinds (dashboard_service.py:265-281, analytics.py:25-35).
LinksLead ==
    Shows("recent") =>
        \A n \in DOMAIN answer.links : answer.links[n] # NoRun =>
            LET cur == get_run(answer.links[n].current)
                base == get_run(answer.links[n].baseline)
            IN  /\ answer.links[n].baseline < answer.links[n].current
                /\ CompareError(cur, base) \in {200, 422}

\* What holds of every answer of the dashboard (delta_service.py, dashboard_service.py).
AnalyticsInv == AnalyticsTypeOK /\ RollupsAccount /\ LinksLead
=============================================================================
