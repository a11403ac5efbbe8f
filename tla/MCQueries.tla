------------------------------ MODULE MCQueries ------------------------------
(* The instance of the modules without processes of their own: requests     *)
(* that compare runs, and samples of result files, logs, archives and       *)
(* configurations, on each of which the algorithms are evaluated.  A sample *)
(* is taken only where no request has begun: the two have nothing in common.*)
EXTENDS RunAnalytics, TestoConfig

CONSTANTS Statuses, MaxFiles, MaxLines, MaxLine

VARIABLE sample

File(status, id, start, stop) ==
    [form |-> "result", nested |-> FALSE, status |-> status, trace |-> TRUE,
     historyId |-> id, fullName |-> NULL, uuid |-> 9, start |-> start, stop |-> stop]
Outcome(rc, wall, files) == [returncode |-> rc, wall |-> wall, health |-> NULL, is_dir |-> TRUE, files |-> files]

SampleOutcomes ==
    {Outcome(0, 3, <<File("passed", 1, 0, 2), File("passed", 2, 0, 4)>>),
     Outcome(1, 2, <<File("broken", 1, 0, 1), File("skipped", 2, 1, 2), File("failed", 3, 3, 3)>>),
     Outcome(0, 1, <<>>), [Outcome(1, 4, <<>>) EXCEPT !.is_dir = FALSE]}

-----------------------------------------------------------------------------
(* Result files, logs and archives                                         *)

Times == {<<0, 3>>, <<2, NULL>>, <<4, 1>>, <<NULL, NULL>>}
OddFile == {[File("passed", 1, 0, 3) EXCEPT !.form = form, !.nested = nested] :
                form \in {"other", "invalid", "binary"}, nested \in BOOLEAN}
ResultFile ==
    OddFile \cup
    {[File(st, 1, t[1], t[2]) EXCEPT !.nested = nested, !.trace = trace] :
        st \in Statuses, t \in Times, nested \in BOOLEAN, trace \in BOOLEAN}
Summary == {[total |-> n, counts |-> c, duration_ms |-> 5] :
                n \in {0, 3}, c \in {NoCount, [NoCount EXCEPT !["passed"] = 2, !["failed"] = 1]}}

\* The key of a case is its history identifier, its full name or its uuid; the identifier and the
\* name begin with the same 80 characters.
SampleCut(key) == IF key = 2 THEN 1 ELSE key
ArchivedFile ==
    {f \in OddFile : ~f.nested} \cup {[File(st, id, 0, 1) EXCEPT !.fullName = name] :
                    st \in {"passed", "failed", "broken"}, id \in {NULL, 1}, name \in {NULL, 2}}

-----------------------------------------------------------------------------
(* Configurations: one dimension at a time                                 *)

Section0 == [is |-> "missing", list |-> <<>>]
Given(list) == [is |-> "given", list |-> list]
NoSingle == [name |-> "missing", test_type |-> "missing", framework |-> "missing",
             target |-> "missing", timeout |-> "missing", env |-> "missing"]
Empty == [form |-> "mapping", cycles |-> Section0, plans |-> Section0, runs |-> Section0,
          single |-> NoSingle, defaults |-> NoDefaults, url |-> "missing"]
DefaultsSample == [timeout : {"missing", "null", "30", "text"}, env : {"missing", "shared"}]

RawStage(name, equipment, framework, timeout, env) ==
    [name |-> name, equipment |-> equipment, framework |-> framework, timeout |-> timeout,
     env |-> env, cond |-> <<>>]
AStage == RawStage("s", "pytest", "missing", "missing", "missing")
Stages == {RawStage(n, q, f, t, e) : n \in {"s", "missing", "../s"}, q \in {"pytest", "missing", "tox"},
              f \in {"missing", "null", "behave_native"}, t \in {"missing", "null", "7", "text"},
              e \in {"missing", "own", "empty"}}
Cycle(name, list) == [name |-> name, stages |-> list]
ACycle == Given(<<Cycle("c", <<AStage>>)>>)

RawRuns == [name : {"missing", "n", "../s"}, test_type : {"missing", "pytest", "behave_native", "tox"},
            framework : {"missing", "behavex"}, target : {"missing", "null", "t"},
            timeout : {"missing", "null", "7", "text"}, env : {"missing"}]
ARun == [NoSingle EXCEPT !.test_type = "pytest", !.target = "t"]

Documents ==
    {[Empty EXCEPT !.cycles = Given(<<Cycle("c", <<s>>)>>), !.defaults = d] :
            s \in Stages, d \in DefaultsSample}
    \cup {[Empty EXCEPT !.cycles = Given(<<Cycle(n, <<AStage>>), Cycle("d", list)>>)] :
            n \in {"c", "all"},
            list \in {<<>>, <<AStage, [AStage EXCEPT !.timeout = "7"]>>, <<AStage, [AStage EXCEPT !.name = ""]>>}}
    \cup {[Empty EXCEPT !.runs = Given(<<r>>), !.defaults = d] : r \in RawRuns, d \in DefaultsSample}
    \cup {[Empty EXCEPT !.runs = Given(<<ARun, r>>)] : r \in RawRuns}
    \cup {[Empty EXCEPT !.single = r, !.defaults = d] : r \in RawRuns, d \in DefaultsSample}
    \cup {[Empty EXCEPT !.cycles = c, !.plans = p, !.runs = r] :
            c \in {Section0, [Section0 EXCEPT !.is = "null"], Given(<<>>), ACycle},
            p \in {Section0, [Section0 EXCEPT !.is = "null"], Given(<<Cycle("p", <<AStage>>)>>)},
            r \in {Section0, [Section0 EXCEPT !.is = "null"], Given(<<ARun>>)}}

Simple == [Empty EXCEPT !.cycles = ACycle, !.defaults.timeout = "30"]
Form(form) == [Empty EXCEPT !.form = form]
Yaml == {Form("absent"), Form("invalid"), Form("empty"), [Form("list") EXCEPT !.runs = Given(<<ARun>>)],
         Simple, [Simple EXCEPT !.url = "file"]}
Toml == {Form("absent"), Form("no table"), Form("invalid"), Simple, [Simple EXCEPT !.url = "file"]}
Disk(a, b, c) == Candidates[1] :> a @@ Candidates[2] :> b @@ Candidates[3] :> c
Disks == {Disk(doc, Form("absent"), Form("absent")) : doc \in Documents}
         \cup {Disk(a, b, c) : a \in Yaml, b \in Yaml, c \in Toml}

Environment == [DATABASE_URL : {"missing", "env"}, POSTGRES : BOOLEAN]

\* $A and $B stand for ${env:A} and for ${env:B:-default}; one operator at most.
Words == {"x", "0", "$A", "$B"}
Sides == {<<>>} \cup {<<w>> : w \in Words} \cup {<<w, v>> : w \in {"x", "$A"}, v \in Words}
Conditions == Sides \cup {l \o <<op>> \o r : l \in Sides, op \in Operators, r \in Sides}
Values == {<<>>, <<"x">>, <<"y">>, <<"0">>, <<"x", "==", "y">>}

-----------------------------------------------------------------------------
NoSample == [of |-> "none"]

MCInit == AnalyticsInit /\ sample = NoSample

\* A sample is taken first or never.
Take(s) == sample' = s /\ UNCHANGED analyticsVars

TakeFiles ==
    \/ \E files \in BoundedSeq(ResultFile, MaxFiles) :
            Take([of |-> "files", summaries |-> <<>>, files |-> files])
    \/ \E s \in Summary, f \in ResultFile : Take([of |-> "files", summaries |-> <<s>>, files |-> <<f>>])
TakeLog ==
    \E lines \in BoundedSeq(0..MaxLine, MaxLines), max \in 1..MaxLines :
        Take([of |-> "log", lines |-> lines, max_chars |-> max])
TakeArchives ==
    \E a, b \in BoundedSeq(ArchivedFile, MaxFiles) : Take([of |-> "archives", baseline |-> a, current |-> b])
TakeConfig ==
    \E disk \in Disks, env \in Environment, reachable \in BOOLEAN :
        Take([of |-> "config", disk |-> disk, env |-> env, reachable |-> reachable])
TakeCondition ==
    \E cond \in Conditions, a, b \in Values :
        Take([of |-> "condition", cond |-> cond, env |-> "$A" :> a @@ "$B" :> b])

Begin ==
    /\ sample = NoSample /\ rows = <<>> /\ pc = "idle"
    /\ TakeFiles \/ TakeLog \/ TakeArchives \/ TakeConfig \/ TakeCondition

\* An answer is looked at, and forgotten, before the table moves on.
MCNext ==
    \/ /\ sample = NoSample /\ AnalyticsNext /\ UNCHANGED sample
       /\ pc = "answered" => pc' = "idle"
    \/ Begin

MCSpec == MCInit /\ [][MCNext]_<<analyticsVars, sample>>

-----------------------------------------------------------------------------
(* Properties                                                              *)

\* What is kept of a run and what is compared of two archives accounts for every result file, and
\* the tail of a log is its end (metrics.py:36-85, run_history.py:749-845,
\* report_archive_diff.py:62-167).
ResultsAccount ==
    /\ sample.of = "files" => MetricsAccount(sample.summaries, sample.files) /\ FailuresAreKept(sample.files)
    /\ sample.of = "log" => TailIsTheEnd(sample.lines, sample.max_chars)
    /\ sample.of = "archives" => DiffIsAPatch(sample.baseline, sample.current)

=============================================================================
