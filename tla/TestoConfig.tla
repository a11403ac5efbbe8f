----------------------------- MODULE TestoConfig -----------------------------
(***************************************************************************)
(* From configuration files to the stages that run and the database that is*)
(* used: discovery, parsing and resolution (config/loader.py, resolver.py),*)
(* the older loader of flat runs (services/config_loader.py), database.url *)
(* and the command that writes it (config/database_section.py,             *)
(* db_config.py).                                                          *)
(*                                                                         *)
(* A file is known by what the loaders look at.  "missing" stands for a key*)
(* that is absent and "null" for one without a value; a section has, next  *)
(* to that, the sequence it lists.  A name, a time or an environment is one*)
(* of a few values that the code tells apart.                              *)
(***************************************************************************)
EXTENDS Integers, Sequences, FiniteSets, FiniteSetsExt, SequencesExt

Candidates == <<"testosterone.yaml", "testosterone.yml", "pyproject.toml">>
Frameworks == {"pytest", "behave", "behavex"}     \* SUPPORTED_FRAMEWORKS
TestTypes == {"pytest", "behave_native", "behavex"}
Escaping == {"../s", "/s"}      \* names that would leave the artifacts directory

Bad(e) == [error |-> e, timeout |-> "null", cycles |-> <<>>]
FirstError(errors) == LET bad == {k \in DOMAIN errors : errors[k] # "none"}
                      IN  IF bad = {} THEN "none" ELSE errors[Min(bad)]
Each(Op(_), seq) == [k \in DOMAIN seq |-> Op(seq[k])]

-----------------------------------------------------------------------------
(* loader.py                                                               *)

\* An absent time of defaults is 600 seconds; text in its place is not a ConfigError.
parse_defaults(raw) == [timeout |-> IF raw.timeout = "missing" THEN "600" ELSE raw.timeout,
                        env |-> IF raw.env = "missing" THEN "empty" ELSE raw.env]

Equipment(raw) == IF raw.equipment \notin {"missing", "null"} THEN raw.equipment
                  ELSE IF raw.framework = "null" THEN "missing" ELSE raw.framework
Native(framework) == IF framework = "behave_native" THEN "behave" ELSE framework

\* Both names of the equipment must agree where both are given; then the time is converted.
stage_error(raw) ==
    IF \/ {raw.equipment, raw.framework} \cap {"missing", "null"} = {} /\ raw.equipment # raw.framework
       \/ raw.name \in {"missing", "null", ""} \cup Escaping
       \/ Native(Equipment(raw)) \notin Frameworks
    THEN "validation" ELSE IF raw.timeout = "text" THEN "crash" ELSE "none"


parse_stage(raw, defaults) ==
    [name |-> raw.name, framework |-> Native(Equipment(raw)), cond |-> raw.cond,
     timeout |-> IF raw.timeout = "missing" THEN defaults.timeout ELSE raw.timeout,
     env |-> IF raw.env \in {"missing", "null", "empty"} THEN defaults.env ELSE raw.env]

parse_cycle(cycle, defaults) ==
    [name |-> cycle.name,
     stages |-> Each(LAMBDA raw : parse_stage(raw, defaults), cycle.stages)]

cycle_error(cycle) ==
    IF cycle.name \in {"all"} \cup Escaping \/ cycle.stages = <<>> THEN "validation"
    ELSE FirstError(Each(stage_error, cycle.stages))

Loaded(defaults, cycles, error) ==
    IF error # "none" THEN Bad(error)
    ELSE [error |-> "none", timeout |-> defaults.timeout, cycles |-> cycles]

\* Cycles without a value give way to plans; an empty mapping does not.
Section(doc) == IF doc.cycles.is = "given" THEN doc.cycles.list ELSE doc.plans.list
HasCycles(doc) == {doc.cycles.is, doc.plans.is} # {"missing"}

build_cycle_config(doc) ==
    LET defaults == parse_defaults(doc.defaults)
        raw == Section(doc)
    IN  IF doc.defaults.timeout = "text" THEN Bad("crash")
        ELSE IF raw = <<>> THEN Bad("validation")
        ELSE Loaded(defaults, Each(LAMBDA c : parse_cycle(c, defaults), raw),
                    FirstError(Each(cycle_error, raw)))

\* A flat run as a stage: it always has a time, of no value where the run states none, so that
\* the one of defaults is never taken.
StageOf(run) ==
    [name |-> IF run.name = "missing" THEN "numbered" ELSE run.name, equipment |-> "missing",
     framework |-> IF run.test_type \in {"missing", "null"} THEN run.framework ELSE run.test_type,
     timeout |-> IF run.timeout = "missing" THEN "null" ELSE run.timeout,
     env |-> run.env, cond |-> <<>>]

build_legacy_runs_config(runs, raw_defaults) ==
    LET defaults == parse_defaults(raw_defaults)
        stages == Each(StageOf, runs)
    IN  IF runs = <<>> THEN Bad("validation")
        ELSE IF raw_defaults.timeout = "text" THEN Bad("crash")
        ELSE Loaded(defaults, <<parse_cycle([name |-> "default", stages |-> stages], defaults)>>,
                    FirstError(Each(stage_error, stages)))

\* A single run needs its type and its target; the file's own defaults are not passed on.
IsSingle(run) == "missing" \notin {run.test_type, run.target}
NoDefaults == [timeout |-> "missing", env |-> "missing"]

build_config(doc) ==
    IF HasCycles(doc) THEN build_cycle_config(doc)
    ELSE IF doc.runs.is # "missing" THEN build_legacy_runs_config(doc.runs.list, doc.defaults)
    ELSE IF IsSingle(doc.single) THEN build_legacy_runs_config(<<doc.single>>, NoDefaults)
    ELSE Bad("validation")

\* A list is taken for the list of runs.
load_config(doc) ==
    CASE doc.form = "absent" -> Bad("discovery")
      [] doc.form = "no table" -> Bad("discovery")
      [] doc.form \in {"invalid", "empty"} -> Bad("validation")
      [] doc.form \in {"mapping", "list"} -> build_config(doc)

Existing(disk) == {k \in DOMAIN Candidates : disk[Candidates[k]].form # "absent"}
\* The first file that exists, whatever it contains.
Found(disk) == Candidates[Min(Existing(disk))]

discover_and_load(disk) ==
    IF Existing(disk) = {} THEN Bad("discovery") ELSE load_config(disk[Found(disk)])

-----------------------------------------------------------------------------
(* resolver.py.  An expression is a sequence of words, operators and       *)
(* references to the environment, whose values are sequences too.          *)

Operators == {"==", "!="}
Falsy == {<<>>, <<"0">>, <<"false">>, <<"no">>, <<"off">>}

IsReference(word) == word \in {"$A", "$B"}
Interpolate(expr, env) ==
    FlattenSeq([k \in DOMAIN expr |-> IF IsReference(expr[k]) THEN env[expr[k]] ELSE <<expr[k]>>])

\* The text is interpolated and then split at the first ==, or else at the first !=.
eval_if(expr, env) ==
    LET text == Interpolate(expr, env)
        At(op) == SelectInSeq(text, LAMBDA word : word = op)
        Sides(op) == <<SubSeq(text, 1, At(op) - 1), SubSeq(text, At(op) + 1, Len(text))>>
    IN  IF expr = <<>> THEN TRUE
        ELSE IF At("==") # 0 THEN Sides("==")[1] = Sides("==")[2]
        ELSE IF At("!=") # 0 THEN Sides("!=")[1] # Sides("!=")[2] ELSE text \notin Falsy

resolve_stages_for_plan(plan, env) == SelectSeq(plan.stages, LAMBDA s : eval_if(s.cond, env))

\* With a name the cycle of that name; without one the only cycle.
resolve_plan(config, name) ==
    LET named == SelectSeq(config.cycles, LAMBDA c : c.name = name)
    IN  IF name = "none" THEN IF Len(config.cycles) = 1 THEN config.cycles ELSE <<>> ELSE named

-----------------------------------------------------------------------------
(* services/config_loader.py: the loader of the headless engine.  A run's  *)
(* target is taken to exist.                                               *)

run_item_error(run) ==
    IF run.test_type \notin TestTypes \/ run.target \in {"missing", "null"} \/ run.timeout = "text"
    THEN "validation" ELSE "none"

\* runs come before everything else here; an object without them is a single run.
load_run_specs_from_yaml(doc) ==
    LET runs == IF doc.runs.is # "missing" THEN doc.runs.list ELSE <<doc.single>>
        error == FirstError(Each(run_item_error, runs))
    IN  IF doc.form \notin {"mapping", "list"} \/ runs = <<>> \/ error # "none"
        THEN [error |-> "validation", specs |-> <<>>]
        ELSE [error |-> "none",
              specs |-> Each(LAMBDA run : [test_type |-> run.test_type,
                                           timeout |-> IF run.timeout = "missing" THEN "null"
                                                       ELSE run.timeout],
                             runs)]

-----------------------------------------------------------------------------
(* The database                                                            *)

\* Only a mapping has a database section; every error counts as no section.
file_url(doc) == IF doc.form = "mapping" THEN doc.url ELSE "missing"

resolve_database_url(disk, env) ==
    LET of_file == IF Existing(disk) = {} THEN "missing" ELSE file_url(disk[Found(disk)])
    IN  IF env.DATABASE_URL # "missing" THEN env.DATABASE_URL
        ELSE IF of_file # "missing" THEN of_file
        ELSE IF env.POSTGRES THEN "postgresql" ELSE "sqlite"

\* A mapping keeps its other sections; a pyproject without the table gets one with nothing else;
\* anything else is refused and left as it is.
merge_database_url(doc, url) ==
    IF doc.form \in {"mapping", "no table"} THEN [doc EXCEPT !.form = "mapping", !.url = url] ELSE doc

\* Nothing is written unless the database answers.
config_db(disk, url, reachable) ==
    IF Existing(disk) = {} \/ ~reachable THEN disk
    ELSE [disk EXCEPT ![Found(disk)] = merge_database_url(@, url)]

-----------------------------------------------------------------------------
(* What loading and resolving owe to the files.                            *)

Lists(doc) == IF HasCycles(doc) THEN FoldLeft(LAMBDA all, c : all \o c.stages, <<>>, Section(doc))
              ELSE IF doc.runs.is = "missing" THEN <<doc.single>> ELSE doc.runs.list
StagesOf(config) == FoldLeft(LAMBDA all, c : all \o c.stages, <<>>, config.cycles)
Stated(doc, k, field) == Lists(doc)[k][field] \notin {"missing", "empty"}
Inherited(doc, k, field) ==
    IF Stated(doc, k, field) THEN Lists(doc)[k][field] ELSE parse_defaults(doc.defaults)[field]

\* A configuration that loads is the one of the first file that exists, and means what it says:
\* every cycle has its stages in order, each with a framework that exists, a name that stays in the
\* directory of the artifacts, and the time and the environment it states; what a stage of a cycle
\* does not state it has from defaults; and a cycle can be asked for by its name.  (Not asked: that
\* the names of the stages of a cycle differ; and that a stage that a flat run becomes has from
\* defaults what it does not state: it has not, against schema.py:21, README, section 6.)
LoadsAsWritten(disk) ==
    LET config == discover_and_load(disk)
        doc == disk[Found(disk)]
        stages == StagesOf(config)
    IN  config.error = "none" =>
            /\ Len(stages) = Len(Lists(doc))
            /\ \A k \in DOMAIN stages :
                  /\ stages[k].framework \in Frameworks
                  /\ stages[k].name \notin Escaping \cup {""}
                  /\ \A field \in {"timeout", "env"} : HasCycles(doc) \/ Stated(doc, k, field) =>
                        stages[k][field] = Inherited(doc, k, field)
            /\ \A k \in DOMAIN config.cycles :
                  resolve_plan(config, config.cycles[k].name) = <<config.cycles[k]>>

\* The engine's loader and the loader of cycles agree on flat runs: what the first accepts the
\* second accepts, unless a run has a name that it refuses, or defaults a time that is not a
\* number; and they find the same runs with the same times.
LoadersAgree(doc) ==
    LET specs == load_run_specs_from_yaml(doc)
        runs == IF doc.runs.is # "missing" THEN doc.runs.list ELSE <<doc.single>>
        config == load_config(doc)
    IN  /\ specs.error = "none" /\ ~HasCycles(doc)
        /\ \A k \in DOMAIN runs : runs[k].name \notin {"", "null"} \cup Escaping
        /\ doc.runs.is = "given" => doc.defaults.timeout # "text"
        => /\ config.error = "none"
           /\ LET stages == config.cycles[1].stages
              IN  /\ Len(stages) = Len(specs.specs)
                  /\ \A k \in DOMAIN stages : /\ stages[k].framework = Native(specs.specs[k].test_type)
                                              /\ stages[k].timeout = specs.specs[k].timeout

\* `testo config db' changes where the results go and nothing else: unless the environment says
\* otherwise the new url is used next, and the cycles that load are the same as before.
MergeKeepsConfig(disk, env, url, reachable) ==
    LET after == config_db(disk, url, reachable)
        before == discover_and_load(disk)
    IN  /\ before.error = "none" => discover_and_load(after) = before
        /\ after # disk /\ env.DATABASE_URL = "missing" => resolve_database_url(after, env) = url
        /\ before.error # "none" => discover_and_load(after).error # "none"
        /\ Cardinality({f \in DOMAIN disk : disk[f] # after[f]}) <= 1

\* A condition of two sides compares what the sides are replaced by, as long as no value has an
\* operator in it, so that of two stages with opposite conditions one runs; a condition of one
\* side holds unless it is replaced by a word for no.
ConditionsCompare(expr, env) ==
    LET at == SelectInSeq(expr, LAMBDA word : word \in Operators)
        left == Interpolate(SubSeq(expr, 1, at - 1), env)
        right == Interpolate(SubSeq(expr, at + 1, Len(expr)), env)
        Plain == \A word \in DOMAIN env : ToSet(env[word]) \cap Operators = {}
    IN  Plain /\ expr # <<>> =>
            /\ eval_if(expr, env) = IF at = 0 THEN Interpolate(expr, env) \notin Falsy
                                    ELSE IF expr[at] = "==" THEN left = right ELSE left # right
            /\ at # 0 =>
                  LET opposite == [expr EXCEPT ![at] = IF @ = "==" THEN "!=" ELSE "=="]
                  IN  Len(resolve_stages_for_plan(
                            [stages |-> <<[cond |-> expr], [cond |-> opposite]>>], env)) = 1
=============================================================================
