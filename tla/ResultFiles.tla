----------------------------- MODULE ResultFiles -----------------------------
(***************************************************************************)
(* What is computed from Allure result files and from a log: the metrics of*)
(* a run (metrics.py, metrics_extractor.py), the failed cases and the tail *)
(* of the log that are kept with its row (run_history.py), and the         *)
(* differences between two archives (report_archive_diff.py).              *)
(*                                                                         *)
(* A directory is the sequence of its *-result.json files in the order of  *)
(* their paths.  Of a file only what is looked at is kept: its form,       *)
(* whether it lies in a subdirectory, its identifiers, status and times,   *)
(* and whether it has a trace.  A form is "result", a JSON object; "other",*)
(* JSON that is no object; "invalid", no JSON; or "binary", no UTF-8.      *)
(***************************************************************************)
EXTENDS Integers, Sequences, FiniteSets, FiniteSetsExt, SequencesExt, Functions

CONSTANTS
    MaxCases,   \* failed cases that are kept of a run
    Cut(_)      \* the first 80 characters of a key

NULL == -1

\* A directory whose files state a time as a number, or not at all.
IsDirectory(files) ==
    files \in Seq(ToSet(files)) /\ \A f \in ToSet(files) : {f.start, f.stop} \subseteq Int

Counts == {"passed", "failed", "broken", "skipped", "unknown"}
NoCount == [c \in Counts |-> 0]
Failing == {"failed", "broken"}

\* The forms a file is not skipped for are not the same everywhere, and every computation breaks
\* off at a file that it does not skip and that is no object.
HasForm(files, forms) == \E f \in ToSet(files) : f.form \in forms

\* Any other status is counted as unknown.
Counted(files, c) ==
    Cardinality({k \in DOMAIN files :
        /\ files[k].form = "result"
        /\ c = IF files[k].status \in Counts THEN files[k].status ELSE "unknown"})

Total(counts) ==
    counts["passed"] + counts["failed"] + counts["broken"] + counts["skipped"] + counts["unknown"]

Nothing == [total |-> NULL]

\* Nothing where it raises: record_completed_run and extract_best go on without metrics.
parse_allure_results_dir(files) ==
    LET seen == {k \in DOMAIN files : files[k].form = "result"}
        starts == {files[k].start : k \in seen} \ {NULL}
        stops == {files[k].stop : k \in seen} \ {NULL}
    IN  IF HasForm(files, {"other"}) THEN Nothing
        ELSE [total |-> Cardinality(seen), counts |-> [c \in Counts |-> Counted(files, c)],
              duration_ms |-> IF starts # {} /\ stops # {} /\ Max(stops) >= Min(starts)
                              THEN Max(stops) - Min(starts) ELSE 0]

\* A summary.json states its counts, and perhaps a total: a total of 0 counts as none.
extract_from_summary_json(summary) ==
    [total |-> IF summary.total # 0 THEN summary.total ELSE Total(summary.counts),
     counts |-> summary.counts, duration_ms |-> summary.duration_ms]

\* summaries: those of widgets/ and data/ that can be parsed and have statistics, in this order.
extract_best(summaries, is_dir, files) ==
    IF summaries # <<>> THEN extract_from_summary_json(Head(summaries))
    ELSE IF is_dir THEN parse_allure_results_dir(files) ELSE Nothing

\* Subdirectories are not searched, no file after the last case that is kept is looked at, and the
\* trace is looked for in these cases only.
extract_failure_context(files) ==
    LET stopping == SelectSeq(files, LAMBDA f :
                        ~f.nested /\ (f.form = "result" => f.status \in Failing) /\ f.form # "invalid")
        kept == SubSeq(stopping, 1, Min({MaxCases, Len(stopping)}))
        traced == SelectSeq(kept, LAMBDA f : f.trace)
    IN  [raises |-> HasForm(kept, {"other", "binary"}), failed_cases |-> kept,
         trace |-> IF traced = <<>> THEN <<>> ELSE <<Head(traced)>>]

-----------------------------------------------------------------------------
(* The tail of a log.  A line is known by its length.                      *)

Chars(lines) == FoldSeq(LAMBDA line, n : line + n, 0, lines)
               + (IF lines = <<>> THEN 0 ELSE Len(lines) - 1)

\* From the last line on, as many lines as fit; if all of them are empty, the last that is not.
\* A text that fits is returned as it is.
read_run_log_tail(lines, max_chars) ==
    LET Select(line, acc) ==
            LET cand == line + (IF acc.lines = <<>> THEN 0 ELSE 1)
            IN  IF acc.full \/ (acc.lines # <<>> /\ acc.used + cand > max_chars)
                THEN [acc EXCEPT !.full = TRUE]
                ELSE [acc EXCEPT !.lines = <<line>> \o @, !.used = @ + cand]
        selected == FoldRight(Select, lines, [lines |-> <<>>, used |-> 0, full |-> FALSE]).lines
        written == SelectSeq(lines, LAMBDA line : line > 0)
    IN  IF Chars(lines) <= max_chars THEN lines
        ELSE IF \E k \in DOMAIN selected : selected[k] > 0 THEN selected
        ELSE IF written = <<>> THEN selected ELSE <<Last(written)>>

-----------------------------------------------------------------------------
(* The difference of two archives.                                         *)

\* A file has its history identifier, its full name or else its own uuid for its key.
case_key(f) ==
    LET given == SelectSeq(<<f.historyId, f.fullName, f.uuid>>, LAMBDA id : id # NULL)
    IN  Head(given)

\* Where several files have one key the last that is visited counts; they are visited in the
\* order in which the file system lists them.  Nothing can be loaded where a file is no object or
\* no text: the comparison raises.
load_cases(files) ==
    LET seen == {f \in ToSet(files) : f.form = "result"}
        keys == {case_key(f) : f \in seen}
    IN  IF HasForm(files, {"other", "binary"}) THEN {}
        ELSE {cases \in [keys -> {f.status : f \in seen}] :
                \A k \in keys : \E f \in seen : case_key(f) = k /\ f.status = cases[k]}

\* Mutant: a broken case that passes is a change of status.
ChangeStrict(b, c) ==
    CASE b = c -> "unchanged"
      [] b = "passed" /\ c \in Failing -> "regression"
      [] b = "failed" /\ c = "passed" -> "fix"
      [] OTHER -> "status_change"

Change(b, c) ==
    CASE b = c -> "unchanged"
      [] b = "passed" /\ c \in Failing -> "regression"
      [] b \in Failing /\ c = "passed" -> "fix"
      [] OTHER -> "status_change"

\* The changes, in the order of the whole keys: an unchanged case has none, and a change carries
\* the beginning of its key only.
diff_archives(baseline, current) ==
    LET common == DOMAIN baseline \cap DOMAIN current
        kind == [k \in DOMAIN baseline \cup DOMAIN current |->
                    IF k \notin DOMAIN baseline THEN "added"
                    ELSE IF k \notin DOMAIN current THEN "removed"
                    ELSE Change(baseline[k], current[k])]
        From(k) == IF k \in DOMAIN baseline THEN baseline[k] ELSE "none"
        To(k) == IF k \in DOMAIN current THEN current[k] ELSE "none"
    IN  [k \in {k \in DOMAIN kind : kind[k] # "unchanged"} |->
            [key |-> Cut(k), from |-> From(k), to |-> To(k), kind |-> kind[k]]]

-----------------------------------------------------------------------------
(* What these computations owe to the files.                               *)

\* A directory with JSON that is no object has no metrics.  Of any other every result is counted
\* under one status, whatever it states, and the duration spans every test that has both times; and
\* whatever the metrics are taken from, they say that nothing ran only if nothing is counted.
MetricsAccount(summaries, files) ==
    LET m == parse_allure_results_dir(files)
        best == extract_best(summaries, TRUE, files)
    IN  /\ m = Nothing <=> HasForm(files, {"other"})
        /\ best = Nothing => summaries = <<>> /\ m = Nothing
        /\ best # Nothing /\ best.total = 0 => Total(best.counts) = 0
        /\ m # Nothing =>
            /\ m.total = Total(m.counts)
            /\ \A f \in ToSet(files) : f.form = "result" /\ NULL \notin {f.start, f.stop}
                   => m.duration_ms >= f.stop - f.start

\* The cases that are kept of a run did fail, and unless there are more than can be kept, a run
\* with a failure in the directory itself keeps every failure; only a file that is no object, or no
\* text, among them leaves a run that failed without a record.
FailuresAreKept(files) ==
    LET context == extract_failure_context(files)
        kept == context.failed_cases
        failures == Counted(files, "failed") + Counted(files, "broken")
    IN  /\ context.raises => HasForm(files, {"other", "binary"})
        /\ ~context.raises =>
            /\ \A f \in ToSet(kept) : f.form = "result" /\ f.status \in Failing
            /\ Len(kept) <= Min({MaxCases, failures})
            /\ (\A f \in ToSet(files) : ~f.nested) => Len(kept) = Min({MaxCases, failures})

\* The tail is the end of the log or, where that is blank, its last line with text: it is never
\* longer than allowed except for a single line, no further line would fit, and it is empty only
\* if the log is.
TailIsTheEnd(lines, max_chars) ==
    LET tail == read_run_log_tail(lines, max_chars)
        k == Len(lines) - Len(tail)
        OneLine == Len(tail) = 1 /\ tail[1] > 0
    IN  /\ Chars(tail) > max_chars => OneLine
        /\ \/ /\ tail = SubSeq(lines, k + 1, Len(lines))
              /\ k = 0 \/ Chars(tail) + 1 + lines[k] > max_chars
           \/ /\ OneLine
              /\ \E j \in DOMAIN lines : /\ lines[j] = tail[1]
                                         /\ \A i \in (j + 1)..Len(lines) : lines[i] = 0
        /\ (\E j \in DOMAIN lines : lines[j] > 0) => \E j \in DOMAIN tail : tail[j] > 0

Opposite(kind) ==
    CASE kind = "added" -> "removed"
      [] kind = "removed" -> "added"
      [] kind = "regression" -> "fix"
      [] kind = "fix" -> "regression"
      [] kind = "status_change" -> "status_change"
Backwards(d) == [key |-> d.key, from |-> d.to, to |-> d.from, kind |-> Opposite(d.kind)]

\* An archive as its cut keys show it, where these still tell the cases apart.
Distinct(keys) == \A k, l \in keys : Cut(k) = Cut(l) => k = l
ByCut(cases) ==
    [n \in {Cut(k) : k \in DOMAIN cases} |-> cases[CHOOSE k \in DOMAIN cases : Cut(k) = n]]
Patched(cases, changes) ==
    LET gone == {d.key : d \in {d \in changes : d.kind = "removed"}}
        new == {d.key : d \in changes} \ gone
    IN  [k \in (DOMAIN cases \ gone) \cup new |->
            IF k \in new THEN (CHOOSE d \in changes : d.key = k).to ELSE cases[k]]

\* The opposite comparison lists the same changes backwards, and where the first 80 characters tell
\* the cases apart the changes are a patch: applied to the baseline they give the current archive.
DiffIsAPatch(baseline, current) ==
    \A b \in load_cases(baseline), c \in load_cases(current) :
        LET changes == diff_archives(b, c)
        IN  /\ diff_archives(c, b) = [k \in DOMAIN changes |-> Backwards(changes[k])]
            /\ Distinct(DOMAIN b \cup DOMAIN c) => Patched(ByCut(b), Range(changes)) = ByCut(c)
=============================================================================
