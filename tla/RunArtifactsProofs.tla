-------------------------- MODULE RunArtifactsProofs --------------------------
(***************************************************************************)
(* Proofs about RunArtifacts, for any finite set of runs of either         *)
(* framework, and any number of attempts and of failures.                  *)
(***************************************************************************)
EXTENDS RunArtifacts, FiniteSetTheorems, TLAPS

-----------------------------------------------------------------------------
(* The inductive invariant                                                 *)

\* The runs whose results may lie in the directories of a run.
BehavexSide == BehavexRuns \cup {Unfollowed}
Own(r) == IF r \in BehavexRuns THEN BehavexSide ELSE {r}

Testing == {"test", "testing", "hooks", "sync", "measure"}
Recording == {"stage", "snapshot", "collect", "raw", "finalize"}

\* Whose results are where, and in which place those of this run are.
OwnInv(r) ==
    /\ results[r] \subseteq Own(r) /\ metrics[r] \subseteq Own(r) /\ row[r].metrics \subseteq Own(r)
    /\ pc[r] \in {"testing", "hooks"} => r \in BehavexRuns
    /\ pc[r] \in {"test", "testing"} => r \notin produced
    /\ r \in produced \ (audited \cup overtaken) =>
        /\ pc[r] = "hooks" => r \in results[r] \cup behave_json
        /\ pc[r] \in {"sync", "measure"} => r \in results[r]
        /\ pc[r] \in Recording => r \in metrics[r]
        /\ pc[r] = "done" => r \in row[r].metrics

\* The reports in the store are those that were staged, and all of them once
\* the prefix is noted.
SnapshotInv(r) ==
    /\ pc[r] \in Testing \cup {"stage"} => staged[r] = {}
    /\ pc[r] \in Testing \cup {"stage", "snapshot"} => ~outcome[r].prefix
    /\ \A p \in Stored(r) : p.name \in {"html", "raw"} \/ p \in staged[r]
    /\ outcome[r].prefix \/ row[r].prefix => staged[r] # {} /\ staged[r] \subseteq Stored(r)

\* The results that were measured are still there when they are uploaded, and a
\* file that was counted is in the store.
UploadInv(r) ==
    /\ pc[r] \in Testing \cup {"stage", "snapshot", "collect"} => outcome[r].count = 0
    /\ outcome[r].count > 0 => Stored(r) # {}
    /\ pc[r] \in Recording /\ r \notin audited => metrics[r] \subseteq results[r]
    /\ pc[r] = "finalize" /\ outcome[r].count > 0 /\ r \notin audited =>
        \A s \in metrics[r] : Part("raw", {s}) \in Stored(r)

\* The row is written by the last step.
RowInv(r) ==
    /\ row[r].status = "FINISHED" <=> pc[r] = "done"
    /\ pc[r] # "done" => ~row[r].prefix /\ ~row[r].url /\ row[r].sync = "none"
    /\ row[r].sync = "success" => row[r].prefix \/ row[r].url
    /\ row[r].url => Stored(r) # {}
    /\ row[r].sync = "skipped" => ~row[r].prefix /\ ~row[r].url
    /\ row[r].url /\ r \notin audited =>
        \A s \in row[r].metrics : Part("raw", {s}) \in Stored(r)

RunInv(r) == OwnInv(r) /\ SnapshotInv(r) /\ UploadInv(r) /\ RowInv(r)

IInv ==
    /\ TypeOK
    /\ behave_json \subseteq BehavexSide
    /\ \A r \in Runs : RunInv(r)

LEMMA InitInv == Init => IInv
<1> SUFFICES ASSUME Init PROVE IInv
  OBVIOUS
<1>1. PICK left \in SUBSET {Unfollowed} :
        /\ behave_json = left /\ native = left /\ mirror = left
        /\ allure_html = [k \in Kinds |-> left]
  BY DEF Init
<1>2. left \subseteq AnyRun /\ Cardinality(left) <= 1
  <2>1. Cardinality({}) = 0 /\ Cardinality({Unfollowed}) = 1
    BY FS_EmptySet, FS_Singleton
  <2>2. left = {} \/ left = {Unfollowed}
    OBVIOUS
  <2> QED
    BY <2>1, <2>2 DEF AnyRun
<1>3. TypeOK
  <2>1. 1 \in 1..MaxAttempts /\ 0 \in 0..MaxFaults
    BY MaxAttemptsAssumption, MaxFaultsAssumption
  <2> QED
    BY <1>1, <1>2, <2>1 DEF Init, TypeOK, Absent, NothingNoted, OpenRow
<1>4. behave_json \subseteq BehavexSide
  BY <1>1 DEF BehavexSide
<1>5. ASSUME NEW r \in Runs PROVE RunInv(r)
  <2>1. /\ pc[r] = "test" /\ results[r] = {} /\ metrics[r] = {} /\ staged[r] = {}
        /\ outcome[r] = NothingNoted /\ row[r] = OpenRow /\ Stored(r) = {} /\ produced = {}
    BY DEF Init, Absent, Stored
  <2>2. OwnInv(r)
    BY <2>1 DEF OwnInv, OpenRow, Absent, Recording
  <2> QED
    BY <2>1, <2>2 DEF RunInv, SnapshotInv, UploadInv, RowInv, OpenRow, NothingNoted, Recording
<1> QED
  BY <1>3, <1>4, <1>5 DEF IInv

-----------------------------------------------------------------------------
(* What a step leaves alone                                                *)

\* A run whose directories, row and objects stay, and whose results nobody
\* takes from the shared output unseen, keeps its invariant.
LEMMA Frame ==
    ASSUME IInv, NEW s \in Runs,
           pc'[s] = pc[s], results'[s] = results[s], metrics'[s] = metrics[s],
           staged'[s] = staged[s], outcome'[s] = outcome[s], row'[s] = row[s],
           Stored(s)' = Stored(s),
           audited \subseteq audited', overtaken \subseteq overtaken',
           s \in produced' => s \in produced,
           pc[s] = "hooks" /\ s \notin overtaken' => behave_json \subseteq behave_json'
    PROVE  RunInv(s)'
<1>1. RunInv(s)
  BY DEF IInv
<1>2. OwnInv(s)'
  BY <1>1 DEF RunInv, OwnInv
<1>3. SnapshotInv(s)'
  BY <1>1 DEF RunInv, SnapshotInv
<1>4. UploadInv(s)'
  BY <1>1 DEF RunInv, UploadInv
<1>5. RowInv(s)'
  BY <1>1 DEF RunInv, RowInv
<1> QED
  BY <1>2, <1>3, <1>4, <1>5 DEF RunInv

\* An upload adds to the objects of one run.
LEMMA StoredGrows ==
    ASSUME NEW r \in Runs, NEW parts, Upload(r, parts)
    PROVE  /\ Stored(r)' = Stored(r) \cup parts
           /\ \A s \in Runs \ {r} : Stored(s)' = Stored(s)
<1>1. store' = store \cup {[run |-> r, part |-> p] : p \in parts}
  BY DEF Upload
<1>2. ASSUME NEW s \in Runs
      PROVE  Stored(s)' = Stored(s) \cup IF s = r THEN parts ELSE {}
  <2>1. Stored(s) = {o.part : o \in {x \in store : x.run = s}}
    BY DEF Stored
  <2>2. Stored(s)' = {o.part : o \in {x \in store' : x.run = s}}
    BY DEF Stored
  <2>3. ASSUME NEW p PROVE p \in Stored(s)' <=> p \in Stored(s) \/ (s = r /\ p \in parts)
    <3>1. p \in Stored(s)' <=> \E o \in store' : o.run = s /\ p = o.part
      BY <2>2
    <3>2. p \in Stored(s) <=> \E o \in store : o.run = s /\ p = o.part
      BY <2>1
    <3>3. (\E o \in store' : o.run = s /\ p = o.part) <=>
             \/ \E o \in store : o.run = s /\ p = o.part
             \/ \E q \in parts : r = s /\ p = q
      <4>1. ASSUME NEW q PROVE LET o == [run |-> r, part |-> q] IN o.run = r /\ o.part = q
        OBVIOUS
      <4>2. ASSUME NEW o
            PROVE  o \in store' <=> o \in store \/ \E q \in parts : o = [run |-> r, part |-> q]
        BY <1>1
      <4>3. ASSUME NEW o \in store', o.run = s
            PROVE  (\E x \in store : x.run = s /\ o.part = x.part) \/ (r = s /\ o.part \in parts)
        <5>1. CASE o \in store
          BY <4>3, <5>1
        <5>2. CASE \E q \in parts : o = [run |-> r, part |-> q]
          BY <4>1, <4>3, <5>2
        <5> QED
          BY <4>2, <5>1, <5>2
      <4>4. ASSUME NEW q \in parts, r = s PROVE \E o \in store' : o.run = s /\ q = o.part
        <5>1. [run |-> r, part |-> q] \in store'
          BY <4>2
        <5> QED
          BY <4>1, <4>4, <5>1
      <4>5. ASSUME NEW o \in store PROVE o \in store'
        BY <4>2
      <4> QED
        BY <4>3, <4>4, <4>5
    <3> QED
      BY <3>1, <3>2, <3>3
  <2> QED
    BY <2>3
<1> QED
  BY <1>2

\* The steps of record_completed_run, seen from another run.
LEMMA RecordFrame ==
    ASSUME IInv, NEW r \in Runs, Record(r), NEW s \in Runs \ {r}
    PROVE  RunInv(s)'
<1>1. TypeOK
  BY DEF IInv
<1>2. UNCHANGED files /\ pc'[s] = pc[s]
  BY <1>1 DEF TypeOK, Record, Measure, SnapshotUnavailable, StageReports, UploadSnapshot,
     SnapshotOSError, SnapshotFails, UploadUnavailable, UploadHtml, NoHtml, UploadResults,
     UploadRetried, UploadFails, Finalize, At
<1>3. /\ metrics'[s] = metrics[s] /\ staged'[s] = staged[s] /\ outcome'[s] = outcome[s]
      /\ row'[s] = row[s]
  BY <1>1 DEF TypeOK, Record, Measure, SnapshotUnavailable, StageReports, UploadSnapshot,
     SnapshotOSError, SnapshotFails, UploadUnavailable, UploadHtml, NoHtml, UploadResults,
     UploadRetried, UploadFails, Finalize, local
<1>4. store' = store \/ \E parts : Upload(r, parts)
  <2>1. CASE \/ Measure(r) \/ SnapshotUnavailable(r) \/ StageReports(r) \/ UploadUnavailable(r)
             \/ NoHtml(r) \/ Finalize(r)
    BY <2>1 DEF Measure, SnapshotUnavailable, StageReports, UploadUnavailable, NoHtml, Finalize
  <2>2. CASE UploadSnapshot(r) \/ UploadHtml(r) \/ UploadResults(r)
    BY <2>2 DEF UploadSnapshot, UploadHtml, UploadResults
  <2>3. CASE SnapshotOSError(r) \/ SnapshotFails(r)
    BY <2>3 DEF SnapshotOSError, SnapshotFails, SomeReportsOnly
  <2>4. CASE UploadRetried(r) \/ UploadFails(r)
    BY <2>4 DEF UploadRetried, UploadFails, SomeResultsOnly
  <2> QED
    BY <2>1, <2>2, <2>3, <2>4 DEF Record
<1>5. Stored(s)' = Stored(s)
  BY <1>4, StoredGrows DEF Stored
<1> QED
  BY <1>2, <1>3, <1>5, Frame DEF files, reports, others

-----------------------------------------------------------------------------
(* run_streaming                                                           *)

\* Whoever may lose something to a BehaveX run that starts is noted.
LEMMA BehavexStartsStep ==
    ASSUME IInv, BehavexStarts
    PROVE  /\ behave_json' \subseteq BehavexSide
           /\ overtaken \subseteq overtaken'
           /\ \A s \in Runs : pc[s] = "hooks" /\ s \notin overtaken' => behave_json \subseteq behave_json'
<1>1. behave_json \subseteq BehavexSide
  BY DEF IInv
<1>2. CASE UNCHANGED <<behave_json, native, overtaken>>
  BY <1>1, <1>2
<1>3. CASE /\ behave_json' = Absent
           /\ overtaken' = overtaken \cup {s \in Runs : pc[s] \in {"testing", "hooks"}}
  BY <1>3 DEF Absent
<1> QED
  BY <1>2, <1>3 DEF BehavexStarts

LEMMA StartStep ==
    ASSUME IInv, NEW r \in Runs, Start(r)
    PROVE  behave_json' \subseteq BehavexSide /\ \A s \in Runs : RunInv(s)'
<1>1. TypeOK
  BY DEF IInv
<1>2. /\ UNCHANGED <<results, produced, audited, metrics, staged, outcome, row, store>>
      /\ r \in BehavexRuns /\ pc[r] = "test" /\ pc' = [pc EXCEPT ![r] = "testing"]
      /\ BehavexStarts
  BY DEF Start, At, local
<1>3. /\ behave_json' \subseteq BehavexSide
      /\ overtaken \subseteq overtaken'
      /\ \A s \in Runs : pc[s] = "hooks" /\ s \notin overtaken' => behave_json \subseteq behave_json'
  BY <1>2, BehavexStartsStep
<1>4. \A s \in Runs : Stored(s)' = Stored(s)
  BY <1>2 DEF Stored
<1>5. ASSUME NEW s \in Runs \ {r} PROVE RunInv(s)'
  <2>1. pc'[s] = pc[s]
    BY <1>1, <1>2 DEF TypeOK
  <2> QED
    BY <1>2, <1>3, <1>4, <2>1, Frame
<1>6. RunInv(r)'
  <2>1. pc'[r] = "testing"
    BY <1>1, <1>2 DEF TypeOK
  <2>2. RunInv(r)
    BY DEF IInv
  <2>3. OwnInv(r)'
    BY <1>2, <2>1, <2>2 DEF RunInv, OwnInv, Recording
  <2>4. SnapshotInv(r)' /\ UploadInv(r)' /\ RowInv(r)'
    BY <1>2, <1>4, <2>1, <2>2 DEF RunInv, SnapshotInv, UploadInv, RowInv, Testing, Recording
  <2> QED
    BY <2>3, <2>4 DEF RunInv
<1> QED
  BY <1>3, <1>5, <1>6

LEMMA ExecuteStep ==
    ASSUME IInv, NEW r \in Runs, NEW wrote \in SUBSET {r}, Execute(r, wrote)
    PROVE  behave_json' \subseteq BehavexSide /\ \A s \in Runs : RunInv(s)'
<1>1. TypeOK /\ behave_json \subseteq BehavexSide
  BY DEF IInv
<1>2. PICK nested \in BOOLEAN :
        /\ nested => r \in BehavexRuns
        /\ results' = [results EXCEPT ![r] = @ \cup IF nested THEN {} ELSE wrote]
        /\ behave_json' = behave_json \cup IF nested THEN wrote ELSE {}
  BY DEF Execute
<1>3. /\ UNCHANGED <<audited, overtaken, metrics, staged, outcome, row, store>>
      /\ produced' = produced \cup wrote
      /\ pc[r] \in {"test", "testing"}
      /\ pc' = [pc EXCEPT ![r] = IF r \in BehavexRuns THEN "hooks" ELSE "sync"]
  BY DEF Execute, At, local, others
<1>4. behave_json' \subseteq BehavexSide
  BY <1>1, <1>2 DEF BehavexSide
<1>5. ASSUME NEW s \in Runs \ {r} PROVE RunInv(s)'
  <2>1. pc'[s] = pc[s] /\ results'[s] = results[s]
    BY <1>1, <1>2, <1>3 DEF TypeOK
  <2>2. behave_json \subseteq behave_json'
    BY <1>2
  <2>3. Stored(s)' = Stored(s)
    BY <1>3 DEF Stored
  <2> QED
    BY <1>3, <2>1, <2>2, <2>3, Frame
<1>6. RunInv(r)'
  <2>1. /\ pc'[r] = IF r \in BehavexRuns THEN "hooks" ELSE "sync"
        /\ results'[r] = results[r] \cup IF nested THEN {} ELSE wrote
        /\ Stored(r)' = Stored(r)
    BY <1>1, <1>2, <1>3 DEF TypeOK, Stored
  <2>2. RunInv(r)
    BY DEF IInv
  <2>3. results'[r] \subseteq Own(r)
    BY <2>1, <2>2 DEF RunInv, OwnInv, Own, BehavexSide
  <2>4. r \in wrote => r \in results'[r] \cup behave_json'
    BY <1>2, <2>1
  <2>5. r \in wrote /\ r \notin BehavexRuns => r \in results'[r]
    BY <1>2, <2>1
  <2>6. OwnInv(r)'
    BY <1>3, <2>1, <2>2, <2>3, <2>4, <2>5 DEF RunInv, OwnInv, Recording
  <2>7. SnapshotInv(r)' /\ UploadInv(r)' /\ RowInv(r)'
    BY <1>3, <2>1, <2>2 DEF RunInv, SnapshotInv, UploadInv, RowInv, Testing, Recording
  <2> QED
    BY <2>6, <2>7 DEF RunInv
<1> QED
  BY <1>4, <1>5, <1>6

LEMMA CollectBehavexStep ==
    ASSUME IInv, NEW r \in Runs, CollectBehavex(r)
    PROVE  behave_json' \subseteq BehavexSide /\ \A s \in Runs : RunInv(s)'
<1>1. TypeOK /\ behave_json \subseteq BehavexSide
  BY DEF IInv
<1>2. /\ UNCHANGED <<audited, overtaken, produced, behave_json, metrics, staged, outcome, row, store>>
      /\ pc[r] = "hooks" /\ pc' = [pc EXCEPT ![r] = "sync"]
      /\ results' = [results EXCEPT ![r] = @ \cup behave_json]
  BY DEF CollectBehavex, At, local, others
<1>3. ASSUME NEW s \in Runs \ {r} PROVE RunInv(s)'
  <2>1. pc'[s] = pc[s] /\ results'[s] = results[s] /\ Stored(s)' = Stored(s)
    BY <1>1, <1>2 DEF TypeOK, Stored
  <2> QED
    BY <1>2, <2>1, Frame
<1>4. RunInv(r)'
  <2>1. /\ pc'[r] = "sync" /\ results'[r] = results[r] \cup behave_json
        /\ Stored(r)' = Stored(r)
    BY <1>1, <1>2 DEF TypeOK, Stored
  <2>2. RunInv(r)
    BY DEF IInv
  <2>3. results'[r] \subseteq Own(r)
    BY <1>1, <1>2, <2>1, <2>2 DEF RunInv, OwnInv, Own
  <2>4. OwnInv(r)'
    BY <1>2, <2>1, <2>2, <2>3 DEF RunInv, OwnInv, Recording
  <2>5. SnapshotInv(r)' /\ UploadInv(r)' /\ RowInv(r)'
    BY <1>2, <2>1, <2>2 DEF RunInv, SnapshotInv, UploadInv, RowInv, Testing, Recording
  <2> QED
    BY <2>4, <2>5 DEF RunInv
<1> QED
  BY <1>1, <1>2, <1>3, <1>4

LEMMA SyncStaticStep ==
    ASSUME IInv, NEW r \in Runs, SyncStatic(r)
    PROVE  behave_json' \subseteq BehavexSide /\ \A s \in Runs : RunInv(s)'
<1>1. TypeOK /\ behave_json \subseteq BehavexSide
  BY DEF IInv
<1>2. /\ UNCHANGED <<audited, overtaken, produced, behave_json, results, metrics, staged, outcome,
                     row, store>>
      /\ pc[r] = "sync" /\ pc' = [pc EXCEPT ![r] = "measure"]
  BY DEF SyncStatic, At, local, others
<1>3. \A s \in Runs : Stored(s)' = Stored(s)
  BY <1>2 DEF Stored
<1>4. ASSUME NEW s \in Runs \ {r} PROVE RunInv(s)'
  <2>1. pc'[s] = pc[s]
    BY <1>1, <1>2 DEF TypeOK
  <2> QED
    BY <1>2, <1>3, <2>1, Frame
<1>5. RunInv(r)'
  <2>1. pc'[r] = "measure"
    BY <1>1, <1>2 DEF TypeOK
  <2>2. RunInv(r)
    BY DEF IInv
  <2>3. OwnInv(r)'
    BY <1>2, <2>1, <2>2 DEF RunInv, OwnInv, Recording
  <2>4. SnapshotInv(r)' /\ UploadInv(r)' /\ RowInv(r)'
    BY <1>2, <1>3, <2>1, <2>2 DEF RunInv, SnapshotInv, UploadInv, RowInv, Testing, Recording
  <2> QED
    BY <2>3, <2>4 DEF RunInv
<1> QED
  BY <1>1, <1>2, <1>4, <1>5

-----------------------------------------------------------------------------
(* record_completed_run                                                    *)

\* The steps that upload nothing.
LEMMA NoUploadStep ==
    ASSUME IInv, NEW r \in Runs,
           \/ Measure(r) \/ SnapshotUnavailable(r) \/ StageReports(r)
           \/ UploadUnavailable(r) \/ NoHtml(r) \/ Finalize(r)
    PROVE  RunInv(r)'
<1>1. TypeOK /\ RunInv(r)
  BY DEF IInv
<1>2. UNCHANGED <<results, produced, behave_json, audited, overtaken, store>> /\ Stored(r)' = Stored(r)
  BY DEF Measure, SnapshotUnavailable, StageReports, UploadUnavailable, NoHtml, Finalize,
         files, reports, others, Stored
<1> USE DEF RunInv, OwnInv, SnapshotInv, UploadInv, RowInv, Testing, Recording
<1>3. CASE Measure(r)
  <2>1. /\ pc[r] = "measure" /\ pc'[r] = "stage" /\ metrics'[r] = results[r]
        /\ UNCHANGED <<staged, outcome, row>>
    BY <1>1, <1>3 DEF TypeOK, Measure, At
  <2> QED
    BY <1>1, <1>2, <2>1
<1>4. CASE SnapshotUnavailable(r) \/ StageReports(r)
  <2>1. /\ pc[r] = "stage" /\ pc'[r] \in {"snapshot", "collect"}
        /\ UNCHANGED <<metrics, outcome, row>>
        /\ pc'[r] = "collect" => UNCHANGED staged
    BY <1>1, <1>4 DEF TypeOK, SnapshotUnavailable, StageReports, At, local
  <2>2. OwnInv(r)' /\ UploadInv(r)' /\ RowInv(r)'
    BY <1>1, <1>2, <2>1
  <2>3. SnapshotInv(r)'
    BY <1>1, <1>2, <2>1
  <2> QED
    BY <2>2, <2>3
<1>5. CASE UploadUnavailable(r) \/ NoHtml(r)
  <2>1. /\ pc[r] = "collect" /\ pc'[r] \in {"raw", "finalize"}
        /\ UNCHANGED <<metrics, staged, outcome, row>>
    BY <1>1, <1>5 DEF TypeOK, UploadUnavailable, NoHtml, At, local
  <2> QED
    BY <1>1, <1>2, <2>1
<1>6. CASE Finalize(r)
  <2>1. /\ pc[r] = "finalize" /\ pc'[r] = "done" /\ UNCHANGED staged
        /\ row'[r] = [status |-> "FINISHED", metrics |-> metrics[r],
                      prefix |-> outcome[r].prefix, url |-> outcome[r].count > 0,
                      sync |-> ArtifactStatus(outcome[r])]
        /\ metrics'[r] = {} /\ outcome'[r] = NothingNoted
    BY <1>1, <1>6 DEF TypeOK, Finalize, At, Absent
  <2>2. /\ row'[r].status = "FINISHED" /\ row'[r].metrics = metrics[r]
        /\ row'[r].prefix = outcome[r].prefix /\ row'[r].url = (outcome[r].count > 0)
        /\ row'[r].sync = ArtifactStatus(outcome[r])
        /\ ~outcome'[r].prefix /\ outcome'[r].count = 0
    BY <2>1 DEF NothingNoted
  <2>3. outcome[r].count \in Nat
    BY <1>1 DEF TypeOK
  <2>4. /\ row'[r].sync = "success" => row'[r].prefix \/ row'[r].url
        /\ row'[r].sync = "skipped" => ~row'[r].prefix /\ ~row'[r].url
    <3>1. ArtifactStatus(outcome[r]) = "success" => outcome[r].prefix \/ outcome[r].count > 0
      BY <2>3 DEF ArtifactStatus
    <3>2. ArtifactStatus(outcome[r]) = "skipped" => ~outcome[r].prefix /\ ~(outcome[r].count > 0)
      BY <2>3 DEF ArtifactStatus
    <3> QED
      BY <2>2, <3>1, <3>2
  <2>5. OwnInv(r)'
    BY <1>1, <1>2, <2>1, <2>2
  <2>6. SnapshotInv(r)' /\ UploadInv(r)'
    BY <1>1, <1>2, <2>1, <2>2
  <2>7. RowInv(r)'
    BY <1>1, <1>2, <2>1, <2>2, <2>4
  <2> QED
    BY <2>5, <2>6, <2>7
<1> QED
  BY <1>3, <1>4, <1>5, <1>6

\* The upload of the staged reports, whole or broken off.
LEMMA SnapshotStep ==
    ASSUME IInv, NEW r \in Runs,
           UploadSnapshot(r) \/ SnapshotOSError(r) \/ SnapshotFails(r)
    PROVE  RunInv(r)'
<1>1. TypeOK /\ RunInv(r)
  BY DEF IInv
<1>2. /\ pc[r] = "snapshot" /\ pc'[r] = "collect"
      /\ UNCHANGED <<results, produced, behave_json, audited, overtaken, metrics, staged, row>>
      /\ outcome'[r].count = outcome[r].count
  BY <1>1 DEF TypeOK, UploadSnapshot, SnapshotOSError, SnapshotFails, At, files, reports, others, local
<1>3. PICK parts \in SUBSET staged[r] :
        Upload(r, parts) /\ (outcome'[r].prefix => parts = staged[r] /\ staged[r] # {})
  <2>1. CASE UploadSnapshot(r)
    BY <1>1, <2>1 DEF TypeOK, UploadSnapshot
  <2>2. CASE SnapshotOSError(r) \/ SnapshotFails(r)
    <3>1. outcome'[r].prefix = outcome[r].prefix
      BY <1>1, <2>2 DEF TypeOK, SnapshotOSError, SnapshotFails, local
    <3>2. ~outcome[r].prefix
      BY <1>1, <1>2 DEF RunInv, SnapshotInv
    <3> QED
      BY <2>2, <3>1, <3>2 DEF SnapshotOSError, SnapshotFails, SomeReportsOnly
  <2> QED
    BY <2>1, <2>2
<1>4. Stored(r)' = Stored(r) \cup parts
  BY <1>3, StoredGrows
<1> USE DEF RunInv, Testing, Recording
<1>5. OwnInv(r)'
  BY <1>1, <1>2 DEF OwnInv
<1>6. SnapshotInv(r)'
  BY <1>1, <1>2, <1>3, <1>4 DEF SnapshotInv
<1>7. UploadInv(r)'
  BY <1>1, <1>2 DEF UploadInv
<1>8. RowInv(r)'
  BY <1>1, <1>2, <1>4 DEF RowInv
<1> QED
  BY <1>5, <1>6, <1>7, <1>8

\* What a pytest or a BehaveX run measured is below the directory of its
\* framework, which is uploaded as a whole.
LEMMA OwnResultsAreInput ==
    ASSUME NEW r \in Runs
    PROVE  results[r] \subseteq InputOf(r)
BY DEF InputOf, OfKind

LEMMA UploadStep ==
    ASSUME IInv, TypeOK', NEW r \in Runs,
           UploadHtml(r) \/ UploadResults(r) \/ UploadRetried(r) \/ UploadFails(r)
    PROVE  RunInv(r)'
<1>1. TypeOK /\ RunInv(r)
  BY DEF IInv
<1>2. /\ UNCHANGED <<results, produced, behave_json, audited, overtaken, metrics, staged, row>>
      /\ outcome'[r].prefix = outcome[r].prefix
      /\ pc[r] \in {"collect", "raw"} /\ pc'[r] \in {"collect", "raw", "finalize"}
  BY <1>1 DEF TypeOK, UploadHtml, UploadResults, UploadRetried, UploadFails, At,
              files, reports, others, local
<1>3. PICK parts : Upload(r, parts) /\ (\A p \in parts : p.name \in {"html", "raw"})
                   /\ (UploadResults(r) => parts = RawParts(r))
  <2>1. \A p \in RawParts(r) : p.name = "raw"
    BY DEF RawParts, Part
  <2>2. CASE UploadHtml(r)
    <3>1. ~UploadResults(r)
      BY <2>2 DEF UploadHtml, UploadResults, At
    <3> QED
      BY <2>2, <3>1 DEF UploadHtml, Part
  <2>3. CASE UploadResults(r)
    BY <2>1, <2>3 DEF UploadResults
  <2>4. CASE (UploadRetried(r) \/ UploadFails(r)) /\ ~UploadResults(r)
    BY <2>1, <2>4 DEF UploadRetried, UploadFails, SomeResultsOnly
  <2> QED
    BY <2>2, <2>3, <2>4
<1>4. Stored(r)' = Stored(r) \cup parts
  BY <1>3, StoredGrows
<1> USE DEF RunInv, Testing, Recording
<1>5. OwnInv(r)'
  BY <1>1, <1>2 DEF OwnInv
<1>6. SnapshotInv(r)'
  BY <1>1, <1>2, <1>3, <1>4 DEF SnapshotInv
<1>7. UploadInv(r)'
  <2>1. pc'[r] = "collect" => outcome'[r].count = 0
    BY <1>1 DEF TypeOK, UploadHtml, UploadResults, UploadRetried, UploadFails, At
  <2>2. r \notin audited => metrics[r] \subseteq results[r]
    BY <1>1, <1>2 DEF UploadInv
  <2>3. ASSUME pc'[r] = "finalize", outcome'[r].count > 0, r \notin audited, NEW s \in metrics[r]
        PROVE  Part("raw", {s}) \in Stored(r)'
    <3>1. ~UploadHtml(r) /\ ~UploadRetried(r)
      BY <1>1, <2>3 DEF TypeOK, UploadHtml, UploadRetried, At
    <3>2. ~UploadFails(r)
      <4>1. UploadFails(r) => outcome'[r].count = 0
        BY <1>1 DEF TypeOK, UploadFails
      <4> QED
        BY <2>3, <4>1
    <3>3. parts = RawParts(r)
      BY <1>3, <3>1, <3>2
    <3>4. s \in InputOf(r)
      BY <2>2, <2>3, OwnResultsAreInput
    <3> QED
      BY <1>4, <3>3, <3>4 DEF RawParts
  <2>4. outcome'[r].count > 0 => Stored(r)' # {}
    <3>1. CASE UploadHtml(r)
      <4>1. Upload(r, {Part("html", InputOf(r))})
        BY <3>1 DEF UploadHtml
      <4>2. Part("html", InputOf(r)) \in Stored(r)'
        BY <4>1, StoredGrows
      <4> QED
        BY <4>2
    <3>2. CASE UploadResults(r)
      <4>1. CASE InputOf(r) = {}
        <5>1. Cardinality(InputOf(r)) = 0
          BY <4>1, FS_EmptySet
        <5>2. outcome'[r].count = outcome[r].count + Cardinality(InputOf(r))
          BY <1>1, <3>2 DEF TypeOK, UploadResults
        <5>3. outcome[r].count \in Nat
          BY <1>1 DEF TypeOK
        <5>4. outcome[r].count > 0 => Stored(r) # {}
          BY <1>1 DEF UploadInv
        <5> QED
          BY <1>4, <5>1, <5>2, <5>3, <5>4
      <4>2. CASE InputOf(r) # {}
        <5>1. parts # {}
          BY <1>3, <3>2, <4>2 DEF RawParts
        <5> QED
          BY <1>4, <5>1
      <4> QED
        BY <4>1, <4>2
    <3>3. CASE UploadRetried(r) \/ UploadFails(r)
      <4>1. outcome'[r].count = 0
        BY <1>1, <3>3 DEF TypeOK, UploadRetried, UploadFails
      <4> QED
        BY <4>1
    <3> QED
      BY <3>1, <3>2, <3>3
  <2> QED
    BY <1>2, <2>1, <2>2, <2>3, <2>4 DEF UploadInv
<1>8. RowInv(r)'
  BY <1>1, <1>2, <1>4 DEF RowInv
<1> QED
  BY <1>5, <1>6, <1>7, <1>8

-----------------------------------------------------------------------------
(* Reports on request, and audits                                          *)

LEMMA GenerateReportStep ==
    ASSUME IInv, NEW k \in Kinds, GenerateReport(k)
    PROVE  behave_json' \subseteq BehavexSide /\ \A s \in Runs : RunInv(s)'
<1>1. behave_json \subseteq BehavexSide
  BY DEF IInv
<1>2. UNCHANGED <<pc, results, metrics, staged, outcome, row, store, produced, behave_json,
                  audited, overtaken>>
  BY DEF GenerateReport, local, others
<1>3. \A s \in Runs : Stored(s)' = Stored(s)
  BY <1>2 DEF Stored
<1> QED
  BY <1>1, <1>2, <1>3, Frame

\* An audit takes results away when it begins and when it reports, and notes whose.
LEMMA AuditStep ==
    ASSUME IInv, AuditBegins \/ AuditReports
    PROVE  behave_json' \subseteq BehavexSide /\ \A s \in Runs : RunInv(s)'
<1>1. TypeOK /\ behave_json \subseteq BehavexSide
  BY DEF IInv
<1>2. /\ UNCHANGED <<pc, produced, behave_json, overtaken, metrics, staged, outcome, row, store>>
      /\ audited \cup UnderWay \subseteq audited'
  BY DEF AuditBegins, AuditReports, reports, local
<1>3. ASSUME NEW s \in Runs PROVE RunInv(s)'
  <2>1. RunInv(s) /\ Stored(s)' = Stored(s)
    BY <1>2 DEF IInv, Stored
  <2>2. results'[s] \subseteq results[s]
    BY DEF AuditBegins, AuditReports, Absent
  <2>3. s \notin audited' => s \notin audited /\ pc[s] \in {"test", "done"}
    BY <1>1, <1>2 DEF UnderWay, TypeOK
  <2>4. OwnInv(s)'
    BY <1>2, <2>1, <2>2, <2>3 DEF RunInv, OwnInv, Recording
  <2>5. SnapshotInv(s)' /\ RowInv(s)'
    BY <1>2, <2>1, <2>3 DEF RunInv, SnapshotInv, RowInv
  <2>6. UploadInv(s)'
    BY <1>2, <2>1, <2>3 DEF RunInv, UploadInv, Recording
  <2> QED
    BY <2>4, <2>5, <2>6 DEF RunInv
<1> QED
  BY <1>1, <1>2, <1>3

\* Its own phases write beside the runs, and its BehaveX phase into the folder
\* that all BehaveX runs share, after it may have emptied it.
LEMMA AuditPhaseStep ==
    ASSUME IInv, AuditRunsPytest \/ AuditRunsBehavex
    PROVE  behave_json' \subseteq BehavexSide /\ \A s \in Runs : RunInv(s)'
<1>1. UNCHANGED <<pc, results, produced, audited, metrics, staged, outcome, row, store>>
  BY DEF AuditRunsPytest, AuditRunsBehavex, local
<1>2. \A s \in Runs : Stored(s)' = Stored(s)
  BY <1>1 DEF Stored
<1>3. /\ behave_json' \subseteq BehavexSide
      /\ overtaken \subseteq overtaken'
      /\ \A s \in Runs : pc[s] = "hooks" /\ s \notin overtaken' => behave_json \subseteq behave_json'
  <2>1. CASE AuditRunsPytest
    BY <2>1, BehavexStartsStep DEF AuditRunsPytest
  <2>2. CASE AuditRunsBehavex
    <3>1. UNCHANGED overtaken
      BY <2>2 DEF AuditRunsBehavex
    <3>2. \E wrote \in SUBSET {Unfollowed} : behave_json' = behave_json \/ behave_json' = behave_json \cup wrote
      BY <2>2 DEF AuditRunsBehavex
    <3> QED
      BY <3>1, <3>2 DEF IInv, BehavexSide
  <2> QED
    BY <2>1, <2>2
<1> QED
  BY <1>1, <1>2, <1>3, Frame

-----------------------------------------------------------------------------
(* The types                                                               *)

\* A set of runs has a number of elements.
LEMMA RunsAreFinite ==
    ASSUME NEW S \in SUBSET AnyRun
    PROVE  Cardinality(S) \in Nat
<1>1. IsFiniteSet(AnyRun)
  BY RunsAssumption, FS_AddElement DEF AnyRun
<1>2. IsFiniteSet(S)
  BY <1>1, FS_Subset
<1> QED
  BY <1>2, FS_CardinalityType

LEMMA InputType ==
    ASSUME TypeOK, NEW r \in Runs
    PROVE  InputOf(r) \subseteq AnyRun /\ RawParts(r) \subseteq Parts
<1>1. InputOf(r) \subseteq AnyRun
  <2>1. Kind(r) \in Kinds
    BY DEF Kind, Kinds
  <2>2. OfKind(Kind(r)) \subseteq AnyRun /\ loose[Kind(r)] \subseteq AnyRun
    BY <2>1 DEF TypeOK, OfKind
  <2> QED
    BY <2>2 DEF InputOf
<1> QED
  BY <1>1 DEF RawParts, Part, Parts, PartNames

\* What is left of the types when the phases of a run move on.
LEMMA PhaseType ==
    ASSUME TypeOK, NEW r \in Runs, NEW from,
           NEW to \in {"test", "testing", "hooks", "sync", "measure", "stage", "snapshot",
                       "collect", "raw", "finalize", "done"},
           At(r, from, to)
    PROVE  pc' \in [Runs -> {"test", "testing", "hooks", "sync", "measure", "stage", "snapshot",
                             "collect", "raw", "finalize", "done"}]
BY DEF TypeOK, At

LEMMA DisturbanceType ==
    ASSUME TypeOK, NEW cost \in Nat, Disturbance(cost)
    PROVE  faults' \in 0..MaxFaults
BY MaxFaultsAssumption DEF TypeOK, Disturbance

LEMMA FaultType ==
    ASSUME TypeOK, Fault
    PROVE  faults' \in 0..MaxFaults
BY DisturbanceType DEF Fault

LEMMA MirroredType ==
    ASSUME TypeOK
    PROVE  Mirrored \subseteq AnyRun /\ Cardinality(Mirrored) <= 1
BY DEF TypeOK, Mirrored

LEMMA UploadType ==
    ASSUME TypeOK, NEW r \in Runs, NEW parts \in SUBSET Parts, Upload(r, parts)
    PROVE  store' \subseteq [run : Runs, part : Parts]
BY DEF TypeOK, Upload

LEMMA BehavexStartsType ==
    ASSUME TypeOK, BehavexStarts
    PROVE  /\ behave_json' \subseteq AnyRun
           /\ native' \subseteq AnyRun /\ Cardinality(native') <= 1
           /\ overtaken' \subseteq Runs
<1>1. Cardinality({}) = 0
  BY FS_EmptySet
<1>2. CASE UNCHANGED <<behave_json, native, overtaken>>
  BY <1>2 DEF TypeOK
<1>3. CASE /\ behave_json' = Absent /\ native' = Absent
           /\ overtaken' = overtaken \cup {s \in Runs : pc[s] \in {"testing", "hooks"}}
  <2>1. behave_json' = {} /\ native' = {}
    BY <1>3 DEF Absent
  <2>2. overtaken' \subseteq Runs
    BY <1>3 DEF TypeOK
  <2>3. Cardinality(native') <= 1
    BY <1>1, <2>1
  <2> QED
    BY <2>1, <2>2, <2>3
<1> QED
  BY <1>2, <1>3 DEF BehavexStarts

LEMMA OneRunType ==
    ASSUME NEW x \in AnyRun
    PROVE  {x} \subseteq AnyRun /\ Cardinality({x}) <= 1
<1>1. Cardinality({x}) = 1
  BY FS_Singleton
<1> QED
  BY <1>1

LEMMA StreamingTypes ==
    ASSUME TypeOK, NEW r \in Runs,
           \/ Start(r) \/ \E wrote \in SUBSET {r} : Execute(r, wrote)
           \/ CollectBehavex(r) \/ SyncStatic(r)
    PROVE  TypeOK'
<1>0. CASE Start(r)
  <2>1. /\ UNCHANGED <<results, loose, produced, mirror, allure_html, auditing, audited, metrics,
                       staged, attempts, outcome, store, row, faults>>
        /\ BehavexStarts
    BY <1>0 DEF Start, local
  <2>2. pc' \in [Runs -> {"test", "testing", "hooks", "sync", "measure", "stage", "snapshot",
                          "collect", "raw", "finalize", "done"}]
    BY <1>0, PhaseType DEF Start
  <2> QED
    BY <2>1, <2>2, BehavexStartsType DEF TypeOK
<1>1. CASE \E wrote \in SUBSET {r} : Execute(r, wrote)
  <2>1. PICK wrote \in SUBSET {r} : Execute(r, wrote)
    BY <1>1
  <2>2. PICK nested \in BOOLEAN :
          /\ results' = [results EXCEPT ![r] = @ \cup IF nested THEN {} ELSE wrote]
          /\ behave_json' = behave_json \cup IF nested THEN wrote ELSE {}
    BY <2>1 DEF Execute
  <2>3. /\ native' = IF r \in BehavexRuns THEN {r} ELSE native
        /\ produced' = produced \cup wrote
        /\ UNCHANGED <<loose, mirror, allure_html, auditing, audited, overtaken, metrics, staged,
                       attempts, outcome, store, row, faults>>
        /\ At(r, "testing", "hooks") \/ At(r, "test", "sync")
    BY <2>1 DEF Execute, local, others
  <2>4. wrote \subseteq AnyRun /\ r \in AnyRun
    BY DEF AnyRun
  <2>5. results' \in [Runs -> SUBSET AnyRun]
    BY <2>2, <2>4 DEF TypeOK
  <2>6. behave_json' \subseteq AnyRun
    BY <2>2, <2>4 DEF TypeOK
  <2>7. native' \subseteq AnyRun /\ Cardinality(native') <= 1
    BY <2>3, <2>4, OneRunType DEF TypeOK
  <2>8. produced' \subseteq Runs
    BY <2>3 DEF TypeOK
  <2>9. pc' \in [Runs -> {"test", "testing", "hooks", "sync", "measure", "stage", "snapshot",
                          "collect", "raw", "finalize", "done"}]
    BY <2>3, PhaseType
  <2> QED
    BY <2>3, <2>5, <2>6, <2>7, <2>8, <2>9 DEF TypeOK
<1>2. CASE CollectBehavex(r)
  <2>1. results' \in [Runs -> SUBSET AnyRun]
    BY <1>2 DEF TypeOK, CollectBehavex
  <2>2. pc' \in [Runs -> {"test", "testing", "hooks", "sync", "measure", "stage", "snapshot",
                          "collect", "raw", "finalize", "done"}]
    BY <1>2, PhaseType DEF CollectBehavex
  <2> QED
    BY <1>2, <2>1, <2>2, MirroredType DEF TypeOK, CollectBehavex, others, local
<1>3. CASE SyncStatic(r)
  <2>1. mirror' \subseteq AnyRun /\ Cardinality(mirror') <= 1
    BY <1>3, MirroredType, FS_EmptySet DEF SyncStatic, Absent
  <2>2. pc' \in [Runs -> {"test", "testing", "hooks", "sync", "measure", "stage", "snapshot",
                          "collect", "raw", "finalize", "done"}]
    BY <1>3, PhaseType DEF SyncStatic
  <2>3. faults' \in 0..MaxFaults
    BY <1>3, FaultType DEF SyncStatic, TypeOK
  <2> QED
    BY <1>3, <2>1, <2>2, <2>3 DEF TypeOK, SyncStatic, others, local
<1> QED
  BY <1>0, <1>1, <1>2, <1>3

LEMMA RecordTypes ==
    ASSUME TypeOK, NEW r \in Runs, Record(r)
    PROVE  TypeOK'
<1>1. /\ UNCHANGED files
      /\ pc' \in [Runs -> {"test", "testing", "hooks", "sync", "measure", "stage", "snapshot",
                           "collect", "raw", "finalize", "done"}]
  <2>1. PICK from, to \in {"test", "testing", "hooks", "sync", "measure", "stage", "snapshot",
                           "collect", "raw", "finalize", "done"} : At(r, from, to)
    BY DEF Record, Measure, SnapshotUnavailable, StageReports, UploadSnapshot,
       SnapshotOSError, SnapshotFails, UploadUnavailable, UploadHtml, NoHtml, UploadResults,
       UploadRetried, UploadFails, Finalize
  <2>2. UNCHANGED files
    BY DEF Record, Measure, SnapshotUnavailable, StageReports, UploadSnapshot,
       SnapshotOSError, SnapshotFails, UploadUnavailable, UploadHtml, NoHtml, UploadResults,
       UploadRetried, UploadFails, Finalize
  <2> QED
    BY <2>1, <2>2, PhaseType
<1>2. faults' \in 0..MaxFaults
  <2>1. Fault \/ UNCHANGED faults
    BY DEF Record, Measure, SnapshotUnavailable, StageReports, UploadSnapshot,
       SnapshotOSError, SnapshotFails, UploadUnavailable, UploadHtml, NoHtml, UploadResults,
       UploadRetried, UploadFails, Finalize
  <2> QED
    BY <2>1, FaultType DEF TypeOK
<1>3. metrics' \in [Runs -> SUBSET AnyRun]
  BY DEF TypeOK, Record, Measure, SnapshotUnavailable, StageReports, UploadSnapshot,
     SnapshotOSError, SnapshotFails, UploadUnavailable, UploadHtml, NoHtml, UploadResults,
     UploadRetried, UploadFails, Finalize, local, Absent
<1>4. staged' \in [Runs -> SUBSET Parts]
  <2>1. StaticReports \subseteq Parts
    BY DEF TypeOK, StaticReports, Part, Parts, PartNames, AllureName, Kinds
  <2>2. UNCHANGED staged \/ StageReports(r)
    BY DEF Record, Measure, SnapshotUnavailable, UploadSnapshot,
       SnapshotOSError, SnapshotFails, UploadUnavailable, UploadHtml, NoHtml, UploadResults,
       UploadRetried, UploadFails, Finalize, local
  <2> QED
    <3>1. CASE StageReports(r)
      <4>1. PICK lost : staged' = [staged EXCEPT ![r] = StaticReports \ lost]
        BY <3>1 DEF StageReports
      <4>2. (StaticReports \ lost) \in SUBSET Parts
        BY <2>1
      <4>3. staged \in [Runs -> SUBSET Parts]
        BY DEF TypeOK
      <4> QED
        BY <4>1, <4>2, <4>3
    <3> QED
      BY <2>2, <3>1 DEF TypeOK
<1>5. attempts' \in [Runs -> 1..MaxAttempts]
  <2>1. CASE UploadRetried(r)
    <3>1. attempts[r] + 1 \in 1..MaxAttempts
      BY <2>1, MaxAttemptsAssumption DEF TypeOK, UploadRetried
    <3>2. attempts' = [attempts EXCEPT ![r] = attempts[r] + 1]
      BY <2>1 DEF UploadRetried
    <3> QED
      BY <3>1, <3>2 DEF TypeOK
  <2>2. CASE Finalize(r)
    BY <2>2, MaxAttemptsAssumption DEF TypeOK, Finalize
  <2>3. CASE UNCHANGED attempts
    BY <2>3 DEF TypeOK
  <2> QED
    BY <2>1, <2>2, <2>3 DEF Record, Measure, SnapshotUnavailable, StageReports, UploadSnapshot,
       SnapshotOSError, SnapshotFails, UploadUnavailable, UploadHtml, NoHtml, UploadResults,
       UploadFails, local
<1>6. outcome' \in [Runs -> [prefix : BOOLEAN, count : Nat, error : BOOLEAN]]
  <2> DEFINE Noted == [prefix : BOOLEAN, count : Nat, error : BOOLEAN]
  <2>1. ASSUME NEW o \in Noted, NEW b \in BOOLEAN, NEW n \in Nat
        PROVE  /\ [o EXCEPT !.prefix = b] \in Noted
               /\ [o EXCEPT !.error = b] \in Noted
               /\ [o EXCEPT !.count = n] \in Noted
               /\ [o EXCEPT !.count = n, !.error = b] \in Noted
    OBVIOUS
  <2>2. outcome \in [Runs -> Noted] /\ outcome[r] \in Noted
    BY DEF TypeOK
  <2>3. UNCHANGED outcome \/ \E o \in Noted : outcome' = [outcome EXCEPT ![r] = o]
    <3>1. CASE UploadSnapshot(r)
      <4>1. outcome' = [outcome EXCEPT ![r] = [outcome[r] EXCEPT !.prefix = (staged[r] # {})]]
        BY <3>1 DEF UploadSnapshot
      <4> QED
        BY <2>1, <2>2, <4>1
    <3>2. CASE SnapshotFails(r)
      <4>1. outcome' = [outcome EXCEPT ![r] = [outcome[r] EXCEPT !.error = TRUE]]
        BY <3>2 DEF SnapshotFails
      <4> QED
        BY <2>1, <2>2, <4>1
    <3>3. CASE UploadHtml(r)
      <4>1. outcome' = [outcome EXCEPT ![r] = [outcome[r] EXCEPT !.count = 1]]
        BY <3>3 DEF UploadHtml
      <4> QED
        BY <2>1, <2>2, <4>1
    <3>4. CASE UploadResults(r)
      <4>1. outcome[r].count + Cardinality(InputOf(r)) \in Nat
        <5>1. Cardinality(InputOf(r)) \in Nat
          BY InputType, RunsAreFinite
        <5>2. outcome[r].count \in Nat
          BY <2>2
        <5> QED
          BY <5>1, <5>2
      <4>2. outcome' = [outcome EXCEPT ![r] =
                [outcome[r] EXCEPT !.count = outcome[r].count + Cardinality(InputOf(r))]]
        BY <3>4 DEF UploadResults
      <4> QED
        BY <2>1, <2>2, <4>1, <4>2
    <3>5. CASE UploadRetried(r)
      <4>1. outcome' = [outcome EXCEPT ![r] = [outcome[r] EXCEPT !.count = 0]]
        BY <3>5 DEF UploadRetried
      <4> QED
        BY <2>1, <2>2, <4>1
    <3>6. CASE UploadFails(r)
      <4>1. outcome' = [outcome EXCEPT ![r] = [outcome[r] EXCEPT !.count = 0, !.error = TRUE]]
        BY <3>6 DEF UploadFails
      <4> QED
        BY <2>1, <2>2, <4>1
    <3>7. CASE Finalize(r)
      BY <3>7 DEF Finalize, NothingNoted
    <3>8. CASE \/ Measure(r) \/ SnapshotUnavailable(r) \/ StageReports(r) \/ SnapshotOSError(r)
               \/ UploadUnavailable(r) \/ NoHtml(r)
      BY <3>8 DEF Measure, SnapshotUnavailable, StageReports, SnapshotOSError, UploadUnavailable,
                  NoHtml, local
    <3> QED
      BY <3>1, <3>2, <3>3, <3>4, <3>5, <3>6, <3>7, <3>8 DEF Record
  <2> HIDE DEF Noted
  <2>4. outcome' \in [Runs -> Noted]
    BY <2>2, <2>3
  <2> QED
    BY <2>4 DEF Noted
<1>7. store' \subseteq [run : Runs, part : Parts]
  <2>1. store' = store \/ \E parts \in SUBSET Parts : Upload(r, parts)
    <3>1. CASE \/ Measure(r) \/ SnapshotUnavailable(r) \/ StageReports(r) \/ UploadUnavailable(r)
               \/ NoHtml(r) \/ Finalize(r)
      BY <3>1 DEF Measure, SnapshotUnavailable, StageReports, UploadUnavailable, NoHtml, Finalize
    <3>2. CASE UploadSnapshot(r) \/ SnapshotOSError(r) \/ SnapshotFails(r)
      <4>1. staged[r] \subseteq Parts
        BY DEF TypeOK
      <4>2. \E parts \in SUBSET staged[r] : Upload(r, parts)
        BY <3>2 DEF UploadSnapshot, SnapshotOSError, SnapshotFails, SomeReportsOnly
      <4> QED
        BY <4>1, <4>2
    <3>3. CASE UploadHtml(r)
      <4>1. {Part("html", InputOf(r))} \subseteq Parts
        BY InputType DEF Part, Parts, PartNames
      <4> QED
        BY <3>3, <4>1 DEF UploadHtml
    <3>4. CASE UploadResults(r) \/ UploadRetried(r) \/ UploadFails(r)
      <4>1. \E parts \in SUBSET RawParts(r) : Upload(r, parts)
        BY <3>4 DEF UploadResults, UploadRetried, UploadFails, SomeResultsOnly
      <4> QED
        BY <4>1, InputType
    <3> QED
      BY <3>1, <3>2, <3>3, <3>4 DEF Record
  <2> QED
    BY <2>1, UploadType DEF TypeOK
<1>8. row' \in [Runs -> [status : {"RUNNING", "FINISHED"}, metrics : SUBSET AnyRun,
                         prefix : BOOLEAN, url : BOOLEAN,
                         sync : {"none", "success", "skipped", "failed"}]]
  <2>1. CASE Finalize(r)
    <3>1. outcome[r].prefix \in BOOLEAN /\ metrics[r] \subseteq AnyRun
      BY DEF TypeOK
    <3>2. ArtifactStatus(outcome[r]) \in {"none", "success", "skipped", "failed"}
      BY DEF ArtifactStatus
    <3>3. row' = [row EXCEPT ![r] = [status |-> "FINISHED", metrics |-> metrics[r],
                      prefix |-> outcome[r].prefix, url |-> outcome[r].count > 0,
                      sync |-> ArtifactStatus(outcome[r])]]
      BY <2>1 DEF Finalize
    <3>4. (outcome[r].count > 0) \in BOOLEAN
      OBVIOUS
    <3> QED
      BY <3>1, <3>2, <3>3, <3>4 DEF TypeOK
  <2>2. CASE UNCHANGED row
    BY <2>2 DEF TypeOK
  <2> QED
    BY <2>1, <2>2 DEF Record, Measure, SnapshotUnavailable, StageReports, UploadSnapshot,
       SnapshotOSError, SnapshotFails, UploadUnavailable, UploadHtml, NoHtml, UploadResults,
       UploadRetried, UploadFails
<1> QED
  BY <1>1, <1>2, <1>3, <1>4, <1>5, <1>6, <1>7, <1>8 DEF TypeOK, files, reports, others

LEMMA TypesStep ==
    ASSUME TypeOK, Next
    PROVE  TypeOK'
<1>1. CASE \E r \in Runs : \/ Start(r) \/ \E wrote \in SUBSET {r} : Execute(r, wrote)
                           \/ CollectBehavex(r) \/ SyncStatic(r)
  BY <1>1, StreamingTypes
<1>2. CASE \E r \in Runs : Record(r)
  BY <1>2, RecordTypes
<1>3. CASE \E k \in Kinds : GenerateReport(k)
  <2>1. PICK k \in Kinds : GenerateReport(k)
    BY <1>3
  <2>2. \A made \in generate_allure_html(k) : made \subseteq AnyRun
    BY DEF TypeOK, generate_allure_html, OfKind, Absent
  <2>3. allure_html' \in [Kinds -> SUBSET AnyRun]
    BY <2>1, <2>2 DEF TypeOK, GenerateReport
  <2>4. faults' \in 0..MaxFaults
    BY <2>1, FaultType DEF GenerateReport
  <2> QED
    BY <2>1, <2>3, <2>4 DEF TypeOK, GenerateReport, others, local
<1>4. CASE AuditBegins
  <2>1. faults' \in 0..MaxFaults
    BY <1>4, DisturbanceType, AuditCostAssumption DEF AuditBegins
  <2>2. audited' \subseteq Runs
    BY <1>4 DEF TypeOK, AuditBegins, UnderWay
  <2>3. results' \in [Runs -> SUBSET AnyRun] /\ loose' \in [Kinds -> SUBSET AnyRun]
    BY <1>4 DEF AuditBegins, Absent
  <2> QED
    BY <1>4, <2>1, <2>2, <2>3 DEF TypeOK, AuditBegins, reports, local
<1>5. CASE AuditRunsPytest
  <2>1. loose' \in [Kinds -> SUBSET AnyRun]
    BY <1>5 DEF TypeOK, AuditRunsPytest, AnyRun
  <2> QED
    BY <1>5, <2>1, BehavexStartsType DEF TypeOK, AuditRunsPytest, local
<1>6. CASE AuditRunsBehavex
  <2>1. PICK wrote \in SUBSET {Unfollowed}, nested \in BOOLEAN :
          /\ loose' = [loose EXCEPT !["behavex"] = @ \cup IF nested THEN {} ELSE wrote]
          /\ behave_json' = behave_json \cup IF nested THEN wrote ELSE {}
    BY <1>6 DEF AuditRunsBehavex
  <2>2. wrote \subseteq AnyRun /\ Unfollowed \in AnyRun
    BY DEF AnyRun
  <2>3. loose' \in [Kinds -> SUBSET AnyRun] /\ behave_json' \subseteq AnyRun
    BY <2>1, <2>2 DEF TypeOK
  <2>4. native' \subseteq AnyRun /\ Cardinality(native') <= 1
    BY <1>6, <2>2, OneRunType DEF AuditRunsBehavex
  <2> QED
    BY <1>6, <2>3, <2>4 DEF TypeOK, AuditRunsBehavex, local
<1>7. CASE AuditReports
  <2>1. audited' \subseteq Runs
    BY <1>7 DEF TypeOK, AuditReports, UnderWay
  <2>2. \A k \in Kinds : OfKind(k) \subseteq AnyRun /\ loose[k] \subseteq AnyRun
    BY DEF TypeOK, OfKind
  <2>3. results' \in [Runs -> SUBSET AnyRun]
    BY <1>7 DEF TypeOK, AuditReports, Absent
  <2>4. Flattened \subseteq AnyRun
    BY <2>2 DEF Flattened, Kinds
  <2>5. loose' \in [Kinds -> SUBSET AnyRun]
    BY <1>7, <2>4 DEF TypeOK, AuditReports
  <2>6. allure_html' \in [Kinds -> SUBSET AnyRun]
    BY <1>7, <2>2 DEF AuditReports, Absent
  <2>7. mirror' \subseteq AnyRun /\ Cardinality(mirror') <= 1
    BY <1>7, MirroredType DEF AuditReports
  <2> QED
    BY <1>7, <2>1, <2>3, <2>5, <2>6, <2>7 DEF TypeOK, AuditReports, local
<1> QED
  BY <1>1, <1>2, <1>3, <1>4, <1>5, <1>6, <1>7 DEF Next

-----------------------------------------------------------------------------
LEMMA StepKeepsInv == IInv /\ [Next]_vars => IInv'
<1> SUFFICES ASSUME IInv, [Next]_vars PROVE IInv'
  OBVIOUS
<1>1. TypeOK
  BY DEF IInv
<1>2. CASE Next
  <2>1. TypeOK'
    BY <1>1, <1>2, TypesStep
  <2>2. behave_json' \subseteq BehavexSide /\ \A s \in Runs : RunInv(s)'
    <3>1. CASE \E r \in Runs : Record(r)
      <4>1. PICK r \in Runs : Record(r)
        BY <3>1
      <4>2. behave_json' = behave_json
        BY <4>1 DEF Record, Measure, SnapshotUnavailable, StageReports, UploadSnapshot,
           SnapshotOSError, SnapshotFails, UploadUnavailable, UploadHtml, NoHtml, UploadResults,
           UploadRetried, UploadFails, Finalize, files, reports
      <4>3. RunInv(r)'
        BY <2>1, <4>1, NoUploadStep, SnapshotStep, UploadStep DEF Record
      <4>4. \A s \in Runs \ {r} : RunInv(s)'
        BY <4>1, RecordFrame
      <4> QED
        BY <4>2, <4>3, <4>4 DEF IInv
    <3>2. CASE \E r \in Runs : \/ Start(r) \/ \E wrote \in SUBSET {r} : Execute(r, wrote)
                               \/ CollectBehavex(r) \/ SyncStatic(r)
      BY <3>2, StartStep, ExecuteStep, CollectBehavexStep, SyncStaticStep
    <3>3. CASE (\E k \in Kinds : GenerateReport(k)) \/ AuditBegins
               \/ AuditRunsPytest \/ AuditRunsBehavex \/ AuditReports
      BY <3>3, GenerateReportStep, AuditStep, AuditPhaseStep
    <3> QED
      BY <1>2, <3>1, <3>2, <3>3 DEF Next
  <2> QED
    BY <2>1, <2>2 DEF IInv
<1>3. CASE UNCHANGED vars
  <2>1. UNCHANGED <<pc, results, loose, behave_json, native, mirror, allure_html, produced,
                    auditing, audited, overtaken, metrics, staged, attempts, outcome, store, row,
                    faults>>
    BY <1>3 DEF vars, files, reports, others, local
  <2>2. TypeOK'
    BY <1>1, <2>1 DEF TypeOK
  <2>3. \A s \in Runs : Stored(s)' = Stored(s)
    BY <2>1 DEF Stored
  <2>4. \A s \in Runs : RunInv(s)'
    BY <2>1, <2>3, Frame
  <2> QED
    BY <2>1, <2>2, <2>4 DEF IInv
<1> QED
  BY <1>2, <1>3

-----------------------------------------------------------------------------
(* Theorems                                                                *)

\* At every step of run_streaming, of record_completed_run and of the audits
\* and reports of other processes, each run's directories, objects and row fit
\* the place where the run is.
THEOREM Invariance == Spec => []IInv
BY InitInv, StepKeepsInv, PTL DEF Spec

\* A row that names a snapshot has all of it in the store, and the session
\* offers a link for each report in it: no upload that _snapshot_reports broke
\* off is named, and what is uploaded afterwards adds no link.
THEOREM WholeSnapshots == Spec => []SnapshotIsWhole
<1>1. IInv => SnapshotIsWhole
  <2> SUFFICES ASSUME IInv, NEW r \in Runs, row[r].prefix
               PROVE  staged[r] \subseteq Stored(r) /\ SessionLinks(r) = LinkNames(staged[r])
    BY DEF SnapshotIsWhole
  <2>1. /\ staged[r] \subseteq Stored(r)
        /\ \A p \in Stored(r) : p.name \in {"html", "raw"} \/ p \in staged[r]
    BY DEF IInv, RunInv, SnapshotInv
  <2>2. LinkNames(Stored(r)) = LinkNames(staged[r])
    <3>1. {x \in Stored(r) : x.name \in {"allure_pytest", "allure_behavex", "behave"}}
          = {x \in staged[r] : x.name \in {"allure_pytest", "allure_behavex", "behave"}}
      BY <2>1
    <3> QED
      BY <3>1 DEF LinkNames
  <2>3. SessionLinks(r) = LinkNames(Stored(r))
    BY DEF SessionLinks
  <2> QED
    BY <2>1, <2>2, <2>3
<1> QED
  BY <1>1, Invariance, PTL

\* What a row reports of its upload is so, however many attempts it took: where
\* it says success, a whole snapshot or an upload is in the store; skipped names
\* neither; and when an upload is named, every result that the row counts is in
\* the store (no audit having removed it in between).  That the url leads to an
\* HTML bundle is not said, and not so where only the results were uploaded
\* (README, section 6).
THEOREM TrueSync == Spec => []SyncIsTrue
<1>1. IInv => SyncIsTrue
  BY DEF IInv, RunInv, SnapshotInv, RowInv, SyncIsTrue
<1> QED
  BY <1>1, Invariance, PTL

\* The types, and whose results a row counts: its own, and of a BehaveX run
\* possibly those of other BehaveX runs, however many runs of either framework
\* are under way at once.
THEOREM OwnMetrics == Spec => []Inv
<1>1. IInv => MetricsAreOwn
  <2> SUFFICES ASSUME IInv, NEW r \in Runs, row[r].status = "FINISHED"
               PROVE  /\ IF r \in BehavexRuns THEN row[r].metrics \cap (Runs \ BehavexRuns) = {}
                         ELSE row[r].metrics \subseteq {r}
                      /\ r \in produced \ (audited \cup overtaken) => r \in row[r].metrics
    BY DEF MetricsAreOwn
  <2>1. OwnInv(r) /\ pc[r] = "done"
    BY DEF IInv, RunInv, RowInv
  <2>2. row[r].metrics \subseteq Own(r)
    BY <2>1 DEF OwnInv
  <2>3. r \in produced \ (audited \cup overtaken) => r \in row[r].metrics
    BY <2>1 DEF OwnInv
  <2> QED
    BY <2>2, <2>3, UnfollowedAssumption DEF Own, BehavexSide
<1>2. IInv => Inv
  BY <1>1 DEF Inv, IInv
<1> QED
  BY <1>2, Invariance, PTL
=============================================================================
