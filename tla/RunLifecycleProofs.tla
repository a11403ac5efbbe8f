-------------------------- MODULE RunLifecycleProofs --------------------------
(***************************************************************************)
(* Proofs about RunLifecycle, for every number of executions, runs,        *)
(* sessions and faults.  Inv is inductive; the safety properties and the   *)
(* refinement of RunTable follow from it.                                  *)
(***************************************************************************)
EXTENDS RunLifecycle, TLAPS

\* The runs of the executions are the pairs of an execution and an index.
LEMMA RunIdsPairs ==
    /\ \A e \in Execs : \A i \in 1..NumRuns[e] : <<e, i>> \in RunIds
    /\ \A r \in RunIds : r[1] \in Execs /\ r[2] \in 1..NumRuns[r[1]] /\ r = <<r[1], r[2]>>
    /\ \A e \in Execs : NumRuns[e] \in Nat \ {0}
  BY NumRunsAssumption DEF RunIds, RunsOf

\* The writers keep rows well typed.
LEMMA RowTypes ==
    /\ NewRow \in Row
    /\ NewRow # NoRow
    /\ \A row \in Row \cup {NoRow}, rc \in ReturnCode \cup {"none"} :
          /\ Finalized(row, rc) \in Row
          /\ Updated(row, "FAILED", "none") \in Row
    /\ \A row \in Row \cup {NoRow} : Orphaned(row) \in Row
    /\ \A row \in Row : [row EXCEPT !.ai = TRUE] \in Row
    /\ NoRow \notin Row
<1> USE DEF NewRow, Row, NoRow, ReturnCode
<1>1. NewRow \in Row /\ NewRow # NoRow /\ NoRow \notin Row
  OBVIOUS
<1>2. ASSUME NEW row \in Row \cup {NoRow}, NEW rc \in ReturnCode \cup {"none"},
             NEW status \in {"COMPLETED", "FAILED"}
      PROVE  Updated(row, status, rc) \in Row
  <2>1. CASE row \in Row
    BY <2>1 DEF Updated
  <2>2. CASE row = NoRow
    BY <2>2 DEF Updated
  <2> QED
    BY <2>1, <2>2
<1>3. ASSUME NEW row \in Row \cup {NoRow}
      PROVE  Orphaned(row) \in Row
  <2>1. CASE row \in Row
    BY <2>1 DEF Orphaned
  <2>2. CASE row = NoRow
    BY <2>2 DEF Orphaned
  <2> QED
    BY <2>1, <2>2
<1>4. \A row \in Row : [row EXCEPT !.ai = TRUE] \in Row
  OBVIOUS
<1>5. \A rc : FinalStatus(rc) \in {"COMPLETED", "FAILED"}
  BY DEF FinalStatus
<1> HIDE DEF NewRow, Row, NoRow, ReturnCode
<1> QED
  BY <1>1, <1>2, <1>3, <1>4, <1>5 DEF Finalized

\* What the writers do to a row.
LEMMA RowEffects ==
    /\ NewRow.status = "RUNNING" /\ NewRow.rc = "none"
    /\ NoRow.status = "absent" /\ NoRow.rc = "none"
    /\ Orphaned(NewRow).status = "FAILED" /\ Orphaned(NewRow).rc = "none" /\ Orphaned(NewRow).orphaned
    /\ \A row \in Row \cup {NoRow}, rc \in ReturnCode :
          Finalized(row, rc).rc = rc /\ Finalized(row, rc).status = FinalStatus(rc)
    /\ \A row \in Row \cup {NoRow} :
          /\ Updated(row, "FAILED", "none").rc = row.rc
          /\ Updated(row, "FAILED", "none").orphaned = row.orphaned
          /\ Updated(row, "FAILED", "none").status = "FAILED"
    /\ \A row \in Row : LET new == [row EXCEPT !.ai = TRUE]
                        IN  new.status = row.status /\ new.rc = row.rc /\ new.orphaned = row.orphaned
    /\ \A rc \in ReturnCode : FinalStatus(rc) \in {"COMPLETED", "FAILED"}
  BY DEF NewRow, Row, NoRow, ReturnCode, Finalized, Updated, FinalStatus, Orphaned

\* The status record_completed_run writes is a terminal one.
LEMMA FinalStatuses == \A rc : FinalStatus(rc) \in {"COMPLETED", "FAILED"}
  BY DEF FinalStatus

\* Init satisfies the inductive invariant.
LEMMA InitInv == Init => Inv
<1> SUFFICES ASSUME Init PROVE Inv
  OBVIOUS
<1> USE RunIdsPairs, BoundsAssumption, RowEffects DEF Init
<1>1. TypeOK
  BY DEF TypeOK, PcValues, NoSync, SyncStatus, DbStatus, ArtifactStatus, NoRequest
<1>2. ASSUME NEW r \in RunIds PROVE RowInv(r) /\ WriterInv(r) /\ ProgressInv(r)
  BY DEF RowInv, WriterInv, ProgressInv, NoSync, NoRequest
<1>3. ASSUME NEW e \in Execs PROVE EngineInv(e)
  BY DEF EngineInv
<1> QED
  BY <1>1, <1>2, <1>3 DEF Inv

\* The current run of an execution whose loop has not ended is one of its runs.
LEMMA CurrentRun ==
    ASSUME TypeOK, NEW e \in Execs, cur[e] <= NumRuns[e]
    PROVE  Current(e) \in RunIds /\ Current(e)[1] = e /\ Current(e)[2] = cur[e]
  BY RunIdsPairs DEF TypeOK, Current


ControlTypes ==
    /\ pc \in [Execs -> PcValues]
    /\ cur \in [Execs -> Nat \ {0}]
    /\ persist \in [Execs -> BOOLEAN]
    /\ result \in [RunIds -> ReturnCode \cup {"none"}]
    /\ infra \in [Execs -> BOOLEAN]
    /\ sync \in [RunIds -> SyncStatus]
    /\ attempt \in [Execs -> 0..MaxAttempts]
    /\ faults \in 0..MaxFaults

\* Updates of one field of a RunSyncStatus.
LEMMA SyncUpdates ==
    ASSUME sync \in [RunIds -> SyncStatus], NEW r
    PROVE  /\ \A v \in DbStatus : [sync EXCEPT ![r].db = v] \in [RunIds -> SyncStatus]
           /\ \A v \in ArtifactStatus : [sync EXCEPT ![r].artifact = v] \in [RunIds -> SyncStatus]
  BY DEF SyncStatus

\* A step of an execution keeps everything but the rows well typed.
LEMMA EngineControlTypes ==
    ASSUME ControlTypes, NEW e \in Execs, EngineStep(e)
    PROVE  ControlTypes'
<1> USE RunIdsPairs, BoundsAssumption
    DEF ControlTypes, PcValues, Advance, NextResult, Fault, engineVars, sessionVars
<1>1. CASE CreateRun(e)
  BY <1>1 DEF CreateRun
<1>2. ASSUME NEW committed \in BOOLEAN, CreateRunFails(e, committed) PROVE ControlTypes'
  BY <1>2 DEF CreateRunFails
<1>3. ASSUME NEW rc \in ReturnCode, RunnerReturns(e, rc) PROVE ControlTypes'
  <2>1. result' \in [RunIds -> ReturnCode \cup {"none"}]
    BY <1>3 DEF RunnerReturns
  <2> QED
    BY <2>1, <1>3 DEF RunnerReturns
<1>4. CASE RunnerRaises(e)
  BY <1>4 DEF RunnerRaises
<1>5. CASE FailRun(e)
  BY <1>5 DEF FailRun
<1>6. CASE FailRunFails(e)
  BY <1>6 DEF FailRunFails
<1>7. CASE SkipRun(e)
  BY <1>7 DEF SkipRun, Recording
<1>8. ASSUME NEW status \in ArtifactStatus \ {"none"}, SyncArtifacts(e, status) PROVE ControlTypes'
  <2>1. sync' \in [RunIds -> SyncStatus]
    BY <1>8, SyncUpdates DEF SyncArtifacts
  <2> QED
    BY <2>1, <1>8 DEF SyncArtifacts, Recording
<1>9. CASE RecordRaises(e)
  BY <1>9 DEF RecordRaises, Recording
<1>10. CASE Finalize(e)
  <2>1. sync' \in [RunIds -> SyncStatus]
    BY <1>10, SyncUpdates DEF Finalize, DbStatus
  <2> QED
    BY <2>1, <1>10 DEF Finalize
<1>11. ASSUME NEW committed \in BOOLEAN, NEW transient \in BOOLEAN, FinalizeFails(e, committed, transient)
       PROVE  ControlTypes'
  <2>1. sync' \in [RunIds -> SyncStatus]
    <3>1. sync' = sync \/ sync' = [sync EXCEPT ![Current(e)].db = "failed"]
      BY <1>11 DEF FinalizeFails
    <3>2. [sync EXCEPT ![Current(e)].db = "failed"] \in [RunIds -> SyncStatus]
      BY SyncUpdates DEF DbStatus
    <3> QED
      BY <3>1, <3>2
  <2>2. attempt' \in [Execs -> 0..MaxAttempts]
    BY <1>11 DEF FinalizeFails
  <2> QED
    BY <2>1, <2>2, <1>11 DEF FinalizeFails
<1>12. CASE Summarize(e)
  BY <1>12 DEF Summarize
<1> QED
  BY <1>1, <1>2, <1>3, <1>4, <1>5, <1>6, <1>7, <1>8, <1>9, <1>10, <1>11, <1>12 DEF EngineStep

\* What a step of execution e leaves alone: the other executions, and the
\* rows, results and sync statuses of all runs but its current one.
Frame(e) ==
    /\ \A f \in Execs \ {e} : pc'[f] = pc[f] /\ cur'[f] = cur[f] /\ infra'[f] = infra[f]
    /\ \A r \in RunIds \ {Current(e)} :
          db'[r] = db[r] /\ result'[r] = result[r] /\ sync'[r] = sync[r]
    /\ persist' = persist /\ ann' = ann /\ snap' = snap /\ sess' = sess

\* A step of stream() has that frame: it touches its current run only.
LEMMA EngineFrame ==
    ASSUME TypeOK, NEW e \in Execs, EngineStep(e)
    PROVE  Frame(e)
<1> USE DEF TypeOK, Frame, Advance, NextResult, sessionVars
<1>1. CASE CreateRun(e)
  BY <1>1 DEF CreateRun
<1>2. ASSUME NEW committed \in BOOLEAN, CreateRunFails(e, committed) PROVE Frame(e)
  BY <1>2 DEF CreateRunFails
<1>3. ASSUME NEW rc \in ReturnCode, RunnerReturns(e, rc) PROVE Frame(e)
  BY <1>3 DEF RunnerReturns
<1>4. CASE RunnerRaises(e)
  BY <1>4 DEF RunnerRaises
<1>5. CASE FailRun(e)
  BY <1>5 DEF FailRun
<1>6. CASE FailRunFails(e)
  BY <1>6 DEF FailRunFails
<1>7. CASE SkipRun(e)
  BY <1>7 DEF SkipRun, Recording
<1>8. ASSUME NEW status \in ArtifactStatus \ {"none"}, SyncArtifacts(e, status) PROVE Frame(e)
  BY <1>8 DEF SyncArtifacts, Recording
<1>9. CASE RecordRaises(e)
  BY <1>9 DEF RecordRaises, Recording
<1>10. CASE Finalize(e)
  BY <1>10 DEF Finalize
<1>11. ASSUME NEW committed \in BOOLEAN, NEW transient \in BOOLEAN, FinalizeFails(e, committed, transient)
       PROVE  Frame(e)
  BY <1>11 DEF FinalizeFails
<1>12. CASE Summarize(e)
  BY <1>12 DEF Summarize
<1> QED
  BY <1>1, <1>2, <1>3, <1>4, <1>5, <1>6, <1>7, <1>8, <1>9, <1>10, <1>11, <1>12 DEF EngineStep

\* A step of execution e writes at most the row of its current run: it opens
\* the row, or closes it when it exists.
RowChange(e) ==
    \/ db' = db
    \/ /\ Current(e) \in RunIds
       /\ \E row \in Row :
             /\ db' = [db EXCEPT ![Current(e)] = row]
             /\ \/ row = NewRow /\ db[Current(e)] = NoRow
                \/ Closed(row) /\ db[Current(e)] # NoRow

\* Every repository call of stream() is such a change.
LEMMA EngineRows ==
    ASSUME Inv, NEW e \in Execs, EngineStep(e)
    PROVE  RowChange(e)
<1> DEFINE c == Current(e)
<1> USE DEF Inv
<1>1. pc[e] \in {"creating", "failing", "finalizing"} =>
          /\ c \in RunIds /\ db[c] \in Row \cup {NoRow} /\ c[1] = e /\ c[2] = cur[e]
          /\ ProgressInv(c) /\ persist[e]
  BY CurrentRun DEF EngineInv, TypeOK
<1>2. pc[e] = "creating" => db[c] = NoRow
  BY <1>1 DEF ProgressInv, TypeOK
<1>3. pc[e] \in {"failing", "finalizing"} => db[c] # NoRow
  BY <1>1 DEF ProgressInv
<1>4. pc[e] = "finalizing" => result[c] \in ReturnCode
  BY <1>1 DEF TypeOK, EngineInv
<1> HIDE DEF c, Inv
<1>5. CASE CreateRun(e)
  BY <1>5, <1>1, <1>2, RowTypes DEF CreateRun, RowChange, c
<1>6. ASSUME NEW committed \in BOOLEAN, CreateRunFails(e, committed) PROVE RowChange(e)
  BY <1>6, <1>1, <1>2, RowTypes DEF CreateRunFails, RowChange, c
<1>7. CASE FailRun(e)
  <2>1. Updated(db[c], "FAILED", "none") \in Row /\ Closed(Updated(db[c], "FAILED", "none"))
    BY <1>7, <1>1, RowTypes, RowEffects DEF FailRun, Closed
  <2> QED
    BY <1>7, <1>1, <1>3, <2>1 DEF FailRun, RowChange, c
<1>8. pc[e] = "finalizing" => Finalized(db[c], result[c]) \in Row /\ Closed(Finalized(db[c], result[c]))
  BY <1>1, <1>4, RowTypes, RowEffects DEF Closed
<1>9. CASE Finalize(e)
  BY <1>9, <1>1, <1>3, <1>8 DEF Finalize, RowChange, c
<1>10. ASSUME NEW committed \in BOOLEAN, NEW transient \in BOOLEAN, FinalizeFails(e, committed, transient)
       PROVE  RowChange(e)
  BY <1>10, <1>1, <1>3, <1>8 DEF FinalizeFails, RowChange, c
<1>11. ASSUME NEW rc \in ReturnCode, RunnerReturns(e, rc) PROVE RowChange(e)
  BY <1>11 DEF RunnerReturns, RowChange
<1>12. ASSUME NEW status, SyncArtifacts(e, status) PROVE RowChange(e)
  BY <1>12 DEF SyncArtifacts, RowChange
<1>13. CASE RunnerRaises(e) \/ FailRunFails(e) \/ SkipRun(e) \/ RecordRaises(e) \/ Summarize(e)
  BY <1>13 DEF RunnerRaises, FailRunFails, SkipRun, RecordRaises, Summarize, RowChange
<1> QED
  BY <1>5, <1>6, <1>7, <1>9, <1>10, <1>11, <1>12, <1>13 DEF EngineStep

\* A step of an execution keeps every variable well typed.
LEMMA EngineTypes ==
    ASSUME Inv, NEW e \in Execs, EngineStep(e)
    PROVE  TypeOK'
<1>1. ControlTypes'
  BY EngineControlTypes DEF Inv, TypeOK, ControlTypes
<1>2. db' \in [RunIds -> Row \cup {NoRow}]
  BY EngineRows DEF Inv, TypeOK, RowChange
<1>3. ann' = ann /\ snap' = snap /\ sess' = sess
  BY EngineFrame DEF Inv, Frame
<1> QED
  BY <1>1, <1>2, <1>3 DEF Inv, TypeOK, ControlTypes

RunInv(r) == RowInv(r) /\ WriterInv(r) /\ ProgressInv(r)

\* The runs of the other executions are as they were.
LEMMA OtherExecutions ==
    ASSUME Inv, NEW e \in Execs, EngineStep(e)
    PROVE  /\ \A r \in RunIds : r[1] # e => RunInv(r)'
           /\ \A f \in Execs : f # e => EngineInv(f)'
<1>1. Frame(e) /\ Current(e)[1] = e
  BY EngineFrame DEF Inv, Current
<1>2. ASSUME NEW r \in RunIds, r[1] # e PROVE RunInv(r)'
  <2>1. r[1] \in Execs /\ r # Current(e)
    BY <1>1, <1>2, RunIdsPairs
  <2>2. /\ db'[r] = db[r] /\ result'[r] = result[r] /\ sync'[r] = sync[r]
        /\ pc'[r[1]] = pc[r[1]] /\ cur'[r[1]] = cur[r[1]] /\ infra'[r[1]] = infra[r[1]]
        /\ persist' = persist /\ ann' = ann /\ snap' = snap
    BY <1>1, <1>2, <2>1 DEF Frame
  <2>3. RowInv(r) /\ WriterInv(r) /\ ProgressInv(r)
    BY DEF Inv
  <2> QED
    BY <2>2, <2>3 DEF RunInv, RowInv, WriterInv, ProgressInv, Settled
<1>3. ASSUME NEW f \in Execs, f # e PROVE EngineInv(f)'
  <2>1. f \in Execs /\ cur'[f] = cur[f] /\ pc'[f] = pc[f] /\ persist' = persist
    BY <1>1, <1>3 DEF Frame
  <2>2. pc[f] = "finalizing" => Current(f) \in RunIds /\ Current(f) # Current(e)
    BY <1>3, CurrentRun DEF Inv, EngineInv, Current
  <2>3. pc[f] = "finalizing" => result'[Current(f)] = result[Current(f)]
    BY <1>1, <2>2 DEF Frame
  <2> QED
    BY <2>1, <2>3 DEF Inv, EngineInv, Current
<1> QED
  BY <1>2, <1>3

\* A finalized row shows its return code and the status that goes with it.
LEMMA FinalizedRow ==
    ASSUME NEW row \in Row \cup {NoRow}, NEW rc \in ReturnCode
    PROVE  LET new == Finalized(row, rc)
           IN  /\ new.rc = rc /\ new.status = FinalStatus(rc)
               /\ Closed(new) /\ new # NoRow /\ new.status # "RUNNING" /\ rc # "none"
  BY RowEffects DEF Closed, NoRow, ReturnCode

\* Where a loop stands after Advance.
LEMMA AdvanceEffect ==
    ASSUME TypeOK, NEW e \in Execs, NEW here, NEW after, Advance(e, here, after)
    PROVE  \/ cur[e] < NumRuns[e] /\ cur'[e] = cur[e] + 1 /\ pc'[e] = here
           \/ cur[e] >= NumRuns[e] /\ cur'[e] = 1 /\ pc'[e] = after
  BY RunIdsPairs DEF TypeOK, Advance

\* The runs of the execution that takes the step.
LEMMA OwnRuns ==
    ASSUME Inv, NEW e \in Execs, EngineStep(e), NEW r \in RunIds, r[1] = e
    PROVE  RunInv(r)'
<1>1. /\ r[2] \in 1..NumRuns[e] /\ cur[e] \in Nat \ {0} /\ NumRuns[e] \in Nat \ {0}
      /\ r = Current(e) <=> r[2] = cur[e]
  BY RunIdsPairs DEF Inv, TypeOK, Current
<1>2. /\ r # Current(e) => db'[r] = db[r] /\ result'[r] = result[r] /\ sync'[r] = sync[r]
      /\ persist' = persist /\ ann' = ann /\ snap' = snap
  BY EngineFrame DEF Inv, Frame
<1>3. RowInv(r) /\ WriterInv(r) /\ ProgressInv(r) /\ EngineInv(e)
  BY DEF Inv
<1>t. TypeOK
  BY DEF Inv
<1> USE <1>1, <1>2, <1>3, <1>t DEF RunInv
<1>4. CASE CreateRun(e)
  <2>p. \/ cur[e] < NumRuns[e] /\ cur'[e] = cur[e] + 1 /\ pc'[e] = "creating"
        \/ cur[e] >= NumRuns[e] /\ cur'[e] = 1 /\ pc'[e] = "running"
    BY <1>4, AdvanceEffect DEF CreateRun
  <2>0. /\ pc[e] = "creating" /\ result' = result /\ sync' = sync /\ infra' = infra
        /\ r = Current(e) => db'[r] = NewRow
    BY <1>4 DEF CreateRun, TypeOK
  <2>1. RowInv(r)'
    BY <2>0, RowEffects DEF RowInv, Settled, ProgressInv
  <2>2. WriterInv(r)'
    BY <2>0, RowEffects, RowTypes DEF WriterInv, Settled, ProgressInv
  <2>3. ProgressInv(r)'
    <3>1. NewRow # NoRow
      BY RowTypes
    <3>2. CASE r = Current(e)
      BY <2>0, <2>p, <3>1, <3>2 DEF ProgressInv, EngineInv
    <3>3. CASE r # Current(e)
      BY <2>0, <2>p, <3>3 DEF ProgressInv, EngineInv
    <3> QED
      BY <3>2, <3>3
  <2> QED
    BY <2>1, <2>2, <2>3
<1>5. ASSUME NEW committed \in BOOLEAN, CreateRunFails(e, committed) PROVE RunInv(r)'
  <2>0. /\ pc[e] = "creating" /\ pc'[e] = "raised" /\ cur' = cur
        /\ result' = result /\ sync' = sync /\ infra' = infra
        /\ r = Current(e) => db'[r] \in {NewRow, db[r]}
    BY <1>5 DEF CreateRunFails, TypeOK
  <2>1. RowInv(r)'
    BY <2>0, RowEffects DEF RowInv, Settled, ProgressInv
  <2>2. WriterInv(r)'
    BY <2>0, RowEffects, RowTypes DEF WriterInv, Settled, ProgressInv
  <2>3. ProgressInv(r)'
    BY <2>0, RowTypes DEF ProgressInv, EngineInv
  <2> QED
    BY <2>1, <2>2, <2>3
<1>6. ASSUME NEW rc \in ReturnCode, RunnerReturns(e, rc) PROVE RunInv(r)'
  <2>0. /\ pc[e] = "running" /\ db' = db /\ sync' = sync /\ infra' = infra
        /\ r = Current(e) => result[r] = "none" /\ sync[r].db = "none"
        /\ \/ cur[e] < NumRuns[e] /\ cur'[e] = cur[e] + 1 /\ pc'[e] = "running"
           \/ cur[e] >= NumRuns[e] /\ cur'[e] = 1 /\ pc'[e] = "recording"
    BY <1>6, AdvanceEffect DEF RunnerReturns, ProgressInv
  <2>1. RowInv(r)'
    BY <2>0 DEF RowInv, Settled
  <2>2. WriterInv(r)'
    BY <2>0 DEF WriterInv, Settled
  <2>3. ProgressInv(r)'
    BY <2>0 DEF ProgressInv, EngineInv
  <2> QED
    BY <2>1, <2>2, <2>3
<1>7. CASE RunnerRaises(e)
  <2>1. RowInv(r)' /\ WriterInv(r)'
    BY <1>7 DEF RunnerRaises, RowInv, WriterInv, Settled
  <2>2. /\ pc[e] = "running" /\ db' = db /\ sync' = sync /\ result' = result
        /\ \/ cur'[e] = cur[e] /\ pc'[e] = "failing"
           \/ cur[e] < NumRuns[e] /\ cur'[e] = cur[e] + 1 /\ pc'[e] = "running" /\ ~persist[e]
           \/ cur[e] >= NumRuns[e] /\ cur'[e] = 1 /\ pc'[e] = "recording" /\ ~persist[e]
    BY <1>7, AdvanceEffect DEF RunnerRaises, TypeOK
  <2>3. ProgressInv(r)'
    BY <2>2 DEF ProgressInv, EngineInv
  <2> QED
    BY <2>1, <2>3
<1>8. CASE FailRun(e)
  <2>1. \/ cur[e] < NumRuns[e] /\ cur'[e] = cur[e] + 1 /\ pc'[e] = "running"
        \/ cur[e] >= NumRuns[e] /\ cur'[e] = 1 /\ pc'[e] = "recording"
    BY <1>8, AdvanceEffect DEF FailRun
  <2>2. /\ pc[e] = "failing" /\ result' = result /\ sync' = sync /\ infra' = infra
        /\ r = Current(e) => db'[r] = Updated(db[r], "FAILED", "none")
    BY <1>8 DEF FailRun, TypeOK
  <2>3. r = Current(e) => result[r] = "none" /\ sync[r].db = "none" /\ db[r].rc = "none"
    BY <2>2 DEF ProgressInv, RowInv
  <2>4. r = Current(e) => db'[r].rc = "none" /\ db'[r].status = "FAILED" /\ db'[r] # NoRow
    BY <2>2, <2>3, RowEffects DEF TypeOK
  <2>5. RowInv(r)'
    BY <2>2, <2>3, <2>4 DEF RowInv, Settled
  <2>6. WriterInv(r)'
    BY <2>2, <2>3, <2>4 DEF WriterInv, Settled
  <2>7. ProgressInv(r)'
    BY <2>1, <2>2, <2>3, <2>4 DEF ProgressInv, EngineInv
  <2> QED
    BY <2>5, <2>6, <2>7
<1>9. CASE FailRunFails(e)
  <2>1. \/ cur[e] < NumRuns[e] /\ cur'[e] = cur[e] + 1 /\ pc'[e] = "running"
        \/ cur[e] >= NumRuns[e] /\ cur'[e] = 1 /\ pc'[e] = "recording"
    BY <1>9, AdvanceEffect DEF FailRunFails
  <2>2. pc[e] = "failing" /\ db' = db /\ result' = result /\ sync' = sync /\ infra' = infra
    BY <1>9 DEF FailRunFails
  <2>3. RowInv(r)' /\ WriterInv(r)'
    BY <2>2 DEF RowInv, WriterInv, Settled
  <2>4. ProgressInv(r)'
    BY <2>1, <2>2 DEF ProgressInv, EngineInv
  <2> QED
    BY <2>3, <2>4
<1>10. CASE SkipRun(e) \/ RecordRaises(e)
  <2>1. /\ pc[e] = "recording" /\ pc' = pc /\ cur'[e] = cur[e] + 1
        /\ db' = db /\ result' = result /\ sync' = sync
        /\ \/ infra' = infra /\ result[Current(e)] = "none"
           \/ infra'[e] = TRUE
    BY <1>10 DEF SkipRun, RecordRaises, Recording, NextResult, TypeOK
  <2>2. RowInv(r)' /\ WriterInv(r)'
    BY <2>1 DEF RowInv, WriterInv, Settled
  <2>3. ProgressInv(r)'
    BY <2>1 DEF ProgressInv
  <2> QED
    BY <2>2, <2>3
<1>11. ASSUME NEW status \in ArtifactStatus \ {"none"}, SyncArtifacts(e, status) PROVE RunInv(r)'
  <2>0. sync'[r].db = sync[r].db
    BY <1>11 DEF SyncArtifacts, TypeOK, SyncStatus
  <2>1. RowInv(r)' /\ WriterInv(r)'
    BY <1>11, <2>0 DEF SyncArtifacts, RowInv, WriterInv, Settled
  <2>2. ProgressInv(r)'
    BY <1>11, <2>0 DEF SyncArtifacts, Recording, ProgressInv, EngineInv, TypeOK
  <2> QED
    BY <2>1, <2>2
<1>12. pc[e] = "finalizing" => result[Current(e)] \in ReturnCode /\ db[Current(e)] \in Row \cup {NoRow}
  BY CurrentRun DEF EngineInv, TypeOK
<1>13. CASE Finalize(e)
  <2>1. /\ pc[e] = "finalizing" /\ pc'[e] = "recording" /\ cur'[e] = cur[e] + 1
        /\ result' = result /\ infra' = infra
    BY <1>13 DEF Finalize, TypeOK, NextResult
  <2>2. r = Current(e) => db'[r] = Finalized(db[r], result[r])
    BY <1>13 DEF Finalize, TypeOK
  <2>3. r = Current(e) => sync'[r].db = "success"
    BY <1>13 DEF Finalize, TypeOK, SyncStatus
  <2>4. r = Current(e) => /\ db'[r].rc = result[r] /\ db'[r].status = FinalStatus(result[r])
                          /\ Closed(db'[r]) /\ db'[r] # NoRow /\ db'[r].status # "RUNNING"
                          /\ result[r] # "none"
    BY <1>12, <2>1, <2>2, FinalizedRow DEF EngineInv
  <2>5. RowInv(r)'
    BY <2>1, <2>2, <2>3, <2>4 DEF RowInv, Settled
  <2>6. WriterInv(r)'
    BY <2>1, <2>4 DEF WriterInv, Settled
  <2>7. ProgressInv(r)'
    BY <2>1, <2>3, <2>4 DEF ProgressInv, EngineInv
  <2> QED
    BY <2>5, <2>6, <2>7
<1>14. CASE Summarize(e)
  <2>1. RowInv(r)' /\ WriterInv(r)'
    BY <1>14 DEF Summarize, RowInv, WriterInv, Settled
  <2>2. ProgressInv(r)'
    BY <1>14 DEF Summarize, ProgressInv, EngineInv, TypeOK
  <2> QED
    BY <2>1, <2>2
<1>15. ASSUME NEW committed \in BOOLEAN, NEW transient \in BOOLEAN, FinalizeFails(e, committed, transient)
       PROVE  RunInv(r)'
  <2>1. /\ pc[e] = "finalizing" /\ result' = result /\ infra' = infra
        /\ \/ pc'[e] = "recording" /\ cur'[e] = cur[e] + 1
              /\ sync' = [sync EXCEPT ![Current(e)].db = "failed"]
           \/ pc'[e] = pc[e] /\ cur'[e] = cur[e] /\ sync' = sync
    BY <1>15 DEF FinalizeFails, TypeOK, NextResult
  <2>2. r = Current(e) => db'[r] \in {db[r], Finalized(db[r], result[r])}
    BY <1>15 DEF FinalizeFails, TypeOK
  <2>3. r = Current(e) => \/ pc'[e] = pc[e] /\ cur'[e] = cur[e] /\ sync'[r] = sync[r]
                          \/ pc'[e] = "recording" /\ cur'[e] = cur[e] + 1 /\ sync'[r].db = "failed"
    BY <2>1 DEF TypeOK, SyncStatus
  <2>4. r = Current(e) /\ db'[r] # db[r] =>
              /\ db'[r].rc = result[r] /\ db'[r].status = FinalStatus(result[r])
              /\ Closed(db'[r]) /\ db'[r] # NoRow /\ db'[r].status # "RUNNING"
              /\ result[r] # "none"
    BY <1>12, <2>1, <2>2, FinalizedRow DEF EngineInv
  <2>5. RowInv(r)'
    BY <2>1, <2>3, <2>4 DEF RowInv, Settled
  <2>6. WriterInv(r)'
    BY <2>1, <2>4 DEF WriterInv, Settled
  <2>7. ProgressInv(r)'
    BY <2>1, <2>3, <2>4 DEF ProgressInv, EngineInv
  <2> QED
    BY <2>5, <2>6, <2>7
<1> QED
  BY <1>4, <1>5, <1>6, <1>7, <1>8, <1>9, <1>10, <1>11, <1>13, <1>14, <1>15 DEF EngineStep

\* The loop of the execution that takes the step.
LEMMA OwnLoop ==
    ASSUME Inv, NEW e \in Execs, EngineStep(e)
    PROVE  EngineInv(e)'
<1>1. cur[e] \in Nat \ {0} /\ NumRuns[e] \in Nat \ {0} /\ EngineInv(e) /\ persist' = persist
  BY RunIdsPairs, EngineFrame DEF Inv, TypeOK, Frame
<1> USE <1>1 DEF EngineInv
<1>2. CASE CreateRun(e)
  BY <1>2, AdvanceEffect DEF CreateRun, Inv
<1>3. ASSUME NEW committed \in BOOLEAN, CreateRunFails(e, committed) PROVE EngineInv(e)'
  BY <1>3 DEF CreateRunFails, Inv, TypeOK
<1>4. ASSUME NEW rc \in ReturnCode, RunnerReturns(e, rc) PROVE EngineInv(e)'
  BY <1>4, AdvanceEffect DEF RunnerReturns, Inv
<1>5. CASE RunnerRaises(e)
  BY <1>5, AdvanceEffect DEF RunnerRaises, Inv, TypeOK
<1>6. CASE FailRun(e) \/ FailRunFails(e)
  BY <1>6, AdvanceEffect DEF FailRun, FailRunFails, Inv
<1>7. CASE SkipRun(e) \/ RecordRaises(e)
  BY <1>7 DEF SkipRun, RecordRaises, Recording, Inv, TypeOK
<1>8. ASSUME NEW status \in ArtifactStatus \ {"none"}, SyncArtifacts(e, status) PROVE EngineInv(e)'
  BY <1>8 DEF SyncArtifacts, Recording, Current, Inv, TypeOK
<1>9. CASE Finalize(e)
  BY <1>9 DEF Finalize, Inv, TypeOK
<1>10. ASSUME NEW committed \in BOOLEAN, NEW transient \in BOOLEAN, FinalizeFails(e, committed, transient)
       PROVE  EngineInv(e)'
  <2>1. result' = result /\ (pc'[e] = "recording" \/ (pc' = pc /\ cur' = cur))
    BY <1>10 DEF FinalizeFails, Inv, TypeOK
  <2> QED
    BY <2>1 DEF Current
<1>11. CASE Summarize(e)
  BY <1>11 DEF Summarize, Inv, TypeOK
<1> QED
  BY <1>2, <1>3, <1>4, <1>5, <1>6, <1>7, <1>8, <1>9, <1>10, <1>11 DEF EngineStep

\* A step of stream() keeps the inductive invariant.
LEMMA EngineKeepsInv ==
    ASSUME Inv, NEW e \in Execs, EngineStep(e)
    PROVE  Inv'
  BY EngineTypes, OwnRuns, OtherExecutions, OwnLoop DEF Inv, RunInv

\* An execution starts.
LEMMA StartKeepsInv ==
    ASSUME Inv, NEW e \in Execs, NEW p \in BOOLEAN, Start(e, p)
    PROVE  Inv'
<1> USE DEF Start, sessionVars
<1>1. TypeOK'
  BY DEF Inv, TypeOK, PcValues
<1>2. ASSUME NEW r \in RunIds PROVE RowInv(r)' /\ WriterInv(r)'
  BY DEF Inv, RowInv, WriterInv, Settled
<1>3. ASSUME NEW r \in RunIds PROVE ProgressInv(r)'
  <2>1. r[1] \in Execs /\ ProgressInv(r) /\ r[2] >= 1
    BY RunIdsPairs DEF Inv
  <2>2. /\ pc[e] = "idle" /\ pc'[e] = (IF p THEN "creating" ELSE "running") /\ persist'[e] = p
        /\ \A f \in Execs \ {e} : pc'[f] = pc[f] /\ persist'[f] = persist[f]
    BY DEF Inv, TypeOK
  <2>3. EngineInv(e) /\ cur[e] = 1
    BY DEF Inv, EngineInv
  <2>4. CASE r[1] = e
    BY <2>1, <2>2, <2>3, <2>4 DEF ProgressInv
  <2>5. CASE r[1] # e
    BY <2>1, <2>2, <2>5 DEF ProgressInv
  <2> QED
    BY <2>4, <2>5
<1>4. ASSUME NEW f \in Execs PROVE EngineInv(f)'
  BY RunIdsPairs DEF Inv, TypeOK, EngineInv, Current
<1> QED
  BY <1>1, <1>2, <1>3, <1>4 DEF Inv

\* A process dies.
LEMMA CrashKeepsInv ==
    ASSUME Inv, NEW h \in Hosts, Crash(h)
    PROVE  Inv'
<1> USE DEF Crash, sessionVars
<1>1. TypeOK'
  BY DEF Inv, TypeOK, PcValues
<1>2. \A f \in Execs : pc'[f] = pc[f] \/ (pc'[f] = "crashed" /\ pc[f] # "idle")
  BY DEF Inv, TypeOK
<1>3. ASSUME NEW r \in RunIds PROVE RowInv(r)' /\ WriterInv(r)'
  BY DEF Inv, RowInv, WriterInv, Settled
<1>4. ASSUME NEW r \in RunIds PROVE ProgressInv(r)'
  <2>1. r[1] \in Execs /\ ProgressInv(r)
    BY RunIdsPairs DEF Inv
  <2> QED
    BY <1>2, <2>1 DEF ProgressInv
<1>5. ASSUME NEW f \in Execs PROVE EngineInv(f)'
  BY <1>2 DEF Inv, EngineInv, Current
<1> QED
  BY <1>1, <1>3, <1>4, <1>5 DEF Inv

\* Steps that only write rows, of the cleanup and of the summary requests:
\* enough is that they keep the rows and the pending writes in order.
LEMMA WritersKeepInv ==
    ASSUME Inv, TypeOK', UNCHANGED engineVars,
           \A r \in RunIds : /\ db'[r] = NoRow <=> db[r] = NoRow
                             /\ RowInv(r)' /\ WriterInv(r)'
    PROVE  Inv'
<1>1. ASSUME NEW r \in RunIds PROVE ProgressInv(r)'
  BY DEF Inv, ProgressInv, engineVars
<1>2. ASSUME NEW e \in Execs PROVE EngineInv(e)'
  BY DEF Inv, EngineInv, engineVars, Current
<1> QED
  BY <1>1, <1>2 DEF Inv

\* cleanup_orphaned_runs, one call of one session.
LEMMA SessionKeepsInv ==
    ASSUME Inv, NEW s \in Sessions, SessionStep(s)
    PROVE  Inv'
<1> USE DEF Inv
<1>1. CASE ListRunning(s)
  <2>1. TypeOK'
    BY <1>1 DEF ListRunning, TypeOK, engineVars
  <2>2. ASSUME NEW r \in RunIds PROVE RowInv(r)' /\ WriterInv(r)'
    <3>1. db' = db /\ ann' = ann /\ result' = result /\ sync' = sync
      BY <1>1 DEF ListRunning, engineVars
    <3>2. \A t \in Sessions : snap'[t][r] = snap[t][r] \/ (snap'[t][r] = db[r] /\ db[r].status = "RUNNING")
                              \/ snap'[t][r] = NoRow
      BY <1>1 DEF ListRunning, TypeOK
    <3>3. NewRow # NoRow /\ RowInv(r) /\ WriterInv(r)
      BY RowTypes
    <3> QED
      BY <3>1, <3>2, <3>3 DEF RowInv, WriterInv, Settled
  <2> QED
    BY <1>1, <2>1, <2>2, WritersKeepInv DEF ListRunning
<1>2. CASE MarkOrphaned(s)
  <2>1. TypeOK'
    <3>1. \A r \in RunIds : snap[s][r] # NoRow => Orphaned(snap[s][r]) \in Row
      BY RowTypes DEF TypeOK
    <3> QED
      BY <1>2, <3>1 DEF MarkOrphaned, CloseSession, TypeOK, engineVars
  <2>2. ASSUME NEW r \in RunIds PROVE (db'[r] = NoRow <=> db[r] = NoRow) /\ RowInv(r)' /\ WriterInv(r)'
    <3>1. ann' = ann /\ result' = result /\ sync' = sync
      BY <1>2 DEF MarkOrphaned, engineVars
    <3>2. \A t \in Sessions : snap'[t][r] = snap[t][r] \/ snap'[t][r] = NoRow
      BY <1>2 DEF MarkOrphaned, CloseSession, TypeOK
    <3>3. RowInv(r) /\ WriterInv(r)
      OBVIOUS
    <3>4. db'[r] = IF snap[s][r] = NoRow THEN db[r] ELSE Orphaned(snap[s][r])
      BY <1>2 DEF MarkOrphaned
    <3>5. CASE snap[s][r] = NoRow
      BY <3>1, <3>2, <3>3, <3>4, <3>5 DEF RowInv, WriterInv, Settled
    <3>6. CASE snap[s][r] # NoRow
      <4>1. db'[r] = Orphaned(NewRow) /\ db[r] # NoRow
        BY <3>3, <3>4, <3>6 DEF WriterInv
      <4>2. db'[r].status = "FAILED" /\ db'[r].rc = "none" /\ db'[r].orphaned /\ db'[r] # NoRow
        BY <4>1, RowEffects
      <4> QED
        BY <3>1, <3>2, <3>3, <4>1, <4>2 DEF RowInv, WriterInv, Settled, Closed
    <3> QED
      BY <3>5, <3>6
  <2> QED
    BY <1>2, <2>1, <2>2, WritersKeepInv DEF MarkOrphaned
<1>3. CASE MarkOrphanedFails(s)
  <2>1. TypeOK'
    BY <1>3, BoundsAssumption DEF MarkOrphanedFails, CloseSession, Fault, TypeOK, engineVars
  <2>2. ASSUME NEW r \in RunIds PROVE RowInv(r)' /\ WriterInv(r)'
    <3>1. db' = db /\ ann' = ann /\ result' = result /\ sync' = sync
      BY <1>3 DEF MarkOrphanedFails, engineVars
    <3>2. \A t \in Sessions : snap'[t][r] = snap[t][r] \/ snap'[t][r] = NoRow
      BY <1>3 DEF MarkOrphanedFails, CloseSession, TypeOK
    <3> QED
      BY <3>1, <3>2 DEF RowInv, WriterInv, Settled
  <2> QED
    BY <1>3, <2>1, <2>2, WritersKeepInv DEF MarkOrphanedFails
<1> QED
  BY <1>1, <1>2, <1>3 DEF SessionStep

\* One step of an AI-summary request.
LEMMA AnnotatorKeepsInv ==
    ASSUME Inv, NEW a \in RunIds, AnnotatorStep(a)
    PROVE  Inv'
<1> USE DEF Inv
<1>1. ann[a].pc \in {"idle", "checked", "got"} /\ db[a] \in Row \cup {NoRow} /\ NoRow.rc = "none"
  BY RowEffects DEF TypeOK
<1>2. CASE CheckRun(a) \/ GetRow(a) \/ GiveUp(a)
  <2>1. /\ db' = db /\ snap' = snap /\ result' = result /\ sync' = sync
        /\ \A r \in RunIds \ {a} : ann'[r] = ann[r]
    BY <1>2 DEF CheckRun, GetRow, GiveUp, engineVars, sessionVars, TypeOK
  <2>2. ann'[a] \in [pc : {"idle", "checked", "got"}, row : Row \cup {NoRow}]
    BY <1>1, <1>2 DEF CheckRun, GetRow, GiveUp, NoRequest, TypeOK
  <2>3. TypeOK'
    BY <1>2, <2>1, <2>2 DEF CheckRun, GetRow, GiveUp, engineVars, sessionVars, TypeOK
  <2>4. \/ ann'[a].pc = "idle"
        \/ ann'[a].pc = "checked" /\ Settled(a, db[a])
        \/ ann'[a].pc = "got" /\ ann'[a].row = db[a] /\ Settled(a, db[a])
    <3>1. CheckRun(a) => ann'[a].pc = "checked"
      BY DEF CheckRun, TypeOK
    <3>2. CheckRun(a) => Settled(a, db[a])
      BY <1>1, FinalStatuses DEF CheckRun, RowInv, Settled, Closed
    <3>3. GetRow(a) => ann'[a].pc = "got" /\ ann'[a].row = db[a] /\ Settled(a, db[a])
      BY DEF GetRow, TypeOK, WriterInv
    <3>4. GiveUp(a) => ann'[a].pc = "idle"
      BY DEF GiveUp, NoRequest, TypeOK
    <3> QED
      BY <1>2, <3>1, <3>2, <3>3, <3>4
  <2>5. ASSUME NEW r \in RunIds PROVE RowInv(r)' /\ WriterInv(r)'
    BY <2>1, <2>4 DEF RowInv, WriterInv, Settled
  <2> QED
    BY <1>2, <2>1, <2>3, <2>5, WritersKeepInv DEF CheckRun, GetRow, GiveUp
<1>3. CASE PutRow(a)
  <2>1. /\ Settled(a, ann[a].row) /\ Settled(a, db[a]) /\ ann[a].row \in Row \cup {NoRow}
        /\ ann[a].row # NoRow /\ db[a] # NoRow
    BY <1>3, RowEffects DEF PutRow, WriterInv, Settled, Closed, TypeOK
  <2> DEFINE new == [ann[a].row EXCEPT !.ai = TRUE]
  <2>2. /\ new \in Row /\ new # NoRow
        /\ new.status = ann[a].row.status /\ new.rc = ann[a].row.rc
        /\ new.orphaned = ann[a].row.orphaned
    BY <2>1, RowTypes, RowEffects
  <2>3. Settled(a, new)
    BY <2>1, <2>2 DEF Settled, Closed
  <2> HIDE DEF new
  <2>4. /\ db' = [db EXCEPT ![a] = new] /\ ann' = [ann EXCEPT ![a] = NoRequest]
        /\ snap' = snap /\ sess' = sess /\ result' = result /\ sync' = sync /\ UNCHANGED engineVars
        /\ faults' = faults
    BY <1>3 DEF PutRow, engineVars, sessionVars, new
  <2>5. TypeOK'
    BY <2>2, <2>4 DEF TypeOK, engineVars, NoRequest
  <2>6. ASSUME NEW r \in RunIds PROVE (db'[r] = NoRow <=> db[r] = NoRow) /\ RowInv(r)' /\ WriterInv(r)'
    <3>1. CASE r = a
      <4>1. db'[r] = new /\ ann'[r].pc = "idle"
        BY <2>4, <3>1 DEF TypeOK, NoRequest
      <4> QED
        BY <2>1, <2>2, <2>3, <2>4, <3>1, <4>1, RowEffects DEF RowInv, WriterInv, Settled, Closed
    <3>2. CASE r # a
      BY <2>4, <3>2 DEF RowInv, WriterInv, Settled, TypeOK
    <3> QED
      BY <3>1, <3>2
  <2> QED
    BY <2>4, <2>5, <2>6, WritersKeepInv
<1> QED
  BY <1>2, <1>3 DEF AnnotatorStep

-----------------------------------------------------------------------------
(* The theorems                                                            *)

\* Every step of every process keeps the inductive invariant.
LEMMA StepKeepsInv == Inv /\ [Next]_vars => Inv'
<1> SUFFICES ASSUME Inv, [Next]_vars PROVE Inv'
  OBVIOUS
<1>1. CASE UNCHANGED vars
  BY <1>1 DEF vars, Inv, TypeOK, RowInv, WriterInv, ProgressInv, EngineInv, Settled, Current
<1>2. ASSUME NEW e \in Execs, (\E p \in BOOLEAN : Start(e, p)) \/ EngineStep(e) PROVE Inv'
  BY <1>2, StartKeepsInv, EngineKeepsInv
<1>3. ASSUME NEW h \in Hosts, Crash(h) PROVE Inv'
  BY <1>3, CrashKeepsInv
<1>4. ASSUME NEW s \in Sessions, SessionStep(s) PROVE Inv'
  BY <1>4, SessionKeepsInv
<1>5. ASSUME NEW r \in RunIds, AnnotatorStep(r) PROVE Inv'
  BY <1>5, AnnotatorKeepsInv
<1> QED
  BY <1>1, <1>2, <1>3, <1>4, <1>5 DEF Next

\* Inv is an invariant of the system: whatever the number of executions,
\* runs, browser sessions, summary requests, crashes and failing repository
\* calls, and in whatever order their steps come.
THEOREM Invariance == Spec => []Inv
  BY InitInv, StepKeepsInv, PTL DEF Spec

\* The variables keep their types; the attempts of _run_with_retry stay
\* within their limit.
THEOREM TypeCorrect == Spec => []TypeOK
<1>1. Inv => TypeOK
  BY DEF Inv
<1> QED
  BY <1>1, Invariance, PTL

\* A row that carries a return code has the status that code means.
THEOREM StatusMatchesReturncode == Spec => []RowMatchesResult
<1>1. Inv => RowMatchesResult
  BY DEF Inv, RowInv, RowMatchesResult
<1> QED
  BY <1>1, Invariance, PTL

\* A result reported as saved stays in the row or is marked as orphaned.
THEOREM SavedResults == Spec => []SavedResultSurvives
<1>1. Inv => SavedResultSurvives
  BY DEF Inv, RowInv, Settled, SavedResultSurvives
<1> QED
  BY <1>1, Invariance, PTL

\* A row left RUNNING by an execution that ended is reported by its exit code.
THEOREM StuckRows == Spec => []StuckRowIsReported
<1>1. Inv => StuckRowIsReported
  <2> SUFFICES ASSUME Inv, NEW r \in RunIds, db[r].status = "RUNNING", pc[r[1]] = "done",
                      result[r] # "none"
               PROVE  ExitCode(r[1]) = 3
    BY DEF StuckRowIsReported
  <2>1. r[1] \in Execs /\ r[2] \in 1..NumRuns[r[1]] /\ r \in RunsOf(r[1])
    BY RunIdsPairs DEF RunsOf
  <2>2. RowInv(r) /\ ProgressInv(r) /\ EngineInv(r[1]) /\ cur[r[1]] \in Nat /\ NumRuns[r[1]] \in Nat
    BY <2>1, RunIdsPairs DEF Inv, TypeOK
  <2>3. db[r] # NoRow
    BY RowEffects
  <2>4. persist[r[1]]
    BY <2>2, <2>3 DEF ProgressInv
  <2>5. sync[r].db # "success"
    BY <2>2 DEF RowInv, Settled, Closed
  <2>6. sync[r].db # "none" \/ infra[r[1]]
    BY <2>1, <2>2, <2>4 DEF ProgressInv, EngineInv
  <2>7. infra[r[1]] \/ HasSyncFailure(r[1])
    BY <2>1, <2>5, <2>6 DEF HasSyncFailure
  <2> QED
    BY <2>7 DEF ExitCode, classify_exit_code
<1> QED
  BY <1>1, Invariance, PTL

\* Exit code 0 means that every run that produced a result passed, was saved
\* and left its mark in the table.
THEOREM GreenSummary == Spec => []GreenSummaryIsBacked
<1>1. Inv => GreenSummaryIsBacked
  <2> SUFFICES ASSUME Inv, NEW e \in Execs, pc[e] = "done", ExitCode(e) = 0
               PROVE  /\ AggregateReturncode(e) = 0 /\ FailureType(e) = "null"
                      /\ persist[e] => \A r \in RunsOf(e) : result[r] # "none" =>
                             /\ sync[r].db = "success" /\ sync[r].artifact # "failed"
                             /\ db[r].status = "COMPLETED" \/ db[r].orphaned
    BY DEF GreenSummaryIsBacked
  <2>1. RunsOf(e) \subseteq RunIds
    BY DEF RunIds
  <2>2. ReturnCodes(e) \subseteq ReturnCode
    BY <2>1 DEF Inv, TypeOK, ReturnCodes
  <2>3. ~infra[e] /\ ~HasSyncFailure(e)
    BY DEF ExitCode, classify_exit_code
  <2>4. classify_exit_code(ReturnCodes(e), infra[e]) = 0
    BY <2>3 DEF ExitCode
  <2>5. ReturnCodes(e) # {} /\ "infra" \notin ReturnCodes(e) /\ "nonzero" \notin ReturnCodes(e)
    BY <2>3, <2>4 DEF classify_exit_code
  <2>6. ReturnCodes(e) = {"zero"}
    BY <2>2, <2>5 DEF ReturnCode
  <2>7. AggregateReturncode(e) = 0 /\ FailureType(e) = "null"
    BY <2>3, <2>6 DEF AggregateReturncode, FailureType
  <2>8. ASSUME persist[e], NEW r \in RunsOf(e), result[r] # "none"
        PROVE  /\ sync[r].db = "success" /\ sync[r].artifact # "failed"
               /\ db[r].status = "COMPLETED" \/ db[r].orphaned
    <3>1. r \in RunIds /\ r[1] = e /\ r[2] \in 1..NumRuns[e] /\ cur[e] \in Nat /\ NumRuns[e] \in Nat
      BY <2>1, RunIdsPairs DEF RunsOf, Inv, TypeOK
    <3>2. RowInv(r) /\ ProgressInv(r) /\ EngineInv(e)
      BY <3>1 DEF Inv
    <3>3. sync[r].db # "none"
      BY <2>3, <2>8, <3>1, <3>2 DEF ProgressInv, EngineInv
    <3>4. sync[r].db = "success" /\ sync[r].artifact # "failed"
      BY <2>3, <3>3 DEF HasSyncFailure
    <3>5. result[r] = "zero"
      BY <2>6, <2>8 DEF ReturnCodes
    <3> QED
      BY <3>2, <3>4, <3>5 DEF RowInv, Settled, FinalStatus
  <2> QED
    BY <2>7, <2>8
<1> QED
  BY <1>1, Invariance, PTL

\* One transaction that leaves the missing rows missing and writes terminal
\* statuses only is a step of RunTable.
LEMMA ClosingStep ==
    ASSUME TypeOK, TypeOK',
           \A r \in RunIds : db'[r].status # db[r].status => db[r] # NoRow /\ Closed(db'[r])
    PROVE  Table!Close
<1>1. \A r \in RunIds : db[r].status \in {"absent", "RUNNING", "COMPLETED", "FAILED"}
                        /\ db'[r].status \in {"absent", "RUNNING", "COMPLETED", "FAILED"}
                        /\ (db[r] # NoRow => db[r].status # "absent")
  BY DEF TypeOK, Row, NoRow
<1> QED
  BY <1>1 DEF Table!Close, Table!Terminal, Closed

\* Every step of the system is a step of RunTable or leaves the statuses alone.
LEMMA StepRefines == Inv /\ Inv' /\ [Next]_vars => [Table!Next]_[r \in RunIds |-> db[r].status]
<1> SUFFICES ASSUME Inv, Inv', [Next]_vars, db' # db
             PROVE  Table!Next
  OBVIOUS
<1>1. TypeOK /\ TypeOK'
  BY DEF Inv
<1>2. ASSUME NEW e \in Execs, EngineStep(e) PROVE Table!Next
  <2>1. PICK row \in Row : /\ Current(e) \in RunIds
                           /\ db' = [db EXCEPT ![Current(e)] = row]
                           /\ \/ row = NewRow /\ db[Current(e)] = NoRow
                              \/ Closed(row) /\ db[Current(e)] # NoRow
    BY <1>2, EngineRows DEF RowChange
  <2>2. CASE row = NewRow /\ db[Current(e)] = NoRow
    <3>1. PICK c \in RunIds : c = Current(e)
      BY <2>1
    <3>2. /\ db[c].status = "absent" /\ db'[c].status = "RUNNING"
          /\ \A r \in RunIds \ {c} : db'[r] = db[r]
      BY <1>1, <2>1, <2>2, <3>1, RowEffects DEF TypeOK
    <3>3. [r \in RunIds |-> db'[r].status]
            = [[r \in RunIds |-> db[r].status] EXCEPT ![c] = "RUNNING"]
      BY <3>2
    <3>4. Table!Open(c)
      BY <3>2, <3>3 DEF Table!Open
    <3> QED
      BY <3>4 DEF Table!Next
  <2>3. CASE Closed(row) /\ db[Current(e)] # NoRow
    BY <1>1, <2>1, <2>3, ClosingStep DEF Table!Next, TypeOK
  <2> QED
    BY <2>1, <2>2, <2>3
<1>3. ASSUME NEW s \in Sessions, SessionStep(s) PROVE Table!Next
  <2>1. MarkOrphaned(s)
    BY <1>3 DEF SessionStep, ListRunning, MarkOrphanedFails
  <2>2. ASSUME NEW r \in RunIds, db'[r].status # db[r].status PROVE db[r] # NoRow /\ Closed(db'[r])
    <3>1. snap[s][r] = NewRow /\ db[r] # NoRow /\ db'[r] = Orphaned(NewRow)
      BY <2>1, <2>2 DEF MarkOrphaned, Inv, WriterInv
    <3> QED
      BY <3>1, RowEffects DEF Closed
  <2> QED
    BY <1>1, <2>2, ClosingStep DEF Table!Next
<1>4. ASSUME NEW a \in RunIds, AnnotatorStep(a) PROVE Table!Next
  <2>1. PutRow(a)
    BY <1>4 DEF AnnotatorStep, CheckRun, GetRow, GiveUp
  <2>2. Settled(a, ann[a].row) /\ Settled(a, db[a]) /\ ann[a].row \in Row \cup {NoRow}
    BY <1>1, <2>1 DEF PutRow, Inv, WriterInv, TypeOK
  <2>3. ann[a].row \in Row /\ db[a] # NoRow
    BY <2>2, RowEffects DEF Settled, Closed
  <2>4. Closed([ann[a].row EXCEPT !.ai = TRUE])
    BY <2>2, <2>3, RowEffects DEF Settled, Closed
  <2>5. \A r \in RunIds : db'[r].status # db[r].status => db[r] # NoRow /\ Closed(db'[r])
    BY <1>1, <2>1, <2>3, <2>4 DEF PutRow, TypeOK
  <2> QED
    BY <1>1, <2>5, ClosingStep DEF Table!Next
<1>5. (\E e \in Execs : EngineStep(e)) \/ (\E s \in Sessions : SessionStep(s))
        \/ (\E a \in RunIds : AnnotatorStep(a))
  BY DEF Next, Start, Crash, vars
<1> QED
  BY <1>2, <1>3, <1>4, <1>5

\* The table keeps the promise of RunTable: rows open RUNNING, close, and
\* never run again, whichever writer comes last.
THEOREM TableRefinement == Spec => RefinesRunTable
<1>1. Init => Table!Init
  BY DEF Init, Table!Init, NoRow
<1>2. Inv /\ Inv' /\ [Next]_vars => [Table!Next]_[r \in RunIds |-> db[r].status]
  BY StepRefines
<1> QED
  BY <1>1, <1>2, Invariance, PTL DEF Spec, RefinesRunTable, Table!Spec
=============================================================================
