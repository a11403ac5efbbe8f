---------------------------- MODULE PlanExecution ----------------------------
(***************************************************************************)
(* run_plan: the stages of a plan one after the other, each a subprocess   *)
(* whose output a reader thread drains into a LogBuffer while the main     *)
(* thread waits for the process, terminates it on timeout, and gives the   *)
(* reader two seconds to reach the end of the output.  Processes that the  *)
(* stage forked may hold the pipe after the stage process is gone; then    *)
(* the reader of a stage outlives the stage.                               *)
(*                                                                         *)
(* Output is a sequence of chunks, numbered per stage; one read returns    *)
(* one chunk, and a write to run.log takes it whole or raises.  run.log is *)
(* opened for appending: what an earlier invocation, or an earlier stage   *)
(* of the same name, left in it stays in front, as chunks numbered 0.  A   *)
(* reader whose read or write raises an OSError ends, and nothing is told. *)
(*                                                                         *)
(* A return code is "zero", "infra" (124 and 127), "positive" (any other)  *)
(* or "negative" (killed by a signal, or -1).  The lines of events.ndjson  *)
(* are those of the renderer without the chunks.  The persistence          *)
(* backends, which swallow their failures, are left out.                   *)
(***************************************************************************)
EXTENDS Naturals, Sequences, SequencesExt

CONSTANTS
    NumStages,   \* stages of the plan
    Timed,       \* the stages that have a timeout_s
    Forking,     \* the stages whose process may leave descendants
    Streaming,   \* renderer.wants_streaming
    Ring,        \* chunks that the ring buffer holds
    Earlier,     \* Earlier[s]: chunks in run.log before stage s opens it
    MaxChunks    \* MaxChunks[s]: bound on the chunks that stage s writes

ASSUME NumStagesAssumption == NumStages \in Nat \ {0}
ASSUME TimedAssumption == Timed \subseteq 1..NumStages
ASSUME ForkingAssumption == Forking \subseteq 1..NumStages
ASSUME StreamingAssumption == Streaming \in BOOLEAN
ASSUME RingAssumption == Ring \in Nat \ {0}

Stages == 1..NumStages

ASSUME EarlierAssumption == Earlier \in [Stages -> Nat]
ASSUME MaxChunksAssumption == MaxChunks \in [Stages -> Nat]

ReturnCode == {"zero", "infra", "positive", "negative"}
Shown == {"stage_started", "chunk", "stage_finished"}

VARIABLES
    pc,        \* control state of run_plan and of the run_stage it is in
    stage,     \* idx, the stage run_plan is at
    returncode,  \* returncode[s]: of the StageResult of s, or "none"
    timedOut,  \* timedOut[s]: timed_out of the StageResult
    tail,      \* tail[s]: output_tail of the StageResult
    exitCode,  \* exit_code of the PlanResult, 9 before there is one
    shown,     \* shown[s]: what the renderer has been given of stage s
    proc,      \* proc[s]: the stage process
    code,      \* code[s]: what the process exited with
    forked,    \* forked[s]: descendants of the process hold the pipe
    written,   \* written[s]: chunks written into the pipe
    reader,    \* reader[s]: control state of the reader thread
    read,      \* read[s]: chunks it has read
    log,       \* log[s]: the chunks in run.log
    ring,      \* ring[s]: the chunks in the ring buffer
    closed     \* closed[s]: LogBuffer._closed

planVars == <<pc, stage, returncode, timedOut, tail, exitCode>>
procVars == <<proc, code, forked, written>>
readerVars == <<reader, read, log, ring>>
vars == <<planVars, shown, procVars, readerVars, closed>>

TypeOK ==
    /\ pc \in {"idle", "starting", "launching", "waiting", "terminating", "grace", "reaping",
               "joining", "tailing", "closing", "finishing", "classifying", "over", "raised"}
    /\ stage \in Stages
    /\ returncode \in [Stages -> ReturnCode \cup {"none"}]
    /\ timedOut \in [Stages -> BOOLEAN]
    /\ tail \in [Stages -> Seq(Nat)]
    /\ exitCode \in {0, 1, 3, 9}
    /\ shown \in [Stages -> Seq(Shown)]
    /\ proc \in [Stages -> {"none", "running", "signalled", "killed", "exited"}]
    /\ code \in [Stages -> ReturnCode \cup {"none"}]
    /\ forked \in [Stages -> BOOLEAN]
    /\ written \in [Stages -> Nat]
    /\ reader \in [Stages -> {"none", "reading", "feeding", "calling", "ended", "broken"}]
    /\ read \in [Stages -> Nat]
    /\ log \in [Stages -> Seq(Nat)]
    /\ ring \in [Stages -> Seq(Nat)]
    /\ closed \in [Stages -> BOOLEAN]

Init ==
    /\ pc = "idle"
    /\ stage = 1
    /\ returncode = [s \in Stages |-> "none"]
    /\ timedOut = [s \in Stages |-> FALSE]
    /\ tail = [s \in Stages |-> <<>>]
    /\ exitCode = 9
    /\ shown = [s \in Stages |-> <<>>]
    /\ proc = [s \in Stages |-> "none"]
    /\ code = [s \in Stages |-> "none"]
    /\ forked = [s \in Stages |-> FALSE]
    /\ written = [s \in Stages |-> 0]
    /\ reader = [s \in Stages |-> "none"]
    /\ read = [s \in Stages |-> 0]
    /\ log = [s \in Stages |-> [i \in 1..Earlier[s] |-> 0]]
    /\ ring = [s \in Stages |-> <<>>]
    /\ closed = [s \in Stages |-> FALSE]

-----------------------------------------------------------------------------
(* The main thread: run_plan and run_stage                                 *)

handle(event, s) == shown' = [shown EXCEPT ![s] = Append(@, event)]

StartPlan ==
    /\ pc = "idle"
    /\ pc' = "starting"
    /\ UNCHANGED <<stage, returncode, timedOut, tail, exitCode, shown, procVars, readerVars, closed>>

StartStage ==
    /\ pc = "starting"
    /\ handle("stage_started", stage)
    /\ pc' = "launching"
    /\ UNCHANGED <<stage, returncode, timedOut, tail, exitCode, procVars, readerVars, closed>>

\* The LogBuffer is opened, the process and the reader thread start.
Launch(forks) ==
    /\ pc = "launching"
    /\ forks => stage \in Forking
    /\ proc' = [proc EXCEPT ![stage] = "running"]
    /\ forked' = [forked EXCEPT ![stage] = forks]
    /\ reader' = [reader EXCEPT ![stage] = "reading"]
    /\ pc' = "waiting"
    /\ UNCHANGED <<stage, returncode, timedOut, tail, exitCode, shown, code, written,
                   read, log, ring, closed>>

\* FileNotFoundError gives 127; whatever else raises before there is a
\* process becomes the internal failure result of run_plan, with 4.
LaunchFails(rc) ==
    /\ pc = "launching"
    /\ returncode' = [returncode EXCEPT ![stage] = rc]
    /\ closed' = [closed EXCEPT ![stage] = TRUE]
    /\ pc' = "finishing"
    /\ UNCHANGED <<stage, timedOut, tail, exitCode, shown, procVars, readerVars>>

\* wait() returns the code of the process: of the stage, of the terminated
\* process within the grace period, or of the killed one.
Collect ==
    /\ pc \in {"waiting", "grace", "reaping"}
    /\ proc[stage] = "exited"
    /\ returncode' = [returncode EXCEPT ![stage] = code[stage]]
    /\ pc' = "joining"
    /\ UNCHANGED <<stage, timedOut, tail, exitCode, shown, procVars, readerVars, closed>>

TimesOut ==
    /\ pc = "waiting"
    /\ stage \in Timed
    /\ proc[stage] # "exited"
    /\ timedOut' = [timedOut EXCEPT ![stage] = TRUE]
    /\ pc' = "terminating"
    /\ UNCHANGED <<stage, returncode, tail, exitCode, shown, procVars, readerVars, closed>>

\* send_signal(SIGTERM) does nothing to a process that has just exited.
Terminate ==
    /\ pc = "terminating"
    /\ proc' = [proc EXCEPT ![stage] = IF @ = "exited" THEN @ ELSE "signalled"]
    /\ pc' = "grace"
    /\ UNCHANGED <<stage, returncode, timedOut, tail, exitCode, shown, code, forked,
                   written, readerVars, closed>>

\* The signal cannot be sent (OSError): _terminate returns -1.
SignalFails ==
    /\ pc = "terminating"
    /\ proc[stage] # "exited"
    /\ returncode' = [returncode EXCEPT ![stage] = "negative"]
    /\ pc' = "joining"
    /\ UNCHANGED <<stage, timedOut, tail, exitCode, shown, procVars, readerVars, closed>>

\* Mutant: no SIGKILL, the result is returned after the grace period.
NoKill ==
    /\ pc = "grace"
    /\ proc[stage] # "exited"
    /\ returncode' = [returncode EXCEPT ![stage] = "zero"]
    /\ pc' = "joining"
    /\ UNCHANGED <<stage, timedOut, tail, exitCode, shown, procVars, readerVars, closed>>

\* Mutant: wait() instead of kill() and wait().
WaitOn ==
    /\ pc = "grace"
    /\ proc[stage] # "exited"
    /\ pc' = "reaping"
    /\ UNCHANGED <<stage, returncode, timedOut, tail, exitCode, shown, procVars, readerVars, closed>>

\* The grace period is over.
Kill ==
    /\ pc = "grace"
    /\ proc[stage] # "exited"
    /\ proc' = [proc EXCEPT ![stage] = "killed"]
    /\ pc' = "reaping"
    /\ UNCHANGED <<stage, returncode, timedOut, tail, exitCode, shown, code, forked,
                   written, readerVars, closed>>

\* reader.join(timeout=2.0): the reader has ended, or the time is up.
Join ==
    /\ pc = "joining"
    /\ pc' = "tailing"
    /\ UNCHANGED <<stage, returncode, timedOut, tail, exitCode, shown, procVars, readerVars, closed>>

TakeTail ==
    /\ pc = "tailing"
    /\ tail' = [tail EXCEPT ![stage] = ring[stage]]
    /\ pc' = "closing"
    /\ UNCHANGED <<stage, returncode, timedOut, exitCode, shown, procVars, readerVars, closed>>

Close ==
    /\ pc = "closing"
    /\ closed' = [closed EXCEPT ![stage] = TRUE]
    /\ pc' = "finishing"
    /\ UNCHANGED <<stage, returncode, timedOut, tail, exitCode, shown, procVars, readerVars>>

FinishStage ==
    /\ pc = "finishing"
    /\ handle("stage_finished", stage)
    /\ IF stage < NumStages
       THEN stage' = stage + 1 /\ pc' = "starting"
       ELSE pc' = "classifying" /\ UNCHANGED stage
    /\ UNCHANGED <<returncode, timedOut, tail, exitCode, procVars, readerVars, closed>>

\* Mutant: negative return codes are not failures.
classify_positive(rcs) ==
    IF "infra" \in rcs THEN 3 ELSE IF "positive" \in rcs THEN 1 ELSE 0

\* There is at least one stage, and no infra_error.
classify_exit_code(rcs) ==
    IF "infra" \in rcs THEN 3 ELSE IF rcs # {"zero"} THEN 1 ELSE 0

FinishPlan ==
    /\ pc = "classifying"
    /\ exitCode' = classify_exit_code({returncode[s] : s \in Stages})
    /\ pc' = "over"
    /\ UNCHANGED <<stage, returncode, timedOut, tail, shown, procVars, readerVars, closed>>

\* A write to events.ndjson, or the renderer, raises: run_plan is left.
Raise ==
    /\ pc \in {"starting", "finishing", "classifying"}
    /\ pc' = "raised"
    /\ UNCHANGED <<stage, returncode, timedOut, tail, exitCode, shown, procVars, readerVars, closed>>

-----------------------------------------------------------------------------
(* The reader thread of stage s: drain_stream_into_buffer and feed         *)

Read(s) ==
    /\ reader[s] = "reading"
    /\ read[s] < written[s]
    /\ read' = [read EXCEPT ![s] = @ + 1]
    /\ reader' = [reader EXCEPT ![s] = "feeding"]
    /\ UNCHANGED <<planVars, shown, procVars, log, ring, closed>>

\* Mutant: the reader ends with the process, not with its output.
EndWithProcess(s) ==
    /\ reader[s] = "reading"
    /\ proc[s] = "exited"
    /\ reader' = [reader EXCEPT ![s] = "ended"]
    /\ UNCHANGED <<planVars, shown, procVars, read, log, ring, closed>>

\* End of file: nobody holds the pipe any more.
EndOfOutput(s) ==
    /\ reader[s] = "reading"
    /\ read[s] = written[s]
    /\ proc[s] = "exited" /\ ~forked[s]
    /\ reader' = [reader EXCEPT ![s] = "ended"]
    /\ UNCHANGED <<planVars, shown, procVars, read, log, ring, closed>>

\* Mutant: the ring is cut one chunk too late.
FeedEvictsLate(s) ==
    /\ reader[s] = "feeding"
    /\ IF closed[s]
       THEN /\ reader' = [reader EXCEPT ![s] = "reading"]
            /\ UNCHANGED <<log, ring>>
       ELSE /\ log' = [log EXCEPT ![s] = Append(@, read[s])]
            /\ ring' = [ring EXCEPT ![s] =
                           Append(IF Len(@) <= Ring THEN @ ELSE Tail(@), read[s])]
            /\ reader' = [reader EXCEPT ![s] = IF Streaming THEN "calling" ELSE "reading"]
    /\ UNCHANGED <<planVars, shown, procVars, read, closed>>

\* stream.read raises an OSError: the thread returns.
ReadFails(s) ==
    /\ reader[s] = "reading"
    /\ reader' = [reader EXCEPT ![s] = "broken"]
    /\ UNCHANGED <<planVars, shown, procVars, read, log, ring, closed>>

\* The write to run.log raises: the chunk is in neither the file nor the ring.
FeedFails(s) ==
    /\ reader[s] = "feeding"
    /\ ~closed[s]
    /\ reader' = [reader EXCEPT ![s] = "broken"]
    /\ UNCHANGED <<planVars, shown, procVars, read, log, ring, closed>>

\* feed: file and ring under the lock, nothing once the buffer is closed.
Feed(s) ==
    /\ reader[s] = "feeding"
    /\ IF closed[s]
       THEN /\ reader' = [reader EXCEPT ![s] = "reading"]
            /\ UNCHANGED <<log, ring>>
       ELSE /\ log' = [log EXCEPT ![s] = Append(@, read[s])]
            /\ ring' = [ring EXCEPT ![s] =
                           Append(IF Len(@) < Ring THEN @ ELSE Tail(@), read[s])]
            /\ reader' = [reader EXCEPT ![s] = IF Streaming THEN "calling" ELSE "reading"]
    /\ UNCHANGED <<planVars, shown, procVars, read, closed>>

\* on_chunk, after the lock is released.
Call(s) ==
    /\ reader[s] = "calling"
    /\ handle("chunk", s)
    /\ reader' = [reader EXCEPT ![s] = "reading"]
    /\ UNCHANGED <<planVars, procVars, read, log, ring, closed>>

-----------------------------------------------------------------------------
(* The processes of stage s                                                *)

Alive(s) == proc[s] \in {"running", "signalled", "killed"}

Write(s) ==
    /\ proc[s] \in {"running", "signalled"} \/ forked[s]
    /\ written[s] < MaxChunks[s]
    /\ written' = [written EXCEPT ![s] = @ + 1]
    /\ UNCHANGED <<planVars, shown, proc, code, forked, readerVars, closed>>

\* A process may also end with a code of its own while it handles SIGTERM.
Exit(s, rc) ==
    /\ Alive(s)
    /\ proc[s] = "killed" => rc = "negative"
    /\ proc' = [proc EXCEPT ![s] = "exited"]
    /\ code' = [code EXCEPT ![s] = rc]
    /\ UNCHANGED <<planVars, shown, forked, written, readerVars, closed>>

ForkedExit(s) ==
    /\ forked[s]
    /\ forked' = [forked EXCEPT ![s] = FALSE]
    /\ UNCHANGED <<planVars, shown, proc, code, written, readerVars, closed>>

-----------------------------------------------------------------------------
MainStep ==
    \/ StartStage
    \/ \E forks \in BOOLEAN : Launch(forks)
    \/ \E rc \in {"infra", "positive"} : LaunchFails(rc)
    \/ Collect \/ TimesOut \/ Terminate \/ SignalFails \/ Kill
    \/ Join \/ TakeTail \/ Close \/ FinishStage \/ FinishPlan
    \/ Raise

ReaderStep(s) ==
    \/ Read(s) \/ ReadFails(s) \/ EndOfOutput(s)
    \/ Feed(s) \/ FeedFails(s) \/ Call(s)

ProcessStep(s) == Write(s) \/ (\E rc \in ReturnCode : Exit(s, rc)) \/ ForkedExit(s)

Next == StartPlan \/ MainStep \/ \E s \in Stages : ReaderStep(s) \/ ProcessStep(s)

Spec == Init /\ [][Next]_vars

\* The threads are scheduled, and a killed process ends.  Nothing is
\* promised of the other processes: a stage may hang.
FairSpec ==
    /\ Spec
    /\ WF_vars(MainStep)
    /\ \A s \in Stages : WF_vars(ReaderStep(s)) /\ WF_vars(proc[s] = "killed" /\ Exit(s, "negative"))

-----------------------------------------------------------------------------
(* Properties                                                              *)

\* The chunks of stage s itself that run.log holds.
Own(s) == Len(log[s]) - Earlier[s]

\* After what it held before, run.log holds a beginning of the output of the
\* stage, in order, and all of it if the reader reached the end before the
\* buffer was closed.  A reader that an OSError ended, or that is still at it when
\* the plan moves on, may leave it short, whatever log_buffer.py:14-16 says of no
\* log lines being lost (README, section 6).
LogIsOutput ==
    \A s \in Stages :
        /\ \A i \in DOMAIN log[s] : log[s][i] = IF i <= Earlier[s] THEN 0 ELSE i - Earlier[s]
        /\ Own(s) \in 0..read[s]
        /\ reader[s] = "ended" /\ ~closed[s] => Own(s) = written[s]

\* The tail of a stage result is a contiguous part of the stage's own output
\* in run.log, of at most Ring chunks, that ends where the log was when the
\* tail was taken: with its last chunk, up to those the reader added before
\* the close.
TailIsInLog ==
    \A s \in Stages :
        /\ Len(tail[s]) <= Ring
        /\ \E n \in Earlier[s]..Len(log[s]) :
               IsSuffix(tail[s], SubSeq(log[s], Earlier[s] + 1, n))
        /\ tail[s] # <<>> /\ Len(tail[s]) < Ring => Head(tail[s]) = 1

Finished(s) == Contains(shown[s], "stage_finished")

\* The renderer is given the output of a stage after its start; a reader
\* that outlives its stage gets one more chunk through after stage_finished,
\* the one it held when the buffer was closed, and no second one.
OneLateChunk ==
    \A s \in Stages :
        /\ shown[s] # <<>> => Head(shown[s]) = "stage_started"
        /\ \A i \in DOMAIN shown[s] : shown[s][i] = "stage_finished" => Len(shown[s]) <= i + 1

\* The types, with what the tail of a result and the renderer's chunks are.
Inv == TypeOK /\ TailIsInLog /\ OneLateChunk

\* A stage process runs only during its stage, except one that could not be
\* signalled, whose stage has failed.
NoProcessLeftBehind ==
    \A s \in Stages : Alive(s) /\ Finished(s) =>
        timedOut[s] /\ returncode[s] = "negative"

\* A plan that exits with 0 has run all its stages, those that did not time
\* out to a return code 0 of their own process, which is no longer running.
\* Of a stage that timed out nothing is said: its process may exit with 0 when it
\* is terminated, and the plan is green then, where the documentation has it fail
\* (README, section 6).
GreenPlan ==
    exitCode = 0 => \A s \in Stages :
        /\ Finished(s)
        /\ ~timedOut[s] => proc[s] = "exited" /\ code[s] = "zero"

\* A plan ends unless it waits for a stage without a timeout.
PlanEnds ==
    []<>(pc \in {"idle", "over", "raised"} \/ (pc = "waiting" /\ stage \notin Timed /\ Alive(stage)))
=============================================================================
