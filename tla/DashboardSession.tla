-------------------------- MODULE DashboardSession --------------------------
(***************************************************************************)
(* One browser session of the Streamlit dashboard.  A click on Run starts  *)
(* a daemon thread that consumes the engine's generator and puts its       *)
(* events into a queue; the script of the page drains the queue, counts    *)
(* the results of the batch down and runs again every 0.2 s for as long as *)
(* st.session_state.running is set.                                        *)
(*                                                                         *)
(* Streamlit itself is external: while a script runs, a further event of   *)
(* the user ends it at its next access to session_state (the exception is  *)
(* no Exception, so nothing catches it) and the script starts from the     *)
(* top.  A button can be clicked as it was last drawn.                     *)
(*                                                                         *)
(* Only the events that move the session are kept in the queue: the        *)
(* results and the [UQO_DONE] markers.  Log lines, the console's buffer,   *)
(* the pushed metrics and the widgets other than Run are left out.         *)
(***************************************************************************)
EXTENDS Integers, Sequences

CONSTANTS
    MaxRuns,       \* bound on the configurations of a batch
    MaxBatches,    \* bound on the batches of the session
    MaxInterrupts  \* bound on the events of the user while a script runs

ASSUME MaxRunsAssumption == MaxRuns \in Nat
ASSUME MaxBatchesAssumption == MaxBatches \in Nat
ASSUME MaxInterruptsAssumption == MaxInterrupts \in Nat

Batches == 1..MaxBatches
NoBatch == 0

VARIABLES
    \* st.session_state
    events_q, worker,      \* the batch whose queue and thread they are
    running, run_completed,
    run_started_at,        \* "unset", "recent", or "past" the grace of 2 s
    last_result,           \* the batch of the result that is shown
    multi_run_active, multi_runs_remaining,
    \* the script of the page
    pc, clicked, q, alive, item,
    enabled,               \* how the Run button was last drawn
    interrupts,
    \* the threads and their queues
    thread, queue

session == <<events_q, worker, running, run_completed, run_started_at, last_result,
             multi_run_active, multi_runs_remaining>>
script == <<pc, clicked, q, alive, item>>
page == <<enabled, interrupts>>
threads == <<thread, queue>>
vars == <<session, script, page, threads>>

Result(b) == [kind |-> "result", batch |-> b]
Marker(b) == [kind |-> "marker", batch |-> b]
NoItem == [kind |-> "none", batch |-> NoBatch]
Event == [kind : {"result", "marker"}, batch : Batches]

\* size: configurations; ended: runs that ended; returned: those with a result.
NoThread == [pc |-> "new", size |-> 0, ended |-> 0, returned |-> 0]

IsAlive(b) == b # NoBatch /\ thread[b].pc \notin {"new", "dead"}

TypeOK ==
    /\ events_q \in Batches \cup {NoBatch} /\ worker \in Batches \cup {NoBatch}
    /\ running \in BOOLEAN /\ run_completed \in BOOLEAN
    /\ run_started_at \in {"unset", "recent", "past"}
    /\ last_result \in Batches \cup {NoBatch}
    /\ multi_run_active \in BOOLEAN /\ multi_runs_remaining \in 0..MaxRuns
    /\ pc \in {"idle", "drain", "alive", "size", "abort", "items", "apply", "applied", "render",
               "start_worker", "lock", "clock", "count", "end"}
    /\ clicked \in BOOLEAN /\ alive \in BOOLEAN
    /\ q \in Batches \cup {NoBatch}
    /\ item \in Event \cup {NoItem}
    /\ enabled \in BOOLEAN /\ interrupts \in 0..MaxInterrupts
    /\ thread \in [Batches -> [pc : {"new", "prepare", "run", "result", "marker", "record", "error",
                                     "exiting", "dead"},
                               size : 0..MaxRuns, ended : 0..MaxRuns, returned : 0..MaxRuns]]
    /\ \A b \in Batches : thread[b].returned <= thread[b].ended /\ thread[b].ended <= thread[b].size
    /\ queue \in [Batches -> Seq(Event)]

Init ==
    /\ events_q = NoBatch /\ worker = NoBatch
    /\ running = FALSE /\ run_completed = FALSE
    /\ run_started_at = "unset"
    /\ last_result = NoBatch
    /\ multi_run_active = FALSE /\ multi_runs_remaining = 0
    /\ pc = "drain"
    /\ clicked = FALSE
    /\ q = NoBatch /\ alive = FALSE /\ item = NoItem
    /\ enabled = FALSE /\ interrupts = 0
    /\ thread = [b \in Batches |-> NoThread]
    /\ queue = [b \in Batches |-> <<>>]

-----------------------------------------------------------------------------
(* The worker thread of a batch                                            *)

Put(b, e) == queue' = [queue EXCEPT ![b] = Append(@, e)]

\* An empty batch is a ConfigValidationError; a row that cannot be created an
\* InfrastructureRuntimeError.
Prepare(b) ==
    /\ thread[b].pc = "prepare"
    /\ thread[b].size > 0
    /\ thread' = [thread EXCEPT ![b].pc = "run"]
    /\ UNCHANGED <<session, script, page, queue>>

EngineRaises(b) ==
    /\ thread[b].pc = "prepare"
    /\ thread' = [thread EXCEPT ![b].pc = "error"]
    /\ UNCHANGED <<session, script, page, queue>>

\* A single run emits its marker before it returns its result.
SingleMarker(b) ==
    /\ thread[b].pc = "run" /\ thread[b].size = 1
    /\ Put(b, Marker(b))
    /\ thread' = [thread EXCEPT ![b].pc = "result"]
    /\ UNCHANGED <<session, script, page>>

\* The runs of a larger batch emit none; the batch does, after the last one.
AfterRun(b) ==
    IF thread[b].size = 1 THEN "record"
    ELSE IF thread[b].ended + 1 < thread[b].size THEN "run" ELSE "marker"

RunReturns(b) ==
    /\ thread[b].pc = IF thread[b].size = 1 THEN "result" ELSE "run"
    /\ Put(b, Result(b))
    /\ thread' = [thread EXCEPT ![b].pc = AfterRun(b), ![b].ended = @ + 1, ![b].returned = @ + 1]
    /\ UNCHANGED <<session, script, page>>

\* It leaves a line of the log at most.
RunRaises(b) ==
    /\ thread[b].pc = "run"
    /\ thread' = [thread EXCEPT ![b].pc = AfterRun(b), ![b].ended = @ + 1]
    /\ UNCHANGED <<session, script, page, queue>>

AggregateMarker(b) ==
    /\ thread[b].pc = "marker"
    /\ Put(b, Marker(b))
    /\ thread' = [thread EXCEPT ![b].pc = "record"]
    /\ UNCHANGED <<session, script, page>>

\* The results are recorded and the generator returns its summary.
Summarize(b) ==
    /\ thread[b].pc = "record"
    /\ IF thread[b].returned = 0 THEN Put(b, Marker(b)) ELSE UNCHANGED queue
    /\ thread' = [thread EXCEPT ![b].pc = "exiting"]
    /\ UNCHANGED <<session, script, page>>

ReportError(b) ==
    /\ thread[b].pc = "error"
    /\ Put(b, Marker(b))
    /\ thread' = [thread EXCEPT ![b].pc = "exiting"]
    /\ UNCHANGED <<session, script, page>>

Exit(b) ==
    /\ thread[b].pc = "exiting"
    /\ thread' = [thread EXCEPT ![b].pc = "dead"]
    /\ UNCHANGED <<session, script, page, queue>>

Worker(b) ==
    \/ Prepare(b) \/ EngineRaises(b) \/ SingleMarker(b) \/ RunReturns(b) \/ RunRaises(b)
    \/ AggregateMarker(b) \/ Summarize(b) \/ ReportError(b) \/ Exit(b)

-----------------------------------------------------------------------------
(* The script: _drain_events                                               *)

GoTo(label) == pc' = label

BeginDrain ==
    /\ pc = "drain"
    /\ q' = events_q
    /\ GoTo(IF events_q = NoBatch THEN "render" ELSE "alive")
    /\ UNCHANGED <<session, clicked, alive, item, page, threads>>

\* worker.is_alive() is read first ...
ReadAlive ==
    /\ pc = "alive"
    /\ alive' = IsAlive(worker)
    /\ GoTo("size")
    /\ UNCHANGED <<session, clicked, q, item, page, threads>>

\* Mutant: the safety net does not look at the queue.
ShouldAbortDead == running /\ ~alive /\ run_started_at = "past"

ShouldAbort == running /\ ~alive /\ queue[q] = <<>> /\ run_started_at = "past"

\* Mutant: there is no safety net.
ReadSizeOnly ==
    /\ pc = "size"
    /\ alive' = FALSE
    /\ GoTo("items")
    /\ UNCHANGED <<session, clicked, q, item, page, threads>>

\* ... and the size of the queue after it.
ReadSize ==
    /\ pc = "size"
    /\ alive' = FALSE
    /\ GoTo(IF ShouldAbort THEN "abort" ELSE "items")
    /\ UNCHANGED <<session, clicked, q, item, page, threads>>

Abort ==
    /\ pc = "abort"
    /\ running' = FALSE /\ run_completed' = TRUE
    /\ multi_run_active' = FALSE /\ multi_runs_remaining' = 0
    /\ GoTo("items")
    /\ UNCHANGED <<events_q, worker, run_started_at, last_result, clicked, q, alive, item, page,
                   threads>>

Take ==
    /\ pc = "items" /\ queue[q] # <<>>
    /\ item' = Head(queue[q])
    /\ queue' = [queue EXCEPT ![q] = Tail(@)]
    /\ GoTo("apply")
    /\ UNCHANGED <<session, clicked, q, alive, page, thread>>

Drained ==
    /\ pc = "items" /\ queue[q] = <<>>
    /\ q' = NoBatch
    /\ GoTo("render")
    /\ UNCHANGED <<session, clicked, alive, item, page, threads>>

advance_after_run_result(active, remaining) ==
    LET left == IF active /\ remaining > 0 THEN remaining - 1 ELSE 0 IN
    [running |-> left > 0, multi_runs_remaining |-> left]

\* The lock is assigned before the counter; a script may be stopped in between.
ApplyRunResult ==
    LET next == advance_after_run_result(multi_run_active, multi_runs_remaining) IN
    /\ pc = "apply" /\ item.kind = "result"
    /\ last_result' = item.batch
    /\ running' = next.running
    /\ GoTo("applied")
    /\ UNCHANGED <<events_q, worker, run_completed, run_started_at, multi_run_active,
                   multi_runs_remaining, clicked, q, alive, item, page, threads>>

CountDown ==
    LET next == advance_after_run_result(multi_run_active, multi_runs_remaining) IN
    /\ pc = "applied"
    /\ run_completed' = ~next.running
    /\ multi_run_active' = next.running
    /\ multi_runs_remaining' = next.multi_runs_remaining
    /\ item' = NoItem
    /\ GoTo("items")
    /\ UNCHANGED <<events_q, worker, running, run_started_at, last_result, clicked, q, alive, page,
                   threads>>

\* Mutant: a marker ends the batch whatever is due.
batch_never_running == FALSE

batch_still_running == multi_runs_remaining > 0

ApplyMarker ==
    /\ pc = "apply" /\ item.kind = "marker"
    /\ running' = (running /\ batch_still_running)
    /\ run_completed' = (run_completed \/ ~batch_still_running)
    /\ item' = NoItem
    /\ GoTo("items")
    /\ UNCHANGED <<events_q, worker, run_started_at, last_result, multi_run_active,
                   multi_runs_remaining, clicked, q, alive, page, threads>>

-----------------------------------------------------------------------------
(* The script: the page and the Run button                                 *)

Render ==
    /\ pc = "render" /\ ~clicked
    /\ enabled' = ~running
    /\ GoTo("end")
    /\ UNCHANGED <<session, clicked, q, alive, item, interrupts, threads>>

InvalidTarget ==
    /\ pc = "render" /\ clicked
    /\ enabled' = ~running
    /\ clicked' = FALSE
    /\ GoTo("end")
    /\ UNCHANGED <<session, q, alive, item, interrupts, threads>>

Unused == {b \in Batches : thread[b] = NoThread /\ b \notin {events_q, worker}
                           /\ \A c \in Batches : thread[c] # NoThread => c < b}

NextBatch(b) == b \in Unused /\ \A c \in Unused : b <= c

\* _start_worker_multi: a new queue, and a thread that holds it by closure.
StartQueue(b, size) ==
    /\ pc = "render" /\ clicked
    /\ NextBatch(b)
    /\ enabled' = ~running
    /\ clicked' = FALSE
    /\ events_q' = b
    /\ thread' = [thread EXCEPT ![b].size = size]
    /\ GoTo("start_worker")
    /\ UNCHANGED <<worker, running, run_completed, run_started_at, last_result, multi_run_active,
                   multi_runs_remaining, q, alive, item, interrupts, queue>>

StartWorker ==
    /\ pc = "start_worker"
    /\ worker' = events_q
    /\ GoTo("lock")
    /\ UNCHANGED <<events_q, running, run_completed, run_started_at, last_result, multi_run_active,
                   multi_runs_remaining, clicked, q, alive, item, page, threads>>

Lock ==
    /\ pc = "lock"
    /\ running' = TRUE
    /\ GoTo("clock")
    /\ UNCHANGED <<events_q, worker, run_completed, run_started_at, last_result, multi_run_active,
                   multi_runs_remaining, clicked, q, alive, item, page, threads>>

Clock ==
    /\ pc = "clock"
    /\ run_started_at' = "recent"
    /\ GoTo("count")
    /\ UNCHANGED <<events_q, worker, running, run_completed, last_result, multi_run_active,
                   multi_runs_remaining, clicked, q, alive, item, page, threads>>

CountAndStart ==
    /\ pc = "count"
    /\ last_result' = NoBatch
    /\ run_completed' = FALSE
    /\ multi_run_active' = TRUE
    /\ multi_runs_remaining' = thread[worker].size
    /\ thread' = [thread EXCEPT ![worker].pc = "prepare"]
    /\ GoTo("end")
    /\ UNCHANGED <<events_q, worker, running, run_started_at, clicked, q, alive, item, page, queue>>

\* if st.session_state.running: time.sleep(0.2); st.rerun()
EndOfScript ==
    /\ pc = "end"
    /\ GoTo(IF running THEN "drain" ELSE "idle")
    /\ UNCHANGED <<session, clicked, q, alive, item, page, threads>>

Script ==
    \/ BeginDrain \/ ReadAlive \/ ReadSize \/ Abort \/ Take \/ Drained
    \/ ApplyRunResult \/ CountDown \/ ApplyMarker
    \/ Render \/ InvalidTarget
    \/ \E b \in Batches, size \in 0..MaxRuns : StartQueue(b, size)
    \/ StartWorker \/ Lock \/ Clock \/ CountAndStart \/ EndOfScript

-----------------------------------------------------------------------------
(* The user, and the clock                                                 *)

FromTheTop(run) ==
    /\ run => enabled
    /\ clicked' = run
    /\ q' = NoBatch /\ alive' = FALSE /\ item' = NoItem
    /\ GoTo("drain")

Interact(run) ==
    /\ pc = "idle"
    /\ FromTheTop(run)
    /\ UNCHANGED <<session, page, threads>>

\* What the stopped script had taken from the queue is gone.
Interrupt(run) ==
    /\ pc # "idle"
    /\ interrupts < MaxInterrupts
    /\ interrupts' = interrupts + 1
    /\ FromTheTop(run)
    /\ UNCHANGED <<session, enabled, threads>>

GracePasses ==
    /\ run_started_at = "recent"
    /\ run_started_at' = "past"
    /\ UNCHANGED <<events_q, worker, running, run_completed, last_result, multi_run_active,
                   multi_runs_remaining, script, page, threads>>

Next ==
    \/ \E b \in Batches : Worker(b)
    \/ Script
    \/ \E run \in BOOLEAN : Interact(run) \/ Interrupt(run)
    \/ GracePasses

Spec == Init /\ [][Next]_vars

\* The browser runs the script again while the session is locked; every run of
\* the engine ends (GeneratorEnds of RunStreaming); time passes.  The user need
\* not do anything.
FairSpec ==
    /\ Spec
    /\ WF_vars(Script)
    /\ \A b \in Batches : WF_vars(Worker(b))
    /\ WF_vars(GracePasses)

-----------------------------------------------------------------------------
(* Properties                                                              *)

RunsAreOver(b) == thread[b].pc \in {"record", "error", "exiting", "dead"} \/
                  (thread[b].pc = "marker" /\ thread[b].ended = thread[b].size)

\* The session unlocks only when every run of its batch has ended: neither the
\* marker of one of its runs, nor an event of an earlier batch whose thread is
\* still going, nor the safety net lets the user start the next one before.
LockedUntilRunsAreOver ==
    (~running /\ worker # NoBatch /\ thread[worker].pc # "new") => RunsAreOver(worker)

\* The two together: the session's variables keep their types and its lock is
\* held for as long as its batch needs it.
Inv == TypeOK /\ LockedUntilRunsAreOver

\* The safety net reports a batch as aborted only if something went wrong: a run
\* of it gave no result, or the user stopped a script (and a result with it).
\* The thread may put its last result and end between two reads of the net.
AbortIsEarned ==
    [][Abort => \/ thread[worker].returned < thread[worker].size
                \/ thread[worker].size = 0
                \/ interrupts > 0]_vars

\* Whatever its runs do, and wherever the user stops a script, a session that
\* noted when its batch began is unlocked again.
SessionUnlocks == (running /\ run_started_at # "unset") ~> ~running
=============================================================================
