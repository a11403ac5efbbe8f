--------------------------- MODULE CycleExecution ---------------------------
(***************************************************************************)
(* Cycle executions of the REST API: CycleExecutionManager starts at most  *)
(* one execution of a cycle at a time; the thread _run_execution appends   *)
(* its events to events.ndjson, and every GET .../events stream tails that *)
(* file, from the offset recorded when the execution was set up, until the *)
(* execution is done.  Successive executions of the cycle append to the    *)
(* same file.  The routes always pass ci=True.                             *)
(*                                                                         *)
(* An append is one flushed write of one line, taken as atomic.  A plan    *)
(* that is to be run fails before its first stage: _apply_workers_override *)
(* reads plan.tags, and Plan has no such field.  The code after that call  *)
(* (run_plan, the reporters, the archive) is not reached.                  *)
(***************************************************************************)
EXTENDS Naturals, Sequences

CONSTANTS
    Execs,       \* executions that are requested for the cycle
    Clients,     \* clients of the event streams
    Overridden   \* the executions whose request overrides artifacts_root

ASSUME OverriddenAssumption == Overridden \subseteq Execs

None == "none"
ASSUME ExecsAssumption == None \notin Execs

Files == {"default", "override"}
File(x) == IF x \in Overridden THEN "override" ELSE "default"

Terminal == {"plan_finished", "error"}
Line == [event : {"cycle_trigger"} \cup Terminal, by : Execs]

VARIABLES
    file,      \* file[f]: the lines of events.ndjson under artifacts root f
    active,    \* _active_by_cycle of the cycle
    pc,        \* pc[x]: control state of the thread of x
    status,    \* status[x]: state.status, "absent" before create_execution
    done,      \* done[x]: state.done
    path,      \* path[x]: state.events_path, None until it is set
    start,     \* start[x]: state.events_start_offset_bytes, in lines
    stream,    \* stream[c]: control state of the tailing generator of c
    of,        \* of[c]: the execution the stream of c is for
    from,      \* from[c]: the file it reads and where it began to read
    got        \* got[c]: the lines it has sent

workerVars == <<file, active, pc, status, done, path, start>>
streamVars == <<stream, of, from, got>>
vars == <<workerVars, streamVars>>

PcValues == {"absent", "queued", "loading", "gate", "resting", "raising", "failed",
             "finished", "releasing", "over"}

TypeOK ==
    /\ file \in [Files -> Seq(Line)]
    /\ active \in Execs \cup {None}
    /\ pc \in [Execs -> PcValues]
    /\ status \in [Execs -> {"absent", "queued", "running", "completed", "failed"}]
    /\ done \in [Execs -> BOOLEAN]
    /\ path \in [Execs -> Files \cup {None}]
    /\ start \in [Execs -> Nat]
    /\ stream \in [Clients -> {"none", "reading", "checking", "window", "closed", "gone"}]
    /\ of \in [Clients -> Execs \cup {None}]
    /\ from \in [Clients -> [file : Files \cup {None}, at : Nat]]
    /\ got \in [Clients -> Seq(Line)]

Init ==
    /\ file = [f \in Files |-> <<>>]
    /\ active = None
    /\ pc = [x \in Execs |-> "absent"]
    /\ status = [x \in Execs |-> "absent"]
    /\ done = [x \in Execs |-> FALSE]
    /\ path = [x \in Execs |-> None]
    /\ start = [x \in Execs |-> 0]
    /\ stream = [c \in Clients |-> "none"]
    /\ of = [c \in Clients |-> None]
    /\ from = [c \in Clients |-> [file |-> None, at |-> 0]]
    /\ got = [c \in Clients |-> <<>>]

-----------------------------------------------------------------------------
(* create_execution                                                        *)

\* Mutant: the registration does not look at the active execution.
CreateUnchecked(x) ==
    /\ pc[x] = "absent"
    /\ active' = x
    /\ pc' = [pc EXCEPT ![x] = "queued"]
    /\ status' = [status EXCEPT ![x] = "queued"]
    /\ UNCHANGED <<file, done, path, start, streamVars>>

\* Check and registration in one critical section of _states_lock; while an
\* execution of the cycle is active the route answers 409.
Create(x) ==
    /\ pc[x] = "absent"
    /\ active = None
    /\ active' = x
    /\ pc' = [pc EXCEPT ![x] = "queued"]
    /\ status' = [status EXCEPT ![x] = "queued"]
    /\ UNCHANGED <<file, done, path, start, streamVars>>

-----------------------------------------------------------------------------
(* _run_execution                                                          *)

Begin(x) ==
    /\ pc[x] = "queued"
    /\ status' = [status EXCEPT ![x] = "running"]
    /\ pc' = [pc EXCEPT ![x] = "loading"]
    /\ UNCHANGED <<file, active, done, path, start, streamVars>>

\* The configuration, the plan or its stages do not load, or the artifacts
\* directory cannot be made: events_path stays None.
LoadFails(x) ==
    /\ pc[x] = "loading"
    /\ pc' = [pc EXCEPT ![x] = "raising"]
    /\ UNCHANGED <<file, active, status, done, path, start, streamVars>>

\* Mutant: the offset is not recorded.
SetUpFromZero(x) ==
    /\ pc[x] = "loading"
    /\ path' = [path EXCEPT ![x] = File(x)]
    /\ pc' = [pc EXCEPT ![x] = "gate"]
    /\ UNCHANGED <<file, active, status, done, start, streamVars>>

\* The size of the file is the offset; path and offset are published together.
SetUp(x) ==
    /\ pc[x] = "loading"
    /\ path' = [path EXCEPT ![x] = File(x)]
    /\ start' = [start EXCEPT ![x] = Len(file[File(x)])]
    /\ pc' = [pc EXCEPT ![x] = "gate"]
    /\ UNCHANGED <<file, active, status, done, streamVars>>

append(x, event) == file' = [file EXCEPT ![path[x]] = Append(@, [event |-> event, by |-> x])]

\* The trigger rests: cycle_trigger is written, plan_finished will be.
Rest(x) ==
    /\ pc[x] = "gate"
    /\ append(x, "cycle_trigger")
    /\ pc' = [pc EXCEPT ![x] = "resting"]
    /\ UNCHANGED <<active, status, done, path, start, streamVars>>

\* The trigger is activated (its event is written), or there is none or
\* force is set (it is not); reading plan.tags raises.
RunPlan(x, triggered) ==
    /\ pc[x] = "gate"
    /\ IF triggered THEN append(x, "cycle_trigger") ELSE UNCHANGED file
    /\ pc' = [pc EXCEPT ![x] = "raising"]
    /\ UNCHANGED <<active, status, done, path, start, streamVars>>

\* The evaluation of the trigger, or an append, raises.
GateFails(x) ==
    /\ pc[x] \in {"gate", "resting"}
    /\ pc' = [pc EXCEPT ![x] = "raising"]
    /\ UNCHANGED <<file, active, status, done, path, start, streamVars>>

\* Mutant: a resting execution returns without its plan_finished.
FinishSilently(x) ==
    /\ pc[x] = "resting"
    /\ pc' = [pc EXCEPT ![x] = "finished"]
    /\ UNCHANGED <<file, active, status, done, path, start, streamVars>>

\* The minimal plan_finished of a resting trigger.
FinishResting(x) ==
    /\ pc[x] = "resting"
    /\ append(x, "plan_finished")
    /\ pc' = [pc EXCEPT ![x] = "finished"]
    /\ UNCHANGED <<active, status, done, path, start, streamVars>>

\* except: an error event when there is a file; a failing append is ignored.
ErrorEvent(x, written) ==
    /\ pc[x] = "raising"
    /\ IF path[x] # None /\ written THEN append(x, "error") ELSE UNCHANGED file
    /\ pc' = [pc EXCEPT ![x] = "failed"]
    /\ UNCHANGED <<active, status, done, path, start, streamVars>>

mark_done(x) ==
    /\ pc[x] \in {"finished", "failed"}
    /\ status' = [status EXCEPT ![x] = IF pc[x] = "finished" THEN "completed" ELSE "failed"]
    /\ done' = [done EXCEPT ![x] = TRUE]
    /\ pc' = [pc EXCEPT ![x] = "releasing"]
    /\ UNCHANGED <<file, active, path, start, streamVars>>

\* Mutant: no finally clause.
KeepSlot(x) ==
    /\ pc[x] = "releasing"
    /\ pc' = [pc EXCEPT ![x] = "over"]
    /\ UNCHANGED <<file, active, status, done, path, start, streamVars>>

\* finally: the slot of the cycle is freed if it is still held by x.
Release(x) ==
    /\ pc[x] = "releasing"
    /\ active' = IF active = x THEN None ELSE active
    /\ pc' = [pc EXCEPT ![x] = "over"]
    /\ UNCHANGED <<file, status, done, path, start, streamVars>>

-----------------------------------------------------------------------------
(* The route GET /cycle-executions/{id}/events and its generator           *)

\* Before events_path is set the stream falls back on the default file of
\* the cycle, whatever the request overrides, and on offset 0.
Connect(c, x) ==
    /\ status[x] # "absent"
    /\ stream[c] = "none"
    /\ of' = [of EXCEPT ![c] = x]
    /\ from' = [from EXCEPT ![c] = [file |-> IF path[x] = None THEN "default" ELSE path[x],
                                    at |-> start[x]]]
    /\ stream' = [stream EXCEPT ![c] = "reading"]
    /\ UNCHANGED <<workerVars, got>>

Position(c) == from[c].at + Len(got[c])
Tailed(c) == file[from[c].file]

ReadLine(c) ==
    /\ stream[c] = "reading"
    /\ Position(c) < Len(Tailed(c))
    /\ got' = [got EXCEPT ![c] = Append(@, Tailed(c)[Position(c) + 1])]
    /\ UNCHANGED <<workerVars, stream, of, from>>

EndOfFile(c) ==
    /\ stream[c] = "reading"
    /\ Position(c) >= Len(Tailed(c))
    /\ stream' = [stream EXCEPT ![c] = "checking"]
    /\ UNCHANGED <<workerVars, of, from, got>>

\* is_done(): else a keep-alive, a sleep, and the next read.
CheckDone(c) ==
    /\ stream[c] = "checking"
    /\ stream' = [stream EXCEPT ![c] = IF done[of[c]] THEN "window" ELSE "reading"]
    /\ UNCHANGED <<workerVars, of, from, got>>

\* After the sleep: is_done() once more, and return.
Close(c) ==
    /\ stream[c] = "window"
    /\ stream' = [stream EXCEPT ![c] = "closed"]
    /\ UNCHANGED <<workerVars, of, from, got>>

Disconnect(c) ==
    /\ stream[c] \in {"reading", "checking"}
    /\ stream' = [stream EXCEPT ![c] = "gone"]
    /\ UNCHANGED <<workerVars, of, from, got>>

-----------------------------------------------------------------------------
WorkerStep(x) ==
    \/ Begin(x) \/ LoadFails(x) \/ SetUp(x)
    \/ Rest(x) \/ GateFails(x) \/ FinishResting(x)
    \/ \E triggered \in BOOLEAN : RunPlan(x, triggered)
    \/ \E written \in BOOLEAN : ErrorEvent(x, written)
    \/ mark_done(x) \/ Release(x)

StreamStep(c) == ReadLine(c) \/ EndOfFile(c) \/ CheckDone(c) \/ Close(c)

Next ==
    \/ \E x \in Execs : Create(x) \/ WorkerStep(x)
    \/ \E c \in Clients : (\E x \in Execs : Connect(c, x)) \/ StreamStep(c) \/ Disconnect(c)

Spec == Init /\ [][Next]_vars

\* Worker threads and connected streams are scheduled; requests are not
\* promised.
FairSpec ==
    /\ Spec
    /\ \A x \in Execs : WF_vars(WorkerStep(x))
    /\ \A c \in Clients : WF_vars(StreamStep(c))

-----------------------------------------------------------------------------
(* Properties                                                              *)

Working == {x \in Execs : pc[x] \notin {"absent", "over"}}

\* Two threads never work on the cycle, and write its file, at the same time.
OneThreadPerCycle == Working \subseteq {active}

\* A stream that knew its file when it began sends its own execution first:
\* nothing older, and lines of the next execution of the cycle only after all
\* of its own, when a slow client is still reading as that one begins.
OwnLinesFirst ==
    \A c \in Clients : stream[c] # "none" /\ from[c] = [file |-> path[of[c]], at |-> start[of[c]]] =>
        \A j \in DOMAIN got[c] :
            /\ got[c][j].by = of[c] => \A i \in 1..j : got[c][i].by = of[c]
            /\ got[c][j].by # of[c] => done[of[c]]

\* The lines of one execution are contiguous in its file, at most two, begin
\* at the recorded offset, and end with a terminal event if it completed.
LinesAreGrouped ==
    \A x \in Execs : path[x] # None =>
        LET mine == {i \in DOMAIN file[path[x]] : file[path[x]][i].by = x}
        IN  /\ \A i \in mine : start[x] < i /\ i <= start[x] + 2
            /\ \A i \in mine : i > start[x] + 1 => i - 1 \in mine
            /\ status[x] = "completed" =>
                   \E i \in mine : file[path[x]][i].event = "plan_finished"

\* The types, with the lines of an execution in its file.
Inv == TypeOK /\ LinesAreGrouped

\* Every execution ends and gives its slot back, so that the cycle can run
\* again; every stream ends.
SlotIsReleased == \A x \in Execs : active = x ~> active # x
StreamsEnd == \A c \in Clients : stream[c] = "reading" ~> stream[c] \in {"closed", "gone"}
EverythingEnds == SlotIsReleased /\ StreamsEnd
=============================================================================
