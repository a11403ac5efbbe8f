--------------------------- MODULE ExecutionEvents ---------------------------
(***************************************************************************)
(* One execution of the REST API: POST /executions creates its             *)
(* ExecutionState and starts the worker thread _run_execution, which       *)
(* appends what the engine yields to event_history and ends with set_done; *)
(* any number of GET .../events streams read the history while it grows,   *)
(* each from its own offset, under the lock of the state.                  *)
(*                                                                         *)
(* An event is one of "log", "run_result" and the three summaries that     *)
(* set_done tells apart: exit code 0, another exit code, and the fallback  *)
(* of the except clause.  The engine always returns an EngineSummary, so   *)
(* `stop.value is None` does not occur.  events_q is filled and never      *)
(* read; it is not modelled.                                               *)
(***************************************************************************)
EXTENDS Naturals, Sequences

CONSTANTS
    Clients,     \* clients of the event stream
    MaxEvents    \* bound on the events the engine yields

ASSUME MaxEventsAssumption == MaxEvents \in Nat

Yielded == {"log", "run_result"}
Summary == {"summary_ok", "summary_failed", "summary_error"}
Event == Yielded \cup Summary

VARIABLES
    worker,     \* control state of the thread of _run_execution
    status,     \* state.status, "absent" before the POST
    history,    \* state.event_history
    summary,    \* state.summary, by the kind of its event, or "none"
    error,      \* state.error is not None
    done,       \* state.done
    stream,     \* stream[c]: control state of the generator _event_stream of c
    offset,     \* offset[c]: its local offset
    events,     \* events[c]: its local events not yet yielded
    sawDone,    \* sawDone[c]: its local done
    got         \* got[c]: what the current stream of c has delivered

stateVars == <<status, history, summary, error, done>>
streamVars == <<stream, offset, events, sawDone, got>>
vars == <<worker, stateVars, streamVars>>

WorkerStates == {"absent", "starting", "streaming", "ending", "over"}
StreamStates == {"none", "reading", "yielding", "closed", "gone"}

TypeOK ==
    /\ worker \in WorkerStates
    /\ status \in {"absent", "queued", "running", "completed", "failed"}
    /\ history \in Seq(Event)
    /\ summary \in Summary \cup {"none"}
    /\ error \in BOOLEAN
    /\ done \in BOOLEAN
    /\ stream \in [Clients -> StreamStates]
    /\ offset \in [Clients -> Nat]
    /\ events \in [Clients -> Seq(Event)]
    /\ sawDone \in [Clients -> BOOLEAN]
    /\ got \in [Clients -> Seq(Event)]

Init ==
    /\ worker = "absent"
    /\ status = "absent"
    /\ history = <<>>
    /\ summary = "none"
    /\ error = FALSE
    /\ done = FALSE
    /\ stream = [c \in Clients |-> "none"]
    /\ offset = [c \in Clients |-> 0]
    /\ events = [c \in Clients |-> <<>>]
    /\ sawDone = [c \in Clients |-> FALSE]
    /\ got = [c \in Clients |-> <<>>]

-----------------------------------------------------------------------------
(* create_execution and the worker thread                                  *)

CreateExecution ==
    /\ worker = "absent"
    /\ worker' = "starting"
    /\ status' = "queued"
    /\ UNCHANGED <<history, summary, error, done, streamVars>>

\* The thread starts: state.status = "running", outside the lock.
Begin ==
    /\ worker = "starting"
    /\ worker' = "streaming"
    /\ status' = "running"
    /\ UNCHANGED <<history, summary, error, done, streamVars>>

append_event(event) == history' = Append(history, event)

\* next(gen) yields a LogEvent or a RunResult.  MaxEvents bounds the run.
Emit(event) ==
    /\ worker = "streaming"
    /\ Len(history) < MaxEvents
    /\ append_event(event)
    /\ UNCHANGED <<worker, status, summary, error, done, streamVars>>

\* Mutant: done is set before the summary event is appended.
FinishDoneFirst(event) ==
    /\ worker = "streaming"
    /\ done' = TRUE
    /\ status' = IF event = "summary_ok" THEN "completed" ELSE "failed"
    /\ worker' = "ending"
    /\ UNCHANGED <<history, summary, error, streamVars>>

\* StopIteration: the summary event is appended; set_done follows.
Finish(event) ==
    /\ worker = "streaming"
    /\ append_event(event)
    /\ worker' = "ending"
    /\ UNCHANGED <<status, summary, error, done, streamVars>>

\* Mutant: no except clause, the thread just dies.
RaiseUnhandled ==
    /\ worker = "streaming"
    /\ worker' = "over"
    /\ UNCHANGED <<stateVars, streamVars>>

\* The engine or the conversion of its events raises.
Raise ==
    /\ worker = "streaming"
    /\ append_event("summary_error")
    /\ worker' = "ending"
    /\ UNCHANGED <<status, summary, error, done, streamVars>>

\* Mutant: the status is not taken from the exit code.
SetDoneCompleted ==
    /\ worker = "ending"
    /\ worker' = "over"
    /\ done' = TRUE
    /\ status' = "completed"
    /\ summary' = history[Len(history)]
    /\ error' = FALSE
    /\ UNCHANGED <<history, streamVars>>

\* set_done: the four fields change together, under the lock.  The fallback
\* stores an error and no summary.
SetDone ==
    /\ worker = "ending"
    /\ worker' = "over"
    /\ done' = TRUE
    /\ LET last == history[Len(history)]
       IN  /\ status' = IF last = "summary_ok" THEN "completed" ELSE "failed"
           /\ summary' = IF last = "summary_error" THEN "none" ELSE last
           /\ error' = (last = "summary_error")
    /\ UNCHANGED <<history, streamVars>>

-----------------------------------------------------------------------------
(* GET /executions/{id}/events                                             *)

\* Before the POST the route answers 404.  A client whose stream has ended
\* may ask again; every stream starts at offset 0.
Connect(c) ==
    /\ status # "absent"
    /\ stream[c] \in {"none", "closed", "gone"}
    /\ stream' = [stream EXCEPT ![c] = "reading"]
    /\ offset' = [offset EXCEPT ![c] = 0]
    /\ events' = [events EXCEPT ![c] = <<>>]
    /\ sawDone' = [sawDone EXCEPT ![c] = FALSE]
    /\ got' = [got EXCEPT ![c] = <<>>]
    /\ UNCHANGED <<worker, stateVars>>

\* Mutant: the offset is advanced by the events read, but counted before
\* the slice is taken: the last event is read twice.
ReadOverlapping(c) ==
    /\ stream[c] = "reading"
    /\ events' = [events EXCEPT ![c] = SubSeq(history, offset[c] + 1, Len(history))]
    /\ offset' = [offset EXCEPT ![c] = IF history = <<>> THEN 0 ELSE Len(history) - 1]
    /\ sawDone' = [sawDone EXCEPT ![c] = done]
    /\ stream' = [stream EXCEPT ![c] = "yielding"]
    /\ UNCHANGED <<worker, stateVars, got>>

\* read_events_since: events, next offset and done in one critical section.
Read(c) ==
    /\ stream[c] = "reading"
    /\ events' = [events EXCEPT ![c] = SubSeq(history, offset[c] + 1, Len(history))]
    /\ offset' = [offset EXCEPT ![c] = Len(history)]
    /\ sawDone' = [sawDone EXCEPT ![c] = done]
    /\ stream' = [stream EXCEPT ![c] = "yielding"]
    /\ UNCHANGED <<worker, stateVars, got>>

Yield(c) ==
    /\ stream[c] = "yielding"
    /\ events[c] # <<>>
    /\ got' = [got EXCEPT ![c] = Append(@, Head(events[c]))]
    /\ events' = [events EXCEPT ![c] = Tail(@)]
    /\ UNCHANGED <<worker, stateVars, stream, offset, sawDone>>

\* Mutant: the live flag is asked instead of the one read with the events.
EndOfRoundLive(c) ==
    /\ stream[c] = "yielding"
    /\ events[c] = <<>>
    /\ stream' = [stream EXCEPT ![c] = IF done THEN "closed" ELSE "reading"]
    /\ UNCHANGED <<worker, stateVars, offset, events, sawDone, got>>

\* All events of the round are out: the generator returns when the state
\* was done at the read, else it sends a keep-alive, sleeps and reads on.
EndOfRound(c) ==
    /\ stream[c] = "yielding"
    /\ events[c] = <<>>
    /\ stream' = [stream EXCEPT ![c] = IF sawDone[c] THEN "closed" ELSE "reading"]
    /\ UNCHANGED <<worker, stateVars, offset, events, sawDone, got>>

\* The client goes away, between two yields.
Disconnect(c) ==
    /\ stream[c] = "yielding"
    /\ stream' = [stream EXCEPT ![c] = "gone"]
    /\ UNCHANGED <<worker, stateVars, offset, events, sawDone, got>>

-----------------------------------------------------------------------------
EndEngine == Raise \/ \E event \in {"summary_ok", "summary_failed"} : Finish(event)

WorkerStep == Begin \/ (\E event \in Yielded : Emit(event)) \/ EndEngine \/ SetDone

StreamStep(c) == Read(c) \/ Yield(c) \/ EndOfRound(c)

Next ==
    \/ CreateExecution
    \/ WorkerStep
    \/ \E c \in Clients : Connect(c) \/ StreamStep(c) \/ Disconnect(c)

Spec == Init /\ [][Next]_vars

\* The worker thread is scheduled and the engine, all of whose runs have a
\* timeout, ends; a connected stream is scheduled.  Clients promise nothing.
FairSpec ==
    /\ Spec
    /\ WF_vars(WorkerStep)
    /\ WF_vars(EndEngine)
    /\ \A c \in Clients : WF_vars(StreamStep(c))

-----------------------------------------------------------------------------
(* Properties                                                              *)

\* The generator of a client holds exactly the part of the history between
\* what it delivered and its offset: nothing is lost or sent twice when
\* appends fall between two reads.
DeliveredInOrder ==
    \A c \in Clients : got[c] \o events[c] = SubSeq(history, 1, offset[c])

\* A stream the server ended has delivered the whole history, and the last
\* event, the only summary, is the one GET /executions/{id} answers with.
ClosedMeansComplete ==
    \A c \in Clients : stream[c] = "closed" =>
        /\ got[c] = history
        /\ {i \in DOMAIN history : history[i] \in Summary} = {Len(history)}
        /\ summary \in {history[Len(history)], "none"}

\* What GET /executions/{id} answers is one of the answers the worker
\* means: a terminal status only together with done, with the summary of
\* that status, or with an error and no summary.
AnswerIsConsistent ==
    /\ done <=> status \in {"completed", "failed"}
    /\ status = "completed" => summary = "summary_ok" /\ ~error
    /\ status = "failed" => (summary = "summary_failed" /\ ~error) \/ (summary = "none" /\ error)
    /\ ~done => summary = "none" /\ ~error

\* Every stream ends, by its last event or by its client.
StreamsEnd == \A c \in Clients : stream[c] = "reading" ~> stream[c] \in {"closed", "gone"}

-----------------------------------------------------------------------------
(* The inductive invariant behind the safety properties.                   *)

\* How far the thread has come, and what it has left in the state: the only
\* summary is the last event, and it is in before the state is done.
WorkerInv ==
    /\ worker = "absent" <=> status = "absent"
    /\ worker \in {"streaming", "ending"} => status = "running"
    /\ worker = "over" <=> done
    /\ worker \notin {"ending", "over"} => \A i \in DOMAIN history : history[i] \notin Summary
    /\ worker \in {"ending", "over"} =>
           /\ history # <<>>
           /\ \A i \in DOMAIN history : history[i] \in Summary <=> i = Len(history)
    /\ done => summary \in {history[Len(history)], "none"}

\* What the generator of c knows of the history: a done that it has read
\* came with the last of the events.
StreamInv(c) ==
    /\ offset[c] <= Len(history)
    /\ stream[c] \in {"none", "reading", "closed"} => events[c] = <<>>
    /\ stream[c] = "closed" => sawDone[c]
    /\ sawDone[c] => done /\ offset[c] = Len(history)

Inv ==
    /\ TypeOK /\ WorkerInv /\ AnswerIsConsistent
    /\ DeliveredInOrder
    /\ \A c \in Clients : StreamInv(c)

-----------------------------------------------------------------------------
\* The execution keeps what EventLog promises.
Log == INSTANCE EventLog WITH
           Final <- Summary, log <- history, sealed <- done,
           seen <- [c \in Clients |-> Len(got[c])],
           ended <- [c \in Clients |-> stream[c] = "closed"]
RefinesEventLog == Log!Spec
=============================================================================
