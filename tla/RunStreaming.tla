----------------------------- MODULE RunStreaming -----------------------------
(***************************************************************************)
(* run_streaming, the generator that runs one test command and yields its  *)
(* output, and run_audit_streaming, which runs it once per phase.  A call  *)
(* starts the command in a container, or as a local subprocess when there  *)
(* is no Docker; a reader thread puts the lines of its output into an      *)
(* inner queue; the poll loop moves them, one per round, into the queue of *)
(* the call, which is drained, and yielded, once the command has ended.    *)
(*                                                                         *)
(* The lines of a call are numbered.  Meta lines (command, heartbeat, exit *)
(* code, report sync) are left out, except the [UQO_DONE] marker, and so   *)
(* are the copies of reports, whose exceptions are swallowed.  A reader    *)
(* that outlives its call has no effect on what is modelled here: its      *)
(* queue is read by nobody.  Return codes are "zero", "infra" (124, 127)   *)
(* and "nonzero".                                                          *)
(***************************************************************************)
EXTENDS Integers, Sequences

CONSTANTS
    NumPhases,   \* phases of an audit (2 or 3 in the code)
    MaxLines     \* bound on the lines that a command writes

ASSUME PhasesAssumption == NumPhases \in Nat \ {0}
ASSUME MaxLinesAssumption == MaxLines \in Nat

ReturnCode == {"zero", "nonzero", "infra"}

\* The end of the output, None in the inner queue.
Sentinel == 0

VARIABLES
    audit,     \* the generator is run_audit_streaming
    pc,        \* control state of the generator
    phase,     \* idx of the audit
    backend,   \* "docker" or "local"
    proc,      \* the container, or the subprocess
    code,      \* what it exited with by itself
    forked,    \* descendants of it hold the output open
    written,   \* lines written
    reader,    \* the reader thread
    read,      \* lines it has read and put into the log file
    inner,     \* the queue between the reader and the poll loop
    outer,     \* the queue of the call
    yielded,   \* the lines of this call that the consumer has been given
    rc,        \* return code of this call
    rcs,       \* phase_returncodes
    marks,     \* [UQO_DONE] markers yielded
    result     \* return code of the RunResult that the generator returned

genVars == <<audit, phase, rcs, marks, result>>
procVars == <<proc, code, forked, written>>
readerVars == <<reader, read>>
vars == <<pc, genVars, backend, procVars, readerVars, inner, outer, yielded, rc>>

TypeOK ==
    /\ audit \in BOOLEAN
    /\ pc \in {"launching", "getting", "checking", "joining", "draining", "ending",
               "reporting", "done", "raised"}
    /\ phase \in 1..NumPhases
    /\ backend \in {"none", "docker", "local"}
    /\ proc \in {"none", "running", "exited", "killed"}
    /\ code \in ReturnCode \cup {"none"}
    /\ forked \in BOOLEAN
    /\ written \in 0..MaxLines
    /\ reader \in {"none", "reading", "ended"}
    /\ read \in 0..MaxLines
    /\ inner \in Seq(Nat)
    /\ outer \in Seq(Nat)
    /\ yielded \in Seq(Nat)
    /\ rc \in ReturnCode \cup {"none"}
    /\ rcs \in Seq(ReturnCode)
    /\ marks \in Nat
    /\ result \in ReturnCode \cup {"none"}

Init ==
    /\ audit \in BOOLEAN
    /\ pc = "launching"
    /\ phase = 1
    /\ backend = "none"
    /\ proc = "none" /\ code = "none" /\ forked = FALSE /\ written = 0
    /\ reader = "none" /\ read = 0
    /\ inner = <<>> /\ outer = <<>> /\ yielded = <<>>
    /\ rc = "none"
    /\ rcs = <<>>
    /\ marks = 0
    /\ result = "none"

-----------------------------------------------------------------------------
(* A call of _run_in_ephemeral_container_streaming                         *)

Launch(b, forks) ==
    /\ pc = "launching"
    /\ backend' = b
    /\ proc' = "running"
    /\ forked' = forks
    /\ reader' = "reading"
    /\ pc' = "getting"
    /\ UNCHANGED <<genVars, code, written, read, inner, outer, yielded, rc>>

\* The local branch catches: 127 for a missing executable, 1 for the rest.
LocalFails(failure) ==
    /\ pc = "launching"
    /\ backend' = "local"
    /\ rc' = failure
    /\ pc' = "draining"
    /\ UNCHANGED <<genVars, procVars, readerVars, inner, outer, yielded>>

\* The Docker branch, and the preparations of run_streaming, do not.
LaunchRaises ==
    /\ pc = "launching"
    /\ pc' = "raised"
    /\ UNCHANGED <<genVars, backend, procVars, readerVars, inner, outer, yielded, rc>>

\* Mutant: what comes after the end of the command is taken, not emitted.
GetWhileRunning ==
    /\ pc = "getting"
    /\ inner # <<>>
    /\ inner' = Tail(inner)
    /\ outer' = IF Head(inner) = Sentinel \/ proc # "running" THEN outer
                ELSE Append(outer, Head(inner))
    /\ pc' = "checking"
    /\ UNCHANGED <<genVars, backend, procVars, readerVars, yielded, rc>>

\* q.get(timeout=0.1): at most one line per round; None is passed over.
Get ==
    /\ pc = "getting"
    /\ inner # <<>>
    /\ inner' = Tail(inner)
    /\ outer' = IF Head(inner) = Sentinel THEN outer ELSE Append(outer, Head(inner))
    /\ pc' = "checking"
    /\ UNCHANGED <<genVars, backend, procVars, readerVars, yielded, rc>>

GetNothing ==
    /\ pc = "getting"
    /\ inner = <<>>
    /\ pc' = "checking"
    /\ UNCHANGED <<genVars, backend, procVars, readerVars, inner, outer, yielded, rc>>

\* The deadline is looked at before the command.  A failing kill of the
\* container is ignored.
TimesOut(killed) ==
    /\ pc = "checking"
    /\ backend = "local" => killed
    /\ proc' = IF killed /\ proc = "running" THEN "killed" ELSE proc
    /\ rc' = "infra"
    /\ pc' = "joining"
    /\ UNCHANGED <<genVars, backend, code, forked, written, readerVars, inner, outer, yielded>>

GoesOn ==
    /\ pc = "checking"
    /\ proc = "running"
    /\ pc' = "getting"
    /\ UNCHANGED <<genVars, backend, procVars, readerVars, inner, outer, yielded, rc>>

\* Mutant: a container without a status counts as passed.
CollectDefaultZero(known) ==
    /\ pc = "checking"
    /\ proc = "exited"
    /\ backend = "local" => known
    /\ rc' = IF known THEN code ELSE "zero"
    /\ pc' = "joining"
    /\ UNCHANGED <<genVars, backend, procVars, readerVars, inner, outer, yielded>>

\* Mutant: a container whose status cannot be read is taken to have exited.
CollectUnseen(known) ==
    /\ pc = "checking"
    /\ proc = "exited" \/ (backend = "docker" /\ ~known)
    /\ backend = "local" => known
    /\ rc' = IF known THEN code ELSE "nonzero"
    /\ pc' = "joining"
    /\ UNCHANGED <<genVars, backend, procVars, readerVars, inner, outer, yielded>>

\* The command has ended: its code, or 1 when the container's is not known.
Collect(known) ==
    /\ pc = "checking"
    /\ proc = "exited"
    /\ backend = "local" => known
    /\ rc' = IF known THEN code ELSE "nonzero"
    /\ pc' = "joining"
    /\ UNCHANGED <<genVars, backend, procVars, readerVars, inner, outer, yielded>>

\* Mutant: join() without a timeout.
ReturnAfterReader(removed) ==
    /\ pc = "joining"
    /\ reader = "ended"
    /\ backend = "local" => removed
    /\ proc' = IF removed /\ proc = "running" THEN "killed" ELSE proc
    /\ pc' = "draining"
    /\ UNCHANGED <<genVars, backend, code, forked, written, readerVars, inner, outer, yielded, rc>>

\* join(timeout=2.0), whether the reader has ended or not; finally, the
\* process is killed, or the container removed by force.  The daemon may
\* refuse that too, and the error is ignored.
Return(removed) ==
    /\ pc = "joining"
    /\ backend = "local" => removed
    /\ proc' = IF removed /\ proc = "running" THEN "killed" ELSE proc
    /\ pc' = "draining"
    /\ UNCHANGED <<genVars, backend, code, forked, written, readerVars, inner, outer, yielded, rc>>

-----------------------------------------------------------------------------
(* The rest of run_streaming, and run_audit_streaming                      *)

Drain ==
    /\ pc = "draining"
    /\ outer # <<>>
    /\ yielded' = Append(yielded, Head(outer))
    /\ outer' = Tail(outer)
    /\ UNCHANGED <<pc, genVars, backend, procVars, readerVars, inner, rc>>

\* The queue is empty, or the consumer has let two seconds go by.
DrainEnds ==
    /\ pc = "draining"
    /\ pc' = "ending"
    /\ UNCHANGED <<genVars, backend, procVars, readerVars, inner, outer, yielded, rc>>

\* A plain call: the marker, the hooks and the report sync, the RunResult.
ReturnResult ==
    /\ pc = "ending"
    /\ ~audit
    /\ marks' = marks + 1
    /\ result' = rc
    /\ pc' = "done"
    /\ UNCHANGED <<audit, phase, rcs, backend, procVars, readerVars, inner, outer, yielded, rc>>

\* Mutant: the phases of an audit emit their markers.
NextPhaseMarked ==
    /\ pc = "ending"
    /\ audit
    /\ phase < NumPhases
    /\ rcs' = Append(rcs, rc)
    /\ marks' = marks + 1
    /\ phase' = phase + 1
    /\ backend' = "none"
    /\ proc' = "none" /\ code' = "none" /\ forked' = FALSE /\ written' = 0
    /\ reader' = "none" /\ read' = 0
    /\ inner' = <<>> /\ outer' = <<>> /\ yielded' = <<>>
    /\ rc' = "none"
    /\ pc' = "launching"
    /\ UNCHANGED <<audit, result>>

\* The next phase of an audit is a new call, with queues of its own; it is
\* run whatever the return code of this one.
NextPhase ==
    /\ pc = "ending"
    /\ audit
    /\ phase < NumPhases
    /\ rcs' = Append(rcs, rc)
    /\ phase' = phase + 1
    /\ backend' = "none"
    /\ proc' = "none" /\ code' = "none" /\ forked' = FALSE /\ written' = 0
    /\ reader' = "none" /\ read' = 0
    /\ inner' = <<>> /\ outer' = <<>> /\ yielded' = <<>>
    /\ rc' = "none"
    /\ pc' = "launching"
    /\ UNCHANGED <<audit, marks, result>>

LastPhase ==
    /\ pc = "ending"
    /\ audit
    /\ phase = NumPhases
    /\ rcs' = Append(rcs, rc)
    /\ pc' = "reporting"
    /\ UNCHANGED <<audit, phase, marks, result, backend, procVars, readerVars, inner, outer, yielded, rc>>

\* agg_rc
AuditReturncode ==
    IF \A i \in DOMAIN rcs : rcs[i] = "zero" THEN "zero" ELSE "nonzero"

\* The reports of the frameworks, the health score, the marker.
Report ==
    /\ pc = "reporting"
    /\ marks' = marks + 1
    /\ result' = AuditReturncode
    /\ pc' = "done"
    /\ UNCHANGED <<audit, phase, rcs, backend, procVars, readerVars, inner, outer, yielded, rc>>

\* Generating a report or computing the score may raise.
ReportRaises ==
    /\ pc = "reporting"
    /\ pc' = "raised"
    /\ UNCHANGED <<genVars, backend, procVars, readerVars, inner, outer, yielded, rc>>

-----------------------------------------------------------------------------
(* The command and the reader thread                                       *)

InCall == pc \in {"getting", "checking", "joining"}

Write ==
    /\ InCall
    /\ proc = "running" \/ forked
    /\ written < MaxLines
    /\ written' = written + 1
    /\ UNCHANGED <<pc, genVars, backend, proc, code, forked, readerVars, inner, outer, yielded, rc>>

Exit(c) ==
    /\ InCall
    /\ proc = "running"
    /\ proc' = "exited"
    /\ code' = c
    /\ UNCHANGED <<pc, genVars, backend, forked, written, readerVars, inner, outer, yielded, rc>>

ForkedExit ==
    /\ InCall
    /\ forked
    /\ forked' = FALSE
    /\ UNCHANGED <<pc, genVars, backend, proc, code, written, readerVars, inner, outer, yielded, rc>>

\* One line: into the log file, and into the queue.
ReadLine ==
    /\ InCall
    /\ reader = "reading"
    /\ read < written
    /\ read' = read + 1
    /\ inner' = Append(inner, read + 1)
    /\ UNCHANGED <<pc, genVars, backend, procVars, reader, outer, yielded, rc>>

\* End of the output, or an error (undecodable bytes, a broken connection).
ReaderEnds(broken) ==
    /\ InCall
    /\ reader = "reading"
    /\ broken \/ (read = written /\ proc # "running" /\ ~forked)
    /\ reader' = "ended"
    /\ inner' = Append(inner, Sentinel)
    /\ UNCHANGED <<pc, genVars, backend, procVars, read, outer, yielded, rc>>

-----------------------------------------------------------------------------
GeneratorStep ==
    \/ \E b \in {"docker", "local"}, forks \in BOOLEAN : Launch(b, forks)
    \/ \E failure \in {"nonzero", "infra"} : LocalFails(failure)
    \/ LaunchRaises
    \/ Get \/ GetNothing \/ GoesOn
    \/ \E killed \in BOOLEAN : TimesOut(killed)
    \/ \E known \in BOOLEAN : Collect(known)
    \/ \E removed \in BOOLEAN : Return(removed)
    \/ Drain \/ DrainEnds
    \/ ReturnResult \/ NextPhase \/ LastPhase
    \/ Report \/ ReportRaises

CommandStep == Write \/ (\E c \in ReturnCode : Exit(c)) \/ ForkedExit

ReaderStep == ReadLine \/ \E broken \in BOOLEAN : ReaderEnds(broken)

Next == GeneratorStep \/ CommandStep \/ ReaderStep

Spec == Init /\ [][Next]_vars

\* The consumer keeps asking, and time passes: a call has always a timeout
\* (600 s by default), and once it is over every round of the loop sees it.
\* Nothing is promised of the command or of the reader.
FairSpec ==
    /\ Spec
    /\ WF_vars(GeneratorStep)
    /\ SF_vars(TimesOut(TRUE))

-----------------------------------------------------------------------------
(* Properties                                                              *)

\* Through both queues the lines stay in order, none twice and none missing
\* in between; every line that was read is given to the consumer or still
\* under way, and what may follow it is the mark that the reader ended with.
LinesInOrder ==
    LET under_way == yielded \o outer \o inner
    IN  /\ \A i \in DOMAIN under_way : under_way[i] = IF i <= read THEN i ELSE Sentinel
        /\ Len(under_way) = read \/ (reader = "ended" /\ Len(under_way) = read + 1)

\* A call reports success only of a command that ended by itself with 0, and
\* an audit only when all its phases did.
GreenIsEarned ==
    /\ rc = "zero" => proc = "exited" /\ code = "zero"
    /\ result = "zero" /\ audit =>
           Len(rcs) = NumPhases /\ \A i \in DOMAIN rcs : rcs[i] = "zero"

\* A command that outlives its call is a container that the daemon neither
\* killed nor removed; the call has timed out and says so.
NothingLeftRunning ==
    ~InCall /\ proc = "running" => backend = "docker" /\ rc = "infra"

\* The consumer is told once that everything is over, by the generator that
\* then returns its result, and not at all by one that raises.
OneDoneMarker ==
    /\ marks = 1 <=> result # "none"
    /\ marks <= 1
    /\ result # "none" /\ audit => Len(rcs) = NumPhases

\* The types, with the marker that ends a consumer.
Inv == TypeOK /\ OneDoneMarker

\* Whatever the command does, and whoever holds its output, the generator
\* ends.
GeneratorEnds == <>(pc \in {"done", "raised"})
=============================================================================
