------------------------------ MODULE ApiProofs ------------------------------
(***************************************************************************)
(* Proofs about what the API serves: the events of an execution            *)
(* (ExecutionEvents), for every set of clients and every bound on the      *)
(* events of the engine, and the comparisons of runs (RunAnalytics), for   *)
(* every set of kinds, outcomes and limits and every size of the table.    *)
(* The two modules have no variable in common; they are proved about here  *)
(* together and side by side.                                              *)
(*                                                                         *)
(* Inv of ExecutionEvents is inductive; the safety properties and the      *)
(* refinement of EventLog follow from it.  What RunAnalytics answers rests *)
(* on what its requests know of the rows (Known): the view of a recorded   *)
(* row is the row's until a copy is written back over it during the        *)
(* request, that of any other may be old.                                  *)
(***************************************************************************)
EXTENDS ExecutionEvents, RunAnalytics, FiniteSetTheorems, SequenceTheorems, TLAPS

-----------------------------------------------------------------------------
(* Sequences                                                               *)

\* What was read of a log stays what it was when the log grows.
LEMMA PrefixOfAppend ==
    ASSUME NEW S, NEW s \in Seq(S), NEW x \in S, NEW n \in 0..Len(s)
    PROVE  SubSeq(Append(s, x), 1, n) = SubSeq(s, 1, n)
<1>1. Append(s, x) \in Seq(S) /\ Len(Append(s, x)) = Len(s) + 1
      /\ \A i \in 1..Len(s) : Append(s, x)[i] = s[i]
  BY AppendProperties
<1>2. \A i \in 1..n : s[i] \in S /\ Append(s, x)[i] = s[i]
  BY <1>1, ElementOfSeq
<1>3. /\ SubSeq(s, 1, n) \in Seq(S) /\ Len(SubSeq(s, 1, n)) = n
      /\ \A i \in 1..n : SubSeq(s, 1, n)[i] = s[i]
  BY <1>2, SubSeqProperties
<1>4. /\ SubSeq(Append(s, x), 1, n) \in Seq(S) /\ Len(SubSeq(Append(s, x), 1, n)) = n
      /\ \A i \in 1..n : SubSeq(Append(s, x), 1, n)[i] = Append(s, x)[i]
  BY <1>2, SubSeqProperties
<1> QED
  BY <1>2, <1>3, <1>4, SeqEqual

\* A prefix and the rest make the whole.
LEMMA PrefixAndRest ==
    ASSUME NEW S, NEW s \in Seq(S), NEW n \in 0..Len(s)
    PROVE  /\ SubSeq(s, n + 1, Len(s)) \in Seq(S)
           /\ SubSeq(s, 1, n) \o SubSeq(s, n + 1, Len(s)) = s
           /\ SubSeq(s, 1, Len(s)) = s
<1>1. Len(s) \in Nat
  BY LenProperties
<1>2. SubSeq(s, n + 1, Len(s)) \in Seq(S)
  BY <1>1, ElementOfSeq, SubSeqProperties
<1>3. SubSeq(s, 1, n) \o SubSeq(s, n + 1, Len(s)) = SubSeq(s, 1, Len(s))
  <2>1. 1 \in 1..Len(s) + 1 /\ n \in 1 - 1..Len(s) /\ Len(s) \in n..Len(s)
    BY <1>1
  <2> QED
    BY <2>1, ConcatAdjacentSubSeq
<1> QED
  BY <1>2, <1>3, SubSeqFull

\* Moving the first event from the rest to the end changes nothing overall.
LEMMA HandOver ==
    ASSUME NEW S, NEW s \in Seq(S), NEW t \in Seq(S), t # <<>>
    PROVE  /\ Append(s, Head(t)) \in Seq(S) /\ Tail(t) \in Seq(S)
           /\ Append(s, Head(t)) \o Tail(t) = s \o t
<1>1. Head(t) \in S /\ Tail(t) \in Seq(S) /\ Len(t) \in Nat \ {0}
  BY HeadTailProperties, EmptySeq
<1>2. t = <<Head(t)>> \o Tail(t)
  <2>1. SubSeq(t, 1, Len(t)) = <<t[1]>> \o SubSeq(t, 2, Len(t))
    BY <1>1, SubSeqRecursiveFirst
  <2> QED
    BY <2>1, SubSeqFull, TailIsSubSeq, <1>1
<1>3. Append(s, Head(t)) = s \o <<Head(t)>> /\ <<Head(t)>> \in Seq(S)
  BY <1>1, AppendIsConcat
<1>4. (s \o <<Head(t)>>) \o Tail(t) = s \o (<<Head(t)>> \o Tail(t))
  BY <1>1, <1>3, ConcatAssociative
<1> QED
  BY <1>1, <1>2, <1>3, <1>4, AppendProperties
-----------------------------------------------------------------------------
(* The inductive invariant                                                 *)

\* The parts of the invariant hold when an execution does not exist yet.
LEMMA InitInv == Init => Inv
<1> SUFFICES ASSUME Init PROVE Inv
  OBVIOUS
<1>1. TypeOK
  BY EmptySeq DEF Init, TypeOK, WorkerStates, StreamStates
<1>2. WorkerInv /\ AnswerIsConsistent
  BY DEF Init, WorkerInv, AnswerIsConsistent
<1>3. ASSUME NEW c \in Clients PROVE got[c] \o events[c] = SubSeq(history, 1, offset[c])
  <2>1. <<>> \o <<>> = <<>>
    BY EmptySeq, ConcatEmptySeq
  <2> QED
    BY <2>1, SubSeqEmpty DEF Init
<1>4. \A c \in Clients : StreamInv(c)
  <2> SUFFICES ASSUME NEW c \in Clients PROVE StreamInv(c)
    OBVIOUS
  <2>1. Len(history) = 0
    BY EmptySeq DEF Init
  <2>2. offset[c] = 0 /\ events[c] = <<>> /\ stream[c] = "none" /\ sawDone[c] = FALSE
    BY DEF Init
  <2> QED
    BY <2>1, <2>2 DEF StreamInv
<1> QED
  BY <1>1, <1>2, <1>3, <1>4 DEF Inv, DeliveredInOrder

\* The thread appends an event: the streams do not notice until they read.
LEMMA AppendKeepsStreams ==
    ASSUME Inv, ~done, UNCHANGED <<done, streamVars>>,
           NEW event \in Event, append_event(event)
    PROVE  /\ history' \in Seq(Event) /\ Len(history') = Len(history) + 1
           /\ \A i \in 1..Len(history) : history'[i] = history[i]
           /\ history'[Len(history) + 1] = event
           /\ DeliveredInOrder' /\ \A c \in Clients : StreamInv(c)'
<1>1. history \in Seq(Event) /\ Len(history) \in Nat
  BY LenProperties DEF Inv, TypeOK
<1>2. /\ history' \in Seq(Event) /\ Len(history') = Len(history) + 1
      /\ \A i \in 1..Len(history) : history'[i] = history[i]
      /\ history'[Len(history) + 1] = event
  BY <1>1, AppendProperties DEF append_event
<1>3. ASSUME NEW c \in Clients
      PROVE  /\ (got[c] \o events[c] = SubSeq(history, 1, offset[c]))'
             /\ StreamInv(c)'
  <2>1. StreamInv(c) /\ offset[c] \in 0..Len(history)
    BY <1>1 DEF Inv, TypeOK, StreamInv
  <2>2. SubSeq(history', 1, offset[c]) = SubSeq(history, 1, offset[c])
    BY <1>1, <2>1, PrefixOfAppend DEF append_event
  <2>3. ~sawDone[c]
    BY <2>1 DEF StreamInv
  <2>4. (got[c] \o events[c] = SubSeq(history, 1, offset[c]))'
    BY <2>2 DEF streamVars, Inv, DeliveredInOrder
  <2>5. StreamInv(c)'
    BY <1>1, <1>2, <2>1, <2>3 DEF streamVars, StreamInv
  <2> QED
    BY <2>4, <2>5
<1> QED
  BY <1>2, <1>3 DEF DeliveredInOrder

\* The steps of create_execution and of the worker thread keep the invariant.
LEMMA WorkerKeepsInv == Inv /\ (CreateExecution \/ WorkerStep) => Inv'
<1> SUFFICES ASSUME Inv, CreateExecution \/ WorkerStep PROVE Inv'
  OBVIOUS
<1>1. ASSUME CreateExecution \/ Begin PROVE Inv'
  <2>1. UNCHANGED <<history, summary, error, done, streamVars>>
    BY <1>1 DEF CreateExecution, Begin
  <2>2. TypeOK'
    BY <1>1, <2>1 DEF CreateExecution, Begin, Inv, TypeOK, WorkerStates, streamVars
  <2>3. WorkerInv' /\ AnswerIsConsistent'
    BY <1>1, <2>1 DEF CreateExecution, Begin, Inv, WorkerInv, AnswerIsConsistent
  <2>4. DeliveredInOrder' /\ \A c \in Clients : StreamInv(c)'
    BY <2>1 DEF Inv, DeliveredInOrder, StreamInv, streamVars
  <2> QED
    BY <2>2, <2>3, <2>4 DEF Inv
<1>2. ASSUME NEW event \in Yielded, Emit(event) PROVE Inv'
  <2>1. event \in Event /\ event \notin Summary
    BY DEF Event, Yielded, Summary
  <2>2. worker = "streaming" /\ append_event(event)
        /\ UNCHANGED <<worker, status, summary, error, done, streamVars>>
    BY <1>2 DEF Emit
  <2>3. ~done
    BY <2>2 DEF Inv, WorkerInv
  <2>4. /\ history' \in Seq(Event) /\ Len(history') = Len(history) + 1
        /\ \A i \in 1..Len(history) : history'[i] = history[i]
        /\ history'[Len(history) + 1] = event
        /\ DeliveredInOrder' /\ \A c \in Clients : StreamInv(c)'
    BY <2>1, <2>2, <2>3, AppendKeepsStreams
  <2>5. history \in Seq(Event) /\ Len(history) \in Nat
        /\ DOMAIN history = 1..Len(history) /\ DOMAIN history' = 1..Len(history')
    BY <2>4, LenProperties DEF Inv, TypeOK
  <2>6. TypeOK'
    BY <2>2, <2>4 DEF Inv, TypeOK, streamVars
  <2>7. WorkerInv' /\ AnswerIsConsistent'
    BY <2>1, <2>2, <2>3, <2>4, <2>5 DEF Inv, WorkerInv, AnswerIsConsistent
  <2> QED
    BY <2>4, <2>6, <2>7 DEF Inv
<1>3. ASSUME EndEngine PROVE Inv'
  <2>1. PICK event \in Summary :
           /\ worker = "streaming" /\ append_event(event) /\ worker' = "ending"
           /\ UNCHANGED <<status, summary, error, done, streamVars>>
    BY <1>3 DEF EndEngine, Raise, Finish, Summary
  <2>2. ~done /\ event \in Event
    BY <2>1 DEF Inv, WorkerInv, Event
  <2>3. /\ history' \in Seq(Event) /\ Len(history') = Len(history) + 1
        /\ \A i \in 1..Len(history) : history'[i] = history[i]
        /\ history'[Len(history) + 1] = event
        /\ DeliveredInOrder' /\ \A c \in Clients : StreamInv(c)'
    BY <2>1, <2>2, AppendKeepsStreams
  <2>4. history \in Seq(Event) /\ Len(history) \in Nat
        /\ DOMAIN history = 1..Len(history) /\ DOMAIN history' = 1..Len(history')
        /\ history' # <<>>
    <3>1. history \in Seq(Event)
      BY DEF Inv, TypeOK
    <3>2. history' # <<>>
      BY <2>1, <2>2, <3>1, AppendProperties DEF append_event
    <3> QED
      BY <2>3, <3>1, <3>2, LenProperties
  <2>5. TypeOK'
    BY <2>1, <2>3 DEF Inv, TypeOK, WorkerStates, streamVars
  <2>6. WorkerInv' /\ AnswerIsConsistent'
    BY <2>1, <2>2, <2>3, <2>4 DEF Inv, WorkerInv, AnswerIsConsistent
  <2> QED
    BY <2>3, <2>5, <2>6 DEF Inv
<1>4. ASSUME SetDone PROVE Inv'
  <2>1. worker = "ending" /\ worker' = "over" /\ done' /\ UNCHANGED <<history, streamVars>>
    BY <1>4 DEF SetDone
  <2>2. history \in Seq(Event) /\ Len(history) \in 1..Len(history)
        /\ DOMAIN history = 1..Len(history) /\ history[Len(history)] \in Summary
    BY <2>1, EmptySeq, LenProperties DEF Inv, TypeOK, WorkerInv
  <2>3. TypeOK'
    BY <1>4, <2>1, <2>2 DEF SetDone, Inv, TypeOK, WorkerStates, Summary, streamVars
  <2>4. WorkerInv'
    BY <1>4, <2>1, <2>2 DEF SetDone, Inv, WorkerInv
  <2>5. AnswerIsConsistent'
    BY <1>4, <2>1, <2>2 DEF SetDone, AnswerIsConsistent, Summary
  <2>6. DeliveredInOrder' /\ \A c \in Clients : StreamInv(c)'
    BY <2>1 DEF Inv, DeliveredInOrder, StreamInv, streamVars
  <2> QED
    BY <2>3, <2>4, <2>5, <2>6 DEF Inv
<1> QED
  BY <1>1, <1>2, <1>3, <1>4 DEF WorkerStep

\* The steps of a client and of its generator keep the invariant.
LEMMA StreamKeepsInv ==
    ASSUME Inv, NEW c \in Clients, Connect(c) \/ StreamStep(c) \/ Disconnect(c)
    PROVE  Inv'
<1>1. UNCHANGED <<worker, stateVars>>
  BY DEF Connect, StreamStep, Read, Yield, EndOfRound, Disconnect
<1>2. /\ history \in Seq(Event) /\ Len(history) \in Nat
      /\ got[c] \in Seq(Event) /\ events[c] \in Seq(Event)
      /\ offset[c] \in 0..Len(history)
      /\ got[c] \o events[c] = SubSeq(history, 1, offset[c]) /\ StreamInv(c)
  BY LenProperties DEF Inv, TypeOK, DeliveredInOrder, StreamInv
<1>3. /\ stream' = [stream EXCEPT ![c] = stream'[c]] /\ stream'[c] \in StreamStates
      /\ offset' = [offset EXCEPT ![c] = offset'[c]] /\ offset'[c] \in Nat
      /\ events' = [events EXCEPT ![c] = events'[c]] /\ events'[c] \in Seq(Event)
      /\ sawDone' = [sawDone EXCEPT ![c] = sawDone'[c]] /\ sawDone'[c] \in BOOLEAN
      /\ got' = [got EXCEPT ![c] = got'[c]] /\ got'[c] \in Seq(Event)
      /\ got'[c] \o events'[c] = SubSeq(history, 1, offset'[c])
      /\ StreamInv(c)'
  <2>1. CASE Connect(c)
    <3>1. <<>> \in Seq(Event) /\ <<>> \o <<>> = <<>> /\ SubSeq(history, 1, 0) = <<>>
      BY EmptySeq, ConcatEmptySeq, SubSeqEmpty
    <3> QED
      BY <1>1, <1>2, <2>1, <3>1 DEF Connect, Inv, TypeOK, StreamStates, StreamInv, stateVars
  <2>2. CASE Read(c)
    <3>1. /\ SubSeq(history, offset[c] + 1, Len(history)) \in Seq(Event)
          /\ SubSeq(history, 1, offset[c]) \o SubSeq(history, offset[c] + 1, Len(history)) = history
          /\ SubSeq(history, 1, Len(history)) = history
      BY <1>2, PrefixAndRest
    <3>2. events[c] = <<>> /\ got[c] = SubSeq(history, 1, offset[c])
      BY <1>2, <2>2, ConcatEmptySeq DEF Read, StreamInv
    <3>3. /\ stream'[c] = "yielding" /\ offset'[c] = Len(history) /\ sawDone'[c] = done
          /\ events'[c] = SubSeq(history, offset[c] + 1, Len(history)) /\ got' = got
      BY <2>2 DEF Read, Inv, TypeOK
    <3>4. /\ stream' = [stream EXCEPT ![c] = stream'[c]] /\ offset' = [offset EXCEPT ![c] = offset'[c]]
          /\ events' = [events EXCEPT ![c] = events'[c]]
          /\ sawDone' = [sawDone EXCEPT ![c] = sawDone'[c]] /\ got' = [got EXCEPT ![c] = got'[c]]
      BY <2>2, <3>3 DEF Read, Inv, TypeOK
    <3>5. StreamInv(c)'
      BY <1>1, <1>2, <3>3 DEF StreamInv, stateVars
    <3>6. got'[c] \o events'[c] = SubSeq(history, 1, offset'[c])
      BY <3>1, <3>2, <3>3
    <3> QED
      BY <1>2, <3>1, <3>3, <3>4, <3>5, <3>6 DEF Inv, TypeOK, StreamStates
  <2>3. CASE Yield(c)
    <3>1. /\ Append(got[c], Head(events[c])) \in Seq(Event) /\ Tail(events[c]) \in Seq(Event)
          /\ Append(got[c], Head(events[c])) \o Tail(events[c]) = got[c] \o events[c]
      BY <1>2, <2>3, HandOver DEF Yield
    <3> QED
      BY <1>1, <1>2, <2>3, <3>1 DEF Yield, Inv, TypeOK, StreamInv, stateVars
  <2>4. CASE EndOfRound(c)
    BY <1>1, <1>2, <2>4 DEF EndOfRound, Inv, TypeOK, StreamStates, StreamInv, stateVars
  <2>5. CASE Disconnect(c)
    BY <1>1, <1>2, <2>5 DEF Disconnect, Inv, TypeOK, StreamStates, StreamInv, stateVars
  <2> QED
    BY <2>1, <2>2, <2>3, <2>4, <2>5 DEF StreamStep
<1>4. TypeOK'
  BY <1>1, <1>3 DEF Inv, TypeOK, stateVars
<1>5. WorkerInv' /\ AnswerIsConsistent'
  BY <1>1 DEF Inv, WorkerInv, AnswerIsConsistent, stateVars
<1>6. ASSUME NEW d \in Clients
      PROVE  (got[d] \o events[d] = SubSeq(history, 1, offset[d]))' /\ StreamInv(d)'
  <2>1. CASE d = c
    BY <1>1, <1>3, <2>1 DEF stateVars
  <2>2. CASE d # c
    <3>1. /\ stream'[d] = stream[d] /\ offset'[d] = offset[d] /\ events'[d] = events[d]
          /\ sawDone'[d] = sawDone[d] /\ got'[d] = got[d] /\ history' = history /\ done' = done
      BY <1>1, <1>3, <2>2 DEF stateVars, Inv, TypeOK
    <3> QED
      BY <3>1 DEF Inv, DeliveredInOrder, StreamInv
  <2> QED
    BY <2>1, <2>2
<1> QED
  BY <1>4, <1>5, <1>6 DEF Inv, DeliveredInOrder

\* The invariant holds in every reachable state: however appends, reads,
\* ends and reconnects are interleaved.
THEOREM Invariance == Spec => []Inv
<1>1. Inv /\ [Next]_vars => Inv'
  <2> SUFFICES ASSUME Inv, [Next]_vars PROVE Inv'
    OBVIOUS
  <2>1. CASE UNCHANGED vars
    BY <2>1 DEF vars, stateVars, streamVars, Inv, TypeOK, WorkerInv, AnswerIsConsistent,
                DeliveredInOrder, StreamInv
  <2> QED
    BY <2>1, WorkerKeepsInv, StreamKeepsInv DEF Next
<1> QED
  BY <1>1, InitInv, PTL DEF Spec

\* Every variable keeps its type.
THEOREM TypeCorrect == Spec => []TypeOK
  BY Invariance, PTL DEF Inv

\* Nothing is lost, repeated or reordered between the history and a client.
THEOREM InOrder == Spec => []DeliveredInOrder
  BY Invariance, PTL DEF Inv

\* A status query never sees a half-finished execution.
THEOREM ConsistentAnswer == Spec => []AnswerIsConsistent
  BY Invariance, PTL DEF Inv

\* A stream that the server has ended showed everything, summary included.
THEOREM ClosedStreams == Spec => []ClosedMeansComplete
<1>1. Inv => ClosedMeansComplete
  <2> SUFFICES ASSUME Inv, NEW c \in Clients, stream[c] = "closed"
               PROVE  /\ got[c] = history
                      /\ {i \in DOMAIN history : history[i] \in Summary} = {Len(history)}
                      /\ summary \in {history[Len(history)], "none"}
    BY DEF ClosedMeansComplete
  <2>1. done /\ offset[c] = Len(history) /\ events[c] = <<>>
    BY DEF Inv, StreamInv
  <2>2. history \in Seq(Event) /\ got[c] \in Seq(Event)
    BY DEF Inv, TypeOK
  <2>3. got[c] = history
    <3>1. got[c] \o events[c] = SubSeq(history, 1, offset[c])
      BY DEF Inv, DeliveredInOrder
    <3> QED
      BY <2>1, <2>2, <3>1, ConcatEmptySeq, SubSeqFull
  <2>4. history # <<>> /\ \A i \in DOMAIN history : history[i] \in Summary <=> i = Len(history)
    BY <2>1 DEF Inv, WorkerInv
  <2>5. Len(history) \in DOMAIN history
    BY <2>2, <2>4, EmptySeq, LenProperties
  <2>6. summary \in {history[Len(history)], "none"}
    BY <2>1 DEF Inv, WorkerInv
  <2> QED
    BY <2>3, <2>4, <2>5, <2>6
<1> QED
  BY <1>1, Invariance, PTL

-----------------------------------------------------------------------------
(* The refinement of EventLog                                              *)

\* The steps of the worker publish an event, seal the log, or are invisible.
LEMMA WorkerRefines ==
    ASSUME Inv, Inv', CreateExecution \/ WorkerStep
    PROVE  \/ Log!Publish \/ Log!Seal
           \/ UNCHANGED <<history, done, stream, got>>
<1>1. CASE CreateExecution \/ Begin
  BY <1>1 DEF CreateExecution, Begin, streamVars
<1>2. ASSUME NEW event \in Event, append_event(event), worker = "streaming",
             UNCHANGED <<done, streamVars>>
      PROVE  Log!Publish
  BY <1>2 DEF Log!Publish, append_event, streamVars, Inv, WorkerInv
<1>3. CASE SetDone
  <2>1. worker = "ending" /\ history # <<>> /\ done' = TRUE /\ UNCHANGED <<history, streamVars>>
    BY <1>3 DEF SetDone, Inv, WorkerInv
  <2>2. history[Len(history)] \in Summary
    BY <2>1, EmptySeq, LenProperties DEF Inv, TypeOK, WorkerInv
  <2> QED
    BY <2>1, <2>2 DEF Log!Seal, streamVars
<1>4. ASSUME NEW event \in Yielded, Emit(event) PROVE Log!Publish
  BY <1>2, <1>4 DEF Emit, Event
<1>5. ASSUME EndEngine PROVE Log!Publish
  BY <1>2, <1>5 DEF EndEngine, Raise, Finish, Event, Summary
<1> QED
  BY <1>1, <1>3, <1>4, <1>5 DEF WorkerStep

\* The steps of a stream open, deliver, end, or are invisible.
LEMMA StreamRefines ==
    ASSUME Inv, Inv', NEW c \in Clients, Connect(c) \/ StreamStep(c) \/ Disconnect(c)
    PROVE  \/ Log!Open(c) \/ Log!Deliver(c) \/ Log!End(c)
           \/ UNCHANGED <<history, done, [d \in Clients |-> Len(got[d])],
                          [d \in Clients |-> stream[d] = "closed"]>>
<1>1. /\ stream \in [Clients -> StreamStates] /\ got \in [Clients -> Seq(Event)]
      /\ history \in Seq(Event) /\ events[c] \in Seq(Event) /\ offset[c] \in Nat
  BY DEF Inv, TypeOK
<1>2. UNCHANGED <<history, done>>
  BY DEF Connect, StreamStep, Read, Yield, EndOfRound, Disconnect, stateVars
<1>3. CASE Connect(c)
  <2>1. [d \in Clients |-> Len(got'[d])] = [[d \in Clients |-> Len(got[d])] EXCEPT ![c] = 0]
    BY <1>1, <1>3, EmptySeq DEF Connect
  <2>2. [d \in Clients |-> stream'[d] = "closed"]
          = [[d \in Clients |-> stream[d] = "closed"] EXCEPT ![c] = FALSE]
    BY <1>1, <1>3 DEF Connect
  <2> QED
    BY <1>2, <2>1, <2>2 DEF Log!Open
<1>4. CASE Read(c)
  <2>1. got' = got /\ \A d \in Clients : (stream'[d] = "closed") = (stream[d] = "closed")
    BY <1>1, <1>4 DEF Read
  <2> QED
    BY <1>2, <2>1
<1>5. CASE Yield(c)
  <2>1. /\ stream[c] = "yielding" /\ events[c] # <<>> /\ stream' = stream
        /\ got' = [got EXCEPT ![c] = Append(@, Head(events[c]))]
    BY <1>5 DEF Yield
  <2>2. got[c] \in Seq(Event) /\ Head(events[c]) \in Event /\ Len(events[c]) \in Nat \ {0}
        /\ Len(got[c]) \in Nat /\ Len(history) \in Nat
    BY <1>1, <2>1, EmptySeq, HeadTailProperties, LenProperties
  <2>3. Len(Append(got[c], Head(events[c]))) = Len(got[c]) + 1
    BY <2>2, AppendProperties
  <2>4. Len(got[c]) < Len(history)
    <3>1. got[c] \o events[c] = SubSeq(history, 1, offset[c]) /\ offset[c] <= Len(history)
      BY DEF Inv, DeliveredInOrder, StreamInv
    <3>2. Len(got[c] \o events[c]) = Len(got[c]) + Len(events[c])
      BY <1>1, <2>2, ConcatProperties
    <3>3. \A i \in 1..offset[c] : history[i] \in Event
      BY <1>1, <2>2, <3>1, ElementOfSeq
    <3>4. Len(SubSeq(history, 1, offset[c])) = offset[c]
      BY <1>1, <3>3, SubSeqProperties
    <3> QED
      BY <1>1, <2>2, <3>1, <3>2, <3>4
  <2>5. [d \in Clients |-> Len(got'[d])]
          = [[d \in Clients |-> Len(got[d])] EXCEPT ![c] = Len(got[c]) + 1]
    BY <1>1, <2>1, <2>3
  <2> QED
    BY <1>2, <2>1, <2>4, <2>5 DEF Log!Deliver
<1>6. CASE EndOfRound(c)
  <2>1. /\ stream[c] = "yielding" /\ events[c] = <<>> /\ got' = got
        /\ stream' = [stream EXCEPT ![c] = IF sawDone[c] THEN "closed" ELSE "reading"]
    BY <1>6 DEF EndOfRound
  <2>2. CASE sawDone[c]
    <3>1. stream'[c] = "closed"
      BY <1>1, <2>1, <2>2
    <3>2. done' /\ offset'[c] = Len(history') /\ events'[c] = <<>> /\ got'[c] \in Seq(Event)
          /\ (got[c] \o events[c] = SubSeq(history, 1, offset[c]))' /\ history' \in Seq(Event)
      BY <3>1 DEF Inv, TypeOK, StreamInv, DeliveredInOrder
    <3>3. got[c] = history
      BY <1>2, <2>1, <3>2, ConcatEmptySeq, SubSeqFull
    <3>4. [d \in Clients |-> stream'[d] = "closed"]
            = [[d \in Clients |-> stream[d] = "closed"] EXCEPT ![c] = TRUE]
      BY <1>1, <2>1, <2>2
    <3> QED
      BY <1>2, <2>1, <3>2, <3>3, <3>4 DEF Log!End
  <2>3. CASE ~sawDone[c]
    <3>1. \A d \in Clients : (stream'[d] = "closed") = (stream[d] = "closed")
      BY <1>1, <2>1, <2>3
    <3> QED
      BY <1>2, <2>1, <3>1
  <2> QED
    BY <2>2, <2>3
<1>7. CASE Disconnect(c)
  <2>1. got' = got /\ \A d \in Clients : (stream'[d] = "closed") = (stream[d] = "closed")
    BY <1>1, <1>7 DEF Disconnect
  <2> QED
    BY <1>2, <2>1
<1> QED
  BY <1>3, <1>4, <1>5, <1>6, <1>7 DEF StreamStep

\* An execution and its streams keep the promise of EventLog: one log,
\* published once, sealed once, delivered in full to each stream that ends.
THEOREM LogRefinement == Spec => RefinesEventLog
<1>1. Init => Log!Init
  BY EmptySeq DEF Init, Log!Init
<1>2. Inv /\ Inv' /\ [Next]_vars =>
        [Log!Next]_<<history, done, [c \in Clients |-> Len(got[c])],
                     [c \in Clients |-> stream[c] = "closed"]>>
  <2> SUFFICES ASSUME Inv, Inv', [Next]_vars
               PROVE  \/ Log!Next
                      \/ UNCHANGED <<history, done, [c \in Clients |-> Len(got[c])],
                                     [c \in Clients |-> stream[c] = "closed"]>>
    OBVIOUS
  <2>1. CASE CreateExecution \/ WorkerStep
    BY <2>1, WorkerRefines DEF Log!Next
  <2>2. ASSUME NEW c \in Clients, Connect(c) \/ StreamStep(c) \/ Disconnect(c)
        PROVE  \/ Log!Next
               \/ UNCHANGED <<history, done, [d \in Clients |-> Len(got[d])],
                              [d \in Clients |-> stream[d] = "closed"]>>
    BY <2>2, StreamRefines DEF Log!Next
  <2>3. CASE UNCHANGED vars
    BY <2>3 DEF vars, stateVars, streamVars
  <2> QED
    BY <2>1, <2>2, <2>3 DEF Next
<1> QED
  BY <1>1, <1>2, Invariance, PTL DEF Spec, RefinesEventLog, Log!Spec

-----------------------------------------------------------------------------
(* Numbers: the greatest and the least of finitely many                    *)

\* Of the sets of those that are not below one of them, one is minimal.
LEMMA Greatest ==
    ASSUME NEW S, S \subseteq Int, IsFiniteSet(S), S # {}
    PROVE  Max(S) \in S /\ \A y \in S : Max(S) >= y
<1> DEFINE R == StrictSubsetOrdering(Int)
           F == FiniteSubsetsOf(Int)
           From(x) == {y \in S : y >= x}
           T == {From(x) : x \in S}
<1>1. T # {}
  OBVIOUS
<1>2. T \subseteq F
  <2>1. \A x \in S : From(x) \in SUBSET S
    OBVIOUS
  <2>2. \A x \in S : IsFiniteSet(From(x)) /\ From(x) \subseteq Int
    BY <2>1, FS_Subset
  <2> QED
    BY <2>2 DEF FiniteSubsetsOf
<1>3. IsWellFoundedOn(R, F)
  BY FS_StrictSubsetOrderingWellFounded
<1>4. PICK t \in T : \A u \in T : ~(<<u, t>> \in R)
  <2> HIDE DEF R, F, T
  <2> QED
    BY <1>1, <1>2, <1>3, WFMin
<1>5. PICK x \in S : t = From(x)
  OBVIOUS
<1>6. ASSUME NEW y \in S PROVE x >= y
  <2> SUFFICES ASSUME y > x PROVE FALSE
    OBVIOUS
  <2>0. x \in Int /\ y \in Int /\ \A z \in S : z \in Int
    OBVIOUS
  <2>1. From(y) \subseteq From(x) /\ x \in From(x) /\ x \notin From(y) /\ From(x) \subseteq Int
    <3>0. x >= x
      BY <2>0
    <3>1. x \in From(x) /\ From(x) \subseteq Int
      BY <3>0, Zenon
    <3>2. x \notin From(y)
      BY <2>0
    <3>3. \A z \in S : z >= y => z >= x
      BY <2>0
    <3> QED
      BY <3>1, <3>2, <3>3
  <2>2. <<From(y), From(x)>> \in R
    BY <2>1 DEF StrictSubsetOrdering
  <2> QED
    BY <2>2, <1>4, <1>5
<1> QED
  BY <1>6 DEF Max

\* The least of finitely many numbers is the negative of the greatest of their negatives.
LEMMA Least ==
    ASSUME NEW S, S \subseteq Int, IsFiniteSet(S), S # {}
    PROVE  Min(S) \in S /\ \A y \in S : Min(S) <= y
<1> DEFINE T == {-x : x \in S}
<1>1. T \subseteq Int /\ T # {}
  OBVIOUS
<1>2. IsFiniteSet(T)
  <2> DEFINE f == [x \in S |-> -x]
  <2>1. f \in Surjection(S, T)
    BY DEF Surjection
  <2> HIDE DEF T, f
  <2> QED
    BY <2>1, FS_Surjection
<1>3. Max(T) \in T /\ \A y \in T : Max(T) >= y
  <2> HIDE DEF T
  <2> QED
    BY <1>1, <1>2, Greatest
<1>4. PICK x \in S : Max(T) = -x
  BY <1>3
<1>5. \A y \in S : -y \in T
  OBVIOUS
<1>6. ASSUME NEW y \in S PROVE x <= y
  <2>1. x \in Int /\ y \in Int /\ -y \in T
    BY <1>5
  <2>2. -x >= -y
    BY <1>3, <1>4, <2>1
  <2> QED
    BY <2>1, <2>2
<1> QED
  BY <1>6 DEF Min

\* The least and the greatest of two numbers.
LEMMA TwoNumbers ==
    ASSUME NEW a \in Int, NEW b \in Int
    PROVE  /\ Min({a, b}) = IF a <= b THEN a ELSE b
           /\ Max({a, b}) = IF a >= b THEN a ELSE b
<1>1. IsFiniteSet({a, b})
  <2>1. IsFiniteSet({a} \cup {b})
    BY FS_Singleton, FS_Union
  <2> QED
    BY <2>1
<1> QED
  BY <1>1, Greatest, Least

-----------------------------------------------------------------------------
(* The metrics of a directory                                              *)

\* A directory has finitely many files, whose times are numbers.
LEMMA Files ==
    ASSUME NEW files, IsDirectory(files)
    PROVE  /\ IsFiniteSet(DOMAIN files)
           /\ \A k \in DOMAIN files : files[k].start \in Int /\ files[k].stop \in Int
<1>1. files \in Seq(ToSet(files))
  BY DEF IsDirectory
<1>2. DOMAIN files = 1..Len(files) /\ Len(files) \in Nat
  BY <1>1, LenProperties
<1>3. IsFiniteSet(1..Len(files))
  BY <1>2, FS_Interval
<1>4. \A k \in DOMAIN files : files[k] \in ToSet(files)
  BY DEF ToSet
<1> QED
  BY <1>2, <1>3, <1>4 DEF IsDirectory

\* The times that the parsed files state.
Starts(files) == {files[k].start : k \in {k \in DOMAIN files : files[k].form = "result"}} \ {NULL}
Stops(files) == {files[k].stop : k \in {k \in DOMAIN files : files[k].form = "result"}} \ {NULL}

\* The times that are stated are finitely many numbers.
LEMMA Times ==
    ASSUME NEW files, IsDirectory(files)
    PROVE  /\ Starts(files) \subseteq Int /\ IsFiniteSet(Starts(files))
           /\ Stops(files) \subseteq Int /\ IsFiniteSet(Stops(files))
<1> DEFINE D == {k \in DOMAIN files : files[k].form = "result"}
           A == {files[k].start : k \in D}
           B == {files[k].stop : k \in D}
           f == [k \in D |-> files[k].start]
           g == [k \in D |-> files[k].stop]
<1>1. IsFiniteSet(D)
  <2>1. D \in SUBSET DOMAIN files
    OBVIOUS
  <2> HIDE DEF D
  <2> QED
    BY <2>1, Files, FS_Subset
<1>2. f \in Surjection(D, A) /\ g \in Surjection(D, B)
  BY DEF Surjection
<1>3. IsFiniteSet(A) /\ IsFiniteSet(B)
  <2> HIDE DEF A, B, D, f, g
  <2> QED
    BY <1>1, <1>2, FS_Surjection
<1>4. A \subseteq Int /\ B \subseteq Int
  BY Files
<1>5. /\ Starts(files) \in SUBSET A /\ Stops(files) \in SUBSET B
  BY DEF Starts, Stops
<1> HIDE DEF A, B, D, f, g
<1> QED
  BY <1>3, <1>4, <1>5, FS_Subset

Measured == [total : Nat, counts : [Counts -> Nat], duration_ms : Nat]

\* The metrics of a directory are counts and a duration that is not negative, or there are none.
LEMMA MetricsType ==
    ASSUME NEW files, IsDirectory(files)
    PROVE  parse_allure_results_dir(files) \in Measured \cup {Nothing}
<1> DEFINE D == {k \in DOMAIN files : files[k].form = "result"}
<1>1. Cardinality(D) \in Nat
  <2>1. D \in SUBSET DOMAIN files
    OBVIOUS
  <2> HIDE DEF D
  <2> QED
    BY <2>1, Files, FS_Subset, FS_CardinalityType
<1>2. ASSUME NEW c \in Counts PROVE Counted(files, c) \in Nat
  <2> DEFINE E == {k \in DOMAIN files :
                       /\ files[k].form = "result"
                       /\ c = IF files[k].status \in Counts THEN files[k].status ELSE "unknown"}
  <2>1. E \in SUBSET DOMAIN files
    OBVIOUS
  <2>2. Cardinality(E) \in Nat
    <3> HIDE DEF E
    <3> QED
      BY <2>1, Files, FS_Subset, FS_CardinalityType
  <2> QED
    BY <2>2 DEF Counted
<1> DEFINE A == Starts(files)
           B == Stops(files)
           d == IF A # {} /\ B # {} /\ Max(B) >= Min(A) THEN Max(B) - Min(A) ELSE 0
<1>3. d \in Nat
  <2>1. A # {} => Min(A) \in Int
    BY Times, Least
  <2>2. B # {} => Max(B) \in Int
    BY Times, Greatest
  <2> HIDE DEF A, B
  <2> QED
    BY <2>1, <2>2
<1>4. parse_allure_results_dir(files)
        = IF HasForm(files, {"other"}) THEN Nothing
          ELSE [total |-> Cardinality(D), counts |-> [c \in Counts |-> Counted(files, c)],
                duration_ms |-> d]
  BY DEF parse_allure_results_dir, Starts, Stops
<1> HIDE DEF D, d
<1> QED
  BY <1>1, <1>2, <1>3, <1>4 DEF Measured

\* Two sets that have nothing in common.
LEMMA Together ==
    ASSUME NEW S, NEW T, IsFiniteSet(S), IsFiniteSet(T), S \cap T = {}
    PROVE  IsFiniteSet(S \cup T) /\ Cardinality(S \cup T) = Cardinality(S) + Cardinality(T)
<1>1. Cardinality(S \cap T) = 0
  BY FS_EmptySet
<1>2. Cardinality(S) \in Nat /\ Cardinality(T) \in Nat
  BY FS_CardinalityType
<1>3. /\ IsFiniteSet(S \cup T)
      /\ Cardinality(S \cup T) = Cardinality(S) + Cardinality(T) - Cardinality(S \cap T)
  BY FS_Union, Zenon
<1> QED
  BY <1>1, <1>2, <1>3

\* The metrics of a directory, however many files it has and whatever they state, count every
\* result under one status, and their duration spans every test with both times, unless a file is
\* JSON and no object; then there are none.  Whatever they are taken from, a total of 0 means that
\* nothing is counted (metrics.py:36-85, metrics_extractor.py).
THEOREM MetricsOfAnyFiles ==
    ASSUME NEW summaries, NEW files, IsDirectory(files)
    PROVE  MetricsAccount(summaries, files)
<1> DEFINE m == parse_allure_results_dir(files)
           best == extract_best(summaries, TRUE, files)
           D == {k \in DOMAIN files : files[k].form = "result"}
           E(c) == {k \in D : c = IF files[k].status \in Counts THEN files[k].status ELSE "unknown"}
           measured == [total |-> Cardinality(D), counts |-> [c \in Counts |-> Counted(files, c)],
                        duration_ms |-> m.duration_ms]
<1>0. /\ HasForm(files, {"other"}) => m = Nothing
      /\ ~HasForm(files, {"other"}) => m = measured /\ m # Nothing
  <2>1. HasForm(files, {"other"}) => m = Nothing
    BY DEF parse_allure_results_dir
  <2>2. ~HasForm(files, {"other"}) => m = measured
    BY DEF parse_allure_results_dir
  <2>3. m = measured => m # Nothing
    BY DEF Nothing
  <2> QED
    BY <2>1, <2>2, <2>3
<1>1. m # Nothing => m.total = Total(m.counts)
  <2> SUFFICES ASSUME m # Nothing PROVE m.total = Total(m.counts)
    OBVIOUS
  <2>1. m.total = Cardinality(D) /\ \A c \in Counts : m.counts[c] = Counted(files, c)
    BY <1>0
  <2>2. \A c \in Counts : Counted(files, c) = Cardinality(E(c))
    <3>1. \A c : {k \in DOMAIN files :
                     /\ files[k].form = "result"
                     /\ c = IF files[k].status \in Counts THEN files[k].status ELSE "unknown"}
                 = E(c)
      OBVIOUS
    <3> QED
      BY <3>1 DEF Counted
  <2>3. \A c \in Counts : IsFiniteSet(E(c))
    <3>1. \A c : E(c) \in SUBSET DOMAIN files
      OBVIOUS
    <3> HIDE DEF E
    <3> QED
      BY <3>1, Files, FS_Subset
  <2>4. /\ D = (((E("passed") \cup E("failed")) \cup E("broken")) \cup E("skipped"))
                 \cup E("unknown")
        /\ E("passed") \cap E("failed") = {}
        /\ (E("passed") \cup E("failed")) \cap E("broken") = {}
        /\ ((E("passed") \cup E("failed")) \cup E("broken")) \cap E("skipped") = {}
        /\ (((E("passed") \cup E("failed")) \cup E("broken")) \cup E("skipped"))
             \cap E("unknown") = {}
    BY DEF Counts
  <2>5. Cardinality(D) = Cardinality(E("passed")) + Cardinality(E("failed"))
            + Cardinality(E("broken")) + Cardinality(E("skipped")) + Cardinality(E("unknown"))
    <3> DEFINE P == E("passed")
               F == E("failed")
               B == E("broken")
               K == E("skipped")
               U == E("unknown")
    <3>1. IsFiniteSet(P) /\ IsFiniteSet(F) /\ IsFiniteSet(B) /\ IsFiniteSet(K) /\ IsFiniteSet(U)
      BY <2>3 DEF Counts
    <3> HIDE DEF P, F, B, K, U, D
    <3>2. IsFiniteSet(P \cup F) /\ Cardinality(P \cup F) = Cardinality(P) + Cardinality(F)
      BY <2>4, <3>1, Together DEF P, F
    <3>3. /\ IsFiniteSet((P \cup F) \cup B)
          /\ Cardinality((P \cup F) \cup B) = Cardinality(P \cup F) + Cardinality(B)
      BY <2>4, <3>1, <3>2, Together DEF P, F, B
    <3>4. /\ IsFiniteSet(((P \cup F) \cup B) \cup K)
          /\ Cardinality(((P \cup F) \cup B) \cup K)
               = Cardinality((P \cup F) \cup B) + Cardinality(K)
      BY <2>4, <3>1, <3>3, Together DEF P, F, B, K
    <3>5. Cardinality((((P \cup F) \cup B) \cup K) \cup U)
            = Cardinality(((P \cup F) \cup B) \cup K) + Cardinality(U)
      BY <2>4, <3>1, <3>4, Together DEF P, F, B, K, U
    <3>6. Cardinality(D) = Cardinality((((P \cup F) \cup B) \cup K) \cup U)
      BY <2>4 DEF P, F, B, K, U
    <3>7. /\ Cardinality(P) \in Nat /\ Cardinality(F) \in Nat /\ Cardinality(B) \in Nat
          /\ Cardinality(K) \in Nat /\ Cardinality(U) \in Nat
      BY <3>1, FS_CardinalityType
    <3>8. Cardinality(D) = Cardinality(P) + Cardinality(F) + Cardinality(B) + Cardinality(K)
                             + Cardinality(U)
      BY <3>2, <3>3, <3>4, <3>5, <3>6, <3>7
    <3> QED
      BY <3>8 DEF P, F, B, K, U
  <2> HIDE DEF m, D, E
  <2> QED
    BY <2>1, <2>2, <2>5 DEF Total, Counts
<1>2. /\ best # Nothing /\ best.total = 0 => Total(best.counts) = 0
      /\ best = Nothing => summaries = <<>> /\ m = Nothing
  <2>1. CASE summaries # <<>>
    <3>1. PICK t, n, d : best = [total |-> IF t # 0 THEN t ELSE Total(n), counts |-> n, duration_ms |-> d]
      BY <2>1 DEF extract_best, extract_from_summary_json
    <3> HIDE DEF best
    <3>2. best # Nothing
      <4>1. "counts" \in DOMAIN best /\ "counts" \notin DOMAIN Nothing
        BY <3>1 DEF Nothing
      <4> QED
        BY <4>1
    <3>3. best.total = 0 => Total(best.counts) = 0
      BY <3>1
    <3> QED
      BY <2>1, <3>2, <3>3
  <2>2. CASE summaries = <<>>
    <3>1. best = m
      BY <2>2 DEF extract_best
    <3> HIDE DEF best, m
    <3> QED
      BY <1>1, <2>2, <3>1
  <2> QED
    BY <2>1, <2>2
<1>3. ASSUME m # Nothing, NEW f \in ToSet(files), f.form = "result", NULL \notin {f.start, f.stop}
      PROVE  m.duration_ms >= f.stop - f.start
  <2> DEFINE A == Starts(files)
             B == Stops(files)
  <2>1. f.start \in A /\ f.stop \in B /\ f.start \in Int /\ f.stop \in Int
    BY <1>3 DEF ToSet, Starts, Stops, IsDirectory
  <2>2. Min(A) \in Int /\ Min(A) <= f.start
    BY <2>1, Times, Least
  <2>3. Max(B) \in Int /\ Max(B) >= f.stop
    BY <2>1, Times, Greatest
  <2>4. m.duration_ms = IF A # {} /\ B # {} /\ Max(B) >= Min(A) THEN Max(B) - Min(A) ELSE 0
    BY <1>3, <1>0 DEF parse_allure_results_dir, Starts, Stops
  <2> HIDE DEF A, B, m
  <2> QED
    BY <2>1, <2>2, <2>3, <2>4
<1> HIDE DEF m, best
<1> QED
  BY <1>0, <1>1, <1>2, <1>3 DEF MetricsAccount, m, best

-----------------------------------------------------------------------------
(* Two archives                                                            *)

\* What becomes of a case, and the change that stands for it.
KindOf(b, c, k) == IF k \notin DOMAIN b THEN "added"
                   ELSE IF k \notin DOMAIN c THEN "removed" ELSE Change(b[k], c[k])
StatusIn(b, k) == IF k \in DOMAIN b THEN b[k] ELSE "none"
ChangeOf(b, c, k) ==
    [key |-> Cut(k), from |-> StatusIn(b, k), to |-> StatusIn(c, k), kind |-> KindOf(b, c, k)]
Changed(b, c) == {k \in DOMAIN b \cup DOMAIN c : KindOf(b, c, k) # "unchanged"}

\* The changes of two archives, one for each case that is not unchanged.
LEMMA Changes ==
    ASSUME NEW b, NEW c
    PROVE  diff_archives(b, c) = [k \in Changed(b, c) |-> ChangeOf(b, c, k)]
<1> DEFINE kind == [k \in DOMAIN b \cup DOMAIN c |->
                      IF k \notin DOMAIN b THEN "added"
                      ELSE IF k \notin DOMAIN c THEN "removed" ELSE Change(b[k], c[k])]
           K == {k \in DOMAIN kind : kind[k] # "unchanged"}
<1>1. diff_archives(b, c)
        = [k \in K |-> [key |-> Cut(k), from |-> IF k \in DOMAIN b THEN b[k] ELSE "none",
                         to |-> IF k \in DOMAIN c THEN c[k] ELSE "none", kind |-> kind[k]]]
  BY DEF diff_archives
<1>2. \A k \in DOMAIN b \cup DOMAIN c : kind[k] = KindOf(b, c, k)
  BY DEF KindOf
<1>3. DOMAIN kind = DOMAIN b \cup DOMAIN c
  OBVIOUS
<1> HIDE DEF kind
<1>4. K = Changed(b, c)
  BY <1>2, <1>3 DEF Changed
<1>5. \A k \in K : [key |-> Cut(k), from |-> IF k \in DOMAIN b THEN b[k] ELSE "none",
                    to |-> IF k \in DOMAIN c THEN c[k] ELSE "none", kind |-> kind[k]]
                = ChangeOf(b, c, k)
  BY <1>2, <1>3 DEF ChangeOf, StatusIn
<1> HIDE DEF K
<1> QED
  BY <1>1, <1>4, <1>5

\* The change back is the opposite one.
LEMMA ChangeReversed == \A x, y : /\ Change(y, x) = "unchanged" <=> Change(x, y) = "unchanged"
                                  /\ Change(x, y) = "unchanged" <=> x = y
                                  /\ Change(x, y) \notin {"added", "removed"}
                                  /\ x # y => Change(y, x) = Opposite(Change(x, y))
BY DEF Change, Opposite, Failing

\* The opposite comparison gives the same changes backwards.
LEMMA Reversed ==
    ASSUME NEW b, NEW c
    PROVE  diff_archives(c, b)
             = [k \in DOMAIN diff_archives(b, c) |-> Backwards(diff_archives(b, c)[k])]
<1>1. Changed(c, b) = Changed(b, c)
  BY ChangeReversed DEF Changed, KindOf
<1>2. ASSUME NEW k \in Changed(b, c) PROVE ChangeOf(c, b, k) = Backwards(ChangeOf(b, c, k))
  <2>1. KindOf(c, b, k) = Opposite(KindOf(b, c, k))
    <3>1. CASE k \in DOMAIN b /\ k \in DOMAIN c
      <4>1. b[k] # c[k]
        BY <3>1, ChangeReversed DEF Changed, KindOf
      <4> QED
        BY <3>1, <4>1, ChangeReversed DEF KindOf
    <3>2. CASE ~(k \in DOMAIN b /\ k \in DOMAIN c)
      BY <3>2 DEF KindOf, Opposite, Changed
    <3> QED
      BY <3>1, <3>2
  <2> QED
    BY <2>1 DEF ChangeOf, Backwards
<1>3. diff_archives(b, c) = [k \in Changed(b, c) |-> ChangeOf(b, c, k)]
  BY Changes
<1>4. diff_archives(c, b) = [k \in Changed(b, c) |-> ChangeOf(c, b, k)]
  BY <1>1, Changes
<1>5. /\ DOMAIN diff_archives(b, c) = Changed(b, c)
      /\ \A k \in Changed(b, c) : diff_archives(b, c)[k] = ChangeOf(b, c, k)
  BY <1>3
<1> QED
  BY <1>2, <1>4, <1>5

\* Where the cut keys tell the cases apart an archive is shown as it is.
LEMMA Cuts ==
    ASSUME NEW b, NEW keys, DOMAIN b \subseteq keys, Distinct(keys)
    PROVE  /\ DOMAIN ByCut(b) = {Cut(k) : k \in DOMAIN b}
           /\ \A k \in DOMAIN b : ByCut(b)[Cut(k)] = b[k]
<1>1. DOMAIN ByCut(b) = {Cut(k) : k \in DOMAIN b}
  BY DEF ByCut
<1>2. ASSUME NEW k \in DOMAIN b PROVE ByCut(b)[Cut(k)] = b[k]
  <2> DEFINE found == CHOOSE l \in DOMAIN b : Cut(l) = Cut(k)
  <2>1. found \in DOMAIN b /\ Cut(found) = Cut(k)
    OBVIOUS
  <2>2. found = k
    BY <2>1 DEF Distinct
  <2>3. ByCut(b)[Cut(k)] = b[found]
    BY DEF ByCut
  <2> QED
    BY <2>2, <2>3
<1> QED
  BY <1>1, <1>2

\* The changes turn the baseline into the current archive, where the cut keys tell the cases apart.
LEMMA PatchGives ==
    ASSUME NEW b, NEW c, Distinct(DOMAIN b \cup DOMAIN c)
    PROVE  Patched(ByCut(b), Range(diff_archives(b, c))) = ByCut(c)
<1> DEFINE changes == Range(diff_archives(b, c))
           gone == {d.key : d \in {d \in changes : d.kind = "removed"}}
           new == {d.key : d \in changes} \ gone
           C(K) == {Cut(k) : k \in K}
<1>1. changes = {ChangeOf(b, c, k) : k \in Changed(b, c)}
  BY Changes DEF Range
<1>2. \A k : /\ ChangeOf(b, c, k).key = Cut(k) /\ ChangeOf(b, c, k).kind = KindOf(b, c, k)
             /\ ChangeOf(b, c, k).to = StatusIn(c, k)
  BY DEF ChangeOf
<1>3. \A k \in Changed(b, c) : /\ KindOf(b, c, k) = "removed" <=> k \notin DOMAIN c
                               /\ k \in DOMAIN b \cup DOMAIN c
  BY ChangeReversed DEF Changed, KindOf
<1>k. \A k, l \in DOMAIN b \cup DOMAIN c : Cut(k) = Cut(l) => k = l
  BY DEF Distinct
<1> HIDE DEF changes
<1>4. gone = C(DOMAIN b \ DOMAIN c)
  <2>1. gone = {Cut(k) : k \in {k \in Changed(b, c) : KindOf(b, c, k) = "removed"}}
    BY <1>1, <1>2
  <2>2. {k \in Changed(b, c) : KindOf(b, c, k) = "removed"} = DOMAIN b \ DOMAIN c
    <3>1. \A k \in DOMAIN b \ DOMAIN c : k \in Changed(b, c) /\ KindOf(b, c, k) = "removed"
      BY DEF Changed, KindOf
    <3> QED
      BY <1>3, <3>1
  <2> HIDE DEF gone
  <2> QED
    BY <2>1, <2>2
<1>5. {d.key : d \in changes} = C(Changed(b, c))
  BY <1>1, <1>2
<1>6. new = C(Changed(b, c) \cap DOMAIN c)
  <2> HIDE DEF gone
  <2>1. new = C(Changed(b, c)) \ C(DOMAIN b \ DOMAIN c)
    BY <1>4, <1>5
  <2>2. ASSUME NEW n PROVE n \in C(Changed(b, c)) \ C(DOMAIN b \ DOMAIN c)
                           <=> n \in C(Changed(b, c) \cap DOMAIN c)
    <3>1. ASSUME n \in C(Changed(b, c)) \ C(DOMAIN b \ DOMAIN c)
          PROVE  n \in C(Changed(b, c) \cap DOMAIN c)
      BY <1>3, <3>1
    <3>2. ASSUME n \in C(Changed(b, c) \cap DOMAIN c)
          PROVE  n \in C(Changed(b, c)) \ C(DOMAIN b \ DOMAIN c)
      BY <1>k, <3>2
    <3> QED
      BY <3>1, <3>2
  <2> HIDE DEF C, new
  <2> QED
    BY <2>1, <2>2
<1>7. ASSUME NEW k \in Changed(b, c) \cap DOMAIN c
      PROVE  (CHOOSE d \in changes : d.key = Cut(k)).to = c[k]
  <2>1. ChangeOf(b, c, k) \in changes
    BY <1>1
  <2>2. ASSUME NEW d \in changes, d.key = Cut(k) PROVE d = ChangeOf(b, c, k)
    <3>1. PICK l \in Changed(b, c) : d = ChangeOf(b, c, l)
      BY <1>1
    <3>2. Cut(l) = Cut(k)
      BY <1>2, <2>2, <3>1
    <3> QED
      BY <1>3, <1>k, <3>1, <3>2
  <2>3. (CHOOSE d \in changes : d.key = Cut(k)) = ChangeOf(b, c, k)
    BY <1>2, <2>1, <2>2
  <2> QED
    BY <1>2, <2>3 DEF StatusIn
<1>8. /\ DOMAIN ByCut(b) = C(DOMAIN b) /\ DOMAIN ByCut(c) = C(DOMAIN c)
      /\ \A k \in DOMAIN b : ByCut(b)[Cut(k)] = b[k]
      /\ \A k \in DOMAIN c : ByCut(c)[Cut(k)] = c[k]
  <2>1. DOMAIN b \subseteq DOMAIN b \cup DOMAIN c /\ DOMAIN c \subseteq DOMAIN b \cup DOMAIN c
    OBVIOUS
  <2> QED
    BY <2>1, Cuts
<1>9. \A k \in DOMAIN c : k \notin Changed(b, c) => b[k] = c[k] /\ k \in DOMAIN b
  <2> SUFFICES ASSUME NEW k \in DOMAIN c, k \notin Changed(b, c) PROVE b[k] = c[k] /\ k \in DOMAIN b
    OBVIOUS
  <2>1. KindOf(b, c, k) = "unchanged"
    BY DEF Changed
  <2> QED
    BY <2>1, ChangeReversed DEF KindOf
<1> HIDE DEF gone, new
<1>10. (DOMAIN ByCut(b) \ gone) \cup new = DOMAIN ByCut(c)
  <2>1. ASSUME NEW n \in (C(DOMAIN b) \ gone) \cup new PROVE n \in C(DOMAIN c)
    BY <1>4, <1>6, <2>1
  <2>2. ASSUME NEW n \in C(DOMAIN c) PROVE n \in (C(DOMAIN b) \ gone) \cup new
    <3>1. PICK k \in DOMAIN c : n = Cut(k)
      OBVIOUS
    <3>2. CASE k \in Changed(b, c)
      BY <1>6, <3>1, <3>2
    <3>3. CASE k \notin Changed(b, c)
      <4>1. k \in DOMAIN b
        BY <1>9, <3>3
      <4>2. n \notin gone
        BY <1>4, <1>k, <3>1
      <4> QED
        BY <3>1, <4>1, <4>2
    <3> QED
      BY <3>2, <3>3
  <2> QED
    BY <1>8, <2>1, <2>2
<1>11. ASSUME NEW n \in DOMAIN ByCut(c)
       PROVE  (IF n \in new THEN (CHOOSE d \in changes : d.key = n).to ELSE ByCut(b)[n]) = ByCut(c)[n]
  <2>1. PICK k \in DOMAIN c : n = Cut(k) /\ ByCut(c)[n] = c[k]
    BY <1>8
  <2>2. n \in new <=> k \in Changed(b, c)
    BY <1>3, <1>6, <1>k, <2>1
  <2>3. CASE k \in Changed(b, c)
    BY <1>7, <2>1, <2>2, <2>3
  <2>4. CASE k \notin Changed(b, c)
    <3>1. k \in DOMAIN b /\ b[k] = c[k]
      BY <1>9, <2>4
    <3> QED
      BY <1>8, <2>1, <2>2, <2>4, <3>1
  <2> QED
    BY <2>3, <2>4
<1>12. Patched(ByCut(b), changes) = [n \in (DOMAIN ByCut(b) \ gone) \cup new |->
            IF n \in new THEN (CHOOSE d \in changes : d.key = n).to ELSE ByCut(b)[n]]
  BY DEF Patched, gone, new
<1>13. Patched(ByCut(b), changes) = [n \in DOMAIN ByCut(c) |-> ByCut(c)[n]]
  BY <1>10, <1>11, <1>12
<1>14. ByCut(c) = [n \in DOMAIN ByCut(c) |-> ByCut(c)[n]]
  BY DEF ByCut
<1> QED
  BY <1>13, <1>14 DEF changes

\* The differences of any two archives that can be read, listed the other way round, are the same
\* backwards, and where the first 80 characters of the keys tell the cases apart they are a patch
\* from one archive to the other (report_archive_diff.py:62-153).
THEOREM DiffOfAnyArchives == ASSUME NEW old, NEW new PROVE DiffIsAPatch(old, new)
<1>1. ASSUME NEW b \in load_cases(old), NEW c \in load_cases(new)
      PROVE  /\ diff_archives(c, b)
                  = [k \in DOMAIN diff_archives(b, c) |-> Backwards(diff_archives(b, c)[k])]
             /\ Distinct(DOMAIN b \cup DOMAIN c) =>
                    Patched(ByCut(b), Range(diff_archives(b, c))) = ByCut(c)
  <2>1. diff_archives(c, b)
          = [k \in DOMAIN diff_archives(b, c) |-> Backwards(diff_archives(b, c)[k])]
    BY Reversed
  <2>2. ASSUME Distinct(DOMAIN b \cup DOMAIN c)
        PROVE  Patched(ByCut(b), Range(diff_archives(b, c))) = ByCut(c)
    BY <2>2, PatchGives
  <2> QED
    BY <2>1, <2>2
<1> QED
  BY <1>1 DEF DiffIsAPatch

-----------------------------------------------------------------------------
(* Rows and views                                                          *)

States == {"RUNNING", "COMPLETED", "FAILED"}
Row == [kind : Kinds \cup {Unknown}, status : States, recorded : BOOLEAN,
        returncode : Int, wall : Int, health : Int, m : Measured \cup {Nothing}]

\* What has metrics has been recorded, and what has been recorded is not under way.
RowInv(r) == /\ r.m # Nothing => r.recorded
             /\ r.health # NULL => r.recorded
             /\ r.recorded => r.status # "RUNNING"

MetricView(v) == /\ \A key \in Metrics : v[key] \in Int
                 /\ \A key \in Metrics \ {"wall_duration_ms"} : v[key] # NULL => v.recorded

ViewRecord ==
    [id : Nat \ {0}, kind : Kinds \cup {Unknown}, status : States, returncode : Int,
     recorded : BOOLEAN, total_tests : Int, passed : Int, failed : Int, broken : Int,
     skipped : Int, health_pct : Int, wall_duration_ms : Int, metrics_duration_ms : Int,
     avg_case_ms : Int]

\* The nine metrics and their order.
LEMMA MetricNames ==
    /\ Metrics = {"total_tests", "passed", "failed", "broken", "skipped", "health_pct",
                  "wall_duration_ms", "metrics_duration_ms", "avg_case_ms"}
    /\ Len(Order) = 9 /\ DOMAIN Order = 1..9
    /\ \A a, b \in 1..9 : Order[a] = Order[b] => a = b
    /\ \A key \in Metrics : \E n \in 1..9 : Order[n] = key
    /\ \A n \in 1..9 : Order[n] \in Metrics
<1>1. Len(Order) = 9 /\ DOMAIN Order = 1..9
  BY DEF Order
<1>2. \A n \in 1..9 : n \in {1, 2, 3, 4, 5, 6, 7, 8, 9}
  OBVIOUS
<1>3. /\ Order[1] = "total_tests" /\ Order[2] = "passed" /\ Order[3] = "failed"
      /\ Order[4] = "broken" /\ Order[5] = "skipped" /\ Order[6] = "health_pct"
      /\ Order[7] = "wall_duration_ms" /\ Order[8] = "metrics_duration_ms"
      /\ Order[9] = "avg_case_ms"
  BY DEF Order
<1>4. \A a, b \in 1..9 : Order[a] = Order[b] => a = b
  BY <1>2, <1>3
<1>5. Metrics = {Order[n] : n \in 1..9}
  BY <1>1 DEF Metrics, ToSet
<1>6. {Order[n] : n \in 1..9}
        = {"total_tests", "passed", "failed", "broken", "skipped", "health_pct",
           "wall_duration_ms", "metrics_duration_ms", "avg_case_ms"}
  BY <1>2, <1>3
<1> QED
  BY <1>1, <1>4, <1>5, <1>6

\* The view of a row has every metric, and what is measured has been recorded.
LEMMA ViewType ==
    ASSUME NEW i \in DOMAIN rows, rows[i] \in Row, RowInv(rows[i]), i \in Nat \ {0}
    PROVE  View(i) \in ViewRecord /\ MetricView(View(i)) /\ View(i).id = i
           /\ View(i).recorded = rows[i].recorded
<1> DEFINE r == rows[i]
           m == rows[i].m
           v == View(i)
<1>1. CASE m = Nothing
  <2>1. /\ v.total_tests = NULL /\ v.passed = NULL /\ v.failed = NULL /\ v.broken = NULL
        /\ v.skipped = NULL /\ v.health_pct = r.health /\ v.metrics_duration_ms = NULL
        /\ v.avg_case_ms = NULL /\ v.wall_duration_ms = r.wall /\ r.wall \in Int /\ NULL \in Int
        /\ r.health \in Int /\ v.recorded = r.recorded
    BY <1>1 DEF View, Nothing, NULL, Row
  <2>2. MetricView(v)
    <3>1. r.health # NULL => r.recorded
      BY DEF RowInv
    <3> QED
      BY <2>1, <3>1, MetricNames DEF MetricView
  <2>3. v \in ViewRecord
    BY <1>1 DEF View, Nothing, NULL, Row, ViewRecord
  <2> QED
    BY <2>2, <2>3 DEF View
<1>2. CASE m # Nothing
  <2>1. m \in Measured /\ r.recorded = TRUE
    BY <1>2 DEF Row, RowInv
  <2>2. /\ m.total \in Nat /\ m.duration_ms \in Int
        /\ \A c \in {"passed", "failed", "broken", "skipped"} : m.counts[c] \in Int
    BY <2>1 DEF Measured, Counts
  <2>3. /\ v.total_tests = m.total /\ v.passed = m.counts["passed"] /\ v.failed = m.counts["failed"]
        /\ v.broken = m.counts["broken"] /\ v.skipped = m.counts["skipped"]
        /\ v.metrics_duration_ms = m.duration_ms /\ v.wall_duration_ms = r.wall
        /\ v.health_pct = IF r.health # NULL THEN r.health
                          ELSE IF m.total = 0 THEN NULL ELSE (100 * m.counts["passed"]) \div m.total
        /\ v.avg_case_ms = IF m.total = 0 THEN NULL ELSE m.duration_ms \div m.total
        /\ v.id = i /\ v.kind = r.kind /\ v.status = r.status /\ v.returncode = r.returncode
        /\ v.recorded = r.recorded
    BY <1>2 DEF View
  <2>4. v.health_pct \in Int /\ v.avg_case_ms \in Int
    <3>1. \A a \in Int, b \in Nat \ {0} : a \div b \in Int
      OBVIOUS
    <3>2. 100 * m.counts["passed"] \in Int
      BY <2>2
    <3>3. r.health \in Int
      BY DEF Row
    <3> QED
      BY <2>2, <2>3, <3>1, <3>2, <3>3 DEF NULL
  <2>5. r.wall \in Int /\ r.kind \in Kinds \cup {Unknown} /\ r.status \in States
        /\ r.returncode \in Int /\ r.recorded \in BOOLEAN
    BY DEF Row
  <2>6. v = [id |-> v.id, kind |-> v.kind, status |-> v.status, returncode |-> v.returncode,
             recorded |-> v.recorded, total_tests |-> v.total_tests, passed |-> v.passed,
             failed |-> v.failed, broken |-> v.broken, skipped |-> v.skipped,
             health_pct |-> v.health_pct, wall_duration_ms |-> v.wall_duration_ms,
             metrics_duration_ms |-> v.metrics_duration_ms, avg_case_ms |-> v.avg_case_ms]
    BY DEF View
  <2> HIDE DEF v, m, r
  <2>7. v \in ViewRecord
    BY <2>2, <2>3, <2>4, <2>5, <2>6 DEF ViewRecord
  <2>8. MetricView(v)
    BY <2>1, <2>2, <2>3, <2>4, <2>5, MetricNames DEF MetricView
  <2> QED
    BY <2>3, <2>7, <2>8 DEF v, r
<1> QED
  BY <1>1, <1>2

-----------------------------------------------------------------------------
(* Ranking                                                                 *)

\* What comes before n when the heaviest come first, and of two equals the first.
Before(M, w, n) == {k \in M : w[k] > w[n] \/ (w[k] = w[n] /\ k < n)}

\* Of two elements one comes before the other, and has fewer before it.
LEMMA BeforeIsOrdered ==
    ASSUME NEW M, M \subseteq Int, IsFiniteSet(M), NEW w \in [M -> Int], NEW a \in M, NEW b \in M
    PROVE  /\ Cardinality(Before(M, w, a)) \in 0..(Cardinality(M) - 1)
           /\ a \in Before(M, w, b) => Cardinality(Before(M, w, a)) < Cardinality(Before(M, w, b))
           /\ a = b \/ a \in Before(M, w, b) \/ b \in Before(M, w, a)
           /\ a \notin Before(M, w, b) => w[a] <= w[b]
<1>1. \A n \in M : n \in Int /\ w[n] \in Int
  OBVIOUS
<1>2. \A n \in M : Before(M, w, n) \in SUBSET M /\ n \notin Before(M, w, n)
  BY <1>1 DEF Before
<1>3. \A n \in M : IsFiniteSet(Before(M, w, n)) /\ Cardinality(Before(M, w, n)) \in Nat
  BY <1>2, FS_Subset, FS_CardinalityType
<1>4. Cardinality(M) \in Nat
  BY FS_CardinalityType
<1>5. Cardinality(Before(M, w, a)) \in 0..(Cardinality(M) - 1)
  <2>1. Cardinality(Before(M, w, a)) <= Cardinality(M)
    BY <1>2, FS_Subset
  <2>2. Cardinality(Before(M, w, a)) # Cardinality(M)
    BY <1>2, FS_Subset
  <2> QED
    BY <1>3, <1>4, <2>1, <2>2
<1>6. ASSUME a \in Before(M, w, b)
      PROVE  Cardinality(Before(M, w, a)) < Cardinality(Before(M, w, b))
  <2>1. Before(M, w, a) \in SUBSET Before(M, w, b)
    <3>1. w[a] > w[b] \/ (w[a] = w[b] /\ a < b)
      BY <1>6 DEF Before
    <3>2. ASSUME NEW k \in M, w[k] > w[a] \/ (w[k] = w[a] /\ k < a)
          PROVE  w[k] > w[b] \/ (w[k] = w[b] /\ k < b)
      BY <1>1, <3>1, <3>2
    <3> QED
      BY <3>2 DEF Before
  <2>2. Before(M, w, a) # Before(M, w, b)
    BY <1>2, <1>6
  <2>3. Cardinality(Before(M, w, a)) <= Cardinality(Before(M, w, b))
    BY <1>3, <2>1, FS_Subset
  <2>4. Cardinality(Before(M, w, a)) # Cardinality(Before(M, w, b))
    BY <1>3, <2>1, <2>2, FS_Subset
  <2> QED
    BY <1>3, <2>3, <2>4
<1>7. a = b \/ a \in Before(M, w, b) \/ b \in Before(M, w, a)
  BY <1>1 DEF Before
<1>8. a \notin Before(M, w, b) => w[a] <= w[b]
  BY <1>1 DEF Before
<1> QED
  BY <1>5, <1>6, <1>7, <1>8

\* Every rank is taken, by one that outweighs all that come later.
LEMMA Ranks ==
    ASSUME NEW M, M \subseteq Int, IsFiniteSet(M), NEW w \in [M -> Int]
    PROVE  /\ \A p \in 0..(Cardinality(M) - 1) : \E n \in M : Cardinality(Before(M, w, n)) = p
           /\ \A a, b \in M : Cardinality(Before(M, w, a)) <= Cardinality(Before(M, w, b))
                                => w[a] >= w[b]
           /\ \A a, b \in M : Cardinality(Before(M, w, a)) = Cardinality(Before(M, w, b)) => a = b
           /\ \A a \in M : Cardinality(Before(M, w, a)) \in 0..(Cardinality(M) - 1)
<1> DEFINE rank == [n \in M |-> Cardinality(Before(M, w, n))]
           m == Cardinality(M)
<1>1. m \in Nat
  BY FS_CardinalityType
<1>2. \A n \in M : rank[n] \in 0..(m - 1)
  BY BeforeIsOrdered
<1>3. \A a, b \in M : rank[a] = rank[b] => a = b
  <2> SUFFICES ASSUME NEW a \in M, NEW b \in M, rank[a] = rank[b], a # b PROVE FALSE
    OBVIOUS
  <2>1. a \in Before(M, w, b) \/ b \in Before(M, w, a)
    BY BeforeIsOrdered
  <2>2. rank[a] < rank[b] \/ rank[b] < rank[a]
    BY <2>1, BeforeIsOrdered
  <2>3. rank[a] \in Int /\ rank[b] \in Int
    BY <1>1, <1>2
  <2> QED
    BY <2>2, <2>3
<1>4. rank \in Injection(M, 0..(m - 1))
  BY <1>2, <1>3 DEF Injection, IsInjective
<1>5. IsFiniteSet(0..(m - 1)) /\ Cardinality(0..(m - 1)) = m
  BY <1>1, FS_Interval
<1>6. rank \in Surjection(M, 0..(m - 1))
  <2> HIDE DEF rank
  <2> QED
    BY <1>4, <1>5, FS_Injection
<1>7. \A p \in 0..(m - 1) : \E n \in M : rank[n] = p
  BY <1>6 DEF Surjection
<1>8. ASSUME NEW a \in M, NEW b \in M, rank[a] <= rank[b] PROVE w[a] >= w[b]
  <2>1. b \notin Before(M, w, a)
    <3>1. b \in Before(M, w, a) => rank[b] < rank[a]
      BY BeforeIsOrdered
    <3>2. rank[a] \in Int /\ rank[b] \in Int
      BY <1>1, <1>2
    <3> QED
      BY <1>8, <3>1, <3>2
  <2>2. w[b] <= w[a]
    BY <2>1, BeforeIsOrdered
  <2>3. w[a] \in Int /\ w[b] \in Int
    OBVIOUS
  <2> QED
    BY <2>2, <2>3
<1> QED
  BY <1>2, <1>3, <1>7, <1>8

-----------------------------------------------------------------------------
(* Comparisons                                                             *)

Verdicts == {"regression", "improvement", "neutral", "unknown"}

\* What is said of a metric: nothing if it is missing in one of the two runs.
LEMMA DeltaType ==
    ASSUME NEW c, NEW b, MetricView(c), MetricView(b), NEW key \in Metrics
    PROVE  /\ build_metric_delta(key, c, b).delta \in Int
           /\ build_metric_delta(key, c, b).classification \in Verdicts
           /\ build_metric_delta(key, c, b).classification = "unknown" <=> NULL \in {c[key], b[key]}
           /\ NULL \notin {c[key], b[key]} =>
                /\ build_metric_delta(key, c, b).delta = c[key] - b[key]
                /\ build_metric_delta(key, c, b).classification
                     = Classify(c[key] - b[key], Policy[key].direction)
           /\ build_metric_delta(key, c, b).classification \in {"neutral", "unknown"}
                => build_metric_delta(key, c, b).delta = 0
<1>1. c[key] \in Int /\ b[key] \in Int
  BY DEF MetricView
<1> DEFINE d == build_metric_delta(key, c, b)
<1>2. CASE NULL \in {c[key], b[key]}
  <2>1. d.classification = "unknown" /\ d.delta = 0
    BY <1>2 DEF build_metric_delta, Unclassified
  <2> QED
    BY <1>2, <2>1 DEF Verdicts
<1>3. CASE NULL \notin {c[key], b[key]}
  <2>1. /\ d.delta = c[key] - b[key]
        /\ d.classification = Classify(c[key] - b[key], Policy[key].direction)
    BY <1>3 DEF build_metric_delta
  <2>2. d.delta = 0 => d.classification = "neutral"
    BY <2>1 DEF Classify
  <2>3. d.delta # 0 => d.classification \in {"improvement", "regression"}
    BY <2>1 DEF Classify
  <2> QED
    BY <1>1, <1>3, <2>1, <2>2, <2>3 DEF Verdicts
<1> QED
  BY <1>2, <1>3

\* What went up from one run to the other went down the other way round.
LEMMA Mirrored ==
    ASSUME NEW c, NEW b, MetricView(c), MetricView(b), NEW key \in Metrics
    PROVE  build_metric_delta(key, b, c).classification
             = Mirror(build_metric_delta(key, c, b).classification)
<1> DEFINE there == build_metric_delta(key, c, b)
           back == build_metric_delta(key, b, c)
<1>1. c[key] \in Int /\ b[key] \in Int
  BY DEF MetricView
<1>2. CASE NULL \in {c[key], b[key]}
  <2>1. there.classification = "unknown" /\ back.classification = "unknown"
    BY <1>2, DeltaType
  <2> QED
    BY <2>1 DEF Mirror
<1>3. CASE NULL \notin {c[key], b[key]}
  <2> DEFINE x == c[key] - b[key]
             y == b[key] - c[key]
             up == Policy[key].direction = "higher_is_better"
  <2>1. /\ there.classification = IF x = 0 THEN "neutral"
                                  ELSE IF (x > 0) = up THEN "improvement" ELSE "regression"
        /\ back.classification = IF y = 0 THEN "neutral"
                                 ELSE IF (y > 0) = up THEN "improvement" ELSE "regression"
    BY <1>3, DeltaType DEF Classify
  <2>2. /\ x = 0 <=> y = 0
        /\ x # 0 => ((x > 0) <=> ~(y > 0))
    BY <1>1
  <2>3. \/ there.classification = "neutral" /\ back.classification = "neutral"
        \/ there.classification = "improvement" /\ back.classification = "regression"
        \/ there.classification = "regression" /\ back.classification = "improvement"
    <3> HIDE DEF there, back, x, y
    <3> QED
      BY <2>1, <2>2
  <2> QED
    BY <2>3 DEF Mirror
<1> QED
  BY <1>2, <1>3

\* The metrics that moved, by their place in the order.
Moved(deltas) ==
    {n \in DOMAIN Order : deltas[Order[n]].classification \in {"regression", "improvement"}}
Weight(deltas) == [n \in Moved(deltas) |-> Size(deltas[Order[n]].delta)]
Shown(deltas) == IF Cardinality(Moved(deltas)) <= 5 THEN Cardinality(Moved(deltas)) ELSE 5

\* The places in the order.
LEMMA NinePlaces == IsFiniteSet(1..9)
<1>1. PICK n \in Int : n = 9
  OBVIOUS
<1>2. IsFiniteSet(1..n)
  BY FS_Interval
<1> QED
  BY <1>1, <1>2

\* The metrics that moved are finitely many numbers, with numbers for weights.
LEMMA MovedType ==
    ASSUME NEW deltas, \A key \in Metrics : deltas[key].delta \in Int
    PROVE  /\ Moved(deltas) \subseteq Int /\ IsFiniteSet(Moved(deltas))
           /\ Cardinality(Moved(deltas)) \in Nat
           /\ Weight(deltas) \in [Moved(deltas) -> Int]
           /\ Moved(deltas) \subseteq 1..9
<1>1. Moved(deltas) \in SUBSET (1..9)
  BY MetricNames DEF Moved
<1>2. IsFiniteSet(1..9)
  BY NinePlaces
<1>3. \A n \in 1..9 : Size(deltas[Order[n]].delta) \in Int
  BY MetricNames DEF Size
<1>4. IsFiniteSet(Moved(deltas))
  BY <1>1, <1>2, FS_Subset
<1>5. Cardinality(Moved(deltas)) \in Nat
  BY <1>4, FS_CardinalityType
<1>6. Weight(deltas) \in [Moved(deltas) -> Int]
  BY <1>1, <1>3 DEF Weight
<1> QED
  BY <1>1, <1>4, <1>5, <1>6

\* The highlights are those that have fewest before them.
LEMMA Highlights ==
    ASSUME NEW deltas, \A key \in Metrics : deltas[key].delta \in Int
    PROVE  \E chosen \in [1..Shown(deltas) -> Moved(deltas)] :
              /\ build_highlights(deltas) = [p \in 1..Shown(deltas) |-> Order[chosen[p]]]
              /\ \A p \in 1..Shown(deltas) :
                    Cardinality(Before(Moved(deltas), Weight(deltas), chosen[p])) = p - 1
<1>0. \A q \in 0..(Cardinality(Moved(deltas)) - 1) :
        \E n \in Moved(deltas) : Cardinality(Before(Moved(deltas), Weight(deltas), n)) = q
  BY MovedType, Ranks
<1> DEFINE M == Moved(deltas)
           w == Weight(deltas)
           By(n) == IF deltas[Order[n]].delta < 0 THEN -deltas[Order[n]].delta
                    ELSE deltas[Order[n]].delta
           Outranks(a, b) == By(a) > By(b) \/ (By(a) = By(b) /\ a < b)
           Ranked(p) == CHOOSE n \in M : Cardinality({k \in M : Outranks(k, n)}) = p - 1
           chosen == [p \in 1..Shown(deltas) |-> Ranked(p)]
<1>1. build_highlights(deltas) = [p \in 1..Min({5, Cardinality(M)}) |-> Order[Ranked(p)]]
  BY DEF build_highlights, Moved
<1>2. Min({5, Cardinality(M)}) = Shown(deltas)
  <2>1. Cardinality(M) \in Nat
    BY MovedType
  <2> QED
    BY <2>1, TwoNumbers DEF Shown
<1>3. \A n \in M : {k \in M : Outranks(k, n)} = Before(M, w, n)
  <2>1. \A n \in M : w[n] = By(n)
    BY DEF Weight, Size
  <2> QED
    BY <2>1 DEF Before
<1>4. ASSUME NEW p \in 1..Shown(deltas)
      PROVE  Ranked(p) \in M /\ Cardinality(Before(M, w, Ranked(p))) = p - 1
  <2>1. p - 1 \in 0..(Cardinality(M) - 1)
    <3>1. Cardinality(M) \in Nat
      BY MovedType
    <3> QED
      BY <3>1 DEF Shown
  <2>2. \E n \in M : Cardinality(Before(M, w, n)) = p - 1
    BY <1>0, <2>1
  <2>3. \E n \in M : Cardinality({k \in M : Outranks(k, n)}) = p - 1
    BY <1>3, <2>2
  <2>4. Ranked(p) \in M /\ Cardinality({k \in M : Outranks(k, Ranked(p))}) = p - 1
    <3> HIDE DEF M, Outranks
    <3> QED
      BY <2>3
  <2> QED
    BY <1>3, <2>4
<1>5. chosen \in [1..Shown(deltas) -> M]
  BY <1>4
<1>6. build_highlights(deltas) = [p \in 1..Shown(deltas) |-> Order[chosen[p]]]
  <2> HIDE DEF Ranked, M
  <2> QED
    BY <1>1, <1>2
<1>7. \A p \in 1..Shown(deltas) : Cardinality(Before(M, w, chosen[p])) = p - 1
  <2> HIDE DEF Ranked, M, w
  <2> QED
    BY <1>4
<1> HIDE DEF chosen
<1> QED
  BY <1>5, <1>6, <1>7

\* Nothing that moved further is left out.
LEMMA HighlightsAreFair ==
    ASSUME NEW deltas, \A key \in Metrics : /\ deltas[key].delta \in Int
                                            /\ deltas[key].classification \in Verdicts,
           \A key \in Metrics : deltas[key].classification \in {"neutral", "unknown"}
                => deltas[key].delta = 0,
           NEW key \in Metrics \ ToSet(build_highlights(deltas)), deltas[key].delta # 0
    PROVE  /\ Len(build_highlights(deltas)) = 5
           /\ \A s \in ToSet(build_highlights(deltas)) :
                Size(deltas[s].delta) >= Size(deltas[key].delta)
<1> DEFINE M == Moved(deltas)
           w == Weight(deltas)
           N == Shown(deltas)
           rank(n) == Cardinality(Before(M, w, n))
<1>1. PICK chosen \in [1..N -> M] :
              /\ build_highlights(deltas) = [p \in 1..N |-> Order[chosen[p]]]
              /\ \A p \in 1..N : rank(chosen[p]) = p - 1
  BY Highlights
<1>2. PICK n \in 1..9 : Order[n] = key
  BY MetricNames
<1>3. n \in M
  BY <1>2, MetricNames DEF Moved, Verdicts
<1>4. /\ M \subseteq Int /\ IsFiniteSet(M) /\ w \in [M -> Int]
      /\ Cardinality(M) \in Nat /\ N \in Nat
  BY MovedType DEF Shown
<1>r. /\ \A a, b \in M : rank(a) <= rank(b) => w[a] >= w[b]
      /\ \A a, b \in M : rank(a) = rank(b) => a = b
      /\ \A a \in M : rank(a) \in 0..(Cardinality(M) - 1)
  <2> HIDE DEF M, w
  <2> QED
    BY <1>4, Ranks
<1> HIDE DEF M, w, N, rank
<1>5. rank(n) \in 0..(Cardinality(M) - 1)
  BY <1>3, <1>r
<1>6. \A p \in 1..N : chosen[p] # n
  BY <1>1, <1>2 DEF ToSet
<1>7. rank(n) >= N
  <2> SUFFICES ASSUME rank(n) < N PROVE FALSE
    BY <1>4, <1>5
  <2>1. rank(n) + 1 \in 1..N
    BY <1>4, <1>5
  <2>2. rank(chosen[rank(n) + 1]) = rank(n) /\ chosen[rank(n) + 1] \in M
    BY <1>1, <1>4, <1>5, <2>1
  <2>3. chosen[rank(n) + 1] = n
    BY <1>3, <1>r, <2>2
  <2> QED
    BY <1>6, <2>1, <2>3
<1>8. N = 5
  BY <1>4, <1>5, <1>7 DEF Shown, N, M
<1>9. Len(build_highlights(deltas)) = 5
  <2>1. build_highlights(deltas) \in [1..5 -> Metrics]
    BY <1>1, <1>8, MovedType, MetricNames DEF M
  <2> QED
    BY <2>1
<1>10. ASSUME NEW s \in ToSet(build_highlights(deltas))
       PROVE  Size(deltas[s].delta) >= Size(deltas[key].delta)
  <2>1. PICK p \in 1..N : s = Order[chosen[p]]
    BY <1>1 DEF ToSet
  <2>2. rank(chosen[p]) <= rank(n) /\ chosen[p] \in M
    BY <1>1, <1>4, <1>5, <1>7
  <2>3. w[chosen[p]] >= w[n]
    BY <1>3, <1>r, <2>2
  <2>4. w[chosen[p]] = Size(deltas[s].delta) /\ w[n] = Size(deltas[key].delta)
    BY <1>2, <1>3, <2>1, <2>2 DEF Weight, w, M
  <2> QED
    BY <2>3, <2>4
<1> QED
  BY <1>9, <1>10

\* A comparison of any two views is fair.
LEMMA AnyComparisonIsFair ==
    ASSUME NEW c, NEW b, MetricView(c), MetricView(b)
    PROVE  IsFair(Compared(c, b))
<1> DEFINE there == Compared(c, b)
           deltas == build_metric_deltas(c, b)
<1>1. /\ there.current = c /\ there.baseline = b /\ there.deltas = deltas
      /\ there.highlights = build_highlights(deltas)
      /\ \A key \in Metrics : deltas[key] = build_metric_delta(key, c, b)
  BY DEF Compared, build_metric_deltas
<1>2. ASSUME NEW key \in Metrics
      PROVE  Verdict(Compared(b, c), key) = Mirror(Verdict(there, key))
  <2>1. Verdict(Compared(b, c), key) = build_metric_delta(key, b, c).classification
    BY DEF Verdict, Compared, build_metric_deltas
  <2>2. Verdict(there, key) = build_metric_delta(key, c, b).classification
    BY <1>1 DEF Verdict
  <2> QED
    BY <2>1, <2>2, Mirrored
<1>3. ASSUME NEW key \in Metrics \ {"wall_duration_ms"}, Verdict(there, key) # "unknown"
      PROVE  c.recorded /\ b.recorded
  <2>1. NULL \notin {c[key], b[key]}
    BY <1>1, <1>3, DeltaType DEF Verdict
  <2> QED
    BY <2>1 DEF MetricView
<1>4. ASSUME NEW key \in Metrics \ ToSet(there.highlights), there.deltas[key].delta # 0
      PROVE  /\ Len(there.highlights) = 5
             /\ \A s \in ToSet(there.highlights) :
                    Size(there.deltas[s].delta) >= Size(there.deltas[key].delta)
  <2>1. \A k \in Metrics : /\ deltas[k].delta \in Int /\ deltas[k].classification \in Verdicts
                           /\ deltas[k].classification \in {"neutral", "unknown"}
                                => deltas[k].delta = 0
    BY <1>1, DeltaType
  <2> HIDE DEF deltas, there
  <2> QED
    BY <1>1, <1>4, <2>1, HighlightsAreFair
<1>5. Compared(there.baseline, there.current) = Compared(b, c)
  BY <1>1
<1>6. IsFair(there)
  <2> HIDE DEF there, deltas
  <2> QED
    BY <1>1, <1>2, <1>3, <1>4, <1>5 DEF IsFair, HasValue
<1> QED
  BY <1>6

\* A trend that is known is judged in the same way.
LEMMA TrendIsJudged ==
    ASSUME NEW c, NEW b, MetricView(c), MetricView(b)
    PROVE  /\ build_trend(c.health_pct, b.health_pct) = "up"
                => build_metric_delta("health_pct", c, b).classification = "improvement"
           /\ build_trend(c.health_pct, b.health_pct) = "down"
                => build_metric_delta("health_pct", c, b).classification = "regression"
           /\ build_trend(c.health_pct, b.health_pct) = "flat"
                => build_metric_delta("health_pct", c, b).classification = "neutral"
           /\ build_trend(c.failed, b.failed) = "up"
                => build_metric_delta("failed", c, b).classification = "regression"
           /\ build_trend(c.failed, b.failed) = "down"
                => build_metric_delta("failed", c, b).classification = "improvement"
           /\ build_trend(c.failed, b.failed) = "flat"
                => build_metric_delta("failed", c, b).classification = "neutral"
           /\ build_trend(c.health_pct, b.health_pct) # "unknown" => c.recorded /\ b.recorded
           /\ build_trend(c.failed, b.failed) # "unknown" => c.recorded /\ b.recorded
<1>1. /\ c.health_pct \in Int /\ b.health_pct \in Int /\ c.failed \in Int /\ b.failed \in Int
      /\ c.health_pct # NULL => c.recorded
      /\ b.health_pct # NULL => b.recorded
      /\ c.failed # NULL => c.recorded
      /\ b.failed # NULL => b.recorded
  BY MetricNames DEF MetricView
<1>2. /\ Policy["health_pct"].direction = "higher_is_better"
      /\ Policy["failed"].direction = "lower_is_better"
  BY DEF Policy
<1>3. NULL \notin {c.health_pct, b.health_pct} =>
        build_metric_delta("health_pct", c, b).classification
            = Classify(c.health_pct - b.health_pct, "higher_is_better")
  BY <1>2, DeltaType, MetricNames
<1>4. NULL \notin {c.failed, b.failed} =>
        build_metric_delta("failed", c, b).classification
            = Classify(c.failed - b.failed, "lower_is_better")
  BY <1>2, DeltaType, MetricNames
<1> QED
  BY <1>1, <1>3, <1>4 DEF build_trend, Classify

\* Every metric is in one of the two groups.
LEMMA GroupsShare ==
    ASSUME NEW deltas, NEW v \in Verdicts
    PROVE  StatusSummary(deltas, {key \in Metrics : Policy[key].group = "reliability"})[v]
             + StatusSummary(deltas, {key \in Metrics : Policy[key].group = "performance"})[v]
           = Cardinality({key \in Metrics : deltas[key].classification = v})
<1> DEFINE A == {key \in Metrics : Policy[key].group = "reliability"}
           B == {key \in Metrics : Policy[key].group = "performance"}
           Of(K) == {key \in K : deltas[key].classification = v}
<1>1. A \cup B = Metrics /\ A \cap B = {}
  <2>1. \A key \in Metrics : Policy[key].group \in {"reliability", "performance"}
    BY MetricNames DEF Policy
  <2> QED
    BY <2>1
<1>2. IsFiniteSet(Metrics)
  <2> DEFINE f == [n \in 1..9 |-> Order[n]]
  <2>1. f \in Surjection(1..9, Metrics)
    BY MetricNames DEF Surjection
  <2> HIDE DEF f
  <2> QED
    BY <2>1, NinePlaces, FS_Surjection
<1>3. Of(A) \in SUBSET Metrics /\ Of(B) \in SUBSET Metrics
  OBVIOUS
<1>4. Of(A) \cup Of(B) = Of(Metrics) /\ Of(A) \cap Of(B) = {}
  BY <1>1
<1>5. Cardinality(Of(Metrics)) = Cardinality(Of(A)) + Cardinality(Of(B))
  <2> HIDE DEF Of
  <2>1. IsFiniteSet(Of(A)) /\ IsFiniteSet(Of(B))
    BY <1>2, <1>3, FS_Subset
  <2> QED
    BY <1>4, <2>1, Together
<1>6. \A K : StatusSummary(deltas, K)[v] = Cardinality(Of(K))
  BY DEF StatusSummary, Verdicts
<1> HIDE DEF A, B
<1>7. StatusSummary(deltas, A)[v] + StatusSummary(deltas, B)[v] = Cardinality(Of(Metrics))
  <2> HIDE DEF Of
  <2>1. /\ StatusSummary(deltas, A)[v] = Cardinality(Of(A))
        /\ StatusSummary(deltas, B)[v] = Cardinality(Of(B))
    BY <1>6
  <2> QED
    BY <1>5, <2>1
<1> QED
  BY <1>7 DEF A, B

-----------------------------------------------------------------------------
(* The inductive invariant                                                 *)

TableTypes == /\ rows \in Seq(Row) /\ Len(rows) <= MaxRows
              /\ \A i \in DOMAIN rows : RowInv(rows[i])
              /\ \A i \in DOMAIN rows : rows[i].recorded => i \in DOMAIN saved
              /\ DOMAIN saved \subseteq DOMAIN rows
              /\ \A i \in DOMAIN saved : saved[i] \in Row /\ RowInv(saved[i])

\* A request has read something.
Reading == pc \notin {"idle", "answered"}

\* A view that was taken of a recorded row is the row's, unless the row was written back since.
Known(v) == /\ v \in ViewRecord /\ MetricView(v) /\ v.id \in DOMAIN rows
            /\ v.recorded /\ v.id \notin rewritten => v = View(v.id)

\* What a request has read: each later view is at least as new as an earlier one of the row.
RequestInv ==
    /\ Reading \/ sessions = <<>>
    /\ pc \in {"idle", "listed", "latest", "both", "current", "delta", "recent", "answered"}
    /\ sessions \in Seq(ViewRecord) /\ Len(sessions) <= MaxRows
    /\ \A n \in DOMAIN sessions :
            /\ Known(sessions[n])
            /\ n + 1 \in DOMAIN sessions => sessions[n + 1].id < sessions[n].id
    /\ IF pc \in {"latest", "both", "current"}
       THEN /\ sessions # <<>> /\ Known(latest) /\ latest.id = sessions[1].id
            /\ sessions[1].recorded /\ sessions[1].id \notin rewritten => latest = sessions[1]
       ELSE latest = NoRun
    /\ IF pc \in {"both", "current"} THEN Known(baseline)
       ELSE IF pc = "delta" THEN baseline.id \in 0..MaxRows ELSE baseline = NoRun
    /\ IF pc \in {"delta", "current"} THEN Known(current) ELSE current = NoRun
    /\ pc = "current" => /\ current.id = latest.id
                         /\ latest.recorded /\ latest.id \notin rewritten => current = latest

LinksKnown ==
    Shows("recent") => \A n \in DOMAIN answer.links : answer.links[n] # NoRun =>
        /\ {answer.links[n].current, answer.links[n].baseline} \subseteq DOMAIN rows
        /\ answer.links[n].baseline < answer.links[n].current

AnswerInv ==
    /\ answer.code \in {0, 200, 400, 404, 422}
    /\ ReadsAgree /\ DeltaIsFair /\ RollupsAccount /\ LinksKnown

AnalyticsIInv == TableTypes /\ RequestInv /\ AnswerInv

\* The invariant holds of an empty table and no request.
LEMMA InitAnalytics == AnalyticsInit => AnalyticsIInv
<1> SUFFICES ASSUME AnalyticsInit PROVE AnalyticsIInv
  OBVIOUS
<1>1. TableTypes
  BY MaxRowsAssumption DEF AnalyticsInit, TableTypes
<1>2. RequestInv
  BY MaxRowsAssumption DEF AnalyticsInit, RequestInv
<1>3. AnswerInv
  BY DEF AnalyticsInit, AnswerInv, NoAnswer, Shows, ReadsAgree, DeltaIsFair, RollupsAccount,
         LinksKnown
<1> QED
  BY <1>1, <1>2, <1>3 DEF AnalyticsIInv

\* A run is found if there is a row for it, and its view is known.
LEMMA LookUp ==
    ASSUME TableTypes, NEW i
    PROVE  /\ i \in DOMAIN rows => get_run(i) = View(i) /\ Known(View(i)) /\ View(i).id = i
           /\ i \notin DOMAIN rows => get_run(i) = NoRun
           /\ DOMAIN rows = 1..Len(rows) /\ Len(rows) \in Nat
<1>1. DOMAIN rows = 1..Len(rows) /\ Len(rows) \in Nat /\ \A k \in DOMAIN rows : rows[k] \in Row
  BY LenProperties, ElementOfSeq DEF TableTypes
<1>2. ASSUME i \in DOMAIN rows PROVE Known(View(i)) /\ View(i).id = i
  <2>1. View(i) \in ViewRecord /\ MetricView(View(i)) /\ View(i).id = i
    BY <1>1, <1>2, ViewType DEF TableTypes
  <2> QED
    BY <1>2, <2>1 DEF Known
<1> QED
  BY <1>1, <1>2 DEF get_run

\* A view is no answer that there is no such run.
LEMMA KnownIsRun == ASSUME TableTypes, NEW v, Known(v) PROVE v # NoRun /\ v.id \in 1..MaxRows
<1>1. v.id \in 1..Len(rows) /\ Len(rows) \in Nat /\ Len(rows) <= MaxRows
  BY LookUp DEF Known, TableTypes
<1> QED
  BY <1>1, MaxRowsAssumption DEF NoRun

-----------------------------------------------------------------------------
(* The table                                                               *)

\* Rows are added, and while a request reads the table one that has been recorded stays as it is,
\* or else is among those written back.
Grows == /\ DOMAIN rows \subseteq DOMAIN rows'
         /\ rewritten \subseteq rewritten'
         /\ Reading => \A i \in DOMAIN rows \ rewritten' : rows[i].recorded => rows'[i] = rows[i]

\* A row is added.
LEMMA NewRowType ==
    ASSUME TableTypes, NEW k \in Kinds \cup {Unknown}, NEW st \in States,
           Len(rows) < MaxRows, rows' = Append(rows, NewRow(k, st)), UNCHANGED <<saved, rewritten>>
    PROVE  TableTypes' /\ Grows
<1>1. NewRow(k, st) \in Row /\ RowInv(NewRow(k, st))
  BY DEF NewRow, Row, RowInv, NULL
<1>2. rows \in Seq(Row) /\ Len(rows) \in Nat /\ DOMAIN rows = 1..Len(rows)
  BY LookUp DEF TableTypes
<1> DEFINE row == NewRow(k, st)
<1>3. /\ rows' \in Seq(Row) /\ Len(rows') = Len(rows) + 1
      /\ DOMAIN rows' = DOMAIN rows \cup {Len(rows) + 1}
      /\ \A i \in DOMAIN rows : rows'[i] = rows[i]
      /\ rows'[Len(rows) + 1] = row
  <2> HIDE DEF row
  <2>1. /\ rows' \in Seq(Row) /\ Len(rows') = Len(rows) + 1
        /\ \A i \in 1..Len(rows) : rows'[i] = rows[i]
        /\ rows'[Len(rows) + 1] = row
    BY <1>1, <1>2, AppendProperties DEF row
  <2>2. DOMAIN rows' = 1..Len(rows')
    BY <2>1, LenProperties
  <2> QED
    BY <1>2, <2>1, <2>2
<1>4. /\ \A i \in DOMAIN rows' : RowInv(rows'[i])
      /\ \A i \in DOMAIN rows' : rows'[i].recorded => i \in DOMAIN saved
  <2>1. row.recorded = FALSE
    BY DEF NewRow
  <2> HIDE DEF row
  <2> QED
    BY <1>1, <1>3, <2>1 DEF TableTypes, row
<1>5. TableTypes'
  BY <1>2, <1>3, <1>4, MaxRowsAssumption DEF TableTypes, RowInv
<1> QED
  BY <1>3, <1>5 DEF Grows

\* A row is changed: one that has not been recorded, or else it is among those written back.
LEMMA ChangedRowType ==
    ASSUME TableTypes, NEW i \in DOMAIN rows, NEW row \in Row, RowInv(row),
           rows' = [rows EXCEPT ![i] = row], row.recorded => i \in DOMAIN saved',
           \/ saved' = saved
           \/ saved' = [k \in DOMAIN saved \cup {i} |-> IF k = i THEN row ELSE saved[k]],
           rewritten \subseteq rewritten', Reading /\ rows[i].recorded => i \in rewritten'
    PROVE  TableTypes' /\ Grows
<1>1. rows \in Seq(Row) /\ Len(rows) \in Nat /\ DOMAIN rows = 1..Len(rows)
  BY LookUp DEF TableTypes
<1>2. rows' \in Seq(Row) /\ Len(rows') = Len(rows) /\ DOMAIN rows' = DOMAIN rows
  BY <1>1, ExceptSeq
<1>3. \A k \in DOMAIN rows : rows'[k] = IF k = i THEN row ELSE rows[k]
  OBVIOUS
<1>4. /\ DOMAIN saved \subseteq DOMAIN saved' /\ DOMAIN saved' \subseteq DOMAIN rows
      /\ \A k \in DOMAIN saved' : saved'[k] \in Row /\ RowInv(saved'[k])
  BY DEF TableTypes
<1>5. /\ \A k \in DOMAIN rows' : RowInv(rows'[k])
      /\ \A k \in DOMAIN rows' : rows'[k].recorded => k \in DOMAIN saved'
  BY <1>2, <1>3, <1>4 DEF TableTypes
<1>6. TableTypes'
  BY <1>2, <1>4, <1>5 DEF TableTypes, RowInv
<1> QED
  BY <1>2, <1>3, <1>6 DEF Grows

\* Each step of the engine, a cleanup or a summary keeps the table in order and leaves the requests
\* alone.
LEMMA TableSteps ==
    ASSUME TableTypes, TableStep
    PROVE  TableTypes' /\ Grows /\ UNCHANGED <<pc, request, answer>>
<1>1. ASSUME NEW k \in Kinds, CreateRun(k) PROVE TableTypes' /\ Grows
  BY <1>1, NewRowType DEF CreateRun, States
<1>2. ASSUME NEW s \in {"COMPLETED", "FAILED"}, PersistCycle(s) PROVE TableTypes' /\ Grows
  BY <1>2, NewRowType DEF PersistCycle, States
<1>3. ASSUME NEW i \in DOMAIN rows
      PROVE  rows[i] \in Row /\ RowInv(rows[i]) /\ (rows[i].recorded => i \in DOMAIN saved)
  BY LookUp, ElementOfSeq DEF TableTypes
<1>4. ASSUME NEW i \in DOMAIN rows, FailRun(i) PROVE TableTypes' /\ Grows
  <2> DEFINE row == [rows[i] EXCEPT !.status = "FAILED"]
  <2>1. row \in Row /\ RowInv(row) /\ ~rows[i].recorded /\ ~row.recorded
    BY <1>3, <1>4 DEF FailRun, Row, RowInv, States
  <2>2. rows' = [rows EXCEPT ![i] = row] /\ saved' = saved /\ rewritten' = rewritten
    BY <1>4 DEF FailRun
  <2> HIDE DEF row
  <2> QED
    BY <2>1, <2>2, ChangedRowType
<1>5. ASSUME NEW i \in DOMAIN rows, NEW o \in Outcomes, RecordRun(i, o) PROVE TableTypes' /\ Grows
  <2> DEFINE m == IF o.is_dir THEN parse_allure_results_dir(o.files) ELSE Nothing
             row == [kind |-> rows[i].kind,
                     status |-> IF o.returncode = 0 THEN "COMPLETED" ELSE "FAILED",
                     recorded |-> TRUE, returncode |-> o.returncode, wall |-> o.wall,
                     health |-> o.health, m |-> m]
  <2>1. /\ o.returncode \in Int /\ o.wall \in Int /\ o.health \in Int
        /\ IsDirectory(o.files)
    BY OutcomesAssumption
  <2>2. m \in Measured \cup {Nothing}
    BY <2>1, MetricsType
  <2>3. row \in Row /\ RowInv(row)
    <3> HIDE DEF m
    <3> QED
      BY <1>3, <2>1, <2>2 DEF Row, RowInv, States
  <2>4. /\ rows' = [rows EXCEPT ![i] = row] /\ ~rows[i].recorded /\ rewritten' = rewritten
        /\ saved' = [k \in DOMAIN saved \cup {i} |-> IF k = i THEN rows'[i] ELSE saved[k]]
    BY <1>3, <1>5 DEF RecordRun
  <2>5. rows'[i] = row
    <3> HIDE DEF row
    <3> QED
      BY <2>4
  <2> HIDE DEF row
  <2> QED
    BY <2>3, <2>4, <2>5, ChangedRowType
<1>6. ASSUME NEW i \in DOMAIN rows, NEW row \in Row, RowInv(row), WrittenBack(i, row),
             row.recorded => i \in DOMAIN saved
      PROVE  TableTypes' /\ Grows
  <2>1. /\ rows' = [rows EXCEPT ![i] = row] /\ saved' = saved /\ rewritten \subseteq rewritten'
        /\ Reading /\ rows[i].recorded => i \in rewritten'
    BY <1>3, <1>6 DEF WrittenBack, Reading
  <2> QED
    BY <1>6, <2>1, ChangedRowType
<1>7. ASSUME NEW i \in DOMAIN rows, CleanUpRun(i) PROVE TableTypes' /\ Grows
  <2>1. /\ NewRow(rows[i].kind, "FAILED") \in Row /\ RowInv(NewRow(rows[i].kind, "FAILED"))
        /\ ~NewRow(rows[i].kind, "FAILED").recorded
    BY <1>3 DEF NewRow, Row, RowInv, States, NULL
  <2> QED
    BY <1>6, <1>7, <2>1 DEF CleanUpRun
<1>8. ASSUME NEW i \in DOMAIN rows, AnnotateRun(i) PROVE TableTypes' /\ Grows
  BY <1>6, <1>8 DEF AnnotateRun, TableTypes
<1>9. UNCHANGED <<pc, request, answer>>
  BY DEF TableStep, CreateRun, PersistCycle, FailRun, RecordRun, CleanUpRun, AnnotateRun,
         WrittenBack
<1> QED
  BY <1>1, <1>2, <1>4, <1>5, <1>7, <1>8, <1>9 DEF TableStep

\* What is known of a row stays known.
Keeps == \A v : Known(v) => Known(v)'

\* While a request reads the table nothing that is known gets lost.
LEMMA KnownStays == ASSUME Grows, Reading PROVE Keeps
<1> SUFFICES ASSUME NEW v, Known(v) PROVE Known(v)'
  BY DEF Keeps
<1>1. v.recorded /\ v.id \notin rewritten' => rows'[v.id] = rows[v.id] /\ v.id \notin rewritten
  <2>1. ASSUME v.recorded, v.id \notin rewritten' PROVE rows[v.id].recorded /\ v.id \notin rewritten
    BY <2>1 DEF Known, View, Grows
  <2> QED
    BY <2>1 DEF Known, Grows
<1>2. v.recorded /\ v.id \notin rewritten' => View(v.id)' = View(v.id)
  BY <1>1 DEF View
<1> QED
  BY <1>1, <1>2 DEF Known, Grows

\* So does what is known of the rows that were listed,
LEMMA SessionsStay ==
    ASSUME Keeps, \A n \in DOMAIN sessions : Known(sessions[n]), sessions' = sessions
    PROVE  \A n \in DOMAIN sessions' : Known(sessions[n])'
<1> SUFFICES ASSUME NEW n \in DOMAIN sessions PROVE Known(sessions[n])'
  OBVIOUS
<1>1. PICK v : v = sessions[n]
  OBVIOUS
<1>2. Known(v)' /\ sessions'[n] = v
  BY <1>1 DEF Keeps
<1> QED
  BY <1>2 DEF Known

\* and of those that were looked up.
LEMMA KnownVariable ==
    ASSUME Keeps
    PROVE  /\ latest' = latest /\ Known(latest) => Known(latest)'
           /\ baseline' = baseline /\ Known(baseline) => Known(baseline)'
           /\ current' = current /\ Known(current) => Known(current)'
<1>1. PICK u, v, w : u = latest /\ v = baseline /\ w = current
  OBVIOUS
<1>2. /\ Known(u) => Known(u)'
      /\ Known(v) => Known(v)'
      /\ Known(w) => Known(w)'
  BY DEF Keeps
<1> QED
  BY <1>1, <1>2 DEF Known

\* The table goes on while a request is under way, and between requests.
LEMMA RequestStays ==
    ASSUME AnalyticsIInv, Grows, UNCHANGED <<pc, request, answer>>
    PROVE  RequestInv' /\ AnswerInv'
<1>1. ASSUME Reading PROVE RequestInv'
  <2>1. /\ \A n \in DOMAIN sessions' : Known(sessions[n])'
        /\ Known(latest) => Known(latest)'
        /\ Known(baseline) => Known(baseline)'
        /\ Known(current) => Known(current)'
    BY <1>1, KnownStays, SessionsStay, KnownVariable DEF AnalyticsIInv, RequestInv, request
  <2> QED
    BY <1>1, <2>1 DEF AnalyticsIInv, RequestInv, request, Grows, Reading
<1>2. ASSUME ~Reading PROVE RequestInv'
  <2>1. sessions' = <<>> /\ latest' = NoRun /\ baseline' = NoRun /\ current' = NoRun
    BY <1>2 DEF AnalyticsIInv, RequestInv, request, Reading
  <2>2. DOMAIN sessions' = {}
    BY <2>1
  <2> QED
    BY <1>2, <2>1, <2>2 DEF AnalyticsIInv, RequestInv, request, Reading
<1>3. RequestInv'
  BY <1>1, <1>2
<1>4. LinksKnown'
  BY DEF AnalyticsIInv, AnswerInv, LinksKnown, Shows, Grows
<1>5. ReadsAgree'
  BY DEF AnalyticsIInv, AnswerInv, ReadsAgree, Shows, Verdict, Grows
<1>6. AnswerInv'
  BY <1>4, <1>5 DEF AnalyticsIInv, AnswerInv, DeltaIsFair, RollupsAccount, Shows
<1> QED
  BY <1>3, <1>6

-----------------------------------------------------------------------------
(* The requests                                                            *)

\* What list_run_sessions returns, newest row first.
LEMMA Listing ==
    ASSUME TableTypes, NEW limit \in Nat \ {0}
    PROVE  /\ list_run_sessions(limit) \in Seq(ViewRecord)
           /\ Len(list_run_sessions(limit)) <= MaxRows
           /\ \A n \in DOMAIN list_run_sessions(limit) :
                /\ Known(list_run_sessions(limit)[n])
                /\ n + 1 \in DOMAIN list_run_sessions(limit) =>
                    list_run_sessions(limit)[n + 1].id < list_run_sessions(limit)[n].id
<1> DEFINE len == Len(rows)
           m == Min({limit, Len(rows)})
           s == list_run_sessions(limit)
<1>1. len \in Nat /\ DOMAIN rows = 1..len /\ len <= MaxRows
  BY LookUp DEF TableTypes
<1>2. m \in Nat /\ m <= len
  BY <1>1, TwoNumbers
<1>3. s = [n \in 1..m |-> View(len + 1 - n)]
  BY DEF list_run_sessions
<1>4. ASSUME NEW n \in 1..m
      PROVE  s[n] = View(len + 1 - n) /\ Known(s[n]) /\ s[n].id = len + 1 - n
  <2>1. s[n] = View(len + 1 - n) /\ len + 1 - n \in DOMAIN rows
    BY <1>1, <1>2, <1>3
  <2> QED
    BY <2>1, LookUp
<1> HIDE DEF m, s
<1>5. s \in Seq(ViewRecord) /\ Len(s) = m /\ DOMAIN s = 1..m
  <2>1. DOMAIN s = 1..m /\ \A n \in 1..m : s[n] \in ViewRecord
    BY <1>3, <1>4 DEF Known
  <2>2. s \in [1..m -> ViewRecord]
    BY <1>3, <2>1
  <2>3. s \in Seq(ViewRecord)
    BY <1>2, <2>2, SeqDef
  <2> QED
    BY <1>2, <2>1, <2>3, LenProperties
<1>6. \A n \in 1..m : n + 1 \in 1..m => s[n + 1].id < s[n].id
  BY <1>1, <1>2, <1>4
<1>7. len <= MaxRows => m <= MaxRows
  BY <1>1, <1>2, MaxRowsAssumption
<1> QED
  BY <1>1, <1>4, <1>5, <1>6, <1>7 DEF s

\* What is known stays known if the table stays as it is.
LEMMA TableStays ==
    ASSUME UNCHANGED table
    PROVE  /\ Grows /\ Keeps
           /\ TableTypes => TableTypes'
<1>1. rows' = rows /\ saved' = saved /\ rewritten' = rewritten
  BY DEF table
<1>2. Grows
  BY <1>1 DEF Grows
<1>3. TableTypes => TableTypes'
  BY <1>1 DEF TableTypes, RowInv
<1>4. Keeps
  BY <1>1 DEF Keeps, Known, View
<1> QED
  BY <1>2, <1>3, <1>4

\* A request that has been answered has forgotten what it read.
LEMMA AnswerGiven ==
    ASSUME TableTypes, NEW a, Answered(a)
    PROVE  RequestInv' /\ answer' = a /\ rows' = rows /\ rewritten' = rewritten
<1>1. /\ pc' = "answered" /\ sessions' = <<>> /\ latest' = NoRun /\ baseline' = NoRun
      /\ current' = NoRun /\ answer' = a /\ rows' = rows /\ rewritten' = rewritten
  BY DEF Answered, table
<1>2. sessions' \in Seq(ViewRecord) /\ Len(sessions') <= MaxRows /\ DOMAIN sessions' = {}
  BY <1>1, MaxRowsAssumption
<1>3. RequestInv'
  BY <1>1, <1>2 DEF RequestInv
<1> QED
  BY <1>1, <1>3

\* An answer that shows nothing.
LEMMA NothingShown ==
    ASSUME answer'.code \in {0, 400, 404, 422}
    PROVE  AnswerInv'
BY DEF AnswerInv, Shows, ReadsAgree, DeltaIsFair, RollupsAccount, LinksKnown

\* The answer stays until the next one.
LEMMA AnswerStays ==
    ASSUME AnswerInv, UNCHANGED table, answer' = answer
    PROVE  AnswerInv'
<1>1. rows' = rows /\ rewritten' = rewritten
  BY DEF table
<1>2. ReadsAgree'
  BY <1>1 DEF AnswerInv, ReadsAgree, Shows, Verdict
<1> QED
  BY <1>1, <1>2 DEF AnswerInv, Shows, DeltaIsFair, RollupsAccount, LinksKnown

\* A delta is asked for: refused, or the current run is looked up.
LEMMA GetDeltaSteps ==
    ASSUME AnalyticsIInv, NEW cur \in 0..MaxRows, NEW base \in 0..MaxRows, GetDelta(cur, base)
    PROVE  RequestInv' /\ AnswerInv'
<1>1. TableTypes /\ RequestInv /\ AnswerInv
  BY DEF AnalyticsIInv
<1>2. ASSUME NEW code \in {400, 404}, Answered([code |-> code]) PROVE RequestInv' /\ AnswerInv'
  <2>1. RequestInv' /\ answer' = [code |-> code]
    BY <1>1, <1>2, AnswerGiven
  <2> QED
    BY <2>1, NothingShown
<1>3. CASE 0 \in {cur, base}
  BY <1>2, <1>3 DEF GetDelta
<1>4. CASE 0 \notin {cur, base} /\ get_run(cur) = NoRun
  BY <1>2, <1>4 DEF GetDelta
<1>5. CASE 0 \notin {cur, base} /\ get_run(cur) # NoRun
  <2>1. /\ pc = "idle" /\ pc' = "delta" /\ current' = get_run(cur) /\ baseline' = [id |-> base]
        /\ UNCHANGED <<table, sessions, latest, answer>>
    BY <1>5 DEF GetDelta
  <2>2. PICK v : v = get_run(cur)
    OBVIOUS
  <2>3. Known(v)
    BY <1>1, <1>5, <2>2, LookUp
  <2>4. Known(current)'
    BY <2>1, <2>2, <2>3, TableStays DEF Known, Keeps
  <2>5. \A n \in DOMAIN sessions' : Known(sessions[n])'
    BY <1>1, <2>1, TableStays, SessionsStay DEF RequestInv
  <2>6. RequestInv'
    BY <1>1, <2>1, <2>4, <2>5 DEF RequestInv, Reading, table
  <2> QED
    BY <1>1, <2>1, <2>6, AnswerStays
<1> QED
  BY <1>3, <1>4, <1>5

\* The baseline is looked up and the comparison, if there is one, is fair.
LEMMA LookUpBaselineOfDeltaSteps ==
    ASSUME AnalyticsIInv, LookUpBaselineOfDelta
    PROVE  RequestInv' /\ AnswerInv'
<1>1. TableTypes /\ RequestInv /\ AnswerInv /\ Known(current)
  BY DEF AnalyticsIInv, RequestInv, LookUpBaselineOfDelta
<1> DEFINE base == get_run(baseline.id)
           code == CompareError(current, base)
<1>2. CASE code # 200
  <2>1. Answered([code |-> code]) /\ code \in {404, 422}
    BY <1>2 DEF LookUpBaselineOfDelta, CompareError
  <2>2. RequestInv' /\ answer' = [code |-> code]
    BY <1>1, <2>1, AnswerGiven
  <2> QED
    BY <2>1, <2>2, NothingShown
<1>3. CASE code = 200
  <2> DEFINE d == Compared(current, base)
             a == [code |-> 200, kind |-> "delta", delta |-> d]
  <2>1. Answered(a)
    BY <1>3 DEF LookUpBaselineOfDelta
  <2>2. base # NoRun
    BY <1>3 DEF CompareError
  <2>3. MetricView(current) /\ MetricView(base)
    BY <1>1, <2>2, LookUp DEF Known
  <2>4. IsFair(d)
    BY <2>3, AnyComparisonIsFair
  <2> HIDE DEF d
  <2>5. RequestInv' /\ answer' = a
    BY <1>1, <2>1, AnswerGiven
  <2>6. answer'.code = 200 /\ answer'.kind = "delta" /\ answer'.delta = d
    BY <2>5
  <2>7. DeltaIsFair'
    BY <2>4, <2>6 DEF DeltaIsFair
  <2>8. (ReadsAgree /\ RollupsAccount /\ LinksKnown)'
    BY <2>6 DEF ReadsAgree, RollupsAccount, LinksKnown, Shows
  <2> QED
    BY <2>5, <2>6, <2>7, <2>8 DEF AnswerInv
<1> QED
  BY <1>2, <1>3

\* The first read of an overview, and the only one of the recent runs.
LEMMA ListingSteps ==
    ASSUME AnalyticsIInv, NEW limit \in Limits, GetOverview(limit) \/ GetRecentRuns(limit)
    PROVE  RequestInv' /\ AnswerInv'
<1>1. TableTypes /\ RequestInv /\ AnswerInv /\ limit \in Int
  BY LimitsAssumption DEF AnalyticsIInv
<1>2. CASE limit <= 0
  <2>1. Answered([code |-> 400])
    BY <1>2 DEF GetOverview, GetRecentRuns
  <2>2. RequestInv' /\ answer' = [code |-> 400]
    BY <1>1, <2>1, AnswerGiven
  <2> QED
    BY <2>2, NothingShown
<1>3. CASE limit > 0
  <2>1. /\ pc = "idle" /\ pc' \in {"listed", "recent"}
        /\ UNCHANGED <<table, latest, baseline, current, answer>>
    BY <1>1, <1>3 DEF GetOverview, GetRecentRuns
  <2>2. PICK n \in Nat \ {0} : sessions' = list_run_sessions(n)
    <3>1. Max({2, limit}) = IF 2 >= limit THEN 2 ELSE limit
      <4>1. 2 \in Int /\ limit \in Int
        BY <1>1
      <4> QED
        BY <4>1, TwoNumbers
    <3>2. Max({2, limit}) \in Nat \ {0} /\ limit \in Nat \ {0}
      BY <1>1, <1>3, <3>1
    <3> QED
      BY <1>1, <1>3, <3>2 DEF GetOverview, GetRecentRuns
  <2>3. PICK s : s = list_run_sessions(n)
    OBVIOUS
  <2>4. /\ s \in Seq(ViewRecord) /\ Len(s) <= MaxRows
        /\ \A k \in DOMAIN s : /\ Known(s[k])
                               /\ k + 1 \in DOMAIN s => s[k + 1].id < s[k].id
    BY <1>1, <2>3, Listing
  <2>5. sessions' = s
    BY <2>2, <2>3
  <2>6. \A k \in DOMAIN sessions' : Known(sessions[k])'
    <3> SUFFICES ASSUME NEW k \in DOMAIN s PROVE Known(sessions[k])'
      BY <2>5
    <3>1. PICK v : v = s[k]
      OBVIOUS
    <3>2. Known(v)' /\ sessions'[k] = v
      BY <2>1, <2>4, <2>5, <3>1, TableStays DEF Keeps
    <3> QED
      BY <3>2 DEF Known
  <2>7. RequestInv'
    BY <1>1, <2>1, <2>4, <2>5, <2>6 DEF RequestInv, Reading, table
  <2> QED
    BY <1>1, <2>1, <2>7, AnswerStays
<1> QED
  BY <1>1, <1>2, <1>3
\* The parts of an overview.
LEMMA OverviewParts ==
    ASSUME NEW delta, NEW notes
    PROVE  LET a == Overview(delta, notes)
           IN  /\ a.code = 200 /\ a.kind = "overview" /\ a.listed = sessions /\ a.delta = delta
               /\ latest # NoRun => a.headline = latest
               /\ latest # NoRun /\ baseline # NoRun =>
                    /\ a.health = build_trend(latest.health_pct, baseline.health_pct)
                    /\ a.failed = build_trend(latest.failed, baseline.failed)
               /\ a.degraded <=> notes # {}
BY DEF Overview

\* An overview without a comparison says that it is degraded.
LEMMA DegradedOverview ==
    ASSUME AnalyticsIInv, NEW notes, notes # {}, Answered(Overview({}, notes)),
           (pc = "listed" /\ sessions = <<>>) \/ pc \in {"latest", "current"}
    PROVE  RequestInv' /\ AnswerInv'
<1> DEFINE a == Overview({}, notes)
<1>1. TableTypes /\ RequestInv
  BY DEF AnalyticsIInv
<1>2. RequestInv' /\ answer' = a /\ rewritten' = rewritten
  BY <1>1, AnswerGiven
<1>3. /\ a.code = 200 /\ a.kind = "overview" /\ a.listed = sessions /\ a.delta = {} /\ a.degraded
      /\ latest # NoRun => a.headline = latest
  BY OverviewParts
<1>4. a.reliability = NoRollup /\ a.performance = NoRollup
  BY DEF Overview
<1> HIDE DEF a
<1>5. a.listed # <<>> /\ a.listed[1].recorded /\ a.listed[1].id \notin rewritten
        => a.headline = a.listed[1]
  <2>1. CASE pc = "listed"
    BY <1>3, <2>1
  <2>2. CASE pc # "listed"
    <3>1. /\ Known(latest)
          /\ sessions[1].recorded /\ sessions[1].id \notin rewritten => latest = sessions[1]
      BY <1>1, <2>2 DEF RequestInv
    <3>2. latest # NoRun
      BY <1>1, <3>1, KnownIsRun
    <3> QED
      BY <1>3, <3>1, <3>2
  <2> QED
    BY <2>1, <2>2
<1>6. ReadsAgree'
  BY <1>2, <1>3, <1>5 DEF ReadsAgree
<1>7. RollupsAccount'
  <2>1. \A c \in DOMAIN NoRollup.summary : NoRollup.summary[c] + NoRollup.summary[c] = 0
    BY DEF NoRollup
  <2> QED
    BY <1>2, <1>3, <1>4, <2>1 DEF RollupsAccount
<1>8. (DeltaIsFair /\ LinksKnown)'
  BY <1>2, <1>3 DEF DeltaIsFair, LinksKnown, Shows
<1> QED
  BY <1>2, <1>3, <1>6, <1>7, <1>8 DEF AnswerInv

\* An overview with a comparison agrees with it: a trend is known only where both rows have been
\* recorded, and then the rows that are compared are the ones that were looked up before.
LEMMA ComparedOverview ==
    ASSUME AnalyticsIInv, pc = "current", get_run(baseline.id) # NoRun,
           Answered(Overview({Compared(current, get_run(baseline.id))}, {}))
    PROVE  RequestInv' /\ AnswerInv'
<1> DEFINE base == get_run(baseline.id)
           d == Compared(current, base)
           a == Overview({d}, {})
<1>1. /\ TableTypes /\ RequestInv /\ Known(latest) /\ Known(baseline) /\ Known(current)
      /\ sessions[1].recorded /\ sessions[1].id \notin rewritten => latest = sessions[1]
      /\ current.id = latest.id
      /\ latest.recorded /\ latest.id \notin rewritten => current = latest
  BY DEF AnalyticsIInv, RequestInv
<1>2. RequestInv' /\ answer' = a /\ rewritten' = rewritten
  BY <1>1, AnswerGiven
<1>3. latest # NoRun /\ baseline # NoRun
  BY <1>1, KnownIsRun
<1>4. /\ Known(base) /\ base.id = baseline.id
      /\ baseline.recorded /\ baseline.id \notin rewritten => base = baseline
  <2>1. base = View(baseline.id) /\ Known(base) /\ base.id = baseline.id
    BY <1>1, LookUp DEF Known
  <2> QED
    BY <1>1, <2>1 DEF Known
<1>5. /\ a.code = 200 /\ a.kind = "overview" /\ a.listed = sessions /\ a.delta = {d}
      /\ ~a.degraded /\ a.headline = latest
      /\ a.health = build_trend(latest.health_pct, baseline.health_pct)
      /\ a.failed = build_trend(latest.failed, baseline.failed)
  BY <1>3, OverviewParts
<1>6. /\ a.reliability = build_rollup(d, "reliability")
      /\ a.performance = build_rollup(d, "performance")
  <2>1. (CHOOSE x \in {d} : TRUE) = d
    OBVIOUS
  <2> HIDE DEF d, base
  <2> QED
    BY <2>1 DEF Overview
<1>7. \A key \in Metrics : Verdict(d, key) = build_metric_delta(key, current, base).classification
  BY DEF Verdict, Compared, build_metric_deltas
<1>8. /\ d.deltas = build_metric_deltas(current, base)
      /\ d.summary = StatusSummary(d.deltas, Metrics) /\ d.current = current /\ d.baseline = base
  BY DEF Compared
<1>9. \A key \in Metrics : Verdict(d, key) = d.deltas[key].classification
  BY DEF Verdict
<1> HIDE DEF a, d, base
<1>10. ReadsAgree'
  <2>1. "health_pct" \in Metrics /\ "failed" \in Metrics
    BY MetricNames
  <2>2. ASSUME {d.current.id, d.baseline.id} \cap rewritten = {}
        PROVE  /\ a.health = "up" => Verdict(d, "health_pct") = "improvement"
               /\ a.health = "down" => Verdict(d, "health_pct") = "regression"
               /\ a.health = "flat" => Verdict(d, "health_pct") = "neutral"
               /\ a.failed = "up" => Verdict(d, "failed") = "regression"
               /\ a.failed = "down" => Verdict(d, "failed") = "improvement"
               /\ a.failed = "flat" => Verdict(d, "failed") = "neutral"
    <3>1. MetricView(latest) /\ MetricView(baseline)
      BY <1>1 DEF Known
    <3>2. latest.id \notin rewritten /\ baseline.id \notin rewritten
      BY <1>1, <1>4, <1>8, <2>2
    <3>3. /\ a.health # "unknown" => current = latest /\ base = baseline
          /\ a.failed # "unknown" => current = latest /\ base = baseline
      BY <1>1, <1>4, <1>5, <3>1, <3>2, TrendIsJudged
    <3> QED
      BY <1>5, <1>7, <2>1, <3>1, <3>3, TrendIsJudged
  <2>3. answer'.delta = {d} /\ answer'.health = a.health /\ answer'.failed = a.failed
    BY <1>2, <1>5
  <2> QED
    BY <1>1, <1>2, <1>5, <2>2, <2>3 DEF ReadsAgree, Verdict
<1>11. RollupsAccount'
  <2>1. \A v \in Verdicts : a.reliability.summary[v] + a.performance.summary[v]
            = Cardinality({key \in Metrics : Verdict(d, key) = v})
    <3>1. \A v \in Verdicts : a.reliability.summary[v] + a.performance.summary[v]
            = Cardinality({key \in Metrics : d.deltas[key].classification = v})
      BY <1>6, GroupsShare DEF build_rollup
    <3>2. \A v : {key \in Metrics : d.deltas[key].classification = v}
                   = {key \in Metrics : Verdict(d, key) = v}
      BY <1>9
    <3> QED
      BY <3>1, <3>2
  <2>2. DOMAIN d.summary = Verdicts
    BY <1>8 DEF StatusSummary, Verdicts
  <2> QED
    BY <1>2, <1>5, <2>1, <2>2 DEF RollupsAccount
<1>12. (DeltaIsFair /\ LinksKnown)'
  BY <1>2, <1>5 DEF DeltaIsFair, LinksKnown, Shows
<1> QED
  BY <1>2, <1>5, <1>10, <1>11, <1>12 DEF AnswerInv
\* The later reads of an overview.
LEMMA LookUpLatestSteps ==
    ASSUME AnalyticsIInv, LookUpLatest
    PROVE  RequestInv' /\ AnswerInv'
<1>1. TableTypes /\ RequestInv /\ AnswerInv /\ pc = "listed"
  BY DEF AnalyticsIInv, LookUpLatest
<1>2. CASE sessions = <<>>
  BY <1>1, <1>2, DegradedOverview DEF LookUpLatest
<1>3. CASE sessions # <<>>
  <2>1. 1 \in DOMAIN sessions
    BY <1>1, <1>3, LenProperties, EmptySeq DEF RequestInv
  <2>2. /\ Known(sessions[1]) /\ latest' = get_run(sessions[1].id) /\ pc' = "latest"
        /\ UNCHANGED <<table, sessions, baseline, current, answer>>
    BY <1>1, <1>3, <2>1 DEF RequestInv, LookUpLatest
  <2>3. PICK v : v = get_run(sessions[1].id)
    OBVIOUS
  <2>4. v = View(sessions[1].id) /\ Known(v) /\ v.id = sessions[1].id
    <3>1. sessions[1].id \in DOMAIN rows
      BY <2>2 DEF Known
    <3> QED
      BY <1>1, <2>3, <3>1, LookUp
  <2>5. sessions[1].recorded /\ sessions[1].id \notin rewritten => v = sessions[1]
    BY <2>2, <2>4 DEF Known
  <2>6. Known(latest)' /\ latest' = v
    <3>1. Known(v)' /\ latest' = v
      BY <2>2, <2>3, <2>4, TableStays DEF Keeps
    <3> QED
      BY <3>1 DEF Known
  <2>7. \A n \in DOMAIN sessions' : Known(sessions[n])'
    BY <1>1, <2>2, TableStays, SessionsStay DEF RequestInv
  <2>8. RequestInv'
    BY <1>1, <1>3, <2>2, <2>4, <2>5, <2>6, <2>7 DEF RequestInv, Reading, table
  <2> QED
    BY <1>1, <2>2, <2>8, AnswerStays
<1> QED
  BY <1>2, <1>3

\* The second row of the list is looked up.
LEMMA LookUpBaselineSteps ==
    ASSUME AnalyticsIInv, LookUpBaseline
    PROVE  RequestInv' /\ AnswerInv'
<1>1. TableTypes /\ RequestInv /\ AnswerInv /\ pc = "latest" /\ Known(latest)
  BY DEF AnalyticsIInv, LookUpBaseline, RequestInv
<1>2. CASE Len(sessions) < 2
  BY <1>1, <1>2, DegradedOverview DEF LookUpBaseline
<1>3. CASE Len(sessions) >= 2
  <2>1. 2 \in DOMAIN sessions /\ Len(sessions) \in Nat
    BY <1>1, <1>3, LenProperties DEF RequestInv
  <2>2. /\ Known(sessions[2]) /\ baseline' = get_run(sessions[2].id) /\ pc' = "both"
        /\ UNCHANGED <<table, sessions, latest, current, answer>>
    BY <1>1, <1>3, <2>1 DEF RequestInv, LookUpBaseline
  <2>3. PICK v, w : v = get_run(sessions[2].id) /\ w = latest
    OBVIOUS
  <2>4. Known(v)
    <3>1. sessions[2].id \in DOMAIN rows
      BY <2>2 DEF Known
    <3> QED
      BY <1>1, <2>3, <3>1, LookUp
  <2>5. Known(baseline)' /\ Known(latest)'
    <3>1. Known(v)' /\ baseline' = v /\ Known(w)' /\ latest' = w
      BY <1>1, <2>2, <2>3, <2>4, TableStays DEF Keeps
    <3> QED
      BY <3>1 DEF Known
  <2>6. \A n \in DOMAIN sessions' : Known(sessions[n])'
    BY <1>1, <2>2, TableStays, SessionsStay DEF RequestInv
  <2>7. RequestInv'
    BY <1>1, <2>2, <2>5, <2>6 DEF RequestInv, Reading, table
  <2> QED
    BY <1>1, <2>2, <2>7, AnswerStays
<1> QED
  <2>1. Len(sessions) \in Nat
    BY <1>1, LenProperties DEF RequestInv
  <2> QED
    BY <1>2, <1>3, <2>1

\* compare_runs looks the latest row up again: if it had been recorded, it is the same.
LEMMA LookUpCurrentSteps ==
    ASSUME AnalyticsIInv, LookUpCurrent
    PROVE  RequestInv' /\ AnswerInv'
<1>1. /\ TableTypes /\ RequestInv /\ AnswerInv /\ pc = "both" /\ pc' = "current"
      /\ Known(latest) /\ Known(baseline) /\ current' = get_run(latest.id)
      /\ UNCHANGED <<table, sessions, latest, baseline, answer>>
  BY DEF AnalyticsIInv, LookUpCurrent, RequestInv
<1>2. PICK u, v, w : u = get_run(latest.id) /\ v = latest /\ w = baseline
  OBVIOUS
<1>3. /\ u = View(v.id) /\ Known(u) /\ u.id = v.id
      /\ v.recorded /\ v.id \notin rewritten => u = v
  <2>1. u = View(v.id) /\ Known(u) /\ u.id = v.id
    BY <1>1, <1>2, LookUp DEF Known
  <2> QED
    BY <1>1, <1>2, <2>1 DEF Known
<1>4. /\ Known(latest)' /\ Known(baseline)' /\ Known(current)'
      /\ current'.id = latest'.id
      /\ latest'.recorded /\ latest'.id \notin rewritten' => current' = latest'
  <2>1. Known(u)' /\ current' = u /\ Known(v)' /\ latest' = v /\ Known(w)' /\ baseline' = w
    BY <1>1, <1>2, <1>3, TableStays DEF Keeps
  <2>2. rewritten' = rewritten
    BY <1>1 DEF table
  <2> QED
    BY <1>3, <2>1, <2>2 DEF Known
<1>5. \A n \in DOMAIN sessions' : Known(sessions[n])'
  BY <1>1, TableStays, SessionsStay DEF RequestInv
<1>6. RequestInv'
  BY <1>1, <1>4, <1>5 DEF RequestInv, Reading, table
<1> QED
  BY <1>1, <1>6, AnswerStays

\* compare_runs looks the baseline up again, and the overview is answered.
LEMMA LookUpBaselineAgainSteps ==
    ASSUME AnalyticsIInv, LookUpBaselineAgain
    PROVE  RequestInv' /\ AnswerInv'
<1>1. CASE CompareError(current, get_run(baseline.id)) # 200
  BY <1>1, DegradedOverview DEF LookUpBaselineAgain
<1>2. CASE CompareError(current, get_run(baseline.id)) = 200
  <2>1. get_run(baseline.id) # NoRun
    BY <1>2 DEF CompareError
  <2> QED
    BY <1>2, <2>1, ComparedOverview DEF LookUpBaselineAgain
<1> QED
  BY <1>1, <1>2

\* The recent runs are linked to older ones that exist.
LEMMA BuildRecentRunsSteps ==
    ASSUME AnalyticsIInv, BuildRecentRuns
    PROVE  RequestInv' /\ AnswerInv'
<1> DEFINE links == [n \in DOMAIN sessions |-> compare_url(n)]
           a == [code |-> 200, kind |-> "recent", links |-> links]
<1>1. TableTypes /\ RequestInv /\ Answered(a)
  BY DEF AnalyticsIInv, BuildRecentRuns
<1>2. ASSUME NEW n \in DOMAIN links, links[n] # NoRun
      PROVE  /\ {links[n].current, links[n].baseline} \subseteq DOMAIN rows
             /\ links[n].baseline < links[n].current
  <2>1. /\ n \in DOMAIN sessions /\ n + 1 \in DOMAIN sessions
        /\ links[n] = [current |-> sessions[n].id, baseline |-> sessions[n + 1].id]
    BY <1>2 DEF compare_url
  <2>2. Known(sessions[n]) /\ Known(sessions[n + 1]) /\ sessions[n + 1].id < sessions[n].id
    BY <1>1, <2>1 DEF RequestInv
  <2> QED
    BY <2>1, <2>2 DEF Known
<1> HIDE DEF links
<1>3. RequestInv' /\ answer' = a /\ rows' = rows
  BY <1>1, AnswerGiven
<1>4. answer'.code = 200 /\ answer'.kind = "recent" /\ answer'.links = links
  BY <1>3
<1>5. LinksKnown'
  BY <1>2, <1>3, <1>4 DEF LinksKnown
<1>6. (ReadsAgree /\ DeltaIsFair /\ RollupsAccount)'
  BY <1>4 DEF ReadsAgree, DeltaIsFair, RollupsAccount, Shows
<1> QED
  BY <1>3, <1>4, <1>5, <1>6 DEF AnswerInv

\* The answer has been taken.
LEMMA ForgetSteps ==
    ASSUME AnalyticsIInv, Forget
    PROVE  RequestInv' /\ AnswerInv'
<1>1. /\ RequestInv /\ pc = "answered" /\ pc' = "idle" /\ answer' = NoAnswer
      /\ UNCHANGED <<rows, saved, sessions, latest, baseline, current>>
  BY DEF AnalyticsIInv, Forget, request
<1>2. sessions' = <<>> /\ latest' = NoRun /\ baseline' = NoRun /\ current' = NoRun
  BY <1>1 DEF RequestInv, Reading
<1>3. DOMAIN sessions' = {}
  BY <1>2
<1>4. RequestInv'
  BY <1>1, <1>2, <1>3 DEF RequestInv
<1> QED
  BY <1>1, <1>4, NothingShown DEF NoAnswer

\* The invariant is kept by every step.
LEMMA AnalyticsSteps == AnalyticsIInv /\ [AnalyticsNext]_analyticsVars => AnalyticsIInv'
<1> SUFFICES ASSUME AnalyticsIInv, [AnalyticsNext]_analyticsVars PROVE AnalyticsIInv'
  OBVIOUS
<1>1. CASE TableStep
  <2>1. TableTypes' /\ Grows /\ UNCHANGED <<pc, request, answer>>
    BY <1>1, TableSteps DEF AnalyticsIInv
  <2> QED
    BY <2>1, RequestStays DEF AnalyticsIInv
<1>2. CASE RequestStep
  <2>1. ASSUME ~Forget PROVE TableTypes'
    <3>1. UNCHANGED table
      BY <1>2, <2>1 DEF RequestStep, GetDelta, GetOverview, GetRecentRuns, LookUpBaselineOfDelta,
           LookUpLatest, LookUpBaseline, LookUpCurrent, LookUpBaselineAgain, BuildRecentRuns,
           Answered, table
    <3> QED
      BY <3>1, TableStays DEF AnalyticsIInv
  <2>2. ASSUME Forget PROVE TableTypes'
    BY <2>2 DEF Forget, AnalyticsIInv, TableTypes, RowInv
  <2>3. RequestInv' /\ AnswerInv'
    BY <1>2, GetDeltaSteps, ListingSteps, LookUpBaselineOfDeltaSteps, LookUpLatestSteps,
       LookUpBaselineSteps, LookUpCurrentSteps, LookUpBaselineAgainSteps, BuildRecentRunsSteps,
       ForgetSteps DEF RequestStep
  <2> QED
    BY <2>1, <2>2, <2>3 DEF AnalyticsIInv
<1>3. CASE UNCHANGED analyticsVars
  <2>1. UNCHANGED table /\ UNCHANGED <<pc, request, answer>>
    BY <1>3 DEF analyticsVars
  <2>2. TableTypes' /\ Grows
    BY <2>1, TableStays DEF AnalyticsIInv
  <2> QED
    BY <2>1, <2>2, RequestStays DEF AnalyticsIInv
<1> QED
  BY <1>1, <1>2, <1>3 DEF AnalyticsNext

-----------------------------------------------------------------------------
(* What holds of every answer                                              *)

\* The inductive invariant of RunAnalytics holds in every reachable state: the table, what a request
\* knows of it, with the engine, the cleanup and the summaries writing rows between its reads, and
\* what it is answered (delta_service.py, dashboard_service.py, run_history.py:36-64).
THEOREM AnalyticsInvariance == AnalyticsSpec => []AnalyticsIInv
BY InitAnalytics, AnalyticsSteps, PTL DEF AnalyticsSpec

\* What is asked of every answer follows.
LEMMA AnalyticsStates == AnalyticsIInv => AnalyticsInv
<1> SUFFICES ASSUME AnalyticsIInv PROVE AnalyticsInv
  OBVIOUS
<1>1. TableTypes /\ RequestInv /\ AnswerInv
  BY DEF AnalyticsIInv
<1>2. AnalyticsTypeOK
  <2>1. {latest.id, baseline.id, current.id} \subseteq 0..MaxRows
    <3>1. /\ Known(latest) \/ latest = NoRun
          /\ Known(baseline) \/ baseline = NoRun \/ baseline.id \in 0..MaxRows
          /\ Known(current) \/ current = NoRun
      BY <1>1 DEF RequestInv
    <3>2. NoRun.id \in 0..MaxRows
      BY MaxRowsAssumption DEF NoRun
    <3>3. \A v : Known(v) => v.id \in 0..MaxRows
      BY <1>1, KnownIsRun, MaxRowsAssumption
    <3> QED
      BY <3>1, <3>2, <3>3
  <2> QED
    BY <1>1, <2>1 DEF AnalyticsTypeOK, TableTypes, RequestInv, AnswerInv
<1>3. LinksLead
  <2> SUFFICES ASSUME Shows("recent"), NEW n \in DOMAIN answer.links, answer.links[n] # NoRun
               PROVE  /\ answer.links[n].baseline < answer.links[n].current
                      /\ CompareError(get_run(answer.links[n].current),
                                      get_run(answer.links[n].baseline)) \in {200, 422}
    BY DEF LinksLead
  <2>1. /\ answer.links[n].current \in DOMAIN rows /\ answer.links[n].baseline \in DOMAIN rows
        /\ answer.links[n].baseline < answer.links[n].current
    BY <1>1 DEF AnswerInv, LinksKnown
  <2>2. get_run(answer.links[n].current) # NoRun /\ get_run(answer.links[n].baseline) # NoRun
    BY <1>1, <2>1, LookUp, KnownIsRun
  <2> QED
    BY <2>1, <2>2 DEF CompareError
<1> QED
  BY <1>1, <1>2, <1>3 DEF AnalyticsInv, AnswerInv

\* Every answer of the dashboard accounts for the comparison it shows, says whether it is
\* degraded, and links to comparisons that exist, whatever the rows do between the reads
\* (dashboard_service.py:114-281).
THEOREM DashboardAccounts == AnalyticsSpec => []AnalyticsInv
BY AnalyticsInvariance, AnalyticsStates, PTL

\* The five reads of an overview do not contradict each other, but for runs whose recorded row a
\* cleanup or a summary wrote back between them (dashboard_service.py:114-179).
THEOREM OverviewAgrees == AnalyticsSpec => []ReadsAgree
<1>1. AnalyticsIInv => ReadsAgree
  BY DEF AnalyticsIInv, AnswerInv
<1> QED
  BY <1>1, AnalyticsInvariance, PTL

\* Every comparison that is answered judges each metric as its direction says, and the same from
\* either side, but for the wall clock where a run has not been recorded (delta_service.py:82-213).
THEOREM ComparisonsAreFair == AnalyticsSpec => []DeltaIsFair
<1>1. AnalyticsIInv => DeltaIsFair
  BY DEF AnalyticsIInv, AnswerInv
<1> QED
  BY <1>1, AnalyticsInvariance, PTL
=============================================================================
