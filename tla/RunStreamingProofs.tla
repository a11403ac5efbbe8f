------------------------- MODULE RunStreamingProofs -------------------------
(***************************************************************************)
(* Proofs about RunStreaming, for every number of phases and every bound   *)
(* on the lines of a command.                                              *)
(***************************************************************************)
EXTENDS RunStreaming, SequenceTheorems, TLAPS

-----------------------------------------------------------------------------
(* The inductive invariant                                                 *)

\* How many lines have left the inner queue.
Moved == Len(yielded) + Len(outer)

\* Where each line is: the consumer has the first ones, the outer queue the
\* next, the inner queue the rest and the reader's mark.
QueuesInv ==
    /\ Moved <= read
    /\ \A i \in DOMAIN yielded : yielded[i] = i
    /\ \A i \in DOMAIN outer : outer[i] = Len(yielded) + i
    /\ \A i \in DOMAIN inner : inner[i] = IF Moved + i <= read THEN Moved + i ELSE Sentinel
    /\ Moved + Len(inner) = read \/ (reader = "ended" /\ Moved + Len(inner) = read + 1)

\* What is known of the command, and of its return code, at each state of the
\* call.
CallInv ==
    /\ pc = "launching" => proc = "none" /\ reader = "none" /\ rc = "none"
    /\ proc = "exited" => code # "none"
    /\ InCall => backend # "none"
    /\ pc \in {"joining", "draining", "ending"} => rc # "none"
    /\ rc = "zero" => proc = "exited" /\ code = "zero"
    /\ pc = "joining" /\ proc = "running" => rc = "infra"
    /\ NothingLeftRunning

\* What an audit has collected, and what the generator has said.
AuditInv ==
    /\ ~audit => phase = 1
    /\ pc \notin {"reporting", "done", "raised"} => Len(rcs) = phase - 1
    /\ pc = "reporting" => audit /\ Len(rcs) = NumPhases
    /\ IF pc = "done" THEN marks = 1 /\ result # "none" ELSE marks = 0 /\ result = "none"
    /\ pc = "done" /\ audit => Len(rcs) = NumPhases /\ result = AuditReturncode

IInv == TypeOK /\ QueuesInv /\ CallInv /\ AuditInv

LEMMA InitInv == Init => IInv
<1> SUFFICES ASSUME Init PROVE IInv
  OBVIOUS
<1>1. /\ <<>> \in Seq(Nat) /\ <<>> \in Seq(ReturnCode)
      /\ Len(<<>>) = 0 /\ DOMAIN <<>> = {}
  BY EmptySeq
<1>2. TypeOK
  <2>1. 1 \in 1..NumPhases /\ 0 \in 0..MaxLines
    BY PhasesAssumption, MaxLinesAssumption
  <2>2. inner \in Seq(Nat) /\ outer \in Seq(Nat) /\ yielded \in Seq(Nat) /\ rcs \in Seq(ReturnCode)
    BY <1>1 DEF Init
  <2> QED
    BY <2>1, <2>2 DEF Init, TypeOK
<1>3. QueuesInv
  BY <1>1 DEF Init, QueuesInv, Moved
<1>4. CallInv
  BY DEF Init, CallInv, NothingLeftRunning, InCall
<1>5. AuditInv
  BY <1>1 DEF Init, AuditInv
<1> QED
  BY <1>2, <1>3, <1>4, <1>5 DEF IInv

-----------------------------------------------------------------------------
(* Queues of lines                                                         *)

\* What an append does to a sequence of numbers, position by position.
LEMMA AppendNat ==
    ASSUME NEW q \in Seq(Nat), NEW x \in Nat
    PROVE  /\ Append(q, x) \in Seq(Nat) /\ Len(q) \in Nat
           /\ Len(Append(q, x)) = Len(q) + 1
           /\ DOMAIN q = 1..Len(q) /\ DOMAIN Append(q, x) = 1..(Len(q) + 1)
           /\ \A i \in 1..Len(q) : Append(q, x)[i] = q[i]
           /\ Append(q, x)[Len(q) + 1] = x
BY AppendProperties, LenProperties

\* What taking the head of a queue does to it.
LEMMA TakeNat ==
    ASSUME NEW q \in Seq(Nat), q # <<>>
    PROVE  /\ Head(q) \in Nat /\ Head(q) = q[1] /\ 1 \in DOMAIN q
           /\ Tail(q) \in Seq(Nat) /\ Len(q) \in Nat \ {0}
           /\ Len(Tail(q)) = Len(q) - 1
           /\ DOMAIN q = 1..Len(q) /\ DOMAIN Tail(q) = 1..(Len(q) - 1)
           /\ \A i \in 1..(Len(q) - 1) : Tail(q)[i] = q[i + 1]
<1>1. Len(q) \in Nat \ {0} /\ DOMAIN q = 1..Len(q)
  BY EmptySeq, LenProperties
<1>2. /\ Head(q) \in Nat /\ Tail(q) \in Seq(Nat) /\ Len(Tail(q)) = Len(q) - 1
      /\ \A i \in 1..Len(Tail(q)) : Tail(q)[i] = q[i + 1]
  BY HeadTailProperties
<1>3. DOMAIN Tail(q) = 1..Len(Tail(q))
  BY <1>2, LenProperties
<1>4. Head(q) = q[1]
  OBVIOUS
<1> QED
  BY <1>1, <1>2, <1>3, <1>4

\* The steps that move no line, and do not undo the end of the reader.
LEMMA QueuesKept ==
    ASSUME QueuesInv, UNCHANGED <<read, inner, outer, yielded>>,
           reader = "ended" => reader' = "ended"
    PROVE  QueuesInv'
BY DEF QueuesInv, Moved

LEMMA GetKeepsOrder ==
    ASSUME IInv, Get
    PROVE  QueuesInv' /\ inner' \in Seq(Nat) /\ outer' \in Seq(Nat)
<1>1. /\ inner \in Seq(Nat) /\ outer \in Seq(Nat) /\ inner # <<>> /\ read \in Nat
      /\ Len(yielded) \in Nat /\ QueuesInv /\ UNCHANGED <<read, reader, yielded>>
  BY LenProperties, MaxLinesAssumption DEF IInv, TypeOK, Get, readerVars
<1> DEFINE y == Len(yielded)
           o == Len(outer)
           n == Len(inner)
<1>2. /\ inner' = Tail(inner) /\ inner' \in Seq(Nat) /\ n \in Nat \ {0} /\ Len(inner') = n - 1
      /\ Head(inner) = inner[1] /\ Head(inner) \in Nat
      /\ DOMAIN inner = 1..n /\ DOMAIN inner' = 1..(n - 1)
      /\ \A i \in 1..(n - 1) : inner'[i] = inner[i + 1]
  BY <1>1, TakeNat DEF Get
<1>3. /\ y \in Nat /\ o \in Nat /\ n \in Nat \ {0} /\ DOMAIN outer = 1..o
      /\ y + o <= read
      /\ \A i \in 1..o : outer[i] = y + i
      /\ \A i \in 1..n : inner[i] = IF y + o + i <= read THEN y + o + i ELSE 0
      /\ y + o + n = read \/ (reader = "ended" /\ y + o + n = read + 1)
  BY <1>1, <1>2, LenProperties DEF QueuesInv, Moved, Sentinel
<1> HIDE DEF y, o, n
<1>4. CASE y + o + 1 <= read
  <2>1. Head(inner) = y + o + 1 /\ Head(inner) # Sentinel
    <3>1. 1 \in 1..n /\ y + o + 1 # 0
      BY <1>3
    <3> QED
      BY <1>2, <1>3, <1>4, <3>1 DEF Sentinel
  <2>2. outer' = Append(outer, y + o + 1)
    BY <2>1 DEF Get
  <2>3. /\ outer' \in Seq(Nat) /\ Len(outer') = o + 1 /\ DOMAIN outer' = 1..(o + 1)
        /\ \A i \in 1..o : outer'[i] = outer[i]
        /\ outer'[o + 1] = y + o + 1
    BY <1>1, <1>3, <2>2, AppendNat DEF o
  <2>4. ASSUME NEW i \in 1..(o + 1) PROVE outer'[i] = y + i
    <3>1. CASE i \in 1..o
      BY <1>3, <2>3, <3>1
    <3>2. CASE i = o + 1
      BY <1>3, <2>3, <3>2
    <3> QED
      BY <1>3, <3>1, <3>2
  <2>5. ASSUME NEW i \in 1..(n - 1)
        PROVE  inner'[i] = IF y + (o + 1) + i <= read THEN y + (o + 1) + i ELSE 0
    <3>1. i + 1 \in 1..n /\ inner'[i] = inner[i + 1]
      BY <1>2, <1>3 DEF n
    <3>2. inner'[i] = IF y + o + (i + 1) <= read THEN y + o + (i + 1) ELSE 0
      BY <1>3, <3>1
    <3>3. y + o + (i + 1) = y + (o + 1) + i
      BY <1>3
    <3> QED
      BY <3>2, <3>3
  <2>6. QueuesInv'
    <3>1. /\ Len(yielded') = y /\ Len(outer') = o + 1 /\ Moved' = y + (o + 1)
          /\ DOMAIN inner' = 1..(n - 1) /\ Len(inner') = n - 1
      BY <1>1, <1>2, <2>3 DEF Moved, y, n
    <3>2. Moved' <= read
      BY <1>1, <1>3, <1>4, <3>1
    <3>3. \A i \in DOMAIN yielded' : yielded'[i] = i
      BY <1>1 DEF QueuesInv
    <3>4. \A i \in DOMAIN inner' :
              inner'[i] = IF Moved' + i <= read' THEN Moved' + i ELSE Sentinel
      BY <1>1, <2>5, <3>1 DEF Sentinel
    <3>5. Moved' + Len(inner') = y + o + n
      BY <1>3, <3>1
    <3> QED
      BY <1>1, <1>3, <2>3, <2>4, <3>1, <3>2, <3>3, <3>4, <3>5 DEF QueuesInv
  <2> QED
    BY <1>2, <2>3, <2>6
<1>5. CASE ~(y + o + 1 <= read)
  <2>1. Head(inner) = 0 /\ n = 1 /\ y + o = read
    <3>1. 1 \in 1..n
      BY <1>3
    <3>2. inner[1] = 0
      BY <1>3, <1>5, <3>1
    <3> QED
      BY <1>1, <1>2, <1>3, <1>5, <3>2
  <2>2. outer' = outer
    BY <2>1 DEF Get, Sentinel
  <2>3. Len(inner') = 0 /\ DOMAIN inner' = {} /\ Moved' = Moved /\ Moved = read
    BY <1>1, <1>2, <1>3, <2>1, <2>2 DEF Moved, y, o, n
  <2>4. QueuesInv'
    BY <1>1, <2>2, <2>3 DEF QueuesInv
  <2> QED
    BY <1>1, <1>2, <2>2, <2>4
<1> QED
  BY <1>4, <1>5

LEMMA DrainKeepsOrder ==
    ASSUME IInv, Drain
    PROVE  QueuesInv' /\ yielded' \in Seq(Nat) /\ outer' \in Seq(Nat)
<1>1. /\ yielded \in Seq(Nat) /\ outer \in Seq(Nat) /\ outer # <<>> /\ read \in Nat
      /\ Len(inner) \in Nat /\ QueuesInv /\ UNCHANGED <<read, reader, inner>>
      /\ outer' = Tail(outer) /\ yielded' = Append(yielded, Head(outer))
  BY LenProperties, MaxLinesAssumption DEF IInv, TypeOK, Drain, readerVars
<1> DEFINE y == Len(yielded)
           o == Len(outer)
<1>2. /\ o \in Nat \ {0} /\ DOMAIN outer = 1..o /\ Head(outer) = outer[1] /\ Head(outer) \in Nat
      /\ outer' \in Seq(Nat) /\ Len(outer') = o - 1 /\ DOMAIN outer' = 1..(o - 1)
      /\ \A i \in 1..(o - 1) : outer'[i] = outer[i + 1]
  BY <1>1, TakeNat
<1>3. /\ y \in Nat /\ DOMAIN yielded = 1..y
      /\ yielded' \in Seq(Nat) /\ Len(yielded') = y + 1 /\ DOMAIN yielded' = 1..(y + 1)
      /\ \A i \in 1..y : yielded'[i] = yielded[i]
      /\ yielded'[y + 1] = Head(outer)
  BY <1>1, <1>2, AppendNat
<1>4. (\A i \in 1..y : yielded[i] = i) /\ (\A i \in 1..o : outer[i] = y + i) /\ y + o <= read
  BY <1>1, <1>2, <1>3 DEF QueuesInv, Moved
<1> HIDE DEF y, o
<1>5. Moved' = Moved /\ Moved \in Nat
  <2>1. Moved = y + o /\ Moved' = (y + 1) + (o - 1)
    BY <1>2, <1>3 DEF Moved, y, o
  <2> QED
    BY <1>2, <1>3, <2>1
<1>6. ASSUME NEW i \in 1..(y + 1) PROVE yielded'[i] = i
  <2>1. Head(outer) = y + 1
    <3>1. 1 \in 1..o
      BY <1>2
    <3> QED
      BY <1>2, <1>4, <3>1
  <2>2. CASE i \in 1..y
    BY <1>3, <1>4, <2>2
  <2>3. CASE i = y + 1
    BY <1>3, <2>1, <2>3
  <2> QED
    BY <1>3, <2>2, <2>3
<1>7. ASSUME NEW i \in 1..(o - 1) PROVE outer'[i] = (y + 1) + i
  <2>1. i + 1 \in 1..o /\ outer'[i] = outer[i + 1]
    BY <1>2
  <2> QED
    BY <1>3, <1>4, <2>1
<1>8. /\ Moved <= read
      /\ \A i \in DOMAIN inner : inner[i] = IF Moved + i <= read THEN Moved + i ELSE Sentinel
      /\ Moved + Len(inner) = read \/ (reader = "ended" /\ Moved + Len(inner) = read + 1)
  BY <1>1 DEF QueuesInv
<1>9. QueuesInv'
  <2>1. Len(yielded') = y + 1 /\ inner' = inner /\ read' = read /\ reader' = reader
    BY <1>1, <1>3
  <2> QED
    BY <1>2, <1>3, <1>5, <1>6, <1>7, <1>8, <2>1 DEF QueuesInv
<1> QED
  BY <1>2, <1>3, <1>9

LEMMA ReaderKeepsOrder ==
    ASSUME IInv, ReaderStep
    PROVE  QueuesInv' /\ inner' \in Seq(Nat) /\ read' \in 0..MaxLines
<1>1. /\ inner \in Seq(Nat) /\ read \in Nat /\ read \in 0..MaxLines /\ written \in 0..MaxLines
      /\ Moved \in Nat /\ Moved' = Moved
      /\ reader = "reading" /\ QueuesInv /\ UNCHANGED <<outer, yielded>>
  <2>1. /\ inner \in Seq(Nat) /\ yielded \in Seq(Nat) /\ outer \in Seq(Nat)
        /\ read \in 0..MaxLines /\ written \in 0..MaxLines /\ QueuesInv
    BY DEF IInv, TypeOK
  <2>2. reader = "reading" /\ UNCHANGED <<outer, yielded>>
    BY DEF ReaderStep, ReadLine, ReaderEnds
  <2>3. Len(yielded) \in Nat /\ Len(outer) \in Nat
    BY <2>1, LenProperties
  <2>4. Moved \in Nat /\ Moved' = Moved
    BY <2>2, <2>3 DEF Moved
  <2> QED
    BY <2>1, <2>2, <2>4, MaxLinesAssumption
<1> DEFINE n == Len(inner)
<1>2. /\ n \in Nat /\ DOMAIN inner = 1..n /\ Moved + n = read /\ Moved <= read
      /\ \A i \in 1..n : inner[i] = Moved + i
  BY <1>1, LenProperties DEF QueuesInv
<1>3. CASE ReadLine
  <2>1. inner' = Append(inner, read + 1) /\ read' = read + 1 /\ read < written
    BY <1>3 DEF ReadLine
  <2>2. /\ inner' \in Seq(Nat) /\ Len(inner') = n + 1 /\ DOMAIN inner' = 1..(n + 1)
        /\ \A i \in 1..n : inner'[i] = inner[i]
        /\ inner'[n + 1] = read + 1
    BY <1>1, <2>1, AppendNat
  <2>3. ASSUME NEW i \in 1..(n + 1)
        PROVE  inner'[i] = IF Moved + i <= read + 1 THEN Moved + i ELSE Sentinel
    <3>1. CASE i \in 1..n
      <4>1. inner'[i] = Moved + i
        BY <1>2, <2>2, <3>1
      <4>2. Moved + i <= read + 1
        BY <1>1, <1>2, <3>1
      <4> QED
        BY <4>1, <4>2
    <3>2. CASE i = n + 1
      BY <1>1, <1>2, <2>2, <3>2
    <3> QED
      BY <1>2, <3>1, <3>2
  <2>4. read' \in 0..MaxLines
    BY <1>1, <2>1, MaxLinesAssumption
  <2>5. QueuesInv'
    <3>1. Moved' <= read' /\ Moved' + Len(inner') = read'
      BY <1>1, <1>2, <2>1, <2>2
    <3>2. \A i \in DOMAIN inner' : inner'[i] = IF Moved' + i <= read' THEN Moved' + i ELSE Sentinel
      BY <1>1, <2>1, <2>2, <2>3
    <3>3. /\ \A i \in DOMAIN yielded' : yielded'[i] = i
          /\ \A i \in DOMAIN outer' : outer'[i] = Len(yielded') + i
      BY <1>1 DEF QueuesInv
    <3> QED
      BY <3>1, <3>2, <3>3 DEF QueuesInv
  <2> QED
    BY <2>2, <2>4, <2>5
<1>4. CASE \E broken \in BOOLEAN : ReaderEnds(broken)
  <2>1. inner' = Append(inner, Sentinel) /\ read' = read /\ reader' = "ended" /\ Sentinel \in Nat
    BY <1>4 DEF ReaderEnds, Sentinel
  <2>2. /\ inner' \in Seq(Nat) /\ Len(inner') = n + 1 /\ DOMAIN inner' = 1..(n + 1)
        /\ \A i \in 1..n : inner'[i] = inner[i]
        /\ inner'[n + 1] = Sentinel
    BY <1>1, <2>1, AppendNat
  <2>3. ASSUME NEW i \in 1..(n + 1)
        PROVE  inner'[i] = IF Moved + i <= read THEN Moved + i ELSE Sentinel
    <3>1. CASE i \in 1..n
      <4>1. inner'[i] = Moved + i
        BY <1>2, <2>2, <3>1
      <4>2. Moved + i <= read
        BY <1>1, <1>2, <3>1
      <4> QED
        BY <4>1, <4>2
    <3>2. CASE i = n + 1
      BY <1>1, <1>2, <2>2, <3>2
    <3> QED
      BY <1>2, <3>1, <3>2
  <2>4. QueuesInv'
    <3>1. Moved' <= read' /\ reader' = "ended" /\ Moved' + Len(inner') = read' + 1
      BY <1>1, <1>2, <2>1, <2>2
    <3>2. \A i \in DOMAIN inner' : inner'[i] = IF Moved' + i <= read' THEN Moved' + i ELSE Sentinel
      BY <1>1, <2>1, <2>2, <2>3
    <3>3. /\ \A i \in DOMAIN yielded' : yielded'[i] = i
          /\ \A i \in DOMAIN outer' : outer'[i] = Len(yielded') + i
      BY <1>1 DEF QueuesInv
    <3> QED
      BY <3>1, <3>2, <3>3 DEF QueuesInv
  <2> QED
    BY <1>1, <2>1, <2>2, <2>4
<1> QED
  BY <1>3, <1>4 DEF ReaderStep

\* Every step leaves the lines in their places, a new phase with none.
LEMMA QueuesStep ==
    ASSUME IInv, Next
    PROVE  QueuesInv'
<1>1. QueuesInv
  BY DEF IInv
<1>2. CASE CommandStep
  <2>1. UNCHANGED <<read, reader, inner, outer, yielded>>
    BY <1>2 DEF CommandStep, Write, Exit, ForkedExit, readerVars
  <2> QED
    BY <1>1, <2>1, QueuesKept
<1>3. CASE ReaderStep
  BY <1>3, ReaderKeepsOrder
<1>4. CASE Get
  BY <1>4, GetKeepsOrder
<1>5. CASE Drain
  BY <1>5, DrainKeepsOrder
<1>6. CASE NextPhase
  <2>1. inner' = <<>> /\ outer' = <<>> /\ yielded' = <<>> /\ read' = 0
    BY <1>6 DEF NextPhase
  <2> QED
    BY <2>1, EmptySeq DEF QueuesInv, Moved
<1>7. CASE \E b \in {"docker", "local"}, forks \in BOOLEAN : Launch(b, forks)
  <2>1. UNCHANGED <<read, inner, outer, yielded>> /\ pc = "launching"
    BY <1>7 DEF Launch
  <2>2. reader = "none"
    BY <2>1 DEF IInv, CallInv
  <2> QED
    BY <1>1, <2>1, <2>2, QueuesKept
<1>8. CASE \/ \E failure \in {"nonzero", "infra"} : LocalFails(failure)
           \/ LaunchRaises \/ GetNothing \/ GoesOn
           \/ \E killed \in BOOLEAN : TimesOut(killed)
           \/ \E known \in BOOLEAN : Collect(known)
           \/ \E removed \in BOOLEAN : Return(removed)
           \/ DrainEnds \/ ReturnResult \/ LastPhase \/ Report \/ ReportRaises
  <2>1. UNCHANGED <<read, reader, inner, outer, yielded>>
    BY <1>8 DEF LocalFails, LaunchRaises, GetNothing, GoesOn, TimesOut, Collect, Return,
                DrainEnds, ReturnResult, LastPhase, Report, ReportRaises, readerVars
  <2> QED
    BY <1>1, <2>1, QueuesKept
<1> QED
  BY <1>2, <1>3, <1>4, <1>5, <1>6, <1>7, <1>8 DEF Next, GeneratorStep

-----------------------------------------------------------------------------
(* The types                                                               *)

LEMMA TypesStep ==
    ASSUME IInv, Next
    PROVE  TypeOK'
<1>1. TypeOK
  BY DEF IInv
<1>2. CASE CommandStep
  <2>1. CASE Write
    <3>1. written' \in 0..MaxLines
      BY <1>1, <2>1, MaxLinesAssumption DEF TypeOK, Write
    <3> QED
      BY <1>1, <2>1, <3>1 DEF TypeOK, Write, genVars, readerVars
  <2>2. CASE \E c \in ReturnCode : Exit(c)
    BY <1>1, <2>2 DEF TypeOK, Exit, genVars, readerVars
  <2>3. CASE ForkedExit
    <3>1. forked' \in BOOLEAN
      BY <2>3 DEF ForkedExit
    <3>2. UNCHANGED <<pc, audit, phase, rcs, marks, result, backend, proc, code, written,
                      reader, read, inner, outer, yielded, rc>>
      BY <2>3 DEF ForkedExit, genVars, readerVars
    <3> QED
      BY <1>1, <3>1, <3>2 DEF TypeOK
  <2> QED
    BY <1>2, <2>1, <2>2, <2>3 DEF CommandStep
<1>3. CASE ReaderStep
  <2>1. inner' \in Seq(Nat) /\ read' \in 0..MaxLines
    BY <1>3, ReaderKeepsOrder
  <2>2. /\ UNCHANGED <<pc, genVars, backend, procVars, outer, yielded, rc>>
        /\ reader' \in {"reading", "ended"}
    BY <1>3 DEF ReaderStep, ReadLine, ReaderEnds
  <2> QED
    BY <1>1, <2>1, <2>2 DEF TypeOK, genVars, procVars
<1>4. CASE \E b \in {"docker", "local"}, forks \in BOOLEAN : Launch(b, forks)
  BY <1>1, <1>4 DEF TypeOK, Launch, genVars
<1>5. CASE \/ \E failure \in {"nonzero", "infra"} : LocalFails(failure)
           \/ LaunchRaises \/ GetNothing \/ GoesOn
  BY <1>1, <1>5 DEF TypeOK, LocalFails, LaunchRaises, GetNothing, GoesOn,
                    genVars, procVars, readerVars, ReturnCode
<1>6. CASE Get
  <2>1. inner' \in Seq(Nat) /\ outer' \in Seq(Nat)
    BY <1>6, GetKeepsOrder
  <2> QED
    BY <1>1, <1>6, <2>1 DEF TypeOK, Get, genVars, procVars, readerVars
<1>7. CASE \E killed \in BOOLEAN : TimesOut(killed)
  BY <1>1, <1>7 DEF TypeOK, TimesOut, genVars, readerVars, ReturnCode
<1>8. CASE \E known \in BOOLEAN : Collect(known)
  BY <1>1, <1>8 DEF TypeOK, Collect, genVars, procVars, readerVars, ReturnCode
<1>9. CASE \E removed \in BOOLEAN : Return(removed)
  BY <1>1, <1>9 DEF TypeOK, Return, genVars, readerVars
<1>10. CASE Drain
  <2>1. yielded' \in Seq(Nat) /\ outer' \in Seq(Nat)
    BY <1>10, DrainKeepsOrder
  <2> QED
    BY <1>1, <1>10, <2>1 DEF TypeOK, Drain, genVars, procVars, readerVars
<1>11. CASE DrainEnds
  BY <1>1, <1>11 DEF TypeOK, DrainEnds, genVars, procVars, readerVars
<1>12. CASE NextPhase \/ LastPhase
  <2>1. rc \in ReturnCode
    BY <1>1, <1>12 DEF IInv, CallInv, TypeOK, NextPhase, LastPhase
  <2>2. rcs' \in Seq(ReturnCode)
    <3>1. rcs' = Append(rcs, rc) /\ rcs \in Seq(ReturnCode)
      BY <1>1, <1>12 DEF TypeOK, NextPhase, LastPhase
    <3> QED
      BY <2>1, <3>1, AppendProperties
  <2>3. CASE NextPhase
    <3>1. phase' \in 1..NumPhases /\ 0 \in 0..MaxLines
      BY <1>1, <2>3, PhasesAssumption, MaxLinesAssumption DEF TypeOK, NextPhase
    <3>2. <<>> \in Seq(Nat)
      BY EmptySeq
    <3> QED
      BY <1>1, <2>2, <2>3, <3>1, <3>2 DEF TypeOK, NextPhase
  <2>4. CASE LastPhase
    BY <1>1, <2>2, <2>4 DEF TypeOK, LastPhase, procVars, readerVars
  <2> QED
    BY <1>12, <2>3, <2>4
<1>13. CASE ReturnResult
  BY <1>1, <1>13 DEF TypeOK, ReturnResult, procVars, readerVars
<1>14. CASE Report
  BY <1>1, <1>14 DEF TypeOK, Report, AuditReturncode, ReturnCode, procVars, readerVars
<1>15. CASE ReportRaises
  BY <1>1, <1>15 DEF TypeOK, ReportRaises, genVars, procVars, readerVars
<1> QED
  BY <1>2, <1>3, <1>4, <1>5, <1>6, <1>7, <1>8, <1>9, <1>10, <1>11, <1>12, <1>13, <1>14, <1>15
     DEF Next, GeneratorStep

-----------------------------------------------------------------------------
(* The command and its return code                                         *)

LEMMA CallStep ==
    ASSUME IInv, Next
    PROVE  CallInv'
<1>1. CallInv /\ TypeOK
  BY DEF IInv
<1> USE DEF CallInv, NothingLeftRunning, InCall
<1>2. CASE CommandStep
  <2>1. CASE Write \/ ForkedExit
    BY <1>1, <2>1 DEF Write, ForkedExit, readerVars
  <2>2. ASSUME NEW c \in ReturnCode, Exit(c) PROVE CallInv'
    <3>1. c # "none"
      BY DEF ReturnCode
    <3> QED
      BY <1>1, <2>2, <3>1 DEF Exit, readerVars
  <2> QED
    BY <1>2, <2>1, <2>2 DEF CommandStep
<1>3. CASE ReaderStep
  <2>1. UNCHANGED <<pc, backend, proc, code, rc>> /\ InCall
    BY <1>3 DEF ReaderStep, ReadLine, ReaderEnds, procVars
  <2> QED
    BY <1>1, <2>1
<1>4. CASE \E b \in {"docker", "local"}, forks \in BOOLEAN : Launch(b, forks)
  BY <1>1, <1>4 DEF Launch
<1>5. CASE \E failure \in {"nonzero", "infra"} : LocalFails(failure)
  BY <1>1, <1>5 DEF LocalFails, procVars, readerVars
<1>6. CASE LaunchRaises
  BY <1>1, <1>6 DEF LaunchRaises, procVars, readerVars
<1>7. CASE Get \/ GetNothing \/ GoesOn
  BY <1>1, <1>7 DEF Get, GetNothing, GoesOn, procVars, readerVars
<1>8. CASE \E killed \in BOOLEAN : TimesOut(killed)
  BY <1>1, <1>8 DEF TimesOut, readerVars
<1>9. CASE \E known \in BOOLEAN : Collect(known)
  BY <1>1, <1>9 DEF Collect, procVars, readerVars
<1>10. CASE \E removed \in BOOLEAN : Return(removed)
  <2>1. PICK removed \in BOOLEAN : Return(removed)
    BY <1>10
  <2>2. backend' = "local" \/ backend' = "docker"
    BY <1>1, <2>1 DEF Return, TypeOK
  <2> QED
    BY <1>1, <2>1, <2>2 DEF Return, readerVars
<1>11. CASE Drain \/ DrainEnds
  BY <1>1, <1>11 DEF Drain, DrainEnds, procVars, readerVars
<1>12. CASE ReturnResult \/ LastPhase \/ Report \/ ReportRaises
  BY <1>1, <1>12 DEF ReturnResult, LastPhase, Report, ReportRaises, procVars, readerVars
<1>13. CASE NextPhase
  BY <1>13 DEF NextPhase
<1> QED
  BY <1>2, <1>3, <1>4, <1>5, <1>6, <1>7, <1>8, <1>9, <1>10, <1>11, <1>12, <1>13
     DEF Next, GeneratorStep

-----------------------------------------------------------------------------
(* The phases of an audit and the end of the generator                     *)

LEMMA AuditStep ==
    ASSUME IInv, Next
    PROVE  AuditInv'
<1>1. AuditInv /\ TypeOK
  BY DEF IInv
<1>2. phase \in Nat /\ NumPhases \in Nat /\ phase <= NumPhases
  BY <1>1, PhasesAssumption DEF TypeOK
<1>3. CASE \/ CommandStep \/ ReaderStep
           \/ \E b \in {"docker", "local"}, forks \in BOOLEAN : Launch(b, forks)
           \/ \E failure \in {"nonzero", "infra"} : LocalFails(failure)
           \/ LaunchRaises \/ Get \/ GetNothing \/ GoesOn
           \/ \E killed \in BOOLEAN : TimesOut(killed)
           \/ \E known \in BOOLEAN : Collect(known)
           \/ \E removed \in BOOLEAN : Return(removed)
           \/ Drain \/ DrainEnds \/ ReportRaises
  <2>1. /\ UNCHANGED genVars
        /\ \/ UNCHANGED pc
           \/ pc' = "raised"
           \/ pc' \notin {"reporting", "done", "raised"} /\ pc \notin {"reporting", "done", "raised"}
    <3>1. CASE CommandStep \/ ReaderStep \/ Drain
      BY <3>1 DEF CommandStep, Write, Exit, ForkedExit, ReaderStep, ReadLine, ReaderEnds, Drain
    <3>2. CASE LaunchRaises \/ ReportRaises
      BY <3>2 DEF LaunchRaises, ReportRaises
    <3>3. CASE \/ \E b \in {"docker", "local"}, forks \in BOOLEAN : Launch(b, forks)
               \/ \E failure \in {"nonzero", "infra"} : LocalFails(failure)
               \/ Get \/ GetNothing \/ GoesOn \/ DrainEnds
      BY <3>3 DEF Launch, LocalFails, Get, GetNothing, GoesOn, DrainEnds
    <3>4. CASE \/ \E killed \in BOOLEAN : TimesOut(killed)
               \/ \E known \in BOOLEAN : Collect(known)
               \/ \E removed \in BOOLEAN : Return(removed)
      BY <3>4 DEF TimesOut, Collect, Return
    <3> QED
      BY <1>3, <3>1, <3>2, <3>3, <3>4
  <2>2. pc' = "raised" => pc # "done"
    BY <1>3 DEF CommandStep, Write, Exit, ForkedExit, ReaderStep, ReadLine, ReaderEnds, Drain,
        LaunchRaises, ReportRaises, Launch, LocalFails, Get, GetNothing, GoesOn, DrainEnds,
        TimesOut, Collect, Return, InCall
  <2> QED
    BY <1>1, <2>1, <2>2 DEF AuditInv, genVars, AuditReturncode
<1>4. CASE ReturnResult
  <2>1. rc # "none"
    BY <1>4 DEF ReturnResult, IInv, CallInv
  <2> QED
    BY <1>1, <1>4, <2>1 DEF AuditInv, ReturnResult
<1>5. CASE NextPhase \/ LastPhase
  <2>1. rc \in ReturnCode /\ rcs \in Seq(ReturnCode)
    BY <1>5 DEF IInv, CallInv, TypeOK, NextPhase, LastPhase
  <2>2. Len(rcs) = phase - 1 /\ rcs' = Append(rcs, rc) /\ audit' = audit /\ audit
    BY <1>1, <1>5 DEF AuditInv, NextPhase, LastPhase
  <2>3. Len(rcs') = phase
    BY <1>2, <2>1, <2>2, AppendProperties
  <2>4. CASE NextPhase
    BY <1>1, <1>2, <2>2, <2>3, <2>4 DEF AuditInv, NextPhase
  <2>5. CASE LastPhase
    BY <1>1, <1>2, <2>2, <2>3, <2>5 DEF AuditInv, LastPhase
  <2> QED
    BY <1>5, <2>4, <2>5
<1>6. CASE Report
  <2>1. AuditReturncode # "none" /\ AuditReturncode' = AuditReturncode
    BY <1>6 DEF AuditReturncode, Report
  <2> QED
    BY <1>1, <1>6, <2>1 DEF AuditInv, Report
<1> QED
  BY <1>3, <1>4, <1>5, <1>6 DEF Next, GeneratorStep

LEMMA StepKeepsInv == IInv /\ [Next]_vars => IInv'
<1> SUFFICES ASSUME IInv, [Next]_vars PROVE IInv'
  OBVIOUS
<1>1. CASE Next
  BY <1>1, QueuesStep, TypesStep, CallStep, AuditStep DEF IInv
<1>2. CASE UNCHANGED vars
  BY <1>2 DEF IInv, TypeOK, QueuesInv, Moved, CallInv, NothingLeftRunning, InCall,
              AuditInv, AuditReturncode, vars, genVars, procVars, readerVars
<1> QED
  BY <1>1, <1>2

-----------------------------------------------------------------------------
(* Theorems                                                                *)

\* In every reachable state of run_streaming and of run_audit_streaming the
\* lines are where the invariant says, and the return code, the process and
\* the phases of the audit fit the place in the code.
THEOREM Invariance == Spec => []IInv
BY InitInv, StepKeepsInv, PTL DEF Spec

\* Where the lines are, seen through both queues at once.
LEMMA LinesFollow == IInv => LinesInOrder
<1> SUFFICES ASSUME IInv PROVE LinesInOrder
  OBVIOUS
<1>1. /\ inner \in Seq(Nat) /\ outer \in Seq(Nat) /\ yielded \in Seq(Nat) /\ read \in Nat
      /\ QueuesInv
  BY MaxLinesAssumption DEF IInv, TypeOK
<1> DEFINE y == Len(yielded)
           o == Len(outer)
           n == Len(inner)
           front == yielded \o outer
           all == front \o inner
<1>2. /\ y \in Nat /\ o \in Nat /\ n \in Nat
      /\ DOMAIN yielded = 1..y /\ DOMAIN outer = 1..o /\ DOMAIN inner = 1..n
  BY <1>1, LenProperties
<1>3. /\ front \in Seq(Nat) /\ Len(front) = y + o
      /\ \A i \in 1..(y + o) : front[i] = IF i <= y THEN yielded[i] ELSE outer[i - y]
  BY <1>1, ConcatProperties
<1>4. /\ all \in Seq(Nat) /\ Len(all) = y + o + n
      /\ \A i \in 1..(y + o + n) : all[i] = IF i <= y + o THEN front[i] ELSE inner[i - (y + o)]
  BY <1>1, <1>3, ConcatProperties
<1>5. DOMAIN all = 1..(y + o + n)
  BY <1>4, LenProperties
<1>6. /\ y + o <= read
      /\ \A i \in 1..y : yielded[i] = i
      /\ \A i \in 1..o : outer[i] = y + i
      /\ \A i \in 1..n : inner[i] = IF y + o + i <= read THEN y + o + i ELSE Sentinel
      /\ y + o + n = read \/ (reader = "ended" /\ y + o + n = read + 1)
  BY <1>1, <1>2 DEF QueuesInv, Moved
<1>7. LinesInOrder <=>
        /\ \A i \in DOMAIN all : all[i] = IF i <= read THEN i ELSE Sentinel
        /\ Len(all) = read \/ (reader = "ended" /\ Len(all) = read + 1)
  BY DEF LinesInOrder
<1> HIDE DEF y, o, n, front, all
<1>8. ASSUME NEW i \in 1..(y + o + n) PROVE all[i] = IF i <= read THEN i ELSE Sentinel
  <2>1. CASE i \in 1..y
    <3>1. i \in 1..(y + o) /\ i <= y + o /\ i <= read /\ i <= y
      BY <1>1, <1>2, <1>6, <2>1
    <3> QED
      BY <1>3, <1>4, <1>6, <2>1, <3>1
  <2>2. CASE i \in (y + 1)..(y + o)
    <3>1. i \in 1..(y + o) /\ i <= y + o /\ i <= read /\ ~(i <= y) /\ i - y \in 1..o
      BY <1>1, <1>2, <1>6, <2>2
    <3>2. outer[i - y] = i
      BY <1>2, <1>6, <3>1
    <3> QED
      BY <1>3, <1>4, <3>1, <3>2
  <2>3. CASE i \in (y + o + 1)..(y + o + n)
    <3>1. ~(i <= y + o) /\ i - (y + o) \in 1..n /\ y + o + (i - (y + o)) = i
      BY <1>2, <2>3
    <3>2. inner[i - (y + o)] = IF i <= read THEN i ELSE Sentinel
      BY <1>6, <3>1
    <3> QED
      BY <1>4, <3>1, <3>2
  <2> QED
    BY <1>2, <2>1, <2>2, <2>3
<1> QED
  BY <1>4, <1>5, <1>6, <1>7, <1>8

\* From the reader thread through the queue of the poll loop and that of the
\* call, one line per round and a drain at the end, the consumer's lines stay
\* in order: none twice, none missing in between, and none dropped that has
\* been read, however long the output and however many the phases.
THEOREM InOrder == Spec => []LinesInOrder
BY Invariance, LinesFollow, PTL

\* No call says zero of a command that was killed, did not start, or left no
\* status, and run_audit_streaming's agg_rc is zero only when each of its
\* phases was run and said zero.
THEOREM GreenEarned == Spec => []GreenIsEarned
<1>1. IInv => GreenIsEarned
  <2> SUFFICES ASSUME IInv PROVE GreenIsEarned
    OBVIOUS
  <2>1. rc = "zero" => proc = "exited" /\ code = "zero"
    BY DEF IInv, CallInv
  <2>2. ASSUME result = "zero", audit
        PROVE  Len(rcs) = NumPhases /\ \A i \in DOMAIN rcs : rcs[i] = "zero"
    <3>1. pc = "done"
      BY <2>2 DEF IInv, AuditInv
    <3>2. Len(rcs) = NumPhases /\ AuditReturncode = "zero"
      BY <2>2, <3>1 DEF IInv, AuditInv
    <3> QED
      BY <3>2 DEF AuditReturncode
  <2> QED
    BY <2>1, <2>2 DEF GreenIsEarned
<1> QED
  BY <1>1, Invariance, PTL

\* The finally of the call leaves nothing running behind it, except a
\* container that timed out and whose kill and removal the daemon refused.
THEOREM NothingLeft == Spec => []NothingLeftRunning
<1>1. IInv => NothingLeftRunning
  BY DEF IInv, CallInv
<1> QED
  BY <1>1, Invariance, PTL

\* The types, and the one [UQO_DONE] marker: it is emitted exactly by the
\* generator that returns a result, not by the phases of an audit, nor by a
\* generator that raises.
THEOREM OneMarker == Spec => []Inv
<1>1. IInv => Inv
  BY DEF IInv, AuditInv, Inv, OneDoneMarker
<1> QED
  BY <1>1, Invariance, PTL
=============================================================================
