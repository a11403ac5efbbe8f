------------------------ MODULE CycleExecutionProofs ------------------------
(***************************************************************************)
(* Proofs about CycleExecution, for every set of executions and of clients.*)
(* What the safety properties lack to be inductive is how much a thread has*)
(* written at each of its states: as long as it works, its lines are the   *)
(* end of its file, because nobody else holds the slot.                    *)
(***************************************************************************)
EXTENDS CycleExecution, SequenceTheorems, TLAPS

-----------------------------------------------------------------------------
(* The inductive invariant                                                 *)

\* Only the thread that holds the slot works.
SlotInv(x) == pc[x] \notin {"absent", "over"} => active = x

\* A thread knows its file from SetUp on, and its end only after it.
PathInv(x) ==
    /\ path[x] \in {None, File(x)}
    /\ pc[x] \in {"absent", "queued", "loading"} => path[x] = None
    /\ pc[x] \in {"gate", "resting", "finished"} => path[x] # None
    /\ pc[x] \in {"releasing", "over"} => done[x]
    /\ pc[x] \in {"releasing", "over"} \/ status[x] # "completed"

\* The lines of x are those after its offset up to n.
Span(x, n) ==
    /\ start[x] <= n /\ n <= start[x] + 2 /\ n <= Len(file[path[x]])
    /\ \A i \in DOMAIN file[path[x]] : file[path[x]][i].by = x <=> start[x] < i /\ i <= n
    /\ pc[x] # "over" => n = Len(file[path[x]])
    /\ pc[x] = "gate" => n = start[x]
    /\ pc[x] = "resting" => n = start[x] + 1
    /\ pc[x] = "raising" => n <= start[x] + 1
    /\ pc[x] = "finished" \/ status[x] = "completed" =>
           n = start[x] + 2 /\ file[path[x]][n].event = "plan_finished"

LinesInv(x) ==
    /\ \A f \in Files : \A i \in DOMAIN file[f] : file[f][i].by = x => path[x] = f
    /\ path[x] # None => \E n \in Nat : Span(x, n)

ThreadInv(x) == SlotInv(x) /\ PathInv(x) /\ LinesInv(x)

\* A stream has sent the lines of its file from where it began.
StreamInv(c) ==
    /\ stream[c] = "none" => got[c] = <<>>
    /\ stream[c] # "none" =>
        /\ of[c] \in Execs /\ from[c].file \in Files
        /\ \A j \in DOMAIN got[c] : /\ from[c].at + j \in DOMAIN file[from[c].file]
                                    /\ got[c][j] = file[from[c].file][from[c].at + j]

IInv == TypeOK /\ (\A x \in Execs : ThreadInv(x)) /\ (\A c \in Clients : StreamInv(c))

LEMMA InitInv == Init => IInv
<1> SUFFICES ASSUME Init PROVE IInv
  OBVIOUS
<1>1. TypeOK
  BY EmptySeq DEF Init, TypeOK, PcValues
<1>2. ASSUME NEW x \in Execs PROVE ThreadInv(x)
  <2>1. \A f \in Files : DOMAIN file[f] = {}
    BY EmptySeq DEF Init
  <2> QED
    BY <2>1 DEF Init, ThreadInv, SlotInv, PathInv, LinesInv
<1>3. ASSUME NEW c \in Clients PROVE StreamInv(c)
  BY DEF Init, StreamInv
<1> QED
  BY <1>1, <1>2, <1>3 DEF IInv

-----------------------------------------------------------------------------
(* One line more                                                           *)

\* An append changes one file, and that only at its end.
LEMMA AppendLine ==
    ASSUME TypeOK, NEW x \in Execs, path[x] \in Files,
           NEW event \in {"cycle_trigger"} \cup Terminal, append(x, event)
    PROVE  LET f == path[x]
               n == Len(file[f])
           IN  /\ file' \in [Files -> Seq(Line)] /\ n \in Nat
               /\ Len(file'[f]) = n + 1
               /\ DOMAIN file[f] = 1..n /\ DOMAIN file'[f] = 1..(n + 1)
               /\ \A i \in 1..n : file'[f][i] = file[f][i]
               /\ file'[f][n + 1].event = event /\ file'[f][n + 1].by = x
               /\ \A g \in Files : g # f => file'[g] = file[g]
<1> DEFINE f == path[x]
           line == [event |-> event, by |-> x]
<1>1. file[f] \in Seq(Line) /\ line \in Line /\ Len(file[f]) \in Nat
  BY LenProperties DEF TypeOK, Line
<1>2. /\ Append(file[f], line) \in Seq(Line)
      /\ Len(Append(file[f], line)) = Len(file[f]) + 1
      /\ \A i \in 1..Len(file[f]) : Append(file[f], line)[i] = file[f][i]
      /\ Append(file[f], line)[Len(file[f]) + 1] = line
  BY <1>1, AppendProperties
<1>3. file'[f] = Append(file[f], line) /\ \A g \in Files : g # f => file'[g] = file[g]
  BY DEF append, TypeOK
<1>4. file' \in [Files -> Seq(Line)]
  BY <1>2 DEF append, TypeOK
<1>5. DOMAIN file[f] = 1..Len(file[f]) /\ DOMAIN file'[f] = 1..(Len(file[f]) + 1)
  BY <1>1, <1>2, <1>3, LenProperties
<1> QED
  BY <1>1, <1>2, <1>3, <1>4, <1>5

\* What a thread may change: its own part, the slot if it holds it or nobody
\* does, and its file while it holds the slot.
Appends(y) ==
    /\ pc[y] \notin {"absent", "over"} /\ path[y] \in Files /\ path' = path
    /\ \E event \in {"cycle_trigger"} \cup Terminal : append(y, event)

LEMMA Footprint ==
    ASSUME IInv, NEW y \in Execs, Create(y) \/ WorkerStep(y)
    PROVE  /\ \A x \in Execs \ {y} : /\ pc'[x] = pc[x] /\ status'[x] = status[x]
                                     /\ done'[x] = done[x]
                                     /\ path'[x] = path[x] /\ start'[x] = start[x]
           /\ active' = active \/ active \in {None, y}
           /\ file' = file \/ Appends(y)
           /\ UNCHANGED streamVars
<1>1. path[y] \in Files \cup {None} /\ TypeOK
  BY DEF IInv, TypeOK
<1>2. pc[y] \in {"gate", "resting"} => path[y] \in Files
  BY <1>1 DEF IInv, ThreadInv, PathInv
<1>3. CASE Create(y)
  BY <1>1, <1>3 DEF Create, TypeOK
<1>4. CASE Begin(y) \/ LoadFails(y) \/ SetUp(y) \/ GateFails(y) \/ mark_done(y) \/ Release(y)
  BY <1>1, <1>4 DEF Begin, LoadFails, SetUp, GateFails, mark_done, Release, TypeOK
<1>5. CASE Rest(y) \/ FinishResting(y)
  BY <1>1, <1>2, <1>5 DEF Rest, FinishResting, TypeOK, Appends, Terminal
<1>6. ASSUME NEW triggered \in BOOLEAN, RunPlan(y, triggered) PROVE file' = file \/ Appends(y)
  BY <1>1, <1>2, <1>6 DEF RunPlan, TypeOK, Appends, Terminal
<1>7. ASSUME NEW written \in BOOLEAN, ErrorEvent(y, written) PROVE file' = file \/ Appends(y)
  BY <1>1, <1>7 DEF ErrorEvent, TypeOK, Appends, Terminal
<1>8. CASE \E triggered \in BOOLEAN : RunPlan(y, triggered)
  BY <1>1, <1>6, <1>8 DEF RunPlan, TypeOK
<1>9. CASE \E written \in BOOLEAN : ErrorEvent(y, written)
  BY <1>1, <1>7, <1>9 DEF ErrorEvent, TypeOK
<1> QED
  BY <1>3, <1>4, <1>5, <1>8, <1>9 DEF WorkerStep

\* Files only grow.
LEMMA FilesGrow ==
    ASSUME IInv, NEW y \in Execs, Create(y) \/ WorkerStep(y), NEW f \in Files
    PROVE  \A i \in DOMAIN file[f] : i \in DOMAIN file'[f] /\ file'[f][i] = file[f][i]
<1>1. CASE file' = file
  BY <1>1
<1>2. CASE Appends(y)
  <2>1. PICK event \in {"cycle_trigger"} \cup Terminal : append(y, event)
    BY <1>2 DEF Appends
  <2>2. TypeOK /\ path[y] \in Files
    BY <1>2 DEF IInv, Appends
  <2>3. CASE f = path[y]
    <3>1. /\ DOMAIN file[f] = 1..Len(file[f]) /\ DOMAIN file'[f] = 1..(Len(file[f]) + 1)
          /\ \A i \in 1..Len(file[f]) : file'[f][i] = file[f][i]
          /\ Len(file[f]) \in Nat
      BY <2>1, <2>2, <2>3, AppendLine
    <3> QED
      BY <3>1
  <2>4. CASE f # path[y]
    BY <2>1, <2>2, <2>4, AppendLine
  <2> QED
    BY <2>3, <2>4
<1> QED
  BY <1>1, <1>2, Footprint

-----------------------------------------------------------------------------
(* Types                                                                   *)

LEMMA ThreadKeepsTypes ==
    ASSUME IInv, NEW y \in Execs, Create(y) \/ WorkerStep(y)
    PROVE  TypeOK'
<1>1. TypeOK
  BY DEF IInv
<1>2. file' \in [Files -> Seq(Line)]
  <2>1. CASE Appends(y)
    BY <1>1, <2>1, AppendLine DEF Appends
  <2> QED
    BY <1>1, <2>1, Footprint DEF TypeOK
<1>3. stream' = stream /\ of' = of /\ from' = from /\ got' = got
  BY Footprint DEF streamVars
<1>4. \A f \in Files : Len(file[f]) \in Nat
  BY <1>1, LenProperties DEF TypeOK
<1>5. File(y) \in Files
  BY DEF File, Files
<1>6. /\ active' \in Execs \cup {None} /\ pc' \in [Execs -> PcValues]
      /\ status' \in [Execs -> {"absent", "queued", "running", "completed", "failed"}]
      /\ done' \in [Execs -> BOOLEAN] /\ path' \in [Execs -> Files \cup {None}]
      /\ start' \in [Execs -> Nat]
  <2>1. CASE Create(y) \/ Begin(y) \/ LoadFails(y)
    BY <1>1, <2>1 DEF TypeOK, PcValues, Create, Begin, LoadFails
  <2>2. CASE SetUp(y)
    BY <1>1, <1>4, <1>5, <2>2 DEF TypeOK, PcValues, SetUp
  <2>3. CASE Rest(y) \/ GateFails(y) \/ FinishResting(y) \/ mark_done(y) \/ Release(y)
    BY <1>1, <2>3 DEF TypeOK, PcValues, Rest, GateFails, FinishResting, mark_done, Release
  <2>4. CASE \E triggered \in BOOLEAN : RunPlan(y, triggered)
    BY <1>1, <2>4 DEF TypeOK, PcValues, RunPlan
  <2>5. CASE \E written \in BOOLEAN : ErrorEvent(y, written)
    BY <1>1, <2>5 DEF TypeOK, PcValues, ErrorEvent
  <2> QED
    BY <2>1, <2>2, <2>3, <2>4, <2>5 DEF WorkerStep
<1> QED
  BY <1>1, <1>2, <1>3, <1>6 DEF TypeOK

-----------------------------------------------------------------------------
(* Threads                                                                 *)

\* A step of one thread takes nothing from another: while y writes, it holds
\* the slot, so that x is not there yet or is over.
LEMMA OtherThread ==
    ASSUME IInv, NEW y \in Execs, Create(y) \/ WorkerStep(y), NEW x \in Execs, x # y
    PROVE  ThreadInv(x)'
<1>1. /\ pc'[x] = pc[x] /\ status'[x] = status[x] /\ done'[x] = done[x]
      /\ path'[x] = path[x] /\ start'[x] = start[x]
      /\ active' = active \/ active \in {None, y}
      /\ file' = file \/ Appends(y)
  BY Footprint
<1>2. TypeOK /\ ThreadInv(x) /\ ThreadInv(y)
  BY DEF IInv
<1>3. SlotInv(x)'
  BY <1>1, <1>2, ExecsAssumption DEF ThreadInv, SlotInv
<1>4. PathInv(x)'
  BY <1>1, <1>2 DEF ThreadInv, PathInv, File
<1>5. LinesInv(x)'
  <2>1. CASE file' = file
    BY <1>1, <1>2, <2>1 DEF ThreadInv, LinesInv, Span
  <2>2. CASE Appends(y)
    <3>1. PICK event \in {"cycle_trigger"} \cup Terminal : append(y, event)
      BY <2>2 DEF Appends
    <3>2. path[y] \in Files /\ path' = path
      BY <2>2 DEF Appends
    <3> DEFINE g == path[y]
               m == Len(file[g])
    <3>3. /\ m \in Nat /\ Len(file'[g]) = m + 1
          /\ DOMAIN file[g] = 1..m /\ DOMAIN file'[g] = 1..(m + 1)
          /\ \A i \in 1..m : file'[g][i] = file[g][i]
          /\ file'[g][m + 1].by = y
          /\ \A f \in Files : f # g => file'[f] = file[f]
      BY <1>2, <3>1, <3>2, AppendLine
    <3>4. pc[x] \in {"absent", "over"}
      BY <1>2, <2>2 DEF ThreadInv, SlotInv, Appends
    <3>5. ASSUME NEW f \in Files, NEW i \in DOMAIN file'[f], file'[f][i].by = x
          PROVE  path'[x] = f
      <4>1. CASE f = g
        <5>1. i \in 1..m
          BY <3>3, <3>5, <4>1
        <5> QED
          BY <1>1, <1>2, <3>3, <3>5, <4>1, <5>1 DEF ThreadInv, LinesInv
      <4>2. CASE f # g
        BY <1>1, <1>2, <3>3, <3>5, <4>2 DEF ThreadInv, LinesInv
      <4> QED
        BY <4>1, <4>2
    <3>6. ASSUME path[x] # None PROVE \E n \in Nat : Span(x, n)'
      <4>1. PICK n \in Nat : Span(x, n)
        BY <1>2, <3>6 DEF ThreadInv, LinesInv
      <4>2. path[x] \in Files /\ start[x] \in Nat
        BY <1>2, <3>6 DEF TypeOK
      <4>3. pc[x] = "over"
        BY <1>2, <3>4, <3>6 DEF ThreadInv, PathInv
      <4>4. CASE path[x] = g
        <5>1. n <= m
          BY <4>1, <4>4 DEF Span
        <5>2. ASSUME NEW i \in 1..(m + 1)
              PROVE  file'[g][i].by = x <=> start[x] < i /\ i <= n
          <6>1. CASE i \in 1..m
            <7>1. i \in DOMAIN file[path[x]]
              BY <3>3, <4>4, <6>1
            <7>2. file[path[x]][i].by = x <=> start[x] < i /\ i <= n
              BY <4>1, <7>1 DEF Span
            <7> QED
              BY <3>3, <4>4, <6>1, <7>2
          <6>2. CASE i = m + 1
            BY <3>3, <5>1, <6>2
          <6> QED
            BY <3>3, <6>1, <6>2
        <5>3. status[x] = "completed" => n = start[x] + 2 /\ file'[g][n].event = "plan_finished"
          BY <3>3, <4>1, <4>2, <4>4, <5>1 DEF Span
        <5>4. start[x] <= n /\ n <= start[x] + 2 /\ n <= m + 1
          BY <3>3, <4>1, <5>1 DEF Span
        <5>5. path'[x] = g /\ start'[x] = start[x] /\ pc'[x] = "over" /\ status'[x] = status[x]
          BY <1>1, <4>3, <4>4
        <5>6. DOMAIN file'[g] = 1..(m + 1) /\ Len(file'[g]) = m + 1
          BY <3>3
        <5> QED
          BY <5>2, <5>3, <5>4, <5>5, <5>6 DEF Span
      <4>5. CASE path[x] # g
        BY SMTT(30), <1>1, <3>3, <4>1, <4>2, <4>5 DEF Span
      <4> QED
        BY <4>4, <4>5
    <3> QED
      BY <1>1, <3>5, <3>6 DEF LinesInv
  <2> QED
    BY <1>1, <2>1, <2>2
<1> QED
  BY <1>3, <1>4, <1>5 DEF ThreadInv

\* The line that a working thread appends is the next one of its own.
LEMMA OwnLine ==
    ASSUME IInv, NEW y \in Execs, pc[y] # "over", path[y] \in Files, NEW n \in Nat, Span(y, n),
           NEW event \in {"cycle_trigger"} \cup Terminal, append(y, event)
    PROVE  LET g == path[y]
           IN  /\ n + 1 = Len(file'[g]) /\ start[y] <= n
               /\ \A i \in DOMAIN file'[g] : file'[g][i].by = y <=> start[y] < i /\ i <= n + 1
               /\ file'[g][n + 1].event = event
               /\ \A f \in Files : \A i \in DOMAIN file'[f] : file'[f][i].by = y => g = f
<1> DEFINE g == path[y]
           m == Len(file[g])
<1>1. TypeOK /\ LinesInv(y)
  BY DEF IInv, ThreadInv
<1>2. /\ m \in Nat /\ Len(file'[g]) = m + 1
      /\ DOMAIN file[g] = 1..m /\ DOMAIN file'[g] = 1..(m + 1)
      /\ \A i \in 1..m : file'[g][i] = file[g][i]
      /\ file'[g][m + 1].by = y /\ file'[g][m + 1].event = event
      /\ \A f \in Files : f # g => file'[f] = file[f]
  BY <1>1, AppendLine
<1>3. n = m /\ start[y] <= n /\ start[y] \in Nat
  BY <1>1 DEF Span, TypeOK
<1>4. ASSUME NEW i \in DOMAIN file'[g]
      PROVE  file'[g][i].by = y <=> start[y] < i /\ i <= n + 1
  <2>1. CASE i \in 1..m
    <3>1. i \in DOMAIN file[path[y]]
      BY <1>2, <2>1
    <3>2. file[path[y]][i].by = y <=> start[y] < i /\ i <= n
      BY <3>1 DEF Span
    <3> QED
      BY <1>2, <1>3, <2>1, <3>2
  <2>2. CASE i = m + 1
    BY <1>2, <1>3, <2>2
  <2> QED
    BY <1>2, <1>4, <2>1, <2>2
<1>5. ASSUME NEW f \in Files, NEW i \in DOMAIN file'[f], file'[f][i].by = y
      PROVE  g = f
  BY <1>1, <1>2, <1>5 DEF LinesInv
<1> QED
  BY <1>2, <1>3, <1>4, <1>5

\* A thread keeps its own part, one action at a time.
LEMMA OwnThread ==
    ASSUME IInv, NEW y \in Execs, Create(y) \/ WorkerStep(y)
    PROVE  ThreadInv(y)'
<1>1. TypeOK /\ SlotInv(y) /\ PathInv(y) /\ LinesInv(y)
  BY DEF IInv, ThreadInv
<1>2. path[y] \in Files \cup {None} /\ start[y] \in Nat /\ File(y) \in Files
      /\ None \notin Files
  BY <1>1 DEF TypeOK, File, Files, None
<1>3. ASSUME path[y] # None PROVE path[y] \in Files /\ \E n \in Nat : Span(y, n)
  BY <1>1, <1>2, <1>3 DEF LinesInv
<1>4. CASE Create(y)
  BY <1>1, <1>4 DEF Create, TypeOK, ThreadInv, SlotInv, PathInv, LinesInv, File
<1>5. CASE Begin(y)
  BY <1>1, <1>5 DEF Begin, TypeOK, ThreadInv, SlotInv, PathInv, LinesInv, File
<1>6. CASE LoadFails(y)
  BY <1>1, <1>6 DEF LoadFails, TypeOK, ThreadInv, SlotInv, PathInv, LinesInv, File
<1>7. CASE SetUp(y)
  <2> DEFINE g == File(y)
             n == Len(file[g])
  <2>1. /\ path'[y] = g /\ start'[y] = n /\ pc'[y] = "gate" /\ pc[y] = "loading"
        /\ UNCHANGED <<file, active, status, done>>
    BY <1>1, <1>7 DEF SetUp, TypeOK
  <2>2. path[y] = None /\ status[y] # "completed"
    BY <1>1, <2>1 DEF PathInv
  <2>3. \A f \in Files : \A i \in DOMAIN file[f] : file[f][i].by # y
    BY <1>1, <1>2, <2>2 DEF LinesInv
  <2>4. n \in Nat /\ DOMAIN file[g] = 1..n
    BY <1>1, <1>2, LenProperties DEF TypeOK
  <2>5. Span(y, n)'
    BY <1>2, <2>1, <2>2, <2>3, <2>4 DEF Span
  <2>6. SlotInv(y)' /\ PathInv(y)'
    BY <1>1, <1>2, <2>1, <2>2 DEF SlotInv, PathInv, File
  <2>7. LinesInv(y)'
    BY <2>1, <2>3, <2>4, <2>5 DEF LinesInv
  <2> QED
    BY <2>6, <2>7 DEF ThreadInv
<1>8. ASSUME NEW n \in Nat, Span(y, n), path[y] # None,
             NEW event \in {"cycle_trigger"} \cup Terminal, append(y, event),
             path' = path, start' = start, active' = active, status' = status, done' = done,
             \/ pc[y] = "gate" /\ pc'[y] \in {"resting", "raising"}
             \/ pc[y] = "resting" /\ pc'[y] = "finished" /\ event = "plan_finished"
             \/ pc[y] = "raising" /\ pc'[y] = "failed"
      PROVE  ThreadInv(y)'
  <2> DEFINE g == path[y]
  <2>1. /\ n + 1 = Len(file'[g]) /\ start[y] <= n
        /\ \A i \in DOMAIN file'[g] : file'[g][i].by = y <=> start[y] < i /\ i <= n + 1
        /\ file'[g][n + 1].event = event
        /\ \A f \in Files : \A i \in DOMAIN file'[f] : file'[f][i].by = y => g = f
    BY <1>2, <1>8, OwnLine
  <2>2. status[y] # "completed"
    BY <1>1, <1>8 DEF PathInv
  <2>3. /\ pc[y] = "gate" => n = start[y]
        /\ pc[y] = "resting" => n = start[y] + 1
        /\ pc[y] = "raising" => n <= start[y] + 1
    BY <1>8 DEF Span
  <2>4. Span(y, n + 1)'
    BY <1>2, <1>8, <2>1, <2>2, <2>3 DEF Span
  <2>5. LinesInv(y)'
    BY <1>8, <2>1, <2>4 DEF LinesInv
  <2>6. SlotInv(y)' /\ PathInv(y)'
    BY <1>1, <1>8, <2>2 DEF SlotInv, PathInv, File
  <2> QED
    BY <2>5, <2>6 DEF ThreadInv
<1>9. ASSUME file' = file, path' = path, start' = start, done' = done, status' = status,
             active' = active,
             \/ pc[y] \in {"gate", "resting"} /\ pc'[y] = "raising"
             \/ pc[y] = "raising" /\ pc'[y] = "failed"
      PROVE  ThreadInv(y)'
  <2>1. \A n \in Nat : Span(y, n) => Span(y, n)'
    BY <1>1, <1>2, <1>9 DEF Span, PathInv
  <2>2. LinesInv(y)'
    BY <1>1, <1>9, <2>1 DEF LinesInv
  <2> QED
    BY <1>1, <1>9, <2>2 DEF ThreadInv, SlotInv, PathInv, File
<1>10. CASE Rest(y) \/ FinishResting(y)
  <2>1. path[y] # None
    BY <1>1, <1>10 DEF Rest, FinishResting, PathInv
  <2>2. PICK n \in Nat : Span(y, n)
    BY <1>3, <2>1
  <2> QED
    BY <1>1, <1>8, <1>10, <2>1, <2>2 DEF Rest, FinishResting, TypeOK, Terminal
<1>11. CASE GateFails(y)
  BY <1>1, <1>9, <1>11 DEF GateFails, TypeOK
<1>12. ASSUME NEW triggered \in BOOLEAN, RunPlan(y, triggered) PROVE ThreadInv(y)'
  <2>1. path[y] # None
    BY <1>1, <1>12 DEF RunPlan, PathInv
  <2>2. PICK n \in Nat : Span(y, n)
    BY <1>3, <2>1
  <2>3. CASE triggered
    BY <1>1, <1>8, <1>12, <2>1, <2>2, <2>3 DEF RunPlan, TypeOK
  <2>4. CASE ~triggered
    BY <1>1, <1>9, <1>12, <2>4 DEF RunPlan, TypeOK
  <2> QED
    BY <2>3, <2>4
<1>13. ASSUME NEW written \in BOOLEAN, ErrorEvent(y, written) PROVE ThreadInv(y)'
  <2>1. CASE path[y] # None /\ written
    <3>1. PICK n \in Nat : Span(y, n)
      BY <1>3, <2>1
    <3> QED
      BY <1>1, <1>8, <1>13, <2>1, <3>1 DEF ErrorEvent, TypeOK, Terminal
  <2>2. CASE ~(path[y] # None /\ written)
    BY <1>1, <1>9, <1>13, <2>2 DEF ErrorEvent, TypeOK
  <2> QED
    BY <2>1, <2>2
<1>14. CASE mark_done(y) \/ Release(y)
  <2>1. /\ file' = file /\ path' = path /\ start' = start
        /\ \/ /\ pc[y] \in {"finished", "failed"} /\ pc'[y] = "releasing" /\ done'[y]
              /\ status'[y] = "completed" => pc[y] = "finished"
              /\ active' = active
           \/ /\ pc[y] = "releasing" /\ pc'[y] = "over" /\ done'[y] = done[y]
              /\ status'[y] = status[y]
    BY <1>1, <1>14 DEF mark_done, Release, TypeOK
  <2>2. \A n \in Nat : Span(y, n) => Span(y, n)'
    BY <1>1, <1>2, <2>1 DEF Span
  <2>3. LinesInv(y)'
    BY <1>1, <2>1, <2>2 DEF LinesInv
  <2> QED
    BY <1>1, <2>1, <2>3 DEF ThreadInv, SlotInv, PathInv, File
<1> QED
  BY <1>4, <1>5, <1>6, <1>7, <1>10, <1>11, <1>12, <1>13, <1>14 DEF WorkerStep

-----------------------------------------------------------------------------
(* Streams                                                                 *)

\* A step of a thread leaves what was sent as it is, and where it was.
LEMMA ThreadKeepsStream ==
    ASSUME IInv, NEW y \in Execs, Create(y) \/ WorkerStep(y), NEW c \in Clients
    PROVE  StreamInv(c)'
<1>1. UNCHANGED <<stream, of, from, got>>
  BY Footprint DEF streamVars
<1>2. \A f \in Files : \A i \in DOMAIN file[f] : i \in DOMAIN file'[f] /\ file'[f][i] = file[f][i]
  BY FilesGrow
<1> QED
  BY <1>1, <1>2 DEF IInv, StreamInv

\* A step of a stream writes nothing.
LEMMA StreamKeepsThread ==
    ASSUME IInv, UNCHANGED workerVars, NEW x \in Execs
    PROVE  ThreadInv(x)'
BY DEF IInv, workerVars, ThreadInv, SlotInv, PathInv, LinesInv, Span

\* The generator of a stream sends the next line of its file, or ends.
LEMMA StreamStepKeeps ==
    ASSUME IInv, NEW c \in Clients,
           (\E x \in Execs : Connect(c, x)) \/ StreamStep(c) \/ Disconnect(c)
    PROVE  TypeOK' /\ (\A d \in Clients : StreamInv(d)') /\ UNCHANGED workerVars
<1>1. TypeOK /\ \A d \in Clients : StreamInv(d)
  BY DEF IInv
<1>2. CASE \E x \in Execs : Connect(c, x)
  <2>1. PICK x \in Execs : Connect(c, x)
    BY <1>2
  <2> DEFINE begin == [file |-> IF path[x] = None THEN "default" ELSE path[x], at |-> start[x]]
  <2>2. begin.file \in Files /\ begin \in [file : Files \cup {None}, at : Nat]
    BY <1>1 DEF TypeOK, Files
  <2>3. stream[c] = "none" /\ got[c] = <<>> /\ UNCHANGED <<workerVars, got>>
    BY <1>1, <2>1 DEF Connect, StreamInv
  <2>4. /\ of' = [of EXCEPT ![c] = x] /\ from' = [from EXCEPT ![c] = begin]
        /\ stream' = [stream EXCEPT ![c] = "reading"]
    BY <2>1 DEF Connect
  <2>5. TypeOK'
    BY <1>1, <2>2, <2>3, <2>4 DEF TypeOK, workerVars
  <2>6. ASSUME NEW d \in Clients PROVE StreamInv(d)'
    <3>1. CASE d = c
      <4>1. DOMAIN got'[c] = {}
        BY <2>3, EmptySeq
      <4> QED
        BY <1>1, <2>2, <2>4, <3>1, <4>1 DEF StreamInv, TypeOK
    <3>2. CASE d # c
      BY <1>1, <2>3, <2>4, <3>2 DEF StreamInv, TypeOK, workerVars
    <3> QED
      BY <3>1, <3>2
  <2> QED
    BY <2>3, <2>5, <2>6
<1>3. CASE ReadLine(c)
  <2> DEFINE f == from[c].file
             k == Len(got[c])
             line == file[f][from[c].at + k + 1]
  <2>1. stream[c] = "reading" /\ f \in Files /\ from[c].at \in Nat
    BY <1>1, <1>3 DEF ReadLine, StreamInv, TypeOK
  <2>2. /\ file[f] \in Seq(Line) /\ got[c] \in Seq(Line) /\ k \in Nat
        /\ Len(file[f]) \in Nat /\ DOMAIN file[f] = 1..Len(file[f])
        /\ DOMAIN got[c] = 1..k
    BY <1>1, <2>1, LenProperties DEF TypeOK
  <2>3. from[c].at + k < Len(file[f]) /\ got' = [got EXCEPT ![c] = Append(@, line)]
    BY <1>3 DEF ReadLine, Position, Tailed
  <2>4. from[c].at + k + 1 \in DOMAIN file[f]
    BY <2>1, <2>2, <2>3
  <2>5. line \in Line
    BY <2>2, <2>4, ElementOfSeq
  <2>6. /\ Append(got[c], line) \in Seq(Line) /\ DOMAIN Append(got[c], line) = 1..(k + 1)
        /\ \A j \in 1..k : Append(got[c], line)[j] = got[c][j]
        /\ Append(got[c], line)[k + 1] = line
    BY <2>2, <2>5, AppendProperties, LenProperties
  <2>7. got'[c] = Append(got[c], line) /\ \A d \in Clients \ {c} : got'[d] = got[d]
    BY <1>1, <2>3 DEF TypeOK
  <2>8. UNCHANGED <<workerVars, stream, of, from>>
    BY <1>3 DEF ReadLine
  <2>9. TypeOK'
    BY <1>1, <2>3, <2>6, <2>8 DEF TypeOK, workerVars
  <2>10. ASSUME NEW j \in 1..(k + 1)
         PROVE  /\ from[c].at + j \in DOMAIN file[f]
                /\ got'[c][j] = file[f][from[c].at + j]
    <3>1. CASE j \in 1..k
      BY ZenonT(30), <1>1, <2>1, <2>2, <2>6, <2>7, <3>1 DEF StreamInv
    <3>2. CASE j = k + 1
      <4>1. from[c].at + j = from[c].at + k + 1
        BY <2>1, <2>2, <3>2
      <4> QED
        BY <2>4, <2>6, <2>7, <3>2, <4>1
    <3> QED
      BY <2>2, <3>1, <3>2
  <2>11. StreamInv(c)'
    BY <1>1, <2>1, <2>6, <2>7, <2>8, <2>10 DEF StreamInv, workerVars
  <2>12. ASSUME NEW d \in Clients \ {c} PROVE StreamInv(d)'
    BY <1>1, <2>7, <2>8 DEF StreamInv, workerVars
  <2> QED
    BY <2>8, <2>9, <2>11, <2>12
<1>4. CASE EndOfFile(c) \/ CheckDone(c) \/ Close(c) \/ Disconnect(c)
  <2>1. /\ UNCHANGED <<workerVars, of, from, got>> /\ stream[c] # "none"
        /\ \E s \in {"reading", "checking", "window", "closed", "gone"} :
              stream' = [stream EXCEPT ![c] = s]
    BY <1>4 DEF EndOfFile, CheckDone, Close, Disconnect
  <2>2. TypeOK'
    BY <1>1, <2>1 DEF TypeOK, workerVars
  <2>3. ASSUME NEW d \in Clients PROVE StreamInv(d)'
    <3>1. stream'[d] = "none" <=> stream[d] = "none"
      BY <1>1, <2>1 DEF TypeOK
    <3> QED
      BY <1>1, <2>1, <3>1 DEF StreamInv, workerVars
  <2> QED
    BY <2>1, <2>2, <2>3
<1> QED
  BY <1>2, <1>3, <1>4 DEF StreamStep

-----------------------------------------------------------------------------
(* Theorems                                                                *)

LEMMA StepKeepsInv == IInv /\ [Next]_vars => IInv'
<1> SUFFICES ASSUME IInv, [Next]_vars PROVE IInv'
  OBVIOUS
<1>1. CASE \E y \in Execs : Create(y) \/ WorkerStep(y)
  <2>1. PICK y \in Execs : Create(y) \/ WorkerStep(y)
    BY <1>1
  <2>2. \A x \in Execs : ThreadInv(x)'
    BY <2>1, OtherThread, OwnThread
  <2>3. TypeOK' /\ \A c \in Clients : StreamInv(c)'
    BY <2>1, ThreadKeepsTypes, ThreadKeepsStream
  <2> QED
    BY <2>2, <2>3 DEF IInv
<1>2. CASE \E c \in Clients : (\E x \in Execs : Connect(c, x)) \/ StreamStep(c) \/ Disconnect(c)
  BY <1>2, StreamStepKeeps, StreamKeepsThread DEF IInv
<1>3. CASE UNCHANGED vars
  <2>1. TypeOK'
    BY <1>3 DEF IInv, TypeOK, vars, workerVars, streamVars
  <2>2. \A x \in Execs : ThreadInv(x)'
    BY <1>3, StreamKeepsThread DEF vars
  <2>3. \A c \in Clients : StreamInv(c)'
    BY <1>3 DEF IInv, StreamInv, vars, workerVars, streamVars
  <2> QED
    BY <2>1, <2>2, <2>3 DEF IInv
<1> QED
  BY <1>1, <1>2, <1>3 DEF Next

\* The strengthened invariant: what each thread of the manager has appended
\* to events.ndjson at each of its steps, and what each stream has read.
THEOREM Invariance == Spec => []IInv
  BY InitInv, StepKeepsInv, PTL DEF Spec

\* However many executions are requested, create_execution and the finally
\* clause of _run_execution let one thread at a time write the cycle's file.
THEOREM OneThread == Spec => []OneThreadPerCycle
<1>1. IInv => OneThreadPerCycle
  BY DEF IInv, ThreadInv, SlotInv, OneThreadPerCycle, Working
<1> QED
  BY <1>1, Invariance, PTL

\* In the file that successive executions of a cycle share, the lines of each
\* are together, begin at the offset it recorded, and end with plan_finished
\* when its status is completed.
THEOREM LinesGrouped == Spec => []Inv
<1>1. ASSUME IInv, NEW x \in Execs, path[x] # None
      PROVE  LET mine == {i \in DOMAIN file[path[x]] : file[path[x]][i].by = x}
             IN  /\ \A i \in mine : start[x] < i /\ i <= start[x] + 2
                 /\ \A i \in mine : i > start[x] + 1 => i - 1 \in mine
                 /\ status[x] = "completed" =>
                        \E i \in mine : file[path[x]][i].event = "plan_finished"
  <2>1. path[x] \in Files /\ start[x] \in Nat /\ file[path[x]] \in Seq(Line)
    BY <1>1 DEF IInv, TypeOK
  <2>2. PICK n \in Nat : Span(x, n)
    BY <1>1 DEF IInv, ThreadInv, LinesInv
  <2>3. Len(file[path[x]]) \in Nat /\ DOMAIN file[path[x]] = 1..Len(file[path[x]])
    BY <2>1, LenProperties
  <2> DEFINE mine == {i \in DOMAIN file[path[x]] : file[path[x]][i].by = x}
  <2>4. \A i \in DOMAIN file[path[x]] : file[path[x]][i].by = x <=> start[x] < i /\ i <= n
    BY <2>2 DEF Span
  <2>5. n <= start[x] + 2 /\ n <= Len(file[path[x]])
    BY <2>2 DEF Span
  <2>6. \A i : i \in mine <=> i \in (start[x] + 1)..n
    BY <2>1, <2>3, <2>4, <2>5
  <2>7. status[x] = "completed" => n = start[x] + 2 /\ file[path[x]][n].event = "plan_finished"
    BY <2>2 DEF Span
  <2> HIDE DEF mine
  <2>8. \A i \in mine : start[x] < i /\ i <= start[x] + 2
    BY <2>1, <2>5, <2>6
  <2>9. \A i \in mine : i > start[x] + 1 => i - 1 \in mine
    BY <2>1, <2>6
  <2>10. status[x] = "completed" => n \in mine /\ file[path[x]][n].event = "plan_finished"
    BY <2>1, <2>6, <2>7
  <2> QED
    BY <2>8, <2>9, <2>10 DEF mine
<1>2. IInv => Inv
  BY <1>1 DEF IInv, Inv, LinesAreGrouped
<1> QED
  BY <1>2, Invariance, PTL

\* A stream that began where its execution recorded it sends the lines of
\* that execution first, and another's only once it is done.
THEOREM OwnLines == Spec => []OwnLinesFirst
<1>1. ASSUME IInv, NEW c \in Clients, stream[c] # "none",
             from[c] = [file |-> path[of[c]], at |-> start[of[c]]],
             NEW j \in DOMAIN got[c]
      PROVE  /\ got[c][j].by = of[c] => \A i \in 1..j : got[c][i].by = of[c]
             /\ got[c][j].by # of[c] => done[of[c]]
  <2> DEFINE x == of[c]
             f == path[x]
  <2>1. /\ x \in Execs /\ f \in Files /\ f = from[c].file /\ start[x] = from[c].at
        /\ start[x] \in Nat /\ got[c] \in Seq(Line) /\ file[f] \in Seq(Line)
    BY <1>1 DEF IInv, StreamInv, TypeOK
  <2>2. f # None
    BY <2>1 DEF Files, None
  <2>3. PICK n \in Nat : Span(x, n)
    BY <1>1, <2>1, <2>2 DEF IInv, ThreadInv, LinesInv
  <2>4. \A i \in DOMAIN got[c] : /\ start[x] + i \in DOMAIN file[f]
                                 /\ got[c][i] = file[f][start[x] + i]
    BY <1>1, <2>1 DEF IInv, StreamInv
  <2>5. /\ DOMAIN got[c] = 1..Len(got[c]) /\ Len(got[c]) \in Nat
        /\ DOMAIN file[f] = 1..Len(file[f]) /\ Len(file[f]) \in Nat
    BY <2>1, LenProperties
  <2>6. ASSUME NEW i \in DOMAIN got[c] PROVE got[c][i].by = x <=> start[x] + i <= n
    <3>1. start[x] + i \in DOMAIN file[f] /\ got[c][i] = file[f][start[x] + i]
      BY <2>4
    <3>2. file[f][start[x] + i].by = x <=> start[x] < start[x] + i /\ start[x] + i <= n
      BY <2>3, <3>1 DEF Span
    <3> QED
      BY <2>1, <2>5, <3>1, <3>2
  <2>7. ASSUME got[c][j].by = x, NEW i \in 1..j PROVE got[c][i].by = x
    <3>1. i \in DOMAIN got[c] /\ start[x] + i <= start[x] + j /\ start[x] + j <= n
      BY <2>1, <2>5, <2>6, <2>7
    <3> QED
      BY <2>1, <2>5, <2>6, <3>1
  <2>8. ASSUME got[c][j].by # x PROVE done[x]
    <3>1. n < Len(file[f])
      BY <2>1, <2>4, <2>5, <2>6, <2>8
    <3>2. pc[x] = "over"
      BY <2>3, <3>1 DEF Span
    <3> QED
      BY <1>1, <2>1, <3>2 DEF IInv, ThreadInv, PathInv
  <2> QED
    BY <2>7, <2>8
<1>2. IInv => OwnLinesFirst
  BY <1>1 DEF OwnLinesFirst
<1> QED
  BY <1>2, Invariance, PTL
=============================================================================
