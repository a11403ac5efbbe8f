------------------------- MODULE PlanExecutionProofs -------------------------
(***************************************************************************)
(* Proofs about PlanExecution, for every number of stages, every size of   *)
(* the ring buffer and every bound on the output.  A reader may outlive    *)
(* its stage, so nothing here may rest on where run_plan is while a reader *)
(* works: what a reader may still do follows from its own state and from   *)
(* whether its buffer is closed.                                           *)
(***************************************************************************)
EXTENDS PlanExecution, TestoConfig, SequenceTheorems, FiniteSetTheorems, TLAPS

-----------------------------------------------------------------------------
(* The inductive invariant                                                 *)

\* q holds the last chunks of the first n, as many as the ring buffer takes.
Window(q, n) ==
    /\ Len(q) = IF n < Ring THEN n ELSE Ring
    /\ \A i \in DOMAIN q : q[i] = n - Len(q) + i

\* l is a log that e chunks were in before.
Appended(l, e) == \A i \in DOMAIN l : l[i] = IF i <= e THEN 0 ELSE i - e

\* Until the buffer is closed or the reader breaks, what the reader has read
\* is in the log, save the chunk that it holds.
OutputInv(s) ==
    /\ proc[s] = "none" <=> reader[s] = "none"
    /\ proc[s] = "none" => ~forked[s] /\ written[s] = 0
    /\ read[s] <= written[s]
    /\ reader[s] = "ended" => proc[s] = "exited" /\ ~forked[s] /\ read[s] = written[s]
    /\ Appended(log[s], Earlier[s])
    /\ Own(s) \in 0..read[s]
    /\ ~closed[s] /\ reader[s] # "broken" =>
           Own(s) = IF reader[s] = "feeding" THEN read[s] - 1 ELSE read[s]
    /\ Window(ring[s], Own(s))
    /\ \E n \in 0..Own(s) : Window(tail[s], n)

\* Only a reader that was in on_chunk when the buffer was closed has still a
\* chunk for the renderer.
ShownInv(s) ==
    /\ shown[s] = <<>> => proc[s] = "none"
    /\ shown[s] # <<>> => shown[s][1] = "stage_started"
    /\ \A i \in DOMAIN shown[s] : shown[s][i] = "stage_finished" =>
        /\ closed[s] /\ Len(shown[s]) <= i + 1
        /\ reader[s] = "calling" => Len(shown[s]) = i

\* The stage has its return code.
Ended(s) ==
    Finished(s) \/ (s = stage /\ pc \in {"joining", "tailing", "closing", "finishing"})

CodeInv(s) ==
    /\ returncode[s] = "zero" => proc[s] = "exited" /\ code[s] = "zero"
    /\ Alive(s) /\ Ended(s) => timedOut[s] /\ returncode[s] = "negative"

StageInv(s) == OutputInv(s) /\ ShownInv(s) /\ CodeInv(s)

InStage == {"launching", "waiting", "terminating", "grace", "reaping", "joining", "tailing",
            "closing", "finishing"}

\* Where run_plan is, and what of each stage is done there.
PlanInv ==
    /\ \A s \in Stages : s > stage \/ (s = stage /\ pc \in {"idle", "starting"}) => shown[s] = <<>>
    /\ \A s \in Stages : s < stage => Finished(s)
    /\ pc \in {"classifying", "over"} => stage = NumStages /\ Finished(stage)
    /\ pc \in InStage => ~Finished(stage) /\ shown[stage] # <<>>
    /\ pc = "launching" => proc[stage] = "none"
    /\ pc \in {"terminating", "grace", "reaping"} => timedOut[stage]
    /\ pc \in InStage \ {"launching", "finishing"} => proc[stage] # "none"
    /\ pc = "finishing" => closed[stage]
    /\ exitCode = 0 => pc = "over" /\ \A s \in Stages : Finished(s) /\ returncode[s] = "zero"

IInv == TypeOK /\ PlanInv /\ \A s \in Stages : StageInv(s)

\* What run.log holds when its stage opens it.
LEMMA EarlierLog ==
    ASSUME NEW s \in Stages
    PROVE  LET l == [i \in 1..Earlier[s] |-> 0]
           IN  /\ l \in Seq(Nat) /\ Len(l) = Earlier[s] /\ DOMAIN l = 1..Earlier[s]
               /\ \A i \in 1..Earlier[s] : l[i] = 0
<1>1. PICK e \in Nat : e = Earlier[s]
  BY EarlierAssumption
<1> QED
  BY <1>1

LEMMA InitInv == Init => IInv
<1> SUFFICES ASSUME Init PROVE IInv
  OBVIOUS
<1>1. <<>> \in Seq(Nat) /\ <<>> \in Seq(Shown) /\ Len(<<>>) = 0 /\ DOMAIN <<>> = {}
  BY EmptySeq
<1>2. TypeOK
  <2>1. log \in [Stages -> Seq(Nat)]
    BY EarlierLog DEF Init
  <2> QED
    BY <1>1, <2>1, NumStagesAssumption DEF Init, TypeOK, Stages, ReturnCode
<1>3. ASSUME NEW s \in Stages PROVE StageInv(s) /\ ~Finished(s)
  <2>1. Window(<<>>, 0)
    BY <1>1, RingAssumption DEF Window
  <2>2. /\ log[s] \in Seq(Nat) /\ Len(log[s]) = Earlier[s] /\ DOMAIN log[s] = 1..Earlier[s]
        /\ \A i \in 1..Earlier[s] : log[s][i] = 0
    BY <1>2, EarlierLog DEF Init
  <2>3. Own(s) = 0
    BY <2>2, EarlierAssumption DEF Own
  <2>4. OutputInv(s)
    BY <1>1, <1>3, <2>1, <2>2, <2>3, EarlierAssumption DEF Init, OutputInv, Appended
  <2>5. ShownInv(s) /\ CodeInv(s) /\ ~Finished(s)
    BY <1>1, <1>3 DEF Init, ShownInv, CodeInv, Alive, Finished, Contains
  <2> QED
    BY <2>4, <2>5 DEF StageInv
<1>4. PlanInv
  BY <1>3, NumStagesAssumption DEF Init, PlanInv, InStage, Stages
<1> QED
  BY <1>2, <1>3, <1>4 DEF IInv

-----------------------------------------------------------------------------
(* The operators                                                           *)

\* One chunk more moves the window on by one.
LEMMA WindowMoves ==
    ASSUME NEW q \in Seq(Nat), NEW n \in Nat, Window(q, n)
    PROVE  LET new == Append(IF Len(q) < Ring THEN q ELSE Tail(q), n + 1)
           IN  new \in Seq(Nat) /\ Window(new, n + 1)
<1> DEFINE kept == IF Len(q) < Ring THEN q ELSE Tail(q)
           new == Append(kept, n + 1)
<1>1. Len(q) \in Nat /\ DOMAIN q = 1..Len(q) /\ Ring \in Nat /\ Ring > 0
  BY LenProperties, RingAssumption
<1>2. CASE Len(q) < Ring
  <2>1. /\ new \in Seq(Nat) /\ Len(new) = Len(q) + 1
        /\ \A i \in 1..Len(q) : new[i] = q[i]
        /\ new[Len(q) + 1] = n + 1
    BY <1>2, AppendProperties
  <2>2. DOMAIN new = 1..(Len(q) + 1)
    BY <2>1, LenProperties
  <2> HIDE DEF new
  <2>3. n < Ring /\ Len(q) = n
    BY <1>1, <1>2 DEF Window
  <2>4. ASSUME NEW i \in DOMAIN new PROVE new[i] = (n + 1) - Len(new) + i
    <3>1. CASE i \in 1..Len(q)
      BY <1>1, <2>1, <2>3, <3>1 DEF Window
    <3>2. CASE i = Len(q) + 1
      BY <1>1, <2>1, <2>3, <3>2
    <3> QED
      BY <1>1, <2>2, <3>1, <3>2
  <2>5. Window(new, n + 1)
    BY <1>1, <2>1, <2>3, <2>4 DEF Window
  <2> QED
    BY <2>1, <2>5 DEF new
<1>3. CASE ~(Len(q) < Ring)
  <2>1. q # <<>> /\ Len(q) = Ring /\ n >= Ring
    BY <1>1, <1>3, EmptySeq DEF Window
  <2>2. /\ Tail(q) \in Seq(Nat) /\ Len(Tail(q)) = Ring - 1
        /\ \A i \in 1..(Ring - 1) : Tail(q)[i] = q[i + 1]
    BY <2>1, HeadTailProperties
  <2>3. /\ new \in Seq(Nat) /\ Len(new) = Ring
        /\ \A i \in 1..(Ring - 1) : new[i] = q[i + 1]
        /\ new[Ring] = n + 1
    <3> DEFINE rest == Tail(q)
    <3>1. kept = rest /\ n + 1 \in Nat
      BY <1>3
    <3>2. rest \in Seq(Nat) /\ Len(rest) = Ring - 1 /\ \A i \in 1..(Ring - 1) : rest[i] = q[i + 1]
      BY <2>2
    <3> HIDE DEF rest
    <3>3. /\ Append(rest, n + 1) \in Seq(Nat) /\ Len(Append(rest, n + 1)) = Len(rest) + 1
          /\ \A i \in 1..Len(rest) : Append(rest, n + 1)[i] = rest[i]
          /\ Append(rest, n + 1)[Len(rest) + 1] = n + 1
      BY <3>1, <3>2, AppendProperties
    <3>4. new = Append(rest, n + 1)
      BY <3>1
    <3> HIDE DEF new
    <3> QED
      BY <1>1, <3>2, <3>3, <3>4
  <2>4. DOMAIN new = 1..Ring
    BY <2>3, LenProperties
  <2> HIDE DEF new
  <2>5. ASSUME NEW i \in DOMAIN new PROVE new[i] = (n + 1) - Len(new) + i
    <3>1. CASE i \in 1..(Ring - 1)
      <4>1. i + 1 \in DOMAIN q
        BY <1>1, <2>1, <3>1
      <4>2. q[i + 1] = n - Len(q) + (i + 1)
        BY <4>1 DEF Window
      <4> QED
        BY SMTT(30), <1>1, <2>1, <2>3, <3>1, <4>2
    <3>2. CASE i = Ring
      BY <1>1, <2>3, <3>2
    <3> QED
      BY <1>1, <2>4, <3>1, <3>2
  <2>6. Window(new, n + 1)
    BY <1>1, <2>1, <2>3, <2>5 DEF Window
  <2> QED
    BY <2>3, <2>6 DEF new
<1> QED
  BY <1>2, <1>3

\* An event that the renderer is given is the last of its stage, and those of
\* the other stages are as they were.
LEMMA ShowOneMore ==
    ASSUME TypeOK, NEW t \in Stages, NEW event \in Shown, handle(event, t)
    PROVE  LET n == Len(shown[t])
           IN  /\ shown' \in [Stages -> Seq(Shown)]
               /\ \A s \in Stages \ {t} : shown'[s] = shown[s]
               /\ n \in Nat /\ Len(shown'[t]) = n + 1
               /\ DOMAIN shown[t] = 1..n /\ DOMAIN shown'[t] = 1..(n + 1)
               /\ \A i \in 1..n : shown'[t][i] = shown[t][i]
               /\ shown'[t][n + 1] = event /\ shown'[t] # <<>>
               /\ shown[t] = <<>> <=> n = 0
               /\ \A s \in Stages : Finished(s)' <=>
                      Finished(s) \/ (s = t /\ event = "stage_finished")
<1> DEFINE q == shown[t]
           n == Len(q)
           new == Append(q, event)
<1>1. q \in Seq(Shown) /\ n \in Nat /\ DOMAIN q = 1..n
  BY LenProperties DEF TypeOK
<1>2. /\ new \in Seq(Shown) /\ Len(new) = n + 1 /\ new # <<>>
      /\ \A i \in 1..n : new[i] = q[i]
      /\ new[n + 1] = event
  BY <1>1, AppendProperties
<1>3. DOMAIN new = 1..(n + 1)
  BY <1>2, LenProperties
<1>4. shown'[t] = new /\ \A s \in Stages \ {t} : shown'[s] = shown[s]
  BY DEF handle, TypeOK
<1>5. shown' \in [Stages -> Seq(Shown)]
  BY <1>2 DEF handle, TypeOK
<1>6. q = <<>> <=> n = 0
  BY <1>1, EmptySeq
<1> HIDE DEF new
<1>7. Finished(t)' <=> Finished(t) \/ event = "stage_finished"
  <2>1. Finished(t)' <=> \E i \in 1..(n + 1) : new[i] = "stage_finished"
    BY <1>2, <1>4 DEF Finished, Contains
  <2>2. Finished(t) <=> \E i \in 1..n : q[i] = "stage_finished"
    BY DEF Finished, Contains
  <2>3. \A i \in 1..(n + 1) : i \in 1..n \/ i = n + 1
    BY <1>1
  <2>4. n + 1 \in 1..(n + 1) /\ \A i \in 1..n : i \in 1..(n + 1)
    BY <1>1
  <2> QED
    BY <1>2, <2>1, <2>2, <2>3, <2>4, Zenon
<1>8. \A s \in Stages \ {t} : Finished(s)' <=> Finished(s)
  BY <1>4 DEF Finished
<1> QED
  BY <1>1, <1>2, <1>3, <1>4, <1>5, <1>6, <1>7, <1>8

LEMMA ShowNothing ==
    ASSUME UNCHANGED shown
    PROVE  \A s \in Stages : Finished(s)' <=> Finished(s)
BY DEF Finished

\* The length of the stage's own part of the log.
LEMMA OwnIsNat ==
    ASSUME TypeOK, NEW s \in Stages, OutputInv(s)
    PROVE  Own(s) \in Nat /\ Len(log[s]) \in Nat /\ Earlier[s] \in Nat
           /\ Len(log[s]) = Earlier[s] + Own(s)
<1>1. Len(log[s]) \in Nat /\ Earlier[s] \in Nat /\ read[s] \in Nat
  BY LenProperties, EarlierAssumption DEF TypeOK
<1> QED
  BY <1>1 DEF OutputInv, Own

-----------------------------------------------------------------------------
(* The main thread                                                         *)

\* The main thread touches the output only by taking the tail and closing the
\* buffer.
LEMMA OutputKept ==
    ASSUME IInv, NEW s \in Stages, UNCHANGED <<procVars, readerVars>>,
           tail'[s] \in {tail[s], ring[s]}, closed[s] => closed'[s]
    PROVE  OutputInv(s)'
<1>1. OutputInv(s) /\ Own(s) \in Nat /\ Own(s)' = Own(s)
  BY OwnIsNat DEF IInv, StageInv, readerVars, Own
<1>2. \E n \in 0..Own(s) : Window(tail'[s], n)
  BY <1>1 DEF OutputInv
<1> QED
  BY <1>1, <1>2 DEF OutputInv, procVars, readerVars, Window, Appended

LEMMA ShownKept ==
    ASSUME IInv, NEW s \in Stages, UNCHANGED shown, closed[s] => closed'[s],
           reader'[s] = "calling" => reader[s] = "calling",
           shown[s] = <<>> => proc'[s] = "none"
    PROVE  ShownInv(s)'
BY DEF IInv, StageInv, ShownInv

\* The steps of run_plan and run_stage that neither start nor end a stage, nor
\* touch its process.
Quiet ==
    \/ StartPlan
    \/ \E rc \in {"infra", "positive"} : LaunchFails(rc)
    \/ Collect \/ TimesOut \/ SignalFails
    \/ Join \/ TakeTail \/ Close \/ FinishPlan
    \/ Raise

LEMMA QuietStep ==
    ASSUME IInv, Quiet
    PROVE  IInv'
<1>1. TypeOK /\ PlanInv /\ \A s \in Stages : OutputInv(s) /\ ShownInv(s) /\ CodeInv(s)
  BY DEF IInv, StageInv
<1>2. /\ UNCHANGED <<shown, procVars, readerVars>> /\ stage' = stage /\ stage \in Stages
      /\ \A s \in Stages : tail'[s] \in {tail[s], ring[s]} /\ (closed[s] => closed'[s])
  BY <1>1 DEF Quiet, StartPlan, LaunchFails, Collect, TimesOut, SignalFails, Join, TakeTail, Close,
              FinishPlan, Raise, TypeOK
<1>3. \A s \in Stages : Finished(s)' <=> Finished(s)
  BY <1>2, ShowNothing
<1>4. ASSUME NEW s \in Stages PROVE OutputInv(s)' /\ ShownInv(s)'
  BY <1>1, <1>2, OutputKept, ShownKept DEF procVars, readerVars, ShownInv
<1>5. ASSUME TypeOK', PlanInv', \A s \in Stages : CodeInv(s)' PROVE IInv'
  BY <1>4, <1>5 DEF IInv, StageInv
<1>6. CASE StartPlan \/ Join \/ Raise
  <2>1. TypeOK'
    BY <1>1, <1>2, <1>6 DEF StartPlan, Join, Raise, TypeOK, procVars, readerVars
  <2>2. PlanInv'
    BY <1>1, <1>2, <1>3, <1>6 DEF StartPlan, Join, Raise, PlanInv, InStage, procVars
  <2>3. \A s \in Stages : CodeInv(s)'
    BY <1>1, <1>2, <1>3, <1>6 DEF StartPlan, Join, Raise, CodeInv, Ended, Alive, procVars
  <2> QED
    BY <1>5, <2>1, <2>2, <2>3
<1>7. CASE TakeTail \/ Close
  <2>1. TypeOK'
    <3>1. CASE TakeTail
      <4>1. tail' \in [Stages -> Seq(Nat)]
        BY <1>1, <1>2, <3>1 DEF TakeTail, TypeOK
      <4> QED
        BY <1>1, <1>2, <3>1, <4>1 DEF TakeTail, TypeOK, procVars, readerVars
    <3>2. CASE Close
      BY <1>1, <1>2, <3>2 DEF Close, TypeOK, procVars, readerVars
    <3> QED
      BY <1>7, <3>1, <3>2
  <2>2. PlanInv'
    <3>1. UNCHANGED <<returncode, timedOut, exitCode, proc>> /\ pc \in InStage
      BY <1>2, <1>7 DEF TakeTail, Close, InStage, procVars
    <3>2. pc' \in {"closing", "finishing"} /\ (pc' = "closing" => pc = "tailing")
      BY <1>7 DEF TakeTail, Close
    <3>3. pc = "closing" => closed'[stage]
      BY <1>1, <1>2, <1>7 DEF TakeTail, Close, TypeOK
    <3>4. pc' = "finishing" => pc = "closing"
      BY <1>7 DEF TakeTail, Close
    <3> QED
      BY <1>1, <1>2, <1>3, <3>1, <3>2, <3>3, <3>4 DEF PlanInv, InStage
  <2>3. \A s \in Stages : CodeInv(s)'
    BY <1>1, <1>2, <1>3, <1>7 DEF TakeTail, Close, CodeInv, Ended, Alive, procVars
  <2> QED
    BY <1>5, <2>1, <2>2, <2>3
<1>8. CASE \E rc \in {"infra", "positive"} : LaunchFails(rc)
  <2>1. TypeOK'
    BY <1>1, <1>2, <1>8 DEF LaunchFails, TypeOK, ReturnCode, procVars, readerVars
  <2>2. PlanInv'
    BY <1>1, <1>2, <1>3, <1>8 DEF LaunchFails, PlanInv, InStage, procVars, TypeOK
  <2>3. \A s \in Stages : CodeInv(s)'
    BY <1>1, <1>2, <1>3, <1>8 DEF LaunchFails, CodeInv, Ended, Alive, procVars, TypeOK, PlanInv
  <2> QED
    BY <1>5, <2>1, <2>2, <2>3
<1>9. CASE Collect \/ SignalFails
  <2>1. TypeOK'
    BY <1>1, <1>2, <1>9 DEF Collect, SignalFails, TypeOK, ReturnCode, procVars, readerVars
  <2>2. PlanInv'
    BY <1>1, <1>2, <1>3, <1>9 DEF Collect, SignalFails, PlanInv, InStage, procVars, TypeOK
  <2>3. \A s \in Stages : CodeInv(s)'
    BY <1>1, <1>2, <1>3, <1>9
       DEF Collect, SignalFails, CodeInv, Ended, Alive, procVars, TypeOK, PlanInv
  <2> QED
    BY <1>5, <2>1, <2>2, <2>3
<1>10. CASE TimesOut
  <2>1. TypeOK'
    BY <1>1, <1>2, <1>10 DEF TimesOut, TypeOK, procVars, readerVars
  <2>2. PlanInv'
    BY <1>1, <1>2, <1>3, <1>10 DEF TimesOut, PlanInv, InStage, procVars, TypeOK
  <2>3. \A s \in Stages : CodeInv(s)'
    BY <1>1, <1>2, <1>3, <1>10 DEF TimesOut, CodeInv, Ended, Alive, procVars, TypeOK
  <2> QED
    BY <1>5, <2>1, <2>2, <2>3
<1>11. CASE FinishPlan
  <2>1. exitCode' \in {0, 1, 3} /\ UNCHANGED <<returncode, timedOut, tail, closed>> /\ pc' = "over"
    BY <1>11 DEF FinishPlan, classify_exit_code
  <2>2. TypeOK'
    BY <1>1, <1>2, <2>1 DEF TypeOK, procVars, readerVars
  <2>3. exitCode' = 0 => \A s \in Stages : returncode[s] = "zero"
    BY <1>11 DEF FinishPlan, classify_exit_code
  <2>4. pc = "classifying" /\ stage = NumStages /\ \A s \in Stages : Finished(s)
    <3>1. pc = "classifying"
      BY <1>11 DEF FinishPlan
    <3>2. stage = NumStages /\ Finished(stage) /\ \A s \in Stages : s < stage => Finished(s)
      BY <1>1, <3>1 DEF PlanInv
    <3>3. \A s \in Stages : s < NumStages \/ s = NumStages
      BY NumStagesAssumption DEF Stages
    <3> QED
      BY <3>1, <3>2, <3>3
  <2>5. PlanInv'
    BY <1>1, <1>2, <1>3, <2>1, <2>3, <2>4 DEF PlanInv, InStage, procVars
  <2>6. \A s \in Stages : CodeInv(s)'
    BY <1>1, <1>2, <1>3, <2>1, <2>4 DEF CodeInv, Ended, Alive, procVars
  <2> QED
    BY <1>5, <2>2, <2>5, <2>6
<1> QED
  BY <1>6, <1>7, <1>8, <1>9, <1>10, <1>11 DEF Quiet

\* The process and the reader of a stage start together, with nothing written.
LEMMA LaunchStep ==
    ASSUME IInv, NEW forks \in BOOLEAN, Launch(forks)
    PROVE  IInv'
<1>1. TypeOK /\ PlanInv /\ \A s \in Stages : OutputInv(s) /\ ShownInv(s) /\ CodeInv(s)
  BY DEF IInv, StageInv
<1>2. /\ UNCHANGED <<stage, returncode, timedOut, tail, exitCode, shown, code, written,
                     read, log, ring, closed>>
      /\ pc = "launching" /\ pc' = "waiting" /\ stage \in Stages
      /\ proc[stage] = "none" /\ proc'[stage] = "running"
      /\ reader'[stage] = "reading"
      /\ \A s \in Stages \ {stage} : proc'[s] = proc[s] /\ reader'[s] = reader[s] /\ forked'[s] = forked[s]
  BY <1>1 DEF Launch, TypeOK, PlanInv
<1>3. \A s \in Stages : Finished(s)' <=> Finished(s)
  BY <1>2, ShowNothing
<1>4. ~Finished(stage) /\ shown[stage] # <<>>
  BY <1>1, <1>2 DEF PlanInv, InStage
<1>5. TypeOK'
  BY <1>1, <1>2 DEF Launch, TypeOK
<1>6. PlanInv'
  BY <1>1, <1>2, <1>3, <1>4 DEF PlanInv, InStage
<1>7. ASSUME NEW s \in Stages PROVE StageInv(s)'
  <2>1. OutputInv(s)
    BY <1>1
  <2>2. read[s] \in Nat /\ written[s] \in Nat /\ Own(s) \in Nat /\ Own(s)' = Own(s)
    BY <1>1, <1>2, OwnIsNat DEF TypeOK, Own
  <2>3. proc'[s] = "none" <=> reader'[s] = "none"
    BY <1>2, <2>1 DEF OutputInv
  <2>4. OutputInv(s)'
    <3>1. CASE s = stage
      <4>1. /\ reader[s] = "none" /\ written[s] = 0 /\ reader'[s] = "reading" /\ proc'[s] = "running"
            /\ read[s] = 0
        BY <1>2, <2>1, <2>2, <3>1 DEF OutputInv
      <4> QED
        BY <1>2, <2>1, <2>2, <2>3, <4>1 DEF OutputInv
    <3>2. CASE s # stage
      BY <1>2, <2>1, <2>2, <2>3, <3>2 DEF OutputInv
    <3> QED
      BY <3>1, <3>2
  <2>5. ShownInv(s)'
    <3>1. ShownInv(s) /\ shown' = shown /\ closed' = closed
      BY <1>1, <1>2
    <3>2. /\ reader'[s] = "calling" => reader[s] = "calling"
          /\ shown[s] = <<>> => proc'[s] = "none"
      BY <1>2, <1>4, <3>1 DEF ShownInv
    <3> QED
      BY <3>1, <3>2, ShownKept
  <2>6. CodeInv(s)'
    BY <1>1, <1>2, <1>3, <1>4 DEF CodeInv, Ended, Alive
  <2> QED
    BY <2>4, <2>5, <2>6 DEF StageInv
<1> QED
  BY <1>5, <1>6, <1>7 DEF IInv

\* A signal changes nothing of a process that has exited.
LEMMA SignalStep ==
    ASSUME IInv, Terminate \/ Kill
    PROVE  IInv'
<1>1. TypeOK /\ PlanInv /\ \A s \in Stages : OutputInv(s) /\ ShownInv(s) /\ CodeInv(s)
  BY DEF IInv, StageInv
<1>2. /\ UNCHANGED <<stage, returncode, timedOut, tail, exitCode, shown, code, forked, written,
                     reader, read, log, ring, closed>>
      /\ pc \in {"terminating", "grace"} /\ pc' \in {"grace", "reaping"} /\ stage \in Stages
      /\ \A s \in Stages \ {stage} : proc'[s] = proc[s]
      /\ proc[stage] = "exited" <=> proc'[stage] = "exited"
      /\ proc'[stage] # "none"
  BY <1>1 DEF Terminate, Kill, TypeOK, readerVars
<1>3. \A s \in Stages : Finished(s)' <=> Finished(s)
  BY <1>2, ShowNothing
<1>4. ~Finished(stage) /\ shown[stage] # <<>> /\ proc[stage] # "none" /\ timedOut[stage]
  BY <1>1, <1>2 DEF PlanInv, InStage
<1>5. TypeOK'
  <2>1. proc' \in [Stages -> {"none", "running", "signalled", "killed", "exited"}]
    BY <1>1 DEF Terminate, Kill, TypeOK
  <2> QED
    BY <1>1, <1>2, <2>1 DEF TypeOK
<1>6. PlanInv'
  BY <1>1, <1>2, <1>3, <1>4 DEF PlanInv, InStage
<1>7. ASSUME NEW s \in Stages PROVE StageInv(s)'
  <2>1. OutputInv(s)'
    BY <1>1, <1>2, <1>4 DEF OutputInv, Window, Own, Appended
  <2>2. ShownInv(s)'
    BY <1>1, <1>2, <1>4 DEF ShownInv
  <2>3. CodeInv(s)'
    BY <1>1, <1>2, <1>3, <1>4 DEF CodeInv, Ended, Alive
  <2> QED
    BY <2>1, <2>2, <2>3 DEF StageInv
<1> QED
  BY <1>5, <1>6, <1>7 DEF IInv

LEMMA StartStageStep ==
    ASSUME IInv, StartStage
    PROVE  IInv'
<1>1. TypeOK /\ PlanInv /\ \A s \in Stages : OutputInv(s) /\ ShownInv(s) /\ CodeInv(s)
  BY DEF IInv, StageInv
<1>2. /\ UNCHANGED <<stage, returncode, timedOut, tail, exitCode, proc, code, forked, written,
                     reader, read, log, ring, closed>>
      /\ pc = "starting" /\ pc' = "launching" /\ stage \in Stages
      /\ handle("stage_started", stage)
  BY <1>1 DEF StartStage, TypeOK, procVars, readerVars
<1>3. shown[stage] = <<>> /\ proc[stage] = "none"
  BY <1>1, <1>2 DEF PlanInv, ShownInv
<1>4. /\ shown' \in [Stages -> Seq(Shown)]
      /\ \A s \in Stages \ {stage} : shown'[s] = shown[s]
      /\ shown'[stage] # <<>> /\ shown'[stage][1] = "stage_started" /\ DOMAIN shown'[stage] = 1..1
      /\ \A s \in Stages : Finished(s)' <=> Finished(s)
  <2> DEFINE n == Len(shown[stage])
  <2>1. n = 0
    BY <1>3, EmptySeq
  <2>2. "stage_started" \in Shown /\ "stage_started" # "stage_finished"
    BY DEF Shown
  <2>3. /\ shown' \in [Stages -> Seq(Shown)]
        /\ \A s \in Stages \ {stage} : shown'[s] = shown[s]
        /\ DOMAIN shown'[stage] = 1..(n + 1)
        /\ shown'[stage][n + 1] = "stage_started" /\ shown'[stage] # <<>>
        /\ \A s \in Stages : Finished(s)' <=> Finished(s)
    BY <1>1, <1>2, <2>2, ShowOneMore
  <2> QED
    BY <2>1, <2>3
<1>5. ~Finished(stage)
  <2>1. Len(shown[stage]) = 0
    BY <1>3, EmptySeq
  <2> QED
    BY <2>1 DEF Finished, Contains
<1>6. TypeOK'
  BY <1>1, <1>2, <1>4 DEF TypeOK
<1>7. PlanInv'
  BY <1>1, <1>2, <1>3, <1>4, <1>5 DEF PlanInv, InStage, TypeOK
<1>8. ASSUME NEW s \in Stages PROVE StageInv(s)'
  <2>1. OutputInv(s)'
    BY <1>1, <1>2 DEF OutputInv, Window, Own, Appended
  <2>2. ShownInv(s)'
    BY <1>1, <1>2, <1>3, <1>4 DEF ShownInv
  <2>3. CodeInv(s)'
    BY <1>1, <1>2, <1>3, <1>4 DEF CodeInv, Ended, Alive
  <2> QED
    BY <2>1, <2>2, <2>3 DEF StageInv
<1> QED
  BY <1>6, <1>7, <1>8 DEF IInv

LEMMA FinishStageStep ==
    ASSUME IInv, FinishStage
    PROVE  IInv'
<1>1. TypeOK /\ PlanInv /\ \A s \in Stages : OutputInv(s) /\ ShownInv(s) /\ CodeInv(s)
  BY DEF IInv, StageInv
<1> DEFINE n == Len(shown[stage])
<1>2. /\ UNCHANGED <<returncode, timedOut, tail, exitCode, proc, code, forked, written,
                     reader, read, log, ring, closed>>
      /\ pc = "finishing" /\ stage \in Stages
      /\ handle("stage_finished", stage)
      /\ \/ stage < NumStages /\ stage' = stage + 1 /\ pc' = "starting"
         \/ stage = NumStages /\ stage' = stage /\ pc' = "classifying"
  <2>1. stage \in Stages /\ (stage < NumStages \/ stage = NumStages)
    BY <1>1, NumStagesAssumption DEF TypeOK, Stages
  <2>2. CASE stage < NumStages
    BY <2>1, <2>2 DEF FinishStage, procVars, readerVars
  <2>3. CASE ~(stage < NumStages)
    BY <2>1, <2>3 DEF FinishStage, procVars, readerVars
  <2> QED
    BY <2>2, <2>3
<1>3. ~Finished(stage) /\ shown[stage] # <<>> /\ closed[stage]
  BY <1>1, <1>2 DEF PlanInv, InStage
<1>4. /\ shown' \in [Stages -> Seq(Shown)]
      /\ \A s \in Stages \ {stage} : shown'[s] = shown[s]
      /\ n \in Nat /\ n # 0 /\ Len(shown'[stage]) = n + 1
      /\ DOMAIN shown'[stage] = 1..(n + 1) /\ shown'[stage] # <<>>
      /\ \A i \in 1..n : shown'[stage][i] = shown[stage][i]
      /\ \A s \in Stages : Finished(s)' <=> Finished(s) \/ s = stage
  BY <1>1, <1>2, <1>3, ShowOneMore DEF Shown
<1>5. \A i \in 1..n : shown[stage][i] # "stage_finished"
  BY <1>3 DEF Finished, Contains
<1>6. TypeOK'
  <2>1. stage' \in Stages
    BY <1>2, NumStagesAssumption DEF Stages
  <2> QED
    BY <1>1, <1>2, <1>4, <2>1 DEF TypeOK
<1>7. PlanInv'
  <2>1. \A s \in Stages : s \in Nat
    BY DEF Stages
  <2>2. ASSUME NEW s \in Stages, s > stage' \/ (s = stage' /\ pc' \in {"idle", "starting"})
        PROVE  shown'[s] = <<>>
    BY <1>1, <1>2, <1>4, <2>1, <2>2 DEF PlanInv
  <2>3. ASSUME NEW s \in Stages, s < stage' PROVE Finished(s)'
    BY <1>1, <1>2, <1>4, <2>1, <2>3 DEF PlanInv
  <2>4. exitCode' # 0
    BY <1>1, <1>2 DEF PlanInv
  <2> QED
    BY <1>2, <1>4, <2>2, <2>3, <2>4 DEF PlanInv, InStage
<1>8. ASSUME NEW s \in Stages PROVE StageInv(s)'
  <2>1. OutputInv(s)'
    BY <1>1, <1>2 DEF OutputInv, Window, Own, Appended
  <2>2. ShownInv(s)'
    <3>1. CASE s = stage
      <4>1. shown'[s][1] = "stage_started"
        BY <1>1, <1>3, <1>4, <3>1 DEF ShownInv
      <4>2. ASSUME NEW i \in 1..(n + 1), shown'[s][i] = "stage_finished" PROVE i = n + 1
        BY <1>4, <1>5, <3>1, <4>2
      <4> QED
        BY <1>2, <1>3, <1>4, <3>1, <4>1, <4>2 DEF ShownInv
    <3>2. CASE s # stage
      BY <1>1, <1>2, <1>4, <3>2 DEF ShownInv
    <3> QED
      BY <3>1, <3>2
  <2>3. CodeInv(s)'
    BY <1>1, <1>2, <1>4 DEF CodeInv, Ended, Alive
  <2> QED
    BY <2>1, <2>2, <2>3 DEF StageInv
<1> QED
  BY <1>6, <1>7, <1>8 DEF IInv

-----------------------------------------------------------------------------
(* The reader and the processes                                            *)

\* The reader and the processes of a stage leave run_plan where it is.
LEMMA PlanKept ==
    ASSUME IInv, UNCHANGED planVars, UNCHANGED closed,
           \A s \in Stages : /\ Finished(s)' <=> Finished(s)
                             /\ shown'[s] = <<>> <=> shown[s] = <<>>
                             /\ proc'[s] = "none" <=> proc[s] = "none"
    PROVE  PlanInv'
<1>1. PlanInv /\ stage \in Stages
  BY DEF IInv, TypeOK
<1> QED
  BY <1>1 DEF PlanInv, planVars, InStage

LEMMA ReaderEndsStep ==
    ASSUME IInv, NEW t \in Stages, Read(t) \/ ReadFails(t) \/ EndOfOutput(t) \/ FeedFails(t)
    PROVE  IInv'
<1>1. TypeOK /\ \A s \in Stages : OutputInv(s) /\ ShownInv(s) /\ CodeInv(s)
  BY DEF IInv, StageInv
<1>2. /\ UNCHANGED <<planVars, shown, procVars, log, ring, closed>>
      /\ reader[t] \in {"reading", "feeding"} /\ reader'[t] \in {"feeding", "ended", "broken"}
      /\ \A s \in Stages \ {t} : reader'[s] = reader[s] /\ read'[s] = read[s]
  BY <1>1 DEF Read, ReadFails, EndOfOutput, FeedFails, TypeOK
<1>3. \A s \in Stages : Finished(s)' <=> Finished(s)
  BY <1>2, ShowNothing
<1>4. TypeOK'
  <2>1. CASE Read(t)
    BY SMTT(30), <1>1, <1>2, <2>1 DEF Read, TypeOK, planVars, procVars
  <2>2. CASE EndOfOutput(t) \/ ReadFails(t) \/ FeedFails(t)
    <3>1. read' = read /\ \E x \in {"ended", "broken"} : reader' = [reader EXCEPT ![t] = x]
      BY <2>2 DEF EndOfOutput, ReadFails, FeedFails
    <3> QED
      BY <1>1, <1>2, <3>1 DEF TypeOK, planVars, procVars
  <2> QED
    BY <2>1, <2>2
<1>5. PlanInv'
  BY <1>2, <1>3, PlanKept DEF procVars
<1>6. ASSUME NEW s \in Stages PROVE StageInv(s)'
  <2>1. OutputInv(s)'
    <3>1. /\ read[s] \in Nat /\ written[s] \in Nat /\ Own(s) \in Nat /\ Own(s)' = Own(s)
          /\ OutputInv(s) /\ tail' = tail
      BY <1>1, <1>2, OwnIsNat DEF TypeOK, planVars, Own
    <3>2. CASE s = t /\ Read(t)
      <4>1. /\ read'[s] = read[s] + 1 /\ reader'[s] = "feeding" /\ read[s] < written[s]
            /\ reader[s] = "reading"
        BY <1>1, <3>2 DEF Read, TypeOK
      <4> QED
        BY <1>2, <3>1, <3>2, <4>1 DEF OutputInv, procVars
    <3>3. CASE s = t /\ EndOfOutput(t)
      <4>1. /\ read'[s] = read[s] /\ reader'[s] = "ended" /\ read[s] = written[s]
            /\ proc[s] = "exited" /\ ~forked[s] /\ reader[s] = "reading"
        BY <1>1, <3>3 DEF EndOfOutput, TypeOK
      <4> QED
        BY <1>2, <3>1, <3>3, <4>1 DEF OutputInv, procVars
    <3>4. CASE s = t /\ (ReadFails(t) \/ FeedFails(t))
      <4>1. read'[s] = read[s] /\ reader'[s] = "broken" /\ reader[s] # "none"
        BY <1>1, <3>4 DEF ReadFails, FeedFails, TypeOK
      <4> QED
        BY <1>2, <3>1, <3>4, <4>1 DEF OutputInv, procVars
    <3>5. CASE s # t
      BY <1>2, <3>1, <3>5 DEF OutputInv, procVars
    <3> QED
      BY <3>2, <3>3, <3>4, <3>5
  <2>2. ShownInv(s)'
    <3>1. ShownInv(s) /\ shown' = shown /\ closed' = closed /\ proc' = proc
      BY <1>1, <1>2 DEF procVars
    <3>2. reader'[s] = "calling" => reader[s] = "calling"
      BY <1>2
    <3> QED
      BY <3>1, <3>2, ShownKept DEF ShownInv
  <2>3. CodeInv(s)'
    BY <1>1, <1>2, <1>3 DEF CodeInv, Ended, Alive, planVars, procVars
  <2> QED
    BY <2>1, <2>2, <2>3 DEF StageInv
<1> QED
  BY <1>4, <1>5, <1>6 DEF IInv

\* feed puts the chunk that is held at the end of the log and into the ring.
LEMMA FeedStep ==
    ASSUME IInv, NEW t \in Stages, Feed(t)
    PROVE  IInv'
<1>1. TypeOK /\ \A s \in Stages : OutputInv(s) /\ ShownInv(s) /\ CodeInv(s)
  BY DEF IInv, StageInv
<1>2. /\ UNCHANGED <<planVars, shown, procVars, read, closed>>
      /\ reader[t] = "feeding" /\ reader'[t] \in {"reading", "calling"}
      /\ closed[t] => reader'[t] = "reading" /\ log' = log /\ ring' = ring
      /\ \A s \in Stages \ {t} : reader'[s] = reader[s] /\ log'[s] = log[s] /\ ring'[s] = ring[s]
  BY <1>1 DEF Feed, TypeOK
<1>3. \A s \in Stages : Finished(s)' <=> Finished(s)
  BY <1>2, ShowNothing
<1> DEFINE n == Own(t)
           m == Len(log[t])
           moved == Append(IF Len(ring[t]) < Ring THEN ring[t] ELSE Tail(ring[t]), n + 1)
<1>4. /\ read[t] \in Nat /\ written[t] \in Nat /\ n \in Nat /\ Earlier[t] \in Nat
      /\ m \in Nat /\ m = Earlier[t] + n
      /\ DOMAIN log[t] = 1..m /\ log[t] \in Seq(Nat) /\ ring[t] \in Seq(Nat)
      /\ OutputInv(t)
  BY <1>1, LenProperties, OwnIsNat DEF TypeOK
<1>5. ~closed[t] => read[t] = n + 1
  BY <1>2, <1>4 DEF OutputInv
<1>6. ASSUME ~closed[t]
      PROVE  /\ log' \in [Stages -> Seq(Nat)] /\ ring' \in [Stages -> Seq(Nat)]
             /\ Own(t)' = n + 1 /\ Appended(log'[t], Earlier[t])
             /\ Window(ring'[t], n + 1)
  <2>1. /\ log' = [log EXCEPT ![t] = Append(@, n + 1)]
        /\ ring' = [ring EXCEPT ![t] = Append(IF Len(@) < Ring THEN @ ELSE Tail(@), n + 1)]
    BY <1>5, <1>6 DEF Feed
  <2>2. /\ Append(log[t], n + 1) \in Seq(Nat) /\ Len(Append(log[t], n + 1)) = m + 1
        /\ \A i \in 1..m : Append(log[t], n + 1)[i] = log[t][i]
        /\ Append(log[t], n + 1)[m + 1] = n + 1
    BY <1>4, AppendProperties
  <2>3. log'[t] = Append(log[t], n + 1) /\ log' \in [Stages -> Seq(Nat)]
    BY <1>1, <2>1, <2>2 DEF TypeOK
  <2>4. DOMAIN log'[t] = 1..(m + 1) /\ Len(log'[t]) = m + 1
    BY <2>2, <2>3, LenProperties
  <2>5. Own(t)' = n + 1 /\ Appended(log'[t], Earlier[t])
    <3>1. \A i \in 1..m : log[t][i] = IF i <= Earlier[t] THEN 0 ELSE i - Earlier[t]
      <4>1. Appended(log[t], Earlier[t])
        BY <1>4 DEF OutputInv
      <4> QED
        BY <1>4, <4>1 DEF Appended
    <3>2. Own(t)' = n + 1
      <4>1. Own(t)' = Len(log'[t]) - Earlier[t]
        BY DEF Own
      <4> QED
        BY <1>4, <2>4, <4>1
    <3>3. ASSUME NEW i \in 1..(m + 1)
          PROVE  log'[t][i] = IF i <= Earlier[t] THEN 0 ELSE i - Earlier[t]
      <4>1. CASE i \in 1..m
        <5>1. log'[t][i] = log[t][i]
          BY <2>2, <2>3, <4>1
        <5> QED
          BY <3>1, <4>1, <5>1
      <4>2. CASE i = m + 1
        <5>1. ~(m + 1 <= Earlier[t]) /\ (m + 1) - Earlier[t] = n + 1
          BY <1>4
        <5> QED
          BY <2>2, <2>3, <4>2, <5>1
      <4> HIDE DEF m
      <4>3. i \in 1..m \/ i = m + 1
        BY <1>4
      <4> QED
        BY <4>1, <4>2, <4>3
    <3> QED
      BY <2>4, <3>2, <3>3 DEF Appended
  <2>6. moved \in Seq(Nat) /\ Window(moved, n + 1)
    BY <1>4, WindowMoves DEF OutputInv
  <2>7. ring' = [ring EXCEPT ![t] = moved]
    BY <2>1
  <2> HIDE DEF moved
  <2>8. ring'[t] = moved /\ ring' \in [Stages -> Seq(Nat)]
    BY <1>1, <2>6, <2>7 DEF TypeOK
  <2> QED
    BY <2>3, <2>5, <2>6, <2>8
<1>7. TypeOK'
  <2>1. reader' \in [Stages -> {"none", "reading", "feeding", "calling", "ended", "broken"}]
    <3>1. CASE closed[t]
      <4>1. reader' = [reader EXCEPT ![t] = "reading"]
        BY <3>1 DEF Feed
      <4> QED
        BY <1>1, <4>1 DEF TypeOK
    <3>2. CASE ~closed[t]
      <4>1. reader' = [reader EXCEPT ![t] = IF Streaming THEN "calling" ELSE "reading"]
        BY <3>2 DEF Feed
      <4> QED
        BY <1>1, <4>1 DEF TypeOK
    <3> QED
      BY <3>1, <3>2
  <2>2. log' \in [Stages -> Seq(Nat)] /\ ring' \in [Stages -> Seq(Nat)]
    BY <1>1, <1>2, <1>6 DEF TypeOK
  <2> QED
    BY <1>1, <1>2, <2>1, <2>2 DEF TypeOK, planVars, procVars
<1>8. PlanInv'
  BY <1>2, <1>3, PlanKept DEF procVars
<1>9. ASSUME NEW s \in Stages PROVE StageInv(s)'
  <2>1. OutputInv(s)'
    <3>1. CASE s = t /\ ~closed[t]
      <4>1. PICK k \in 0..n : Window(tail[t], k)
        BY <1>4 DEF OutputInv
      <4>2. k \in 0..(n + 1) /\ Window(tail'[t], k) /\ tail'[t] = tail[t]
        BY <1>2, <1>4, <4>1 DEF planVars
      <4>3. /\ proc'[t] # "none" /\ reader'[t] # "none" /\ reader'[t] # "ended"
            /\ reader'[t] \notin {"feeding", "broken"}
        BY <1>2, <1>4 DEF OutputInv, procVars
      <4>4. read'[t] = n + 1 /\ read'[t] <= written'[t] /\ ~closed'[t]
        BY <1>2, <1>4, <1>5, <3>1 DEF OutputInv, procVars
      <4> QED
        BY <1>4, <1>6, <3>1, <4>2, <4>3, <4>4 DEF OutputInv
    <3>2. CASE s # t \/ closed[t]
      <4>1. /\ log'[s] = log[s] /\ ring'[s] = ring[s] /\ tail'[s] = tail[s] /\ closed'[s] = closed[s]
            /\ read'[s] = read[s] /\ UNCHANGED procVars
            /\ reader'[s] = reader[s] \/
                   (closed[s] /\ reader[s] = "feeding" /\ reader'[s] = "reading")
        BY <1>2, <3>2 DEF planVars
      <4>2. OutputInv(s)
        BY <1>1
      <4> QED
        BY <4>1, <4>2 DEF OutputInv, Window, Own, Appended, procVars
    <3> QED
      BY <3>1, <3>2
  <2>2. ShownInv(s)'
    <3>1. CASE s = t /\ reader'[t] = "calling"
      <4>1. ~closed[t]
        BY <1>2, <3>1
      <4> QED
        BY <1>1, <1>2, <3>1, <4>1 DEF ShownInv, procVars
    <3>2. CASE s # t \/ reader'[t] # "calling"
      BY ZenonT(30), <1>1, <1>2, <3>2 DEF ShownInv, procVars
    <3> QED
      BY <3>1, <3>2
  <2>3. CodeInv(s)'
    BY <1>1, <1>2, <1>3 DEF CodeInv, Ended, Alive, planVars, procVars
  <2> QED
    BY <2>1, <2>2, <2>3 DEF StageInv
<1> QED
  BY <1>7, <1>8, <1>9 DEF IInv

\* on_chunk may come after stage_finished, and then only once.
LEMMA CallStep ==
    ASSUME IInv, NEW t \in Stages, Call(t)
    PROVE  IInv'
<1>1. TypeOK /\ \A s \in Stages : OutputInv(s) /\ ShownInv(s) /\ CodeInv(s)
  BY DEF IInv, StageInv
<1> DEFINE n == Len(shown[t])
<1>2. /\ UNCHANGED <<planVars, procVars, read, log, ring, closed>>
      /\ reader[t] = "calling" /\ reader'[t] = "reading"
      /\ \A s \in Stages \ {t} : reader'[s] = reader[s]
      /\ handle("chunk", t)
  BY <1>1 DEF Call, TypeOK
<1>3. shown[t] # <<>>
  BY <1>1, <1>2 DEF OutputInv, ShownInv
<1>4. /\ shown' \in [Stages -> Seq(Shown)]
      /\ \A s \in Stages \ {t} : shown'[s] = shown[s]
      /\ n \in Nat /\ n # 0 /\ Len(shown'[t]) = n + 1 /\ shown'[t] # <<>>
      /\ DOMAIN shown[t] = 1..n /\ DOMAIN shown'[t] = 1..(n + 1)
      /\ \A i \in 1..n : shown'[t][i] = shown[t][i]
      /\ shown'[t][n + 1] # "stage_finished"
      /\ \A s \in Stages : Finished(s)' <=> Finished(s)
  BY <1>1, <1>2, <1>3, ShowOneMore DEF Shown
<1>5. TypeOK'
  <2>1. reader' \in [Stages -> {"none", "reading", "feeding", "calling", "ended", "broken"}]
    BY <1>1 DEF Call, TypeOK
  <2> QED
    BY <1>1, <1>2, <1>4, <2>1 DEF TypeOK, planVars, procVars
<1>6. PlanInv'
  BY <1>2, <1>3, <1>4, PlanKept DEF procVars
<1>7. ASSUME NEW s \in Stages PROVE StageInv(s)'
  <2>1. OutputInv(s)'
    BY <1>1, <1>2 DEF OutputInv, Window, Own, Appended, planVars, procVars
  <2>2. ShownInv(s)'
    <3>1. CASE s = t
      <4>1. shown'[t][1] = "stage_started"
        BY <1>1, <1>3, <1>4 DEF ShownInv
      <4>2. ASSUME NEW i \in 1..(n + 1), shown'[t][i] = "stage_finished"
            PROVE  i = n /\ closed[t]
        <5>1. i \in 1..n /\ shown[t][i] = "stage_finished"
          BY <1>4, <4>2
        <5> QED
          BY <1>1, <1>2, <1>4, <5>1 DEF ShownInv
      <4>3. \A i \in DOMAIN shown'[t] : shown'[t][i] = "stage_finished" =>
                closed'[t] /\ Len(shown'[t]) <= i + 1 /\ reader'[t] # "calling"
        <5>1. reader'[t] # "calling" /\ closed' = closed
          BY <1>2
        <5> QED
          BY <1>4, <4>2, <5>1
      <4> QED
        BY <1>4, <3>1, <4>1, <4>3 DEF ShownInv
    <3>2. CASE s # t
      <4>1. /\ shown'[s] = shown[s] /\ reader'[s] = reader[s] /\ proc' = proc /\ closed' = closed
            /\ ShownInv(s)
        BY <1>1, <1>2, <1>4, <3>2 DEF procVars
      <4> QED
        BY <4>1 DEF ShownInv
    <3> QED
      BY <3>1, <3>2
  <2>3. CodeInv(s)'
    BY <1>1, <1>2, <1>4 DEF CodeInv, Ended, Alive, planVars, procVars
  <2> QED
    BY <2>1, <2>2, <2>3 DEF StageInv
<1> QED
  BY <1>5, <1>6, <1>7 DEF IInv

\* What writes, exits or is left holding the pipe was started by Launch, and
\* whatever has read the end of the output, no writer is left.
LEMMA ProcessKeeps ==
    ASSUME IInv, NEW t \in Stages, ProcessStep(t)
    PROVE  IInv'
<1>1. TypeOK /\ \A s \in Stages : OutputInv(s) /\ ShownInv(s) /\ CodeInv(s)
  BY DEF IInv, StageInv
<1>2. /\ UNCHANGED <<planVars, shown, readerVars, closed>>
      /\ \A s \in Stages \ {t} : /\ proc'[s] = proc[s] /\ code'[s] = code[s]
                                 /\ forked'[s] = forked[s] /\ written'[s] = written[s]
  BY <1>1 DEF ProcessStep, Write, Exit, ForkedExit, TypeOK
<1>3. \A s \in Stages : Finished(s)' <=> Finished(s)
  BY <1>2, ShowNothing
<1>4. \/ /\ proc'[t] = proc[t] /\ code'[t] = code[t] /\ forked'[t] = forked[t]
         /\ written'[t] = written[t] + 1 /\ (Alive(t) \/ forked[t])
      \/ /\ Alive(t) /\ proc'[t] = "exited" /\ forked'[t] = forked[t] /\ written'[t] = written[t]
      \/ /\ proc'[t] = proc[t] /\ code'[t] = code[t] /\ forked[t] /\ ~forked'[t]
         /\ written'[t] = written[t]
  BY <1>1 DEF ProcessStep, Write, Exit, ForkedExit, TypeOK, Alive
<1>5. TypeOK'
  <2>1. CASE Write(t)
    BY SMTT(30), <1>1, <1>2, <2>1 DEF Write, TypeOK, planVars, readerVars
  <2>2. CASE \E rc \in ReturnCode : Exit(t, rc)
    BY SMTT(30), <1>1, <1>2, <2>2 DEF Exit, TypeOK, planVars, readerVars
  <2>3. CASE ForkedExit(t)
    BY <1>1, <1>2, <2>3 DEF ForkedExit, TypeOK, planVars, readerVars
  <2> QED
    BY <2>1, <2>2, <2>3 DEF ProcessStep
<1>6. \A s \in Stages : proc'[s] = "none" <=> proc[s] = "none"
  BY <1>2, <1>4 DEF Alive
<1>7. PlanInv'
  BY <1>2, <1>3, <1>6, PlanKept
<1>8. ASSUME NEW s \in Stages PROVE StageInv(s)'
  <2>1. OutputInv(s)'
    <3>1. OutputInv(s) /\ read[s] \in Nat /\ written[s] \in Nat
      BY <1>1 DEF TypeOK
    <3>2. CASE s = t
      BY <1>2, <1>4, <3>1, <3>2 DEF OutputInv, Window, Own, Appended, Alive, planVars, readerVars
    <3>3. CASE s # t
      BY <1>2, <3>1, <3>3 DEF OutputInv, Window, Own, Appended, planVars, readerVars
    <3> QED
      BY <3>2, <3>3
  <2>2. ShownInv(s)'
    BY <1>1, <1>2, <1>6 DEF ShownInv, readerVars
  <2>3. CodeInv(s)'
    BY <1>1, <1>2, <1>3, <1>4 DEF CodeInv, Ended, Alive, planVars
  <2> QED
    BY <2>1, <2>2, <2>3 DEF StageInv
<1> QED
  BY <1>5, <1>7, <1>8 DEF IInv

-----------------------------------------------------------------------------
(* Theorems                                                                *)

LEMMA StepKeepsInv == IInv /\ [Next]_vars => IInv'
<1> SUFFICES ASSUME IInv, [Next]_vars PROVE IInv'
  OBVIOUS
<1>1. CASE StartPlan \/ MainStep
  BY <1>1, QuietStep, LaunchStep, SignalStep, StartStageStep, FinishStageStep DEF MainStep, Quiet
<1>2. CASE \E t \in Stages : ReaderStep(t) \/ ProcessStep(t)
  BY <1>2, ReaderEndsStep, FeedStep, CallStep, ProcessKeeps DEF ReaderStep
<1>3. CASE UNCHANGED vars
  <2>1. \A s \in Stages : Finished(s)' <=> Finished(s)
    BY <1>3, ShowNothing DEF vars
  <2>2. TypeOK'
    BY <1>3 DEF IInv, TypeOK, vars, planVars, procVars, readerVars
  <2>3. PlanInv'
    BY <1>3, <2>1, PlanKept DEF vars, procVars
  <2>4. ASSUME NEW s \in Stages PROVE StageInv(s)'
    <3>1. OutputInv(s)'
      BY <1>3, OutputKept DEF vars, planVars
    <3>2. ShownInv(s)' /\ CodeInv(s)'
      BY <1>3, <2>1 DEF IInv, StageInv, ShownInv, CodeInv, Ended, Alive, vars, planVars, procVars,
                       readerVars
    <3> QED
      BY <3>1, <3>2 DEF StageInv
  <2> QED
    BY <2>2, <2>3, <2>4 DEF IInv
<1> QED
  BY <1>1, <1>2, <1>3 DEF Next

\* The strengthened invariant: what the reader of each stage has put into the
\* LogBuffer and given to the renderer, and where run_plan and run_stage are.
THEOREM Invariance == Spec => []IInv
  BY InitInv, StepKeepsInv, PTL DEF Spec

\* After what it held before, run.log is a beginning of the output of its stage,
\* in order, whatever the reader thread meets, and the whole output if the thread
\* reached the end before the LogBuffer was closed.
THEOREM LogHoldsOutput == Spec => []LogIsOutput
<1>1. ASSUME IInv, NEW s \in Stages
      PROVE  /\ Appended(log[s], Earlier[s])
             /\ Own(s) \in 0..read[s]
             /\ reader[s] = "ended" /\ ~closed[s] => Own(s) = written[s]
  BY <1>1 DEF IInv, StageInv, OutputInv
<1>2. IInv => LogIsOutput
  BY <1>1 DEF LogIsOutput, Appended
<1> QED
  BY <1>2, Invariance, PTL

\* A window of the first n chunks is a suffix of the first n of its stage in run.log.
LEMMA WindowIsSuffix ==
    ASSUME NEW q \in Seq(Nat), NEW l \in Seq(Nat), NEW e \in Nat, Appended(l, e),
           NEW n \in Nat, e + n <= Len(l), Window(q, n)
    PROVE  IsSuffix(q, SubSeq(l, e + 1, e + n))
<1> DEFINE k == Len(q)
           r == Reverse(q)
           b == SubSeq(l, e + 1, e + n)
           rb == Reverse(b)
<1>1. k \in Nat /\ DOMAIN q = 1..k /\ Len(l) \in Nat /\ DOMAIN l = 1..Len(l) /\ n \in Nat
  BY LenProperties
<1>2. k <= n
  BY <1>1, RingAssumption DEF Window
<1>3. b \in Seq(Nat) /\ Len(b) = n /\ \A i \in 1..n : b[i] = i
  <2>1. \A i \in (e + 1)..(e + n) : l[i] = i - e /\ l[i] \in Nat
    <3>1. ASSUME NEW i \in (e + 1)..(e + n) PROVE l[i] = i - e /\ l[i] \in Nat
      <4>1. i \in DOMAIN l /\ ~(i <= e) /\ i - e \in Nat
        BY <1>1
      <4> QED
        BY <4>1 DEF Appended
    <3> QED
      BY <3>1
  <2>2. /\ b \in Seq(Nat)
        /\ Len(b) = IF e + 1 <= e + n THEN (e + n) - (e + 1) + 1 ELSE 0
        /\ \A i \in 1..((e + n) - (e + 1) + 1) : b[i] = l[(e + 1) + i - 1]
    BY <1>1, <2>1, SubSeqProperties
  <2> HIDE DEF b
  <2>3. b \in Seq(Nat) /\ Len(b) = n
    BY <1>1, <2>2
  <2>4. ASSUME NEW i \in 1..n PROVE b[i] = i
    <3>1. i \in 1..((e + n) - (e + 1) + 1) /\ (e + 1) + i - 1 = e + i /\ e + i \in (e + 1)..(e + n)
      BY <1>1
    <3>2. b[i] = l[e + i] /\ l[e + i] = (e + i) - e
      BY <2>1, <2>2, <3>1
    <3> QED
      BY <1>1, <3>2
  <2> QED
    BY <2>3, <2>4
<1> HIDE DEF b
<1>4. r = [i \in 1..k |-> n - i + 1]
  <2>1. r = [i \in 1..k |-> q[(k - i) + 1]]
    BY DEF Reverse
  <2>2. ASSUME NEW i \in 1..k PROVE q[(k - i) + 1] = n - i + 1
    <3>1. (k - i) + 1 \in DOMAIN q
      BY <1>1
    <3>2. q[(k - i) + 1] = n - k + ((k - i) + 1)
      BY <3>1 DEF Window
    <3> QED
      BY <1>1, <3>2
  <2> QED
    BY <2>1, <2>2
<1>5. rb = [i \in 1..n |-> n - i + 1]
  <2>1. rb = [i \in 1..n |-> b[(n - i) + 1]]
    BY <1>3 DEF Reverse
  <2>2. ASSUME NEW i \in 1..n PROVE b[(n - i) + 1] = n - i + 1
    <3>1. (n - i) + 1 \in 1..n /\ (n - i) + 1 = n - i + 1
      BY <1>1
    <3> QED
      BY <1>3, <3>1
  <2> QED
    BY <2>1, <2>2
<1>6. /\ r \in Seq(Int) /\ Len(r) = k /\ rb \in Seq(Int) /\ Len(rb) = n
      /\ \A i \in 1..k : r[i] = n - i + 1 /\ rb[i] = n - i + 1
  BY <1>1, <1>2, <1>4, <1>5
<1> HIDE DEF r, rb, k
<1>7. SubSeq(r, 1, k) = SubSeq(rb, 1, k)
  <2>1. (\A i \in 1..k : r[i] \in Int) /\ (\A i \in 1..k : rb[i] \in Int) /\ k \in Nat
    BY <1>1, <1>6
  <2>2. /\ SubSeq(r, 1, k) \in Seq(Int) /\ Len(SubSeq(r, 1, k)) = IF 1 <= k THEN k - 1 + 1 ELSE 0
        /\ \A i \in 1..(k - 1 + 1) : SubSeq(r, 1, k)[i] = r[1 + i - 1]
    BY <2>1, SubSeqProperties
  <2>3. /\ SubSeq(rb, 1, k) \in Seq(Int) /\ Len(SubSeq(rb, 1, k)) = IF 1 <= k THEN k - 1 + 1 ELSE 0
        /\ \A i \in 1..(k - 1 + 1) : SubSeq(rb, 1, k)[i] = rb[1 + i - 1]
    BY <2>1, SubSeqProperties
  <2> DEFINE x == SubSeq(r, 1, k)
             y == SubSeq(rb, 1, k)
  <2> HIDE DEF x, y
  <2>4. x \in Seq(Int) /\ y \in Seq(Int) /\ Len(x) = k /\ Len(y) = k
    BY <2>1, <2>2, <2>3 DEF x, y
  <2>5. ASSUME NEW i \in 1..k PROVE x[i] = y[i]
    <3>1. i \in 1..(k - 1 + 1) /\ 1 + i - 1 = i
      BY <2>1
    <3> QED
      BY <1>6, <2>2, <2>3, <3>1 DEF x, y
  <2>6. x = y
    BY <2>4, <2>5, SeqEqual
  <2> QED
    BY <2>6 DEF x, y
<1>8. IsPrefix(r, rb)
  BY <1>1, <1>2, <1>6, <1>7 DEF IsPrefix, k
<1> QED
  BY <1>8 DEF IsSuffix, r, rb, b

\* The output_tail of a StageResult is the end of what run.log held when it was
\* taken, and a reader that outlives its stage gives the renderer at most one
\* chunk after stage_finished.
THEOREM TailAndLateChunk == Spec => []Inv
<1>1. ASSUME IInv, NEW s \in Stages
      PROVE  /\ Len(tail[s]) <= Ring
             /\ \E n \in Earlier[s]..Len(log[s]) :
                    IsSuffix(tail[s], SubSeq(log[s], Earlier[s] + 1, n))
             /\ tail[s] # <<>> /\ Len(tail[s]) < Ring => Head(tail[s]) = 1
  <2>1. tail[s] \in Seq(Nat) /\ log[s] \in Seq(Nat) /\ Appended(log[s], Earlier[s])
    BY <1>1 DEF IInv, StageInv, OutputInv, TypeOK
  <2>2. PICK n \in 0..Own(s) : Window(tail[s], n)
    BY <1>1 DEF IInv, StageInv, OutputInv
  <2>3. \E k \in Earlier[s]..Len(log[s]) : IsSuffix(tail[s], SubSeq(log[s], Earlier[s] + 1, k))
    <3>1. /\ Earlier[s] \in Nat /\ n \in Nat /\ Len(log[s]) \in Nat
          /\ Earlier[s] + n <= Len(log[s])
      BY <1>1, OwnIsNat DEF IInv, StageInv
    <3>2. IsSuffix(tail[s], SubSeq(log[s], Earlier[s] + 1, Earlier[s] + n))
      BY <2>1, <2>2, <3>1, WindowIsSuffix
    <3>3. Earlier[s] + n \in Earlier[s]..Len(log[s])
      BY <3>1
    <3> QED
      BY <3>2, <3>3
  <2>4. Len(log[s]) \in Nat /\ DOMAIN tail[s] = 1..Len(tail[s]) /\ Len(tail[s]) \in Nat
    BY <2>1, LenProperties
  <2>5. ASSUME tail[s] # <<>>, Len(tail[s]) < Ring PROVE Head(tail[s]) = 1
    <3>1. Len(tail[s]) = n /\ 1 \in DOMAIN tail[s]
      BY <2>1, <2>2, <2>4, <2>5, EmptySeq DEF Window
    <3>2. tail[s][1] = n - Len(tail[s]) + 1
      BY <2>2, <3>1 DEF Window
    <3>3. Head(tail[s]) = tail[s][1]
      BY <2>1, <2>5
    <3> QED
      BY <2>2, <2>4, <3>1, <3>2, <3>3
  <2> QED
    BY <2>2, <2>3, <2>4, <2>5, RingAssumption DEF Window
<1>2. ASSUME IInv, NEW s \in Stages
      PROVE  /\ shown[s] # <<>> => Head(shown[s]) = "stage_started"
             /\ \A i \in DOMAIN shown[s] : shown[s][i] = "stage_finished" => Len(shown[s]) <= i + 1
  <2>1. shown[s] \in Seq(Shown) /\ ShownInv(s)
    BY <1>2 DEF IInv, StageInv, TypeOK
  <2>2. shown[s] # <<>> => Head(shown[s]) = shown[s][1]
    BY <2>1
  <2> QED
    BY <2>1, <2>2 DEF ShownInv
<1>3. IInv => Inv
  BY <1>1, <1>2 DEF IInv, Inv, TailIsInLog, OneLateChunk
<1> QED
  BY <1>3, Invariance, PTL

\* When the renderer is told that a stage has finished, run_stage has collected
\* its process, or has failed to signal it after its timeout.
THEOREM NothingLeftBehind == Spec => []NoProcessLeftBehind
<1>1. IInv => NoProcessLeftBehind
  BY DEF IInv, StageInv, CodeInv, Ended, NoProcessLeftBehind
<1> QED
  BY <1>1, Invariance, PTL

\* exit_code 0 of a PlanResult means that every stage was run, and that the own
\* process of each that did not time out ended with 0.
THEOREM GreenIsGreen == Spec => []GreenPlan
<1>1. IInv => GreenPlan
  BY DEF IInv, PlanInv, StageInv, CodeInv, GreenPlan
<1> QED
  BY <1>1, Invariance, PTL

-----------------------------------------------------------------------------
(* What `testo config db' writes                                           *)

\* A set of positions has a first one.
LEMMA FirstPosition ==
    ASSUME NEW S, S \subseteq Nat, S # {}
    PROVE  Min(S) \in S
<1>1. PICK x \in S : \A y \in S : ~(<<y, x>> \in OpToRel(<, Nat))
  BY NatLessThanWellFounded, WFMin, Zenon
<1>2. \A y \in S : x <= y
  <2>1. \A y \in S : x \in Nat /\ y \in Nat /\ ~(y < x)
    BY <1>1 DEF OpToRel
  <2> QED
    BY <2>1
<1> QED
  BY <1>2 DEF Min

\* A file in one of the forms that the loaders tell apart; where there is no table of testosterone
\* in a pyproject, there is nothing under it.
IsDocument(doc) ==
    /\ doc = [form |-> doc.form, cycles |-> doc.cycles, plans |-> doc.plans, runs |-> doc.runs,
              single |-> doc.single, defaults |-> doc.defaults, url |-> doc.url]
    /\ doc.form \in {"absent", "no table", "invalid", "empty", "mapping", "list"}
    /\ doc.form = "no table" =>
          {doc.cycles.is, doc.plans.is, doc.runs.is} = {"missing"} /\ ~IsSingle(doc.single)

\* What becomes of a file whose url is written.
LEMMA MergedDocument ==
    ASSUME NEW doc, IsDocument(doc), NEW url
    PROVE  LET after == merge_database_url(doc, url)
           IN  /\ after.form \in {"mapping", doc.form}
               /\ after.form = "absent" <=> doc.form = "absent"
               /\ load_config(doc).error = "none" => load_config(after) = load_config(doc)
               /\ load_config(doc).error # "none" => load_config(after).error # "none"
               /\ after # doc => file_url(after) = url
<1> DEFINE after == merge_database_url(doc, url)
<1>1. CASE doc.form \notin {"mapping", "no table"}
  BY <1>1 DEF merge_database_url
<1>2. CASE doc.form \in {"mapping", "no table"}
  <2>1. /\ after.form = "mapping" /\ after.url = url /\ after.cycles = doc.cycles
        /\ after.plans = doc.plans /\ after.runs = doc.runs /\ after.single = doc.single
        /\ after.defaults = doc.defaults
    BY <1>2 DEF merge_database_url, IsDocument
  <2> HIDE DEF after
  <2>2. build_config(after) = build_config(doc)
    <3>1. Section(after) = Section(doc) /\ HasCycles(after) = HasCycles(doc)
      BY <2>1 DEF Section, HasCycles
    <3>2. build_cycle_config(after) = build_cycle_config(doc)
      BY <2>1, <3>1 DEF build_cycle_config, Each
    <3> QED
      BY <2>1, <3>1, <3>2 DEF build_config
  <2>3. load_config(after) = build_config(doc)
    BY <2>1, <2>2 DEF load_config
  <2>4. CASE doc.form = "mapping"
    <3>1. load_config(doc) = build_config(doc)
      BY <2>4 DEF load_config
    <3> QED
      BY <2>1, <2>3, <2>4, <3>1 DEF after, file_url
  <2>5. CASE doc.form = "no table"
    <3>1. load_config(doc).error = "discovery"
      BY <2>5 DEF load_config, Bad
    <3>2. build_config(doc).error = "validation"
      BY <2>5 DEF IsDocument, build_config, HasCycles, Bad
    <3> QED
      BY <2>1, <2>3, <2>5, <3>1, <3>2 DEF after, file_url
  <2> QED
    BY <1>2, <2>4, <2>5
<1> QED
  BY <1>1, <1>2

\* `testo config db' changes where the results go and nothing else, whatever the files are.
THEOREM WritingTheUrl ==
    ASSUME NEW disk, disk = [f \in ToSet(Candidates) |-> disk[f]],
           \A f \in ToSet(Candidates) : IsDocument(disk[f]),
           NEW env, NEW url, url # "missing", NEW reachable
    PROVE  MergeKeepsConfig(disk, env, url, reachable)
<1> DEFINE after == config_db(disk, url, reachable)
           found == Found(disk)
           doc == disk[found]
           merged == merge_database_url(doc, url)
<1>1. CASE after = disk
  <2>1. {f \in DOMAIN disk : disk[f] # after[f]} = {}
    BY <1>1
  <2>2. Cardinality({f \in DOMAIN disk : disk[f] # after[f]}) = 0
    BY <2>1, FS_EmptySet
  <2> QED
    BY <1>1, <2>2 DEF MergeKeepsConfig
<1>2. CASE after # disk
  <2>1. Existing(disk) # {} /\ after = [disk EXCEPT ![found] = merged]
    BY <1>2 DEF config_db
  <2>2. Min(Existing(disk)) \in DOMAIN Candidates
    <3>1. DOMAIN Candidates \subseteq Nat
      BY DEF Candidates
    <3>2. Existing(disk) \subseteq DOMAIN Candidates
      BY DEF Existing
    <3> QED
      BY <2>1, <3>1, <3>2, FirstPosition
  <2>3. found \in ToSet(Candidates) /\ IsDocument(doc)
    BY <2>2 DEF Found, ToSet
  <2>4. \A f \in ToSet(Candidates) : after[f] = IF f = found THEN merged ELSE disk[f]
    BY <2>1
  <2>5. /\ (merged.form = "absent" <=> doc.form = "absent")
        /\ load_config(doc).error = "none" => load_config(merged) = load_config(doc)
        /\ load_config(doc).error # "none" => load_config(merged).error # "none"
        /\ merged # doc => file_url(merged) = url
    BY <2>3, MergedDocument
  <2>6. DOMAIN after = DOMAIN disk /\ DOMAIN disk = ToSet(Candidates)
    BY <2>1
  <2> HIDE DEF merged
  <2>7. Existing(after) = Existing(disk)
    <3>1. \A k \in DOMAIN Candidates : Candidates[k] \in ToSet(Candidates)
      BY DEF ToSet
    <3>2. \A k \in DOMAIN Candidates :
            after[Candidates[k]].form = "absent" <=> disk[Candidates[k]].form = "absent"
      BY <2>4, <2>5, <3>1
    <3> HIDE DEF after
    <3> QED
      BY <3>2 DEF Existing
  <2> HIDE DEF after
  <2>8. Found(after) = found /\ after[found] = merged
    BY <2>3, <2>4, <2>7 DEF Found
  <2>9. merged # doc
    BY <1>2, <2>1, <2>3
  <2>10. /\ discover_and_load(disk) = load_config(doc)
         /\ discover_and_load(after) = load_config(merged)
    BY <2>1, <2>7, <2>8 DEF discover_and_load
  <2>11. env.DATABASE_URL = "missing" => resolve_database_url(after, env) = url
    BY <2>1, <2>5, <2>7, <2>8, <2>9 DEF resolve_database_url
  <2>12. Cardinality({f \in DOMAIN disk : disk[f] # after[f]}) <= 1
    <3>1. {f \in DOMAIN disk : disk[f] # after[f]} = {found}
      BY <2>3, <2>4, <2>6, <2>9
    <3>2. Cardinality({found}) = 1
      BY FS_Singleton, Zenon
    <3> HIDE DEF found
    <3>3. 1 <= 1
      OBVIOUS
    <3> QED
      BY <3>1, <3>2, <3>3
  <2> QED
    BY <2>5, <2>10, <2>11, <2>12 DEF MergeKeepsConfig, after
<1> QED
  BY <1>1, <1>2
-----------------------------------------------------------------------------
(* The two loaders                                                         *)

\* A list of as many elements as another.
LEMMA SameLength ==
    ASSUME NEW n \in Nat, NEW f, f = [k \in 1..n |-> f[k]]
    PROVE  f \in Seq({f[k] : k \in 1..n}) /\ Len(f) = n /\ DOMAIN f = 1..n
<1> DEFINE S == {f[k] : k \in 1..n}
<1>1. f \in [1..n -> S]
  OBVIOUS
<1> HIDE DEF S
<1>2. f \in Seq(S)
  BY <1>1, SeqDef
<1>3. DOMAIN f = 1..n
  BY <1>1
<1>4. Len(f) = n
  BY <1>2, <1>3, LenProperties
<1> QED
  BY <1>2, <1>3, <1>4 DEF S

\* No error is the first one only if there is none.
LEMMA NoError ==
    ASSUME NEW S, NEW errors \in Seq(S)
    PROVE  FirstError(errors) = "none" <=> \A k \in DOMAIN errors : errors[k] = "none"
<1> DEFINE bad == {k \in DOMAIN errors : errors[k] # "none"}
<1>1. bad \subseteq Nat
  BY LenProperties
<1>2. bad # {} => Min(bad) \in bad
  <2> HIDE DEF bad
  <2> QED
    BY <1>1, FirstPosition
<1> QED
  BY <1>2 DEF FirstError

\* A run whose name, if it has one, is no path.
IsNamed(run) == run.name \notin {"", "null"} \cup Escaping

\* A flat run that the engine's loader takes, as the loader of cycles takes it.
LEMMA FlatRun ==
    ASSUME NEW run, NEW defaults, run_item_error(run) = "none",
           IsNamed(run)
    PROVE  /\ stage_error(StageOf(run)) = "none"
           /\ parse_stage(StageOf(run), defaults).framework = Native(run.test_type)
           /\ parse_stage(StageOf(run), defaults).timeout
                = IF run.timeout = "missing" THEN "null" ELSE run.timeout
<1>1. run.test_type \in TestTypes /\ run.timeout # "text"
  BY DEF run_item_error
<1> DEFINE s == StageOf(run)
<1>2. /\ s.equipment = "missing" /\ s.framework = run.test_type
      /\ s.timeout = IF run.timeout = "missing" THEN "null" ELSE run.timeout
      /\ s.name = IF run.name = "missing" THEN "numbered" ELSE run.name
  BY <1>1 DEF StageOf, TestTypes
<1> HIDE DEF s
<1>3. Equipment(s) = run.test_type
  BY <1>1, <1>2 DEF Equipment, TestTypes
<1>4. Native(run.test_type) \in Frameworks
  BY <1>1 DEF Native, TestTypes, Frameworks
<1>5. s.name \notin {"missing", "null", ""} \cup Escaping /\ s.timeout \notin {"text", "missing"}
  BY <1>1, <1>2 DEF Escaping, IsNamed
<1>6. stage_error(s) = "none"
  BY <1>2, <1>3, <1>4, <1>5 DEF stage_error
<1>7. parse_stage(s, defaults).framework = Native(run.test_type)
      /\ parse_stage(s, defaults).timeout = s.timeout
  BY <1>3, <1>5 DEF parse_stage
<1> QED
  BY <1>2, <1>6, <1>7 DEF s

\* What both make of a list of runs.
LEMMA FlatRuns ==
    ASSUME NEW R, NEW runs \in Seq(R), runs # <<>>, NEW raw, raw.timeout # "text",
           \A k \in DOMAIN runs : /\ run_item_error(runs[k]) = "none"
                                  /\ IsNamed(runs[k])
    PROVE  LET config == build_legacy_runs_config(runs, raw)
               stages == config.cycles[1].stages
           IN  /\ config.error = "none" /\ DOMAIN stages = DOMAIN runs /\ Len(stages) = Len(runs)
               /\ \A k \in DOMAIN runs :
                    /\ stages[k].framework = Native(runs[k].test_type)
                    /\ stages[k].timeout
                         = IF runs[k].timeout = "missing" THEN "null" ELSE runs[k].timeout
<1> DEFINE defaults == parse_defaults(raw)
           stages == Each(StageOf, runs)
           errors == Each(stage_error, stages)
           parsed == [k \in DOMAIN runs |-> parse_stage(StageOf(runs[k]), defaults)]
<1>1. DOMAIN runs = 1..Len(runs) /\ Len(runs) \in Nat
  BY LenProperties
<1>2. stages = [k \in DOMAIN runs |-> StageOf(runs[k])]
  BY DEF Each
<1>3. errors = [k \in DOMAIN runs |-> stage_error(StageOf(runs[k]))]
  <2>1. errors = [k \in DOMAIN stages |-> stage_error(stages[k])]
    BY DEF Each
  <2> HIDE DEF stages, errors
  <2> QED
    BY <1>2, <2>1
<1>4. errors = [k \in DOMAIN runs |-> "none"]
  BY <1>3, FlatRun
<1>5. PICK n \in Nat : n = Len(runs) /\ DOMAIN runs = 1..n
  BY <1>1
<1>6. FirstError(errors) = "none"
  <2>1. errors = [k \in 1..n |-> errors[k]] /\ \A k \in 1..n : errors[k] = "none"
    BY <1>4, <1>5
  <2> HIDE DEF errors
  <2>2. PICK S : errors \in Seq(S) /\ DOMAIN errors = 1..n
    BY <2>1, SameLength
  <2> QED
    BY <2>1, <2>2, NoError
<1>7. parse_cycle([name |-> "default", stages |-> stages], defaults).stages = parsed
  <2>1. parse_cycle([name |-> "default", stages |-> stages], defaults).stages
          = [k \in DOMAIN stages |-> parse_stage(stages[k], defaults)]
    BY DEF parse_cycle, Each
  <2> HIDE DEF stages
  <2> QED
    BY <1>2, <2>1
<1>8. build_legacy_runs_config(runs, raw)
        = Loaded(defaults, <<parse_cycle([name |-> "default", stages |-> stages], defaults)>>,
                 FirstError(errors))
  BY DEF build_legacy_runs_config
<1> HIDE DEF errors, stages, defaults
<1>9. /\ build_legacy_runs_config(runs, raw).error = "none"
      /\ build_legacy_runs_config(runs, raw).cycles[1].stages = parsed
  <2>1. PICK x : x = parse_cycle([name |-> "default", stages |-> stages], defaults)
    OBVIOUS
  <2>2. build_legacy_runs_config(runs, raw)
          = [error |-> "none", timeout |-> defaults.timeout, cycles |-> <<x>>]
    BY <1>6, <1>8, <2>1 DEF Loaded
  <2>3. <<x>>[1] = x
    OBVIOUS
  <2> HIDE DEF parsed
  <2> QED
    BY <1>7, <2>1, <2>2, <2>3
<1>10. Len(parsed) = Len(runs) /\ DOMAIN parsed = DOMAIN runs
  <2>1. parsed = [k \in 1..n |-> parsed[k]]
    BY <1>5
  <2> HIDE DEF parsed
  <2> QED
    BY <1>5, <2>1, SameLength
<1> QED
  BY <1>9, <1>10, FlatRun

\* The engine's loader and the loader of cycles agree on every list of flat runs.
THEOREM LoadersAgreeOnRuns ==
    ASSUME NEW R, NEW doc, doc.runs.list \in Seq(R),
           doc.runs.is \in {"missing", "null", "given"},
           doc.runs.is # "given" => doc.runs.list = <<>>
    PROVE  LoadersAgree(doc)
<1> DEFINE specs == load_run_specs_from_yaml(doc)
           runs == IF doc.runs.is # "missing" THEN doc.runs.list ELSE <<doc.single>>
           raw == IF doc.runs.is # "missing" THEN doc.defaults ELSE NoDefaults
           config == load_config(doc)
           errors == Each(run_item_error, runs)
           Wanted(run) == [test_type |-> run.test_type,
                         timeout |-> IF run.timeout = "missing" THEN "null" ELSE run.timeout]
<1> SUFFICES ASSUME specs.error = "none", ~HasCycles(doc),
                    \A k \in DOMAIN runs : IsNamed(runs[k]),
                    doc.runs.is = "given" => doc.defaults.timeout # "text"
             PROVE  /\ config.error = "none"
                    /\ LET stages == config.cycles[1].stages
                       IN  /\ Len(stages) = Len(specs.specs)
                           /\ \A k \in DOMAIN stages :
                                /\ stages[k].framework = Native(specs.specs[k].test_type)
                                /\ stages[k].timeout = specs.specs[k].timeout
  BY DEF LoadersAgree, IsNamed
<1>1. /\ doc.form \in {"mapping", "list"} /\ runs # <<>> /\ FirstError(errors) = "none"
      /\ specs.specs = [k \in DOMAIN runs |-> Wanted(runs[k])]
  BY DEF load_run_specs_from_yaml, Each
<1>2. PICK S : runs \in Seq(S)
  <2>1. PICK x : x = doc.single
    OBVIOUS
  <2>2. <<x>> \in Seq({x})
    OBVIOUS
  <2> QED
    BY <2>1, <2>2
<1>3. \A k \in DOMAIN runs : run_item_error(runs[k]) = "none"
  <2>1. errors = [k \in DOMAIN runs |-> run_item_error(runs[k])]
    BY DEF Each
  <2> HIDE DEF errors, runs
  <2>2. PICK n \in Nat : DOMAIN runs = 1..n
    BY <1>2, LenProperties
  <2>3. errors = [k \in 1..n |-> errors[k]]
    BY <2>1, <2>2
  <2>4. PICK T : errors \in Seq(T) /\ DOMAIN errors = 1..n
    BY <2>3, SameLength
  <2>5. \A k \in DOMAIN runs : errors[k] = "none"
    BY <1>1, <2>2, <2>4, NoError
  <2> QED
    BY <2>1, <2>5
<1>4. raw.timeout # "text"
  BY <1>1 DEF NoDefaults
<1>5. config = build_legacy_runs_config(runs, raw)
  <2>1. config = build_config(doc)
    BY <1>1 DEF load_config
  <2>2. CASE doc.runs.is # "missing"
    BY <2>1, <2>2 DEF build_config
  <2>3. CASE doc.runs.is = "missing"
    <3>1. run_item_error(doc.single) = "none"
      <4>1. PICK x : x = doc.single
        OBVIOUS
      <4>2. 1 \in DOMAIN <<x>> /\ <<x>>[1] = x
        OBVIOUS
      <4> QED
        BY <1>3, <2>3, <4>1, <4>2
    <3>2. IsSingle(doc.single)
      BY <3>1 DEF run_item_error, IsSingle, TestTypes
    <3> QED
      BY <2>1, <2>3, <3>2 DEF build_config
  <2> QED
    BY <2>2, <2>3
<1>6. DOMAIN runs = 1..Len(runs) /\ Len(runs) \in Nat
  <2> HIDE DEF runs
  <2> QED
    BY <1>2, LenProperties
<1> HIDE DEF runs, raw, errors, config, specs
<1>7. Len(specs.specs) = Len(runs) /\ \A k \in DOMAIN runs : specs.specs[k] = Wanted(runs[k])
  <2>1. PICK n \in Nat : n = Len(runs) /\ DOMAIN runs = 1..n
    BY <1>6
  <2>2. PICK f : f = specs.specs
    OBVIOUS
  <2>3. f = [k \in 1..n |-> f[k]] /\ \A k \in 1..n : f[k] = Wanted(runs[k])
    BY <1>1, <2>1, <2>2
  <2>4. Len(f) = n
    BY <2>3, SameLength
  <2> QED
    BY <2>1, <2>2, <2>3, <2>4
<1>8. \A k \in DOMAIN runs : IsNamed(runs[k])
  BY DEF runs
<1>9. /\ config.error = "none" /\ Len(config.cycles[1].stages) = Len(runs)
      /\ DOMAIN config.cycles[1].stages = DOMAIN runs
      /\ \A k \in DOMAIN runs :
            /\ config.cycles[1].stages[k].framework = Native(runs[k].test_type)
            /\ config.cycles[1].stages[k].timeout
                 = IF runs[k].timeout = "missing" THEN "null" ELSE runs[k].timeout
  BY <1>1, <1>2, <1>3, <1>4, <1>5, <1>8, FlatRuns
<1>10. \A k \in DOMAIN runs : /\ specs.specs[k].test_type = runs[k].test_type
                             /\ specs.specs[k].timeout
                                  = IF runs[k].timeout = "missing" THEN "null" ELSE runs[k].timeout
  <2>1. \A run : /\ Wanted(run).test_type = run.test_type
                 /\ Wanted(run).timeout = IF run.timeout = "missing" THEN "null" ELSE run.timeout
    OBVIOUS
  <2> HIDE DEF Wanted
  <2> QED
    BY <1>7, <2>1
<1> QED
  BY <1>7, <1>9, <1>10
=============================================================================
