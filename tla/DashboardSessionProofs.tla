------------------------ MODULE DashboardSessionProofs ------------------------
(***************************************************************************)
(* Proofs about DashboardSession, for any number of batches and of runs in *)
(* a batch, and for a user who stops the script any number of times.       *)
(***************************************************************************)
EXTENDS DashboardSession, FiniteSetTheorems, SequenceTheorems, TLAPS

-----------------------------------------------------------------------------
(* The inductive invariant                                                 *)

\* The script between a click on Run and the start of the thread.
Starting == {"start_worker", "lock", "clock", "count"}

\* The places of the results in a queue, and how many they are.
ResultsIn(s) == {i \in DOMAIN s : s[i].kind = "result"}
Waiting(b) == Cardinality(ResultsIn(queue[b]))

\* A result that the script has taken and not counted yet.
InHand == IF pc \in {"apply", "applied"} /\ item.kind = "result" THEN 1 ELSE 0

\* Results of a batch that the session has still to count.
Due(b) == thread[b].size - thread[b].returned + Waiting(b) + InHand

\* How far a thread is.
ThreadInv(b) ==
    /\ thread[b].pc \in {"new", "prepare"} => thread[b].ended = 0 /\ queue[b] = <<>>
    /\ thread[b].pc = "run" => thread[b].ended < thread[b].size
    /\ thread[b].pc = "result" => thread[b].ended = 0 /\ thread[b].size = 1
    /\ thread[b].pc = "marker" => thread[b].ended = thread[b].size

\* What the script has read, and what of it is still so.
ScriptInv ==
    /\ pc \in {"alive", "size", "abort", "items", "apply", "applied"} =>
        q = events_q /\ events_q # NoBatch
    /\ pc \in {"apply", "applied"} => thread[events_q].pc \notin {"new", "prepare"}
    /\ pc = "applied" => /\ item.kind = "result"
                         /\ running <=> multi_run_active /\ multi_runs_remaining > 1
    /\ pc \in Starting => events_q # NoBatch /\ thread[events_q].pc = "new"
    /\ pc \in {"lock", "clock", "count"} => worker = events_q
    /\ pc \in {"clock", "count"} => running
    /\ pc = "abort" \/ (pc = "size" /\ ~alive) => ~IsAlive(worker)
    /\ pc = "abort" => running /\ queue[events_q] = <<>>
    /\ events_q # NoBatch /\ events_q # worker => thread[events_q].pc = "new"

\* As long as a run of the batch is due the lock is held, and the counter
\* holds it: it counts at least the results that are to come.
LockInv ==
    worker # NoBatch /\ thread[worker].pc \in {"prepare", "run", "result"} =>
        /\ running
        /\ events_q = worker => multi_run_active /\ multi_runs_remaining >= Due(worker)

\* Unless a script was stopped, the counter counts exactly those.
CalmInv ==
    interrupts = 0 /\ pc \notin Starting =>
        /\ worker = events_q
        /\ running => /\ worker # NoBatch /\ thread[worker].pc # "new"
                      /\ multi_run_active /\ multi_runs_remaining = Due(worker)
                      /\ multi_runs_remaining > 0 \/ thread[worker].size = 0
        /\ ~running /\ pc # "applied" => multi_runs_remaining = 0

IInv ==
    /\ TypeOK
    /\ \A b \in Batches : ThreadInv(b)
    /\ ScriptInv
    /\ LockInv
    /\ CalmInv

-----------------------------------------------------------------------------
(* Counting the results in a queue                                         *)

LEMMA ResultsAreFinite ==
    ASSUME NEW s \in Seq(Event)
    PROVE  /\ IsFiniteSet(ResultsIn(s)) /\ Cardinality(ResultsIn(s)) \in Nat
           /\ Len(s) \in Nat /\ DOMAIN s = 1..Len(s)
           /\ ResultsIn(s) \subseteq 1..Len(s)
<1>1. Len(s) \in Nat /\ DOMAIN s = 1..Len(s)
  BY LenProperties
<1>2. ResultsIn(s) \subseteq 1..Len(s)
  BY <1>1 DEF ResultsIn
<1>3. IsFiniteSet(1..Len(s))
  BY <1>1, FS_Interval
<1>4. IsFiniteSet(ResultsIn(s))
  BY <1>2, <1>3, FS_Subset
<1> QED
  BY <1>1, <1>2, <1>4, FS_CardinalityType

\* What is put into a queue is one result more, or none.
LEMMA WaitingAppend ==
    ASSUME NEW s \in Seq(Event), NEW e \in Event
    PROVE  /\ Append(s, e) \in Seq(Event)
           /\ Cardinality(ResultsIn(Append(s, e)))
                = Cardinality(ResultsIn(s)) + IF e.kind = "result" THEN 1 ELSE 0
<1> DEFINE n == Len(s)
<1>1. /\ n \in Nat /\ DOMAIN s = 1..n /\ ResultsIn(s) \subseteq 1..n
      /\ IsFiniteSet(ResultsIn(s)) /\ Cardinality(ResultsIn(s)) \in Nat
  BY ResultsAreFinite
<1>2. /\ Append(s, e) \in Seq(Event) /\ Len(Append(s, e)) = n + 1
      /\ \A i \in 1..n : Append(s, e)[i] = s[i]
      /\ Append(s, e)[n + 1] = e
  BY AppendProperties
<1>3. DOMAIN Append(s, e) = 1..(n + 1)
  BY <1>2, LenProperties
<1> HIDE DEF n
<1>4. n + 1 \notin ResultsIn(s)
  BY <1>1
<1>5. CASE e.kind = "result"
  <2>1. ResultsIn(Append(s, e)) = ResultsIn(s) \cup {n + 1}
    <3>1. ASSUME NEW i \in 1..(n + 1)
          PROVE  i \in ResultsIn(Append(s, e)) <=> i \in ResultsIn(s) \/ i = n + 1
      <4>1. CASE i = n + 1
        BY <1>2, <1>3, <1>5, <4>1 DEF ResultsIn
      <4>2. CASE i \in 1..n
        BY <1>1, <1>2, <1>3, <4>2 DEF ResultsIn
      <4> QED
        BY <1>1, <4>1, <4>2
    <3>2. ResultsIn(Append(s, e)) \subseteq 1..(n + 1) /\ ResultsIn(s) \cup {n + 1} \subseteq 1..(n + 1)
      BY <1>1, <1>3 DEF ResultsIn
    <3> QED
      BY <3>1, <3>2
  <2> QED
    BY <1>1, <1>2, <1>4, <1>5, <2>1, FS_AddElement
<1>6. CASE e.kind # "result"
  <2>1. ResultsIn(Append(s, e)) = ResultsIn(s)
    <3>1. ASSUME NEW i \in 1..(n + 1)
          PROVE  i \in ResultsIn(Append(s, e)) <=> i \in ResultsIn(s)
      <4>1. CASE i = n + 1
        BY <1>2, <1>3, <1>4, <1>6, <4>1 DEF ResultsIn
      <4>2. CASE i \in 1..n
        BY <1>1, <1>2, <1>3, <4>2 DEF ResultsIn
      <4> QED
        BY <1>1, <4>1, <4>2
    <3>2. ResultsIn(Append(s, e)) \subseteq 1..(n + 1) /\ ResultsIn(s) \subseteq 1..(n + 1)
      BY <1>1, <1>3 DEF ResultsIn
    <3> QED
      BY <3>1, <3>2
  <2> QED
    BY <1>1, <1>2, <1>6, <2>1
<1> QED
  BY <1>5, <1>6

\* What is taken from a queue is one result less, or none.
LEMMA WaitingTail ==
    ASSUME NEW s \in Seq(Event), s # <<>>
    PROVE  /\ Head(s) \in Event /\ Tail(s) \in Seq(Event)
           /\ Cardinality(ResultsIn(s))
                = Cardinality(ResultsIn(Tail(s))) + IF Head(s).kind = "result" THEN 1 ELSE 0
<1> DEFINE t == Tail(s)
           n == Len(s)
           Shifted == {i + 1 : i \in ResultsIn(t)}
<1>1. Head(s) \in Event /\ t \in Seq(Event) /\ Len(t) = n - 1 /\ \A i \in 1..Len(t) : t[i] = s[i + 1]
  BY HeadTailProperties
<1>2. n \in Nat \ {0} /\ DOMAIN s = 1..n /\ Head(s) = s[1]
  BY EmptySeq, LenProperties
<1>3. /\ DOMAIN t = 1..(n - 1) /\ ResultsIn(t) \subseteq 1..(n - 1)
      /\ IsFiniteSet(ResultsIn(t)) /\ Cardinality(ResultsIn(t)) \in Nat
  BY <1>1, ResultsAreFinite
<1> HIDE DEF t, n
<1>4. IsFiniteSet(Shifted) /\ Cardinality(Shifted) = Cardinality(ResultsIn(t))
  <2> DEFINE shift == [i \in ResultsIn(t) |-> i + 1]
  <2>1. shift \in Bijection(ResultsIn(t), Shifted)
    <3>1. shift \in [ResultsIn(t) -> Shifted]
      OBVIOUS
    <3>2. \A i, j \in ResultsIn(t) : shift[i] = shift[j] => i = j
      BY <1>2, <1>3
    <3>3. \A k \in Shifted : \E i \in ResultsIn(t) : shift[i] = k
      OBVIOUS
    <3> QED
      BY <3>1, <3>2, <3>3 DEF Bijection, Injection, Surjection, IsInjective
  <2>2. ExistsBijection(ResultsIn(t), Shifted)
    BY <2>1 DEF ExistsBijection
  <2> QED
    BY <1>3, <2>2, FS_Bijection
<1>5. 1 \notin Shifted
  BY <1>2, <1>3
<1>6. ASSUME NEW i \in 1..n
      PROVE  i \in ResultsIn(s) <=> i \in Shifted \/ (i = 1 /\ Head(s).kind = "result")
  <2>1. CASE i = 1
    BY <1>2, <1>5, <2>1 DEF ResultsIn
  <2>2. CASE i \in 2..n
    <3>1. i - 1 \in 1..(n - 1) /\ t[i - 1] = s[i] /\ i = (i - 1) + 1
      BY <1>1, <1>2, <2>2
    <3>2. i \in Shifted <=> i - 1 \in ResultsIn(t)
      BY <1>2, <1>3, <3>1
    <3> QED
      BY <1>2, <1>3, <2>2, <3>1, <3>2 DEF ResultsIn
  <2> QED
    BY <1>2, <2>1, <2>2
<1>7. ResultsIn(s) \subseteq 1..n /\ Shifted \subseteq 1..n /\ 1 \in 1..n
  BY <1>2, <1>3 DEF ResultsIn
<1> HIDE DEF Shifted
<1>8. CASE Head(s).kind = "result"
  <2>1. ResultsIn(s) = Shifted \cup {1}
    BY <1>6, <1>7, <1>8
  <2>2. Cardinality(Shifted \cup {1}) = Cardinality(Shifted) + 1
    BY <1>4, <1>5, FS_AddElement
  <2>3. Cardinality(ResultsIn(s)) = Cardinality(ResultsIn(t)) + 1
    BY <1>4, <2>1, <2>2
  <2> QED
    BY <1>1, <1>8, <2>3 DEF t
<1>9. CASE Head(s).kind # "result"
  <2>1. ResultsIn(s) = Shifted
    BY <1>6, <1>7, <1>9
  <2> QED
    BY <1>1, <1>3, <1>4, <1>9, <2>1 DEF t
<1> QED
  BY <1>8, <1>9

Thread == [pc : {"new", "prepare", "run", "result", "marker", "record", "error", "exiting", "dead"},
           size : 0..MaxRuns, ended : 0..MaxRuns, returned : 0..MaxRuns]

\* The numbers that Due is made of.
LEMMA Numbers ==
    ASSUME TypeOK, NEW b \in Batches
    PROVE  /\ thread[b].size \in Nat /\ thread[b].ended \in Nat /\ thread[b].returned \in Nat
           /\ thread[b].returned <= thread[b].ended /\ thread[b].ended <= thread[b].size
           /\ Waiting(b) \in Nat /\ queue[b] \in Seq(Event)
           /\ InHand \in {0, 1} /\ multi_runs_remaining \in Nat
           /\ Due(b) \in Int /\ Due(b) >= 0
<1>1. /\ thread[b].size \in 0..MaxRuns /\ thread[b].ended \in 0..MaxRuns
      /\ thread[b].returned \in 0..MaxRuns /\ multi_runs_remaining \in 0..MaxRuns
      /\ thread[b].returned <= thread[b].ended /\ thread[b].ended <= thread[b].size
      /\ queue[b] \in Seq(Event)
  BY DEF TypeOK
<1>2. /\ thread[b].size \in Nat /\ thread[b].ended \in Nat /\ thread[b].returned \in Nat
      /\ multi_runs_remaining \in Nat
  BY <1>1, MaxRunsAssumption
<1>3. Waiting(b) \in Nat
  BY <1>1, ResultsAreFinite DEF Waiting
<1>4. InHand \in {0, 1}
  BY DEF InHand
<1>5. Due(b) \in Int /\ Due(b) >= 0
  <2>1. thread[b].size - thread[b].returned \in Int /\ thread[b].size - thread[b].returned >= 0
    BY <1>1, <1>2
  <2> QED
    BY <1>3, <1>4, <2>1 DEF Due
<1> QED
  BY <1>1, <1>2, <1>3, <1>4, <1>5

LEMMA EmptyQueue ==
    ASSUME NEW b, queue[b] = <<>>
    PROVE  Waiting(b) = 0
<1>1. ResultsIn(queue[b]) = {}
  BY EmptySeq DEF ResultsIn
<1> QED
  BY <1>1, FS_EmptySet DEF Waiting

LEMMA InitInv == Init => IInv
<1> SUFFICES ASSUME Init PROVE IInv
  OBVIOUS
<1>1. <<>> \in Seq(Event)
  BY EmptySeq
<1>2. 0 \in 0..MaxRuns /\ 0 \in 0..MaxInterrupts
  BY MaxRunsAssumption, MaxInterruptsAssumption
<1>3. TypeOK
  <2>1. NoThread \in Thread /\ NoThread.returned = 0 /\ NoThread.ended = 0 /\ NoThread.size = 0
    BY <1>2 DEF NoThread, Thread
  <2>2. /\ thread \in [Batches -> Thread]
        /\ \A b \in Batches : thread[b].returned <= thread[b].ended /\ thread[b].ended <= thread[b].size
    BY <2>1 DEF Init
  <2>3. queue \in [Batches -> Seq(Event)]
    BY <1>1 DEF Init
  <2>4. /\ running \in BOOLEAN /\ run_completed \in BOOLEAN /\ multi_run_active \in BOOLEAN
        /\ clicked \in BOOLEAN /\ alive \in BOOLEAN /\ enabled \in BOOLEAN
    BY DEF Init
  <2>5. /\ events_q = NoBatch /\ worker = NoBatch /\ run_started_at = "unset"
        /\ last_result = NoBatch /\ multi_runs_remaining = 0 /\ pc = "drain"
        /\ q = NoBatch /\ item = NoItem /\ interrupts = 0
    BY DEF Init
  <2> QED
    BY <1>2, <2>2, <2>3, <2>4, <2>5 DEF TypeOK, Thread
<1>4. \A b \in Batches : ThreadInv(b)
  BY DEF Init, ThreadInv, NoThread
<1>5. ScriptInv /\ LockInv /\ CalmInv
  BY DEF Init, ScriptInv, LockInv, CalmInv, IsAlive, Starting
<1> QED
  BY <1>3, <1>4, <1>5 DEF IInv

-----------------------------------------------------------------------------
(* The threads                                                             *)

\* A thread moves to a phase, with e more runs ended and r more returned.
Goes(b, to, e, r) ==
    /\ thread' \in [Batches -> Thread]
    /\ \A c \in Batches \ {b} : thread'[c] = thread[c]
    /\ thread'[b].pc = to /\ thread'[b].size = thread[b].size
    /\ thread'[b].ended = thread[b].ended + e /\ thread'[b].returned = thread[b].returned + r

\* A step of a thread as the session sees it: a result that it returns is in
\* the queue, and no run that is over is due again.
Effect(b) ==
    /\ UNCHANGED <<session, script, page>>
    /\ TypeOK'
    /\ \A c \in Batches \ {b} : thread'[c] = thread[c] /\ queue'[c] = queue[c]
    /\ thread[b].pc \notin {"new", "dead"} /\ thread'[b].pc \notin {"new", "prepare"}
    /\ thread'[b].size = thread[b].size
    /\ thread'[b].pc \in {"run", "result"} => thread[b].pc \in {"prepare", "run", "result"}
    /\ Waiting(b)' - thread'[b].returned = Waiting(b) - thread[b].returned
    /\ ThreadInv(b)'

LEMMA SetPhase ==
    ASSUME TypeOK, NEW b \in Batches,
           NEW to \in {"run", "result", "marker", "record", "error", "exiting", "dead"},
           thread' = [thread EXCEPT ![b].pc = to]
    PROVE  Goes(b, to, 0, 0)
<1>1. thread \in [Batches -> Thread] /\ thread[b] \in Thread
  BY DEF TypeOK, Thread
<1>2. thread[b].ended \in Nat /\ thread[b].returned \in Nat
  BY Numbers
<1>3. [thread[b] EXCEPT !.pc = to] \in Thread
  BY <1>1 DEF Thread
<1>4. thread' = [thread EXCEPT ![b] = [thread[b] EXCEPT !.pc = to]]
  OBVIOUS
<1>5. /\ thread' \in [Batches -> Thread] /\ thread'[b] = [thread[b] EXCEPT !.pc = to]
      /\ \A c \in Batches \ {b} : thread'[c] = thread[c]
  BY <1>1, <1>3, <1>4
<1>6. /\ thread'[b].pc = to /\ thread'[b].size = thread[b].size
      /\ thread'[b].ended = thread[b].ended /\ thread'[b].returned = thread[b].returned
  BY <1>1, <1>5 DEF Thread
<1> QED
  BY <1>2, <1>5, <1>6 DEF Goes

LEMMA EndRun ==
    ASSUME TypeOK, NEW b \in Batches, thread[b].ended < thread[b].size,
           NEW to \in {"run", "result", "marker", "record", "error", "exiting", "dead"},
           NEW r \in {0, 1},
           thread' = [thread EXCEPT ![b] =
                        [[[thread[b] EXCEPT !.pc = to] EXCEPT !.ended = thread[b].ended + 1]
                            EXCEPT !.returned = thread[b].returned + r]]
    PROVE  Goes(b, to, 1, r)
<1>1. thread \in [Batches -> Thread] /\ thread[b] \in Thread
  BY DEF TypeOK, Thread
<1>2. thread[b].ended + 1 \in 0..MaxRuns /\ thread[b].returned + r \in 0..MaxRuns
  <2>1. /\ thread[b].ended \in 0..MaxRuns /\ thread[b].returned \in 0..MaxRuns
        /\ thread[b].size \in 0..MaxRuns /\ thread[b].returned <= thread[b].ended
    BY DEF TypeOK
  <2> QED
    BY <2>1, MaxRunsAssumption
<1> DEFINE new == [[[thread[b] EXCEPT !.pc = to] EXCEPT !.ended = thread[b].ended + 1]
                      EXCEPT !.returned = thread[b].returned + r]
<1>3. /\ new \in Thread /\ new.pc = to /\ new.size = thread[b].size
      /\ new.ended = thread[b].ended + 1 /\ new.returned = thread[b].returned + r
  BY <1>1, <1>2 DEF Thread
<1> HIDE DEF new
<1>4. thread' = [thread EXCEPT ![b] = new]
  BY DEF new
<1>5. /\ thread' \in [Batches -> Thread] /\ thread'[b] = new
      /\ \A c \in Batches \ {b} : thread'[c] = thread[c]
  BY <1>1, <1>3, <1>4
<1> QED
  BY <1>3, <1>5 DEF Goes

\* The types of the variables that the threads leave alone.
LEMMA TypesOfTheRest ==
    ASSUME TypeOK, UNCHANGED <<session, script, page>>,
           thread' \in [Batches -> Thread], queue' \in [Batches -> Seq(Event)],
           \A c \in Batches : /\ thread'[c].returned <= thread'[c].ended
                              /\ thread'[c].ended <= thread'[c].size
    PROVE  TypeOK'
<1>1. /\ events_q' = events_q /\ worker' = worker /\ run_started_at' = run_started_at
      /\ last_result' = last_result /\ multi_runs_remaining' = multi_runs_remaining
      /\ pc' = pc /\ q' = q /\ item' = item /\ interrupts' = interrupts
  BY DEF session, script, page
<1>2. /\ running' \in BOOLEAN /\ run_completed' \in BOOLEAN /\ multi_run_active' \in BOOLEAN
      /\ clicked' \in BOOLEAN /\ alive' \in BOOLEAN /\ enabled' \in BOOLEAN
  BY DEF TypeOK, session, script, page
<1>3. /\ events_q' \in Batches \cup {NoBatch} /\ worker' \in Batches \cup {NoBatch}
      /\ run_started_at' \in {"unset", "recent", "past"}
      /\ last_result' \in Batches \cup {NoBatch} /\ multi_runs_remaining' \in 0..MaxRuns
      /\ pc' \in {"idle", "drain", "alive", "size", "abort", "items", "apply", "applied", "render",
                  "start_worker", "lock", "clock", "count", "end"}
      /\ q' \in Batches \cup {NoBatch} /\ item' \in Event \cup {NoItem}
      /\ interrupts' \in 0..MaxInterrupts
  BY <1>1 DEF TypeOK
<1> QED
  BY <1>2, <1>3 DEF TypeOK, Thread

LEMMA GoesHasEffect ==
    ASSUME IInv, NEW b \in Batches,
           NEW to \in {"run", "result", "marker", "record", "error", "exiting", "dead"},
           NEW e \in {0, 1}, NEW r \in {0, 1}, Goes(b, to, e, r),
           UNCHANGED <<session, script, page>>,
           r <= e, thread[b].ended + e <= thread[b].size,
           to = "run" => thread[b].ended + e < thread[b].size,
           to = "result" => thread[b].ended + e = 0 /\ thread[b].size = 1,
           to = "marker" => thread[b].ended + e = thread[b].size,
           to \in {"run", "result"} => thread[b].pc \in {"prepare", "run", "result"},
           thread[b].pc \notin {"new", "dead"},
           \/ r = 1 /\ Put(b, Result(b))
           \/ r = 0 /\ (queue' = queue \/ Put(b, Marker(b)))
    PROVE  Effect(b)
<1>1. TypeOK
  BY DEF IInv
<1>2. /\ thread[b].size \in Nat /\ thread[b].ended \in Nat /\ thread[b].returned \in Nat
      /\ thread[b].returned <= thread[b].ended
      /\ Waiting(b) \in Nat /\ queue[b] \in Seq(Event) /\ queue \in [Batches -> Seq(Event)]
  BY <1>1, Numbers DEF TypeOK
<1>3. /\ Result(b) \in Event /\ Result(b).kind = "result"
      /\ Marker(b) \in Event /\ Marker(b).kind = "marker"
  BY DEF Event, Result, Marker
<1>4. /\ queue' \in [Batches -> Seq(Event)]
      /\ \A c \in Batches \ {b} : queue'[c] = queue[c]
      /\ Waiting(b)' = Waiting(b) + r
  <2>1. CASE queue' = queue /\ r = 0
    BY <1>2, <2>1 DEF Waiting
  <2>2. ASSUME NEW x \in Event, Put(b, x), r = IF x.kind = "result" THEN 1 ELSE 0
        PROVE  /\ queue' \in [Batches -> Seq(Event)]
               /\ \A c \in Batches \ {b} : queue'[c] = queue[c]
               /\ Waiting(b)' = Waiting(b) + r
    <3>1. queue' = [queue EXCEPT ![b] = Append(queue[b], x)]
      BY <2>2 DEF Put
    <3>2. Append(queue[b], x) \in Seq(Event)
      BY <1>2, WaitingAppend
    <3>3. queue' \in [Batches -> Seq(Event)] /\ queue'[b] = Append(queue[b], x)
          /\ \A c \in Batches \ {b} : queue'[c] = queue[c]
      BY <1>2, <3>1, <3>2
    <3>4. Waiting(b)' = Cardinality(ResultsIn(Append(queue[b], x)))
      BY <3>3 DEF Waiting
    <3> QED
      BY <1>2, <2>2, <3>3, <3>4, WaitingAppend DEF Waiting
  <2> QED
    BY <1>3, <2>1, <2>2
<1>5. TypeOK'
  <2>1. \A c \in Batches : thread'[c].returned <= thread'[c].ended /\ thread'[c].ended <= thread'[c].size
    <3>1. thread'[b].returned <= thread'[b].ended /\ thread'[b].ended <= thread'[b].size
      BY <1>2 DEF Goes
    <3> QED
      BY <1>1, <3>1 DEF TypeOK, Goes
  <2>2. thread' \in [Batches -> Thread] /\ queue' \in [Batches -> Seq(Event)]
    BY <1>4 DEF Goes
  <2> QED
    BY <1>1, <2>1, <2>2, TypesOfTheRest
<1>6. ThreadInv(b)'
  BY DEF ThreadInv, Goes
<1>7. Waiting(b)' - thread'[b].returned = Waiting(b) - thread[b].returned
  <2>1. thread'[b].returned = thread[b].returned + r
    BY DEF Goes
  <2>2. ASSUME NEW w \in Nat, NEW n \in Nat PROVE (w + r) - (n + r) = w - n
    OBVIOUS
  <2> QED
    BY <1>2, <1>4, <2>1, <2>2
<1> QED
  BY <1>4, <1>5, <1>6, <1>7 DEF Effect, Goes

LEMMA WorkerEffect ==
    ASSUME IInv, NEW b \in Batches, Worker(b)
    PROVE  Effect(b)
<1>1. TypeOK /\ ThreadInv(b)
  BY DEF IInv
<1>2. UNCHANGED <<session, script, page>>
  BY DEF Worker, Prepare, EngineRaises, SingleMarker, RunReturns, RunRaises, AggregateMarker,
         Summarize, ReportError, Exit
<1>3. /\ thread[b].size \in Nat /\ thread[b].ended \in Nat /\ thread[b].returned \in Nat
      /\ thread[b].ended <= thread[b].size
  BY <1>1, Numbers
<1>4. CASE Prepare(b)
  <2>1. Goes(b, "run", 0, 0)
    BY <1>1, <1>4, SetPhase DEF Prepare
  <2>2. /\ thread[b].pc = "prepare" /\ thread[b].ended = 0 /\ thread[b].size > 0 /\ queue' = queue
    BY <1>1, <1>4 DEF Prepare, ThreadInv
  <2> QED
    BY <1>2, <1>3, <2>1, <2>2, GoesHasEffect
<1>5. CASE EngineRaises(b)
  <2>1. Goes(b, "error", 0, 0) /\ thread[b].pc = "prepare" /\ queue' = queue
    BY <1>1, <1>5, SetPhase DEF EngineRaises
  <2> QED
    BY <1>2, <1>3, <2>1, GoesHasEffect
<1>6. CASE SingleMarker(b)
  <2>1. Goes(b, "result", 0, 0) /\ Put(b, Marker(b))
    BY <1>1, <1>6, SetPhase DEF SingleMarker
  <2>2. thread[b].pc = "run" /\ thread[b].ended < thread[b].size /\ thread[b].size = 1
    BY <1>1, <1>6 DEF SingleMarker, ThreadInv
  <2> QED
    BY <1>2, <1>3, <2>1, <2>2, GoesHasEffect
<1>7. ASSUME thread[b].ended < thread[b].size
      PROVE  /\ AfterRun(b) \in {"record", "run", "marker"}
             /\ AfterRun(b) = "run" => thread[b].ended + 1 < thread[b].size
             /\ AfterRun(b) = "marker" => thread[b].ended + 1 = thread[b].size
  BY <1>3, <1>7 DEF AfterRun
<1>8. CASE RunReturns(b)
  <2>1. thread[b].ended < thread[b].size /\ thread[b].pc \in {"run", "result"} /\ Put(b, Result(b))
    BY <1>1, <1>3, <1>8 DEF RunReturns, ThreadInv
  <2>2. thread' = [thread EXCEPT ![b] =
                        [[[thread[b] EXCEPT !.pc = AfterRun(b)] EXCEPT !.ended = thread[b].ended + 1]
                            EXCEPT !.returned = thread[b].returned + 1]]
    BY <1>1, <1>8 DEF RunReturns, TypeOK
  <2>3. Goes(b, AfterRun(b), 1, 1)
    BY <1>1, <1>7, <2>1, <2>2, EndRun
  <2> QED
    BY <1>2, <1>3, <1>7, <2>1, <2>3, GoesHasEffect
<1>9. CASE RunRaises(b)
  <2>1. thread[b].ended < thread[b].size /\ thread[b].pc = "run" /\ queue' = queue
    BY SMTT(30), <1>1, <1>9 DEF RunRaises, ThreadInv
  <2>2. thread' = [thread EXCEPT ![b] =
                        [[[thread[b] EXCEPT !.pc = AfterRun(b)] EXCEPT !.ended = thread[b].ended + 1]
                            EXCEPT !.returned = thread[b].returned + 0]]
    <3>1. ASSUME NEW t \in Thread, NEW to, NEW n
          PROVE  [t EXCEPT !.pc = to, !.ended = n]
                   = [[[t EXCEPT !.pc = to] EXCEPT !.ended = n] EXCEPT !.returned = t.returned]
      BY DEF Thread
    <3>2. thread[b] \in Thread /\ thread[b].returned + 0 = thread[b].returned
      BY <1>1, <1>3 DEF TypeOK, Thread
    <3>3. thread' = [thread EXCEPT ![b] =
                        [thread[b] EXCEPT !.pc = AfterRun(b), !.ended = thread[b].ended + 1]]
      BY <1>9 DEF RunRaises
    <3> QED
      BY ZenonT(30), <3>1, <3>2, <3>3
  <2>3. Goes(b, AfterRun(b), 1, 0)
    BY <1>1, <1>7, <2>1, <2>2, EndRun
  <2> QED
    BY <1>2, <1>3, <1>7, <2>1, <2>3, GoesHasEffect
<1>10. CASE AggregateMarker(b)
  <2>1. Goes(b, "record", 0, 0) /\ thread[b].pc = "marker" /\ Put(b, Marker(b))
    BY <1>1, <1>10, SetPhase DEF AggregateMarker
  <2> QED
    BY <1>2, <1>3, <2>1, GoesHasEffect
<1>11. CASE Summarize(b)
  <2>1. /\ Goes(b, "exiting", 0, 0) /\ thread[b].pc = "record"
        /\ queue' = queue \/ Put(b, Marker(b))
    BY <1>1, <1>11, SetPhase DEF Summarize
  <2> QED
    BY <1>2, <1>3, <2>1, GoesHasEffect
<1>12. CASE ReportError(b)
  <2>1. Goes(b, "exiting", 0, 0) /\ thread[b].pc = "error" /\ Put(b, Marker(b))
    BY <1>1, <1>12, SetPhase DEF ReportError
  <2> QED
    BY <1>2, <1>3, <2>1, GoesHasEffect
<1>13. CASE Exit(b)
  <2>1. Goes(b, "dead", 0, 0) /\ thread[b].pc = "exiting" /\ queue' = queue
    BY <1>1, <1>13, SetPhase DEF Exit
  <2> QED
    BY <1>2, <1>3, <2>1, GoesHasEffect
<1> QED
  BY <1>4, <1>5, <1>6, <1>8, <1>9, <1>10, <1>11, <1>12, <1>13 DEF Worker

LEMMA WorkerStep ==
    ASSUME IInv, NEW b \in Batches, Worker(b)
    PROVE  IInv'
<1>1. /\ UNCHANGED <<events_q, worker, running, multi_run_active, multi_runs_remaining, pc, q, alive,
                     item, interrupts>>
      /\ TypeOK'
      /\ \A c \in Batches \ {b} : thread'[c] = thread[c] /\ queue'[c] = queue[c]
      /\ thread[b].pc \notin {"new", "dead"} /\ thread'[b].pc \notin {"new", "prepare"}
      /\ thread'[b].size = thread[b].size
      /\ thread'[b].pc \in {"run", "result"} => thread[b].pc \in {"prepare", "run", "result"}
      /\ Waiting(b)' - thread'[b].returned = Waiting(b) - thread[b].returned
      /\ ThreadInv(b)'
  BY WorkerEffect DEF Effect, session, script, page
<1>2. TypeOK /\ ScriptInv /\ LockInv /\ CalmInv /\ worker \in Batches \cup {NoBatch}
      /\ events_q \in Batches \cup {NoBatch}
  BY DEF IInv, TypeOK
<1>3. \A c \in Batches : ThreadInv(c)'
  BY <1>1 DEF IInv, ThreadInv
<1>4. \A c \in Batches : Due(c)' = Due(c)
  <2>1. InHand' = InHand
    BY <1>1 DEF InHand
  <2>2. ASSUME NEW c \in Batches PROVE Due(c)' = Due(c)
    <3>1. CASE c = b
      <4>1. /\ thread[b].size \in Nat /\ thread[b].returned \in Nat /\ Waiting(b) \in Nat
            /\ InHand \in {0, 1}
        BY <1>2, Numbers
      <4>2. thread'[b].returned \in Nat /\ Waiting(b)' \in Nat
        <5>1. thread'[b].returned \in 0..MaxRuns /\ queue'[b] \in Seq(Event)
          BY <1>1 DEF TypeOK
        <5> QED
          BY <5>1, MaxRunsAssumption, ResultsAreFinite DEF Waiting
      <4> QED
        BY <1>1, <2>1, <3>1, <4>1, <4>2 DEF Due
    <3>2. CASE c # b
      BY <1>1, <2>1, <3>2 DEF Due, Waiting
    <3> QED
      BY <3>1, <3>2
  <2> QED
    BY <2>2
<1>5. ScriptInv'
  BY <1>1, <1>2 DEF ScriptInv, IsAlive, Starting, Batches, NoBatch
<1>6. LockInv'
  BY <1>1, <1>2, <1>4 DEF LockInv
<1>7. CalmInv'
  BY <1>1, <1>2, <1>4 DEF CalmInv
<1> QED
  BY <1>1, <1>3, <1>5, <1>6, <1>7 DEF IInv

-----------------------------------------------------------------------------
(* The script and the user: types                                          *)

\* What is left of TypeOK when threads and queues are known to be typed.
LEMMA ScriptTypes ==
    ASSUME TypeOK,
           Script \/ (\E run \in BOOLEAN : Interact(run) \/ Interrupt(run)) \/ GracePasses,
           thread' \in [Batches -> Thread], queue' \in [Batches -> Seq(Event)],
           \A c \in Batches : /\ thread'[c].returned <= thread'[c].ended
                              /\ thread'[c].ended <= thread'[c].size,
           item' \in Event \cup {NoItem}, multi_runs_remaining' \in 0..MaxRuns
    PROVE  TypeOK'
<1>1. /\ events_q' \in Batches \cup {NoBatch} /\ worker' \in Batches \cup {NoBatch}
      /\ q' \in Batches \cup {NoBatch} /\ last_result' \in Batches \cup {NoBatch}
  <2>1. pc = "apply" /\ item.kind = "result" => item.batch \in Batches
    BY DEF TypeOK, Event, NoItem
  <2> QED
    BY <2>1 DEF TypeOK, Script, BeginDrain, ReadAlive, ReadSize, Abort, Take, Drained,
           ApplyRunResult, CountDown, ApplyMarker, Render, InvalidTarget, StartQueue, StartWorker,
           Lock, Clock, CountAndStart, EndOfScript, Interact, Interrupt, GracePasses, FromTheTop,
           session, script, page, GoTo
<1>2. /\ run_started_at' \in {"unset", "recent", "past"}
      /\ pc' \in {"idle", "drain", "alive", "size", "abort", "items", "apply", "applied", "render",
                  "start_worker", "lock", "clock", "count", "end"}
      /\ interrupts' \in 0..MaxInterrupts
  BY MaxInterruptsAssumption
  DEF TypeOK, Script, BeginDrain, ReadAlive, ReadSize, Abort, Take, Drained,
      ApplyRunResult, CountDown, ApplyMarker, Render, InvalidTarget, StartQueue, StartWorker,
      Lock, Clock, CountAndStart, EndOfScript, Interact, Interrupt, GracePasses, FromTheTop,
      session, script, page, GoTo
<1>3. /\ running \in BOOLEAN /\ run_completed \in BOOLEAN /\ multi_run_active \in BOOLEAN
      /\ clicked \in BOOLEAN /\ alive \in BOOLEAN /\ enabled \in BOOLEAN
  BY DEF TypeOK
<1>4. /\ \A active, remaining : advance_after_run_result(active, remaining).running \in BOOLEAN
      /\ IsAlive(worker) \in BOOLEAN
      /\ (running /\ batch_still_running) \in BOOLEAN
      /\ (run_completed \/ ~batch_still_running) \in BOOLEAN
  BY DEF advance_after_run_result, IsAlive, batch_still_running
<1>5. running' \in BOOLEAN
  BY <1>3, <1>4
    DEF Script, BeginDrain, ReadAlive, ReadSize, Abort, Take, Drained, ApplyRunResult,
        CountDown, ApplyMarker, Render, InvalidTarget, StartQueue, StartWorker, Lock, Clock,
        CountAndStart, EndOfScript, Interact, Interrupt, GracePasses, FromTheTop, session,
        script, page
<1>6. run_completed' \in BOOLEAN
  BY <1>3, <1>4
    DEF Script, BeginDrain, ReadAlive, ReadSize, Abort, Take, Drained, ApplyRunResult,
        CountDown, ApplyMarker, Render, InvalidTarget, StartQueue, StartWorker, Lock, Clock,
        CountAndStart, EndOfScript, Interact, Interrupt, GracePasses, FromTheTop, session,
        script, page
<1>7. multi_run_active' \in BOOLEAN
  BY <1>3, <1>4
    DEF Script, BeginDrain, ReadAlive, ReadSize, Abort, Take, Drained, ApplyRunResult,
        CountDown, ApplyMarker, Render, InvalidTarget, StartQueue, StartWorker, Lock, Clock,
        CountAndStart, EndOfScript, Interact, Interrupt, GracePasses, FromTheTop, session,
        script, page
<1>8. clicked' \in BOOLEAN
  BY <1>3, <1>4
    DEF Script, BeginDrain, ReadAlive, ReadSize, Abort, Take, Drained, ApplyRunResult,
        CountDown, ApplyMarker, Render, InvalidTarget, StartQueue, StartWorker, Lock, Clock,
        CountAndStart, EndOfScript, Interact, Interrupt, GracePasses, FromTheTop, session,
        script, page
<1>9. alive' \in BOOLEAN
  BY <1>3, <1>4
    DEF Script, BeginDrain, ReadAlive, ReadSize, Abort, Take, Drained, ApplyRunResult,
        CountDown, ApplyMarker, Render, InvalidTarget, StartQueue, StartWorker, Lock, Clock,
        CountAndStart, EndOfScript, Interact, Interrupt, GracePasses, FromTheTop, session,
        script, page
<1>10. enabled' \in BOOLEAN
  BY <1>3, <1>4
    DEF Script, BeginDrain, ReadAlive, ReadSize, Abort, Take, Drained, ApplyRunResult,
        CountDown, ApplyMarker, Render, InvalidTarget, StartQueue, StartWorker, Lock, Clock,
        CountAndStart, EndOfScript, Interact, Interrupt, GracePasses, FromTheTop, session,
        script, page
<1> QED
  BY <1>1, <1>2, <1>5, <1>6, <1>7, <1>8, <1>9, <1>10 DEF TypeOK, Thread

-----------------------------------------------------------------------------
(* The script and the user: the invariant                                  *)

SessionInv == /\ \A b \in Batches : ThreadInv(b)
              /\ ScriptInv /\ LockInv /\ CalmInv

\* A step that leaves the threads alone changes what is due by what is in hand.
LEMMA SameThreads ==
    ASSUME IInv, UNCHANGED threads
    PROVE  /\ thread' = thread /\ queue' = queue
           /\ \A b \in Batches : ThreadInv(b)' /\ Waiting(b)' = Waiting(b)
           /\ InHand' = InHand => \A b \in Batches : Due(b)' = Due(b)
           /\ worker' = worker => (IsAlive(worker)' <=> IsAlive(worker))
           /\ events_q \in Batches \cup {NoBatch} /\ worker \in Batches \cup {NoBatch}
           /\ events_q # NoBatch => events_q \in Batches
           /\ worker # NoBatch => worker \in Batches
BY DEF threads, ThreadInv, Waiting, Due, IsAlive, IInv, TypeOK

LEMMA DrainStep ==
    ASSUME IInv, BeginDrain \/ ReadAlive \/ ReadSize \/ Drained
    PROVE  SessionInv'
<1>1. /\ UNCHANGED <<events_q, worker, running, multi_run_active, multi_runs_remaining, item,
                     interrupts>>
      /\ UNCHANGED threads /\ InHand' = InHand
      /\ pc' \notin Starting /\ pc \notin Starting
      /\ pc' \notin {"apply", "applied"} /\ pc # "applied"
  BY DEF BeginDrain, ReadAlive, ReadSize, Drained, GoTo, session, page, Starting, InHand
<1>2. ScriptInv /\ LockInv /\ CalmInv
  BY DEF IInv
<1>3. ScriptInv'
  <2>1. /\ pc' \in {"alive", "size", "abort", "items"} => q' = events_q /\ events_q # NoBatch
        /\ pc' = "size" => alive' = IsAlive(worker)
        /\ pc' = "abort" => /\ ~IsAlive(worker) /\ running /\ queue[events_q] = <<>>
    BY <1>2 DEF BeginDrain, ReadAlive, ReadSize, Drained, GoTo, ScriptInv, ShouldAbort
  <2> QED
    BY <1>1, <1>2, <2>1, SameThreads DEF ScriptInv, Starting
<1>4. LockInv'
  BY <1>1, <1>2, SameThreads DEF LockInv
<1>5. CalmInv'
  BY <1>1, <1>2, SameThreads DEF CalmInv
<1> QED
  BY <1>1, <1>3, <1>4, <1>5, SameThreads DEF SessionInv

LEMMA AbortStep ==
    ASSUME IInv, Abort
    PROVE  SessionInv'
<1>1. /\ UNCHANGED <<events_q, worker, q, interrupts>> /\ UNCHANGED threads
      /\ ~running' /\ ~multi_run_active' /\ multi_runs_remaining' = 0
      /\ pc = "abort" /\ pc' = "items"
  BY DEF Abort, GoTo, page
<1>2. ScriptInv /\ LockInv /\ CalmInv
  BY DEF IInv
<1>3. ScriptInv'
  BY <1>1, <1>2, SameThreads DEF ScriptInv, Starting
<1>4. LockInv'
  BY <1>1, <1>2, SameThreads DEF LockInv, ScriptInv, IsAlive
<1>5. CalmInv'
  BY <1>1, <1>2, SameThreads DEF CalmInv, Starting
<1> QED
  BY <1>1, <1>3, <1>4, <1>5, SameThreads DEF SessionInv

\* A result goes from the queue into the hand of the script.
LEMMA TakeStep ==
    ASSUME IInv, Take
    PROVE  SessionInv' /\ TypeOK'
<1>1. /\ UNCHANGED <<events_q, worker, running, multi_run_active, multi_runs_remaining, q,
                     interrupts, thread>>
      /\ pc = "items" /\ pc' = "apply" /\ queue[q] # <<>>
      /\ item' = Head(queue[q]) /\ queue' = [queue EXCEPT ![q] = Tail(queue[q])]
  BY DEF Take, GoTo, session, page
<1>2. TypeOK /\ ScriptInv /\ LockInv /\ CalmInv /\ \A b \in Batches : ThreadInv(b)
  BY DEF IInv
<1>3. q = events_q /\ q \in Batches /\ queue \in [Batches -> Seq(Event)] /\ queue[q] \in Seq(Event)
  BY <1>1, <1>2 DEF ScriptInv, TypeOK
<1>4. /\ item' \in Event /\ Tail(queue[q]) \in Seq(Event)
      /\ Cardinality(ResultsIn(queue[q]))
           = Cardinality(ResultsIn(Tail(queue[q]))) + IF item'.kind = "result" THEN 1 ELSE 0
  BY <1>1, <1>3, WaitingTail
<1>5. /\ queue' \in [Batches -> Seq(Event)] /\ queue'[q] = Tail(queue[q])
      /\ \A b \in Batches \ {q} : queue'[b] = queue[b]
  BY <1>1, <1>3, <1>4
<1>6. Due(q)' = Due(q)
  <2>1. InHand = 0 /\ InHand' = IF item'.kind = "result" THEN 1 ELSE 0
    BY <1>1 DEF InHand
  <2>2. Waiting(q) = Waiting(q)' + InHand'
    BY <1>1, <1>4, <1>5, <2>1 DEF Waiting
  <2>3. Waiting(q)' \in Nat
    BY <1>1, <1>4, <1>5, ResultsAreFinite DEF Waiting
  <2>4. thread[q].size \in Nat /\ thread[q].returned \in Nat
    BY <1>2, <1>3, Numbers
  <2>5. Due(q) = thread[q].size - thread[q].returned + Waiting(q) + InHand
    BY DEF Due
  <2>6. Due(q)' = thread[q].size - thread[q].returned + Waiting(q)' + InHand'
    BY <1>1 DEF Due
  <2> QED
    BY <2>1, <2>2, <2>3, <2>4, <2>5, <2>6
<1>7. thread[q].pc \notin {"new", "prepare"}
  BY <1>1, <1>2, <1>3 DEF ThreadInv
<1>8. \A b \in Batches : ThreadInv(b)'
  <2>1. ASSUME NEW b \in Batches, b = q PROVE ThreadInv(b)'
    BY <1>1, <1>2, <1>3, <1>7, <2>1 DEF ThreadInv
  <2>2. \A b \in Batches \ {q} : ThreadInv(b)'
    BY <1>1, <1>2, <1>5 DEF ThreadInv
  <2> QED
    BY <2>1, <2>2
<1>9. ScriptInv'
  BY <1>1, <1>2, <1>3, <1>7 DEF ScriptInv, Starting
<1>10. LockInv'
  BY <1>1, <1>2, <1>3, <1>6 DEF LockInv
<1>11. CalmInv'
  BY <1>1, <1>2, <1>3, <1>6 DEF CalmInv, Starting
<1>12. TypeOK'
  <2>1. multi_runs_remaining' \in 0..MaxRuns /\ thread' \in [Batches -> Thread]
        /\ \A c \in Batches : thread'[c].returned <= thread'[c].ended
                              /\ thread'[c].ended <= thread'[c].size
    BY <1>1, <1>2 DEF TypeOK, Thread
  <2> QED
    BY <1>2, <1>4, <1>5, <2>1, ScriptTypes DEF Script
<1> QED
  BY <1>8, <1>9, <1>10, <1>11, <1>12 DEF SessionInv

\* While a result is in hand, its batch is the one of the session and its
\* thread has begun; if a run of it is not over, another result may come.
LEMMA MoreToCome ==
    ASSUME IInv, pc \in {"apply", "applied"}, worker # NoBatch,
           thread[worker].pc \in {"prepare", "run", "result"}
    PROVE  /\ worker \in Batches /\ events_q = worker /\ running /\ multi_run_active
           /\ multi_runs_remaining >= Due(worker) /\ Due(worker) >= 1 + InHand
           /\ multi_runs_remaining \in Nat /\ Due(worker) \in Int
<1>1. TypeOK /\ ScriptInv /\ LockInv
  BY DEF IInv
<1>2. worker \in Batches
  BY <1>1 DEF TypeOK
<1>3. events_q = worker /\ thread[worker].pc \in {"run", "result"}
  BY <1>1 DEF ScriptInv
<1>4. thread[worker].ended < thread[worker].size
  <2>1. ThreadInv(worker) /\ thread[worker].size \in Nat /\ thread[worker].ended \in Nat
    BY <1>1, <1>2, Numbers DEF IInv
  <2> QED
    BY <1>3, <2>1 DEF ThreadInv
<1>5. /\ thread[worker].size \in Nat /\ thread[worker].ended \in Nat
      /\ thread[worker].returned \in Nat /\ thread[worker].returned <= thread[worker].ended
      /\ Waiting(worker) \in Nat /\ InHand \in {0, 1}
      /\ multi_runs_remaining \in Nat /\ Due(worker) \in Int
  BY <1>1, <1>2, Numbers
<1>6. Due(worker) >= 1 + InHand
  BY <1>4, <1>5 DEF Due
<1> QED
  BY <1>1, <1>2, <1>3, <1>5, <1>6 DEF LockInv

LEMMA ResultStep ==
    ASSUME IInv, ApplyRunResult
    PROVE  SessionInv'
<1> DEFINE left == IF multi_run_active /\ multi_runs_remaining > 0 THEN multi_runs_remaining - 1
                   ELSE 0
<1>1. /\ UNCHANGED <<events_q, worker, multi_run_active, multi_runs_remaining, q, item, interrupts>>
      /\ UNCHANGED threads
      /\ running' <=> left > 0
      /\ pc = "apply" /\ pc' = "applied" /\ item.kind = "result"
  <2>1. running' = (left > 0)
    BY DEF ApplyRunResult, advance_after_run_result
  <2>2. /\ UNCHANGED <<events_q, worker, multi_run_active, multi_runs_remaining, q, item, interrupts>>
        /\ UNCHANGED threads
        /\ pc = "apply" /\ pc' = "applied" /\ item.kind = "result"
    BY DEF ApplyRunResult, GoTo, page
  <2> QED
    BY <2>1, <2>2
<1>2. TypeOK /\ ScriptInv /\ LockInv /\ CalmInv /\ multi_runs_remaining \in Nat
  <2>1. TypeOK /\ ScriptInv /\ LockInv /\ CalmInv
    BY DEF IInv
  <2>2. multi_runs_remaining \in 0..MaxRuns
    BY <2>1 DEF TypeOK
  <2> QED
    BY <2>1, <2>2, MaxRunsAssumption
<1>3. InHand = 1 /\ InHand' = InHand
  BY <1>1 DEF InHand
<1>4. running' <=> multi_run_active /\ multi_runs_remaining > 1
  <2>1. left > 0 <=> multi_run_active /\ multi_runs_remaining > 1
    BY <1>2
  <2> QED
    BY <1>1, <2>1
<1> HIDE DEF left
<1>5. ScriptInv'
  BY <1>1, <1>2, <1>4, SameThreads DEF ScriptInv, Starting
<1>6. LockInv'
  <2>1. SUFFICES ASSUME worker # NoBatch, thread[worker].pc \in {"prepare", "run", "result"}
                 PROVE  running' /\ multi_run_active /\ multi_runs_remaining >= Due(worker)
    BY <1>1, <1>3, SameThreads DEF LockInv
  <2> QED
    BY <1>1, <1>3, <1>4, <2>1, MoreToCome
<1>7. CalmInv'
  <2>1. running' /\ interrupts = 0 => running
    BY <1>1, <1>2, <1>4 DEF CalmInv, Starting
  <2> QED
    BY <1>1, <1>2, <1>3, <2>1, SameThreads DEF CalmInv, Starting
<1> QED
  BY <1>1, <1>5, <1>6, <1>7, SameThreads DEF SessionInv

LEMMA CountDownStep ==
    ASSUME IInv, CountDown
    PROVE  SessionInv' /\ multi_runs_remaining' \in 0..MaxRuns
<1> DEFINE left == IF multi_run_active /\ multi_runs_remaining > 0 THEN multi_runs_remaining - 1
                   ELSE 0
<1>1. /\ UNCHANGED <<events_q, worker, running, q, interrupts>> /\ UNCHANGED threads
      /\ (multi_run_active' <=> left > 0) /\ multi_runs_remaining' = left
      /\ pc = "applied" /\ pc' = "items" /\ item' = NoItem
  BY DEF CountDown, GoTo, page, advance_after_run_result
<1>2. TypeOK /\ ScriptInv /\ LockInv /\ CalmInv /\ multi_runs_remaining \in 0..MaxRuns
  BY DEF IInv, TypeOK
<1>3. /\ multi_runs_remaining \in Nat /\ left \in 0..MaxRuns
      /\ multi_run_active /\ multi_runs_remaining > 1 =>
            left = multi_runs_remaining - 1 /\ left > 0
      /\ ~(multi_run_active /\ multi_runs_remaining > 1) => left = 0
  BY <1>2, MaxRunsAssumption
<1> HIDE DEF left
<1>4. InHand = 1 /\ InHand' = 0 /\ (running <=> multi_run_active /\ multi_runs_remaining > 1)
  BY <1>1, <1>2 DEF InHand, ScriptInv
<1>5. \A b \in Batches : Due(b)' = Due(b) - 1
  <2>1. ASSUME NEW b \in Batches PROVE Due(b)' = Due(b) - 1
    <3>1. /\ Waiting(b)' = Waiting(b) /\ thread' = thread /\ Waiting(b) \in Nat
          /\ thread[b].size \in Nat /\ thread[b].returned \in Nat
      BY <1>1, <1>2, SameThreads, Numbers
    <3> QED
      BY <1>4, <3>1 DEF Due
  <2> QED
    BY <2>1
<1>6. ScriptInv'
  BY <1>1, <1>2, SameThreads DEF ScriptInv, Starting
<1>7. LockInv'
  <2>1. SUFFICES ASSUME worker # NoBatch, thread[worker].pc \in {"prepare", "run", "result"}
                 PROVE  /\ running /\ multi_run_active'
                        /\ multi_runs_remaining' >= Due(worker) - 1
    BY <1>1, <1>5, SameThreads DEF LockInv
  <2>2. /\ running /\ multi_run_active /\ multi_runs_remaining >= Due(worker)
        /\ Due(worker) >= 2 /\ Due(worker) \in Int
    BY <1>1, <1>4, <2>1, MoreToCome
  <2>3. left = multi_runs_remaining - 1 /\ left > 0
    BY <1>3, <1>4, <2>2
  <2>4. multi_runs_remaining' >= Due(worker) - 1
    BY <1>1, <1>3, <2>2, <2>3
  <2> QED
    BY <1>1, <2>2, <2>3, <2>4
<1>8. CalmInv'
  <2>1. SUFFICES ASSUME interrupts = 0
                 PROVE  /\ worker = events_q
                        /\ running => /\ worker # NoBatch /\ thread[worker].pc # "new"
                                      /\ multi_run_active'
                                      /\ multi_runs_remaining' = Due(worker) - 1
                                      /\ multi_runs_remaining' > 0
                        /\ ~running => multi_runs_remaining' = 0
    BY <1>1, <1>5, SameThreads DEF CalmInv
  <2>2. worker = events_q /\ (running => /\ worker # NoBatch /\ thread[worker].pc # "new"
                                         /\ multi_runs_remaining = Due(worker))
    BY <1>1, <1>2, <2>1 DEF CalmInv, Starting
  <2>3. ~running => multi_runs_remaining' = 0
    BY <1>1, <1>3, <1>4
  <2>4. running => left = multi_runs_remaining - 1 /\ left > 0
    BY <1>3, <1>4
  <2> QED
    BY <1>1, <2>2, <2>3, <2>4
<1> QED
  BY <1>1, <1>3, <1>6, <1>7, <1>8, SameThreads DEF SessionInv

LEMMA MarkerStep ==
    ASSUME IInv, ApplyMarker
    PROVE  SessionInv'
<1>1. /\ UNCHANGED <<events_q, worker, multi_run_active, multi_runs_remaining, q, interrupts>>
      /\ UNCHANGED threads
      /\ running' <=> running /\ multi_runs_remaining > 0
      /\ pc = "apply" /\ pc' = "items" /\ item.kind = "marker" /\ item' = NoItem
  BY DEF ApplyMarker, GoTo, page, batch_still_running
<1>2. TypeOK /\ ScriptInv /\ LockInv /\ CalmInv /\ multi_runs_remaining \in Nat
  <2>1. TypeOK /\ ScriptInv /\ LockInv /\ CalmInv
    BY DEF IInv
  <2>2. multi_runs_remaining \in 0..MaxRuns
    BY <2>1 DEF TypeOK
  <2> QED
    BY <2>1, <2>2, MaxRunsAssumption
<1>3. InHand = 0 /\ InHand' = InHand
  BY <1>1 DEF InHand
<1>4. ScriptInv'
  BY <1>1, <1>2, SameThreads DEF ScriptInv, Starting
<1>5. LockInv'
  <2>1. SUFFICES ASSUME worker # NoBatch, thread[worker].pc \in {"prepare", "run", "result"}
                 PROVE  running' /\ multi_run_active /\ multi_runs_remaining >= Due(worker)
    BY <1>1, <1>3, SameThreads DEF LockInv
  <2>2. /\ running /\ multi_run_active /\ multi_runs_remaining >= Due(worker)
        /\ Due(worker) >= 1 /\ Due(worker) \in Int
    BY <1>1, <1>3, <2>1, MoreToCome
  <2>3. multi_runs_remaining > 0
    BY <1>2, <2>2
  <2> QED
    BY <1>1, <2>2, <2>3
<1>6. CalmInv'
  <2>1. ~running' => ~running \/ multi_runs_remaining = 0
    BY <1>1, <1>2
  <2> QED
    BY <1>1, <1>2, <1>3, <2>1, SameThreads DEF CalmInv, Starting
<1> QED
  BY <1>1, <1>4, <1>5, <1>6, SameThreads DEF SessionInv

LEMMA PageStep ==
    ASSUME IInv, Render \/ InvalidTarget \/ EndOfScript
    PROVE  SessionInv'
<1>1. /\ UNCHANGED <<events_q, worker, running, multi_run_active, multi_runs_remaining, q, alive,
                     item, interrupts>>
      /\ UNCHANGED threads /\ InHand' = InHand
      /\ pc \in {"render", "end"} /\ pc' \in {"end", "drain", "idle"}
  BY DEF Render, InvalidTarget, EndOfScript, GoTo, session, page, InHand
<1>2. ScriptInv /\ LockInv /\ CalmInv
  BY DEF IInv
<1>3. ScriptInv'
  BY <1>1, <1>2, SameThreads DEF ScriptInv, Starting
<1>4. LockInv'
  BY <1>1, <1>2, SameThreads DEF LockInv
<1>5. CalmInv'
  BY <1>1, <1>2, SameThreads DEF CalmInv, Starting
<1> QED
  BY <1>1, <1>3, <1>4, <1>5, SameThreads DEF SessionInv

\* A new queue is empty, and its thread is not started yet.
LEMMA StartQueueStep ==
    ASSUME IInv, NEW b \in Batches, NEW size \in 0..MaxRuns, StartQueue(b, size)
    PROVE  SessionInv' /\ TypeOK'
<1>1. /\ UNCHANGED <<worker, running, multi_run_active, multi_runs_remaining, q, alive, item,
                     interrupts, queue>>
      /\ pc = "render" /\ pc' = "start_worker" /\ events_q' = b
      /\ thread[b] = NoThread /\ b # worker
      /\ thread' = [thread EXCEPT ![b].size = size]
  BY DEF StartQueue, NextBatch, Unused, GoTo
<1>2. TypeOK /\ ScriptInv /\ LockInv /\ \A c \in Batches : ThreadInv(c)
  BY DEF IInv
<1>3. b # NoBatch /\ thread[b] \in Thread /\ thread \in [Batches -> Thread]
  BY <1>2 DEF Batches, NoBatch, TypeOK, Thread
<1> DEFINE new == [thread[b] EXCEPT !.size = size]
<1>4. new \in Thread /\ new.pc = "new" /\ new.ended = 0 /\ new.returned = 0 /\ new.size = size
  BY <1>1, <1>3 DEF Thread, NoThread
<1>5. thread' = [thread EXCEPT ![b] = new]
  BY <1>1
<1> HIDE DEF new
<1>6. /\ thread' \in [Batches -> Thread] /\ thread'[b] = new
      /\ \A c \in Batches \ {b} : thread'[c] = thread[c]
  BY <1>3, <1>4, <1>5
<1>7. \A c \in Batches : ThreadInv(c)'
  <2>1. queue[b] = <<>>
    BY <1>1, <1>2 DEF ThreadInv, NoThread
  <2>2. ASSUME NEW c \in Batches, c = b PROVE ThreadInv(c)'
    BY <1>1, <1>4, <1>6, <2>1, <2>2 DEF ThreadInv
  <2>3. ASSUME NEW c \in Batches, c # b PROVE ThreadInv(c)'
    BY <1>1, <1>2, <1>6, <2>3 DEF ThreadInv
  <2> QED
    BY <2>2, <2>3
<1>8. ScriptInv'
  BY <1>1, <1>2, <1>3, <1>4, <1>6 DEF ScriptInv, Starting
<1>9. LockInv'
  <2>1. worker \in Batches \cup {NoBatch}
    BY <1>2 DEF TypeOK
  <2> QED
    BY <1>1, <1>2, <1>6, <2>1 DEF LockInv
<1>10. CalmInv'
  BY <1>1 DEF CalmInv, Starting
<1>11. TypeOK'
  <2>1. /\ thread'[b].returned <= thread'[b].ended /\ thread'[b].ended <= thread'[b].size
    BY <1>4, <1>6, MaxRunsAssumption
  <2>2. \A c \in Batches : /\ thread'[c].returned <= thread'[c].ended
                           /\ thread'[c].ended <= thread'[c].size
    BY <1>2, <1>6, <2>1 DEF TypeOK
  <2>3. /\ queue' \in [Batches -> Seq(Event)] /\ item' \in Event \cup {NoItem}
        /\ multi_runs_remaining' \in 0..MaxRuns
    BY <1>1, <1>2 DEF TypeOK
  <2> QED
    BY <1>2, <1>6, <2>2, <2>3, ScriptTypes DEF Script
<1> QED
  BY <1>7, <1>8, <1>9, <1>10, <1>11 DEF SessionInv

LEMMA StartStep ==
    ASSUME IInv, StartWorker \/ Lock \/ Clock
    PROVE  SessionInv'
<1>1. /\ UNCHANGED <<events_q, multi_run_active, multi_runs_remaining, q, alive, item, interrupts>>
      /\ UNCHANGED threads
      /\ pc \in {"start_worker", "lock", "clock"}
      /\ worker' = IF pc = "start_worker" THEN events_q ELSE worker
      /\ pc' = CASE pc = "start_worker" -> "lock" [] pc = "lock" -> "clock" [] pc = "clock" -> "count"
      /\ pc = "lock" => running'
      /\ pc # "lock" => (running' <=> running)
  BY DEF StartWorker, Lock, Clock, GoTo, page
<1>2. ScriptInv /\ LockInv /\ CalmInv
  BY DEF IInv
<1>3. events_q # NoBatch /\ thread[events_q].pc = "new" /\ worker' = events_q
      /\ pc' \in {"lock", "clock", "count"} /\ (pc' \in {"clock", "count"} => running')
  BY <1>1, <1>2 DEF ScriptInv, Starting
<1>4. ScriptInv'
  BY <1>1, <1>3, SameThreads DEF ScriptInv, Starting
<1>5. LockInv'
  BY <1>1, <1>3, SameThreads DEF LockInv
<1>6. CalmInv'
  BY <1>3 DEF CalmInv, Starting
<1> QED
  BY <1>1, <1>4, <1>5, <1>6, SameThreads DEF SessionInv

\* The thread starts with its whole batch to come.
LEMMA CountStep ==
    ASSUME IInv, CountAndStart
    PROVE  SessionInv' /\ TypeOK'
<1>1. /\ UNCHANGED <<events_q, worker, running, q, alive, item, interrupts, queue>>
      /\ multi_run_active' /\ multi_runs_remaining' = thread[worker].size
      /\ pc = "count" /\ pc' = "end"
      /\ thread' = [thread EXCEPT ![worker].pc = "prepare"]
  BY DEF CountAndStart, GoTo, page
<1>2. TypeOK /\ ScriptInv /\ LockInv /\ CalmInv /\ \A b \in Batches : ThreadInv(b)
  BY DEF IInv
<1>3. /\ worker = events_q /\ worker \in Batches /\ worker # NoBatch
      /\ thread[worker].pc = "new" /\ running
  BY <1>1, <1>2 DEF ScriptInv, Starting, TypeOK
<1>4. thread[worker] \in Thread /\ thread \in [Batches -> Thread]
  BY <1>2, <1>3 DEF TypeOK, Thread
<1>5. /\ thread[worker].ended = 0 /\ queue[worker] = <<>> /\ thread[worker].returned = 0
      /\ thread[worker].size \in Nat /\ Waiting(worker) = 0
  <2>1. thread[worker].ended = 0 /\ queue[worker] = <<>>
    BY <1>2, <1>3 DEF ThreadInv
  <2>2. /\ thread[worker].returned \in Nat /\ thread[worker].size \in Nat
        /\ thread[worker].returned <= thread[worker].ended
    BY <1>2, <1>3, Numbers
  <2>3. Waiting(worker) = 0
    BY <2>1, EmptyQueue
  <2> QED
    BY <2>1, <2>2, <2>3
<1> DEFINE new == [thread[worker] EXCEPT !.pc = "prepare"]
<1>6. /\ new \in Thread /\ new.pc = "prepare" /\ new.ended = 0 /\ new.returned = 0
      /\ new.size = thread[worker].size
  BY <1>4, <1>5 DEF Thread
<1>7. thread' = [thread EXCEPT ![worker] = new]
  BY <1>1
<1> HIDE DEF new
<1>8. /\ thread' \in [Batches -> Thread] /\ thread'[worker] = new
      /\ \A b \in Batches \ {worker} : thread'[b] = thread[b]
  BY <1>3, <1>4, <1>6, <1>7
<1>9. Due(worker)' = thread[worker].size
  <2>1. InHand' = 0 /\ Waiting(worker)' = 0
    BY <1>1, <1>5 DEF InHand, Waiting
  <2>2. Due(worker)' = thread[worker].size - 0 + 0 + 0
    BY <1>1, <1>6, <1>8, <2>1 DEF Due
  <2> QED
    BY <1>5, <2>2
<1>10. \A b \in Batches : ThreadInv(b)'
  <2>1. ASSUME NEW b \in Batches, b = worker PROVE ThreadInv(b)'
    BY <1>1, <1>5, <1>6, <1>8, <2>1 DEF ThreadInv
  <2>2. ASSUME NEW b \in Batches, b # worker PROVE ThreadInv(b)'
    BY <1>1, <1>2, <1>8, <2>2 DEF ThreadInv
  <2> QED
    BY <2>1, <2>2
<1>11. ScriptInv'
  BY <1>1, <1>3 DEF ScriptInv, Starting
<1>12. LockInv'
  BY <1>1, <1>3, <1>5, <1>9 DEF LockInv
<1>13. CalmInv'
  <2>1. multi_runs_remaining' > 0 \/ thread'[worker].size = 0
    BY <1>1, <1>5, <1>6, <1>8
  <2> QED
    BY <1>1, <1>3, <1>6, <1>8, <1>9, <2>1 DEF CalmInv, Starting
<1>14. TypeOK'
  <2>1. thread'[worker].returned <= thread'[worker].ended /\ thread'[worker].ended <= thread'[worker].size
    BY <1>5, <1>6, <1>8
  <2>2. \A c \in Batches : /\ thread'[c].returned <= thread'[c].ended
                           /\ thread'[c].ended <= thread'[c].size
    BY <1>2, <1>8, <2>1 DEF TypeOK
  <2>3. /\ queue' \in [Batches -> Seq(Event)] /\ item' \in Event \cup {NoItem}
        /\ multi_runs_remaining' \in 0..MaxRuns
    BY <1>1, <1>2, <1>4 DEF TypeOK, Thread
  <2> QED
    BY <1>2, <1>8, <2>2, <2>3, ScriptTypes DEF Script
<1> QED
  BY <1>10, <1>11, <1>12, <1>13, <1>14 DEF SessionInv

\* A script that is stopped may take a result with it: the counter stays
\* above what is due, and the exact count is off.
LEMMA UserStep ==
    ASSUME IInv, (\E run \in BOOLEAN : Interact(run) \/ Interrupt(run)) \/ GracePasses
    PROVE  SessionInv'
<1>1. TypeOK /\ ScriptInv /\ LockInv /\ CalmInv
  BY DEF IInv
<1>2. CASE GracePasses
  <2>1. /\ UNCHANGED <<events_q, worker, running, multi_run_active, multi_runs_remaining, pc, q,
                       alive, item, interrupts>>
        /\ UNCHANGED threads /\ InHand' = InHand
    BY <1>2 DEF GracePasses, script, page, InHand
  <2>2. ScriptInv'
    BY <1>1, <2>1, SameThreads DEF ScriptInv, Starting
  <2>3. LockInv'
    BY <1>1, <2>1, SameThreads DEF LockInv
  <2>4. CalmInv'
    BY <1>1, <2>1, SameThreads DEF CalmInv
  <2> QED
    BY <2>1, <2>2, <2>3, <2>4, SameThreads DEF SessionInv
<1>3. ASSUME NEW run \in BOOLEAN, Interact(run) \/ Interrupt(run)
      PROVE  SessionInv'
  <2>1. /\ UNCHANGED <<events_q, worker, running, multi_run_active, multi_runs_remaining>>
        /\ UNCHANGED threads /\ pc' = "drain" /\ InHand' = 0
        /\ \/ pc = "idle" /\ interrupts' = interrupts
           \/ interrupts' = interrupts + 1
    BY <1>3 DEF Interact, Interrupt, FromTheTop, GoTo, session, page, InHand
  <2>2. ScriptInv'
    BY <1>1, <2>1, SameThreads DEF ScriptInv, Starting
  <2>3. LockInv'
    <3>1. SUFFICES ASSUME worker # NoBatch, thread[worker].pc \in {"prepare", "run", "result"},
                          events_q = worker
                   PROVE  multi_runs_remaining >= Due(worker)'
      BY <1>1, <2>1, SameThreads DEF LockInv
    <3>2. worker \in Batches /\ multi_runs_remaining >= Due(worker)
      BY <1>1, <3>1 DEF LockInv, TypeOK
    <3>3. /\ thread[worker].size \in Nat /\ thread[worker].returned \in Nat
          /\ Waiting(worker) \in Nat /\ InHand \in {0, 1} /\ multi_runs_remaining \in Nat
      BY <1>1, <3>2, Numbers
    <3>4. Due(worker)' = thread[worker].size - thread[worker].returned + Waiting(worker) + 0
      BY <2>1, <3>2, SameThreads DEF Due
    <3> QED
      BY <3>2, <3>3, <3>4 DEF Due
  <2>4. CalmInv'
    <3>1. CASE pc = "idle" /\ interrupts' = interrupts
      <4>1. InHand' = InHand
        BY <2>1, <3>1 DEF InHand
      <4> QED
        BY <1>1, <2>1, <3>1, <4>1, SameThreads DEF CalmInv, Starting
    <3>2. CASE interrupts' = interrupts + 1
      <4>1. interrupts' # 0
        BY <1>1, <3>2, MaxInterruptsAssumption DEF TypeOK
      <4> QED
        BY <4>1 DEF CalmInv
    <3> QED
      BY <2>1, <3>1, <3>2
  <2> QED
    BY <2>1, <2>2, <2>3, <2>4, SameThreads DEF SessionInv
<1> QED
  BY <1>2, <1>3

LEMMA StepKeepsInv == IInv /\ [Next]_vars => IInv'
<1> SUFFICES ASSUME IInv, [Next]_vars PROVE IInv'
  OBVIOUS
<1>1. /\ TypeOK /\ thread \in [Batches -> Thread] /\ queue \in [Batches -> Seq(Event)]
      /\ \A c \in Batches : /\ thread[c].returned <= thread[c].ended
                            /\ thread[c].ended <= thread[c].size
      /\ item \in Event \cup {NoItem} /\ multi_runs_remaining \in 0..MaxRuns
      /\ 0 \in 0..MaxRuns
  <2>1. 0 \in 0..MaxRuns
    BY MaxRunsAssumption
  <2>2. thread \in [Batches -> Thread]
    BY DEF IInv, TypeOK, Thread
  <2>3. /\ TypeOK /\ queue \in [Batches -> Seq(Event)]
        /\ item \in Event \cup {NoItem} /\ multi_runs_remaining \in 0..MaxRuns
    BY DEF IInv, TypeOK
  <2>4. \A c \in Batches : /\ thread[c].returned <= thread[c].ended
                           /\ thread[c].ended <= thread[c].size
    BY DEF IInv, TypeOK
  <2> QED
    BY <2>1, <2>2, <2>3, <2>4
<1>2. ASSUME NEW b \in Batches, Worker(b) PROVE IInv'
  BY <1>2, WorkerStep
<1>3. ASSUME BeginDrain \/ ReadAlive \/ ReadSize \/ Abort \/ Drained \/ ApplyRunResult \/ CountDown
             \/ ApplyMarker \/ Render \/ InvalidTarget \/ EndOfScript \/ StartWorker \/ Lock \/ Clock
             \/ (\E run \in BOOLEAN : Interact(run) \/ Interrupt(run)) \/ GracePasses
      PROVE  IInv'
  <2>1. /\ UNCHANGED threads /\ item' \in {item, NoItem}
        /\ CountDown \/ multi_runs_remaining' \in {multi_runs_remaining, 0}
    BY <1>3 DEF BeginDrain, ReadAlive, ReadSize, Abort, Drained, ApplyRunResult, CountDown,
       ApplyMarker, Render, InvalidTarget, EndOfScript, StartWorker, Lock, Clock, Interact,
       Interrupt, GracePasses, FromTheTop, session, script
  <2>2. SessionInv'
    BY <1>3, DrainStep, AbortStep, ResultStep, CountDownStep, MarkerStep, PageStep, StartStep,
       UserStep
  <2>3. multi_runs_remaining' \in 0..MaxRuns
    BY <1>1, <2>1, CountDownStep
  <2>4. TypeOK'
    BY <1>1, <1>3, <2>1, <2>3, ScriptTypes DEF Script, threads
  <2> QED
    BY <2>2, <2>4 DEF SessionInv, IInv
<1>4. CASE Take
  BY <1>4, TakeStep DEF SessionInv, IInv
<1>5. ASSUME NEW b \in Batches, NEW size \in 0..MaxRuns, StartQueue(b, size) PROVE IInv'
  BY <1>5, StartQueueStep DEF SessionInv, IInv
<1>6. CASE CountAndStart
  BY <1>6, CountStep DEF SessionInv, IInv
<1>7. CASE UNCHANGED vars
  <2>1. TypeOK'
    <3>1. UNCHANGED <<session, script, page>> /\ thread' = thread /\ queue' = queue
      BY <1>7 DEF vars, threads
    <3> QED
      BY <1>1, <3>1, TypesOfTheRest
  <2>2. \A b \in Batches : ThreadInv(b)'
    BY <1>7 DEF vars, threads, IInv, ThreadInv
  <2>3. ScriptInv' /\ LockInv' /\ CalmInv'
    <3>1. /\ UNCHANGED <<events_q, worker, running, multi_run_active, multi_runs_remaining, pc, q,
                         alive, item, interrupts>>
          /\ UNCHANGED threads /\ InHand' = InHand
      BY <1>7 DEF vars, session, script, page, InHand
    <3>2. ScriptInv'
      BY <3>1, SameThreads DEF ScriptInv, Starting, IInv
    <3>3. LockInv'
      BY <3>1, SameThreads DEF LockInv, IInv
    <3>4. CalmInv'
      BY <3>1, SameThreads DEF CalmInv, IInv
    <3> QED
      BY <3>2, <3>3, <3>4
  <2> QED
    BY <2>1, <2>2, <2>3 DEF IInv
<1> QED
  BY <1>2, <1>3, <1>4, <1>5, <1>6, <1>7 DEF Next, Script

-----------------------------------------------------------------------------
(* The theorems                                                            *)

\* The invariant holds of every behaviour.
THEOREM Invariance == Spec => []IInv
BY InitInv, StepKeepsInv, PTL DEF Spec

\* While a run of its batch may still end with a result the session is locked,
\* whatever markers, old events and stopped scripts come in between
\* (_drain_events, and the safety net in it).
THEOREM LockedForItsRuns == Spec => []Inv
<1>1. IInv => Inv
  <2>1. SUFFICES ASSUME IInv PROVE LockedUntilRunsAreOver
    BY DEF IInv, Inv
  <2>2. SUFFICES ASSUME ~running, worker # NoBatch, thread[worker].pc # "new"
                 PROVE  RunsAreOver(worker)
    BY DEF LockedUntilRunsAreOver
  <2>3. worker \in Batches
    BY <2>1, <2>2 DEF IInv, TypeOK
  <2>4. /\ thread[worker].pc \in {"new", "prepare", "run", "result", "marker", "record", "error",
                                  "exiting", "dead"}
        /\ ThreadInv(worker) /\ LockInv
    BY <2>1, <2>3 DEF IInv, TypeOK
  <2> QED
    BY <2>2, <2>4 DEF LockInv, ThreadInv, RunsAreOver
<1> QED
  BY <1>1, Invariance, PTL

\* The safety net of the script (worker dead, queue empty, the grace past)
\* gives a batch up only if a run of it returned nothing, or the user stopped
\* a script: a thread that returns all its results and ends is never aborted.
THEOREM NetIsEarned == Spec => AbortIsEarned
<1>1. IInv /\ Abort => \/ thread[worker].returned < thread[worker].size
                       \/ thread[worker].size = 0
                       \/ interrupts > 0
  <2>1. SUFFICES ASSUME IInv, Abort, interrupts = 0, thread[worker].size # 0
                 PROVE  thread[worker].returned < thread[worker].size
    <3>1. IInv => interrupts \in Nat
      BY MaxInterruptsAssumption DEF IInv, TypeOK
    <3> QED
      BY <3>1
  <2>2. pc = "abort" /\ TypeOK /\ ScriptInv /\ CalmInv
    BY <2>1 DEF IInv, Abort
  <2>3. /\ running /\ queue[events_q] = <<>> /\ worker = events_q /\ worker # NoBatch
        /\ multi_runs_remaining = Due(worker) /\ multi_runs_remaining > 0
    BY <2>1, <2>2 DEF ScriptInv, CalmInv, Starting
  <2>4. worker \in Batches
    BY <2>2, <2>3 DEF TypeOK
  <2>5. Waiting(worker) = 0 /\ InHand = 0
    BY <2>2, <2>3, EmptyQueue DEF InHand
  <2>6. thread[worker].size \in Nat /\ thread[worker].returned \in Nat
    BY <2>2, <2>4, Numbers
  <2> QED
    BY <2>3, <2>5, <2>6 DEF Due
<1> QED
  BY <1>1, Invariance, PTL DEF AbortIsEarned
=============================================================================
