------------------------------- MODULE EventLog -------------------------------
(***************************************************************************)
(* What an execution promises the clients of its event stream: one log     *)
(* that only grows, that is sealed with a final event, and that every      *)
(* stream delivers from the first event on, in order, without gaps; a      *)
(* stream ends by itself only when the sealed log has been delivered.      *)
(***************************************************************************)
EXTENDS Naturals, Sequences

CONSTANTS Clients, Event, Final    \* Final: the events that end a log

VARIABLES
    log,      \* the events published so far
    sealed,   \* no further event will come
    seen,     \* seen[c]: events of the current stream of c delivered so far
    ended     \* ended[c]: the server has ended the current stream of c

TypeOK ==
    /\ log \in Seq(Event)
    /\ sealed \in BOOLEAN
    /\ seen \in [Clients -> Nat]
    /\ ended \in [Clients -> BOOLEAN]

Init ==
    /\ log = <<>>
    /\ sealed = FALSE
    /\ seen = [c \in Clients |-> 0]
    /\ ended = [c \in Clients |-> FALSE]

Publish ==
    /\ ~sealed
    /\ \E event \in Event : log' = Append(log, event)
    /\ UNCHANGED <<sealed, seen, ended>>

Seal ==
    /\ log # <<>> /\ log[Len(log)] \in Final
    /\ sealed' = TRUE
    /\ UNCHANGED <<log, seen, ended>>

Deliver(c) ==
    /\ ~ended[c] /\ seen[c] < Len(log)
    /\ seen' = [seen EXCEPT ![c] = @ + 1]
    /\ UNCHANGED <<log, sealed, ended>>

End(c) ==
    /\ sealed /\ seen[c] = Len(log)
    /\ ended' = [ended EXCEPT ![c] = TRUE]
    /\ UNCHANGED <<log, sealed, seen>>

\* A client opens a new stream, which starts from the first event.
Open(c) ==
    /\ seen' = [seen EXCEPT ![c] = 0]
    /\ ended' = [ended EXCEPT ![c] = FALSE]
    /\ UNCHANGED <<log, sealed>>

Next == Publish \/ Seal \/ \E c \in Clients : Deliver(c) \/ End(c) \/ Open(c)

Spec == Init /\ [][Next]_<<log, sealed, seen, ended>>
=============================================================================
