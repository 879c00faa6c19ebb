-------------------------- MODULE DomainRepository --------------------------
(***************************************************************************)
(* The promise of DomainStateRepository (repository.ts): one aggregate     *)
(* that every call sees and replaces at a single moment between its        *)
(* beginning and its end, with the events it logs queued in the outbox at  *)
(* the same moment.  A call that fails may have taken effect, once.        *)
(***************************************************************************)
EXTENDS RepositoryState

VARIABLES
    state,      \* the aggregate
    outbox,     \* the events queued for publication
    operation,  \* what each call asked for
    phase,      \* "idle", "pending", "applied", "done" or "failed"
    seen        \* the aggregate a call saw

vars == <<state, outbox, operation, phase, seen>>

\* reset does not look at the aggregate.
Looks(o) == o.method # "reset"

\* Only reset installs a state without queueing its events.
Logged(o, s, t) == IF o.method = "reset" THEN {} ELSE t.events \ s.events

Init ==
    /\ state = createInitialDomainState
    /\ outbox = {}
    /\ operation = [c \in Calls |-> None]
    /\ phase = [c \in Calls |-> "idle"]
    /\ seen = [c \in Calls |-> None]

Call(c, o) ==
    /\ phase[c] = "idle"
    /\ operation' = [operation EXCEPT ![c] = o]
    /\ phase' = [phase EXCEPT ![c] = "pending"]
    /\ UNCHANGED <<state, outbox, seen>>

Apply(c) ==
    /\ phase[c] = "pending"
    /\ phase' = [phase EXCEPT ![c] = "applied"]
    /\ state' = nextState(operation[c], state, c)
    /\ outbox' = outbox \union Logged(operation[c], state, state')
    /\ seen' = [seen EXCEPT ![c] = IF Looks(operation[c]) THEN state ELSE None]
    /\ UNCHANGED operation

Return(c) ==
    /\ phase[c] = "applied"
    /\ phase' = [phase EXCEPT ![c] = "done"]
    /\ UNCHANGED <<state, outbox, operation, seen>>

Fail(c) ==
    /\ phase[c] \in {"pending", "applied"}
    /\ phase' = [phase EXCEPT ![c] = "failed"]
    /\ seen' = [seen EXCEPT ![c] = None]
    /\ UNCHANGED <<state, outbox, operation>>

Next == \E c \in Calls : (\E o \in Operations : Call(c, o)) \/ Apply(c) \/ Return(c) \/ Fail(c)

Spec == Init /\ [][Next]_vars
=============================================================================
