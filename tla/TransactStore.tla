---------------------------- MODULE TransactStore ----------------------------
(***************************************************************************)
(* What a write transaction promises the application, with no builder,     *)
(* retry, token or network in it: a submitted list of operations takes     *)
(* effect in one step or not at all; nil is answered after it took effect, *)
(* a failure only when it never will, and in every other case the caller   *)
(* learns that the outcome is unknown.                                     *)
(***************************************************************************)
EXTENDS TransactItems

CONSTANT Clients

VARIABLES
    table,     \* the stored items
    open,      \* submitted and undecided requests: [id, ops] records
    committed, \* ids of the requests that took effect
    current,   \* the number of the request a client waits for, 0 if none
    answer     \* the last answer each client was given

vars == <<table, open, committed, current, answer>>

Idle == 0
Id(c) == <<c, current[c]>>

Init ==
    /\ table = [k \in Keys |-> Absent]
    /\ open = {}
    /\ committed = {}
    /\ current = [c \in Clients |-> Idle]
    /\ answer = [c \in Clients |-> "none"]

\* x is a request of c's that was never submitted before.
Submit(c, x) ==
    /\ current[c] = Idle
    /\ x.id[1] = c /\ x.id[2] # Idle
    /\ x.id \notin committed
    /\ \A y \in open : y.id # x.id
    /\ open' = open \cup {x}
    /\ current' = [current EXCEPT ![c] = x.id[2]]
    /\ UNCHANGED <<table, committed, answer>>

Commit(x) ==
    /\ DistinctKeys(x.ops) /\ AllHold(x.ops, table)
    /\ table' = Apply(x.ops, table)
    /\ committed' = committed \cup {x.id}
    /\ open' = open \ {x}
    /\ UNCHANGED <<current, answer>>

\* A request nobody waits for any more may come to nothing.
Forget(x) ==
    /\ x.id # Id(x.id[1])
    /\ open' = open \ {x}
    /\ UNCHANGED <<table, committed, current, answer>>

Answer(c, a) ==
    /\ current' = [current EXCEPT ![c] = Idle]
    /\ answer' = [answer EXCEPT ![c] = a]

Succeed(c) ==
    /\ current[c] # Idle
    /\ Id(c) \in committed
    /\ Answer(c, "ok")
    /\ UNCHANGED <<table, open, committed>>

Fail(c) ==
    /\ current[c] # Idle
    /\ Id(c) \notin committed
    /\ Answer(c, "failed")
    /\ open' = {x \in open : x.id # Id(c)}
    /\ UNCHANGED <<table, committed>>

\* The request stays open if it was: it may take effect later.
Doubt(c) ==
    /\ current[c] # Idle
    /\ Answer(c, "unknown")
    /\ open' \in {open, {x \in open : x.id # Id(c)}}
    /\ UNCHANGED <<table, committed>>

\* A list that cannot be submitted is refused without effect.
Refuse(c) ==
    /\ current[c] = Idle
    /\ answer' = [answer EXCEPT ![c] = "failed"]
    /\ UNCHANGED <<table, open, committed, current>>

Next ==
    \/ \E c \in Clients : \E x \in open' : Submit(c, x)
    \/ \E x \in open : Commit(x) \/ Forget(x)
    \/ \E c \in Clients : Succeed(c) \/ Fail(c) \/ Doubt(c) \/ Refuse(c)

Spec == Init /\ [][Next]_vars
==============================================================================
