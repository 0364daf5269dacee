---------------------------- MODULE MCConnections ----------------------------
(***************************************************************************)
(* Getting a connection: the process-wide session (LambdaInit), which      *)
(* NewMultiAccount asks for first, and then the partners' connections      *)
(* (MultiAccount).  The two share no state, so that each is looked at      *)
(* while the other rests.                                                  *)
(***************************************************************************)
EXTENDS MultiAccount

CONSTANTS Goroutines, MaxInitFailures, MaxCalls

ASSUME InitBounds == MaxInitFailures \in Nat /\ MaxCalls \in Nat

VARIABLES used, globalLambdaDB, lambdaOnce, place, db, err, returned, sessions,
    initFailures, calls

L == INSTANCE LambdaInit WITH
        pc <- place, answer <- returned, failures <- initFailures,
        MaxFailures <- MaxInitFailures

lambdaVars == <<globalLambdaDB, lambdaOnce, place, db, err, returned, sessions,
                initFailures, calls>>

all == <<used, accountVars, lambdaVars>>

ConnectionsInit == used \in {"session", "partners"} /\ AccountsInit /\ L!Init

Starting(A)   == used = "session" /\ A /\ UNCHANGED <<used, accountVars>>
Connecting(A) == used = "partners" /\ A /\ UNCHANGED <<used, lambdaVars>>

ConnectionsNext == Starting(L!Next) \/ Connecting(AccountsNext)

\* The fairness of the two modules.
ConnectionsSpec ==
    /\ ConnectionsInit /\ [][ConnectionsNext]_all
    /\ \A g \in Goroutines : WF_all(Starting(L!Step(g)))
    /\ WF_all(Connecting(Refresher)) /\ SF_all(Connecting(RefreshExit))
    /\ \A x \in Pairs : WF_all(Connecting(Refresh(x)))

------------------------------------------------------------------------------
\* Only ever one session is made, and all calls, cold or warm and however they
\* overlap, answer with it.
Singleton == L!TypeOK /\ L!Singleton
==============================================================================
