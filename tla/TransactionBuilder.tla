-------------------------- MODULE TransactionBuilder --------------------------
(***************************************************************************)
(* pkg/transaction/builder.go: the fluent transaction builder behind       *)
(* DB.Transact and DB.TransactWrite, used by several goroutines (one       *)
(* builder each) against one table.                                        *)
(*                                                                         *)
(* Execute is not atomic: between its steps the network loses messages,    *)
(* the AWS SDK re-sends the request, other builders commit, and timers and *)
(* contexts fire.  The SDK and DynamoDB are external, modelled from the    *)
(* calls the builder makes and the answers it handles.                     *)
(***************************************************************************)
EXTENDS TransactItems

CONSTANTS
    Builders,              \* one Builder value per goroutine
    Calls,                 \* the operations the application may add
    maxTransactOperations, \* 25 in the code
    MaxRetries,            \* len(retrySchedule), 4 in the code
    NoFailure,             \* the code of an operation that did not fail
    FailureCodes,          \* codes of the operations that did
    MaxResends,            \* bound: re-sends by the SDK per Execute
    MaxExecutes            \* bound: Execute calls per builder

NilCode == "nil"

ASSUME TransactionBuilderAssumption ==
    /\ Calls \subseteq Operations
    /\ maxTransactOperations \in Nat \ {0}
    /\ MaxRetries \in Nat
    /\ NoFailure \notin FailureCodes
    /\ MaxResends \in Nat
    /\ MaxExecutes \in Nat

VARIABLES
    table,      \* the items DynamoDB stores
    done,       \* requests DynamoDB has committed, by client request token
    inflight,   \* requests on their way to DynamoDB
    operations, \* Builder.operations
    err,        \* Builder.err, "" when nil
    pc,         \* where Execute is, "ready" between calls
    attempt,    \* the retry counter of executeWithRetry
    token,      \* the number of the Execute call: its ClientRequestToken
    resends,    \* re-sends by the SDK since Execute was called
    reply,      \* what the SDK call is about to return
    answer,     \* what the last Execute returned
    since       \* history: the token when `operations' was last emptied, or
                \* its outcome last left in doubt

server  == <<table, done, inflight>>
builder == <<operations, err>>
call    == <<attempt, token, resends, reply>>
caller  == <<answer, since>>
vars    == <<table, done, inflight, operations, err, pc, attempt, token,
             resends, reply, answer, since>>

Reasons(ops) == [1..Len(ops) -> {NoFailure} \cup FailureCodes]

\* reply.reasons is empty unless the transaction was canceled.
OK        == [kind |-> "ok",        reasons |-> <<>>]
Transport == [kind |-> "transport", reasons |-> <<>>]
Invalid   == [kind |-> "invalid",   reasons |-> <<>>]
Canceled(r) == [kind |-> "canceled", reasons |-> r]

\* answer.index and answer.base are meaningful for a TransactionError only;
\* answer.reasons and answer.attempts record the reply behind it,
\* answer.resends how often the SDK re-sent the request.
Answer(kind) == [kind |-> kind, index |-> 0, base |-> "", reasons |-> <<>>,
                 attempts |-> 0, resends |-> 0]

Init ==
    /\ table = [k \in Keys |-> Absent]
    /\ done = {}
    /\ inflight = {}
    /\ operations = [b \in Builders |-> <<>>]
    /\ err = [b \in Builders |-> ""]
    /\ pc = [b \in Builders |-> "ready"]
    /\ attempt = [b \in Builders |-> 0]
    /\ token = [b \in Builders |-> 0]
    /\ resends = [b \in Builders |-> 0]
    /\ reply = [b \in Builders |-> OK]
    /\ answer = [b \in Builders |-> Answer("none")]
    /\ since = [b \in Builders |-> 0]

------------------------------------------------------------------------------
(***************************************************************************)
(* Composing.  Put, Create, Update, UpdateWithBuilder, Delete and          *)
(* ConditionCheck check their own arguments and call addOperation; the     *)
(* first error sticks and every later call is ignored.                     *)
(***************************************************************************)
\* Between two calls of Execute, of which the last is bounded.
Composing(b) == pc[b] = "ready" /\ token[b] < MaxExecutes

recordError(b, e) == err' = [err EXCEPT ![b] = IF @ = "" THEN e ELSE @]

\* Mutations: Create without its guard; a limit that admits one too many.
guardedUnguarded(op) == op
tooManyOffByOne(ops) == Len(ops) > maxTransactOperations

\* Create puts its guard in front of the caller's conditions.
guarded(op) ==
    IF op.typ = "Create"
    THEN [op EXCEPT !.conditions = op.conditions \cup {IfNotExists}]
    ELSE op

tooMany(ops) == Len(ops) >= maxTransactOperations

\* A nil model, an update without fields or function, a check without
\* conditions, a model the registry refuses.
addInvalid(b) ==
    /\ Composing(b)
    /\ recordError(b, "invalid")
    /\ UNCHANGED <<server, operations, pc, call, caller>>

addOperation(b, op) ==
    /\ Composing(b)
    /\ IF err[b] = "" /\ ~tooMany(operations[b])
       THEN /\ operations' = [operations EXCEPT ![b] = Append(@, guarded(op))]
            /\ UNCHANGED err
       ELSE /\ recordError(b, "tooMany")
            /\ UNCHANGED operations
    /\ UNCHANGED <<server, pc, call, caller>>

\* DB.Transact: the application drops its builder and takes a new one.
NewBuilder(b) ==
    /\ pc[b] = "ready"
    /\ operations' = [operations EXCEPT ![b] = <<>>]
    /\ err' = [err EXCEPT ![b] = ""]
    /\ since' = [since EXCEPT ![b] = token[b]]
    /\ UNCHANGED <<server, pc, call, answer>>

------------------------------------------------------------------------------
(***************************************************************************)
(* Execute.                                                                *)
(***************************************************************************)
\* The call's locals die with it.
Return(b, a) ==
    /\ pc' = [pc EXCEPT ![b] = "ready"]
    /\ answer' = [answer EXCEPT ![b] = [a EXCEPT !.resends = resends[b]]]
    /\ attempt' = [attempt EXCEPT ![b] = 0]
    /\ resends' = [resends EXCEPT ![b] = 0]
    /\ reply' = [reply EXCEPT ![b] = OK]

\* The early returns of ExecuteWithContext: a recorded error, no operations,
\* an operation that cannot be materialized.  Nothing is sent.
Unsendable(b) ==
    \/ err[b] # ""
    \/ operations[b] = <<>>
    \/ \E i \in 1..Len(operations[b]) : ~operations[b][i].buildable

ExecuteRefused(b) ==
    /\ Composing(b)
    /\ Unsendable(b)
    /\ Return(b, Answer("refused"))
    /\ UNCHANGED <<server, builder, token, since>>

\* Mutation: every call reuses the first request token.
ExecuteSameToken(b) ==
    /\ Composing(b)
    /\ ~Unsendable(b)
    /\ pc' = [pc EXCEPT ![b] = "send"]
    /\ UNCHANGED <<server, builder, call, caller>>

\* A fresh request token per call, kept over the retries of the call.
Execute(b) ==
    /\ Composing(b)
    /\ ~Unsendable(b)
    /\ token' = [token EXCEPT ![b] = @ + 1]
    /\ pc' = [pc EXCEPT ![b] = "send"]
    /\ UNCHANGED <<server, builder, attempt, resends, reply, caller>>

\* The client is taken from the session before the first request.
ClientUnavailable(b) ==
    /\ pc[b] = "send"
    /\ attempt[b] = 0
    /\ Return(b, Answer("refused"))
    /\ UNCHANGED <<server, builder, token, since>>

\* The request of the running Execute.  Every time it is sent is one more copy
\* of it, the earlier ones may still be under way.
Request(b) == [from |-> b, token |-> token[b], ops |-> operations[b],
               copy |-> attempt[b] + resends[b]]

Send(b) ==
    /\ pc[b] = "send"
    /\ pc' = [pc EXCEPT ![b] = "sent"]
    /\ inflight' = inflight \cup {Request(b)}
    /\ UNCHANGED <<table, done, builder, call, caller>>

isRetryableReason(code) ==
    code \in {"TransactionConflict", "ProvisionedThroughputExceeded",
              "ThrottlingError", "InternalServerError"}

\* translateError: every code that is present must be retryable.
retryable(reasons) ==
    \A i \in 1..Len(reasons) :
        reasons[i] = NilCode \/ isRetryableReason(reasons[i])

First(S) == CHOOSE i \in S : \A j \in S : i <= j

Coded(reasons) == {i \in 1..Len(reasons) : reasons[i] # NilCode}

\* buildTransactionError: the first operation with a code is blamed, 0 if
\* there is none (indices count from 1 here, from 0 in the code).
blamed(reasons) == IF Coded(reasons) = {} THEN 0 ELSE First(Coded(reasons))

baseError(code) == IF code = "ConditionalCheckFailed"
                   THEN "ErrConditionFailed" ELSE "ErrTransactionFailed"

TransactionError(reasons, attempts) ==
    [ kind     |-> "canceled",
      index    |-> blamed(reasons),
      base     |-> IF blamed(reasons) = 0 THEN ""
                   ELSE baseError(reasons[blamed(reasons)]),
      reasons  |-> reasons,
      attempts |-> attempts,
      resends  |-> 0 ]

\* Mutation: a committed builder keeps its operations.
SucceedKeeping(b) ==
    /\ pc[b] = "answered"
    /\ reply[b].kind = "ok"
    /\ Return(b, Answer("ok"))
    /\ UNCHANGED <<server, builder, token, since>>

Succeed(b) ==
    /\ pc[b] = "answered"
    /\ reply[b].kind = "ok"
    /\ Return(b, Answer("ok"))
    /\ operations' = [operations EXCEPT ![b] = <<>>]
    /\ since' = [since EXCEPT ![b] = token[b]]
    /\ UNCHANGED <<server, err, token>>

\* After a transport error, and after a re-send, nobody can know.
InDoubt(b, doubt) ==
    since' = [since EXCEPT ![b] = IF doubt \/ resends[b] > 0 THEN token[b] ELSE @]

\* Mutation: a request without an answer is reported as one that was refused.
FailOtherAsInvalid(b) ==
    /\ pc[b] = "answered"
    /\ reply[b].kind \in {"transport", "invalid"}
    /\ Return(b, Answer("invalid"))
    /\ InDoubt(b, reply[b].kind = "transport")
    /\ UNCHANGED <<server, builder, token>>

\* Any error but a cancellation goes to the caller as it is.
FailOther(b) ==
    /\ pc[b] = "answered"
    /\ reply[b].kind \in {"transport", "invalid"}
    /\ Return(b, Answer(reply[b].kind))
    /\ InDoubt(b, reply[b].kind = "transport")
    /\ UNCHANGED <<server, builder, token>>

FailCanceled(b) ==
    /\ pc[b] = "answered"
    /\ reply[b].kind = "canceled"
    /\ ~retryable(reply[b].reasons) \/ attempt[b] >= MaxRetries
    /\ Return(b, TransactionError(reply[b].reasons, attempt[b]))
    /\ InDoubt(b, FALSE)
    /\ UNCHANGED <<server, builder, token>>

\* Mutation: the retry counter never moves.
BackoffUncounted(b) ==
    /\ pc[b] = "answered"
    /\ reply[b].kind = "canceled"
    /\ retryable(reply[b].reasons) /\ attempt[b] < MaxRetries
    /\ pc' = [pc EXCEPT ![b] = "backoff"]
    /\ reply' = [reply EXCEPT ![b] = OK]
    /\ UNCHANGED <<server, builder, attempt, token, resends, caller>>

Backoff(b) ==
    /\ pc[b] = "answered"
    /\ reply[b].kind = "canceled"
    /\ retryable(reply[b].reasons) /\ attempt[b] < MaxRetries
    /\ attempt' = [attempt EXCEPT ![b] = @ + 1]
    /\ pc' = [pc EXCEPT ![b] = "backoff"]
    /\ reply' = [reply EXCEPT ![b] = OK]
    /\ UNCHANGED <<server, builder, token, resends, caller>>

Retry(b) ==
    /\ pc[b] = "backoff"
    /\ pc' = [pc EXCEPT ![b] = "send"]
    /\ UNCHANGED <<server, builder, call, caller>>

ContextDone(b) ==
    /\ pc[b] = "backoff"
    /\ Return(b, Answer("context"))
    /\ InDoubt(b, FALSE)
    /\ UNCHANGED <<server, builder, token>>

------------------------------------------------------------------------------
(***************************************************************************)
(* External: DynamoDB and the SDK.  The reply to a request reaches the     *)
(* builder if it still waits for that copy; a copy given up on may arrive  *)
(* all the same, also after a later one.                                   *)
(***************************************************************************)
ReplyTo(m, r) ==
    IF pc[m.from] = "sent" /\ m = Request(m.from)
    THEN /\ pc' = [pc EXCEPT ![m.from] = "answered"]
         /\ reply' = [reply EXCEPT ![m.from] = r]
    ELSE UNCHANGED <<pc, reply>>

Handled(m) ==
    /\ inflight' = inflight \ {m}
    /\ UNCHANGED <<builder, attempt, token, resends, caller>>

Id(m) == <<m.from, m.token>>

ServerCommit(m) ==
    /\ Id(m) \notin done
    /\ DistinctKeys(m.ops) /\ AllHold(m.ops, table)
    /\ table' = Apply(m.ops, table)
    /\ done' = done \cup {Id(m)}
    /\ ReplyTo(m, OK)
    /\ Handled(m)

\* A token already committed is answered without applying it again.
ServerReplay(m) ==
    /\ Id(m) \in done
    /\ ReplyTo(m, OK)
    /\ Handled(m)
    /\ UNCHANGED <<table, done>>

ServerReject(m) ==
    /\ Id(m) \notin done
    /\ ~DistinctKeys(m.ops)
    /\ ReplyTo(m, Invalid)
    /\ Handled(m)
    /\ UNCHANGED <<table, done>>

\* Conflicts and throttling strike at will, condition failures only where a
\* condition fails; there is one code per operation.
ServerCancel(m) ==
    /\ Id(m) \notin done
    /\ DistinctKeys(m.ops)
    /\ \E r \in Reasons(m.ops) :
        /\ \E i \in 1..Len(m.ops) : r[i] # NoFailure
        /\ \A i \in 1..Len(m.ops) :
              r[i] = "ConditionalCheckFailed" => ~Holds(m.ops[i], table)
        /\ ReplyTo(m, Canceled(r))
    /\ Handled(m)
    /\ UNCHANGED <<table, done>>

LoseRequest(m) ==
    /\ Handled(m)
    /\ UNCHANGED <<table, done, pc, reply>>

LoseReply(b) ==
    /\ pc[b] = "answered"
    /\ reply[b].kind # "transport"
    /\ pc' = [pc EXCEPT ![b] = "sent"]
    /\ reply' = [reply EXCEPT ![b] = OK]
    /\ UNCHANGED <<server, builder, attempt, token, resends, caller>>

Resend(b) ==
    /\ pc[b] = "sent"
    /\ resends[b] < MaxResends
    /\ inflight' = inflight \cup {[Request(b) EXCEPT !.copy = Request(b).copy + 1]}
    /\ resends' = [resends EXCEPT ![b] = @ + 1]
    /\ UNCHANGED <<table, done, builder, pc, attempt, token, reply, caller>>

\* The SDK's retries or the context's deadline run out.
GiveUp(b) ==
    /\ pc[b] = "sent"
    /\ pc' = [pc EXCEPT ![b] = "answered"]
    /\ reply' = [reply EXCEPT ![b] = Transport]
    /\ UNCHANGED <<server, builder, attempt, token, resends, caller>>

------------------------------------------------------------------------------
Compose(b) == addInvalid(b) \/ (\E op \in Calls : addOperation(b, op)) \/ NewBuilder(b)

Run(b) ==
    \/ ExecuteRefused(b) \/ Execute(b)
    \/ ClientUnavailable(b) \/ Send(b)
    \/ Succeed(b) \/ FailOther(b) \/ FailCanceled(b) \/ Backoff(b)
    \/ Retry(b) \/ ContextDone(b)

Network(b) == LoseReply(b) \/ Resend(b) \/ GiveUp(b)

Service(m) == \/ ServerCommit(m) \/ ServerReplay(m) \/ ServerReject(m)
              \/ ServerCancel(m) \/ LoseRequest(m)

Next ==
    \/ \E b \in Builders : Compose(b) \/ Run(b) \/ Network(b)
    \/ \E m \in inflight : Service(m)

Spec == Init /\ [][Next]_vars

\* A goroutine inside Execute keeps running, and the SDK call it waits in
\* returns sooner or later; whether to call Execute is up to the application.
Fairness ==
    \A b \in Builders : /\ WF_vars(pc[b] # "ready" /\ Run(b))
                        /\ WF_vars(GiveUp(b))

FairSpec == Spec /\ Fairness

------------------------------------------------------------------------------
\* The builder never holds more operations than DynamoDB accepts in one
\* transaction, nor retries more often than the schedule is long.
TypeOK ==
    /\ table \in [Keys -> Items]
    /\ done \subseteq Builders \X (1..MaxExecutes)
    /\ inflight \subseteq [from : Builders, token : 1..MaxExecutes,
                           ops : Seq(Operations), copy : 0..(MaxRetries + MaxResends)]
    /\ operations \in [Builders -> Seq(Operations)]
    /\ \A b \in Builders : Len(operations[b]) <= maxTransactOperations
    /\ err \in [Builders -> {"", "invalid", "tooMany"}]
    /\ pc \in [Builders -> {"ready", "send", "sent", "answered", "backoff"}]
    /\ attempt \in [Builders -> 0..MaxRetries]
    /\ token \in [Builders -> 0..MaxExecutes]
    /\ resends \in [Builders -> 0..MaxResends]
    /\ \A b \in Builders :
          reply[b].kind \in {"ok", "transport", "invalid", "canceled"}
    /\ \A b \in Builders :
          answer[b].kind \in {"none", "refused", "ok", "transport", "invalid",
                              "canceled", "context"}
    /\ since \in [Builders -> 0..MaxExecutes]

\* What Execute tells its caller about its own request is true: nil means it
\* was committed; a cancellation, a validation error or an expired back-off
\* means it was not, and that nothing of it is left that could still commit,
\* unless the SDK re-sent the request: then an old copy may.
Concluded(b) == pc[b] = "ready" /\ answer[b].kind \notin {"none", "refused"}

TruthfulAnswer ==
    /\ TypeOK
    /\ \A b \in Builders :
        Concluded(b) =>
            /\ answer[b].kind = "ok" => <<b, token[b]>> \in done
            /\ answer[b].kind \in {"canceled", "invalid", "context"}
                 /\ answer[b].resends = 0 =>
                  /\ <<b, token[b]>> \notin done
                  /\ \A m \in inflight : Id(m) # <<b, token[b]>>

\* The builder, with all its retries over a network that loses, delays and
\* duplicates requests, implements the plain transaction store: see
\* TransactStore.
Waiting(b) == pc[b] # "ready"

AbstractAnswer ==
    [ b \in Builders |->
        IF answer[b].kind \in {"none", "ok"} THEN answer[b].kind
        ELSE IF answer[b].kind = "transport" \/ answer[b].resends > 0 THEN "unknown"
        ELSE "failed" ]

Undecided ==
    { [id |-> Id(m), ops |-> m.ops] :
        m \in {r \in inflight \cup {Request(b) : b \in {c \in Builders : Waiting(c)}} :
                  Id(r) \notin done} }

Store == INSTANCE TransactStore WITH
    Clients   <- Builders,
    open      <- Undecided,
    committed <- done,
    current   <- [b \in Builders |-> IF Waiting(b) THEN token[b] ELSE 0],
    answer    <- AbstractAnswer

ImplementsStore == Store!Spec

\* However a builder is reused, its list of operations commits at most once
\* unless an outcome was left in doubt.
AppliedAtMostOnce ==
    \A b \in Builders :
        \A s, t \in (since[b] + 1)..token[b] :
            <<b, s>> \in done /\ <<b, t>> \in done => s = t

\* A committed Create found no item under its key: two builders racing to
\* create one item never both succeed, whatever is re-sent or retried.
CreateNeverOverwrites ==
    [][\A m \in inflight :
          Id(m) \in done' \ done =>
              \A i \in 1..Len(m.ops) :
                  m.ops[i].typ = "Create" => table[m.ops[i].key] = Absent]_vars

\* Every Execute returns, however often DynamoDB cancels the transaction.
ExecuteReturns ==
    \A b \in Builders : pc[b] # "ready" ~> pc[b] = "ready"

(***************************************************************************)
(* What a cancellation is reported as.                                     *)
(***************************************************************************)
Failed(a) == {i \in 1..Len(a.reasons) : a.reasons[i] # NoFailure}

\* "detailed TransactionError reporting with automatic retries for transient
\* cancellation reasons" (CHANGELOG.md:245): OperationIndex names an operation
\* that failed; a transaction canceled for transient reasons only is given up on
\* no sooner than the retry schedule is used up; and errors.Is(err,
\* ErrConditionFailed) holds when failed conditions alone canceled it.  The code
\* takes the "None" of an operation that did not fail for a failure
\* (builder.go:834-853).
CancellationExact ==
    \A b \in Builders :
        LET a == answer[b]
            codes == {a.reasons[i] : i \in Failed(a)}
        IN  a.kind = "canceled" =>
                /\ a.index \in Failed(a)
                /\ (\A c \in codes : isRetryableReason(c)) => a.attempts = MaxRetries
                /\ codes = {"ConditionalCheckFailed"} => a.base = "ErrConditionFailed"
==============================================================================
