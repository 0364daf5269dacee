----------------------- MODULE TransactionBuilderProofs -----------------------
(***************************************************************************)
(* The safety of TransactionBuilder, and that it implements TransactStore, *)
(* for any number of builders, keys, calls, retries, re-sends and Execute  *)
(* calls.                                                                  *)
(***************************************************************************)
EXTENDS TransactionBuilder, WellFoundedInduction, TLAPS

Codes == {NoFailure} \cup FailureCodes

Replies == [kind : {"ok", "transport", "invalid", "canceled"}, reasons : Seq(Codes)]

Answers == [kind : {"none", "refused", "ok", "transport", "invalid", "canceled",
                    "context"},
            index : Nat, base : {"", "ErrConditionFailed", "ErrTransactionFailed"},
            reasons : Seq(Codes), attempts : 0..MaxRetries, resends : 0..MaxResends]

\* TypeOK says of a reply and of an answer only what kind it is.
Typed ==
    /\ TypeOK
    /\ reply \in [Builders -> Replies]
    /\ answer \in [Builders -> Answers]

\* Every Create carries its guard, in the builder and on the wire.
AllGuarded(ops) ==
    \A i \in 1..Len(ops) :
        ops[i].typ = "Create" => IfNotExists \in ops[i].conditions

Guarded ==
    /\ \A b \in Builders : AllGuarded(operations[b])
    /\ \A m \in inflight : AllGuarded(m.ops)

\* No token is used before its Execute call.
Numbered ==
    /\ \A b \in Builders : since[b] <= token[b]
    /\ \A b \in Builders : \A t \in 1..MaxExecutes : <<b, t>> \in done => t <= token[b]
    /\ \A m \in inflight : m.token <= token[m.from]

\* All copies of a request carry the same operations, those of the builder
\* while it waits.
Copies ==
    /\ \A m, n \in inflight : Id(m) = Id(n) => m.ops = n.ops
    /\ \A m \in inflight :
          Waiting(m.from) /\ m.token = token[m.from] => m.ops = operations[m.from]

\* The counters of a call start at zero.
Counters ==
    \A b \in Builders :
        /\ pc[b] = "ready" => attempt[b] = 0 /\ resends[b] = 0
        /\ pc[b] = "send" /\ attempt[b] = 0 => resends[b] = 0
        /\ pc[b] = "backoff" => attempt[b] > 0
        /\ Waiting(b) => token[b] > 0

\* A request that was not committed and of which no copy is left.
Gone(b, t) == \A m \in inflight : Id(m) # <<b, t>>
Dead(b, t) == <<b, t>> \notin done /\ Gone(b, t)

\* Where Execute has read a refusal, as long as the SDK re-sent nothing.
Refused(b) ==
    \/ pc[b] \in {"send", "backoff"}
    \/ pc[b] = "answered" /\ reply[b].kind \in {"invalid", "canceled"}

\* What a running Execute knows of its request.
Progress ==
    \A b \in Builders :
        /\ pc[b] = "answered" /\ reply[b].kind = "ok" => <<b, token[b]>> \in done
        /\ resends[b] = 0 /\ Refused(b) => Dead(b, token[b])
        /\ resends[b] = 0 /\ pc[b] = "answered" /\ reply[b].kind = "ok"
              => Gone(b, token[b])
        /\ resends[b] = 0 /\ pc[b] = "sent"
              => \A m \in inflight : Id(m) = <<b, token[b]>> => m.copy = attempt[b]

\* The requests of this list of operations that ended without doubt are dead.
Settled ==
    \A b \in Builders : \A t \in 1..MaxExecutes :
        since[b] < t /\ t <= token[b] /\ (t < token[b] \/ pc[b] = "ready")
            => Dead(b, t)

Truthful ==
    \A b \in Builders :
        Concluded(b) =>
            /\ answer[b].kind = "ok" => <<b, token[b]>> \in done
            /\ answer[b].kind \in {"canceled", "invalid", "context"}
                 /\ answer[b].resends = 0 => Dead(b, token[b])

IInv ==
    /\ Typed
    /\ Guarded
    /\ Numbered
    /\ Copies
    /\ Counters
    /\ Progress
    /\ Settled
    /\ Truthful
------------------------------------------------------------------------------
(***************************************************************************)
(* The operators.                                                          *)
(***************************************************************************)
\* A committed transaction leaves items behind.
LEMMA ApplyType ==
    ASSUME NEW ops \in Seq(Operations), NEW t \in [Keys -> Items]
    PROVE  Apply(ops, t) \in [Keys -> Items]
<1>. SUFFICES ASSUME NEW k \in Keys
              PROVE  Apply(ops, t)[k] \in Items
  BY DEF Apply
<1>1. CASE \E i \in 1..Len(ops) : ops[i].key = k
  <2>. DEFINE j == CHOOSE i \in 1..Len(ops) : ops[i].key = k
  <2>1. j \in 1..Len(ops)
    BY <1>1
  <2>2. ops[j] \in Operations
    BY <2>1
  <2>3. Apply(ops, t)[k] = After(ops[j], t[k])
    BY <1>1 DEF Apply
  <2>. QED
    BY <2>2, <2>3 DEF After, Operations, Items, Values, Absent
<1>2. CASE ~\E i \in 1..Len(ops) : ops[i].key = k
  BY <1>2 DEF Apply
<1>. QED
  BY <1>1, <1>2

\* The operation a call adds is one DynamoDB accepts, and guarded.
LEMMA GuardedType ==
    ASSUME NEW op \in Calls
    PROVE  /\ guarded(op) \in Operations
           /\ guarded(op).typ = "Create" => IfNotExists \in guarded(op).conditions
<1>1. op \in Operations /\ IfNotExists \in Conditions
  BY TransactionBuilderAssumption DEF Conditions
<1>. QED
  BY <1>1 DEF guarded, Operations

\* A nonempty set of positions has a first one.
LEMMA FirstIsLeast ==
    ASSUME NEW S \in SUBSET Nat, S # {}
    PROVE  First(S) \in S
<1>. DEFINE R == OpToRel(<, Nat)
<1>1. IsWellFoundedOn(R, Nat)
  BY NatLessThanWellFounded, Zenon
<1>2. \E x \in S : \A y \in S : <<y, x>> \notin R
  BY <1>1, WFMin, Zenon
<1>3. \A x, y \in Nat : y < x => <<y, x>> \in R
  BY DEF OpToRel
<1>4. PICK x \in S : \A y \in S : <<y, x>> \notin R
  BY <1>2, Zenon
<1>5. \A y \in S : ~(y < x)
  BY <1>3, <1>4, Zenon
<1>6. \A y \in S : x <= y
  BY <1>5
<1>. QED
  BY <1>6 DEF First

LEMMA BlamedType ==
    ASSUME NEW reasons \in Seq(Codes)
    PROVE  /\ blamed(reasons) \in Nat
           /\ Coded(reasons) # {} => blamed(reasons) \in Coded(reasons) /\ blamed(reasons) # 0
<1>1. Coded(reasons) \in SUBSET Nat /\ 0 \notin Coded(reasons)
  BY DEF Coded
<1>. QED
  BY <1>1, FirstIsLeast DEF blamed

\* What an answer is built of.
LEMMA AnswerTypes ==
    /\ OK \in Replies /\ Transport \in Replies /\ Invalid \in Replies
    /\ \A r \in Seq(Codes) : Canceled(r) \in Replies
    /\ \A k \in {"none", "refused", "ok", "transport", "invalid", "context"} :
          Answer(k) \in Answers /\ Answer(k).kind = k
    /\ \A r \in Seq(Codes), n \in 0..MaxRetries : TransactionError(r, n) \in Answers
<1>. USE TransactionBuilderAssumption
<1>1. /\ OK \in Replies /\ Transport \in Replies /\ Invalid \in Replies
      /\ \A r \in Seq(Codes) : Canceled(r) \in Replies
  BY DEF OK, Transport, Invalid, Canceled, Replies
<1>2. \A k \in {"none", "refused", "ok", "transport", "invalid", "context"} :
          Answer(k) \in Answers /\ Answer(k).kind = k
  BY DEF Answer, Answers
<1>3. ASSUME NEW r \in Seq(Codes), NEW n \in 0..MaxRetries
      PROVE  TransactionError(r, n) \in Answers
  <2>1. blamed(r) \in Nat
    BY BlamedType
  <2>. QED
    BY <2>1 DEF TransactionError, Answers, baseError
<1>. QED
  BY <1>1, <1>2, <1>3
------------------------------------------------------------------------------
LEMMA InitIInv == Init => IInv
<1>. SUFFICES ASSUME Init PROVE IInv
  OBVIOUS
<1>1. /\ done = {} /\ inflight = {}
      /\ err \in [Builders -> {""}] /\ pc \in [Builders -> {"ready"}]
  BY DEF Init
<1>2. /\ attempt \in [Builders -> {0}] /\ token \in [Builders -> {0}]
      /\ resends \in [Builders -> {0}] /\ since \in [Builders -> {0}]
  BY DEF Init
<1>3. /\ reply \in [Builders -> Replies] /\ answer \in [Builders -> Answers]
      /\ \A b \in Builders : reply[b].kind = "ok" /\ answer[b].kind = "none"
  BY AnswerTypes DEF Init, OK
<1>4. /\ operations \in [Builders -> Seq(Operations)]
      /\ \A b \in Builders : Len(operations[b]) = 0
  <2>1. <<>> \in Seq(Operations) /\ Len(<<>>) = 0
    OBVIOUS
  <2>2. \A b \in Builders : operations[b] = <<>>
    BY DEF Init
  <2>3. operations \in [Builders -> Seq(Operations)]
    BY <2>1 DEF Init
  <2>4. \A b \in Builders : Len(operations[b]) = 0
    BY <2>1, <2>2, Zenon
  <2>. QED
    BY <2>3, <2>4
<1>5. Typed
  <2>1. table \in [Keys -> Items]
    BY DEF Init, Items
  <2>2. /\ attempt \in [Builders -> 0..MaxRetries] /\ token \in [Builders -> 0..MaxExecutes]
        /\ resends \in [Builders -> 0..MaxResends] /\ since \in [Builders -> 0..MaxExecutes]
    BY <1>2, TransactionBuilderAssumption
  <2>3. \A b \in Builders : Len(operations[b]) <= maxTransactOperations
    BY <1>4, TransactionBuilderAssumption
  <2>. QED
    BY <1>1, <1>3, <1>4, <2>1, <2>2, <2>3 DEF Typed, TypeOK
<1>6. \A b \in Builders : /\ pc[b] = "ready" /\ attempt[b] = 0 /\ resends[b] = 0
                           /\ since[b] = 0 /\ token[b] = 0
  BY <1>1, <1>2
<1>7. MaxExecutes \in Nat
  BY TransactionBuilderAssumption
<1>8. \A b \in Builders : \A t \in 1..MaxExecutes : ~(t <= token[b])
  BY <1>6, <1>7
<1>9. Guarded
  <2>1. \A b \in Builders : \A i \in 1..Len(operations[b]) : FALSE
    BY <1>4
  <2>. QED
    BY <1>1, <2>1, Zenon DEF Guarded, AllGuarded
<1>10. Numbered
  <2>1. \A b \in Builders : since[b] <= token[b]
    BY <1>6
  <2>2. \A id : id \notin done /\ id \notin inflight
    BY <1>1
  <2>. QED
    BY <2>1, <2>2, Zenon DEF Numbered
<1>11. Copies /\ Counters
  BY <1>1, <1>6 DEF Copies, Counters, Waiting
<1>12. Progress
  BY <1>1, <1>6 DEF Progress, Refused
<1>13. Settled
  BY <1>8 DEF Settled
<1>14. Truthful
  BY <1>1, <1>6, <1>3 DEF Truthful, Concluded
<1>. QED
  BY <1>5, <1>9, <1>10, <1>11, <1>12, <1>13, <1>14 DEF IInv

------------------------------------------------------------------------------
(***************************************************************************)
(* What the actions have in common.  A request that the service handles is *)
(* gone, committed perhaps, and answered if the builder waits for it.      *)
(***************************************************************************)
Reply(m, r) ==
    /\ pc' = [pc EXCEPT ![m.from] = "answered"]
    /\ reply' = [reply EXCEPT ![m.from] = r]
    /\ \/ r.kind = "ok" /\ Id(m) \in done'
       \/ r.kind \in {"invalid", "canceled"} /\ Id(m) \notin done /\ done' = done

ServiceStep(m) ==
    /\ table' \in [Keys -> Items]
    /\ inflight' = inflight \ {m}
    /\ \/ done' = done /\ table' = table
       \/ /\ done' = done \cup {Id(m)} /\ Id(m) \notin done
          /\ DistinctKeys(m.ops) /\ AllHold(m.ops, table)
          /\ table' = Apply(m.ops, table)
    /\ UNCHANGED <<builder, attempt, token, resends, caller>>
    /\ \/ UNCHANGED <<pc, reply>>
       \/ /\ pc[m.from] = "sent" /\ m = Request(m.from)
          /\ \E r \in Replies : Reply(m, r)

LEMMA ServiceSteps ==
    ASSUME Typed, NEW m \in inflight, Service(m)
    PROVE  ServiceStep(m) /\ m.ops \in Seq(Operations) /\ m.from \in Builders
<1>1. m.ops \in Seq(Operations) /\ m.from \in Builders /\ table \in [Keys -> Items]
  BY DEF Typed, TypeOK
<1>2. CASE ServerCommit(m)
  <2>1. table' \in [Keys -> Items]
    BY <1>1, <1>2, ApplyType DEF ServerCommit
  <2>2. OK \in Replies /\ OK.kind = "ok"
    BY AnswerTypes DEF OK
  <2>3. \/ UNCHANGED <<pc, reply>>
        \/ pc[m.from] = "sent" /\ m = Request(m.from) /\ Reply(m, OK)
    BY <1>2, <2>2 DEF ServerCommit, ReplyTo, Reply
  <2>. QED
    BY <1>1, <1>2, <2>1, <2>2, <2>3 DEF ServerCommit, Handled, ServiceStep
<1>3. CASE ServerReplay(m)
  <2>2. OK \in Replies /\ OK.kind = "ok"
    BY AnswerTypes DEF OK
  <2>3. \/ UNCHANGED <<pc, reply>>
        \/ pc[m.from] = "sent" /\ m = Request(m.from) /\ Reply(m, OK)
    BY <1>3, <2>2 DEF ServerReplay, ReplyTo, Reply
  <2>. QED
    BY <1>1, <1>3, <2>2, <2>3 DEF ServerReplay, Handled, ServiceStep
<1>4. CASE ServerReject(m)
  <2>2. Invalid \in Replies /\ Invalid.kind = "invalid"
    BY AnswerTypes DEF Invalid
  <2>3. \/ UNCHANGED <<pc, reply>>
        \/ pc[m.from] = "sent" /\ m = Request(m.from) /\ Reply(m, Invalid)
    BY <1>4, <2>2 DEF ServerReject, ReplyTo, Reply
  <2>. QED
    BY <1>1, <1>4, <2>2, <2>3 DEF ServerReject, Handled, ServiceStep
<1>5. CASE ServerCancel(m)
  <2>1. PICK r \in Reasons(m.ops) : ReplyTo(m, Canceled(r))
    BY <1>5 DEF ServerCancel
  <2>2. r \in Seq(Codes) /\ Len(r) = Len(m.ops)
    BY <1>1 DEF Reasons, Codes
  <2>3. Canceled(r) \in Replies /\ Canceled(r).kind = "canceled" /\ Canceled(r).reasons = r
    BY <2>2, AnswerTypes DEF Canceled
  <2>4. \/ UNCHANGED <<pc, reply>>
        \/ pc[m.from] = "sent" /\ m = Request(m.from) /\ Reply(m, Canceled(r))
    BY <1>5, <2>1, <2>2, <2>3 DEF ServerCancel, ReplyTo, Reply
  <2>. QED
    BY <1>1, <1>5, <2>3, <2>4 DEF ServerCancel, Handled, ServiceStep
<1>6. CASE LoseRequest(m)
  BY <1>1, <1>6 DEF LoseRequest, Handled, ServiceStep
<1>. QED
  BY <1>1, <1>2, <1>3, <1>4, <1>5, <1>6 DEF Service

\* Execute returns: what it says of its request is true, and unless the
\* outcome is recorded as in doubt nothing of the request is left.
ReturnStep(b, a) ==
    /\ Return(b, a)
    /\ UNCHANGED <<server, err, token>>
    /\ operations' \in {operations, [operations EXCEPT ![b] = <<>>]}
    /\ since' \in {since, [since EXCEPT ![b] = token[b]]}
    /\ since'[b] = token[b] \/ Dead(b, token[b])
    /\ a.kind # "none"
    /\ pc[b] = "ready" => a.kind = "refused" /\ operations' = operations
    /\ Waiting(b) /\ a.kind = "refused" => resends[b] = 0 /\ Dead(b, token[b])
    /\ a.kind = "ok" => <<b, token[b]>> \in done
    /\ a.kind \in {"canceled", "invalid", "context"} /\ resends[b] = 0
          => Dead(b, token[b])

\* The actions in which Execute returns.
Returns(b) ==
    \/ ExecuteRefused(b) \/ ClientUnavailable(b)
    \/ Succeed(b) \/ FailOther(b) \/ FailCanceled(b) \/ ContextDone(b)

LEMMA ReturnSteps ==
    ASSUME IInv, NEW b \in Builders, Returns(b)
    PROVE  \E a \in Answers : ReturnStep(b, a)
<1>. USE DEF IInv, Typed
<1>a. /\ pc[b] \in {"ready", "send", "sent", "answered", "backoff"}
      /\ reply[b] \in Replies /\ reply[b].reasons \in Seq(Codes) /\ attempt[b] \in 0..MaxRetries
      /\ token[b] \in 0..MaxExecutes /\ since[b] \in 0..MaxExecutes /\ resends[b] \in 0..MaxResends
      /\ since \in [Builders -> 0..MaxExecutes]
  BY DEF TypeOK, Replies
<1>b. \A k \in {"none", "refused", "ok", "transport", "invalid", "context"} :
          Answer(k) \in Answers /\ Answer(k).kind = k
  BY AnswerTypes
<1>c. resends[b] = 0 /\ Refused(b) => Dead(b, token[b])
  BY DEF Progress
<1>d. ASSUME NEW d \in BOOLEAN, InDoubt(b, d)
      PROVE  /\ since' \in {since, [since EXCEPT ![b] = token[b]]}
             /\ since'[b] = token[b] \/ (~d /\ resends[b] = 0)
  <2>1. CASE d \/ resends[b] > 0
    BY <1>a, <1>d, <2>1 DEF InDoubt
  <2>2. CASE ~(d \/ resends[b] > 0)
    <3>1. since' = since
      BY <1>a, <1>d, <2>2 DEF InDoubt
    <3>. QED
      BY <1>a, <2>2, <3>1
  <2>. QED
    BY <2>1, <2>2
<1>1. CASE ExecuteRefused(b)
  <2>1. pc[b] = "ready" /\ since[b] <= token[b]
    BY <1>1 DEF ExecuteRefused, Composing, Numbered
  <2>2. since[b] = token[b] \/ Dead(b, token[b])
    BY <1>a, <2>1 DEF Settled
  <2>. QED
    BY <1>b, <1>1, <2>1, <2>2 DEF ExecuteRefused, ReturnStep, builder, Waiting
<1>2. CASE ClientUnavailable(b)
  <2>1. Dead(b, token[b]) /\ resends[b] = 0 /\ pc[b] # "ready"
    BY <1>2, <1>c DEF ClientUnavailable, Counters, Refused
  <2>. QED
    BY <1>b, <1>2, <2>1 DEF ClientUnavailable, ReturnStep, builder
<1>3. CASE Succeed(b)
  <2>1. <<b, token[b]>> \in done
    BY <1>3 DEF Succeed, Progress
  <2>. QED
    BY <1>a, <1>b, <1>3, <2>1 DEF Succeed, ReturnStep, Waiting
<1>4. CASE FailOther(b)
  <2>1. resends[b] = 0 /\ reply[b].kind = "invalid" => Dead(b, token[b])
    BY <1>4, <1>c DEF FailOther, Refused
  <2>2. /\ since' \in {since, [since EXCEPT ![b] = token[b]]}
        /\ since'[b] = token[b] \/ (reply[b].kind # "transport" /\ resends[b] = 0)
    BY <1>4, <1>d DEF FailOther
  <2>3. reply[b].kind \in {"transport", "invalid"}
    BY <1>4 DEF FailOther
  <2>. QED
    BY <1>b, <1>4, <2>1, <2>2, <2>3 DEF FailOther, ReturnStep, builder, Waiting
<1>5. CASE FailCanceled(b)
  <2>1. resends[b] = 0 => Dead(b, token[b])
    BY <1>5, <1>c DEF FailCanceled, Refused
  <2>2. /\ since' \in {since, [since EXCEPT ![b] = token[b]]}
        /\ since'[b] = token[b] \/ resends[b] = 0
    BY <1>5, <1>d DEF FailCanceled
  <2>3. /\ TransactionError(reply[b].reasons, attempt[b]) \in Answers
        /\ TransactionError(reply[b].reasons, attempt[b]).kind = "canceled"
    BY <1>a, AnswerTypes DEF TransactionError
  <2>. QED
    BY <1>5, <2>1, <2>2, <2>3 DEF FailCanceled, ReturnStep, builder, Waiting
<1>6. CASE ContextDone(b)
  <2>1. resends[b] = 0 => Dead(b, token[b])
    BY <1>6, <1>c DEF ContextDone, Refused
  <2>2. /\ since' \in {since, [since EXCEPT ![b] = token[b]]}
        /\ since'[b] = token[b] \/ resends[b] = 0
    BY <1>6, <1>d DEF ContextDone
  <2>. QED
    BY <1>b, <1>6, <2>1, <2>2 DEF ContextDone, ReturnStep, builder, Waiting
<1>. QED
  BY <1>1, <1>2, <1>3, <1>4, <1>5, <1>6 DEF Returns
------------------------------------------------------------------------------
(***************************************************************************)
(* The inductive invariant.                                                *)
(***************************************************************************)
\* The counters are numbers.
LEMMA Numbers ==
    ASSUME Typed
    PROVE  /\ MaxExecutes \in Nat /\ MaxRetries \in Nat /\ MaxResends \in Nat
           /\ token \in [Builders -> Nat] /\ since \in [Builders -> Nat]
           /\ attempt \in [Builders -> Nat] /\ resends \in [Builders -> Nat]
           /\ \A c \in Builders : token[c] <= MaxExecutes
<1>1. MaxExecutes \in Nat /\ MaxRetries \in Nat /\ MaxResends \in Nat
  BY TransactionBuilderAssumption
<1>2. /\ token \in [Builders -> 0..MaxExecutes] /\ since \in [Builders -> 0..MaxExecutes]
      /\ attempt \in [Builders -> 0..MaxRetries] /\ resends \in [Builders -> 0..MaxResends]
  BY DEF Typed, TypeOK
<1>. QED
  BY <1>1, <1>2

\* A builder's list stays within the limit and guarded, whether it is left
\* alone, emptied or added to.
OperationsStep(b) ==
    /\ operations' \in [Builders -> Seq(Operations)]
    /\ \A c \in Builders : Len(operations'[c]) <= maxTransactOperations
    /\ \A c \in Builders : c # b => operations'[c] = operations[c]
    /\ \A c \in Builders : AllGuarded(operations'[c])

LEMMA SameOperations ==
    ASSUME Typed, Guarded, NEW b \in Builders, operations' = operations
    PROVE  OperationsStep(b)
BY DEF Typed, TypeOK, Guarded, OperationsStep

LEMMA EmptiedOperations ==
    ASSUME Typed, Guarded, NEW b \in Builders,
           operations' = [operations EXCEPT ![b] = <<>>]
    PROVE  OperationsStep(b)
<1>1. <<>> \in Seq(Operations) /\ Len(<<>>) = 0
  OBVIOUS
<1>2. AllGuarded(<<>>)
  BY DEF AllGuarded
<1>3. /\ operations' \in [Builders -> Seq(Operations)]
      /\ \A c \in Builders : operations'[c] = IF c = b THEN <<>> ELSE operations[c]
  BY <1>1 DEF Typed, TypeOK
<1>4. maxTransactOperations \in Nat
  BY TransactionBuilderAssumption
<1>5. ASSUME NEW c \in Builders
      PROVE  /\ Len(operations'[c]) <= maxTransactOperations
             /\ c # b => operations'[c] = operations[c]
             /\ AllGuarded(operations'[c])
  <2>1. CASE c = b
    <3>1. operations'[c] = <<>>
      BY <1>3, <2>1
    <3>2. Len(operations'[c]) = 0 /\ AllGuarded(operations'[c])
      BY <3>1, <1>1, <1>2, Zenon
    <3>. QED
      BY <2>1, <3>2, <1>4
  <2>2. CASE c # b
    BY <1>3, <2>2 DEF Typed, TypeOK, Guarded
  <2>. QED
    BY <2>1, <2>2
<1>. QED
  BY <1>3, <1>5 DEF OperationsStep

LEMMA AppendedOperation ==
    ASSUME Typed, Guarded, NEW b \in Builders, NEW op \in Calls, ~tooMany(operations[b]),
           operations' = [operations EXCEPT ![b] = Append(@, guarded(op))]
    PROVE  OperationsStep(b)
<1>. DEFINE old == operations[b]
            new == Append(old, guarded(op))
<1>1. old \in Seq(Operations) /\ Len(old) < maxTransactOperations /\ maxTransactOperations \in Nat
  <2>1. old \in Seq(Operations)
    BY DEF Typed, TypeOK
  <2>2. maxTransactOperations \in Nat /\ ~(Len(old) >= maxTransactOperations)
    BY TransactionBuilderAssumption DEF tooMany
  <2>. QED
    BY <2>1, <2>2
<1>2. /\ guarded(op) \in Operations
      /\ guarded(op).typ = "Create" => IfNotExists \in guarded(op).conditions
  BY GuardedType
<1>3. /\ new \in Seq(Operations) /\ Len(new) = Len(old) + 1
      /\ \A i \in 1..Len(new) : new[i] = IF i <= Len(old) THEN old[i] ELSE guarded(op)
  BY <1>1, <1>2
<1>4. Len(new) <= maxTransactOperations
  BY <1>1, <1>3
<1>5. AllGuarded(new)
  <2>1. AllGuarded(old)
    BY DEF Guarded
  <2>. SUFFICES ASSUME NEW i \in 1..Len(new), new[i].typ = "Create"
                PROVE  IfNotExists \in new[i].conditions
    BY DEF AllGuarded
  <2>2. CASE i <= Len(old)
    <3>1. i \in 1..Len(old) /\ new[i] = old[i]
      BY <1>1, <1>3, <2>2
    <3>. QED
      BY <2>1, <3>1 DEF AllGuarded
  <2>3. CASE ~(i <= Len(old))
    <3>1. new[i] = guarded(op)
      BY <1>3, <2>3
    <3>. QED
      BY <1>2, <3>1
  <2>. QED
    BY <2>2, <2>3
<1>6. /\ operations' = [operations EXCEPT ![b] = new]
      /\ operations \in [Builders -> Seq(Operations)]
  BY DEF Typed, TypeOK
<1>. HIDE DEF new, old
<1>7. /\ operations' \in [Builders -> Seq(Operations)]
      /\ \A c \in Builders : operations'[c] = IF c = b THEN new ELSE operations[c]
  BY <1>3, <1>6
<1>8. \A c \in Builders : Len(operations[c]) <= maxTransactOperations
  BY DEF Typed, TypeOK
<1>9. \A c \in Builders : Len(operations'[c]) <= maxTransactOperations
  BY <1>4, <1>7, <1>8
<1>10. \A c \in Builders : AllGuarded(operations'[c])
  BY <1>5, <1>7 DEF Guarded
<1>. QED
  BY <1>7, <1>9, <1>10 DEF OperationsStep

LEMMA ReturnIInv ==
    ASSUME IInv, NEW b \in Builders, NEW a \in Answers, ReturnStep(b, a)
    PROVE  IInv'
<1>. USE DEF IInv, Typed
<1>1. /\ pc' = [pc EXCEPT ![b] = "ready"]
      /\ attempt' = [attempt EXCEPT ![b] = 0] /\ resends' = [resends EXCEPT ![b] = 0]
      /\ reply' = [reply EXCEPT ![b] = OK]
      /\ answer' = [answer EXCEPT ![b] = [a EXCEPT !.resends = resends[b]]]
      /\ UNCHANGED <<table, done, inflight, err, token>>
  BY DEF ReturnStep, Return, server
<1>2. OperationsStep(b)
  BY EmptiedOperations, SameOperations DEF ReturnStep
<1>3. /\ since' \in [Builders -> 0..MaxExecutes]
      /\ \A c \in Builders : since'[c] \in {since[c], token[c]} /\ (c # b => since'[c] = since[c])
      /\ since'[b] = token[b] \/ Dead(b, token[b])
  <2>1. since \in [Builders -> 0..MaxExecutes] /\ token \in [Builders -> 0..MaxExecutes]
    BY DEF TypeOK
  <2>2. CASE since' = since
    BY <2>1, <2>2 DEF ReturnStep
  <2>3. CASE since' = [since EXCEPT ![b] = token[b]]
    BY <2>1, <2>3 DEF ReturnStep
  <2>. QED
    BY <2>2, <2>3 DEF ReturnStep
<1>4. /\ answer' \in [Builders -> Answers]
      /\ \A c \in Builders : c # b => answer'[c] = answer[c]
      /\ answer'[b].kind = a.kind /\ answer'[b].resends = resends[b]
  BY <1>1 DEF TypeOK, Answers
<1>5. Typed'
  <2>1. reply' \in [Builders -> Replies]
    BY <1>1, AnswerTypes
  <2>2. /\ attempt' \in [Builders -> 0..MaxRetries] /\ resends' \in [Builders -> 0..MaxResends]
    <3>1. 0 \in 0..MaxRetries /\ 0 \in 0..MaxResends
      BY TransactionBuilderAssumption
    <3>. QED
      BY <1>1, <3>1 DEF TypeOK
  <2>3. pc' \in [Builders -> {"ready", "send", "sent", "answered", "backoff"}]
    BY <1>1 DEF TypeOK
  <2>4. /\ \A c \in Builders : reply'[c].kind \in {"ok", "transport", "invalid", "canceled"}
        /\ \A c \in Builders : answer'[c].kind \in {"none", "refused", "ok", "transport", "invalid",
                              "canceled", "context"}
    BY <1>4, <2>1 DEF Replies, Answers
  <2>. QED
    BY <1>1, <1>2, <1>3, <1>4, <2>1, <2>2, <2>3, <2>4 DEF TypeOK, OperationsStep
<1>6. Guarded'
  BY <1>1, <1>2 DEF Guarded, OperationsStep
<1>7. Numbered'
  <2>1. \A c \in Builders : since'[c] <= token[c]
    BY <1>3, Numbers DEF Numbered
  <2>. QED
    BY <1>1, <2>1 DEF Numbered
<1>8. Copies'
  BY <1>1, <1>2 DEF Copies, Waiting, TypeOK, OperationsStep
<1>9. Counters'
  BY <1>1 DEF Counters, Waiting, TypeOK
<1>10. Progress'
  BY <1>1 DEF Progress, Refused, Dead, Gone, TypeOK
<1>11. Settled'
  <2>. SUFFICES ASSUME NEW c \in Builders, NEW t \in 1..MaxExecutes,
                       since'[c] < t, t <= token[c], t < token[c] \/ pc'[c] = "ready"
                PROVE  Dead(c, t)
    BY <1>1 DEF Settled, Dead, Gone
  <2>1. CASE c # b
    BY <1>1, <1>3, <2>1 DEF Settled, TypeOK
  <2>2. CASE c = b /\ t < token[c]
    <3>1. since[c] < t
      BY <1>3, <2>2, Numbers
    <3>. QED
      BY <2>2, <3>1 DEF Settled
  <2>3. CASE c = b /\ t = token[c]
    BY <1>3, <2>3, Numbers
  <2>. QED
    BY <2>1, <2>2, <2>3, Numbers
<1>12. Truthful'
  <2>. SUFFICES ASSUME NEW c \in Builders, Concluded(c)'
                PROVE  /\ answer'[c].kind = "ok" => <<c, token[c]>> \in done
                       /\ answer'[c].kind \in {"canceled", "invalid", "context"}
                              /\ answer'[c].resends = 0 => Dead(c, token[c])
    BY <1>1 DEF Truthful, Dead, Gone
  <2>1. CASE c # b
    BY <1>1, <1>4, <2>1 DEF Truthful, Concluded, TypeOK
  <2>2. CASE c = b
    BY <1>4, <2>2 DEF ReturnStep
  <2>. QED
    BY <2>1, <2>2
<1>. QED
  BY <1>5, <1>6, <1>7, <1>8, <1>9, <1>10, <1>11, <1>12
\* Handling a request revives nothing.
LEMMA DeadStays ==
    ASSUME NEW m \in inflight, ServiceStep(m), NEW c, NEW t
    PROVE  /\ Gone(c, t) => Gone(c, t)'
           /\ Dead(c, t) => Dead(c, t)'
BY DEF ServiceStep, Gone, Dead

\* The copies that are not the one answered are older: while the SDK has
\* re-sent nothing there are none.
LEMMA LastCopy ==
    ASSUME Typed, Copies, Progress, NEW m \in inflight, m.from \in Builders,
           m = Request(m.from), pc[m.from] = "sent", resends[m.from] = 0,
           NEW n \in inflight, Id(n) = Id(m)
    PROVE  n = m
<1>1. /\ m \in [from : Builders, token : 1..MaxExecutes, ops : Seq(Operations),
                 copy : 0..(MaxRetries + MaxResends)]
      /\ n \in [from : Builders, token : 1..MaxExecutes, ops : Seq(Operations),
                 copy : 0..(MaxRetries + MaxResends)]
  BY DEF Typed, TypeOK
<1>2. m.token = token[m.from] /\ Id(m) = <<m.from, token[m.from]>>
  BY DEF Request, Id
<1>3. m.copy = attempt[m.from] /\ n.copy = attempt[m.from]
  BY <1>2 DEF Progress
<1>4. n.from = m.from /\ n.token = m.token /\ n.ops = m.ops
  BY DEF Id, Copies
<1>. QED
  BY <1>1, <1>3, <1>4

LEMMA ServiceIInv ==
    ASSUME IInv, NEW m \in inflight, m.from \in Builders, ServiceStep(m)
    PROVE  IInv'
<1>. USE DEF IInv
<1>1. /\ UNCHANGED <<operations, err, attempt, token, resends, answer, since>>
      /\ inflight' = inflight \ {m} /\ done \subseteq done' /\ done' \subseteq done \cup {Id(m)}
      /\ table' \in [Keys -> Items]
  BY DEF ServiceStep, builder, caller
<1>2. m.token \in 1..MaxExecutes /\ m.token <= token[m.from] /\ Id(m) = <<m.from, m.token>>
  BY DEF Typed, TypeOK, Numbered, Id
<1>3. /\ pc' \in [Builders -> {"ready", "send", "sent", "answered", "backoff"}]
      /\ reply' \in [Builders -> Replies]
      /\ \A c \in Builders : pc'[c] = "ready" <=> pc[c] = "ready"
      /\ \A c \in Builders : pc'[c] # "answered" => pc'[c] = pc[c]
  BY DEF ServiceStep, Reply, Typed, TypeOK
<1>4. Typed'
  <2>1. done' \subseteq Builders \X (1..MaxExecutes)
    <3>1. done \subseteq Builders \X (1..MaxExecutes)
      BY DEF Typed, TypeOK
    <3>2. Id(m) \in Builders \X (1..MaxExecutes)
      BY <1>2
    <3>. QED
      BY <1>1, <3>1, <3>2
  <2>2. \A c \in Builders : reply'[c].kind \in {"ok", "transport", "invalid", "canceled"}
    BY <1>3 DEF Replies
  <2>. QED
    BY <1>1, <1>3, <2>1, <2>2 DEF Typed, TypeOK
<1>5. Guarded'
  BY <1>1 DEF Guarded
<1>6. Numbered'
  BY <1>1, <1>2 DEF Numbered
<1>7. Copies'
  BY <1>1, <1>3 DEF Copies, Waiting, Typed, TypeOK
<1>8. Counters'
  BY <1>1, <1>3 DEF Counters, Waiting
<1>9. Progress'
  <2>. SUFFICES ASSUME NEW c \in Builders
       PROVE /\ pc'[c] = "answered" /\ reply'[c].kind = "ok" => <<c, token[c]>> \in done'
             /\ resends[c] = 0 /\ Refused(c)' => Dead(c, token[c])'
             /\ resends[c] = 0 /\ pc'[c] = "answered" /\ reply'[c].kind = "ok"
                    => Gone(c, token[c])'
             /\ resends[c] = 0 /\ pc'[c] = "sent"
                    => \A n \in inflight' : Id(n) = <<c, token[c]>> => n.copy = attempt[c]
    BY <1>1 DEF Progress, Dead, Gone, Id
  <2>1. CASE pc'[c] = pc[c] /\ reply'[c] = reply[c]
    <3>1. /\ Gone(c, token[c]) => Gone(c, token[c])'
          /\ Dead(c, token[c]) => Dead(c, token[c])'
      BY <1>1, DeadStays DEF Gone, Dead
    <3>2. Refused(c)' <=> Refused(c)
      BY <2>1 DEF Refused
    <3>. QED
      BY <1>1, <2>1, <3>1, <3>2 DEF Progress
  <2>2. CASE ~(pc'[c] = pc[c] /\ reply'[c] = reply[c])
    <3>1. c = m.from /\ pc[c] = "sent" /\ m = Request(c)
      BY <2>2 DEF ServiceStep, Reply, Typed, TypeOK
    <3>2. PICK r \in Replies : Reply(m, r)
      BY <2>2 DEF ServiceStep
    <3>3. pc'[c] = "answered" /\ reply'[c] = r /\ Id(m) = <<c, token[c]>>
      <4>1. pc'[c] = "answered" /\ reply'[c] = r
        BY <3>1, <3>2 DEF Reply, Typed, TypeOK
      <4>2. m.from = c /\ m.token = token[c]
        BY <3>1 DEF Request
      <4>. QED
        BY <4>1, <4>2 DEF Id
    <3>4. resends[c] = 0 => Gone(c, token[c])'
      <4>. SUFFICES ASSUME resends[c] = 0, NEW n \in inflight', Id(n) = <<c, token[c]>>
                    PROVE  FALSE
        BY <1>1 DEF Gone, Id
      <4>. QED
        BY <1>1, <3>1, <3>3, LastCopy
    <3>5. \/ r.kind = "ok" /\ <<c, token[c]>> \in done'
          \/ r.kind \in {"invalid", "canceled"} /\ <<c, token[c]>> \notin done'
      BY <3>2, <3>3 DEF Reply
    <3>. QED
      BY <1>1, <3>3, <3>4, <3>5 DEF Refused, Dead
  <2>. QED
    BY <2>1, <2>2
<1>10. Settled'
  <2>. SUFFICES ASSUME NEW c \in Builders, NEW t \in 1..MaxExecutes,
                       since[c] < t /\ t <= token[c] /\ (t < token[c] \/ pc'[c] = "ready")
                PROVE  Dead(c, t)'
    BY <1>1 DEF Settled
  <2>. QED
    BY <1>3, DeadStays DEF Settled
<1>11. Truthful'
  <2>. SUFFICES ASSUME NEW c \in Builders, Concluded(c)'
                PROVE  /\ answer[c].kind = "ok" => <<c, token[c]>> \in done'
                       /\ answer[c].kind \in {"canceled", "invalid", "context"}
                              /\ answer[c].resends = 0 => Dead(c, token[c])'
    BY <1>1 DEF Truthful
  <2>1. Concluded(c)
    BY <1>1, <1>3 DEF Concluded
  <2>2. Dead(c, token[c]) => Dead(c, token[c])'
    BY <1>1, DeadStays DEF Gone, Dead
  <2>. QED
    BY <1>1, <2>1, <2>2 DEF Truthful
<1>. QED
  BY <1>4, <1>5, <1>6, <1>7, <1>8, <1>9, <1>10, <1>11
\* Between two calls of Execute the builder is composed.
LEMMA ComposeIInv ==
    ASSUME IInv, NEW b \in Builders, Compose(b)
    PROVE  IInv'
<1>. USE DEF IInv, Typed
<1>1. /\ pc[b] = "ready"
      /\ UNCHANGED <<table, done, inflight, pc, attempt, token, resends, reply, answer>>
  BY DEF Compose, addInvalid, addOperation, NewBuilder, Composing, server, call, caller
<1>2. OperationsStep(b)
  <2>1. CASE NewBuilder(b)
    BY <2>1, EmptiedOperations DEF NewBuilder
  <2>2. CASE addInvalid(b)
    BY <2>2, SameOperations DEF addInvalid
  <2>3. ASSUME NEW op \in Calls, addOperation(b, op)
        PROVE  OperationsStep(b)
    BY <2>3, SameOperations, AppendedOperation DEF addOperation
  <2>. QED
    BY <2>1, <2>2, <2>3 DEF Compose
<1>3. err' \in [Builders -> {"", "invalid", "tooMany"}]
  BY DEF Compose, addInvalid, addOperation, NewBuilder, recordError, TypeOK
<1>4. /\ since' \in [Builders -> 0..MaxExecutes]
      /\ \A c \in Builders : since'[c] \in {since[c], token[c]}
  <2>1. since \in [Builders -> 0..MaxExecutes] /\ token \in [Builders -> 0..MaxExecutes]
    BY DEF TypeOK
  <2>2. since' = since \/ since' = [since EXCEPT ![b] = token[b]]
    BY DEF Compose, addInvalid, addOperation, NewBuilder, caller
  <2>. QED
    BY <2>1, <2>2
<1>5. Typed'
  BY <1>1, <1>2, <1>3, <1>4 DEF TypeOK, OperationsStep
<1>6. Guarded'
  BY <1>1, <1>2 DEF Guarded, OperationsStep
<1>7. Numbered'
  <2>1. \A c \in Builders : since'[c] <= token[c]
    BY <1>4, Numbers DEF Numbered
  <2>. QED
    BY <1>1, <2>1 DEF Numbered
<1>8. Copies'
  BY <1>1, <1>2 DEF Copies, Waiting, TypeOK, OperationsStep
<1>9. Counters' /\ Progress'
  BY <1>1 DEF Counters, Waiting, Progress, Refused, Dead, Gone
<1>10. Settled'
  <2>. SUFFICES ASSUME NEW c \in Builders, NEW t \in 1..MaxExecutes,
                       since'[c] < t, t <= token[c], t < token[c] \/ pc[c] = "ready"
                PROVE  Dead(c, t)
    BY <1>1 DEF Settled, Dead, Gone
  <2>1. since[c] < t
    BY <1>4, Numbers
  <2>. QED
    BY <2>1 DEF Settled
<1>11. Truthful'
  BY <1>1 DEF Truthful, Concluded, Dead, Gone
<1>. QED
  BY <1>5, <1>6, <1>7, <1>8, <1>9, <1>10, <1>11

\* Execute takes a token that nothing carries yet.
LEMMA ExecuteIInv ==
    ASSUME IInv, NEW b \in Builders, Execute(b)
    PROVE  IInv'
<1>. USE DEF IInv, Typed
<1>1. /\ pc[b] = "ready" /\ token[b] < MaxExecutes
      /\ token' = [token EXCEPT ![b] = @ + 1] /\ pc' = [pc EXCEPT ![b] = "send"]
      /\ UNCHANGED <<table, done, inflight, operations, err, attempt, resends, reply, answer, since>>
  BY DEF Execute, Composing, server, builder, caller
<1>2. /\ token' \in [Builders -> 0..MaxExecutes]
      /\ \A c \in Builders : token[c] <= token'[c]
      /\ \A c \in Builders : c # b => token'[c] = token[c] /\ pc'[c] = pc[c]
      /\ token'[b] = token[b] + 1 /\ pc'[b] = "send" /\ token'[b] \in 1..MaxExecutes
  <2>1. /\ token \in [Builders -> Nat] /\ MaxExecutes \in Nat
        /\ \A c \in Builders : token[c] <= MaxExecutes
        /\ pc \in [Builders -> {"ready", "send", "sent", "answered", "backoff"}]
    BY Numbers DEF TypeOK
  <2>. QED
    BY <1>1, <2>1
<1>3. Typed'
  BY <1>1, <1>2 DEF TypeOK
<1>4. Guarded'
  BY <1>1 DEF Guarded
<1>5. Numbered'
  <2>1. /\ \A c \in Builders : since[c] <= token'[c]
        /\ \A c \in Builders : \A t \in 1..MaxExecutes : t <= token[c] => t <= token'[c]
    BY <1>2, Numbers DEF Numbered
  <2>2. \A m \in inflight : m.from \in Builders /\ m.token \in 1..MaxExecutes
    BY DEF TypeOK
  <2>. QED
    BY <1>1, <2>1, <2>2 DEF Numbered
<1>6. Dead(b, token'[b])
  <2>1. ~(token[b] + 1 <= token[b])
    BY Numbers
  <2>2. <<b, token'[b]>> \notin done
    BY <1>2, <2>1 DEF Numbered
  <2>3. \A m \in inflight : Id(m) # <<b, token'[b]>>
    BY <1>2, <2>1 DEF Numbered, Id
  <2>. QED
    BY <2>2, <2>3 DEF Dead, Gone
<1>7. Copies'
  <2>1. \A m \in inflight : m.from = b => m.token # token'[b]
    BY <1>6 DEF Dead, Gone, Id
  <2>2. \A m \in inflight : m.from \in Builders
    BY DEF TypeOK
  <2>. QED
    BY <1>1, <1>2, <2>1, <2>2 DEF Copies, Waiting
<1>8. Counters'
  BY <1>1, <1>2 DEF Counters, Waiting
<1>9. Progress'
  <2>1. \A c \in Builders : c # b => (Refused(c)' <=> Refused(c))
    BY <1>1, <1>2 DEF Refused
  <2>. QED
    BY <1>1, <1>2, <1>6, <2>1 DEF Progress, Dead, Gone
<1>10. Settled'
  <2>. SUFFICES ASSUME NEW c \in Builders, NEW t \in 1..MaxExecutes,
                       since[c] < t, t <= token'[c], t < token'[c] \/ pc'[c] = "ready"
                PROVE  Dead(c, t)
    BY <1>1 DEF Settled, Dead, Gone
  <2>1. t <= token[c] /\ (t < token[c] \/ pc[c] = "ready")
    BY <1>1, <1>2, Numbers
  <2>. QED
    BY <2>1 DEF Settled
<1>11. Truthful'
  BY <1>1, <1>2 DEF Truthful, Concluded, Dead, Gone
<1>. QED
  BY <1>3, <1>4, <1>5, <1>7, <1>8, <1>9, <1>10, <1>11
\* Send and Resend put one more copy of the request on its way.
SendStep(b, n) ==
    /\ Waiting(b)
    /\ n \in [from : {b}, token : {token[b]}, ops : {operations[b]},
              copy : 0..(MaxRetries + MaxResends)]
    /\ inflight' = inflight \cup {n}
    /\ pc' = [pc EXCEPT ![b] = "sent"]
    /\ resends' \in [Builders -> 0..MaxResends]
    /\ \A c \in Builders : c # b => resends'[c] = resends[c]
    /\ resends'[b] = 0 => n.copy = attempt[b] /\ Gone(b, token[b])
    /\ UNCHANGED <<table, done, operations, err, attempt, token, reply, answer, since>>

LEMMA SendSteps ==
    ASSUME IInv, NEW b \in Builders, Send(b) \/ Resend(b)
    PROVE  \E n : SendStep(b, n)
<1>. USE DEF IInv, Typed
<1>1. /\ attempt[b] \in 0..MaxRetries /\ MaxRetries \in Nat /\ MaxResends \in Nat
      /\ resends \in [Builders -> 0..MaxResends]
  BY TransactionBuilderAssumption DEF TypeOK
<1>2. CASE Send(b)
  <2>1. /\ pc[b] = "send" /\ inflight' = inflight \cup {Request(b)}
        /\ pc' = [pc EXCEPT ![b] = "sent"]
        /\ UNCHANGED <<table, done, operations, err, attempt, token, resends, reply, answer, since>>
    BY <1>2 DEF Send, builder, call, caller
  <2>2. resends[b] = 0 => Gone(b, token[b])
    BY <2>1 DEF Progress, Refused, Dead
  <2>3. /\ Request(b) \in [from : {b}, token : {token[b]}, ops : {operations[b]},
                            copy : 0..(MaxRetries + MaxResends)]
        /\ Request(b).copy = attempt[b] + resends[b]
    BY <1>1 DEF Request
  <2>4. resends[b] = 0 => Request(b).copy = attempt[b]
    BY <1>1, <2>3
  <2>. QED
    BY <1>1, <2>1, <2>2, <2>3, <2>4 DEF SendStep, Waiting
<1>3. CASE Resend(b)
  <2>. DEFINE n == [Request(b) EXCEPT !.copy = @ + 1]
  <2>1. /\ pc[b] = "sent" /\ resends[b] < MaxResends /\ inflight' = inflight \cup {n}
        /\ resends' = [resends EXCEPT ![b] = @ + 1]
        /\ UNCHANGED <<table, done, operations, err, pc, attempt, token, reply, answer, since>>
    BY <1>3 DEF Resend, builder, caller
  <2>2. n \in [from : {b}, token : {token[b]}, ops : {operations[b]},
               copy : 0..(MaxRetries + MaxResends)]
    BY <1>1, <2>1 DEF Request
  <2>3. /\ resends' \in [Builders -> 0..MaxResends] /\ resends'[b] # 0
        /\ \A c \in Builders : c # b => resends'[c] = resends[c]
    BY <1>1, <2>1
  <2>4. pc' = [pc EXCEPT ![b] = "sent"]
    BY <2>1 DEF TypeOK
  <2>. HIDE DEF n
  <2>. QED
    BY <2>1, <2>2, <2>3, <2>4 DEF SendStep, Waiting
<1>. QED
  BY <1>2, <1>3

LEMMA SendIInv ==
    ASSUME IInv, NEW b \in Builders, NEW n, SendStep(b, n)
    PROVE  IInv'
<1>. USE DEF IInv, Typed
<1>1. /\ pc[b] # "ready" /\ inflight' = inflight \cup {n} /\ pc' = [pc EXCEPT ![b] = "sent"]
      /\ n.from = b /\ n.token = token[b] /\ n.ops = operations[b] /\ Id(n) = <<b, token[b]>>
      /\ UNCHANGED <<table, done, operations, err, attempt, token, reply, answer, since>>
  BY DEF SendStep, Waiting, Id
<1>2. /\ pc' \in [Builders -> {"ready", "send", "sent", "answered", "backoff"}]
      /\ pc'[b] = "sent"
      /\ \A c \in Builders : c # b => pc'[c] = pc[c] /\ resends'[c] = resends[c]
  <2>1. pc \in [Builders -> {"ready", "send", "sent", "answered", "backoff"}]
    BY DEF TypeOK
  <2>2. \A c \in Builders : c # b => resends'[c] = resends[c]
    BY DEF SendStep
  <2>. QED
    BY <1>1, <2>1, <2>2
<1>3. token[b] \in 1..MaxExecutes
  BY <1>1, Numbers DEF Counters, Waiting
<1>4. Typed'
  <2>1. n \in [from : Builders, token : 1..MaxExecutes, ops : Seq(Operations),
               copy : 0..(MaxRetries + MaxResends)]
    BY <1>3 DEF SendStep, TypeOK
  <2>2. inflight' \subseteq [from : Builders, token : 1..MaxExecutes, ops : Seq(Operations),
               copy : 0..(MaxRetries + MaxResends)]
    BY <1>1, <2>1 DEF TypeOK
  <2>. QED
    BY <1>1, <1>2, <2>2 DEF TypeOK, SendStep
<1>5. Guarded'
  BY <1>1 DEF Guarded
<1>6. Numbered'
  BY <1>1, Numbers DEF Numbered
<1>7. Copies'
  <2>1. \A m \in inflight : Id(m) = Id(n) => m.ops = n.ops
    BY <1>1 DEF Copies, Id, Waiting
  <2>2. \A c \in Builders : Waiting(c)' <=> Waiting(c)
    BY <1>1, <1>2 DEF Waiting
  <2>3. \A m \in inflight : m.from \in Builders
    BY DEF TypeOK
  <2>. QED
    BY <1>1, <2>1, <2>2, <2>3 DEF Copies, Id
<1>8. Counters'
  BY <1>1, <1>2 DEF Counters, Waiting
<1>9. ASSUME NEW c, NEW t, <<c, t>> # <<b, token[b]>>
      PROVE  /\ Gone(c, t)' <=> Gone(c, t)
             /\ Dead(c, t)' <=> Dead(c, t)
  BY <1>1, <1>9 DEF Gone, Dead, Id
<1>10. Progress'
  <2>1. ASSUME NEW c \in Builders, c # b
        PROVE  /\ Refused(c)' <=> Refused(c)
               /\ Gone(c, token[c])' <=> Gone(c, token[c])
               /\ Dead(c, token[c])' <=> Dead(c, token[c])
               /\ \A m \in inflight' : Id(m) = <<c, token[c]>> => m \in inflight
    BY <1>1, <1>2, <2>1 DEF Refused, Gone, Dead, Id
  <2>2. ASSUME resends'[b] = 0, NEW m \in inflight', Id(m) = <<b, token[b]>>
        PROVE  m.copy = attempt[b]
    BY <1>1, <2>2 DEF SendStep, Gone
  <2>. QED
    BY <1>1, <1>2, <2>1, <2>2 DEF Progress, Refused
<1>11. Settled'
  <2>. SUFFICES ASSUME NEW c \in Builders, NEW t \in 1..MaxExecutes,
                       since[c] < t, t <= token[c], t < token[c] \/ pc'[c] = "ready"
                PROVE  Dead(c, t)'
    BY <1>1 DEF Settled
  <2>1. t < token[c] \/ pc[c] = "ready"
    BY <1>2
  <2>2. <<c, t>> # <<b, token[b]>>
    BY <1>1, <2>1, Numbers
  <2>. QED
    BY <1>9, <2>1, <2>2 DEF Settled
<1>12. Truthful'
  <2>1. ASSUME NEW c \in Builders, Concluded(c)'
        PROVE  Concluded(c) /\ (Dead(c, token[c])' <=> Dead(c, token[c]))
    BY <1>1, <1>2, <2>1 DEF Concluded, Dead, Gone, Id
  <2>. QED
    BY <1>1, <2>1 DEF Truthful
<1>. QED
  BY <1>4, <1>5, <1>6, <1>7, <1>8, <1>10, <1>11, <1>12

\* The steps of a waiting Execute that send nothing and answer nobody.
WaitStep(b) ==
    /\ Waiting(b) /\ Waiting(b)'
    /\ pc' \in [Builders -> {"ready", "send", "sent", "answered", "backoff"}]
    /\ attempt' \in [Builders -> 0..MaxRetries]
    /\ reply' \in [Builders -> Replies]
    /\ \A c \in Builders :
          c # b => pc'[c] = pc[c] /\ attempt'[c] = attempt[c] /\ reply'[c] = reply[c]
    /\ pc'[b] = "answered" => reply'[b].kind = "transport"
    /\ pc'[b] \in {"send", "backoff"} => attempt'[b] > 0
    /\ resends[b] = 0 /\ Refused(b)' => Dead(b, token[b])
    /\ resends[b] = 0 /\ pc'[b] = "sent" => Gone(b, token[b])
    /\ UNCHANGED <<table, done, inflight, operations, err, token, resends, answer, since>>

Waits(b) == Backoff(b) \/ Retry(b) \/ LoseReply(b) \/ GiveUp(b)

LEMMA WaitSteps ==
    ASSUME IInv, NEW b \in Builders, Waits(b)
    PROVE  WaitStep(b)
<1>. USE DEF IInv, Typed
<1>1. /\ pc \in [Builders -> {"ready", "send", "sent", "answered", "backoff"}]
      /\ attempt \in [Builders -> 0..MaxRetries] /\ MaxRetries \in Nat
      /\ reply \in [Builders -> Replies]
  BY TransactionBuilderAssumption DEF TypeOK
<1>2. /\ OK \in Replies /\ Transport \in Replies /\ OK.kind = "ok"
      /\ Transport.kind = "transport"
  BY AnswerTypes DEF OK, Transport
<1>3. UNCHANGED <<table, done, inflight, operations, err, token, resends, answer, since>>
  BY DEF Waits, Backoff, Retry, LoseReply, GiveUp, server, builder, call, caller
<1>4. resends[b] = 0 /\ Refused(b) => Dead(b, token[b])
  BY DEF Progress
<1>5. CASE Backoff(b)
  <2>1. Refused(b)
    BY <1>5 DEF Backoff, Refused
  <2>2. /\ pc[b] = "answered" /\ attempt[b] < MaxRetries
        /\ attempt' = [attempt EXCEPT ![b] = @ + 1] /\ pc' = [pc EXCEPT ![b] = "backoff"]
        /\ reply' = [reply EXCEPT ![b] = OK]
    BY <1>5 DEF Backoff
  <2>3. attempt' \in [Builders -> 0..MaxRetries] /\ attempt'[b] > 0
    BY <1>1, <2>2
  <2>. QED
    BY <1>1, <1>2, <1>3, <1>4, <2>1, <2>2, <2>3 DEF WaitStep, Waiting
<1>6. CASE Retry(b)
  <2>1. Refused(b) /\ attempt[b] > 0
    BY <1>6 DEF Retry, Refused, Counters
  <2>2. /\ pc[b] = "backoff" /\ pc' = [pc EXCEPT ![b] = "send"]
        /\ attempt' = attempt /\ reply' = reply
    BY <1>6 DEF Retry, call
  <2>. QED
    BY <1>1, <1>3, <1>4, <2>1, <2>2 DEF WaitStep, Waiting
<1>7. CASE LoseReply(b)
  <2>1. /\ pc[b] = "answered" /\ reply[b].kind # "transport"
        /\ pc' = [pc EXCEPT ![b] = "sent"] /\ reply' = [reply EXCEPT ![b] = OK]
        /\ attempt' = attempt
    BY <1>7 DEF LoseReply
  <2>2. reply[b].kind \in {"ok", "invalid", "canceled"}
    BY <1>1, <2>1 DEF Replies
  <2>3. resends[b] = 0 => Gone(b, token[b])
    BY <1>4, <2>1, <2>2 DEF Progress, Refused, Dead
  <2>4. ~Refused(b)'
    BY <1>1, <2>1 DEF Refused
  <2>. QED
    BY <1>1, <1>2, <1>3, <2>1, <2>3, <2>4 DEF WaitStep, Waiting
<1>8. CASE GiveUp(b)
  <2>1. /\ pc[b] = "sent" /\ pc' = [pc EXCEPT ![b] = "answered"]
        /\ reply' = [reply EXCEPT ![b] = Transport] /\ attempt' = attempt
    BY <1>8 DEF GiveUp
  <2>2. ~Refused(b)'
    BY <1>1, <1>2, <2>1 DEF Refused
  <2>. QED
    BY <1>1, <1>2, <1>3, <2>1, <2>2 DEF WaitStep, Waiting
<1>. QED
  BY <1>5, <1>6, <1>7, <1>8 DEF Waits

LEMMA WaitIInv ==
    ASSUME IInv, NEW b \in Builders, WaitStep(b)
    PROVE  IInv'
<1>. USE DEF IInv, Typed
<1>1. /\ UNCHANGED <<table, done, inflight, operations, err, token, resends, answer, since>>
      /\ pc[b] # "ready" /\ pc'[b] # "ready"
      /\ \A c \in Builders : c # b => pc'[c] = pc[c] /\ attempt'[c] = attempt[c] /\ reply'[c] = reply[c]
  BY DEF WaitStep, Waiting
<1>2. \A c \in Builders : pc'[c] = "ready" <=> pc[c] = "ready"
  BY <1>1
<1>3. Typed'
  <2>1. \A c \in Builders : reply'[c].kind \in {"ok", "transport", "invalid", "canceled"}
    BY DEF WaitStep, Replies
  <2>. QED
    BY <1>1, <2>1 DEF TypeOK, WaitStep
<1>4. Guarded' /\ Numbered'
  BY <1>1 DEF Guarded, Numbered
<1>5. Copies'
  <2>1. \A m \in inflight : m.from \in Builders
    BY DEF TypeOK
  <2>. QED
    BY <1>1, <1>2, <2>1 DEF Copies, Waiting
<1>6. Counters'
  BY <1>1 DEF Counters, Waiting, WaitStep
<1>7. Progress'
  <2>1. \A c \in Builders : c # b => (Refused(c)' <=> Refused(c))
    BY <1>1 DEF Refused
  <2>2. \A c \in Builders : /\ Dead(c, token[c])' <=> Dead(c, token[c])
                            /\ Gone(c, token[c])' <=> Gone(c, token[c])
    BY <1>1 DEF Dead, Gone
  <2>3. /\ ~(pc'[b] = "answered" /\ reply'[b].kind = "ok")
        /\ resends[b] = 0 /\ Refused(b)' => Dead(b, token[b])
        /\ resends[b] = 0 /\ pc'[b] = "sent"
              => \A m \in inflight : Id(m) # <<b, token[b]>>
    BY DEF WaitStep, Gone
  <2>. QED
    BY <1>1, <2>1, <2>2, <2>3 DEF Progress
<1>8. Settled'
  BY <1>1, <1>2 DEF Settled, Dead, Gone
<1>9. Truthful'
  BY <1>1, <1>2 DEF Truthful, Concluded, Dead, Gone
<1>. QED
  BY <1>3, <1>4, <1>5, <1>6, <1>7, <1>8, <1>9

LEMMA NextIInv == IInv /\ [Next]_vars => IInv'
<1>. SUFFICES ASSUME IInv, [Next]_vars PROVE IInv'
  OBVIOUS
<1>1. ASSUME NEW b \in Builders, Compose(b) PROVE IInv'
  BY <1>1, ComposeIInv
<1>2. ASSUME NEW b \in Builders, Returns(b) PROVE IInv'
  BY <1>2, ReturnSteps, ReturnIInv
<1>3. ASSUME NEW b \in Builders, Execute(b) PROVE IInv'
  BY <1>3, ExecuteIInv
<1>4. ASSUME NEW b \in Builders, Send(b) \/ Resend(b) PROVE IInv'
  BY <1>4, SendSteps, SendIInv
<1>5. ASSUME NEW b \in Builders, Waits(b) PROVE IInv'
  BY <1>5, WaitSteps, WaitIInv
<1>6. ASSUME NEW m \in inflight, Service(m) PROVE IInv'
  BY <1>6, ServiceSteps, ServiceIInv DEF IInv
<1>7. CASE UNCHANGED vars
  BY <1>7 DEF vars, IInv, Typed, TypeOK, Guarded, Numbered, Copies, Counters, Progress,
              Refused, Settled, Truthful, Concluded, Dead, Gone, Waiting
<1>. QED
  BY <1>1, <1>2, <1>3, <1>4, <1>5, <1>6, <1>7
     DEF Next, Run, Network, Returns, Waits
------------------------------------------------------------------------------
(***************************************************************************)
(* The theorems.                                                           *)
(***************************************************************************)
LEMMA Inductive == Spec => []IInv
BY InitIInv, NextIInv, PTL DEF Spec

\* addOperation never lets a builder hold more operations than DynamoDB takes
\* in one transaction, and executeWithRetry never retries more often than its
\* schedule is long.
THEOREM Typing == Spec => []TypeOK
<1>1. IInv => TypeOK
  BY DEF IInv, Typed
<1>. QED
  BY <1>1, Inductive, PTL

\* What Execute tells its caller about its own request is true, whatever the
\* network loses, delays and duplicates.
THEOREM Truth == Spec => []TruthfulAnswer
<1>1. IInv => TruthfulAnswer
  BY DEF IInv, Typed, Truthful, TruthfulAnswer, Dead, Gone
<1>. QED
  BY <1>1, Inductive, PTL

\* A builder's list of operations commits at most once, however often Execute
\* is called on it, unless an outcome was left in doubt.
THEOREM AtMostOnce == Spec => []AppliedAtMostOnce
<1>1. IInv => AppliedAtMostOnce
  <2>. SUFFICES ASSUME IInv, NEW b \in Builders,
                       NEW s \in (since[b] + 1)..token[b], NEW t \in (since[b] + 1)..token[b],
                       <<b, s>> \in done, <<b, t>> \in done
                PROVE  s = t
    BY DEF AppliedAtMostOnce
  <2>. USE DEF IInv
  <2>1. /\ s \in 1..MaxExecutes /\ since[b] < s /\ s <= token[b]
        /\ t \in 1..MaxExecutes /\ since[b] < t /\ t <= token[b] /\ token[b] \in Nat
    BY Numbers
  <2>2. ~(s < token[b]) /\ ~(t < token[b])
    BY <2>1 DEF Settled, Dead
  <2>. QED
    BY <2>1, <2>2
<1>. QED
  BY <1>1, Inductive, PTL

\* A committed Create found no item: the guard that Create puts in front of the
\* caller's conditions is on every copy of the request.
THEOREM CreateGuarded == Spec => CreateNeverOverwrites
<1>. DEFINE A == \A m \in inflight :
                   Id(m) \in done' \ done =>
                       \A i \in 1..Len(m.ops) :
                           m.ops[i].typ = "Create" => table[m.ops[i].key] = Absent
<1>1. IInv /\ [Next]_vars => [A]_vars
  <2>. SUFFICES ASSUME IInv, Next, NEW m \in inflight, Id(m) \in done' \ done,
                       NEW i \in 1..Len(m.ops), m.ops[i].typ = "Create"
                PROVE  table[m.ops[i].key] = Absent
    OBVIOUS
  <2>. USE DEF IInv
  <2>1. \A b \in Builders : ~(Compose(b) \/ Run(b) \/ Network(b))
    BY DEF Compose, addInvalid, addOperation, NewBuilder, Run, ExecuteRefused, Execute,
           ClientUnavailable, Send, Succeed, FailOther, FailCanceled, Backoff, Retry,
           ContextDone, Network, LoseReply, Resend, GiveUp, server
  <2>2. PICK n \in inflight : Service(n)
    BY <2>1 DEF Next
  <2>3. ServiceStep(n)
    BY <2>2, ServiceSteps
  <2>4. Id(m) = Id(n) /\ AllHold(n.ops, table)
    BY <2>3 DEF ServiceStep
  <2>5. m.ops = n.ops
    BY <2>4 DEF Copies
  <2>6. IfNotExists \in m.ops[i].conditions
    BY DEF Guarded, AllGuarded
  <2>7. Satisfies(table[m.ops[i].key], IfNotExists)
    BY <2>4, <2>5, <2>6 DEF AllHold, Holds
  <2>8. IfNotExists # IfExists
    BY DEF IfNotExists, IfExists
  <2>. QED
    BY <2>7, <2>8 DEF Satisfies
<1>2. []IInv /\ [][Next]_vars => [][A]_vars
  BY <1>1, PTL
<1>. QED
  BY <1>2, Inductive, PTL DEF Spec, CreateNeverOverwrites
------------------------------------------------------------------------------
(***************************************************************************)
(* The refinement.  The requests the store has open are those of which a   *)
(* copy is under way and those a builder waits for, the committed ones     *)
(* excepted.                                                               *)
(***************************************************************************)
Submitted(id, ops) == [id |-> id, ops |-> ops]

Sent(x) == \E m \in inflight : Id(m) \notin done /\ x = Submitted(Id(m), m.ops)

Held(x) == \E b \in Builders : /\ Waiting(b) /\ <<b, token[b]>> \notin done
                              /\ x = Submitted(<<b, token[b]>>, operations[b])

LEMMA OpenIs == \A x : x \in Undecided <=> Sent(x) \/ Held(x)
<1>1. \A b \in Builders : Id(Request(b)) = <<b, token[b]>> /\ Request(b).ops = operations[b]
  BY DEF Id, Request
<1>2. \A x : x \in Undecided <=>
          \E r \in inflight \cup {Request(b) : b \in {c \in Builders : Waiting(c)}} :
              Id(r) \notin done /\ x = [id |-> Id(r), ops |-> r.ops]
  BY DEF Undecided
<1>. SUFFICES ASSUME NEW x PROVE x \in Undecided <=> Sent(x) \/ Held(x)
  OBVIOUS
<1>3. ASSUME x \in Undecided PROVE Sent(x) \/ Held(x)
  <2>1. PICK r \in inflight \cup {Request(b) : b \in {c \in Builders : Waiting(c)}} :
              Id(r) \notin done /\ x = [id |-> Id(r), ops |-> r.ops]
    BY <1>2, <1>3
  <2>2. CASE r \in inflight
    BY <2>1, <2>2 DEF Sent, Submitted
  <2>3. CASE \E b \in Builders : Waiting(b) /\ r = Request(b)
    BY <1>1, <2>1, <2>3 DEF Held, Submitted
  <2>. QED
    BY <2>2, <2>3
<1>4. ASSUME Sent(x) PROVE x \in Undecided
  BY <1>2, <1>4 DEF Sent, Submitted
<1>5. ASSUME Held(x) PROVE x \in Undecided
  <2>1. PICK b \in Builders : /\ Waiting(b) /\ <<b, token[b]>> \notin done
                             /\ x = [id |-> <<b, token[b]>>, ops |-> operations[b]]
    BY <1>5 DEF Held, Submitted
  <2>. QED
    BY <1>1, <1>2, <2>1
<1>. QED
  BY <1>3, <1>4, <1>5

LEMMA OpenIsNext == \A x : x \in Undecided' <=> Sent(x)' \/ Held(x)'
<1>1. \A b \in Builders : /\ Id(Request(b)') = <<b, token'[b]>>
                          /\ (Request(b)').ops = operations'[b]
  BY DEF Id, Request
<1>2. \A x : x \in Undecided' <=>
          \E r \in inflight' \cup {Request(b)' : b \in {c \in Builders : Waiting(c)'}} :
              Id(r) \notin done' /\ x = [id |-> Id(r), ops |-> r.ops]
  BY DEF Undecided, Id
<1>. SUFFICES ASSUME NEW x PROVE x \in Undecided' <=> Sent(x)' \/ Held(x)'
  OBVIOUS
<1>3. ASSUME x \in Undecided' PROVE Sent(x)' \/ Held(x)'
  <2>1. PICK r \in inflight' \cup {Request(b)' : b \in {c \in Builders : Waiting(c)'}} :
              Id(r) \notin done' /\ x = [id |-> Id(r), ops |-> r.ops]
    BY <1>2, <1>3
  <2>2. CASE r \in inflight'
    BY <2>1, <2>2 DEF Sent, Submitted, Id
  <2>3. CASE \E b \in Builders : Waiting(b)' /\ r = Request(b)'
    BY <1>1, <2>1, <2>3 DEF Held, Submitted
  <2>. QED
    BY <2>2, <2>3
<1>4. ASSUME Sent(x)' PROVE x \in Undecided'
  BY <1>2, <1>4 DEF Sent, Submitted, Id
<1>5. ASSUME Held(x)' PROVE x \in Undecided'
  <2>1. PICK b \in Builders : /\ Waiting(b)' /\ <<b, token'[b]>> \notin done'
                             /\ x = [id |-> <<b, token'[b]>>, ops |-> operations'[b]]
    BY <1>5 DEF Held, Submitted
  <2>. QED
    BY <1>1, <1>2, <2>1
<1>. QED
  BY <1>3, <1>4, <1>5

LEMMA SubmittedEqual ==
    \A i, j, o, p : /\ Submitted(i, o) = Submitted(j, p) <=> i = j /\ o = p
                    /\ Submitted(i, o).id = i /\ Submitted(i, o).ops = o
BY DEF Submitted

\* All that is open under one id is one request.
LEMMA OpenUnique ==
    ASSUME Copies, NEW x \in Undecided, NEW y \in Undecided, x.id = y.id
    PROVE  x = y
<1>1. ASSUME NEW m \in inflight, NEW b \in Builders, Waiting(b), Id(m) = <<b, token[b]>>
      PROVE  m.ops = operations[b]
  BY <1>1 DEF Copies, Id
<1>2. \A m, n \in inflight : Id(m) = Id(n) => m.ops = n.ops
  BY DEF Copies
<1>3. CASE Sent(x) /\ Sent(y)
  BY <1>2, <1>3, SubmittedEqual DEF Sent
<1>4. CASE Sent(x) /\ Held(y)
  BY <1>1, <1>4, SubmittedEqual DEF Sent, Held
<1>5. CASE Held(x) /\ Sent(y)
  BY <1>1, <1>5, SubmittedEqual DEF Sent, Held
<1>6. CASE Held(x) /\ Held(y)
  BY <1>6, SubmittedEqual DEF Held
<1>. QED
  BY <1>3, <1>4, <1>5, <1>6, OpenIs

Current == [b \in Builders |-> IF Waiting(b) THEN token[b] ELSE 0]

Abstract(a) ==
    IF a.kind \in {"none", "ok"} THEN a.kind
    ELSE IF a.kind = "transport" \/ a.resends > 0 THEN "unknown"
    ELSE "failed"

LEMMA AbstractAnswerIs == AbstractAnswer = [b \in Builders |-> Abstract(answer[b])]
BY DEF AbstractAnswer, Abstract

LEMMA AbstractAnswerIsNext == AbstractAnswer' = [b \in Builders |-> Abstract(answer'[b])]
BY DEF AbstractAnswer, Abstract

LEMMA AbstractCases ==
    ASSUME NEW a
    PROVE  /\ a.kind = "none" => Abstract(a) = "none"
           /\ a.kind = "ok" => Abstract(a) = "ok"
<1>1. a.kind \in {"none", "ok"} => Abstract(a) = a.kind
  BY Zenon DEF Abstract
<1>. QED
  BY <1>1, Zenon

\* Steps the application does not see.
Stutter == UNCHANGED <<table, Undecided, done, Current, AbstractAnswer>>

LEMMA StutterIs == Stutter => UNCHANGED Store!vars
BY DEF Stutter, Store!vars, Current

LEMMA RefineCompose ==
    ASSUME IInv, NEW b \in Builders, Compose(b)
    PROVE  Stutter
<1>1. /\ pc[b] = "ready"
      /\ UNCHANGED <<table, done, inflight, pc, token, answer>>
  BY DEF Compose, addInvalid, addOperation, NewBuilder, Composing, server, call, caller
<1>2. \A c \in Builders : c # b => operations'[c] = operations[c]
  BY DEF Compose, addInvalid, addOperation, NewBuilder, IInv, Typed, TypeOK
<1>3. \A x : Sent(x)' <=> Sent(x)
  BY <1>1 DEF Sent
<1>4. \A x : Held(x)' <=> Held(x)
  BY <1>1, <1>2 DEF Held, Waiting
<1>5. Undecided' = Undecided
  BY <1>3, <1>4, OpenIs, OpenIsNext
<1>. QED
  BY <1>1, <1>5 DEF Stutter, Current, Waiting, AbstractAnswer

LEMMA RefineWait ==
    ASSUME IInv, NEW b \in Builders, WaitStep(b)
    PROVE  Stutter
<1>1. /\ UNCHANGED <<table, done, inflight, operations, token, answer>>
      /\ \A c \in Builders : Waiting(c)' <=> Waiting(c)
  BY DEF WaitStep, Waiting
<1>2. \A x : (Sent(x)' <=> Sent(x)) /\ (Held(x)' <=> Held(x))
  BY <1>1 DEF Sent, Held
<1>3. Undecided' = Undecided
  BY <1>2, OpenIs, OpenIsNext
<1>. QED
  BY <1>1, <1>3 DEF Stutter, Current, AbstractAnswer

LEMMA RefineSend ==
    ASSUME IInv, NEW b \in Builders, NEW n, SendStep(b, n)
    PROVE  Stutter
<1>1. /\ UNCHANGED <<table, done, operations, token, answer>>
      /\ Waiting(b) /\ inflight' = inflight \cup {n}
      /\ Id(n) = <<b, token[b]>> /\ n.ops = operations[b]
  BY DEF SendStep, Id
<1>2. \A c \in Builders : Waiting(c)' <=> Waiting(c)
  BY DEF SendStep, Waiting, IInv, Typed, TypeOK
<1>3. \A x : Held(x)' <=> Held(x)
  BY <1>1, <1>2 DEF Held
<1>4. \A x : Sent(x)' <=> Sent(x) \/ (Id(n) \notin done /\ x = Submitted(Id(n), n.ops))
  BY <1>1 DEF Sent
<1>5. \A x : Id(n) \notin done /\ x = Submitted(Id(n), n.ops) => Held(x)
  BY <1>1 DEF Held
<1>6. Undecided' = Undecided
  BY <1>3, <1>4, <1>5, OpenIs, OpenIsNext
<1>. QED
  BY <1>1, <1>2, <1>6 DEF Stutter, Current, AbstractAnswer

LEMMA RefineExecute ==
    ASSUME IInv, NEW b \in Builders, Execute(b)
    PROVE  \E x \in Undecided' : Store!Submit(b, x)
<1>. USE DEF IInv
<1>1. /\ pc[b] = "ready" /\ token' = [token EXCEPT ![b] = @ + 1]
      /\ pc' = [pc EXCEPT ![b] = "send"]
      /\ UNCHANGED <<table, done, inflight, operations, answer>>
  BY DEF Execute, Composing, server, builder, caller
<1>2. /\ \A c \in Builders : c # b => token'[c] = token[c] /\ (Waiting(c)' <=> Waiting(c))
      /\ token'[b] = token[b] + 1 /\ Waiting(b)' /\ ~Waiting(b)
      /\ token[b] \in Nat /\ pc \in [Builders -> {"ready", "send", "sent", "answered", "backoff"}]
      /\ token \in [Builders -> Nat]
  BY <1>1, Numbers DEF Waiting, Typed, TypeOK
<1>0. PICK x : x = Submitted(<<b, token'[b]>>, operations[b])
  OBVIOUS
<1>3. <<b, token'[b]>> \notin done /\ \A m \in inflight : Id(m) # <<b, token'[b]>>
  <2>1. token'[b] \in 1..MaxExecutes /\ ~(token'[b] <= token[b])
    BY <1>2, Numbers DEF Execute, Composing
  <2>. QED
    BY <2>1 DEF Numbered, Id
<1>4. \A y : Sent(y)' <=> Sent(y)
  BY <1>1 DEF Sent
<1>5. \A y : Held(y)' <=> Held(y) \/ y = x
  BY <1>1, <1>2, <1>3, <1>0 DEF Held
<1>6. Undecided' = Undecided \cup {x}
  BY <1>4, <1>5, OpenIs, OpenIsNext
<1>7. \A y \in Undecided : y.id # <<b, token'[b]>>
  <2>1. \A y : Sent(y) => y.id # <<b, token'[b]>>
    BY <1>3, SubmittedEqual DEF Sent
  <2>2. \A y : Held(y) => y.id # <<b, token'[b]>>
    BY <1>2, SubmittedEqual DEF Held
  <2>. QED
    BY <2>1, <2>2, OpenIs
<1>8. x.id = <<b, token'[b]>> /\ x.id[1] = b /\ x.id[2] = token'[b] /\ token'[b] # 0
  BY <1>2, <1>0, SubmittedEqual
<1>9. Current' = [Current EXCEPT ![b] = token'[b]] /\ Current[b] = 0
  BY <1>2 DEF Current
<1>10. AbstractAnswer' = AbstractAnswer
  BY <1>1 DEF AbstractAnswer
<1>11. Store!Submit(b, x)
  BY <1>1, <1>3, <1>6, <1>7, <1>8, <1>9, <1>10 DEF Store!Submit, Store!Idle, Current
<1>. QED
  BY <1>6, <1>11
\* When Execute returns its request is no longer waited for: it stays open
\* only if a copy of it is under way.
LEMMA OpenAfterReturn ==
    ASSUME IInv, NEW b \in Builders, NEW a \in Answers, ReturnStep(b, a), Waiting(b)
    PROVE  /\ Undecided' \in {Undecided, {x \in Undecided : x.id # <<b, token[b]>>}}
           /\ Gone(b, token[b]) => Undecided' = {x \in Undecided : x.id # <<b, token[b]>>}
           /\ <<b, token[b]>> \in done => Undecided' = Undecided
<1>. USE DEF IInv
<1>1. /\ UNCHANGED <<table, done, inflight, token>>
      /\ pc' = [pc EXCEPT ![b] = "ready"]
      /\ pc \in [Builders -> {"ready", "send", "sent", "answered", "backoff"}]
      /\ operations \in [Builders -> Seq(Operations)]
  BY DEF ReturnStep, Return, server, Typed, TypeOK
<1>2. /\ ~Waiting(b)'
      /\ \A c \in Builders : c # b => operations'[c] = operations[c] /\ (Waiting(c)' <=> Waiting(c))
  <2>1. \A c \in Builders : c # b => operations'[c] = operations[c]
    BY <1>1 DEF ReturnStep
  <2>. QED
    BY <1>1, <2>1 DEF Waiting
<1>3. \A x : Sent(x)' <=> Sent(x)
  BY <1>1 DEF Sent
<1>4. \A x : Held(x)' <=> Held(x) /\ x.id # <<b, token[b]>>
  <2>. SUFFICES ASSUME NEW x PROVE Held(x)' <=> Held(x) /\ x.id # <<b, token[b]>>
    OBVIOUS
  <2>1. ASSUME Held(x)' PROVE Held(x) /\ x.id # <<b, token[b]>>
    <3>1. PICK c \in Builders : /\ Waiting(c)' /\ <<c, token[c]>> \notin done
                               /\ x = Submitted(<<c, token[c]>>, operations'[c])
      BY <1>1, <2>1 DEF Held
    <3>2. c # b /\ x.id = <<c, token[c]>>
      BY <1>2, <3>1, SubmittedEqual
    <3>. QED
      BY <1>2, <3>1, <3>2 DEF Held
  <2>2. ASSUME Held(x), x.id # <<b, token[b]>> PROVE Held(x)'
    <3>1. PICK c \in Builders : /\ Waiting(c) /\ <<c, token[c]>> \notin done
                               /\ x = Submitted(<<c, token[c]>>, operations[c])
      BY <2>2 DEF Held
    <3>2. c # b
      BY <2>2, <3>1, SubmittedEqual
    <3>. QED
      BY <1>1, <1>2, <3>1, <3>2 DEF Held
  <2>. QED
    BY <2>1, <2>2
<1>5. ASSUME Gone(b, token[b])
      PROVE  Undecided' = {x \in Undecided : x.id # <<b, token[b]>>}
  <2>1. \A x : Sent(x) => x.id # <<b, token[b]>>
    BY <1>5, SubmittedEqual DEF Gone, Sent
  <2>. QED
    BY <1>3, <1>4, <2>1, OpenIs, OpenIsNext
<1>6. ASSUME <<b, token[b]>> \in done PROVE Undecided' = Undecided
  <2>1. \A x : Held(x) => x.id # <<b, token[b]>>
    BY <1>6, SubmittedEqual DEF Held
  <2>. QED
    BY <1>3, <1>4, <2>1, OpenIs, OpenIsNext
<1>7. ASSUME ~Gone(b, token[b]), <<b, token[b]>> \notin done PROVE Undecided' = Undecided
  <2>1. PICK m \in inflight : Id(m) = <<b, token[b]>>
    BY <1>7 DEF Gone
  <2>2. m.ops = operations[b]
    BY <2>1 DEF Copies, Id
  <2>3. Sent(Submitted(<<b, token[b]>>, operations[b]))
    BY <1>7, <2>1, <2>2 DEF Sent
  <2>4. \A x : Held(x) /\ x.id = <<b, token[b]>> => Sent(x)
    BY <2>3, SubmittedEqual DEF Held
  <2>. QED
    BY <1>3, <1>4, <2>4, OpenIs, OpenIsNext
<1>. QED
  BY <1>5, <1>6, <1>7

LEMMA RefineReturn ==
    ASSUME IInv, NEW b \in Builders, NEW a \in Answers, ReturnStep(b, a)
    PROVE  Store!Succeed(b) \/ Store!Fail(b) \/ Store!Doubt(b) \/ Store!Refuse(b)
<1>. USE DEF IInv
<1>1. /\ UNCHANGED <<table, done, inflight, token>>
      /\ pc' = [pc EXCEPT ![b] = "ready"]
      /\ answer' = [answer EXCEPT ![b] = [a EXCEPT !.resends = resends[b]]]
      /\ pc \in [Builders -> {"ready", "send", "sent", "answered", "backoff"}]
      /\ answer \in [Builders -> Answers] /\ resends[b] \in Nat
  BY Numbers DEF ReturnStep, Return, server, Typed, TypeOK
<1>2. /\ answer'[b].kind = a.kind /\ answer'[b].resends = resends[b]
      /\ \A c \in Builders : c # b => answer'[c] = answer[c]
  BY <1>1 DEF Answers
<1>3. AbstractAnswer' = [AbstractAnswer EXCEPT ![b] = Abstract(answer'[b])]
  BY <1>2, AbstractAnswerIs, AbstractAnswerIsNext
<1>4. CASE pc[b] = "ready"
  <2>1. /\ pc' = pc /\ operations' = operations /\ a.kind = "refused" /\ resends[b] = 0
    BY <1>1, <1>4 DEF ReturnStep, Counters
  <2>2. \A x : (Sent(x)' <=> Sent(x)) /\ (Held(x)' <=> Held(x))
    BY <1>1, <2>1 DEF Sent, Held, Waiting
  <2>3. Undecided' = Undecided
    BY <2>2, OpenIs, OpenIsNext
  <2>4. Current' = Current /\ Current[b] = 0
    BY <1>1, <1>4, <2>1 DEF Current, Waiting
  <2>5. Abstract(answer'[b]) = "failed"
    BY <1>2, <2>1 DEF Abstract
  <2>. QED
    BY <1>1, <1>3, <2>3, <2>4, <2>5 DEF Store!Refuse, Store!Idle, Current
<1>5. CASE pc[b] # "ready"
  <2>1. Waiting(b) /\ token[b] # 0
    BY <1>5 DEF Waiting, Counters
  <2>2. Current' = [Current EXCEPT ![b] = 0] /\ Current[b] = token[b]
    BY <1>1, <2>1 DEF Current, Waiting
  <2>3. CASE a.kind = "ok"
    <3>1. Abstract(answer'[b]) = "ok" /\ <<b, token[b]>> \in done
      BY <1>2, <2>3, AbstractCases DEF ReturnStep
    <3>2. Undecided' = Undecided
      BY <2>1, <3>1, OpenAfterReturn
    <3>. QED
      BY <1>1, <1>3, <2>1, <2>2, <3>1, <3>2
         DEF Store!Succeed, Store!Answer, Store!Id, Store!Idle, Current
  <2>4. CASE a.kind \in {"refused", "canceled", "invalid", "context"} /\ resends[b] = 0
    <3>1. Abstract(answer'[b]) = "failed" /\ Dead(b, token[b])
      BY <1>2, <2>1, <2>4 DEF Abstract, ReturnStep
    <3>2. Undecided' = {x \in Undecided : x.id # <<b, token[b]>>}
      BY <2>1, <3>1, OpenAfterReturn DEF Dead
    <3>. QED
      BY <1>1, <1>3, <2>1, <2>2, <3>1, <3>2
         DEF Store!Fail, Store!Answer, Store!Id, Store!Idle, Current, Dead
  <2>5. CASE a.kind = "transport" \/ (a.kind \notin {"none", "ok", "transport"} /\ resends[b] # 0)
    <3>1. Abstract(answer'[b]) = "unknown"
      BY <1>1, <1>2, <2>5 DEF Abstract
    <3>2. Undecided' \in {Undecided, {x \in Undecided : x.id # <<b, token[b]>>}}
      BY <2>1, OpenAfterReturn
    <3>. QED
      BY <1>1, <1>3, <2>1, <2>2, <3>1, <3>2
         DEF Store!Doubt, Store!Answer, Store!Id, Store!Idle, Current
  <2>6. a.kind \in {"refused", "ok", "transport", "invalid", "canceled", "context"}
    BY DEF ReturnStep, Answers
  <2>. QED
    BY <2>3, <2>4, <2>5, <2>6
<1>. QED
  BY <1>4, <1>5

\* The operators of the store are those of the builder.
LEMMA SameOperators ==
    ASSUME NEW ops, NEW t
    PROVE  /\ Store!DistinctKeys(ops) <=> DistinctKeys(ops)
           /\ Store!AllHold(ops, t) <=> AllHold(ops, t)
           /\ Store!Apply(ops, t) = Apply(ops, t)
BY DEF Store!DistinctKeys, DistinctKeys, Store!AllHold, AllHold, Store!Holds, Holds,
       Store!Satisfies, Satisfies, Store!Apply, Apply, Store!After, After, Store!Absent,
       Absent, Store!IfExists, IfExists, Store!IfNotExists, IfNotExists

LEMMA RefineService ==
    ASSUME IInv, NEW m \in inflight, m.from \in Builders, ServiceStep(m)
    PROVE  Stutter \/ \E x \in Undecided : Store!Commit(x) \/ Store!Forget(x)
<1>. USE DEF IInv
<1>1. /\ UNCHANGED <<operations, token, answer>> /\ inflight' = inflight \ {m}
      /\ \A c \in Builders : Waiting(c)' <=> Waiting(c)
  BY DEF ServiceStep, builder, caller, Reply, Waiting, Typed, TypeOK
<1>2. Current' = Current /\ AbstractAnswer' = AbstractAnswer
  BY <1>1 DEF Current, AbstractAnswer
<1>3. PICK x : x = Submitted(Id(m), m.ops)
  OBVIOUS
<1>4. x.id = Id(m) /\ x.ops = m.ops
  BY <1>3, SubmittedEqual
<1>5. Id(m) \notin done => x \in Undecided
  BY <1>3, OpenIs DEF Sent
<1>6. CASE done' = done \cup {Id(m)} /\ Id(m) \notin done
  <2>1. ASSUME NEW y PROVE Sent(y)' <=> Sent(y) /\ y.id # Id(m)
    <3>1. Sent(y)' <=> \E n \in inflight : /\ n # m /\ Id(n) \notin done /\ Id(n) # Id(m)
                                           /\ y = Submitted(Id(n), n.ops)
      BY <1>1, <1>6 DEF Sent, Id
    <3>2. ASSUME NEW n \in inflight, y = Submitted(Id(n), n.ops)
          PROVE  y.id = Id(n)
      BY <3>2, SubmittedEqual
    <3>. QED
      BY <3>1, <3>2 DEF Sent
  <2>2. ASSUME NEW y PROVE Held(y)' <=> Held(y) /\ y.id # Id(m)
    <3>1. Held(y)' <=> \E b \in Builders : /\ Waiting(b) /\ <<b, token[b]>> \notin done
                                           /\ <<b, token[b]>> # Id(m)
                                           /\ y = Submitted(<<b, token[b]>>, operations[b])
      BY <1>1, <1>6 DEF Held
    <3>2. ASSUME NEW b \in Builders, y = Submitted(<<b, token[b]>>, operations[b])
          PROVE  y.id = <<b, token[b]>>
      BY <3>2, SubmittedEqual
    <3>. QED
      BY <3>1, <3>2 DEF Held
  <2>3. \A y \in Undecided : y.id # Id(m) <=> y # x
    BY <1>4, <1>5, <1>6, OpenUnique
  <2>4. Undecided' = Undecided \ {x}
    BY <2>1, <2>2, <2>3, OpenIs, OpenIsNext
  <2>5. DistinctKeys(m.ops) /\ AllHold(m.ops, table) /\ table' = Apply(m.ops, table)
    BY <1>6 DEF ServiceStep
  <2>6. /\ Store!DistinctKeys(x.ops) /\ Store!AllHold(x.ops, table)
        /\ table' = Store!Apply(x.ops, table)
    BY <1>4, <2>5, SameOperators
  <2>7. Store!Commit(x)
    BY <1>2, <1>4, <1>6, <2>4, <2>6 DEF Store!Commit, Current
  <2>. QED
    BY <1>5, <1>6, <2>7
<1>7. CASE done' = done /\ table' = table
  <2>1. \A y : Held(y)' <=> Held(y)
    BY <1>1, <1>7 DEF Held
  <2>2. \A y : Sent(y) => Sent(y)' \/ (y = x /\ Id(m) \notin done)
    BY <1>1, <1>3, <1>7 DEF Sent, Id
  <2>3. \A y : Sent(y)' => Sent(y)
    BY <1>1, <1>7 DEF Sent, Id
  <2>4. CASE x \in Undecided' \/ Id(m) \in done
    <3>1. Undecided' = Undecided
      BY <2>1, <2>2, <2>3, <2>4, OpenIs, OpenIsNext
    <3>. QED
      BY <1>2, <1>7, <3>1 DEF Stutter
  <2>5. CASE x \notin Undecided' /\ Id(m) \notin done
    <3>1. Undecided' = Undecided \ {x}
      BY <2>1, <2>2, <2>3, <2>5, OpenIs, OpenIsNext
    <3>2. ~(Waiting(m.from) /\ m.token = token[m.from])
      <4>. SUFFICES ASSUME Waiting(m.from), m.token = token[m.from] PROVE FALSE
        OBVIOUS
      <4>1. m.ops = operations[m.from] /\ Id(m) = <<m.from, token[m.from]>>
        BY DEF Copies, Id
      <4>2. Held(x)
        BY <1>3, <2>5, <4>1 DEF Held
      <4>. QED
        BY <2>1, <2>5, <4>2, OpenIsNext
    <3>3. m.token # 0 /\ x.id = <<m.from, m.token>>
      <4>1. m.token \in 1..MaxExecutes
        BY DEF Typed, TypeOK
      <4>. QED
        BY <1>4, <4>1, Numbers DEF Id
    <3>4. Current[m.from] # m.token
      BY <3>2, <3>3 DEF Current
    <3>5. Store!Forget(x)
      BY <1>2, <1>7, <3>1, <3>3, <3>4 DEF Store!Forget, Store!Id, Current
    <3>. QED
      BY <1>5, <2>5, <3>5
  <2>. QED
    BY <2>4, <2>5
<1>. QED
  BY <1>6, <1>7 DEF ServiceStep

LEMMA RefineInit == Init => Store!Init
<1>. SUFFICES ASSUME Init PROVE Store!Init
  OBVIOUS
<1>1. done = {} /\ inflight = {} /\ table = [k \in Keys |-> Absent]
  BY DEF Init
<1>2. \A b \in Builders : ~Waiting(b) /\ answer[b].kind = "none"
  BY DEF Init, Waiting, Answer
<1>3. \A x : ~Sent(x) /\ ~Held(x)
  BY <1>1, <1>2 DEF Sent, Held
<1>4. Undecided = {}
  BY <1>3, OpenIs
<1>5. AbstractAnswer = [b \in Builders |-> "none"]
  BY <1>2, AbstractAnswerIs, AbstractCases
<1>. QED
  BY <1>1, <1>2, <1>4, <1>5 DEF Store!Init, Store!Absent, Absent, Store!Idle

LEMMA RefineNext == IInv /\ [Next]_vars => [Store!Next]_(Store!vars)
<1>. SUFFICES ASSUME IInv, [Next]_vars PROVE Store!Next \/ UNCHANGED Store!vars
  OBVIOUS
<1>1. ASSUME NEW b \in Builders, Compose(b) PROVE UNCHANGED Store!vars
  BY <1>1, RefineCompose, StutterIs
<1>2. ASSUME NEW b \in Builders, Returns(b) PROVE Store!Next
  BY <1>2, ReturnSteps, RefineReturn DEF Store!Next
<1>3. ASSUME NEW b \in Builders, Execute(b) PROVE Store!Next
  BY <1>3, RefineExecute DEF Store!Next
<1>4. ASSUME NEW b \in Builders, Send(b) \/ Resend(b) PROVE UNCHANGED Store!vars
  BY <1>4, SendSteps, RefineSend, StutterIs
<1>5. ASSUME NEW b \in Builders, Waits(b) PROVE UNCHANGED Store!vars
  BY <1>5, WaitSteps, RefineWait, StutterIs
<1>6. ASSUME NEW m \in inflight, Service(m) PROVE Store!Next \/ UNCHANGED Store!vars
  <2>1. ServiceStep(m) /\ m.from \in Builders
    BY <1>6, ServiceSteps DEF IInv
  <2>. QED
    BY <2>1, RefineService, StutterIs DEF Store!Next
<1>7. CASE UNCHANGED vars
  BY <1>7 DEF vars, Store!vars, Undecided, Request, Waiting, AbstractAnswer, Id
<1>. QED
  BY <1>1, <1>2, <1>3, <1>4, <1>5, <1>6, <1>7
     DEF Next, Run, Network, Returns, Waits

\* The builder with its retries, over a network that loses, delays and
\* duplicates requests, does only what the plain transaction store does: a
\* list of operations takes effect in one step or not at all, nil is answered
\* after it did, and a failure only when it never will.
THEOREM Refinement == Spec => ImplementsStore
BY RefineInit, RefineNext, Inductive, PTL DEF Spec, ImplementsStore, Store!Spec
==============================================================================
