----------------------------- MODULE ItemsProofs -----------------------------
(***************************************************************************)
(* Writing of items: the optimistic lock and the read-after-write helpers  *)
(* (ItemWrites), the older transactions (LegacyTransaction) and encrypted  *)
(* attributes (Encryption), for any number of clients, keys, attributes,   *)
(* operations and failures.                                                *)
(***************************************************************************)
EXTENDS ItemWrites, LegacyTransaction, Encryption,
        FiniteSetTheorems, SequenceTheorems, WellFoundedInduction, TLAPS

(***************************************************************************)
(* The optimistic lock and the read-after-write helpers of ItemWrites, for *)
(* any number of clients, writes, re-sends and retries.                    *)
(*                                                                         *)
(* The parts of the inductive invariant are predicates on values (a call   *)
(* r, a model m, the item i, the index x, the last stamp s), so that a     *)
(* step that leaves the item alone needs an argument about one call only.  *)
(***************************************************************************)
Ops == Creates \cup Updates \cup {"Delete", "Query"}

ItemType == [there : BOOLEAN, version : {NoVersion} \cup Nat, stamp : Nat, epoch : Nat]

ItemModels == [version : Nat, stamp : Nat, epoch : Nat]

Overs == [stamp : Nat, epoch : Nat]

Calls == [pc : {"sent", "responding", "reading", "done"}, op : Ops,
          then : {"return", "verify", "copyBack", "queryGSI", "take"}, model : ItemModels,
          tries : Nat \ {0}, over : Seq(Overs), mine : Nat, behind : BOOLEAN,
          outcome : {"none", "ok", "refused"},
          answer : {"none", "ok", "condition", "error", "notfound"},
          mode : {"none", "main", "plain", "retry", "verify"}, byIndex : BOOLEAN,
          attempt : Nat, read : Nat]

ItemTypeOK ==
    /\ stamp \in Nat
    /\ item \in ItemType
    /\ index \in ItemType
    /\ copy \in [Clients -> ItemModels]
    /\ call \in [Clients -> {NoCall} \cup Calls]

\* Every write that is applied gets the next stamp; the index has an older item.
Stamped(i, x, s) ==
    /\ i.stamp = s /\ i.epoch <= s
    /\ x.stamp <= s /\ x.epoch <= s

\* What makes the lock work: a model of the epoch the item is in has either
\* an older version than the item or is the item.  An item without a version
\* fails every comparison, and its epoch lasts until it is overwritten.
Seen(m, i, s) ==
    /\ m.stamp <= s
    /\ m.epoch <= s
    /\ m.epoch = i.epoch =>
          \/ i.version = NoVersion
          \/ m.version < i.version
          \/ m.version = i.version /\ m.stamp = i.stamp

\* The model of a client whose Create is answered.
Created(r) == [version |-> r.model.version, stamp |-> r.mine, epoch |-> r.mine]

\* What a call under the lock has overwritten so far: what its model is of,
\* and once per epoch, because it leaves a larger version behind.
LockKept(r, i) ==
    \A n \in 1..Len(r.over) :
        /\ r.over[n].epoch = r.model.epoch => r.over[n].stamp = r.model.stamp
        /\ r.over[n].epoch = i.epoch => i.version > r.model.version
        /\ \A k \in 1..Len(r.over) : r.over[n].epoch = r.over[k].epoch => n = k

\* Where the call is and what became of its write.
Applied(r) == Len(r.over) > 0 /\ r.mine > 0

Flow(r) ==
    /\ r.pc \in {"sent", "responding"} => r.op # "Query"
    /\ r.op # "Query" /\ r.pc = "reading" => Applied(r)
    /\ r.pc = "responding" /\ r.outcome # "refused" => Applied(r)
    /\ r.tries = 1 /\ r.pc = "sent" => Len(r.over) = 0
    /\ r.tries = 1 /\ r.pc = "responding" /\ r.outcome = "refused" => Len(r.over) = 0
    /\ r.op # "Query" /\ r.pc = "done" =>
          /\ r.answer = "ok" => Len(r.over) > 0
          /\ r.answer = "condition" /\ r.tries = 1 => Len(r.over) = 0

\* What a read has to find.
HasToFind(r) == TableSelected(r) \/ r.mode = "verify" \/ (r.then = "queryGSI" /\ ~r.behind)

FreshItem(r, x, s) ==
    /\ r.mine <= s
    /\ r.then = "queryGSI" /\ ~r.behind /\ x.there => r.mine <= x.stamp
    /\ r.pc \in {"sent", "responding"} => r.mode = "none"
    /\ r.pc = "done" /\ r.answer = "ok" /\ HasToFind(r) => r.read >= r.mine

\* A call r of a client whose model is m.
Sound(r, m, i, x, s) ==
    /\ Seen(r.model, i, s)
    /\ r.op \in Creates /\ r.mine > 0 => Seen(Created(r), i, s)
    /\ r.pc \in {"sent", "responding"} => m = r.model
    /\ \A n \in 1..Len(r.over) : r.over[n].epoch <= s
    /\ locked(r.op, r.model) => LockKept(r, i)
    /\ Flow(r)
    /\ FreshItem(r, x, s)

ItemInv ==
    /\ ItemTypeOK
    /\ Stamped(item, index, stamp)
    /\ Seen(Model(index), item, stamp)
    /\ \A c \in Clients : Seen(copy[c], item, stamp)
    /\ \A c \in Clients : call[c] # NoCall => Sound(call[c], copy[c], item, index, stamp)

-----------------------------------------------------------------------------
(* Values.                                                                 *)

LEMMA IdleIsNoCall == \A r \in Calls : r # NoCall
  <1> SUFFICES ASSUME NEW r \in Calls PROVE r # NoCall
    OBVIOUS
  <1>1. r.pc # "idle"
    BY DEF Calls
  <1>2. NoCall.pc = "idle"
    BY DEF NoCall
  <1> QED
    BY <1>1, <1>2

LEMMA BusyIsCall ==
    ASSUME ItemInv, NEW c \in Clients, call[c].pc # "idle"
    PROVE  /\ call[c] \in Calls
           /\ Sound(call[c], copy[c], item, index, stamp)
  BY IdleIsNoCall DEF ItemInv, ItemTypeOK, NoCall

LEMMA ModelType == \A i \in ItemType : Model(i) \in ItemModels
  BY DEF ItemType, Model, ItemModels, NoVersion

\* What the item is a model of is the item.
LEMMA ModelSeen ==
    ASSUME NEW i \in ItemType, NEW s \in Nat, i.stamp <= s, i.epoch <= s
    PROVE  Seen(Model(i), i, s)
  BY DEF ItemType, Model, Seen, NoVersion

LEMMA EmptyOver == \A r \in Calls : r.over = <<>> <=> Len(r.over) = 0
  <1> SUFFICES ASSUME NEW r \in Calls PROVE r.over = <<>> <=> Len(r.over) = 0
    OBVIOUS
  <1>1. r.over \in Seq(Overs)
    BY DEF Calls
  <1> QED
    BY <1>1, EmptySeq

-----------------------------------------------------------------------------
(* A step of a client that leaves the item, the index and the stamp.       *)

LEMMA Local ==
    ASSUME ItemInv, NEW c \in Clients, UNCHANGED <<item, index, stamp>>,
           NEW m \in ItemModels, copy' = [copy EXCEPT ![c] = m], Seen(m, item, stamp),
           NEW r \in {NoCall} \cup Calls, call' = [call EXCEPT ![c] = r],
           r # NoCall => Sound(r, m, item, index, stamp)
    PROVE  ItemInv'
  <1>1. ItemTypeOK'
    BY DEF ItemInv, ItemTypeOK
  <1>2. Stamped(item, index, stamp)' /\ Seen(Model(index), item, stamp)'
    BY DEF ItemInv
  <1>3. ASSUME NEW d \in Clients PROVE Seen(copy'[d], item', stamp')
    <2>1. copy'[d] = IF d = c THEN m ELSE copy[d]
      BY DEF ItemInv, ItemTypeOK
    <2> QED
      BY <2>1 DEF ItemInv
  <1>4. ASSUME NEW d \in Clients, call'[d] # NoCall
        PROVE  Sound(call'[d], copy'[d], item', index', stamp')
    <2>1. copy'[d] = IF d = c THEN m ELSE copy[d]
      BY DEF ItemInv, ItemTypeOK
    <2>2. call'[d] = IF d = c THEN r ELSE call[d]
      BY DEF ItemInv, ItemTypeOK
    <2> QED
      BY <1>4, <2>1, <2>2 DEF ItemInv
  <1> QED
    BY <1>1, <1>2, <1>3, <1>4 DEF ItemInv

\* A call that has written nothing yet.
LEMMA NewCall ==
    ASSUME ItemInv, NEW c \in Clients, NEW r \in Calls, r.model = copy[c], Len(r.over) = 0,
           r.answer = "none", UNCHANGED <<item, index, stamp, copy>>,
           call' = [call EXCEPT ![c] = r],
           \/ r.op # "Query" /\ r.pc = "sent" /\ r.mine = 0 /\ r.mode = "none"
           \/ r.op = "Query" /\ r.pc = "reading" /\ r.mine = copy[c].stamp /\ r.then = "take"
    PROVE  ItemInv'
  <1>1. copy[c] \in ItemModels /\ copy' = [copy EXCEPT ![c] = copy[c]]
    BY DEF ItemInv, ItemTypeOK
  <1>2. Seen(copy[c], item, stamp)
    BY DEF ItemInv
  <1>3. copy[c].stamp \in Nat /\ copy[c].stamp <= stamp /\ stamp \in Nat
    BY <1>1, <1>2 DEF Seen, ItemModels, ItemInv, ItemTypeOK
  <1>4. Flow(r)
    BY DEF Flow, Applied
  <1>5. r.mine <= stamp
    BY <1>3
  <1>6. FreshItem(r, index, stamp)
    <2>1. index.there => 0 <= index.stamp
      BY DEF ItemInv, ItemTypeOK, ItemType
    <2> QED
      BY <1>5, <2>1 DEF FreshItem
  <1>7. LockKept(r, item) /\ \A n \in 1..Len(r.over) : r.over[n].epoch <= stamp
    BY DEF LockKept
  <1>8. ~(r.op \in Creates /\ r.mine > 0)
    BY DEF Creates
  <1>9. Sound(r, copy[c], item, index, stamp)
    BY <1>2, <1>4, <1>6, <1>7, <1>8 DEF Sound
  <1> QED
    BY <1>1, <1>2, <1>9, Local

LEMMA ItemBeginSafe ==
    ASSUME ItemInv, NEW c \in Clients, NEW op \in Ops \ {"Query"},
           NEW then \in {"return", "verify", "copyBack", "queryGSI"}, Begin(c, op, then)
    PROVE  ItemInv'
  <1>1. PICK r : r = [pc |-> "sent", op |-> op, then |-> then, model |-> copy[c], tries |-> 1,
            over |-> <<>>, mine |-> 0, behind |-> FALSE, outcome |-> "none", answer |-> "none",
            mode |-> "none", byIndex |-> FALSE, attempt |-> 0, read |-> 0]
    OBVIOUS
  <1>2. copy[c] \in ItemModels
    BY DEF ItemInv, ItemTypeOK
  <1>3. <<>> \in Seq(Overs) /\ Len(<<>>) = 0
    BY EmptySeq
  <1>4. r \in Calls
    BY <1>1, <1>2, <1>3 DEF Calls
  <1>5. Len(r.over) = 0
    BY <1>1, <1>3
  <1> QED
    BY <1>1, <1>4, <1>5, NewCall DEF Begin

LEMMA QuerySafe ==
    ASSUME ItemInv, NEW c \in Clients, NEW mode \in {"main", "plain", "retry", "verify"},
           NEW byIndex \in BOOLEAN, QueryAfterWrite(c, mode, byIndex)
    PROVE  ItemInv'
  <1>1. PICK r : r = [pc |-> "reading", op |-> "Query", then |-> "take", mode |-> mode,
            byIndex |-> byIndex, attempt |-> 0, over |-> <<>>, mine |-> copy[c].stamp, behind |-> FALSE,
            answer |-> "none", read |-> 0, model |-> copy[c], tries |-> 1, outcome |-> "none"]
    OBVIOUS
  <1>2. copy[c] \in ItemModels /\ copy[c].stamp \in Nat
    BY DEF ItemInv, ItemTypeOK, ItemModels
  <1>3. <<>> \in Seq(Overs) /\ Len(<<>>) = 0
    BY EmptySeq
  <1>4. r \in Calls
    BY <1>1, <1>2, <1>3 DEF Calls, Ops
  <1>5. Len(r.over) = 0
    BY <1>1, <1>3
  <1> QED
    BY <1>1, <1>4, <1>5, NewCall DEF QueryAfterWrite

\* A call that goes on, or is over, and keeps its model.
LEMMA GoesOn ==
    ASSUME ItemInv, NEW c \in Clients, NEW r \in Calls,
           UNCHANGED <<item, index, stamp, copy>>, call' = [call EXCEPT ![c] = r],
           call[c].pc \in {"sent", "responding"} \/ r.pc \notin {"sent", "responding"},
           call[c].pc # "idle",
           r.model = call[c].model, r.op = call[c].op, r.over = call[c].over,
           r.mine = call[c].mine, Flow(r), FreshItem(r, index, stamp)
    PROVE  ItemInv'
  <1>1. copy[c] \in ItemModels /\ copy' = [copy EXCEPT ![c] = copy[c]] /\ Seen(copy[c], item, stamp)
    BY DEF ItemInv, ItemTypeOK
  <1>2. Sound(call[c], copy[c], item, index, stamp)
    BY BusyIsCall
  <1>3. Sound(r, copy[c], item, index, stamp)
    BY <1>2 DEF Sound, Created, LockKept
  <1> QED
    BY <1>1, <1>3, Local

LEMMA ItemRefusedSafe ==
    ASSUME ItemInv, NEW c \in Clients, Arrive(c), ~condition(call[c].op, call[c].model)
    PROVE  ItemInv'
  <1>1. PICK r : r = [call[c] EXCEPT !.pc = "responding", !.outcome = "refused"]
    OBVIOUS
  <1>2. call[c].pc = "sent" /\ call' = [call EXCEPT ![c] = r] /\ UNCHANGED <<item, index, stamp, copy>>
    BY <1>1 DEF Arrive
  <1>3. call[c] \in Calls /\ Sound(call[c], copy[c], item, index, stamp)
    BY <1>2, BusyIsCall
  <1>4. r \in Calls
    BY <1>1, <1>3 DEF Calls
  <1>5. /\ r.pc = "responding" /\ r.outcome = "refused" /\ r.model = call[c].model
        /\ r.op = call[c].op /\ r.over = call[c].over /\ r.mine = call[c].mine
        /\ r.tries = call[c].tries /\ r.then = call[c].then /\ r.behind = call[c].behind
        /\ r.mode = call[c].mode
    BY <1>1, <1>3 DEF Calls
  <1>6. Flow(r) /\ FreshItem(r, index, stamp)
    BY <1>2, <1>3, <1>5 DEF Sound, Flow, FreshItem, Applied
  <1> QED
    BY <1>2, <1>4, <1>5, <1>6, GoesOn

LEMMA LoseSafe ==
    ASSUME ItemInv, NEW c \in Clients, Lose(c)
    PROVE  ItemInv'
  <1>1. call[c].pc \in {"sent", "responding"} /\ UNCHANGED <<item, index, stamp, copy>>
    BY DEF Lose
  <1>2. call[c] \in Calls /\ Sound(call[c], copy[c], item, index, stamp)
    BY <1>1, BusyIsCall
  <1>3. CASE call[c].tries < MaxTries
    <2>1. PICK r : r = [call[c] EXCEPT !.pc = "sent", !.tries = call[c].tries + 1]
      OBVIOUS
    <2>2. call' = [call EXCEPT ![c] = r]
      BY <1>3, <2>1 DEF Lose
    <2>3. r \in Calls
      <3>1. call[c].tries + 1 \in Nat \ {0}
        BY <1>2 DEF Calls
      <3> QED
        BY <1>2, <2>1, <3>1 DEF Calls
    <2>4. /\ r.pc = "sent" /\ r.tries = call[c].tries + 1 /\ r.model = call[c].model
          /\ r.op = call[c].op /\ r.over = call[c].over /\ r.mine = call[c].mine
          /\ r.then = call[c].then /\ r.behind = call[c].behind /\ r.mode = call[c].mode
      BY <1>2, <2>1 DEF Calls
    <2>5. r.tries # 1
      BY <1>2, <2>4 DEF Calls
    <2>6. Flow(r) /\ FreshItem(r, index, stamp)
      BY <1>1, <1>2, <2>4, <2>5 DEF Sound, Flow, FreshItem, Applied
    <2> QED
      BY <1>1, <2>2, <2>3, <2>4, <2>6, GoesOn
  <1>4. CASE ~(call[c].tries < MaxTries)
    <2>1. PICK r : r = [call[c] EXCEPT !.pc = "done", !.answer = "error"]
      OBVIOUS
    <2>2. call' = [call EXCEPT ![c] = r]
      BY <1>4, <2>1 DEF Lose
    <2>3. r \in Calls
      BY <1>2, <2>1 DEF Calls
    <2>4. /\ r.pc = "done" /\ r.answer = "error" /\ r.model = call[c].model
          /\ r.op = call[c].op /\ r.over = call[c].over /\ r.mine = call[c].mine
          /\ r.then = call[c].then /\ r.behind = call[c].behind
      BY <1>2, <2>1 DEF Calls
    <2>5. Flow(r) /\ FreshItem(r, index, stamp)
      BY <1>1, <1>2, <2>4 DEF Sound, Flow, FreshItem, Applied
    <2> QED
      BY <1>1, <2>2, <2>3, <2>4, <2>5, GoesOn
  <1> QED
    BY <1>3, <1>4

LEMMA ReturnSafe ==
    ASSUME ItemInv, NEW c \in Clients, Return(c)
    PROVE  ItemInv'
  <1>1. copy[c] \in ItemModels /\ copy' = [copy EXCEPT ![c] = copy[c]] /\ Seen(copy[c], item, stamp)
    BY DEF ItemInv, ItemTypeOK, Return
  <1> QED
    BY <1>1, Local DEF Return

\* A refused write is answered with an error, whatever executor sent it.
LEMMA RefusedIsError ==
    ASSUME NEW exec \in Executors, NEW op \in Ops \ {"Query"}
    PROVE  executed(exec, op, "refused") \in {"condition", "error"}
  BY DEF executed, Executors, Ops, Creates, Updates, ExecutePutItem, ExecuteUpdateItem,
         ExecuteDeleteItem, executeConditionalWrite, UpdateExecutorExecute, batchExecutePutItem,
         batchExecuteDeleteItem, Mapped, Wrapped

LEMMA RespondRefusedSafe ==
    ASSUME ItemInv, NEW c \in Clients, Respond(c), call[c].outcome = "refused"
    PROVE  ItemInv'
  <1>1. PICK exec \in Executors :
           call' = [call EXCEPT ![c] = [call[c] EXCEPT !.pc = "done",
                                           !.answer = executed(exec, call[c].op, "refused")]]
    BY DEF Respond
  <1>2. PICK a : a = executed(exec, call[c].op, "refused")
    OBVIOUS
  <1>3. PICK r : r = [call[c] EXCEPT !.pc = "done", !.answer = a]
    OBVIOUS
  <1>4. /\ call[c].pc = "responding" /\ call' = [call EXCEPT ![c] = r]
        /\ UNCHANGED <<item, index, stamp, copy>>
    BY <1>1, <1>2, <1>3 DEF Respond
  <1>5. call[c] \in Calls /\ Sound(call[c], copy[c], item, index, stamp)
    BY <1>4, BusyIsCall
  <1>6. a \in {"condition", "error"}
    <2>1. call[c].op \in Ops \ {"Query"}
      BY <1>4, <1>5 DEF Calls, Sound, Flow
    <2> QED
      BY <1>2, <2>1, RefusedIsError
  <1>7. r \in Calls
    BY <1>3, <1>5, <1>6 DEF Calls
  <1>8. /\ r.pc = "done" /\ r.answer = a /\ r.model = call[c].model
        /\ r.op = call[c].op /\ r.over = call[c].over /\ r.mine = call[c].mine
        /\ r.tries = call[c].tries /\ r.then = call[c].then /\ r.behind = call[c].behind
        /\ r.mode = call[c].mode
    BY <1>3, <1>5 DEF Calls
  <1>9. Flow(r) /\ FreshItem(r, index, stamp)
    BY <1>4, <1>5, <1>6, <1>8 DEF Sound, Flow, FreshItem, Applied
  <1> QED
    BY <1>4, <1>7, <1>8, <1>9, GoesOn

\* A client that learns that its Create was applied has the item it created.
LEMMA RespondOkSafe ==
    ASSUME ItemInv, NEW c \in Clients, Respond(c), call[c].outcome # "refused"
    PROVE  ItemInv'
  <1>1. call[c].pc = "responding" /\ UNCHANGED <<item, index, stamp>>
    BY DEF Respond
  <1>2. call[c] \in Calls /\ Sound(call[c], copy[c], item, index, stamp)
    BY <1>1, BusyIsCall
  <1>3. PICK m : m = modelAfter(call[c], copy[c])
    OBVIOUS
  <1>4. copy' = [copy EXCEPT ![c] = m]
    BY <1>3 DEF Respond
  <1>5. /\ copy[c] = call[c].model /\ Seen(copy[c], item, stamp) /\ copy[c] \in ItemModels
        /\ call[c].mine > 0 /\ call[c].mine \in Nat
    BY <1>1, <1>2 DEF Sound, Flow, Applied, Calls, ItemInv, ItemTypeOK
  <1>6. m \in ItemModels /\ Seen(m, item, stamp)
    <2>1. CASE call[c].op \in Creates
      <3>1. m = [copy[c] EXCEPT !.stamp = call[c].mine, !.epoch = call[c].mine]
        BY <1>3, <2>1 DEF modelAfter
      <3>2. m = Created(call[c])
        BY <1>5, <3>1 DEF Created, ItemModels
      <3>3. Seen(Created(call[c]), item, stamp)
        BY <1>2, <1>5, <2>1 DEF Sound
      <3> QED
        BY <1>5, <3>2, <3>3 DEF Created, ItemModels
    <2>2. CASE call[c].op \notin Creates
      BY <1>3, <1>5, <2>2 DEF modelAfter
    <2> QED
      BY <2>1, <2>2
  <1>7. PICK r : r = CASE call[c].then = "return"   -> [call[c] EXCEPT !.pc = "done", !.answer = "ok"]
                       [] call[c].then = "queryGSI" -> [call[c] EXCEPT !.pc = "reading", !.mode = "retry", !.byIndex = TRUE]
                       [] OTHER                     -> [call[c] EXCEPT !.pc = "reading", !.mode = "main"]
    OBVIOUS
  <1>8. call' = [call EXCEPT ![c] = r]
    BY <1>7 DEF Respond
  <1>9. r \in Calls
    BY <1>2, <1>7 DEF Calls
  <1>9a. call[c].mode = "none"
    BY <1>1, <1>2 DEF Sound, FreshItem
  <1>10. /\ r.model = call[c].model /\ r.op = call[c].op /\ r.over = call[c].over
         /\ r.mine = call[c].mine /\ r.tries = call[c].tries /\ r.then = call[c].then
         /\ r.behind = call[c].behind
         /\ \/ r.pc = "done" /\ r.answer = "ok" /\ r.then = "return" /\ r.mode = "none"
            \/ r.pc = "reading"
    BY <1>2, <1>7, <1>9a DEF Calls
  <1>11. Flow(r)
    BY <1>1, <1>2, <1>10 DEF Sound, Flow, Applied
  <1>12. FreshItem(r, index, stamp)
    BY <1>1, <1>2, <1>10 DEF Sound, FreshItem, HasToFind, TableSelected
  <1>13. Sound(r, m, item, index, stamp)
    BY <1>2, <1>10, <1>11, <1>12 DEF Sound, Created, LockKept
  <1> QED
    BY <1>1, <1>4, <1>6, <1>8, <1>9, <1>13, Local

\* What the item or the index holds is something a client may have seen.
LEMMA ReadItem ==
    ASSUME ItemInv, NEW r
    PROVE  /\ seen(r) \in ItemType
           /\ Seen(Model(seen(r)), item, stamp)
           /\ Model(seen(r)) \in ItemModels
  <1>1. item \in ItemType /\ index \in ItemType /\ stamp \in Nat
    BY DEF ItemInv, ItemTypeOK
  <1>2. item.stamp <= stamp /\ item.epoch <= stamp
    BY <1>1 DEF ItemInv, Stamped, ItemType
  <1>3. Seen(Model(item), item, stamp) /\ Seen(Model(index), item, stamp)
    BY <1>1, <1>2, ModelSeen DEF ItemInv
  <1> QED
    BY <1>1, <1>3, ModelType DEF seen

LEMMA ReadSafe ==
    ASSUME ItemInv, NEW c \in Clients, Read(c)
    PROVE  ItemInv'
  <1>1. call[c].pc = "reading" /\ UNCHANGED <<item, index, stamp>>
    BY DEF Read
  <1>2. call[c] \in Calls /\ Sound(call[c], copy[c], item, index, stamp)
    BY <1>1, BusyIsCall
  <1>3. PICK i : i = seen(call[c])
    OBVIOUS
  <1>4. i \in ItemType /\ Seen(Model(i), item, stamp) /\ Model(i) \in ItemModels
    BY <1>3, ReadItem
  <1>5. CASE again(call[c], i)
    <2>1. PICK r : r = [call[c] EXCEPT !.attempt = call[c].attempt + 1]
      OBVIOUS
    <2>2. call' = [call EXCEPT ![c] = r] /\ UNCHANGED copy
      BY <1>3, <1>5, <2>1 DEF Read
    <2>3. r \in Calls
      <3>1. call[c].attempt + 1 \in Nat
        BY <1>2 DEF Calls
      <3> QED
        BY <1>2, <2>1, <3>1 DEF Calls
    <2>4. /\ r.pc = call[c].pc /\ r.model = call[c].model /\ r.op = call[c].op
          /\ r.over = call[c].over /\ r.mine = call[c].mine /\ r.then = call[c].then
          /\ r.behind = call[c].behind
      BY <1>2, <2>1 DEF Calls
    <2>5. Flow(r) /\ FreshItem(r, index, stamp)
      BY <1>1, <1>2, <2>4 DEF Sound, Flow, FreshItem, Applied
    <2> QED
      BY <1>1, <2>2, <2>3, <2>4, <2>5, GoesOn
  <1>6. CASE ~again(call[c], i) /\ fallsBack(call[c], i)
    <2>0. PICK b \in BOOLEAN :
             call' = [call EXCEPT ![c] = [call[c] EXCEPT !.mode = "main", !.byIndex = b]]
      BY <1>3, <1>6 DEF Read
    <2>1. PICK r : r = [call[c] EXCEPT !.mode = "main", !.byIndex = b]
      OBVIOUS
    <2>2. call' = [call EXCEPT ![c] = r] /\ UNCHANGED copy
      BY <1>3, <1>6, <2>0, <2>1 DEF Read
    <2>3. r \in Calls
      BY <1>2, <2>1 DEF Calls
    <2>4. /\ r.pc = call[c].pc /\ r.model = call[c].model /\ r.op = call[c].op
          /\ r.over = call[c].over /\ r.mine = call[c].mine /\ r.then = call[c].then
          /\ r.behind = call[c].behind
      BY <1>2, <2>1 DEF Calls
    <2>5. Flow(r) /\ FreshItem(r, index, stamp)
      BY <1>1, <1>2, <2>4 DEF Sound, Flow, FreshItem, Applied
    <2> QED
      BY <1>1, <2>2, <2>3, <2>4, <2>5, GoesOn
  <1>7. CASE ~again(call[c], i) /\ ~fallsBack(call[c], i)
    <2>1. PICK a : a = answer(call[c], i)
      OBVIOUS
    <2>2. PICK m : m = IF a = "ok" /\ call[c].then \in {"copyBack", "take"} THEN Model(i) ELSE copy[c]
      OBVIOUS
    <2>3. PICK r : r = [call[c] EXCEPT !.pc = "done", !.answer = a, !.read = i.stamp]
      OBVIOUS
    <2>4. call' = [call EXCEPT ![c] = r]
      BY <1>3, <1>7, <2>1, <2>3 DEF Read
    <2>5. copy' = [copy EXCEPT ![c] = m]
      <3>1. copy' = IF a = "ok" /\ call[c].then \in {"copyBack", "take"}
                    THEN [copy EXCEPT ![c] = Model(i)] ELSE copy
        BY <1>3, <1>7, <2>1 DEF Read
      <3>2. copy = [copy EXCEPT ![c] = copy[c]]
        BY DEF ItemInv, ItemTypeOK
      <3> QED
        BY <2>2, <3>1, <3>2
    <2>6. m \in ItemModels /\ Seen(m, item, stamp)
      BY <1>4, <2>2 DEF ItemInv, ItemTypeOK
    <2>7. a \in {"ok", "error", "notfound"}
      BY <2>1 DEF answer
    <2>8. r \in Calls
      <3>1. i.stamp \in Nat
        BY <1>4 DEF ItemType
      <3> QED
        BY <1>2, <2>3, <2>7, <3>1 DEF Calls
    <2>9. /\ r.pc = "done" /\ r.answer = a /\ r.read = i.stamp /\ r.model = call[c].model
          /\ r.op = call[c].op /\ r.over = call[c].over /\ r.mine = call[c].mine
          /\ r.then = call[c].then /\ r.behind = call[c].behind /\ r.mode = call[c].mode
          /\ r.byIndex = call[c].byIndex
      BY <1>2, <2>3 DEF Calls
    <2>10. Flow(r)
      BY <1>1, <1>2, <2>7, <2>9 DEF Sound, Flow, Applied
    <2>11. ASSUME a = "ok", HasToFind(r) PROVE i.stamp >= call[c].mine
      <3>1. call[c].mine <= stamp /\ call[c].mine \in Nat /\ stamp \in Nat /\ i.stamp \in Nat
        BY <1>2, <1>4 DEF Sound, FreshItem, Calls, ItemInv, ItemTypeOK, ItemType
      <3>2. CASE TableSelected(call[c])
        <4>1. i.stamp = stamp
          BY <1>3, <3>2 DEF seen, ConsistentRead, TableSelected, ItemInv, Stamped
        <4> QED
          BY <3>1, <4>1
      <3>3. CASE call[c].mode = "verify"
        BY <2>1, <2>11, <3>3 DEF answer, verified
      <3>4. CASE ~TableSelected(call[c]) /\ call[c].mode # "verify"
        <4>1. i = index /\ i.there
          BY <1>3, <2>1, <2>11, <3>4 DEF answer, seen, ConsistentRead, TableSelected
        <4>2. call[c].then = "queryGSI" /\ ~call[c].behind
          BY <2>9, <2>11, <3>4 DEF HasToFind, TableSelected
        <4>3. call[c].mine <= index.stamp
          BY <1>2, <4>1, <4>2 DEF Sound, FreshItem
        <4> QED
          BY <3>1, <4>1, <4>3
      <3> QED
        BY <3>2, <3>3, <3>4
    <2>12. FreshItem(r, index, stamp)
      BY <1>2, <2>9, <2>11 DEF Sound, FreshItem
    <2>13. Sound(r, m, item, index, stamp)
      BY <1>2, <2>9, <2>10, <2>12 DEF Sound, Created, LockKept
    <2> QED
      BY <1>1, <2>4, <2>5, <2>6, <2>8, <2>13, Local
  <1> QED
    BY <1>5, <1>6, <1>7

-----------------------------------------------------------------------------
(* A write that is applied: under the lock the version of the item grows   *)
(* in its epoch; every other write begins an epoch no one has seen.        *)

Grown(i, j, s) ==
    /\ j.stamp = s + 1
    /\ \/ j.epoch = s + 1
       \/ j.epoch = i.epoch /\ i.version \in Nat /\ j.version = i.version + 1

LEMMA SeenAfter ==
    ASSUME NEW i \in ItemType, NEW j \in ItemType, NEW s \in Nat, Grown(i, j, s),
           NEW m \in ItemModels, Seen(m, i, s)
    PROVE  Seen(m, j, s + 1)
  BY DEF Grown, Seen, ItemModels, ItemType, NoVersion

\* Another client's call, or its own before this write.
LEMMA LockKeptAfter ==
    ASSUME NEW i \in ItemType, NEW j \in ItemType, NEW s \in Nat, Grown(i, j, s),
           NEW r \in Calls, \A n \in 1..Len(r.over) : r.over[n].epoch <= s, LockKept(r, i)
    PROVE  LockKept(r, j)
  <1> SUFFICES ASSUME NEW n \in 1..Len(r.over), r.over[n].epoch = j.epoch
               PROVE  j.version > r.model.version
    BY DEF LockKept
  <1>1. r.over[n].epoch <= s /\ r.model.version \in Nat
    BY DEF Calls, ItemModels
  <1>2. r.over[n] \in Overs
    BY DEF Calls
  <1>3. j.epoch # s + 1
    BY <1>1, <1>2 DEF Overs
  <1>4. j.epoch = i.epoch /\ i.version \in Nat /\ j.version = i.version + 1
    BY <1>3 DEF Grown
  <1>5. i.version > r.model.version
    BY <1>4 DEF LockKept
  <1> QED
    BY <1>1, <1>4, <1>5

LEMMA SoundAfter ==
    ASSUME NEW i \in ItemType, NEW j \in ItemType, NEW s \in Nat, Grown(i, j, s),
           NEW x \in ItemType, NEW r \in Calls, NEW m, Sound(r, m, i, x, s)
    PROVE  Sound(r, m, j, x, s + 1)
  <1>1. r.model \in ItemModels /\ r.mine \in Nat /\ r.over \in Seq(Overs)
    BY DEF Calls
  <1>2. Seen(r.model, j, s + 1)
    BY <1>1, SeenAfter DEF Sound
  <1>3. r.op \in Creates /\ r.mine > 0 => Seen(Created(r), j, s + 1)
    <2>1. Created(r) \in ItemModels
      BY <1>1 DEF Created, ItemModels
    <2> QED
      BY <2>1, SeenAfter DEF Sound
  <1>4. ASSUME NEW n \in 1..Len(r.over) PROVE r.over[n].epoch <= s + 1
    <2>1. r.over[n] \in Overs
      BY <1>1
    <2>2. r.over[n].epoch <= s
      BY DEF Sound
    <2> QED
      BY <2>1, <2>2 DEF Overs
  <1>5. locked(r.op, r.model) => LockKept(r, j)
    BY LockKeptAfter DEF Sound
  <1>6. r.mine <= s + 1
    BY <1>1 DEF Sound, FreshItem
  <1>7. FreshItem(r, x, s + 1)
    BY <1>6 DEF Sound, FreshItem
  <1> QED
    BY <1>2, <1>3, <1>4, <1>5, <1>7 DEF Sound

LEMMA WrittenGrows ==
    ASSUME NEW op \in Ops \ {"Query"}, NEW m \in ItemModels, item \in ItemType, stamp \in Nat,
           condition(op, m)
    PROVE  /\ written(op, m, stamp + 1) \in ItemType
           /\ Grown(item, written(op, m, stamp + 1), stamp)
           /\ op \in Creates => written(op, m, stamp + 1) = Item(m.version, stamp + 1, stamp + 1)
           /\ locked(op, m) =>
                 \/ written(op, m, stamp + 1).epoch = stamp + 1
                 \/ written(op, m, stamp + 1).version = m.version + 1
  <1>1. PICK j : j = written(op, m, stamp + 1)
    OBVIOUS
  <1>2. /\ stamp + 1 \in Nat /\ m.version \in Nat /\ item.epoch \in Nat
        /\ item.version \in {NoVersion} \cup Nat
    BY DEF ItemModels, ItemType
  <1>3. op \in {"Update", "SetVersioned"} =>
           item.version = m.version /\ item.version \in Nat /\ item.version + 1 \in Nat
    BY <1>2 DEF condition, locked
  <1>4. CASE op \in Creates
    <2>1. j = Item(m.version, stamp + 1, stamp + 1)
      BY <1>1, <1>4 DEF written, Creates
    <2>2. j.version = m.version /\ j.stamp = stamp + 1 /\ j.epoch = stamp + 1
      BY <2>1 DEF Item, NoItem
    <2>3. j \in ItemType
      BY <1>2, <2>1 DEF Item, NoItem, ItemType
    <2> QED
      BY <1>1, <1>2, <1>4, <2>1, <2>2, <2>3 DEF Grown, Creates, locked
  <1>5. CASE op \in {"Update", "SetVersioned"}
    <2>1. j = Item(item.version + 1, stamp + 1, item.epoch)
      BY <1>1, <1>5 DEF written, Creates, incrementedVersion
    <2>2. j.version = item.version + 1 /\ j.stamp = stamp + 1 /\ j.epoch = item.epoch
      BY <2>1 DEF Item, NoItem
    <2>3. j \in ItemType
      BY <1>2, <1>3, <1>5, <2>1 DEF Item, NoItem, ItemType
    <2> QED
      BY <1>1, <1>2, <1>3, <1>5, <2>1, <2>2, <2>3 DEF Grown, Creates, locked
  <1>6. CASE op = "Set"
    <2>1. j = Item(item.version, stamp + 1, stamp + 1)
      BY <1>1, <1>6 DEF written, Creates
    <2>2. j.version = item.version /\ j.stamp = stamp + 1 /\ j.epoch = stamp + 1
      BY <2>1 DEF Item, NoItem
    <2>3. j \in ItemType
      BY <1>2, <2>1 DEF Item, NoItem, ItemType
    <2> QED
      BY <1>1, <1>2, <1>6, <2>1, <2>2, <2>3 DEF Grown, Creates, locked
  <1>7. CASE op = "Delete"
    <2>1. j = NoItem(stamp + 1)
      BY <1>1, <1>7 DEF written, Creates
    <2>2. j.version = NoVersion /\ j.stamp = stamp + 1 /\ j.epoch = stamp + 1
      BY <2>1 DEF Item, NoItem
    <2>3. j \in ItemType
      BY <1>2, <2>1 DEF Item, NoItem, ItemType
    <2> QED
      BY <1>1, <1>2, <1>7, <2>1, <2>2, <2>3 DEF Grown, Creates, locked
  <1> QED
    BY <1>4, <1>5, <1>6, <1>7 DEF Ops, Updates

LEMMA ItemAppliedSafe ==
    ASSUME ItemInv, NEW c \in Clients, Arrive(c), condition(call[c].op, call[c].model)
    PROVE  ItemInv'
  <1>1. call[c].pc = "sent" /\ stamp' = stamp + 1 /\ UNCHANGED <<index, copy>>
    BY DEF Arrive
  <1>2. call[c] \in Calls /\ Sound(call[c], copy[c], item, index, stamp)
    BY <1>1, BusyIsCall
  <1>3. item \in ItemType /\ index \in ItemType /\ stamp \in Nat /\ stamp' \in Nat
    BY <1>1 DEF ItemInv, ItemTypeOK
  <1>4. call[c].op \in Ops \ {"Query"} /\ call[c].model \in ItemModels
    BY <1>1, <1>2 DEF Calls, Sound, Flow
  <1>5. item' = written(call[c].op, call[c].model, stamp + 1)
    BY DEF Arrive
  <1>6. /\ item' \in ItemType
        /\ Grown(item, item', stamp)
        /\ call[c].op \in Creates => item' = Item(call[c].model.version, stamp + 1, stamp + 1)
        /\ locked(call[c].op, call[c].model) =>
              item'.epoch = stamp + 1 \/ item'.version = call[c].model.version + 1
    BY <1>3, <1>4, <1>5, WrittenGrows
  <1>7. PICK new : new = [stamp |-> item.stamp, epoch |-> item.epoch]
    OBVIOUS
  <1>8. PICK late : late = (index.there /\ call[c].then = "queryGSI")
    OBVIOUS
  <1>9. PICK r : r = [call[c] EXCEPT !.pc = "responding", !.outcome = "ok", !.mine = stamp + 1,
                         !.behind = late, !.over = Append(call[c].over, new)]
    OBVIOUS
  <1>10. call' = [call EXCEPT ![c] = r]
    BY <1>7, <1>8, <1>9 DEF Arrive
  <1>11. new \in Overs /\ new.epoch <= stamp /\ new.stamp = item.stamp /\ new.epoch = item.epoch
    BY <1>3, <1>7 DEF Overs, ItemType, ItemInv, Stamped
  <1>12. /\ call[c].over \in Seq(Overs) /\ Append(call[c].over, new) \in Seq(Overs)
         /\ Len(Append(call[c].over, new)) = Len(call[c].over) + 1
         /\ Append(call[c].over, new)[Len(call[c].over) + 1] = new
         /\ \A n \in 1..Len(call[c].over) : Append(call[c].over, new)[n] = call[c].over[n]
    BY <1>2, <1>11 DEF Calls
  <1>13. r \in Calls
    <2>1. late \in BOOLEAN
      BY <1>8
    <2>2. stamp + 1 \in Nat
      BY <1>3
    <2> QED
      BY <1>2, <1>9, <1>12, <2>1, <2>2 DEF Calls
  <1>14. /\ r.pc = "responding" /\ r.outcome = "ok" /\ r.mine = stamp + 1 /\ r.behind = late
         /\ r.over = Append(call[c].over, new) /\ r.model = call[c].model
         /\ r.op = call[c].op /\ r.then = call[c].then /\ r.mode = call[c].mode
    BY <1>2, <1>9 DEF Calls
  <1>15. /\ Len(call[c].over) \in Nat /\ Len(r.over) = Len(call[c].over) + 1
         /\ r.over[Len(call[c].over) + 1] = new
         /\ \A n \in 1..Len(call[c].over) : r.over[n] = call[c].over[n]
    BY <1>12, <1>14, LenProperties
  <1>16. Sound(call[c], copy[c], item', index, stamp + 1)
    BY <1>2, <1>3, <1>6, SoundAfter
  <1>17. Flow(r)
    <2>1. Len(r.over) > 0 /\ r.mine > 0
      BY <1>3, <1>14, <1>15
    <2> QED
      BY <1>4, <1>14, <2>1 DEF Flow, Applied
  <1>18. FreshItem(r, index, stamp + 1)
    <2>1. r.mode = "none"
      BY <1>1, <1>2, <1>14 DEF Sound, FreshItem
    <2>2. r.mine <= stamp + 1
      BY <1>3, <1>14
    <2>3. ~(r.then = "queryGSI" /\ ~r.behind /\ index.there)
      BY <1>8, <1>14
    <2> QED
      BY <1>14, <2>1, <2>2, <2>3 DEF FreshItem
  <1>19. ASSUME NEW n \in 1..Len(r.over) PROVE r.over[n].epoch <= stamp + 1
    <2>1. CASE n \in 1..Len(call[c].over)
      BY <1>15, <1>16, <2>1 DEF Sound
    <2>2. CASE n = Len(call[c].over) + 1
      <3>1. r.over[n].epoch = item.epoch /\ item.epoch \in Nat /\ item.epoch <= stamp
        BY <1>3, <1>11, <1>15, <2>2 DEF ItemType
      <3> QED
        BY <1>3, <3>1
    <2> QED
      BY <1>15, <2>1, <2>2
  <1>20. r.op \in Creates => Seen(Created(r), item', stamp + 1)
    <2>1. SUFFICES ASSUME r.op \in Creates PROVE Seen(Created(r), item', stamp + 1)
      OBVIOUS
    <2>2. /\ item'.version = r.model.version /\ item'.stamp = stamp + 1
          /\ item'.epoch = stamp + 1
      BY <1>6, <1>14, <2>1 DEF Item
    <2>3. /\ Created(r).version = r.model.version /\ Created(r).stamp = stamp + 1
          /\ Created(r).epoch = stamp + 1
      BY <1>14 DEF Created
    <2> QED
      BY <1>3, <2>2, <2>3 DEF Seen
  <1>21. locked(r.op, r.model) => LockKept(r, item')
    <2>1. SUFFICES ASSUME locked(r.op, r.model) PROVE LockKept(r, item')
      OBVIOUS
    <2>2. LockKept(call[c], item) /\ LockKept(call[c], item')
      BY <1>2, <1>14, <1>16, <2>1 DEF Sound
    <2>3. /\ item.version = r.model.version /\ r.model.version \in Nat
          /\ item.version # NoVersion
      BY <1>4, <1>14, <2>1 DEF condition, ItemModels, NoVersion
    <2>4. Seen(r.model, item, stamp)
      BY <1>2, <1>14 DEF Sound
    <2>5. new.epoch = r.model.epoch => new.stamp = r.model.stamp
      BY <1>11, <2>3, <2>4 DEF Seen
    <2>6. ASSUME NEW n \in 1..Len(call[c].over) PROVE call[c].over[n].epoch # new.epoch
      BY <1>11, <1>14, <2>2, <2>3 DEF LockKept
    <2>7. new.epoch = item'.epoch => item'.version > r.model.version
      <3>1. new.epoch # stamp + 1
        BY <1>3, <1>11 DEF Overs
      <3> QED
        BY <1>6, <1>14, <2>1, <2>3, <3>1
    <2>8. ASSUME NEW n \in 1..Len(r.over)
          PROVE  /\ r.over[n].epoch = r.model.epoch => r.over[n].stamp = r.model.stamp
                 /\ r.over[n].epoch = item'.epoch => item'.version > r.model.version
      <3>1. CASE n \in 1..Len(call[c].over)
        BY <1>14, <1>15, <2>2, <3>1 DEF LockKept
      <3>2. CASE n = Len(call[c].over) + 1
        BY <1>15, <2>5, <2>7, <3>2
      <3> QED
        BY <1>15, <3>1, <3>2
    <2>9. ASSUME NEW n \in 1..Len(r.over), NEW k \in 1..Len(r.over),
                 r.over[n].epoch = r.over[k].epoch
          PROVE  n = k
      <3>1. CASE n \in 1..Len(call[c].over) /\ k \in 1..Len(call[c].over)
        BY <1>15, <2>2, <2>9, <3>1 DEF LockKept
      <3>2. CASE n \in 1..Len(call[c].over) /\ k = Len(call[c].over) + 1
        BY <1>15, <2>6, <2>9, <3>2
      <3>3. CASE n = Len(call[c].over) + 1 /\ k \in 1..Len(call[c].over)
        BY <1>15, <2>6, <2>9, <3>3
      <3> QED
        BY <1>15, <3>1, <3>2, <3>3
    <2> QED
      BY <2>8, <2>9 DEF LockKept
  <1>22. Sound(r, copy[c], item', index, stamp + 1)
    BY <1>1, <1>2, <1>14, <1>16, <1>17, <1>18, <1>19, <1>20, <1>21 DEF Sound
  <1>23. ItemTypeOK'
    BY <1>1, <1>3, <1>6, <1>10, <1>13 DEF ItemInv, ItemTypeOK
  <1>24. Stamped(item', index', stamp')
    <2>1. item'.stamp = stamp + 1 /\ item'.epoch <= stamp + 1
      <3>1. item.epoch \in Nat /\ item.epoch <= stamp
        BY <1>3 DEF ItemType, ItemInv, Stamped
      <3> QED
        BY <1>3, <1>6, <3>1 DEF Grown
    <2>2. index.stamp <= stamp + 1 /\ index.epoch <= stamp + 1
      BY <1>3 DEF ItemType, ItemInv, Stamped
    <2> QED
      BY <1>1, <2>1, <2>2 DEF Stamped
  <1>25. Seen(Model(index'), item', stamp')
    BY <1>1, <1>3, <1>6, SeenAfter, ModelType DEF ItemInv
  <1>26. ASSUME NEW d \in Clients PROVE Seen(copy'[d], item', stamp')
    BY <1>1, <1>3, <1>6, SeenAfter DEF ItemInv, ItemTypeOK
  <1>27. ASSUME NEW d \in Clients, call'[d] # NoCall
         PROVE  Sound(call'[d], copy'[d], item', index', stamp')
    <2>1. CASE d = c
      <3>1. call'[d] = r
        BY <1>10, <2>1 DEF ItemInv, ItemTypeOK
      <3> QED
        BY <1>1, <1>22, <2>1, <3>1
    <2>2. CASE d # c
      <3>1. call'[d] = call[d]
        BY <1>10, <2>2 DEF ItemInv, ItemTypeOK
      <3>2. call[d] \in Calls /\ Sound(call[d], copy[d], item, index, stamp)
        BY <1>27, <3>1 DEF ItemInv, ItemTypeOK
      <3> QED
        BY <1>1, <1>3, <1>6, <3>1, <3>2, SoundAfter
    <2> QED
      BY <2>1, <2>2
  <1> QED
    BY <1>23, <1>24, <1>25, <1>26, <1>27 DEF ItemInv

LEMMA PropagateSafe ==
    ASSUME ItemInv, Propagate
    PROVE  ItemInv'
  <1>1. index' = item /\ UNCHANGED <<item, stamp, copy, call>>
    BY DEF Propagate
  <1>2. item \in ItemType /\ stamp \in Nat /\ item.stamp = stamp /\ item.epoch <= stamp
    BY DEF ItemInv, ItemTypeOK, Stamped
  <1>3. ItemTypeOK'
    BY <1>1 DEF ItemInv, ItemTypeOK
  <1>4. Stamped(item', index', stamp')
    BY <1>1, <1>2 DEF Stamped
  <1>5. Seen(Model(index'), item', stamp')
    <2>1. item.stamp <= stamp
      BY <1>2
    <2> QED
      BY <1>1, <1>2, <2>1, ModelSeen
  <1>6. ASSUME NEW d \in Clients, call[d] # NoCall
        PROVE  Sound(call[d], copy[d], item, item, stamp)
    <2>1. Sound(call[d], copy[d], item, index, stamp)
      BY <1>6 DEF ItemInv
    <2>2. FreshItem(call[d], item, stamp)
      BY <1>2, <2>1 DEF Sound, FreshItem
    <2> QED
      BY <2>1, <2>2 DEF Sound
  <1> QED
    BY <1>1, <1>3, <1>4, <1>5, <1>6 DEF ItemInv

-----------------------------------------------------------------------------
LEMMA ItemInitSafe ==
    ASSUME ItemInit
    PROVE  ItemInv
  <1>1. ItemTypeOK
    BY DEF ItemInit, ItemTypeOK, NoItem, Model, ItemType, ItemModels
  <1>2. Stamped(item, index, stamp)
    BY DEF ItemInit, Stamped, NoItem
  <1>3. Seen(Model(index), item, stamp) /\ \A c \in Clients : Seen(copy[c], item, stamp)
    BY DEF ItemInit, Seen, Model, NoItem
  <1> QED
    BY <1>1, <1>2, <1>3 DEF ItemInv, ItemInit

LEMMA ItemNextSafe ==
    ASSUME ItemInv, ItemNext
    PROVE  ItemInv'
  <1>1. ASSUME NEW c \in Clients, NEW mode \in {"main", "plain", "retry", "verify"},
               NEW byIndex \in BOOLEAN, QueryAfterWrite(c, mode, byIndex)
        PROVE  ItemInv'
    BY <1>1, QuerySafe
  <1>2. ASSUME NEW c \in Clients, ClientStep(c) PROVE ItemInv'
    BY <1>2, ItemAppliedSafe, ItemRefusedSafe, RespondRefusedSafe, RespondOkSafe, LoseSafe, ReadSafe,
       ReturnSafe DEF ClientStep
  <1>3. ASSUME NEW c \in Clients,
               \/ Create(c) \/ CreateIfNotExists(c) \/ CreateOrUpdate(c)
               \/ Update(c) \/ Delete(c) \/ UpdateBuilderSet(c) \/ ConditionVersion(c)
               \/ CreateWithConsistency(c) \/ UpdateWithConsistency(c) \/ UpdateAndVerify(c)
               \/ CreateAndQueryGSI(c)
        PROVE  ItemInv'
    <2>1. PICK op \in Ops \ {"Query"}, then \in {"return", "verify", "copyBack", "queryGSI"} :
             Begin(c, op, then)
      BY <1>3 DEF Create, CreateIfNotExists, CreateOrUpdate, Update, Delete, UpdateBuilderSet,
                  ConditionVersion, CreateWithConsistency, UpdateWithConsistency, UpdateAndVerify,
                  CreateAndQueryGSI, Ops, Creates, Updates
    <2> QED
      BY <2>1, ItemBeginSafe
  <1> QED
    BY <1>1, <1>2, <1>3, PropagateSafe DEF ItemNext

LEMMA ItemInvariance == ItemSpec => []ItemInv
  <1>1. ItemInit => ItemInv
    BY ItemInitSafe
  <1>2. ItemInv /\ [ItemNext]_itemVars => ItemInv'
    <2>1. ASSUME ItemInv, UNCHANGED itemVars PROVE ItemInv'
      BY <2>1 DEF ItemInv, ItemTypeOK, itemVars
    <2> QED
      BY <2>1, ItemNextSafe
  <1> QED
    BY <1>1, <1>2, PTL DEF ItemSpec

(***************************************************************************)
(* A write under the optimistic lock (Update, Delete of a version, an      *)
(* UpdateBuilder that asks for the version) overwrites only what its       *)
(* client had read, for any number of clients and of re-sent requests.     *)
(***************************************************************************)
THEOREM Lock == ItemSpec => []NoLostUpdate
  <1>1. ItemInv => NoLostUpdate
    BY DEF ItemInv, NoLostUpdate, Writing, Sound, LockKept
  <1> QED
    BY <1>1, ItemInvariance, PTL

(***************************************************************************)
(* No error means that the write was applied, ErrConditionFailed on the    *)
(* first attempt that it was not, and a write under the lock is applied    *)
(* once in the life of an item, however often it is sent.                  *)
(***************************************************************************)
THEOREM Answers == ItemSpec => []WriteAnswered
  <1>1. ItemInv => WriteAnswered
    <2> SUFFICES ASSUME ItemInv, NEW c \in Clients, Writing(c), call[c].pc = "done"
                 PROVE  /\ call[c].answer = "ok" => call[c].over # <<>>
                        /\ (call[c].answer = "condition" /\ call[c].tries = 1) => call[c].over = <<>>
                        /\ locked(call[c].op, call[c].model) =>
                              \A i, j \in 1..Len(call[c].over) :
                                  call[c].over[i].epoch = call[c].over[j].epoch => i = j
      BY DEF WriteAnswered
    <2>1. /\ call[c] \in Calls /\ call[c].op # "Query"
          /\ Sound(call[c], copy[c], item, index, stamp)
      BY DEF ItemInv, ItemTypeOK, Writing
    <2>2. /\ call[c].answer = "ok" => Len(call[c].over) > 0
          /\ (call[c].answer = "condition" /\ call[c].tries = 1) => Len(call[c].over) = 0
      BY <2>1 DEF Sound, Flow
    <2>3. call[c].answer = "ok" => Len(call[c].over) # 0
      BY <2>2
    <2>4. locked(call[c].op, call[c].model) =>
             \A i, j \in 1..Len(call[c].over) :
                 call[c].over[i].epoch = call[c].over[j].epoch => i = j
      BY <2>1 DEF Sound, LockKept
    <2> QED
      BY <2>1, <2>2, <2>3, <2>4, EmptyOver
  <1> QED
    BY <1>1, ItemInvariance, PTL

(***************************************************************************)
(* What the helpers of pkg/consistency say they read includes the caller's *)
(* write: from the main table, if the conditions select no index, and with *)
(* a verification always; from an index after CreateAndQueryGSI if it held *)
(* nothing of the item before.                                             *)
(***************************************************************************)
THEOREM ReadAfterWrite == ItemSpec => []ReadsOwnWrite
  <1>1. ItemInv => ReadsOwnWrite
    <2> SUFFICES ASSUME ItemInv, NEW c \in Clients, call[c].pc = "done", call[c].answer = "ok",
                        HasToFind(call[c])
                 PROVE  call[c].read >= call[c].mine
      BY DEF ReadsOwnWrite, HasToFind
    <2> QED
      BY BusyIsCall DEF Sound, FreshItem
  <1> QED
    BY <1>1, ItemInvariance, PTL

------------------------------------------------------------------------------
(***************************************************************************)
(* DB.TransactionFunc is atomic, for any keys, any number of operations,   *)
(* of commits and of writes by other clients.                              *)
(***************************************************************************)
Rows == [there : BOOLEAN, version : Nat]

TxAttributes == {"value", "version", "updatedAt"}

Writes == [op : {"Create", "Update", "Delete"}, key : TxKeys, sets : Seq(TxAttributes),
           version : {AnyVersion} \cup Nat, put : Nat]

Transactions ==
    [mode : {"func", "direct"}, pc : {"open", "writing", "reading", "done"},
     writes : Seq(Writes), reads : Seq(TxKeys), results : SUBSET Nat, nilMap : BOOLEAN,
     commits : Nat,
     answer : {"none", "ok", "panic", "fn", "readFailed", "validation", "canceled", "failed",
               "condition"}]

\* What the variables hold.
TxTypeOK ==
    /\ stored \in [TxKeys -> Rows]
    /\ tx \in {NoTransaction} \cup Transactions
    /\ applied \in Seq(Seq(Rows))

\* A recorded write of a nonzero version compares it.
Compared(t) ==
    \A i \in 1..Len(t.writes) :
        (t.writes[i].op # "Create" /\ t.writes[i].put # 0) => t.writes[i].version = t.writes[i].put

\* What was overwritten had the versions that the writes compare.
Matched(t, a) ==
    \A n \in 1..Len(a) :
        \A i \in 1..Len(t.writes) :
            (t.writes[i].op # "Create" /\ t.writes[i].put # 0) =>
                a[n][i].there /\ a[n][i].version = t.writes[i].put

\* What an answer says of the writes that were applied.
Answered(t, a) ==
    /\ t.answer # "panic"
    /\ t.answer \in {"ok", "readFailed"} => Len(a) = IF Len(t.writes) = 0 THEN 0 ELSE 1
    /\ Refused(t.answer) => Len(a) = 0
    /\ Len(a) <= 1

\* The one commit of a TransactionFunc: nothing is applied before the
\* writes are, and no map of results is nil before it is over.
Once(t, a) ==
    /\ t.pc # "done" => ~t.nilMap
    /\ t.pc \in {"open", "writing"} => Len(a) = 0
    /\ t.pc = "writing" => Len(t.writes) # 0
    /\ t.pc = "reading" => Len(a) = IF Len(t.writes) = 0 THEN 0 ELSE 1
    /\ t.pc = "done" => Answered(t, a)
    /\ Matched(t, a)

TxInv ==
    /\ TxTypeOK
    /\ tx = NoTransaction => Len(applied) = 0
    /\ tx # NoTransaction => Compared(tx)
    /\ tx # NoTransaction /\ tx.mode = "func" => Once(tx, applied)

-----------------------------------------------------------------------------
LEMMA BusyIsTransaction ==
    ASSUME TxInv, tx.pc # "none"
    PROVE  /\ tx \in Transactions /\ Compared(tx)
           /\ tx.mode = "func" => Once(tx, applied)
  BY DEF TxInv, TxTypeOK, NoTransaction

LEMMA TransactionsDiffer == \A t \in Transactions : t # NoTransaction
  <1> SUFFICES ASSUME NEW t \in Transactions PROVE t # NoTransaction
    OBVIOUS
  <1>1. t.pc # "none" /\ NoTransaction.pc = "none"
    BY DEF Transactions, NoTransaction
  <1> QED
    BY <1>1

LEMMA EmptyIsZero == \A S : \A s \in Seq(S) : s = <<>> <=> Len(s) = 0
  BY EmptySeq

\* A step of the transaction that applies nothing.
LEMMA Kept ==
    ASSUME TxInv, NEW t \in Transactions, tx' = t, UNCHANGED <<stored, applied>>,
           Compared(t), t.mode = "func" => Once(t, applied)
    PROVE  TxInv'
  <1>1. TxTypeOK'
    BY DEF TxInv, TxTypeOK
  <1>2. tx' # NoTransaction
    BY TransactionsDiffer
  <1> QED
    BY <1>1, <1>2 DEF TxInv, Compared, Once, Answered, Matched

-----------------------------------------------------------------------------
(* Recording.                                                              *)

LEMMA Singletons == ASSUME NEW S, NEW a \in S PROVE <<a>> \in Seq(S)
  OBVIOUS

LEMMA WriteTypes ==
    ASSUME NEW m \in TxModels
    PROVE  /\ CreateWrite(m) \in Writes /\ CreateWrite(m).op = "Create"
           /\ DeleteWrite(m) \in Writes
           /\ UpdateWrite(m) \in Writes
           /\ m.version # 0 => /\ DeleteWrite(m).version = DeleteWrite(m).put
                               /\ UpdateWrite(m).version = UpdateWrite(m).put
           /\ DeleteWrite(m).put = m.version /\ UpdateWrite(m).put = m.version
  <1>1. m.key \in TxKeys /\ m.version \in Nat
    BY DEF TxModels
  <1>2. <<>> \in Seq(TxAttributes)
    BY EmptySeq
  <1>3. versionCondition(m) \in {AnyVersion} \cup Nat
    BY <1>1 DEF versionCondition
  <1>4. \A w \in BOOLEAN, s \in Seq(TxAttributes) : When(w, s) \in Seq(TxAttributes)
    BY <1>2 DEF When
  <1>5. <<"value">> \in Seq(TxAttributes) /\ <<"version">> \in Seq(TxAttributes) /\ <<"updatedAt">> \in Seq(TxAttributes)
    BY Singletons DEF TxAttributes
  <1>6. /\ applyVersionUpdate(m) \in Seq(TxAttributes) /\ applyUpdatedAtUpdate(m) \in Seq(TxAttributes)
        /\ When(~(fields.versionOmitEmpty /\ m.version = 0), <<"version">>) \in Seq(TxAttributes)
        /\ When(~(fields.updatedAtOmitEmpty /\ m.updatedAt = "zero"), <<"updatedAt">>) \in Seq(TxAttributes)
    BY <1>4, <1>5 DEF applyVersionUpdate, applyUpdatedAtUpdate
  <1>7. buildUpdateExpression(m) \in Seq(TxAttributes)
    BY <1>5, <1>6, ConcatProperties DEF buildUpdateExpression
  <1>8. buildUpdateExpression(m) \o applyVersionUpdate(m) \o applyUpdatedAtUpdate(m) \in Seq(TxAttributes)
    BY <1>6, <1>7, ConcatProperties
  <1>9. CreateWrite(m) \in Writes /\ CreateWrite(m).op = "Create"
    BY <1>1, <1>2 DEF CreateWrite, Write, Writes
  <1>10. DeleteWrite(m) \in Writes /\ DeleteWrite(m).put = m.version
         /\ DeleteWrite(m).version = versionCondition(m)
    BY <1>1, <1>2, <1>3 DEF DeleteWrite, Write, Writes
  <1>11. UpdateWrite(m) \in Writes /\ UpdateWrite(m).put = m.version
         /\ UpdateWrite(m).version = versionCondition(m)
    BY <1>1, <1>3, <1>8 DEF UpdateWrite, Write, Writes
  <1> QED
    BY <1>9, <1>10, <1>11 DEF versionCondition

LEMMA RecordSafe ==
    ASSUME TxInv, NEW w \in Writes, Record(w),
           w.op # "Create" /\ w.put # 0 => w.version = w.put
    PROVE  TxInv'
  <1>1. tx.pc = "open" /\ UNCHANGED <<stored, applied>>
    BY DEF Record
  <1>2. tx \in Transactions /\ Compared(tx) /\ (tx.mode = "func" => Once(tx, applied))
    BY <1>1, BusyIsTransaction
  <1>3. PICK t : t = [tx EXCEPT !.writes = Append(tx.writes, w)]
    OBVIOUS
  <1>4. tx' = t
    BY <1>3 DEF Record
  <1>5. /\ tx.writes \in Seq(Writes) /\ Append(tx.writes, w) \in Seq(Writes)
        /\ Len(tx.writes) \in Nat
        /\ Len(Append(tx.writes, w)) = Len(tx.writes) + 1
        /\ Append(tx.writes, w)[Len(tx.writes) + 1] = w
        /\ \A i \in 1..Len(tx.writes) : Append(tx.writes, w)[i] = tx.writes[i]
    BY <1>2 DEF Transactions
  <1>6. t \in Transactions
    BY <1>2, <1>3, <1>5 DEF Transactions
  <1>7. /\ t.writes = Append(tx.writes, w) /\ t.pc = "open" /\ t.mode = tx.mode
        /\ t.nilMap = tx.nilMap
    BY <1>1, <1>2, <1>3 DEF Transactions
  <1>8. ASSUME NEW i \in 1..Len(t.writes), t.writes[i].op # "Create", t.writes[i].put # 0
        PROVE  t.writes[i].version = t.writes[i].put
    <2>1. CASE i \in 1..Len(tx.writes)
      BY <1>2, <1>5, <1>7, <1>8, <2>1 DEF Compared
    <2>2. CASE i = Len(tx.writes) + 1
      BY <1>5, <1>7, <1>8, <2>2
    <2> QED
      BY <1>5, <1>7, <2>1, <2>2
  <1>9. t.mode = "func" => Once(t, applied)
    BY <1>1, <1>2, <1>7 DEF Once, Matched
  <1> QED
    BY <1>1, <1>4, <1>6, <1>8, <1>9, Kept DEF Compared

\* Any other step that applies nothing and either keeps the writes or forgets them.
LEMMA KeepsWrites ==
    ASSUME TxInv, NEW t \in Transactions, tx.pc # "none", tx' = t, UNCHANGED <<stored, applied>>,
           t.writes = tx.writes \/ Len(t.writes) = 0,
           t.mode = tx.mode,
           tx.mode = "func" =>
              /\ t.pc # "done" => ~t.nilMap
              /\ t.pc \in {"open", "writing"} => Len(applied) = 0
              /\ t.pc = "writing" => Len(t.writes) # 0
              /\ t.pc = "reading" => Len(applied) = IF Len(t.writes) = 0 THEN 0 ELSE 1
              /\ t.pc = "done" => Answered(t, applied)
    PROVE  TxInv'
  <1>1. tx \in Transactions /\ Compared(tx) /\ (tx.mode = "func" => Once(tx, applied))
    BY BusyIsTransaction
  <1>2. Compared(t)
    BY <1>1 DEF Compared
  <1>3. t.mode = "func" => Matched(t, applied)
    BY <1>1 DEF Once, Matched
  <1> QED
    BY <1>2, <1>3, Kept DEF Once

LEMMA GetSafe ==
    ASSUME TxInv, NEW k \in TxKeys, Get(k)
    PROVE  TxInv'
  <1>1. tx.pc = "open" /\ UNCHANGED <<stored, applied>>
    BY DEF Get
  <1>2. tx \in Transactions /\ (tx.mode = "func" => Once(tx, applied))
    BY <1>1, BusyIsTransaction
  <1>3. PICK t : t = [tx EXCEPT !.reads = Append(tx.reads, k)]
    OBVIOUS
  <1>4. tx' = t
    BY <1>3 DEF Get
  <1>5. Append(tx.reads, k) \in Seq(TxKeys)
    BY <1>2 DEF Transactions
  <1>6. t \in Transactions
    BY <1>2, <1>3, <1>5 DEF Transactions
  <1>7. t.writes = tx.writes /\ t.pc = "open" /\ t.mode = tx.mode /\ t.nilMap = tx.nilMap
    BY <1>1, <1>2, <1>3 DEF Transactions
  <1> QED
    BY <1>1, <1>2, <1>4, <1>6, <1>7, KeepsWrites DEF Once

-----------------------------------------------------------------------------
(* Commit and what comes of it.                                            *)

LEMMA CommitSafe ==
    ASSUME TxInv, Commit
    PROVE  TxInv'
  <1>1. tx.pc = "open" /\ UNCHANGED <<stored, applied>>
    BY DEF Commit
  <1>2. tx \in Transactions /\ (tx.mode = "func" => Once(tx, applied))
    BY <1>1, BusyIsTransaction
  <1>3. PICK p : p = IF tx.writes = <<>> THEN "reading" ELSE "writing"
    OBVIOUS
  <1>4. tx.writes = <<>> <=> Len(tx.writes) = 0
    BY <1>2, EmptyIsZero DEF Transactions
  <1>5. /\ p \in {"reading", "writing"}
        /\ p = "reading" <=> Len(tx.writes) = 0
    BY <1>3, <1>4
  <1>6. PICK t : t = [tx EXCEPT !.pc = p, !.answer = "none", !.commits = tx.commits + 1]
    OBVIOUS
  <1>7. tx' = t
    BY <1>3, <1>6 DEF Commit
  <1>8. t \in Transactions
    <2>1. tx.commits + 1 \in Nat
      BY <1>2 DEF Transactions
    <2> QED
      BY <1>2, <1>5, <1>6, <2>1 DEF Transactions
  <1>9. t.writes = tx.writes /\ t.pc = p /\ t.mode = tx.mode /\ t.nilMap = tx.nilMap
    BY <1>2, <1>6 DEF Transactions
  <1> QED
    BY <1>1, <1>2, <1>5, <1>7, <1>8, <1>9, KeepsWrites DEF Once

LEMMA RowTypes ==
    ASSUME TxTypeOK, NEW w \in Writes
    PROVE  rowAfter(w) \in Rows
  <1>1. stored[w.key] \in Rows /\ w.put \in Nat
    BY DEF TxTypeOK, Writes
  <1> QED
    BY <1>1 DEF rowAfter, Row, NoRow, Rows, Writes

\* The writes are applied; the transaction goes on to its reads, or the
\* answer is lost.
LEMMA ApplySafe ==
    ASSUME TxInv, Apply, NEW t \in Transactions, tx' = t,
           t.writes = tx.writes, t.mode = tx.mode, t.nilMap = tx.nilMap,
           tx.mode = "func" => t.pc = "reading" \/ (t.pc = "done" /\ t.answer = "failed")
    PROVE  TxInv'
  <1>1. tx.pc = "writing"
    BY DEF Apply
  <1>2. /\ tx \in Transactions /\ Compared(tx) /\ (tx.mode = "func" => Once(tx, applied))
        /\ tx.writes \in Seq(Writes)
    BY <1>1, BusyIsTransaction DEF Transactions
  <1>3. stored' \in [TxKeys -> Rows]
    <2>1. ASSUME NEW k \in TxKeys, NEW i \in 1..Len(tx.writes)
          PROVE  rowAfter(tx.writes[i]) \in Rows
      BY <1>2, RowTypes DEF TxInv
    <2>2. ASSUME NEW k \in TxKeys PROVE rowsAfter(tx.writes)[k] \in Rows
      <3>1. CASE \E i \in 1..Len(tx.writes) : tx.writes[i].key = k
        <4>1. PICK n : n = CHOOSE i \in 1..Len(tx.writes) : tx.writes[i].key = k
          OBVIOUS
        <4>2. n \in 1..Len(tx.writes)
          BY <3>1, <4>1
        <4>3. rowsAfter(tx.writes)[k] = rowAfter(tx.writes[n])
          BY <3>1, <4>1 DEF rowsAfter
        <4> QED
          BY <2>1, <4>2, <4>3
      <3>2. CASE ~\E i \in 1..Len(tx.writes) : tx.writes[i].key = k
        <4>1. rowsAfter(tx.writes)[k] = stored[k]
          BY <3>2 DEF rowsAfter
        <4> QED
          BY <4>1 DEF TxInv, TxTypeOK
      <3> QED
        BY <3>1, <3>2
    <2>3. rowsAfter(tx.writes) = [k \in TxKeys |-> rowsAfter(tx.writes)[k]]
      BY DEF rowsAfter
    <2> QED
      BY <2>2, <2>3 DEF Apply
  <1>4. PICK old : old = [i \in 1..Len(tx.writes) |-> stored[tx.writes[i].key]]
    OBVIOUS
  <1>5. old \in Seq(Rows)
    <2>1. ASSUME NEW i \in 1..Len(tx.writes) PROVE stored[tx.writes[i].key] \in Rows
      <3>1. tx.writes[i] \in Writes
        BY <1>2
      <3> QED
        BY <3>1 DEF TxInv, TxTypeOK, Writes
    <2>2. Len(tx.writes) \in Nat
      BY <1>2
    <2> QED
      BY <1>4, <2>1, <2>2, IsASeq
  <1>6. applied' = Append(applied, old)
    BY <1>4 DEF Apply
  <1>7. applied \in Seq(Seq(Rows)) /\ applied' \in Seq(Seq(Rows)) /\ Len(applied) \in Nat
        /\ Len(applied') = Len(applied) + 1 /\ applied'[Len(applied) + 1] = old
    BY <1>5, <1>6 DEF TxInv, TxTypeOK
  <1>12. ASSUME NEW i \in 1..Len(tx.writes), tx.writes[i].op # "Create", tx.writes[i].put # 0
         PROVE  old[i].there /\ old[i].version = tx.writes[i].put
    <2>1. tx.writes[i].version = tx.writes[i].put
      BY <1>2, <1>12 DEF Compared
    <2>2. tx.writes[i].version # AnyVersion
      <3>1. tx.writes[i] \in Writes
        BY <1>2
      <3> QED
        BY <2>1, <3>1 DEF AnyVersion, Writes
    <2>3. /\ stored[tx.writes[i].key].there
          /\ stored[tx.writes[i].key].version = tx.writes[i].version
      BY <2>2 DEF Apply, holds
    <2> QED
      BY <1>4, <2>1, <2>3
  <1>13. tx.mode = "func" => Once(t, applied')
    <2> SUFFICES ASSUME tx.mode = "func" PROVE Once(t, applied')
      OBVIOUS
    <2>1. Len(applied) = 0 /\ Len(tx.writes) # 0 /\ ~tx.nilMap
      BY <1>1, <1>2 DEF Once
    <2>2. Len(applied') = 1 /\ applied'[1] = old
      BY <1>7, <2>1
    <2>3. Matched(t, applied')
      <3>1. ASSUME NEW n \in 1..Len(applied') PROVE applied'[n] = old
        BY <2>2
      <3> QED
        BY <1>12, <3>1 DEF Matched
    <2>4. t.pc = "done" => Answered(t, applied')
      BY <2>2 DEF Answered, Refused
    <2> QED
      BY <2>1, <2>2, <2>3, <2>4 DEF Once
  <1>14. TxTypeOK'
    BY <1>3, <1>7 DEF TxTypeOK
  <1>15. Compared(t) /\ t # NoTransaction
    BY <1>2, TransactionsDiffer DEF Compared
  <1> QED
    BY <1>13, <1>14, <1>15 DEF TxInv

LEMMA TxAppliedSafe ==
    ASSUME TxInv, WritesApplied
    PROVE  TxInv'
  <1>1. tx.pc = "writing" /\ Apply
    BY DEF WritesApplied, Apply
  <1>2. tx \in Transactions
    BY <1>1, BusyIsTransaction
  <1>3. PICK t : t = [tx EXCEPT !.pc = "reading"]
    OBVIOUS
  <1>4. tx' = t
    BY <1>3 DEF WritesApplied
  <1>5. t \in Transactions
    BY <1>2, <1>3 DEF Transactions
  <1>6. t.pc = "reading" /\ t.writes = tx.writes /\ t.mode = tx.mode /\ t.nilMap = tx.nilMap
    BY <1>2, <1>3 DEF Transactions
  <1> QED
    BY <1>1, <1>4, <1>5, <1>6, ApplySafe

LEMMA AnswerLostSafe ==
    ASSUME TxInv, AnswerLost
    PROVE  TxInv'
  <1>1. tx.pc = "writing" /\ Apply
    BY DEF AnswerLost, Apply
  <1>2. tx \in Transactions
    BY <1>1, BusyIsTransaction
  <1>3. PICK p : p = Finished
    OBVIOUS
  <1>4. p \in {"done", "open"} /\ (tx.mode = "func" => p = "done")
    BY <1>3 DEF Finished
  <1>5. PICK t : t = [tx EXCEPT !.pc = p, !.answer = "failed"]
    OBVIOUS
  <1>6. tx' = t
    BY <1>3, <1>5 DEF AnswerLost
  <1>7. t \in Transactions
    BY <1>2, <1>4, <1>5 DEF Transactions
  <1>8. /\ t.pc = p /\ t.answer = "failed" /\ t.writes = tx.writes /\ t.mode = tx.mode
        /\ t.nilMap = tx.nilMap
    BY <1>2, <1>5 DEF Transactions
  <1> QED
    BY <1>1, <1>4, <1>6, <1>7, <1>8, ApplySafe

\* The transaction is over for TransactionFunc, and open again otherwise.
LEMMA FinishSafe ==
    ASSUME TxInv, UNCHANGED <<stored, applied>>, tx.pc \in {"writing", "reading"},
           NEW a, NEW res \in SUBSET Nat,
           \/ a \in {"validation", "canceled", "failed", "condition"} /\ tx.pc = "writing"
           \/ a \in {"ok", "readFailed"} /\ tx.pc = "reading",
           tx' = [tx EXCEPT !.pc = Finished, !.answer = a, !.results = res]
    PROVE  TxInv'
  <1>1. tx \in Transactions /\ (tx.mode = "func" => Once(tx, applied))
    BY BusyIsTransaction
  <1>2. PICK p : p = Finished
    OBVIOUS
  <1>3. p \in {"done", "open"} /\ (tx.mode = "func" => p = "done")
    BY <1>2 DEF Finished
  <1>4. PICK t : t = [tx EXCEPT !.pc = p, !.answer = a, !.results = res]
    OBVIOUS
  <1>5. tx' = t
    BY <1>2, <1>4
  <1>6. t \in Transactions
    BY <1>1, <1>3, <1>4 DEF Transactions
  <1>7. t.writes = tx.writes /\ t.pc = p /\ t.answer = a /\ t.mode = tx.mode
    BY <1>1, <1>4 DEF Transactions
  <1>8. ASSUME tx.mode = "func"
        PROVE  t.pc = "done" /\ Answered(t, applied)
    <2>1. Once(tx, applied) /\ p = "done"
      BY <1>1, <1>3, <1>8
    <2>2. CASE tx.pc = "writing"
      <3>1. Len(applied) = 0 /\ a \in {"validation", "canceled", "failed", "condition"}
        BY <2>1, <2>2 DEF Once
      <3> QED
        BY <1>7, <2>1, <3>1 DEF Answered
    <2>3. CASE tx.pc = "reading"
      <3>1. Len(applied) = IF Len(t.writes) = 0 THEN 0 ELSE 1
        BY <1>7, <2>1, <2>3 DEF Once
      <3>2. a \in {"ok", "readFailed"}
        BY <2>3
      <3> QED
        BY <1>7, <2>1, <3>1, <3>2 DEF Answered, Refused
    <2> QED
      BY <2>2, <2>3
  <1>9. tx.pc # "none" /\ UNCHANGED <<stored, applied>>
    OBVIOUS
  <1>10. Compared(t)
    BY <1>7, <1>9, BusyIsTransaction DEF Compared
  <1>11. t.mode = "func" => Once(t, applied)
    BY <1>1, <1>7, <1>8 DEF Once, Matched
  <1> QED
    BY <1>5, <1>6, <1>9, <1>10, <1>11, Kept

LEMMA TxRefusedSafe ==
    ASSUME TxInv, WritesRefused
    PROVE  TxInv'
  <1>1. tx.pc = "writing" /\ UNCHANGED <<stored, applied>>
    BY DEF WritesRefused
  <1>2. tx \in Transactions
    BY <1>1, BusyIsTransaction
  <1>3. PICK a \in handleTransactionError(tx.writes) : tx' = [tx EXCEPT !.pc = Finished, !.answer = a]
    BY DEF WritesRefused
  <1>4. a \in {"validation", "canceled", "failed", "condition"}
    BY DEF handleTransactionError
  <1>5. PICK res \in SUBSET Nat : res = tx.results
    BY <1>2 DEF Transactions
  <1>6. tx' = [tx EXCEPT !.pc = Finished, !.answer = a, !.results = res]
    BY <1>2, <1>3, <1>5 DEF Transactions
  <1> QED
    BY <1>1, <1>4, <1>6, FinishSafe

LEMMA ReadsFailedSafe ==
    ASSUME TxInv, ReadsFailed
    PROVE  TxInv'
  <1>1. tx.pc = "reading" /\ UNCHANGED <<stored, applied>>
    BY DEF ReadsFailed
  <1>2. tx \in Transactions /\ tx.results \in SUBSET Nat
    BY <1>1, BusyIsTransaction DEF Transactions
  <1>3. tx' = [tx EXCEPT !.pc = Finished, !.answer = "readFailed", !.results = tx.results]
    BY <1>2 DEF ReadsFailed, Transactions
  <1> QED
    BY <1>1, <1>2, <1>3, FinishSafe

LEMMA ReadsAnsweredSafe ==
    ASSUME TxInv, ReadsAnswered
    PROVE  TxInv'
  <1>1. tx.pc = "reading" /\ UNCHANGED <<stored, applied>>
    BY DEF ReadsAnswered
  <1>2. tx \in Transactions /\ (tx.mode = "func" => Once(tx, applied))
    BY <1>1, BusyIsTransaction
  <1>3. PICK found : found = {i \in 1..Len(tx.reads) : stored[tx.reads[i]].there}
    OBVIOUS
  <1>4. CASE tx.nilMap /\ found # {}
    <2>1. PICK t : t = [tx EXCEPT !.pc = "done", !.answer = "panic"]
      OBVIOUS
    <2>2. tx' = t
      BY <1>3, <1>4, <2>1 DEF ReadsAnswered
    <2>3. t \in Transactions
      BY <1>2, <2>1 DEF Transactions
    <2>4. t.writes = tx.writes /\ t.mode = tx.mode
      BY <1>2, <2>1 DEF Transactions
    <2>5. tx.mode # "func"
      BY <1>1, <1>2, <1>4 DEF Once
    <2> QED
      BY <1>1, <2>2, <2>3, <2>4, <2>5, KeepsWrites
  <1>5. CASE ~(tx.nilMap /\ found # {})
    <2>1. tx.results \cup found \in SUBSET Nat
      <3>1. found \subseteq Nat
        BY <1>3
      <3>2. tx.results \subseteq Nat
        BY <1>2 DEF Transactions
      <3> QED
        BY <3>1, <3>2
    <2>2. tx' = [tx EXCEPT !.pc = Finished, !.answer = "ok", !.results = tx.results \cup found]
      BY <1>3, <1>5 DEF ReadsAnswered
    <2> QED
      BY <1>1, <2>1, <2>2, FinishSafe
  <1> QED
    BY <1>4, <1>5

-----------------------------------------------------------------------------
(* Rollback, a function that fails, and everything else.                   *)

LEMMA RolledBack ==
    ASSUME tx \in Transactions
    PROVE  /\ rolledBack \in Transactions /\ rolledBack.pc = tx.pc /\ rolledBack.mode = tx.mode
           /\ Len(rolledBack.writes) = 0
  <1>1. <<>> \in Seq(Writes) /\ <<>> \in Seq(TxKeys) /\ Len(<<>>) = 0
    BY EmptySeq
  <1>2. rolledBack \in Transactions
    BY <1>1 DEF rolledBack, Transactions
  <1>3. rolledBack.writes = <<>> /\ rolledBack.pc = tx.pc /\ rolledBack.mode = tx.mode
    BY DEF rolledBack, Transactions
  <1> QED
    BY <1>1, <1>2, <1>3

LEMMA RollbackSafe ==
    ASSUME TxInv, Rollback
    PROVE  TxInv'
  <1>1. /\ tx.pc = "open" /\ tx.mode = "direct" /\ tx' = rolledBack
        /\ UNCHANGED <<stored, applied>>
    BY DEF Rollback
  <1>2. tx \in Transactions
    BY <1>1, BusyIsTransaction
  <1> QED
    BY <1>1, <1>2, RolledBack, KeepsWrites

LEMMA FailsSafe ==
    ASSUME TxInv, TransactionFuncFails
    PROVE  TxInv'
  <1>1. /\ tx.pc = "open" /\ tx.mode = "func" /\ UNCHANGED <<stored, applied>>
    BY DEF TransactionFuncFails
  <1>2. tx \in Transactions /\ Once(tx, applied)
    BY <1>1, BusyIsTransaction
  <1>3. PICK b : b = rolledBack
    OBVIOUS
  <1>4. b \in Transactions /\ b.mode = tx.mode /\ Len(b.writes) = 0
    BY <1>2, <1>3, RolledBack
  <1>5. PICK t : t = [b EXCEPT !.pc = "done", !.answer = "fn"]
    OBVIOUS
  <1>6. tx' = t
    BY <1>3, <1>5 DEF TransactionFuncFails
  <1>7. t \in Transactions
    BY <1>4, <1>5 DEF Transactions
  <1>8. t.pc = "done" /\ t.answer = "fn" /\ t.mode = tx.mode /\ Len(t.writes) = 0
    BY <1>4, <1>5 DEF Transactions
  <1> QED
    BY <1>1, <1>2, <1>6, <1>7, <1>8, KeepsWrites DEF Once, Answered

LEMMA TxBeginSafe ==
    ASSUME TxInv, NEW mode \in {"func", "direct"}, TxBegin(mode)
    PROVE  TxInv'
  <1>1. tx = NoTransaction /\ UNCHANGED <<stored, applied>> /\ Len(applied) = 0
    BY DEF TxBegin, TxInv
  <1>2. PICK t : t = NewTransaction(mode)
    OBVIOUS
  <1>3. tx' = t
    BY <1>2 DEF TxBegin
  <1>4. <<>> \in Seq(Writes) /\ <<>> \in Seq(TxKeys) /\ Len(<<>>) = 0
    BY EmptySeq
  <1>5. t \in Transactions
    BY <1>2, <1>4 DEF NewTransaction, Transactions
  <1>6. t.pc = "open" /\ t.nilMap = FALSE /\ t.writes = <<>>
    BY <1>2 DEF NewTransaction
  <1>7. Len(t.writes) = 0
    BY <1>4, <1>6
  <1>8. Compared(t) /\ Matched(t, applied)
    BY <1>7 DEF Compared, Matched
  <1>9. Once(t, applied)
    BY <1>1, <1>6, <1>8 DEF Once
  <1> QED
    BY <1>1, <1>3, <1>5, <1>8, <1>9, Kept

LEMMA OtherSafe ==
    ASSUME TxInv, NEW k \in TxKeys, OtherWrite(k)
    PROVE  TxInv'
  <1>1. stored \in [TxKeys -> Rows] /\ stored[k].version + 1 \in Nat /\ UNCHANGED <<tx, applied>>
    BY DEF TxInv, TxTypeOK, Rows, OtherWrite
  <1>2. NoRow \in Rows /\ Row(0) \in Rows /\ Row(stored[k].version + 1) \in Rows
    BY <1>1 DEF NoRow, Row, Rows
  <1>3. stored' \in [TxKeys -> Rows]
    BY <1>1, <1>2 DEF OtherWrite
  <1> QED
    BY <1>1, <1>3 DEF TxInv, TxTypeOK

LEMMA TxInitSafe ==
    ASSUME TxInit
    PROVE  TxInv
  <1>1. <<>> \in Seq(Seq(Rows)) /\ Len(<<>>) = 0
    BY EmptySeq
  <1>2. applied \in Seq(Seq(Rows)) /\ Len(applied) = 0
    BY <1>1 DEF TxInit
  <1>3. stored \in [TxKeys -> Rows]
    <2>1. {NoRow, Row(1)} \subseteq Rows
      BY DEF NoRow, Row, Rows
    <2> QED
      BY <2>1 DEF TxInit
  <1> QED
    BY <1>2, <1>3 DEF TxInit, TxInv, TxTypeOK

LEMMA TxNextSafe ==
    ASSUME TxInv, TxNext
    PROVE  TxInv'
  <1>1. ASSUME NEW m \in TxModels, TxCreate(m) \/ TxUpdate(m) \/ TxDelete(m) PROVE TxInv'
    BY <1>1, WriteTypes, RecordSafe DEF TxCreate, TxUpdate, TxDelete
  <1> QED
    BY <1>1, TxBeginSafe, GetSafe, OtherSafe, CommitSafe, TxAppliedSafe, AnswerLostSafe, TxRefusedSafe,
       ReadsAnsweredSafe, ReadsFailedSafe, RollbackSafe, FailsSafe DEF TxNext

(***************************************************************************)
(* TransactionFunc applies the writes of its function together and once,   *)
(* or none of them: once if it returns nil or only its reads failed, not   *)
(* at all if it returns a refusal; any other error leaves it in doubt.     *)
(* What it overwrites has the versions it compared, whatever other clients *)
(* write between the recording and the commit.                             *)
(***************************************************************************)
THEOREM FuncAtomic == TxSpec => []TransactionFuncAtomic
  <1>1. TxInit => TxInv
    BY TxInitSafe
  <1>2. TxInv /\ [TxNext]_txVars => TxInv'
    <2>1. ASSUME TxInv, UNCHANGED txVars PROVE TxInv'
      BY <2>1 DEF TxInv, TxTypeOK, txVars
    <2> QED
      BY <2>1, TxNextSafe
  <1>3. TxInv => TransactionFuncAtomic
    <2> SUFFICES ASSUME TxInv, tx.pc = "done", tx.mode = "func"
                 PROVE  /\ tx.answer # "panic"
                        /\ tx.answer \in {"ok", "readFailed"} => Len(applied) = IF tx.writes = <<>> THEN 0 ELSE 1
                        /\ Refused(tx.answer) => applied = <<>>
                        /\ Len(applied) <= 1
                        /\ Matched(tx, applied)
      BY DEF TransactionFuncAtomic, Matched
    <2>1. tx \in Transactions /\ Once(tx, applied)
      BY BusyIsTransaction
    <2>2. tx.writes = <<>> <=> Len(tx.writes) = 0
      BY <2>1, EmptyIsZero DEF Transactions
    <2>3. applied = <<>> <=> Len(applied) = 0
      BY EmptyIsZero DEF TxInv, TxTypeOK
    <2>4. /\ tx.answer # "panic" /\ Matched(tx, applied) /\ Len(applied) <= 1
          /\ tx.answer \in {"ok", "readFailed"} => Len(applied) = IF Len(tx.writes) = 0 THEN 0 ELSE 1
          /\ Refused(tx.answer) => Len(applied) = 0
      BY <2>1 DEF Once, Answered
    <2>5. (IF tx.writes = <<>> THEN 0 ELSE 1) = IF Len(tx.writes) = 0 THEN 0 ELSE 1
      BY <2>2
    <2> QED
      BY <2>3, <2>4, <2>5
  <1> QED
    BY <1>1, <1>2, <1>3, PTL DEF TxSpec

------------------------------------------------------------------------------
(***************************************************************************)
(* Encrypted attributes at rest and read back, for any attributes, any     *)
(* update expressions, any number of executions and any refusals of KMS.   *)
(***************************************************************************)
\* What a writer of the library, or the time before the tag, leaves.
Stored == [there : {TRUE}, v : {"old", "new"}, seals : Nat,
           by : {"before", "library"}, again : BOOLEAN, beside : BOOLEAN]
Written == {x \in Stored : x.by = "library"}

Clauses == [attr : Attributes, form : Forms, x : Written]

\* A value the library has sealed for storing: sealed once, or marked.
Sealed(x) == x \in Written /\ x.seals > 0 /\ (~x.again => x.seals = 1)

\* What an encrypted attribute may hold: nothing, a plaintext from before the
\* tag, or what the library sealed under a configured key.
SafeAt(a, x) ==
    \/ x = Missing
    \/ x \in Stored /\ x.by = "before" /\ x.seals = 0
    \/ keyARN /\ Sealed(x)

EncInv ==
    /\ keyARN \in BOOLEAN
    /\ row \in [Attributes -> {Missing} \cup Stored]
    /\ \A a \in Encrypted : SafeAt(a, row[a])
    /\ ub \in [clauses : Seq(Clauses), executes : Nat]

------------------------------------------------------------------------------
\* A set of natural numbers has a least one.
LEMMA Smallest ==
    ASSUME NEW N, N \subseteq Nat, N # {}
    PROVE  \E m \in N : \A k \in N : m <= k
<1>1. PICK m \in N : \A k \in N : ~(<<k, m>> \in OpToRel(<, Nat))
  BY NatLessThanWellFounded, WFMin, Zenon
<1>2. \A k \in N : ~(k < m)
  BY <1>1, Zenon DEF OpToRel
<1>. QED
  BY <1>2

------------------------------------------------------------------------------
\* Sealing what was not sealed gives one seal; what was is marked.
LEMMA Sealing ==
    ASSUME NEW a, NEW x \in Written
    PROVE  EncryptAttributeValue(a, x) \in Written /\ Sealed(EncryptAttributeValue(a, x))
<1>1. x \in Stored /\ x.by = "library" /\ x.seals \in Nat /\ x.v \in {"old", "new"}
  BY DEF Written, Stored
<1>. PICK y : y = EncryptAttributeValue(a, x)
  OBVIOUS
<1>2. y.seals = x.seals + 1 /\ y.by = "library"
  BY <1>1 DEF EncryptAttributeValue
<1>3. y \in Stored
  <2>1. CASE x.seals > 0
    BY <1>1, <2>1 DEF EncryptAttributeValue, Stored
  <2>2. CASE ~(x.seals > 0)
    BY <1>1, <2>2 DEF EncryptAttributeValue, Stored
  <2>. QED
    BY <2>1, <2>2
<1>4. ~y.again => y.seals = 1
  <2>1. CASE x.seals > 0
    BY <2>1 DEF EncryptAttributeValue
  <2>2. CASE ~(x.seals > 0)
    BY <1>1, <1>2, <2>2
  <2>. QED
    BY <2>1, <2>2
<1>. QED
  BY <1>1, <1>2, <1>3, <1>4 DEF Sealed, Written

\* The library makes clauses, and items, of unsealed values.
LEMMA Fresh == Value("new", 0, "library") \in Written
BY DEF Value, Written, Stored

\* An attribute that is sealed needs a key.
LEMMA KeyConfigured ==
    ASSUME EncInv, ~failClosed, NEW a \in Encrypted
    PROVE  keyARN
BY DEF EncInv, failClosed, MetadataHasEncryptedFields

\* An item is put with its encrypted attributes sealed.
LEMMA PutSafe ==
    ASSUME EncInv, ~failClosed, NEW values \in Models,
           row' = encryptItem(values), UNCHANGED <<keyARN, ub>>
    PROVE  EncInv'
<1>1. \A a \in Attributes : values[a] = Missing \/ values[a] \in Written
  BY Fresh DEF Models
<1>2. ASSUME NEW a \in Attributes
      PROVE  row'[a] \in {Missing} \cup Stored /\ (a \in Encrypted => SafeAt(a, row[a])')
  <2>1. row'[a] = IF a \in Encrypted /\ values[a].there
                  THEN EncryptAttributeValue(a, values[a]) ELSE values[a]
    BY DEF encryptItem, Models
  <2>2. CASE values[a] = Missing
    BY <2>1, <2>2 DEF Missing, SafeAt
  <2>3. CASE values[a] \in Written
    <3>1. values[a].there
      BY <2>3 DEF Written, Stored
    <3>2. CASE a \in Encrypted
      <4>1. Sealed(row'[a]) /\ row'[a] \in Written
        BY <2>1, <2>3, <3>1, <3>2, Sealing
      <4>2. keyARN'
        BY <3>2, KeyConfigured
      <4>. QED
        BY <4>1, <4>2 DEF SafeAt, Sealed, Written
    <3>3. CASE a \notin Encrypted
      BY <2>1, <2>3, <3>3 DEF Written
    <3>. QED
      BY <3>2, <3>3
  <2>. QED
    BY <1>1, <2>2, <2>3
<1>3. DOMAIN row' = Attributes /\ row' = [a \in Attributes |-> row'[a]]
  BY DEF encryptItem, Models
<1>4. Encrypted \subseteq Attributes
  BY DEF Attributes
<1>. QED
  BY <1>2, <1>3, <1>4 DEF EncInv

------------------------------------------------------------------------------
\* Sealing a prefix of the clauses keeps them clauses.
LEMMA SectionTypes ==
    ASSUME NEW cs \in Seq(Clauses), NEW n
    PROVE  /\ encryptSetUpdateExpressionSection(cs, n) \in Seq(Clauses)
           /\ Len(encryptSetUpdateExpressionSection(cs, n)) = Len(cs)
<1>. PICK ds : ds = encryptSetUpdateExpressionSection(cs, n)
  OBVIOUS
<1>1. Len(cs) \in Nat /\ \A i \in 1..Len(cs) : cs[i] \in Clauses
  BY LenProperties, ElementOfSeq
<1>2. ASSUME NEW i \in 1..Len(cs)
      PROVE  ds[i] \in Clauses
  <2>1. cs[i].x \in Written /\ EncryptAttributeValue(cs[i].attr, cs[i].x) \in Written
    BY <1>1, Sealing DEF Clauses
  <2>2. [cs[i] EXCEPT !.x = EncryptAttributeValue(cs[i].attr, cs[i].x)] \in Clauses
    BY <1>1, <2>1 DEF Clauses
  <2>. QED
    BY <1>1, <2>2 DEF encryptSetUpdateExpressionSection
<1>3. ds = [i \in 1..Len(cs) |-> ds[i]]
  BY DEF encryptSetUpdateExpressionSection
<1>4. ds \in Seq(Clauses)
  BY <1>1, <1>2, <1>3, IsASeq
<1>5. Len(ds) = Len(cs)
  BY <1>1, <1>3, <1>4, LenProperties
<1>. QED
  BY <1>4, <1>5

\* A call of EncryptUpdateExpressionValues that does not fail has refused no
\* clause and sealed every clause that assigns to an encrypted attribute; an
\* ADD to a path inside of it assigns nothing to the attribute.
LEMMA SealedUnlessFailed ==
    ASSUME NEW cs \in Seq(Clauses), NEW o \in EncryptUpdateExpressionValues(cs)
    PROVE  /\ o.clauses \in Seq(Clauses)
           /\ Len(o.clauses) = Len(cs)
           /\ ~o.failed => \A i \in 1..Len(cs) : LET c == o.clauses[i] IN
                c.attr \in Encrypted => c.form \in {"REMOVE", "nestedADD"} \/ Sealed(c.x)
<1>. PICK n : n = firstRefused(cs)
  OBVIOUS
<1>1. PICK k : o.clauses = encryptSetUpdateExpressionSection(cs, k) /\ (~o.failed => k = n)
  BY DEF EncryptUpdateExpressionValues
<1>2. o.clauses \in Seq(Clauses) /\ Len(o.clauses) = Len(cs)
  BY <1>1, SectionTypes
<1>3. ASSUME ~o.failed, NEW i \in 1..Len(cs), o.clauses[i].attr \in Encrypted
      PROVE  o.clauses[i].form \in {"REMOVE", "nestedADD"} \/ Sealed(o.clauses[i].x)
  <2>0. Len(cs) \in Nat /\ cs[i] \in Clauses
    BY LenProperties, ElementOfSeq
  <2>1. ~(n <= Len(cs)) /\ ~rejectEncryptedAddDelete(cs)
    <3>1. \/ o.failed = (n <= Len(cs) \/ rejectEncryptedAddDelete(cs))
          \/ o.failed = TRUE
      BY DEF EncryptUpdateExpressionValues
    <3>. QED
      BY <1>3, <3>1
  <2>2. {j \in 1..Len(cs) : refusesClause(cs[j])} = {} /\ n = Len(cs) + 1
    <3>1. CASE {j \in 1..Len(cs) : refusesClause(cs[j])} = {}
      BY <3>1 DEF firstRefused
    <3>2. CASE {j \in 1..Len(cs) : refusesClause(cs[j])} # {}
      <4>. DEFINE R == {j \in 1..Len(cs) : refusesClause(cs[j])}
      <4>1. R \subseteq Nat /\ R # {}
        BY <3>2
      <4>2. \E j \in R : \A m \in R : j <= m
        BY <4>1, Smallest
      <4>3. n \in R
        BY <3>2, <4>2 DEF firstRefused
      <4>. QED
        BY <2>1, <4>3, <2>0
    <3>. QED
      BY <3>1, <3>2
  <2>3. o.clauses[i] = IF i < n /\ sealsClause(cs[i])
                       THEN [cs[i] EXCEPT !.x = EncryptAttributeValue(cs[i].attr, cs[i].x)]
                       ELSE cs[i]
    BY <1>1, <1>3 DEF encryptSetUpdateExpressionSection
  <2>4. i < n
    BY <2>0, <2>2
  <2>5. o.clauses[i].attr = cs[i].attr /\ o.clauses[i].form = cs[i].form
    BY <2>0, <2>3 DEF Clauses
  <2>6. ~refusesClause(cs[i])
    BY <2>2
  <2>7. cs[i].form \notin {"ADD", "nested"}
    BY <1>3, <2>1, <2>5, <2>6 DEF rejectEncryptedAddDelete, refusesClause
  <2>8. CASE sealsClause(cs[i])
    <3>1. o.clauses[i].x = EncryptAttributeValue(cs[i].attr, cs[i].x)
      BY <2>0, <2>3, <2>4, <2>8 DEF Clauses
    <3>2. cs[i].x \in Written
      BY <2>0 DEF Clauses
    <3>. QED
      BY <3>1, <3>2, Sealing
  <2>9. CASE ~sealsClause(cs[i])
    BY <1>3, <2>0, <2>5, <2>7, <2>9 DEF sealsClause, Clauses, Forms
  <2>. QED
    BY <2>8, <2>9
<1>. QED
  BY <1>2, <1>3

\* DynamoDB applying clauses that were sealed leaves what is safe.
LEMMA UpdateSafe ==
    ASSUME EncInv, ~failClosed, NEW cs \in Seq(Clauses),
           \A i \in 1..Len(cs) :
               cs[i].attr \in Encrypted => cs[i].form \in {"REMOVE", "nestedADD"} \/ Sealed(cs[i].x)
    PROVE  /\ rowUpdated(cs) \in [Attributes -> {Missing} \cup Stored]
           /\ \A a \in Encrypted : SafeAt(a, rowUpdated(cs)[a])
<1>0. Encrypted \subseteq Attributes
  BY DEF Attributes
<1>1. ASSUME NEW a \in Attributes
      PROVE  /\ rowUpdated(cs)[a] \in {Missing} \cup Stored
             /\ a \in Encrypted => SafeAt(a, rowUpdated(cs)[a])
  <2>1. CASE ~\E i \in 1..Len(cs) : cs[i].attr = a
    <3>1. rowUpdated(cs)[a] = row[a]
      BY <2>1 DEF rowUpdated
    <3>. QED
      BY <3>1 DEF EncInv
  <2>2. CASE \E i \in 1..Len(cs) : cs[i].attr = a
    <3>1. PICK i \in 1..Len(cs) : cs[i].attr = a /\ rowUpdated(cs)[a] = assigned(row[a], cs[i])
      BY <2>2 DEF rowUpdated
    <3>2. cs[i] \in Clauses
      BY ElementOfSeq
    <3>3. cs[i].x \in Written /\ cs[i].form \in Forms
      BY <3>2 DEF Clauses
    <3>4. \/ cs[i].form = "REMOVE" /\ assigned(row[a], cs[i]) = Missing
          \/ /\ a \in Encrypted => cs[i].form \notin {"REMOVE", "nestedADD"}
             /\ assigned(row[a], cs[i]) \in {row[a], cs[i].x}
          \/ /\ a \in Encrypted /\ cs[i].form = "nestedADD"
             /\ assigned(row[a], cs[i]) = IF row[a].there THEN [row[a] EXCEPT !.beside = TRUE] ELSE row[a]
      BY <3>1, <3>3 DEF assigned, Forms
    <3>5. row[a] \in {Missing} \cup Stored /\ (a \in Encrypted => SafeAt(a, row[a]))
      BY DEF EncInv
    <3>6. a \in Encrypted /\ cs[i].form \notin {"REMOVE", "nestedADD"} => SafeAt(a, cs[i].x)
      BY <3>1, KeyConfigured DEF SafeAt
    <3>7. SafeAt(a, Missing)
      BY DEF SafeAt
    <3>8. ASSUME row[a].there
          PROVE  /\ [row[a] EXCEPT !.beside = TRUE] \in Stored
                 /\ a \in Encrypted => SafeAt(a, [row[a] EXCEPT !.beside = TRUE])
      <4>1. row[a] \in Stored
        BY <3>5, <3>8 DEF Missing
      <4>2. PICK y : y = [row[a] EXCEPT !.beside = TRUE]
        OBVIOUS
      <4>3. /\ y \in Stored /\ y.seals = row[a].seals /\ y.by = row[a].by
            /\ y.again = row[a].again
        BY <4>1, <4>2 DEF Stored
      <4>4. a \in Encrypted => SafeAt(a, y)
        BY <3>5, <3>8, <4>1, <4>3 DEF SafeAt, Sealed, Written, Missing
      <4>. QED
        BY <4>2, <4>3, <4>4
    <3>. QED
      BY <3>1, <3>3, <3>4, <3>5, <3>6, <3>7, <3>8 DEF Written
  <2>. QED
    BY <2>1, <2>2
<1>. QED
  BY <1>0, <1>1 DEF rowUpdated

\* However an update ends, the row stays safe.
LEMMA OutcomeSafe ==
    ASSUME EncInv, ~failClosed, NEW cs \in Seq(Clauses),
           NEW o \in EncryptUpdateExpressionValues(cs), NEW refused \in BOOLEAN,
           row' = IF o.failed \/ refused THEN row ELSE rowUpdated(o.clauses),
           UNCHANGED keyARN, ub' \in [clauses : Seq(Clauses), executes : Nat]
    PROVE  EncInv'
<1>1. CASE o.failed \/ refused
  BY <1>1 DEF EncInv, SafeAt
<1>2. CASE ~(o.failed \/ refused)
  <2>1. row' = rowUpdated(o.clauses)
    BY <1>2
  <2>2. /\ rowUpdated(o.clauses) \in [Attributes -> {Missing} \cup Stored]
        /\ \A a \in Encrypted : SafeAt(a, rowUpdated(o.clauses)[a])
    BY <1>2, SealedUnlessFailed, UpdateSafe
  <2>. QED
    BY <2>1, <2>2 DEF EncInv, SafeAt
<1>. QED
  BY <1>1, <1>2

------------------------------------------------------------------------------
LEMMA InitIInv == EncInit => EncInv
<1>. SUFFICES ASSUME EncInit PROVE EncInv
  OBVIOUS
<1>1. keyARN \in BOOLEAN
  BY DEF EncInit
<1>2. Value("old", 0, "before") \in Stored
      /\ Value("old", 0, "before").by = "before" /\ Value("old", 0, "before").seals = 0
  BY DEF Value, Stored
<1>3. row \in [Attributes -> {Missing} \cup Stored]
  BY <1>2 DEF EncInit
<1>4. \A a \in Encrypted : SafeAt(a, row[a])
  BY <1>2 DEF EncInit, SafeAt, Attributes
<1>5. ub \in [clauses : Seq(Clauses), executes : Nat]
  BY EmptySeq DEF EncInit
<1>. QED
  BY <1>1, <1>3, <1>4, <1>5 DEF EncInv

LEMMA StepIInv == EncInv /\ [EncNext]_encVars => EncInv'
<1>. SUFFICES ASSUME EncInv, [EncNext]_encVars PROVE EncInv'
  OBVIOUS
<1>1. ASSUME NEW values \in Models, PutItem(values) \/ TransactPut(values) PROVE EncInv'
  BY <1>1, PutSafe DEF PutItem, TransactPut
<1>2. ASSUME NEW values \in Models, PutFails(values) PROVE EncInv'
  BY <1>2 DEF PutFails, EncInv, SafeAt
<1>3. ASSUME NEW attrs \in (SUBSET Attributes) \ {{}}, UpdateFields(attrs) PROVE EncInv'
  <2>1. PICK order \in [1..Cardinality(attrs) -> attrs] :
             applyUpdate([i \in DOMAIN order |-> Clause(order[i], "value")])
    BY <1>3 DEF UpdateFields
  <2>2. Cardinality(attrs) \in Nat
    <3>1. IsFiniteSet(Attributes)
      BY EncryptionAssumption, FS_Union DEF Attributes
    <3>. QED
      BY <3>1, FS_Subset, FS_CardinalityType
  <2>3. PICK cs : cs = [i \in 1..Cardinality(attrs) |-> Clause(order[i], "value")]
    OBVIOUS
  <2>4. \A i \in 1..Cardinality(attrs) : cs[i] \in Clauses
    BY <2>3, Fresh DEF Clause, Clauses, Forms
  <2>5. cs \in Seq(Clauses)
    BY <2>2, <2>3, <2>4, IsASeq
  <2>6. applyUpdate(cs)
    BY <2>1, <2>3
  <2>7. PICK o \in EncryptUpdateExpressionValues(cs) :
             row' = IF o.failed THEN row ELSE rowUpdated(o.clauses)
    BY <2>6 DEF applyUpdate
  <2>8. row' = IF o.failed \/ FALSE THEN row ELSE rowUpdated(o.clauses)
    BY <2>7
  <2>9. ~failClosed /\ UNCHANGED keyARN /\ ub' \in [clauses : Seq(Clauses), executes : Nat]
    BY <1>3 DEF UpdateFields, EncInv
  <2>. QED
    BY <2>5, <2>8, <2>9, OutcomeSafe
<1>4. ASSUME NEW a \in Attributes, NEW form \in Forms, AddClause(a, form) PROVE EncInv'
  <2>1. Clause(a, form) \in Clauses
    BY Fresh DEF Clause, Clauses
  <2>2. ub' \in [clauses : Seq(Clauses), executes : Nat]
    <3>1. ub' = [ub EXCEPT !.clauses = Append(ub.clauses, Clause(a, form))]
      BY <1>4 DEF AddClause
    <3>2. Append(ub.clauses, Clause(a, form)) \in Seq(Clauses)
      BY <2>1, AppendProperties DEF EncInv
    <3>. QED
      BY <3>1, <3>2 DEF EncInv
  <2>. QED
    BY <1>4, <2>2 DEF AddClause, EncInv, SafeAt
<1>5. ASSUME Execute PROVE EncInv'
  <2>1. PICK o \in EncryptUpdateExpressionValues(ub.clauses), refused \in BOOLEAN :
             /\ row' = IF o.failed \/ refused THEN row ELSE rowUpdated(o.clauses)
             /\ ub' = [clauses |-> o.clauses, executes |-> ub.executes + 1]
    BY <1>5 DEF Execute
  <2>2. ub.clauses \in Seq(Clauses)
    BY DEF EncInv
  <2>3. ub' \in [clauses : Seq(Clauses), executes : Nat]
    <3>1. o.clauses \in Seq(Clauses)
      BY <2>1, <2>2, SealedUnlessFailed
    <3>. QED
      BY <2>1, <3>1 DEF EncInv
  <2>4. ~failClosed /\ UNCHANGED keyARN
    BY <1>5 DEF Execute
  <2>. QED
    BY <2>1, <2>2, <2>3, <2>4, OutcomeSafe
<1>6. ASSUME NewUpdateBuilder PROVE EncInv'
  <2>1. ub' \in [clauses : Seq(Clauses), executes : Nat]
    BY <1>6, EmptySeq DEF NewUpdateBuilder
  <2>. QED
    BY <1>6, <2>1 DEF NewUpdateBuilder, EncInv, SafeAt
<1>7. ASSUME UNCHANGED encVars PROVE EncInv'
  BY <1>7 DEF encVars, EncInv, SafeAt
<1>. QED
  BY <1>1, <1>2, <1>3, <1>4, <1>5, <1>6, <1>7 DEF EncNext

------------------------------------------------------------------------------
\* What is safe at rest is read back, or refused.
LEMMA ReadsBack == EncInv => EncryptedReadsBack
<1>. SUFFICES ASSUME EncInv, NEW a \in Encrypted, row[a].there
              PROVE  IF row[a].by = "before" THEN ~Opened(a)
                     ELSE /\ keyARN
                          /\ row[a].seals > 0
                          /\ ~row[a].again => Opened(a)
  BY DEF EncryptedReadsBack
<1>1. row[a] # Missing /\ SafeAt(a, row[a])
  BY DEF EncInv, Missing
<1>2. CASE row[a] \in Stored /\ row[a].by = "before" /\ row[a].seals = 0
  <2>1. ~parseEncryptedEnvelope(row[a])
    BY <1>2 DEF parseEncryptedEnvelope
  <2>2. \E e : decryptItem(a) = [error |-> e]
    <3>1. CASE failClosed
      BY <3>1 DEF decryptItem
    <3>2. CASE ~failClosed
      BY <2>1, <3>2 DEF decryptItem
    <3>. QED
      BY <3>1, <3>2
  <2>3. "v" \notin DOMAIN decryptItem(a)
    BY <2>2
  <2>. QED
    BY <1>2, <2>3 DEF Opened
<1>3. CASE keyARN /\ Sealed(row[a])
  <2>1. ~failClosed /\ parseEncryptedEnvelope(row[a])
    BY <1>3 DEF failClosed, parseEncryptedEnvelope, Sealed
  <2>2. decryptItem(a) = DecryptAttributeValue(a, row[a])
    BY <2>1 DEF decryptItem
  <2>3. row[a] \in Stored /\ row[a].by = "library"
    BY <1>3 DEF Sealed, Written
  <2>4. "v" \in DOMAIN decryptItem(a) /\ decryptItem(a).seals = row[a].seals - 1
    BY <2>2, <2>3 DEF DecryptAttributeValue, Stored
  <2>. QED
    BY <1>3, <2>3, <2>4 DEF Opened, Sealed
<1>. QED
  BY <1>1, <1>2, <1>3 DEF SafeAt

\* The inductive invariant holds in every reachable state.
THEOREM Invariance == EncSpec => []EncInv
BY InitIInv, StepIInv, PTL DEF EncSpec

\* Whichever writer stored it and whatever KMS refused on the way, the value of
\* an encrypted attribute does not rest in the clear, no plaintext is read as if
\* it had been sealed, and what was sealed once is read back.  What an ADD to a
\* path inside the attribute puts beside the envelope is not sealed.
THEOREM AtRestAndBack == EncSpec => []EncryptedReadsBack
BY Invariance, ReadsBack, PTL
==============================================================================
