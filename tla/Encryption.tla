----------------------------- MODULE Encryption -----------------------------
(***************************************************************************)
(* Field encryption: what the writers of internal/encryption, of the query *)
(* executor and of the transactions store for attributes tagged encrypted, *)
(* and what the readers make of it.  KMS may refuse any data key.          *)
(*                                                                         *)
(* A value is sealed any number of times; sealing is authenticated with    *)
(* the name of the attribute and opened once by a read.                    *)
(***************************************************************************)
EXTENDS Integers, Sequences, FiniteSets

CONSTANTS
    Encrypted,   \* attributes with the tag
    Plain,       \* attributes without it
    MaxClauses,  \* of one UpdateBuilder
    MaxExecutes, \* of one UpdateBuilder
    MaxKMSFails

ASSUME EncryptionAssumption == IsFiniteSet(Encrypted) /\ IsFiniteSet(Plain)

Attributes == Encrypted \cup Plain

VARIABLES
    keyARN,   \* is Config.KMSKeyARN set?
    row,      \* attribute -> the stored value, or Missing
    ub,       \* an UpdateBuilder: its clauses, and how often Execute ran
    kmsFails  \* what is left of MaxKMSFails

encVars == <<keyARN, row, ub, kmsFails>>

Missing == [there |-> FALSE]

\* "by" is who stored it; "again" says that it was sealed before the call,
\* "beside" that something in the clear was added to it later.
Value(v, seals, by) ==
    [there |-> TRUE, v |-> v, seals |-> seals, by |-> by, again |-> FALSE, beside |-> FALSE]

\* Items may be older than the tag.
EncInit ==
    /\ keyARN \in BOOLEAN
    /\ row \in [Attributes -> {Missing, Value("old", 0, "before")}]
    /\ ub = [clauses |-> <<>>, executes |-> 0]
    /\ kmsFails = MaxKMSFails

MetadataHasEncryptedFields == Encrypted # {}

\* FailClosedIfEncryptedWithoutKMSKeyARN
failClosed == MetadataHasEncryptedFields /\ ~keyARN

EncryptAttributeValue(a, x) ==
    [there |-> TRUE, v |-> x.v, seals |-> x.seals + 1, by |-> x.by, again |-> x.seals > 0,
     beside |-> FALSE]

\* A value that is not an envelope is refused.
parseEncryptedEnvelope(x) == x.seals > 0

\* What stands beside the fields of the envelope is ignored.
DecryptAttributeValue(a, x) == [x EXCEPT !.seals = @ - 1, !.beside = FALSE]

(***************************************************************************)
(* Items.  The fields are sealed in the order of a Go map; the item was    *)
(* built for this call, so what a failure leaves behind is dropped.        *)
(***************************************************************************)
encryptItem(values) ==
    [a \in DOMAIN values |->
        IF a \in Encrypted /\ values[a].there THEN EncryptAttributeValue(a, values[a]) ELSE values[a]]

Models == [Attributes -> {Missing, Value("new", 0, "library")}]

PutItem(values) ==
    /\ ~failClosed
    /\ row' = encryptItem(values)
    /\ UNCHANGED <<keyARN, ub, kmsFails>>

\* Transaction.encryptItemIfNeeded and the Put of a transaction.
TransactPut(values) ==
    /\ ~failClosed
    /\ \E a \in Attributes : values[a].there
    /\ row' = encryptItem(values)
    /\ UNCHANGED <<keyARN, ub, kmsFails>>

PutFails(values) ==
    /\ ~failClosed
    /\ kmsFails > 0
    /\ \E a \in Encrypted : values[a].there
    /\ kmsFails' = kmsFails - 1
    /\ UNCHANGED <<keyARN, row, ub>>

(***************************************************************************)
(* Update expressions.  A clause assigns to an attribute; the values live  *)
(* in the map of the builder and are sealed in place.  A list_append is    *)
(* refused as a SET of a nested path is, and DELETE is treated as ADD is;  *)
(* the DELETE of a nested path finds no set in an envelope.                *)
(***************************************************************************)
Forms == {"value", "ifNotExists", "nested", "ADD", "REMOVE", "nestedADD"}

Clause(a, form) == [attr |-> a, form |-> form, x |-> Value("new", 0, "library")]

\* The default of if_not_exists is left as it is (mutant).
sealsValueOnly(c) == c.attr \in Encrypted /\ c.form = "value"

sealsClause(c) == c.attr \in Encrypted /\ c.form \in {"value", "ifNotExists"}

\* Nested and indexed paths and list_append are not supported.
refusesClause(c) == c.attr \in Encrypted /\ c.form = "nested"

\* The name looked up is the whole path: nested paths are not found.
rejectEncryptedAddDelete(clauses) ==
    \E i \in 1..Len(clauses) :
        clauses[i].attr \in Encrypted /\ clauses[i].form = "ADD"

\* The clauses before position n are sealed.
encryptSetUpdateExpressionSection(clauses, n) ==
    [i \in 1..Len(clauses) |->
        IF i < n /\ sealsClause(clauses[i])
        THEN [clauses[i] EXCEPT !.x = EncryptAttributeValue(clauses[i].attr, clauses[i].x)]
        ELSE clauses[i]]

firstRefused(clauses) ==
    LET refused == {i \in 1..Len(clauses) : refusesClause(clauses[i])}
    IN  IF refused = {} THEN Len(clauses) + 1 ELSE CHOOSE i \in refused : \A j \in refused : i <= j

\* The outcomes of EncryptUpdateExpressionValues: the clauses it leaves in
\* the builder, and whether it failed.
EncryptUpdateExpressionValues(clauses) ==
    LET n == firstRefused(clauses)
        kms == {i \in 1..n - 1 : sealsClause(clauses[i])}
    IN  {[clauses |-> encryptSetUpdateExpressionSection(clauses, n),
          failed |-> n <= Len(clauses) \/ rejectEncryptedAddDelete(clauses), kms |-> FALSE]}
        \cup {[clauses |-> encryptSetUpdateExpressionSection(clauses, i),
               failed |-> TRUE, kms |-> TRUE] : i \in kms}

\* A nested path needs a map to go into: a value, or the envelope of one.
pathsExist(clauses) ==
    \A i \in 1..Len(clauses) :
        clauses[i].form \in {"nested", "nestedADD"} => row[clauses[i].attr].there

\* DynamoDB applies the clauses.
assigned(old, c) ==
    CASE c.form = "value"                              -> c.x
      [] c.form = "ifNotExists"                        -> IF old.there THEN old ELSE c.x
      [] c.form = "REMOVE"                             -> Missing
      [] c.form = "nestedADD" /\ c.attr \in Encrypted   -> IF old.there THEN [old EXCEPT !.beside = TRUE] ELSE old
      [] c.form = "nestedADD" /\ c.attr \notin Encrypted -> c.x
      [] c.form \in {"nested", "ADD"}                   -> c.x

rowUpdated(clauses) ==
    [a \in Attributes |->
        IF \E i \in 1..Len(clauses) : clauses[i].attr = a
        THEN assigned(row[a], clauses[CHOOSE i \in 1..Len(clauses) : clauses[i].attr = a])
        ELSE row[a]]

applyUpdate(clauses) ==
    \E o \in EncryptUpdateExpressionValues(clauses) :
        /\ o.kms => kmsFails > 0
        /\ kmsFails' = IF o.kms THEN kmsFails - 1 ELSE kmsFails
        /\ row' = IF o.failed THEN row ELSE rowUpdated(o.clauses)

\* Query.Update and the updates of a transaction compile their values for
\* the call.
UpdateFields(attrs) ==
    /\ ~failClosed
    /\ \E order \in {s \in [1..Cardinality(attrs) -> attrs] : \A a \in attrs : \E i \in DOMAIN s : s[i] = a} :
          applyUpdate([i \in DOMAIN order |-> Clause(order[i], "value")])
    /\ UNCHANGED <<keyARN, ub>>

\* UpdateBuilder: one clause per attribute.
AddClause(a, form) ==
    /\ ub.executes = 0
    /\ Len(ub.clauses) < MaxClauses
    /\ \A i \in 1..Len(ub.clauses) : ub.clauses[i].attr # a
    /\ ub' = [ub EXCEPT !.clauses = Append(@, Clause(a, form))]
    /\ UNCHANGED <<keyARN, row, kmsFails>>

\* The values of an earlier Execute are still in the builder.
Execute ==
    /\ ub.clauses # <<>>
    /\ ub.executes < MaxExecutes
    /\ ~failClosed
    /\ \E o \in EncryptUpdateExpressionValues(ub.clauses), refused \in BOOLEAN :
          /\ o.kms => kmsFails > 0
          /\ kmsFails' = IF o.kms THEN kmsFails - 1 ELSE kmsFails
          /\ refused \/ pathsExist(o.clauses)
          /\ row' = IF o.failed \/ refused THEN row ELSE rowUpdated(o.clauses)
          /\ ub' = [clauses |-> o.clauses, executes |-> ub.executes + 1]
    /\ UNCHANGED keyARN

NewUpdateBuilder ==
    /\ ub.executes > 0
    /\ ub' = [clauses |-> <<>>, executes |-> 0]
    /\ UNCHANGED <<keyARN, row, kmsFails>>

EncNext ==
    \/ \E values \in Models : PutItem(values) \/ TransactPut(values) \/ PutFails(values)
    \/ \E attrs \in (SUBSET Attributes) \ {{}} : UpdateFields(attrs)
    \/ \E a \in Attributes, form \in Forms : AddClause(a, form)
    \/ Execute \/ NewUpdateBuilder

EncSpec == EncInit /\ [][EncNext]_encVars

(***************************************************************************)
(* Reads.                                                                  *)
(***************************************************************************)
\* What a read returns for an attribute: its value, the envelope around it,
\* or an error.
decryptItem(a) ==
    IF a \notin Encrypted THEN row[a]
    ELSE IF failClosed THEN [error |-> "not configured"]
    ELSE IF parseEncryptedEnvelope(row[a]) THEN DecryptAttributeValue(a, row[a])
    ELSE [error |-> "envelope"]

Opened(a) == "v" \in DOMAIN decryptItem(a) /\ decryptItem(a).seals = 0

(***************************************************************************)
(* Properties.                                                             *)
(***************************************************************************)
\* Whichever writer stored it and whatever KMS refused on the way, a value
\* of an encrypted attribute is never stored in the clear, a read never returns
\* a stored plaintext as if it had been sealed, and it returns what was written
\* (query_executor.go:138, update_expression.go:35, transaction.go:478).
\* Two things it cannot say of this code: a value that an UpdateBuilder had
\* sealed in place before it failed or ran is sealed once more by the next
\* Execute and is read back as an envelope ("again"); and an ADD to a nested
\* path is not refused (update_expression.go:145), so that its value lies in
\* the clear beside the envelope and no read returns it ("beside").  The
\* attribute's own value is sealed and read back even then.
EncryptedReadsBack ==
    \A a \in Encrypted : row[a].there =>
        IF row[a].by = "before"
        THEN ~Opened(a)
        ELSE /\ keyARN
             /\ row[a].seals > 0
             /\ ~row[a].again => Opened(a)
=============================================================================
