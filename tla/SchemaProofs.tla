---------------------------- MODULE SchemaProofs ----------------------------
(***************************************************************************)
(* A migration that reports success has carried over every item nobody     *)
(* wrote meanwhile, for any number of items, pages, batches and retries,   *)
(* any transformation of the keys, and any number of migrations at once.   *)
(* A model that is registered is exactly what the tags of its struct say,  *)
(* for any number of fields, tokens and indexes.                           *)
(***************************************************************************)
EXTENDS Schema, Registry, FiniteSetTheorems, SequenceTheorems, WellFoundedInduction, TLAPS

------------------------------------------------------------------------------
Early == {"backup", "copyTable", "delete", "gone", "create", "active"}
Copying == {"scan", "write", "put"}
Places == Returned \cup Early \cup Copying \cup {"ensure", "createTarget", "targetActive"}

SourceItems == [of : Keys, val : Int]

\* The key of an item in the table it is copied to.
KeyIn(to) == IF to = "target" THEN TargetKey ELSE [k \in Keys |-> k]

\* A request to put an item.
Requests == {[key |-> x, item |-> item] : x \in {KeyIn("target")[k] : k \in Keys} \cup Keys, item \in SourceItems}

\* The item is as it is in the source table src, unless that was written (tch).
UpToDate(item, src, tch) == item.of \in tch \/ item = src[item.of]

\* The item of the source key k is in items, or one that shares its key.
Here(items, k, keyOf, src, tch) ==
    /\ keyOf[k] \in DOMAIN items
    /\ items[keyOf[k]] \in SourceItems
    /\ keyOf[items[keyOf[k]].of] = keyOf[k]
    /\ UpToDate(items[keyOf[k]], src, tch)

AllHere(items, keyOf, src, tch) == \A k \in Keys \ tch : Here(items, k, keyOf, src, tch)

\* A request to put an item in the table to.
RequestRight(r, to, src, tch) ==
    r.item \in SourceItems /\ r.key = KeyIn(to)[r.item.of] /\ UpToDate(r.item, src, tch)

\* The source keys a migration has read.
ReadBy(g) == IF g.after < 0 THEN Keys ELSE 1..g.after

\* What a migration has read is pending, and up to date, or has arrived.
CopyRight(g, pending, tab, tch) ==
    /\ \A r \in pending : RequestRight(r, g.to, tab.source.items, tch)
    /\ g.to = "target" \/ g.alone =>
          \A k \in ReadBy(g) \ tch :
              \/ \E r \in pending : r.item.of = k
              \/ Here(tab[g.to].items, k, KeyIn(g.to), tab.source.items, tch)

\* A backup copied by g, and by g only, is there.
BackupRight(g, tab, tch) ==
    /\ g.pc \in Copying /\ g.to = "backup" => g.copied
    /\ g.copied /\ g.alone =>
          /\ tab.backup.status = "active"
          /\ \/ g.to = "backup" /\ g.pc \in Copying
             \/ AllHere(tab.backup.items, KeyIn("backup"), tab.source.items, tch)

\* A migration under way is right, with the tables tab and the keys tch touched.
MigrationRight(g, tab, tch) ==
    /\ g.pc \in Copying => CopyRight(g, Range(g.todo) \cup g.batch, tab, tch) /\ g.after <= LastKey
    /\ g.pc \notin {"write", "put"} => g.todo = <<>> /\ g.batch = {}
    /\ g.pc = "scan" => g.after >= 0
    /\ g.pc \notin Copying => g.after = 0
    /\ g.pc \in Early => ~g.copied
    /\ BackupRight(g, tab, tch)

Migrations ==
    [pc : Places, backup : BOOLEAN, copy : BOOLEAN, to : {"target", "backup"}, after : Int,
     todo : Seq(Requests), batch : SUBSET Requests, attempt : Int, alone : BOOLEAN, copied : BOOLEAN]

Tables == {"source", "target", "backup"}

TablesRight(tab) ==
    /\ tab = [source |-> tab.source, target |-> tab.target, backup |-> tab.backup]
    /\ \A t \in Tables : tab[t] = [status |-> tab[t].status, items |-> tab[t].items]
    /\ tab.target.status \in {"absent", "creating", "active"}
    /\ tab.target.status = "absent" => tab.target.items = NoItems
    /\ tab.source.items \in [Keys -> SourceItems]
    /\ \A k \in Keys : tab.source.items[k].of = k

\* Where a scan may read, there are items of the source, and while somebody
\* migrates those of the keys that are not touched are the current ones.
ReplicaRight(rep, tab, tch, running) ==
    /\ rep \in [Keys -> SourceItems]
    /\ \A k \in Keys : rep[k].of = k
    /\ running # {} => \A k \in Keys \ tch : rep[k] = tab.source.items[k]

ReplicaInv == ReplicaRight(replica, table, touched, Running)

SchemaInv ==
    /\ TablesRight(table)
    /\ mig \in [Managers -> Migrations]
    /\ \A m \in Running : MigrationRight(mig[m], table, touched) /\ (mig[m].alone => Running = {m})

\* What a migration that ends without an error promises.
DoneRight(g, tab, tch) ==
    /\ g.copy => AllHere(tab.target.items, KeyIn("target"), tab.source.items, tch)
    /\ g.copied /\ g.alone => AllHere(tab.backup.items, KeyIn("backup"), tab.source.items, tch)

------------------------------------------------------------------------------
(* What stays right when tables change.                                    *)

\* Items stay up to date, and what has arrived in t stays there.
UpKept(tab, tab2, tch, tch2) ==
    /\ tch \subseteq tch2
    /\ \A item \in SourceItems : UpToDate(item, tab.source.items, tch) => UpToDate(item, tab2.source.items, tch2)

HereKept(t, tab, tab2, tch, tch2) ==
    \A k \in Keys \ tch2 :
        Here(tab[t].items, k, KeyIn(t), tab.source.items, tch) =>
            Here(tab2[t].items, k, KeyIn(t), tab2.source.items, tch2)

BackupKept(g, tab, tab2, tch, tch2) ==
    g.alone /\ g.copied =>
        /\ HereKept("backup", tab, tab2, tch, tch2)
        /\ tab.backup.status = "active" => tab2.backup.status = "active"

\* A migration that takes no step stays right.
LEMMA RightStays ==
    ASSUME NEW g \in Migrations, NEW tab, NEW tab2, NEW tch, NEW tch2, MigrationRight(g, tab, tch),
           UpKept(tab, tab2, tch, tch2), HereKept("target", tab, tab2, tch, tch2), BackupKept(g, tab, tab2, tch, tch2)
    PROVE  MigrationRight(g, tab2, tch2)
<1>0. g.to \in {"target", "backup"} /\ ReadBy(g) \cap Keys \subseteq Keys
  BY DEF Migrations
<1>1. BackupRight(g, tab2, tch2)
  <2>1. AllHere(tab.backup.items, KeyIn("backup"), tab.source.items, tch) /\ g.alone /\ g.copied =>
          AllHere(tab2.backup.items, KeyIn("backup"), tab2.source.items, tch2)
    BY DEF AllHere, BackupKept, HereKept, UpKept
  <2>. QED
    BY <2>1 DEF MigrationRight, BackupRight, BackupKept
<1>2. ASSUME g.pc \in Copying PROVE CopyRight(g, Range(g.todo) \cup g.batch, tab2, tch2)
  <2>0. CopyRight(g, Range(g.todo) \cup g.batch, tab, tch) /\ g.after <= LastKey /\ g.after \in Int
    BY <1>2 DEF MigrationRight, Migrations
  <2>. DEFINE P == Range(g.todo) \cup g.batch
  <2>1. ASSUME NEW r \in P PROVE RequestRight(r, g.to, tab2.source.items, tch2)
    BY <2>0 DEF CopyRight, RequestRight, UpKept
  <2>2. ASSUME g.to = "target" \/ g.alone, NEW k \in ReadBy(g) \ tch2, ~ \E r \in P : r.item.of = k
        PROVE  Here(tab2[g.to].items, k, KeyIn(g.to), tab2.source.items, tch2)
    <3>1. k \in Keys /\ k \notin tch
      BY <2>0, <2>2, SchemaAssumption DEF ReadBy, Keys, UpKept
    <3>2. Here(tab[g.to].items, k, KeyIn(g.to), tab.source.items, tch)
      BY <2>0, <2>2, <3>1 DEF CopyRight
    <3>3. HereKept(g.to, tab, tab2, tch, tch2)
      BY <1>0, <1>2, <2>2 DEF BackupKept, MigrationRight, BackupRight
    <3>. QED
      BY <2>2, <3>1, <3>2, <3>3 DEF HereKept
  <2>. QED
    BY <2>1, <2>2 DEF CopyRight
<1>. QED
  BY <1>1, <1>2 DEF MigrationRight

\* Nothing changes for a migration but the phase of others.
LEMMA SameTables ==
    ASSUME NEW tab, NEW tch
    PROVE  UpKept(tab, tab, tch, tch) /\ \A t : HereKept(t, tab, tab, tch, tch)
BY DEF UpKept, HereKept

------------------------------------------------------------------------------
(* Requests written to a table.                                            *)

\* What is under the key of a request is what a request put there.
LEMMA PutThere ==
    ASSUME NEW to, NEW src, NEW tch, NEW items, NEW rs, NEW k \in Keys,
           \A r \in rs : RequestRight(r, to, src, tch),
           \E r \in rs : r.key = KeyIn(to)[k]
    PROVE  Here(WithItems(items, rs), k, KeyIn(to), src, tch)
<1>1. PICK x : x = KeyIn(to)[k]
  OBVIOUS
<1>2. PICK c : c = CHOOSE r \in rs : r.key = x
  OBVIOUS
<1>3. c \in rs /\ c.key = x
  BY <1>1, <1>2
<1>4. x \in DOMAIN WithItems(items, rs) /\ WithItems(items, rs)[x] = c.item
  BY <1>2, <1>3 DEF WithItems
<1>5. c.item \in SourceItems /\ c.key = KeyIn(to)[c.item.of] /\ UpToDate(c.item, src, tch)
  BY <1>3 DEF RequestRight
<1>. QED
  BY <1>1, <1>3, <1>4, <1>5 DEF Here

\* What had arrived stays, or is replaced by what shares its key.
LEMMA StaysThere ==
    ASSUME NEW to, NEW src, NEW tch, NEW items, NEW rs, NEW k \in Keys,
           \A r \in rs : RequestRight(r, to, src, tch),
           Here(items, k, KeyIn(to), src, tch)
    PROVE  Here(WithItems(items, rs), k, KeyIn(to), src, tch)
<1>1. CASE \E r \in rs : r.key = KeyIn(to)[k]
  BY <1>1, PutThere
<1>2. CASE ~ \E r \in rs : r.key = KeyIn(to)[k]
  <2>1. PICK x : x = KeyIn(to)[k]
    OBVIOUS
  <2>2. x \in DOMAIN WithItems(items, rs) /\ WithItems(items, rs)[x] = items[x]
    BY <1>2, <2>1 DEF WithItems, Here
  <2>. QED
    BY <2>1, <2>2 DEF Here
<1>. QED
  BY <1>1, <1>2

\* The tables with the requests rs put in the table t.
Put(tab, t, rs) == [tab EXCEPT ![t] = Active(WithItems(@.items, rs))]

\* Only the table written to changes.
LEMMA PutIs ==
    ASSUME NEW tab, TablesRight(tab), NEW t \in {"target", "backup"}, NEW rs
    PROVE  /\ TablesRight(Put(tab, t, rs))
           /\ Put(tab, t, rs)[t].items = WithItems(tab[t].items, rs) /\ Put(tab, t, rs)[t].status = "active"
           /\ \A u \in Tables : u # t => Put(tab, t, rs)[u] = tab[u]
<1>1. PICK new : new = Active(WithItems(tab[t].items, rs))
  OBVIOUS
<1>2. PICK tab2 : tab2 = Put(tab, t, rs)
  OBVIOUS
<1>3. tab2[t] = new /\ \A u \in Tables : u # t => tab2[u] = tab[u]
  BY <1>1, <1>2 DEF Put, TablesRight, Tables
<1>4. tab2 = [source |-> tab2.source, target |-> tab2.target, backup |-> tab2.backup]
  BY <1>2 DEF Put, TablesRight
<1>5. /\ new.items = WithItems(tab[t].items, rs)
      /\ new.status = "active" /\ new = [status |-> new.status, items |-> new.items]
  BY <1>1 DEF Active
<1>6. \A u \in Tables : tab2[u] = [status |-> tab2[u].status, items |-> tab2[u].items]
  BY <1>3, <1>5 DEF TablesRight
<1>7. tab2.source = tab.source
  BY <1>3 DEF Tables
<1>8. /\ tab2.target.status \in {"absent", "creating", "active"}
      /\ tab2.target.status = "absent" => tab2.target.items = NoItems
  BY <1>3, <1>5 DEF TablesRight, Tables
<1>. QED
  BY <1>2, <1>3, <1>4, <1>5, <1>6, <1>7, <1>8 DEF TablesRight

\* Writing requests that are up to date keeps what has arrived, in every table.
LEMMA PutKeeps ==
    ASSUME NEW tab, TablesRight(tab), NEW t \in {"target", "backup"}, NEW rs, NEW tch,
           \A r \in rs : RequestRight(r, t, tab.source.items, tch)
    PROVE  /\ UpKept(tab, Put(tab, t, rs), tch, tch)
           /\ \A u \in {"target", "backup"} : HereKept(u, tab, Put(tab, t, rs), tch, tch)
<1>1. PICK tab2 : tab2 = Put(tab, t, rs)
  OBVIOUS
<1>2. tab2[t].items = WithItems(tab[t].items, rs) /\ \A u \in Tables : u # t => tab2[u] = tab[u]
  BY <1>1, PutIs
<1>3. tab2.source = tab.source
  BY <1>2 DEF Tables
<1>4. ASSUME NEW u \in {"target", "backup"}, NEW k \in Keys, Here(tab[u].items, k, KeyIn(u), tab.source.items, tch)
      PROVE  Here(tab2[u].items, k, KeyIn(u), tab2.source.items, tch)
  <2>1. CASE u = t
    BY <1>2, <1>3, <1>4, <2>1, StaysThere
  <2>2. CASE u # t
    BY <1>2, <1>3, <1>4, <2>2 DEF Tables
  <2>. QED
    BY <2>1, <2>2
<1>. QED
  BY <1>1, <1>3, <1>4 DEF UpKept, HereKept

\* What is left of the pending requests when rs are written.
LEMMA PutCopies ==
    ASSUME NEW g \in Migrations, NEW tab, TablesRight(tab), NEW tch, NEW P, NEW rs, NEW Q, g.after <= LastKey,
           CopyRight(g, P, tab, tch), rs \subseteq P, Q \subseteq P, P \subseteq rs \cup Q
    PROVE  CopyRight(g, Q, Put(tab, g.to, rs), tch)
<1>0. g.to \in {"target", "backup"} /\ g.after \in Int
  BY DEF Migrations
<1>1. PICK tab2 : tab2 = Put(tab, g.to, rs)
  OBVIOUS
<1>2. tab2[g.to].items = WithItems(tab[g.to].items, rs) /\ tab2.source = tab.source
  BY <1>0, <1>1, PutIs DEF Tables
<1>3. \A r \in P : RequestRight(r, g.to, tab.source.items, tch)
  BY DEF CopyRight
<1>4. ASSUME g.to = "target" \/ g.alone, NEW k \in ReadBy(g) \ tch, ~ \E r \in Q : r.item.of = k
      PROVE  Here(tab2[g.to].items, k, KeyIn(g.to), tab2.source.items, tch)
  <2>1. k \in Keys
    BY <1>0, <1>4, SchemaAssumption DEF ReadBy, Keys
  <2>2. CASE \E r \in P : r.item.of = k
    <3>1. PICK r \in rs : r.item.of = k
      BY <1>4, <2>2
    <3>2. r.key = KeyIn(g.to)[k]
      BY <1>3, <3>1 DEF RequestRight
    <3>3. \A q \in rs : RequestRight(q, g.to, tab.source.items, tch)
      BY <1>3
    <3>. QED
      BY <1>2, <2>1, <3>1, <3>2, <3>3, PutThere
  <2>3. CASE Here(tab[g.to].items, k, KeyIn(g.to), tab.source.items, tch)
    <3>3. \A q \in rs : RequestRight(q, g.to, tab.source.items, tch)
      BY <1>3
    <3>. QED
      BY <1>2, <2>1, <2>3, <3>3, StaysThere
  <2>. QED
    BY <1>4, <2>2, <2>3 DEF CopyRight
<1>. QED
  BY <1>1, <1>2, <1>3, <1>4 DEF CopyRight

------------------------------------------------------------------------------
(* The batches of a page.                                                  *)

\* Taking some and leaving the rest leaves nothing out.
LEMMA Cut ==
    ASSUME NEW S, NEW s \in Seq(S), NEW n \in Nat
    PROVE  /\ Take(s, n) \in Seq(S) /\ Drop(s, n) \in Seq(S)
           /\ Range(Take(s, n)) \cup Range(Drop(s, n)) = Range(s)
           /\ Range(Take(s, n)) \subseteq S
<1>0. PICK N \in Nat : N = Len(s) /\ DOMAIN s = 1..N /\ \A i \in 1..N : s[i] \in S
  BY LenProperties, ElementOfSeq
<1>1. PICK l \in Nat : l <= N /\ (l = n \/ (n > N /\ l = N)) /\ Take(s, n) = SubSeq(s, 1, l)
  <2>1. N = Len(s)
    BY <1>0
  <2>2. CASE N < n
    BY <2>1, <2>2 DEF Take
  <2>3. CASE ~(N < n)
    BY <2>1, <2>3 DEF Take
  <2>. QED
    BY <2>2, <2>3
<1>2. \A i \in 1..l : i \in 1..N
  <2>1. l <= N
    BY <1>1
  <2>. QED
    BY <2>1
<1>3. \A i \in 1..N : i \in 1..l \/ i > n
  <2>1. l = n \/ (n > N /\ l = N)
    BY <1>1
  <2>. QED
    BY <2>1
<1>4. PICK a : a = SubSeq(s, 1, l)
  OBVIOUS
<1>5. a \in Seq(S) /\ Len(a) = l /\ \A i \in 1..l : a[i] = s[i]
  <2>1. PICK x \in Int, y \in Int : x = 1 /\ y = l
    OBVIOUS
  <2>2. /\ SubSeq(s, x, y) \in Seq(S) /\ Len(SubSeq(s, x, y)) = (IF x <= y THEN y - x + 1 ELSE 0)
        /\ \A i \in 1..(y - x + 1) : SubSeq(s, x, y)[i] = s[x + i - 1]
    <3>1. \A i \in x..y : s[i] \in S
      BY <1>0, <1>2, <2>1
    <3>. QED
      BY <3>1, SubSeqProperties
  <2>3. (IF x <= y THEN y - x + 1 ELSE 0) = l /\ y - x + 1 = l /\ \A i \in 1..l : x + i - 1 = i
    BY <2>1
  <2>. QED
    BY <1>4, <2>1, <2>2, <2>3
<1>6. PICK b : b = Drop(s, n)
  OBVIOUS
<1>7. PICK k \in Nat : (n < N /\ k = N - n) \/ (~(n < N) /\ k = 0)
  <2>1. CASE n < N
    <3>1. N - n \in Nat
      BY <2>1
    <3>. QED
      BY <2>1, <3>1
  <2>2. CASE ~(n < N)
    BY <2>2
  <2>. QED
    BY <2>1, <2>2
<1>8. (\A i \in 1..k : n + i \in 1..N) /\ (\A i \in 1..N : i > n => i - n \in 1..k /\ n + (i - n) = i)
  BY <1>7
<1>9. b \in Seq(S) /\ Len(b) = k /\ \A i \in 1..k : b[i] = s[n + i]
  <2>1. PICK x \in Int, y \in Int : x = n + 1 /\ y = N
    OBVIOUS
  <2>2. \A i \in x..y : i \in 1..N
    BY <2>1
  <2>3. /\ SubSeq(s, x, y) \in Seq(S) /\ Len(SubSeq(s, x, y)) = (IF x <= y THEN y - x + 1 ELSE 0)
        /\ \A i \in 1..(y - x + 1) : SubSeq(s, x, y)[i] = s[x + i - 1]
    <3>1. \A i \in x..y : s[i] \in S
      BY <1>0, <2>2
    <3>. QED
      BY <3>1, SubSeqProperties
  <2>4. b = SubSeq(s, x, y)
    BY <1>0, <1>6, <2>1 DEF Drop
  <2>5. /\ (IF x <= y THEN y - x + 1 ELSE 0) = k
        /\ \A i \in 1..k : i \in 1..(y - x + 1) /\ x + i - 1 = n + i
    BY <1>7, <2>1
  <2>. QED
    BY <2>3, <2>4, <2>5
<1>10. DOMAIN a = 1..l /\ DOMAIN b = 1..k
  BY <1>5, <1>9, LenProperties
<1>11. Range(a) \subseteq Range(s) /\ Range(a) \subseteq S
  BY <1>0, <1>2, <1>5, <1>10 DEF Range
<1>12. Range(b) \subseteq Range(s)
  BY <1>0, <1>8, <1>9, <1>10 DEF Range
<1>13. ASSUME NEW i \in 1..N PROVE s[i] \in Range(a) \/ s[i] \in Range(b)
  <2>1. CASE i \in 1..l
    BY <1>5, <1>10, <2>1 DEF Range
  <2>2. CASE i > n
    <3>1. i - n \in 1..k /\ n + (i - n) = i
      BY <1>8, <2>2
    <3>2. b[i - n] = s[i]
      BY <1>9, <3>1
    <3>. QED
      BY <1>10, <3>1, <3>2 DEF Range
  <2>. QED
    BY <1>3, <2>1, <2>2
<1>14. Range(s) \subseteq Range(a) \cup Range(b)
  BY <1>0, <1>13 DEF Range
<1>. QED
  BY <1>1, <1>4, <1>5, <1>6, <1>9, <1>11, <1>12, <1>14

\* What a migration is that has gone on to its next batch.
LEMMA NextBatchIs ==
    ASSUME NEW g \in Migrations, NEW h, h = nextBatch(g)
    PROVE  /\ h \in Migrations
           /\ h.to = g.to /\ h.copy = g.copy /\ h.alone = g.alone /\ h.copied = g.copied
           /\ \/ /\ h.pc = "write" /\ h.after = g.after
                 /\ Range(h.todo) \cup h.batch = Range(g.todo)
              \/ h.pc = "scan" /\ g.todo = <<>> /\ h.after = g.after /\ g.after >= 0 /\ h.todo = <<>> /\ h.batch = {}
              \/ /\ g.todo = <<>> /\ g.after < 0 /\ h.after = 0 /\ h.todo = <<>> /\ h.batch = {}
                 /\ h.pc = IF g.to = "backup" THEN "ensure" ELSE "done"
<1>0. MaxBatch \in Nat /\ g.todo \in Seq(Requests) /\ g.after \in Int
  BY SchemaAssumption DEF Migrations
<1>1. CASE g.todo # <<>>
  <2>1. PICK a \in Seq(Requests), b \in Seq(Requests) :
           a = Take(g.todo, MaxBatch) /\ b = Drop(g.todo, MaxBatch) /\ Range(a) \cup Range(b) = Range(g.todo)
           /\ Range(a) \subseteq Requests
    BY <1>0, Cut
  <2>2. h = [g EXCEPT !.pc = "write", !.batch = Range(a), !.todo = b, !.attempt = 1]
    BY <1>1, <2>1 DEF nextBatch
  <2>3. PICK c \in SUBSET Requests : c = Range(a)
    BY <2>1
  <2>4. h = [g EXCEPT !.pc = "write", !.batch = c, !.todo = b, !.attempt = 1]
    BY <2>2, <2>3
  <2>5. h \in Migrations /\ h.to = g.to /\ h.copy = g.copy /\ h.alone = g.alone /\ h.copied = g.copied
        /\ h.pc = "write" /\ h.after = g.after /\ h.todo = b /\ h.batch = c
    <3>1. "write" \in Places /\ 1 \in Int
      BY DEF Places, Copying
    <3>. QED
      BY <2>4, <3>1 DEF Migrations
  <2>. QED
    BY <2>1, <2>3, <2>5
<1>2. CASE g.todo = <<>> /\ g.after >= 0
  <2>1. h = [g EXCEPT !.pc = "scan", !.batch = {}]
    BY <1>0, <1>2 DEF nextBatch
  <2>2. h \in Migrations /\ h.to = g.to /\ h.copy = g.copy /\ h.alone = g.alone /\ h.copied = g.copied
        /\ h.pc = "scan" /\ h.after = g.after /\ h.todo = g.todo /\ h.batch = {}
    BY <2>1 DEF Migrations, Places, Copying
  <2>. QED
    BY <1>2, <2>2
<1>3. CASE g.todo = <<>> /\ g.after < 0
  <2>0. PICK p \in {"ensure", "done"} : p = IF g.to = "backup" THEN "ensure" ELSE "done"
    OBVIOUS
  <2>1. h = [g EXCEPT !.pc = p, !.after = 0, !.batch = {}]
    BY <1>0, <1>3, <2>0 DEF nextBatch, copied
  <2>2. h \in Migrations /\ h.to = g.to /\ h.copy = g.copy /\ h.alone = g.alone /\ h.copied = g.copied
        /\ h.pc = p /\ h.after = 0 /\ h.todo = g.todo /\ h.batch = {}
    <3>1. p \in Places /\ 0 \in Int
      BY DEF Places, Returned
    <3>. QED
      BY <2>1, <3>1 DEF Migrations
  <2>. QED
    BY <1>3, <2>0, <2>2
<1>. QED
  BY <1>0, <1>1, <1>2, <1>3

\* With its batch written, a migration goes on rightly or has ended rightly.
LEMMA NextBatchRight ==
    ASSUME NEW g \in Migrations, NEW tab, NEW tch, NEW h, h = nextBatch(g), g.pc \in Copying,
           CopyRight(g, Range(g.todo), tab, tch), g.after <= LastKey, BackupRight(g, tab, tch)
    PROVE  /\ h \in Migrations /\ h.alone = g.alone /\ h.copy = g.copy
           /\ h.pc \in Returned \/ MigrationRight(h, tab, tch)
           /\ h.pc = "done" => DoneRight(g, tab, tch)
<1>0. /\ h \in Migrations
      /\ h.to = g.to /\ h.copy = g.copy /\ h.alone = g.alone /\ h.copied = g.copied
      /\ g.to \in {"target", "backup"} /\ g.alone \in BOOLEAN
  BY NextBatchIs DEF Migrations
<1>1. CASE h.pc = "write" /\ h.after = g.after /\ Range(h.todo) \cup h.batch = Range(g.todo)
  <2>1. CopyRight(h, Range(h.todo) \cup h.batch, tab, tch)
    BY <1>0, <1>1 DEF CopyRight, ReadBy
  <2>2. BackupRight(h, tab, tch)
    BY <1>0, <1>1 DEF BackupRight, Copying
  <2>3. h.pc \in Copying /\ h.pc \notin Early /\ h.pc # "scan" /\ h.pc # "done"
    BY <1>1 DEF Copying, Early
  <2>. QED
    BY <1>0, <1>1, <2>1, <2>2, <2>3 DEF MigrationRight
<1>2. CASE h.pc = "scan" /\ g.todo = <<>> /\ h.after = g.after /\ g.after >= 0 /\ h.todo = <<>> /\ h.batch = {}
  <2>1. CopyRight(h, Range(h.todo) \cup h.batch, tab, tch)
    BY <1>0, <1>2 DEF CopyRight, ReadBy
  <2>2. BackupRight(h, tab, tch)
    BY <1>0, <1>2 DEF BackupRight, Copying
  <2>3. h.pc \in Copying /\ h.pc \notin Early /\ h.pc # "done"
    BY <1>2 DEF Copying, Early
  <2>. QED
    BY <1>0, <1>2, <2>1, <2>2, <2>3 DEF MigrationRight
<1>3. CASE /\ g.todo = <<>> /\ g.after < 0 /\ h.after = 0 /\ h.todo = <<>> /\ h.batch = {}
           /\ h.pc = IF g.to = "backup" THEN "ensure" ELSE "done"
  <2>1. Range(g.todo) = {}
    <3>1. DOMAIN g.todo = {}
      BY <1>3
    <3>. QED
      BY <3>1 DEF Range
  <2>2. g.to = "target" \/ g.alone => AllHere(tab[g.to].items, KeyIn(g.to), tab.source.items, tch)
    BY <1>3, <2>1 DEF CopyRight, ReadBy, AllHere
  <2>3. CASE g.to = "backup"
    <3>1. h.pc = "ensure" /\ h.pc \notin Copying /\ h.pc \notin Early
      BY <1>3, <2>3 DEF Copying, Early
    <3>2. BackupRight(h, tab, tch)
      BY <1>0, <2>2, <2>3, <3>1 DEF BackupRight
    <3>. QED
      BY <1>0, <1>3, <3>1, <3>2 DEF MigrationRight
  <2>4. CASE g.to = "target"
    <3>1. h.pc \in Returned
      BY <1>3, <2>4 DEF Returned
    <3>2. DoneRight(g, tab, tch)
      BY <2>2, <2>4 DEF DoneRight, BackupRight
    <3>. QED
      BY <1>0, <3>1, <3>2
  <2>. QED
    BY <1>0, <2>3, <2>4
<1>. QED
  BY <1>1, <1>2, <1>3, NextBatchIs

------------------------------------------------------------------------------
(* Steps of one migration.                                                 *)

\* The migration m goes on as h: the others are not alone, and stay right.
Goes(m, h) ==
    /\ h \in Migrations /\ mig' = [mig EXCEPT ![m] = h]
    /\ h.alone = mig[m].alone
    /\ touched' = touched

\* m goes on rightly, and if it ends without an error, it has done its work.
LEMMA GoesRight ==
    ASSUME SchemaInv, NEW m \in Running, NEW h, Goes(m, h), TablesRight(table'),
           UpKept(table, table', touched, touched), HereKept("target", table, table', touched, touched),
           h.pc \in Returned \/ MigrationRight(h, table', touched),
           h.pc = "done" => DoneRight(mig[m], table', touched)
    PROVE  SchemaInv' /\ CompleteOnReturn
<1>0. m \in Managers /\ mig[m].pc \notin Returned /\ mig \in [Managers -> Migrations]
  BY DEF Running, SchemaInv
<1>1. mig' \in [Managers -> Migrations] /\ mig'[m] = h /\ \A n \in Managers : n # m => mig'[n] = mig[n]
  BY <1>0 DEF Goes
<1>2. Running' \subseteq Running
  BY <1>0, <1>1 DEF Running
<1>3. ASSUME NEW n \in Running', n # m PROVE MigrationRight(mig'[n], table', touched') /\ ~mig'[n].alone
  <2>1. n \in Running /\ n \in Managers /\ mig'[n] = mig[n] /\ mig[n] \in Migrations
    BY <1>0, <1>1, <1>2, <1>3 DEF Running
  <2>2. ~mig[n].alone /\ MigrationRight(mig[n], table, touched)
    BY <1>3, <2>1 DEF SchemaInv
  <2>3. PICK g, t2 : g \in Migrations /\ g = mig[n] /\ t2 = table'
    BY <2>1
  <2>. g \in Migrations
    BY <2>3
  <2>4. BackupKept(g, table, t2, touched, touched)
    BY <2>2, <2>3 DEF BackupKept
  <2>5. MigrationRight(g, t2, touched)
    BY <2>2, <2>3, <2>4, RightStays
  <2>. QED
    BY <2>1, <2>2, <2>3, <2>5 DEF Goes
<1>4. ASSUME m \in Running' PROVE MigrationRight(mig'[m], table', touched') /\ (mig'[m].alone => Running' = {m})
  <2>1. MigrationRight(mig'[m], table', touched')
    BY <1>1, <1>4 DEF Running, Goes
  <2>2. mig[m].alone => Running = {m}
    BY DEF SchemaInv
  <2>. QED
    BY <1>1, <1>2, <1>4, <2>1, <2>2 DEF Goes
<1>5. SchemaInv'
  BY <1>1, <1>3, <1>4 DEF SchemaInv
<1>6. ASSUME NEW n \in Managers, mig[n].pc \notin Returned, mig'[n].pc = "done"
      PROVE  /\ mig[n].copy => Arrived("target", TargetKey)'
             /\ (mig[n].copied /\ mig[n].alone) => Arrived("backup", [k \in Keys |-> k])'
  <2>1. n = m
    BY <1>1, <1>6 DEF Returned
  <2>2. DoneRight(mig[m], table', touched')
    BY <1>1, <1>6, <2>1 DEF Goes
  <2>3. AllHere(table'.target.items, KeyIn("target"), table'.source.items, touched') => Arrived("target", TargetKey)'
    BY DEF AllHere, Here, UpToDate, Arrived, KeyIn
  <2>4. AllHere(table'.backup.items, KeyIn("backup"), table'.source.items, touched') =>
          Arrived("backup", [k \in Keys |-> k])'
    BY DEF AllHere, Here, UpToDate, Arrived, KeyIn
  <2>. QED
    BY <2>1, <2>2, <2>3, <2>4 DEF DoneRight
<1>. QED
  BY <1>5, <1>6 DEF CompleteOnReturn

\* A step that leaves the tables as they are.
LEMMA GoesOn ==
    ASSUME SchemaInv, NEW m \in Running, NEW h, Goes(m, h), table' = table,
           h.pc \in Returned \/ MigrationRight(h, table, touched),
           h.pc = "done" => DoneRight(mig[m], table, touched)
    PROVE  SchemaInv' /\ CompleteOnReturn
<1>1. UpKept(table, table, touched, touched) /\ HereKept("target", table, table, touched, touched) /\ TablesRight(table)
  BY SameTables DEF SchemaInv
<1>2. PICK t2 : t2 = table'
  OBVIOUS
<1>. QED
  BY <1>1, <1>2, GoesRight

\* What a migration under way is.
LEMMA UnderWay ==
    ASSUME SchemaInv, NEW m \in Managers, mig[m].pc \notin Returned
    PROVE  m \in Running /\ mig[m] \in Migrations /\ MigrationRight(mig[m], table, touched)
BY DEF SchemaInv, Running

\* A change of place is a change of nothing else.
LEMMA AtPlace ==
    ASSUME NEW g \in Migrations, NEW p \in Places, NEW h, h = [g EXCEPT !.pc = p]
    PROVE  /\ h \in Migrations /\ h.pc = p
           /\ h.to = g.to /\ h.after = g.after /\ h.todo = g.todo /\ h.batch = g.batch
           /\ h.copy = g.copy /\ h.alone = g.alone /\ h.copied = g.copied
BY DEF Migrations

\* From one place outside the copy to another, with no backup made yet.
LEMMA EarlyRight ==
    ASSUME NEW g \in Migrations, NEW tab, NEW tch, MigrationRight(g, tab, tch), g.pc \in Early,
           NEW p \in Early \cup {"ensure", "createTarget", "targetActive"}, NEW h, h = [g EXCEPT !.pc = p], NEW tab2
    PROVE  h \in Migrations /\ h.pc = p /\ h.alone = g.alone /\ MigrationRight(h, tab2, tch)
<1>1. p \in Places /\ p \notin Copying
  BY DEF Places, Early, Copying
<1>2. g.pc \notin Copying
  BY DEF Early, Copying
<1>. QED
  BY <1>1, <1>2, AtPlace DEF MigrationRight, BackupRight, Copying

\* A call that fails ends the migration.
LEMMA FailedStep ==
    ASSUME SchemaInv, NEW m \in Running, Goto(m, "failed"), table' = table, touched' = touched
    PROVE  SchemaInv' /\ CompleteOnReturn
<1>1. mig[m] \in Migrations
  BY DEF SchemaInv, Running
<1>2. PICK h : h = [mig[m] EXCEPT !.pc = "failed"]
  OBVIOUS
<1>3. h \in Migrations /\ h.pc = "failed" /\ h.alone = mig[m].alone
  <2>1. "failed" \in Places
    BY DEF Places, Returned
  <2>. QED
    BY <1>1, <1>2, <2>1, AtPlace
<1>4. Goes(m, h) /\ h.pc \in Returned /\ h.pc # "done"
  BY <1>2, <1>3 DEF Goes, Goto, Returned
<1>. QED
  BY <1>4, GoesOn

\* A step of the tables, or of the application.
LEMMA OthersStep ==
    ASSUME SchemaInv, mig' = mig, TablesRight(table'), UpKept(table, table', touched, touched'),
           HereKept("target", table, table', touched, touched'),
           \A m \in Running : BackupKept(mig[m], table, table', touched, touched')
    PROVE  SchemaInv' /\ CompleteOnReturn
<1>1. Running' = Running
  BY DEF Running
<1>2. ASSUME NEW m \in Running PROVE MigrationRight(mig[m], table', touched')
  <2>1. /\ mig[m] \in Migrations
        /\ MigrationRight(mig[m], table, touched) /\ BackupKept(mig[m], table, table', touched, touched')
    BY DEF SchemaInv, Running
  <2>2. PICK g, t2, c2 : g \in Migrations /\ g = mig[m] /\ t2 = table' /\ c2 = touched'
    BY <2>1
  <2>. g \in Migrations
    BY <2>2
  <2>3. MigrationRight(g, t2, c2)
    BY <2>1, <2>2, RightStays
  <2>. QED
    BY <2>2, <2>3
<1>3. SchemaInv'
  BY <1>1, <1>2 DEF SchemaInv
<1>. QED
  BY <1>3 DEF CompleteOnReturn, Returned

\* A table other than the source is replaced.
Replace(tab, t, s, items) == [tab EXCEPT ![t] = [status |-> s, items |-> items]]

\* Nothing else is replaced.
LEMMA Replaced ==
    ASSUME NEW tab, TablesRight(tab), NEW t \in {"target", "backup"}, NEW s, NEW items, NEW tab2,
           tab2 = Replace(tab, t, s, items),
           t = "target" => s \in {"creating", "active"}
    PROVE  /\ TablesRight(tab2)
           /\ tab2[t].status = s /\ tab2[t].items = items
           /\ \A u \in Tables : u # t => tab2[u] = tab[u]
<1>1. PICK new : new = [status |-> s, items |-> items]
  OBVIOUS
<1>2. new.status = s /\ new.items = items /\ new = [status |-> new.status, items |-> new.items]
  BY <1>1
<1>3. tab2[t] = new /\ \A u \in Tables : u # t => tab2[u] = tab[u]
  BY <1>1 DEF Replace, TablesRight, Tables
<1>4. tab2 = [source |-> tab2.source, target |-> tab2.target, backup |-> tab2.backup]
  BY DEF Replace, TablesRight
<1>5. \A u \in Tables : tab2[u] = [status |-> tab2[u].status, items |-> tab2[u].items]
  BY <1>2, <1>3 DEF TablesRight
<1>6. tab2.source = tab.source
  BY <1>3 DEF Tables
<1>7. /\ tab2.target.status \in {"absent", "creating", "active"}
      /\ tab2.target.status = "absent" => tab2.target.items = NoItems
  BY <1>2, <1>3 DEF TablesRight, Tables
<1>. QED
  BY <1>2, <1>3, <1>4, <1>5, <1>6, <1>7 DEF TablesRight

\* The items of the target and the source are the same: what had arrived is there.
LEMMA TargetKept ==
    ASSUME NEW tab, NEW tab2, NEW tch, tab2.source = tab.source
    PROVE  /\ UpKept(tab, tab2, tch, tch)
           /\ tab2.target.items = tab.target.items => HereKept("target", tab, tab2, tch, tch)
           /\ tab2.backup.items = tab.backup.items => HereKept("backup", tab, tab2, tch, tch)
BY DEF UpKept, HereKept

\* A table that comes or goes is none that a copy alone at work relies on.
LEMMA TableReadyStep ==
    ASSUME SchemaInv, NEW t \in {"target", "backup"}, TableReady(t)
    PROVE  SchemaInv' /\ CompleteOnReturn
<1>0. TablesRight(table) /\ mig' = mig /\ touched' = touched
  BY DEF SchemaInv, TableReady
<1>1. PICK s, items : /\ table' = [table EXCEPT ![t] = [status |-> s, items |-> items]]
                      /\ \/ s = "active" /\ items = table[t].items
                         \/ table[t].status = "deleting"
  BY DEF TableReady, Active, NoTable
<1>2. table[t].status \in {"creating", "deleting"}
  BY DEF TableReady
<1>3. t = "target" => s = "active" /\ items = table.target.items
  BY <1>0, <1>1 DEF TablesRight
<1>4. /\ TablesRight(table') /\ table'[t].status = s /\ table'[t].items = items
      /\ \A u \in Tables : u # t => table'[u] = table[u]
  <2>1. PICK t2 : t2 = table'
    OBVIOUS
  <2>2. t2 = Replace(table, t, s, items) /\ (t = "target" => s \in {"creating", "active"})
    BY <1>1, <1>3, <2>1 DEF Replace
  <2>3. TablesRight(t2) /\ t2[t].status = s /\ t2[t].items = items /\ \A u \in Tables : u # t => t2[u] = table[u]
    BY <1>0, <2>2, Replaced
  <2>. QED
    BY <2>1, <2>3
<1>5. table'.source = table.source
  BY <1>4 DEF Tables
<1>6. table'.target.items = table.target.items
  BY <1>3, <1>4 DEF Tables
<1>7. UpKept(table, table', touched, touched) /\ HereKept("target", table, table', touched, touched)
  BY <1>5, <1>6, TargetKept
<1>8. ASSUME NEW m \in Running PROVE BackupKept(mig[m], table, table', touched, touched)
  <2>1. mig[m].copied /\ mig[m].alone => table.backup.status = "active"
    BY DEF SchemaInv, MigrationRight, BackupRight
  <2>2. ASSUME mig[m].copied, mig[m].alone PROVE table'.backup = table.backup
    <3>1. t # "backup"
      BY <1>2, <2>1, <2>2
    <3>. QED
      BY <1>4, <3>1 DEF Tables
  <2>. QED
    BY <1>5, <2>2, TargetKept DEF BackupKept
<1>. QED
  BY <1>0, <1>4, <1>7, <1>8, OthersStep

\* A key written while a migration runs is touched.
LEMMA WriteSourceStep ==
    ASSUME SchemaInv, NEW k \in Keys, WriteSource(k)
    PROVE  SchemaInv' /\ CompleteOnReturn
<1>0. TablesRight(table) /\ mig' = mig /\ touched' = (IF Running = {} THEN touched ELSE touched \cup {k})
  BY DEF SchemaInv, WriteSource
<1>1. PICK src : src = table.source.items
  OBVIOUS
<1>2. src \in [Keys -> SourceItems] /\ \A j \in Keys : src[j].of = j
  BY <1>0, <1>1 DEF TablesRight
<1>3. PICK new : new = [src EXCEPT ![k] = [of |-> k, val |-> src[k].val + 1]]
  OBVIOUS
<1>4. new \in [Keys -> SourceItems] /\ (\A j \in Keys : new[j].of = j) /\ \A j \in Keys : j # k => new[j] = src[j]
  <2>1. src[k] \in SourceItems /\ src[k].val \in Int
    BY <1>2 DEF SourceItems
  <2>2. PICK item : item = [of |-> k, val |-> src[k].val + 1]
    OBVIOUS
  <2>3. item \in SourceItems /\ item.of = k
    BY <2>1, <2>2 DEF SourceItems
  <2>4. new = [src EXCEPT ![k] = item]
    BY <1>3, <2>2
  <2>. QED
    BY <1>2, <2>3, <2>4
<1>5. table' = [table EXCEPT !.source = [status |-> "active", items |-> new]]
  BY <1>1, <1>3 DEF WriteSource, Active
<1>6. /\ table'.source.items = new /\ table'.target = table.target /\ table'.backup = table.backup
      /\ table' = [source |-> table'.source, target |-> table'.target, backup |-> table'.backup]
      /\ table'.source = [status |-> table'.source.status, items |-> table'.source.items]
  BY <1>0, <1>5 DEF TablesRight
<1>7. TablesRight(table')
  BY <1>0, <1>4, <1>6 DEF TablesRight, Tables
<1>8. CASE Running = {}
  <2>1. Running' = {}
    BY <1>0, <1>8 DEF Running
  <2>2. SchemaInv'
    BY <1>0, <1>7, <2>1 DEF SchemaInv
  <2>. QED
    BY <1>0, <2>2 DEF CompleteOnReturn, Returned
<1>9. CASE Running # {}
  <2>1. touched' = touched \cup {k}
    BY <1>0, <1>9
  <2>2. ASSUME NEW item \in SourceItems, UpToDate(item, src, touched) PROVE UpToDate(item, new, touched')
    <3>1. item.of \in Keys
      BY DEF SourceItems
    <3>. QED
      BY <1>4, <2>1, <2>2, <3>1 DEF UpToDate
  <2>3. UpKept(table, table', touched, touched')
    BY <1>1, <1>6, <2>1, <2>2 DEF UpKept
  <2>4. ASSUME NEW items, NEW j, NEW keyOf, Here(items, j, keyOf, src, touched)
        PROVE  Here(items, j, keyOf, new, touched')
    BY <2>2, <2>4 DEF Here
  <2>5. HereKept("target", table, table', touched, touched') /\ HereKept("backup", table, table', touched, touched')
    BY <1>1, <1>6, <2>4 DEF HereKept
  <2>6. \A m \in Running : BackupKept(mig[m], table, table', touched, touched')
    BY <1>6, <2>5 DEF BackupKept
  <2>. QED
    BY <1>0, <1>7, <2>3, <2>5, <2>6, OthersStep
<1>. QED
  BY <1>8, <1>9

\* A change of the indexes, or none, is none of the items.
LEMMA UpdateTableStep ==
    ASSUME SchemaInv, mig' = mig, table' = table, touched' = touched
    PROVE  SchemaInv' /\ CompleteOnReturn
<1>1. SchemaInv'
  BY DEF SchemaInv, Running
<1>. QED
  BY <1>1 DEF CompleteOnReturn, Returned

\* A migration that begins has done nothing; those it joins are no longer alone.
LEMMA BeginStep ==
    ASSUME SchemaInv, NEW m \in Managers, NEW backup \in BOOLEAN, NEW copy \in BOOLEAN,
           AutoMigrateWithOptions(m, backup, copy)
    PROVE  SchemaInv' /\ CompleteOnReturn
<1>0. /\ mig[m].pc \in Returned /\ m \notin Running /\ mig \in [Managers -> Migrations] /\ table' = table
      /\ TablesRight(table)
  BY DEF AutoMigrateWithOptions, Running, SchemaInv
<1>1. PICK p \in {"backup", "ensure"}, a \in BOOLEAN : p = (IF backup THEN "backup" ELSE "ensure") /\ a = (Running = {})
  OBVIOUS
<1>2. PICK h : h = [Idle EXCEPT !.pc = p, !.backup = backup, !.copy = copy, !.alone = a]
  OBVIOUS
<1>3. h = [pc |-> p, backup |-> backup, copy |-> copy, to |-> "target", after |-> 0,
           todo |-> <<>>, batch |-> {}, attempt |-> 0, alone |-> a, copied |-> FALSE]
  BY <1>2 DEF Idle
<1>4. h \in Migrations
  <2>1. p \in Places /\ 0 \in Int /\ <<>> \in Seq(Requests)
    BY EmptySeq DEF Places, Early
  <2>2. PICK e \in Seq(Requests) : e = <<>>
    BY <2>1
  <2>. QED
    BY <1>3, <2>1, <2>2 DEF Migrations
<1>5. mig' = [n \in Managers |-> IF n = m THEN h ELSE IF n \in Running THEN [mig[n] EXCEPT !.alone = FALSE] ELSE mig[n]]
  BY <1>1, <1>2 DEF AutoMigrateWithOptions
<1>6. ASSUME NEW n \in Managers, n # m, n \in Running
      PROVE  /\ mig'[n] \in Migrations /\ mig'[n].pc = mig[n].pc /\ ~mig'[n].alone
             /\ MigrationRight(mig'[n], table, touched)
  <2>1. mig[n] \in Migrations /\ MigrationRight(mig[n], table, touched)
    BY <1>0, <1>6 DEF SchemaInv
  <2>0. PICK o \in Migrations : o = mig[n]
    BY <2>1
  <2>2. PICK g : o = mig[n] /\ g = [o EXCEPT !.alone = FALSE]
    BY <2>0
  <2>3. /\ g \in Migrations /\ g.pc = o.pc /\ g.to = o.to /\ g.after = o.after /\ g.todo = o.todo
        /\ g.batch = o.batch /\ g.copied = o.copied /\ g.alone = FALSE
    BY <2>2 DEF Migrations
  <2>4. BackupRight(g, table, touched)
    BY <2>1, <2>2, <2>3 DEF MigrationRight, BackupRight
  <2>5. ReadBy(g) = ReadBy(o)
    BY <2>3 DEF ReadBy
  <2>6. o.pc \in Copying => CopyRight(g, Range(o.todo) \cup o.batch, table, touched)
    BY <2>1, <2>2, <2>3, <2>5 DEF MigrationRight, CopyRight
  <2>7. MigrationRight(g, table, touched)
    BY <2>1, <2>2, <2>3, <2>4, <2>6 DEF MigrationRight
  <2>8. mig'[n] = g
    BY <1>5, <1>6, <2>2
  <2>. QED
    BY <2>2, <2>3, <2>7, <2>8
<1>7. mig'[m] = h /\ \A n \in Managers : n # m /\ n \notin Running => mig'[n] = mig[n]
  BY <1>5
<1>8. mig' \in [Managers -> Migrations]
  <2>1. \A n \in Managers : mig'[n] \in Migrations
    BY <1>0, <1>4, <1>6, <1>7
  <2>. QED
    BY <1>5, <2>1
<1>9. h.pc \notin Returned
  BY <1>3 DEF Returned
<1>10. Running' = Running \cup {m}
  <2>1. \A n \in Managers : n \in Running' <=> mig'[n].pc \notin Returned
    BY DEF Running
  <2>2. \A n \in Managers : n \in Running <=> mig[n].pc \notin Returned
    BY DEF Running
  <2>3. \A n \in Managers : n \in Running' <=> (n \in Running \/ n = m)
    BY <1>6, <1>7, <1>9, <2>1, <2>2
  <2>4. Running' \subseteq Managers /\ Running \subseteq Managers
    BY DEF Running
  <2>. QED
    BY <2>3, <2>4
<1>11. MigrationRight(h, table, touched')
  <2>1. /\ h.pc = p /\ h.todo = <<>> /\ h.batch = {} /\ h.after = 0 /\ h.copied = FALSE
        /\ p \notin Copying /\ p \notin {"write", "put", "scan"}
    BY <1>3 DEF Copying
  <2>. QED
    BY <2>1 DEF MigrationRight, BackupRight
<1>12. ASSUME NEW n \in Running' PROVE MigrationRight(mig'[n], table, touched') /\ (mig'[n].alone => Running' = {n})
  <2>1. CASE n = m
    <3>1. h.alone = a
      BY <1>3
    <3>. QED
      BY <1>1, <1>7, <1>10, <1>11, <2>1, <3>1
  <2>2. CASE n # m
    <3>1. n \in Running /\ n \in Managers
      BY <1>10, <2>2 DEF Running
    <3>2. touched' = touched
      BY <3>1 DEF AutoMigrateWithOptions
    <3>. QED
      BY <1>6, <2>2, <3>1, <3>2
  <2>. QED
    BY <2>1, <2>2
<1>13. SchemaInv'
  BY <1>0, <1>8, <1>12 DEF SchemaInv
<1>14. ASSUME NEW n \in Managers, mig[n].pc \notin Returned PROVE mig'[n].pc # "done"
  <2>1. n \in Running /\ n # m
    BY <1>0, <1>14 DEF Running
  <2>. QED
    BY <1>6, <1>14, <2>1 DEF Returned
<1>. QED
  BY <1>13, <1>14 DEF CompleteOnReturn

------------------------------------------------------------------------------
(* The steps before the copy.                                              *)

\* From one place before the copy to another, whatever becomes of the backup.
LEMMA EarlyStep ==
    ASSUME SchemaInv, NEW m \in Managers, mig[m].pc \in Early,
           NEW p \in Early \cup {"ensure"}, Goto(m, p), touched' = touched,
           TablesRight(table'), table'.source = table.source, table'.target = table.target
    PROVE  SchemaInv' /\ CompleteOnReturn
<1>1. m \in Running /\ mig[m] \in Migrations /\ MigrationRight(mig[m], table, touched)
  <2>1. mig[m].pc \notin Returned
    BY DEF Early, Returned
  <2>. QED
    BY <2>1, UnderWay
<1>2. PICK t2 : t2 = table'
  OBVIOUS
<1>3. PICK h : h = [mig[m] EXCEPT !.pc = p]
  OBVIOUS
<1>4. h \in Migrations /\ h.pc = p /\ h.alone = mig[m].alone /\ MigrationRight(h, t2, touched)
  <2>1. PICK g \in Migrations, q \in Early \cup {"ensure", "createTarget", "targetActive"} : g = mig[m] /\ q = p
    BY <1>1
  <2>2. h = [g EXCEPT !.pc = q] /\ g.pc \in Early /\ MigrationRight(g, table, touched)
    BY <1>1, <1>3, <2>1
  <2>3. h \in Migrations /\ h.pc = q /\ h.alone = g.alone /\ MigrationRight(h, t2, touched)
    BY <2>2, EarlyRight
  <2>. QED
    BY <2>1, <2>3
<1>5. Goes(m, h) /\ h.pc # "done"
  BY <1>1, <1>3, <1>4 DEF Goes, Goto, SchemaInv, Early
<1>6. UpKept(table, t2, touched, touched) /\ HereKept("target", table, t2, touched, touched)
  BY <1>2, TargetKept
<1>. QED
  BY <1>1, <1>2, <1>4, <1>5, <1>6, GoesRight

\* A native backup is made, or a copy is to be.
LEMMA createBackupStep == ASSUME SchemaInv, NEW m \in Managers, createBackup(m) PROVE SchemaInv' /\ CompleteOnReturn
<1>1. PICK p \in {"ensure", "copyTable"} : Goto(m, p)
  BY DEF createBackup
<1>2. mig[m].pc \in Early /\ p \in Early \cup {"ensure"} /\ touched' = touched /\ table' = table /\ TablesRight(table)
  BY DEF createBackup, At, Early, SchemaInv
<1>. QED
  BY <1>1, <1>2, EarlyStep

\* An old backup is to go first.
LEMMA copyTableStep == ASSUME SchemaInv, NEW m \in Managers, copyTable(m) PROVE SchemaInv' /\ CompleteOnReturn
<1>1. PICK p \in {"delete", "create"} : Goto(m, p)
  BY DEF copyTable
<1>2. mig[m].pc \in Early /\ p \in Early \cup {"ensure"} /\ touched' = touched /\ table' = table /\ TablesRight(table)
  BY DEF copyTable, At, Early, SchemaInv
<1>. QED
  BY <1>1, <1>2, EarlyStep

\* The backup is replaced by an empty one, or by none.
LEMMA BackupReplaced ==
    ASSUME SchemaInv, NEW s, table' = [table EXCEPT !.backup = [status |-> s, items |-> NoItems]]
    PROVE  TablesRight(table') /\ table'.source = table.source /\ table'.target = table.target
<1>1. PICK t2 : t2 = table'
  OBVIOUS
<1>2. PICK t, i : t \in {"target", "backup"} /\ t = "backup" /\ i = NoItems
  OBVIOUS
<1>. t \in {"target", "backup"}
  BY <1>2
<1>3. t2 = Replace(table, t, s, i) /\ TablesRight(table) /\ t # "target"
  BY <1>1, <1>2 DEF SchemaInv, Replace
<1>4. TablesRight(t2) /\ \A u \in Tables : u # t => t2[u] = table[u]
  BY <1>3, Replaced
<1>. QED
  BY <1>1, <1>2, <1>4 DEF Tables

\* Nobody else is alone while one deletes the backup.
LEMMA deleteBackupStep == ASSUME SchemaInv, NEW m \in Managers, deleteBackup(m) PROVE SchemaInv' /\ CompleteOnReturn
<1>0. mig[m].pc \in Early /\ touched' = touched /\ "gone" \in Early \cup {"ensure"}
  BY DEF deleteBackup, At, Early
<1>1. CASE Goto(m, "failed") /\ table' = table
  <2>1. m \in Running
    BY <1>0 DEF Running, Early, Returned
  <2>. QED
    BY <1>0, <1>1, <2>1, FailedStep
<1>2. CASE Goto(m, "gone") /\ table' = [table EXCEPT !.backup = [status |-> "deleting", items |-> NoItems]]
  <2>1. TablesRight(table') /\ table'.source = table.source /\ table'.target = table.target
    BY <1>2, BackupReplaced
  <2>. QED
    BY <1>0, <1>2, <2>1, EarlyStep
<1>. QED
  BY <1>1, <1>2 DEF deleteBackup

\* Nobody else is alone while one creates the backup.
LEMMA createCopyStep == ASSUME SchemaInv, NEW m \in Managers, createCopy(m) PROVE SchemaInv' /\ CompleteOnReturn
<1>0. mig[m].pc \in Early /\ touched' = touched /\ "active" \in Early \cup {"ensure"}
  BY DEF createCopy, At, Early
<1>1. CASE Goto(m, "failed") /\ table' = table
  <2>1. m \in Running
    BY <1>0 DEF Running, Early, Returned
  <2>. QED
    BY <1>0, <1>1, <2>1, FailedStep
<1>2. CASE Goto(m, "active") /\ table' = [table EXCEPT !.backup = Creating]
  <2>0. table' = [table EXCEPT !.backup = [status |-> "creating", items |-> NoItems]]
    BY <1>2 DEF Creating
  <2>1. TablesRight(table') /\ table'.source = table.source /\ table'.target = table.target
    BY <2>0, BackupReplaced
  <2>. QED
    BY <1>0, <1>2, <2>1, EarlyStep
<1>. QED
  BY <1>1, <1>2 DEF createCopy

\* Nothing has been read at first.
LEMMA NothingRead ==
    ASSUME NEW h, h.after = 0, h.todo = <<>>, h.batch = {}, NEW tab, NEW tch
    PROVE  CopyRight(h, Range(h.todo) \cup h.batch, tab, tch)
<1>1. ReadBy(h) = {}
  BY DEF ReadBy
<1>2. DOMAIN h.todo = {}
  OBVIOUS
<1>3. Range(h.todo) \cup h.batch = {}
  BY <1>2 DEF Range
<1>. QED
  BY <1>1, <1>3 DEF CopyRight

\* The copy to the backup begins.
LEMMA copyTableDataStep == ASSUME SchemaInv, NEW m \in Managers, copyTableData(m) PROVE SchemaInv' /\ CompleteOnReturn
<1>0. mig[m].pc = "active" /\ table.backup.status = "active" /\ touched' = touched /\ table' = table
  BY DEF copyTableData, At
<1>1. m \in Running /\ mig[m] \in Migrations /\ MigrationRight(mig[m], table, touched)
  BY <1>0, UnderWay DEF Returned
<1>2. PICK g \in Migrations : g = mig[m]
  BY <1>1
<1>3. PICK h : h = [g EXCEPT !.pc = "scan", !.to = "backup", !.copied = TRUE]
  OBVIOUS
<1>4. /\ h \in Migrations /\ h.pc = "scan" /\ h.to = "backup" /\ h.copied = TRUE /\ h.alone = g.alone
      /\ h.after = g.after /\ h.todo = g.todo /\ h.batch = g.batch
  <2>1. "scan" \in Places
    BY DEF Places, Copying
  <2>. QED
    BY <1>3, <2>1 DEF Migrations
<1>5. g.after = 0 /\ g.todo = <<>> /\ g.batch = {}
  BY <1>0, <1>1, <1>2 DEF MigrationRight, Copying
<1>6. CopyRight(h, Range(h.todo) \cup h.batch, table, touched)
  BY <1>4, <1>5, NothingRead
<1>7. BackupRight(h, table, touched)
  BY <1>0, <1>4 DEF BackupRight, Copying
<1>8. MigrationRight(h, table, touched)
  BY <1>4, <1>5, <1>6, <1>7, SchemaAssumption DEF MigrationRight, Copying, Early
<1>9. Goes(m, h) /\ h.pc # "done"
  BY <1>0, <1>2, <1>3, <1>4 DEF Goes, copyTableData
<1>. QED
  BY <1>0, <1>1, <1>8, <1>9, GoesOn

\* The copy to the target begins, or the migration ends without one.
LEMMA CopyRequested ==
    ASSUME SchemaInv, NEW m \in Managers, mig[m].pc \in {"ensure", "createTarget", "targetActive"},
           copyDataIfRequested(m), touched' = touched, table' = table
    PROVE  SchemaInv' /\ CompleteOnReturn
<1>1. m \in Running /\ mig[m] \in Migrations /\ MigrationRight(mig[m], table, touched)
  BY UnderWay DEF Returned
<1>2. PICK g \in Migrations : g = mig[m]
  BY <1>1
<1>3. PICK p \in {"scan", "done"} : p = IF g.copy THEN "scan" ELSE "done"
  OBVIOUS
<1>4. PICK h : h = [g EXCEPT !.pc = p, !.to = "target", !.after = 0]
  OBVIOUS
<1>5. /\ h \in Migrations /\ h.pc = p /\ h.to = "target" /\ h.copied = g.copied /\ h.alone = g.alone
      /\ h.after = 0 /\ h.todo = g.todo /\ h.batch = g.batch
  <2>1. p \in Places /\ 0 \in Int
    BY DEF Places, Copying, Returned
  <2>. QED
    BY <1>4, <2>1 DEF Migrations
<1>6. g.todo = <<>> /\ g.batch = {}
  BY <1>1, <1>2 DEF MigrationRight
<1>7. CopyRight(h, Range(h.todo) \cup h.batch, table, touched)
  BY <1>5, <1>6, NothingRead
<1>8. g.copied /\ g.alone =>
        table.backup.status = "active" /\ AllHere(table.backup.items, KeyIn("backup"), table.source.items, touched)
  BY <1>1, <1>2 DEF MigrationRight, BackupRight, Copying
<1>9. BackupRight(h, table, touched)
  BY <1>5, <1>8 DEF BackupRight
<1>10. p = "scan" => MigrationRight(h, table, touched)
  BY <1>5, <1>6, <1>7, <1>9, SchemaAssumption DEF MigrationRight, Copying, Early
<1>11. p = "done" => ~g.copy
  BY <1>3
<1>12. p = "done" => DoneRight(g, table, touched)
  BY <1>8, <1>11 DEF DoneRight
<1>13. Goes(m, h)
  BY <1>2, <1>3, <1>4, <1>5 DEF Goes, copyDataIfRequested
<1>14. h.pc \in Returned \/ MigrationRight(h, table, touched)
  BY <1>5, <1>10 DEF Returned
<1>. QED
  BY <1>1, <1>2, <1>5, <1>12, <1>13, <1>14, GoesOn

\* From one place behind the backup to another.
LEMMA TargetPlace ==
    ASSUME SchemaInv, NEW m \in Managers, mig[m].pc \in {"ensure", "createTarget"},
           NEW p \in {"createTarget", "targetActive"}, Goto(m, p), touched' = touched,
           TablesRight(table'), table'.source = table.source, table'.backup = table.backup,
           table'.target.items = table.target.items
    PROVE  SchemaInv' /\ CompleteOnReturn
<1>1. m \in Running /\ mig[m] \in Migrations /\ MigrationRight(mig[m], table, touched)
  BY UnderWay DEF Returned
<1>2. PICK g, t2 : g \in Migrations /\ g = mig[m] /\ t2 = table'
  BY <1>1
<1>. g \in Migrations
  BY <1>2
<1>3. PICK h : h = [g EXCEPT !.pc = p]
  OBVIOUS
<1>4. p \in Places /\ p \notin Copying /\ p \notin Early /\ p \notin {"write", "put", "scan", "done"}
  BY DEF Places, Copying, Early
<1>5. /\ h \in Migrations /\ h.pc = p /\ h.to = g.to /\ h.copied = g.copied /\ h.alone = g.alone
      /\ h.after = g.after /\ h.todo = g.todo /\ h.batch = g.batch
  BY <1>3, <1>4, AtPlace
<1>6. /\ UpKept(table, t2, touched, touched)
      /\ HereKept("target", table, t2, touched, touched) /\ HereKept("backup", table, t2, touched, touched)
  BY <1>2, TargetKept
<1>7. BackupKept(g, table, t2, touched, touched)
  BY <1>2, <1>6 DEF BackupKept
<1>8. MigrationRight(g, t2, touched)
  BY <1>1, <1>2, <1>6, <1>7, RightStays
<1>9. g.pc \notin Copying /\ g.pc \notin {"write", "put"}
  BY <1>2 DEF Copying
<1>10. MigrationRight(h, t2, touched)
  BY <1>4, <1>5, <1>8, <1>9 DEF MigrationRight, BackupRight
<1>11. Goes(m, h) /\ h.pc # "done"
  BY <1>2, <1>3, <1>4, <1>5 DEF Goes, Goto
<1>. QED
  BY <1>1, <1>2, <1>6, <1>10, <1>11, GoesRight

\* The target exists, or is to be created.
LEMMA ensureTargetTableStep ==
    ASSUME SchemaInv, NEW m \in Managers, ensureTargetTable(m) PROVE SchemaInv' /\ CompleteOnReturn
<1>0. mig[m].pc = "ensure" /\ touched' = touched /\ table' = table /\ TablesRight(table)
  BY DEF ensureTargetTable, At, SchemaInv
<1>1. CASE copyDataIfRequested(m)
  BY <1>0, <1>1, CopyRequested
<1>2. CASE Goto(m, "createTarget")
  BY <1>0, <1>2, TargetPlace
<1>. QED
  BY <1>1, <1>2 DEF ensureTargetTable

\* The target is created empty, and was empty.
LEMMA CreateTableStep ==
    ASSUME SchemaInv, NEW m \in Managers, CreateTable(m) PROVE SchemaInv' /\ CompleteOnReturn
<1>0. mig[m].pc = "createTarget" /\ touched' = touched /\ TablesRight(table)
  BY DEF CreateTable, At, SchemaInv
<1>1. CASE copyDataIfRequested(m) /\ table' = table
  BY <1>0, <1>1, CopyRequested
<1>2. CASE ~TableExists("target") /\ table' = [table EXCEPT !.target = Creating] /\ Goto(m, "targetActive")
  <2>1. table.target.items = NoItems
    BY <1>0, <1>2 DEF TableExists, TablesRight
  <2>2. PICK t, s, i, t2 : t \in {"target", "backup"} /\ t = "target" /\ s = "creating" /\ i = NoItems /\ t2 = table'
    OBVIOUS
  <2>. t \in {"target", "backup"}
    BY <2>2
  <2>3. t2 = Replace(table, t, s, i) /\ s \in {"creating", "active"}
    BY <1>2, <2>2 DEF Replace, Creating
  <2>4. TablesRight(t2) /\ t2[t].items = i /\ \A u \in Tables : u # t => t2[u] = table[u]
    BY <1>0, <2>3, Replaced
  <2>5. /\ TablesRight(table') /\ table'.source = table.source
        /\ table'.backup = table.backup /\ table'.target.items = table.target.items
    BY <2>1, <2>2, <2>4 DEF Tables
  <2>. QED
    BY <1>0, <1>2, <2>5, TargetPlace
<1>. QED
  BY <1>1, <1>2 DEF CreateTable

\* The target is ready.
LEMMA waitForTableActiveStep ==
    ASSUME SchemaInv, NEW m \in Managers, waitForTableActive(m) PROVE SchemaInv' /\ CompleteOnReturn
BY CopyRequested DEF waitForTableActive, At

------------------------------------------------------------------------------
(* The copy.                                                               *)

\* Where the next page ends.
PageEnd(k) == IF LastKey - k < PageSize THEN LastKey ELSE k + PageSize

\* The page behind the key k.
LEMMA Page ==
    ASSUME NEW k \in 0..LastKey
    PROVE  /\ Len(pageAfter(k)) = PageEnd(k) - k /\ PageEnd(k) - k \in Nat
           /\ \A i \in 1..(PageEnd(k) - k) : pageAfter(k)[i] = k + i /\ k + i \in Keys
           /\ \A j \in Keys : j > k /\ j <= PageEnd(k) => j - k \in 1..(PageEnd(k) - k) /\ k + (j - k) = j
           /\ Len(pageAfter(k)) < PageSize => PageEnd(k) = LastKey
           /\ ~(Len(pageAfter(k)) < PageSize) => pageAfter(k)[PageSize] = PageEnd(k) /\ PageEnd(k) \in 0..LastKey
<1>1. LastKey \in Nat /\ PageSize \in Nat /\ PageSize > 0 /\ k \in Nat /\ k <= LastKey
  BY SchemaAssumption
<1>2. PICK n \in Nat : n = PageEnd(k) - k /\ n = (IF LastKey - k < PageSize THEN LastKey - k ELSE PageSize)
  BY <1>1 DEF PageEnd
<1>3. pageAfter(k) = [i \in 1..n |-> k + i]
  BY <1>2 DEF pageAfter
<1>4. Len(pageAfter(k)) = n /\ \A i \in 1..n : pageAfter(k)[i] = k + i
  BY <1>3
<1>5. \A i \in 1..n : k + i \in Keys
  BY <1>1, <1>2 DEF Keys
<1>6. PageEnd(k) = k + n /\ PageEnd(k) \in 0..LastKey
  BY <1>1, <1>2 DEF PageEnd
<1>7. \A j \in Keys : j > k /\ j <= k + n => j - k \in 1..n /\ k + (j - k) = j
  BY <1>1 DEF Keys
<1>8. n < PageSize => PageEnd(k) = LastKey
  BY <1>1, <1>2 DEF PageEnd
<1>9. ~(n < PageSize) => n = PageSize /\ PageSize \in 1..n
  BY <1>1, <1>2
<1>. QED
  BY <1>2, <1>4, <1>5, <1>6, <1>7, <1>8, <1>9

\* The requests for a page of the source, where items are read of it.
RequestsAfter(k, to, read) == [i \in 1..Len(pageAfter(k)) |-> transformed(to, read[pageAfter(k)[i]])]

\* What a scan reads are items of the source, current unless their key is touched.
ReadRight(read, tab, tch) ==
    \A k \in Keys : read[k] \in SourceItems /\ read[k].of = k /\ UpToDate(read[k], tab.source.items, tch)

PageRight(requests, k, to, tab, tch) ==
    /\ requests \in Seq(Requests)
    /\ \A r \in Range(requests) : RequestRight(r, to, tab.source.items, tch)
    /\ \A j \in Keys : j > k /\ j <= PageEnd(k) => \E r \in Range(requests) : r.item.of = j

\* They are those of the keys of the page, up to date.
LEMMA PageRequests ==
    ASSUME NEW tab, NEW k \in 0..LastKey, NEW to \in {"target", "backup"}, NEW tch,
           NEW read, ReadRight(read, tab, tch), NEW requests, requests = RequestsAfter(k, to, read)
    PROVE  PageRight(requests, k, to, tab, tch)
<1>1. PICK n \in Nat : /\ n = Len(pageAfter(k)) /\ n = PageEnd(k) - k
                       /\ \A i \in 1..n : pageAfter(k)[i] = k + i /\ k + i \in Keys
                       /\ \A j \in Keys : j > k /\ j <= PageEnd(k) => j - k \in 1..n /\ k + (j - k) = j
  BY Page
<1>2. requests = [i \in 1..n |-> transformed(to, read[k + i])]
  BY <1>1 DEF RequestsAfter
<1>3. ASSUME NEW j \in Keys
      PROVE  /\ transformed(to, read[j]) \in Requests
             /\ transformed(to, read[j]).item.of = j
             /\ RequestRight(transformed(to, read[j]), to, tab.source.items, tch)
  <2>1. PICK item \in SourceItems : item = read[j] /\ item.of = j /\ UpToDate(item, tab.source.items, tch)
    BY DEF ReadRight
  <2>2. PICK x : x = KeyIn(to)[j] /\ x \in {KeyIn("target")[i] : i \in Keys} \cup Keys
    BY DEF KeyIn
  <2>3. transformed(to, item) = [key |-> x, item |-> item]
    BY <2>1, <2>2 DEF transformed, KeyIn
  <2>4. [key |-> x, item |-> item] \in Requests
    BY <2>2 DEF Requests
  <2>. QED
    BY <2>1, <2>2, <2>3, <2>4 DEF RequestRight
<1>4. \A i \in 1..n : requests[i] \in Requests
  BY <1>1, <1>2, <1>3
<1>5. requests \in Seq(Requests) /\ DOMAIN requests = 1..n
  <2>1. requests \in [1..n -> Requests]
    BY <1>2, <1>4
  <2>. QED
    BY <2>1, SeqDef DEF Requests
<1>6. \A r \in Range(requests) : RequestRight(r, to, tab.source.items, tch)
  BY <1>1, <1>2, <1>3, <1>5 DEF Range
<1>7. ASSUME NEW j \in Keys, j > k /\ j <= PageEnd(k) PROVE \E r \in Range(requests) : r.item.of = j
  <2>1. j - k \in 1..n /\ k + (j - k) = j
    BY <1>1, <1>7
  <2>2. requests[j - k] = transformed(to, read[j])
    BY <1>2, <2>1
  <2>3. requests[j - k] \in Range(requests)
    BY <1>5, <2>1 DEF Range
  <2>. QED
    BY <1>3, <2>2, <2>3
<1>. QED
  BY <1>5, <1>6, <1>7 DEF PageRight

\* The next page is read.
LEMMA scanTablePageStep ==
    ASSUME SchemaInv, ReplicaInv, NEW m \in Managers, scanTablePage(m) PROVE SchemaInv' /\ CompleteOnReturn
<1>0. mig[m].pc = "scan" /\ touched' = touched /\ table' = table /\ TablesRight(table)
  BY DEF scanTablePage, At, SchemaInv
<1>1. m \in Running /\ mig[m] \in Migrations /\ MigrationRight(mig[m], table, touched)
  BY <1>0, UnderWay DEF Returned
<1>2. PICK g \in Migrations : g = mig[m]
  BY <1>1
<1>3. /\ g.pc = "scan" /\ g.todo = <<>> /\ g.batch = {} /\ g.after \in 0..LastKey
      /\ CopyRight(g, Range(g.todo) \cup g.batch, table, touched) /\ BackupRight(g, table, touched)
      /\ g.to \in {"target", "backup"}
  BY <1>0, <1>1, <1>2, SchemaAssumption DEF MigrationRight, Copying, Migrations
<1>4. PICK k \in 0..LastKey : k = g.after
  BY <1>3
<1>20. PICK stale \in SUBSET Unsettled :
         mig' = [mig EXCEPT ![m] =
            nextBatch([mig[m] EXCEPT
                !.todo = [i \in 1..Len(pageAfter(mig[m].after)) |->
                             transformed(mig[m].to, scanned(stale, pageAfter(mig[m].after)[i]))],
                !.after = IF Len(pageAfter(mig[m].after)) < PageSize THEN -1 ELSE pageAfter(mig[m].after)[PageSize]])]
  BY DEF scanTablePage
<1>21. PICK read : read = [j \in Keys |-> scanned(stale, j)]
  OBVIOUS
<1>22. ReadRight(read, table, touched)
  <2>1. ASSUME NEW j \in Keys PROVE read[j] \in SourceItems /\ read[j].of = j /\ UpToDate(read[j], table.source.items, touched)
    <3>1. /\ replica[j] \in SourceItems /\ replica[j].of = j
          /\ j \notin touched => replica[j] = table.source.items[j]
      BY <1>1 DEF ReplicaInv, ReplicaRight
    <3>2. table.source.items[j] \in SourceItems /\ table.source.items[j].of = j
      BY <1>0 DEF TablesRight
    <3>3. read[j] = replica[j] \/ read[j] = table.source.items[j]
      BY <1>21 DEF scanned
    <3>4. CASE read[j] = table.source.items[j]
      BY <3>2, <3>4 DEF UpToDate
    <3>5. CASE read[j] = replica[j]
      BY <3>1, <3>2, <3>5 DEF UpToDate
    <3>. QED
      BY <3>3, <3>4, <3>5
  <2>. QED
    BY <2>1 DEF ReadRight
<1>23. \A i \in 1..Len(pageAfter(k)) : scanned(stale, pageAfter(k)[i]) = read[pageAfter(k)[i]]
  <2>1. \A i \in 1..Len(pageAfter(k)) : pageAfter(k)[i] \in Keys
    BY Page
  <2>. QED
    BY <1>21, <2>1
<1>5. PICK requests : requests = RequestsAfter(k, g.to, read)
  OBVIOUS
<1>6. /\ requests \in Seq(Requests)
      /\ \A r \in Range(requests) : RequestRight(r, g.to, table.source.items, touched)
      /\ \A j \in Keys : j > k /\ j <= PageEnd(k) => \E r \in Range(requests) : r.item.of = j
  <2>1. PageRight(requests, k, g.to, table, touched)
    BY <1>3, <1>5, <1>22, PageRequests
  <2>. QED
    BY <2>1 DEF PageRight
<1>7. PICK a \in Int : /\ a = (IF Len(pageAfter(k)) < PageSize THEN -1 ELSE pageAfter(k)[PageSize])
                       /\ \/ a = -1 /\ PageEnd(k) = LastKey
                          \/ a = PageEnd(k) /\ a \in 0..LastKey
  <2>1. CASE Len(pageAfter(k)) < PageSize
    BY <2>1, Page
  <2>2. CASE ~(Len(pageAfter(k)) < PageSize)
    BY <2>2, Page
  <2>. QED
    BY <2>1, <2>2
<1>8. PICK f : f = [g EXCEPT !.todo = requests, !.after = a]
  OBVIOUS
<1>9. /\ f \in Migrations /\ f.pc = g.pc /\ f.to = g.to /\ f.alone = g.alone /\ f.copied = g.copied
      /\ f.copy = g.copy /\ f.todo = requests /\ f.after = a
  BY <1>6, <1>8 DEF Migrations
<1>10. PICK h : h = nextBatch(f)
  OBVIOUS
<1>11. mig' = [mig EXCEPT ![m] = h]
  <2>1. requests = [i \in 1..Len(pageAfter(k)) |-> transformed(g.to, scanned(stale, pageAfter(k)[i]))]
    BY <1>5, <1>23 DEF RequestsAfter
  <2>. QED
    BY <1>2, <1>4, <1>7, <1>8, <1>10, <1>20, <2>1
<1>12. CopyRight(f, Range(f.todo), table, touched)
  <2>1. ASSUME g.to = "target" \/ g.alone, NEW j \in ReadBy(f) \ touched
        PROVE  \/ \E r \in Range(requests) : r.item.of = j
               \/ Here(table[g.to].items, j, KeyIn(g.to), table.source.items, touched)
    <3>1. j \in Keys /\ j \in Int /\ j <= PageEnd(k)
      <4>1. CASE a = -1 /\ PageEnd(k) = LastKey
        BY <1>9, <2>1, <4>1, SchemaAssumption DEF ReadBy, Keys
      <4>2. CASE a = PageEnd(k) /\ a \in 0..LastKey
        BY <1>9, <2>1, <4>2, SchemaAssumption DEF ReadBy, Keys
      <4>. QED
        BY <1>7, <4>1, <4>2
    <3>2. CASE j > k
      BY <1>6, <3>1, <3>2
    <3>3. CASE ~(j > k)
      <4>1. j \in ReadBy(g)
        BY <1>4, <3>1, <3>3 DEF ReadBy, Keys
      <4>2. Range(g.todo) \cup g.batch = {}
        <5>1. DOMAIN g.todo = {}
          BY <1>3
        <5>. QED
          BY <1>3, <5>1 DEF Range
      <4>. QED
        BY <1>3, <2>1, <4>1, <4>2 DEF CopyRight
    <3>. QED
      BY <3>2, <3>3
  <2>. QED
    BY <1>6, <1>9, <2>1 DEF CopyRight
<1>13. BackupRight(f, table, touched) /\ f.pc \in Copying /\ f.after <= LastKey
  <2>1. f.after <= LastKey
    BY <1>7, <1>9, SchemaAssumption
  <2>. QED
    BY <1>3, <1>9, <2>1 DEF BackupRight, Copying
<1>14. /\ h \in Migrations /\ h.alone = f.alone
       /\ h.pc \in Returned \/ MigrationRight(h, table, touched)
       /\ h.pc = "done" => DoneRight(f, table, touched)
  BY <1>9, <1>10, <1>12, <1>13, NextBatchRight
<1>15. h.pc = "done" => DoneRight(g, table, touched)
  BY <1>9, <1>14 DEF DoneRight
<1>16. Goes(m, h)
  BY <1>0, <1>2, <1>9, <1>11, <1>14 DEF Goes
<1>. QED
  BY <1>0, <1>1, <1>2, <1>14, <1>15, <1>16, GoesOn

\* g goes on as h with what is left of its batch.
Left(g, h, rest) ==
    /\ h \in Migrations /\ h.pc \in {"write", "put"} /\ h.batch = rest
    /\ h.todo = g.todo /\ h.to = g.to /\ h.after = g.after /\ h.alone = g.alone /\ h.copied = g.copied

\* Requests of the batch are written; what is left of it is rest.
LEMMA WrittenStep ==
    ASSUME SchemaInv, NEW m \in Running, mig[m].pc \in {"write", "put"}, touched' = touched,
           NEW rs \in SUBSET mig[m].batch, NEW rest, rest = mig[m].batch \ rs, NEW h,
           table[mig[m].to].status = "active",
           table' = Put(table, mig[m].to, rs), mig' = [mig EXCEPT ![m] = h],
           \/ rest = {} /\ h = nextBatch(mig[m])
           \/ Left(mig[m], h, rest)
    PROVE  SchemaInv' /\ CompleteOnReturn
<1>1. mig[m] \in Migrations /\ MigrationRight(mig[m], table, touched) /\ TablesRight(table)
  BY DEF SchemaInv, Running
<1>2. PICK g, t2 : g \in Migrations /\ g = mig[m] /\ t2 = table'
  BY <1>1
<1>. g \in Migrations
  BY <1>2
<1>3. /\ g.pc \in Copying /\ g.to \in {"target", "backup"} /\ g.after <= LastKey
      /\ CopyRight(g, Range(g.todo) \cup g.batch, table, touched) /\ BackupRight(g, table, touched)
  BY <1>1, <1>2 DEF MigrationRight, Migrations, Copying
<1>4. t2 = Put(table, g.to, rs) /\ rs \subseteq g.batch /\ rest = g.batch \ rs
  BY <1>2
<1>5. \A r \in rs : RequestRight(r, g.to, table.source.items, touched)
  BY <1>3, <1>4 DEF CopyRight
<1>6. /\ TablesRight(t2) /\ t2[g.to].status = "active" /\ \A u \in Tables : u # g.to => t2[u] = table[u]
      /\ UpKept(table, t2, touched, touched)
      /\ \A u \in {"target", "backup"} : HereKept(u, table, t2, touched, touched)
  BY <1>1, <1>3, <1>4, <1>5, PutIs, PutKeeps
<1>7. CopyRight(g, Range(g.todo) \cup rest, t2, touched)
  <2>1. PICK P, Q : P = Range(g.todo) \cup g.batch /\ Q = Range(g.todo) \cup rest
    OBVIOUS
  <2>2. rs \subseteq P /\ Q \subseteq P /\ P \subseteq rs \cup Q
    BY <1>4, <2>1
  <2>3. CopyRight(g, Q, t2, touched)
    BY <1>1, <1>3, <1>4, <2>1, <2>2, PutCopies
  <2>. QED
    BY <2>1, <2>3
<1>8. BackupRight(g, t2, touched)
  <2>1. table.backup.status = "active" => t2.backup.status = "active"
    BY <1>3, <1>6 DEF Tables
  <2>2. AllHere(table.backup.items, KeyIn("backup"), table.source.items, touched) =>
          AllHere(t2.backup.items, KeyIn("backup"), t2.source.items, touched)
    BY <1>6 DEF AllHere, HereKept
  <2>. QED
    BY <1>3, <2>1, <2>2 DEF BackupRight
<1>9. CASE rest = {} /\ h = nextBatch(mig[m])
  <2>1. CopyRight(g, Range(g.todo), t2, touched)
    <3>1. Range(g.todo) \cup rest = Range(g.todo)
      BY <1>9
    <3>. QED
      BY <1>7, <3>1
  <2>2. h = nextBatch(g)
    BY <1>2, <1>9
  <2>3. /\ h \in Migrations /\ h.alone = g.alone
        /\ h.pc \in Returned \/ MigrationRight(h, t2, touched)
        /\ h.pc = "done" => DoneRight(g, t2, touched)
    BY <1>3, <1>8, <2>1, <2>2, NextBatchRight
  <2>4. Goes(m, h)
    BY <1>2, <2>3 DEF Goes
  <2>. QED
    BY <1>2, <1>6, <2>3, <2>4, GoesRight
<1>10. CASE Left(mig[m], h, rest)
  <2>0. h \in Migrations /\ h.pc \in {"write", "put"} /\ h.batch = rest
    BY <1>10 DEF Left
  <2>1. /\ h.todo = g.todo /\ h.to = g.to /\ h.after = g.after /\ h.alone = g.alone /\ h.copied = g.copied
        /\ h.pc \in Copying /\ h.pc \notin Early /\ h.pc # "scan" /\ h.pc # "done"
    BY <1>2, <1>10, <2>0 DEF Left, Copying, Early
  <2>2. CopyRight(h, Range(h.todo) \cup h.batch, t2, touched)
    BY <1>7, <2>0, <2>1 DEF CopyRight, ReadBy
  <2>3. BackupRight(h, t2, touched)
    BY <1>3, <1>8, <2>1 DEF BackupRight
  <2>4. MigrationRight(h, t2, touched)
    BY <1>3, <2>0, <2>1, <2>2, <2>3 DEF MigrationRight
  <2>5. Goes(m, h)
    BY <1>2, <2>0, <2>1 DEF Goes
  <2>. QED
    BY <1>2, <1>6, <2>1, <2>4, <2>5, GoesRight
<1>. QED
  BY <1>9, <1>10

\* A batch is refused, or written but for what the service leaves unprocessed.
LEMMA batchWriteWithRetriesStep ==
    ASSUME SchemaInv, NEW m \in Managers, batchWriteWithRetries(m) PROVE SchemaInv' /\ CompleteOnReturn
<1>0. mig[m].pc = "write" /\ touched' = touched
  BY DEF batchWriteWithRetries, At
<1>1. m \in Running /\ mig[m] \in Migrations
  BY <1>0, UnderWay DEF Returned
<1>2. CASE Goto(m, "failed") /\ table' = table
  BY <1>0, <1>1, <1>2, FailedStep
<1>3. ASSUME NEW unprocessed \in SUBSET mig[m].batch, table[mig[m].to].status = "active",
             table' = [table EXCEPT ![mig[m].to] = Active(WithItems(@.items, mig[m].batch \ unprocessed))],
             mig' = [mig EXCEPT ![m] = afterRetries(mig[m], unprocessed)]
      PROVE  SchemaInv' /\ CompleteOnReturn
  <2>1. PICK rs : rs = mig[m].batch \ unprocessed
    OBVIOUS
  <2>2. PICK g, h : g \in Migrations /\ g = mig[m] /\ h = afterRetries(mig[m], unprocessed)
    BY <1>1
  <2>. g \in Migrations
    BY <2>2
  <2>3. table' = Put(table, mig[m].to, rs) /\ rs \in SUBSET mig[m].batch /\ unprocessed = mig[m].batch \ rs
    BY <1>3, <2>1 DEF Put
  <2>4. g.attempt \in Int /\ unprocessed \in SUBSET Requests
    BY <2>2 DEF Migrations
  <2>5. CASE unprocessed = {}
    <3>1. h = nextBatch(mig[m])
      BY <2>2, <2>5 DEF afterRetries
    <3>. QED
      BY <1>0, <1>1, <1>3, <2>2, <2>3, <2>5, <3>1, WrittenStep
  <2>6. CASE unprocessed # {} /\ g.attempt < MaxBatchRetries
    <3>1. h = [g EXCEPT !.batch = unprocessed, !.attempt = g.attempt + 1]
      <4>1. ~(g.attempt >= MaxBatchRetries)
        BY <2>4, <2>6, SchemaAssumption
      <4>. QED
        BY <2>2, <2>6, <4>1 DEF afterRetries
    <3>2. /\ h \in Migrations /\ h.pc = g.pc /\ h.batch = unprocessed
          /\ h.todo = g.todo /\ h.to = g.to /\ h.after = g.after /\ h.alone = g.alone /\ h.copied = g.copied
      <4>1. PICK n \in Int : n = g.attempt + 1
        BY <2>4
      <4>2. h = [g EXCEPT !.batch = unprocessed, !.attempt = n]
        BY <3>1, <4>1
      <4>. QED
        BY <2>4, <4>2 DEF Migrations
    <3>3. Left(mig[m], h, unprocessed)
      BY <1>0, <2>2, <3>2 DEF Left
    <3>. QED
      BY <1>0, <1>1, <1>3, <2>2, <2>3, <3>3, WrittenStep
  <2>7. CASE unprocessed # {} /\ g.attempt >= MaxBatchRetries
    <3>1. h = [g EXCEPT !.pc = "put", !.batch = unprocessed]
      BY <2>2, <2>4, <2>7, SchemaAssumption DEF afterRetries
    <3>2. /\ h \in Migrations /\ h.pc = "put" /\ h.batch = unprocessed
          /\ h.todo = g.todo /\ h.to = g.to /\ h.after = g.after /\ h.alone = g.alone /\ h.copied = g.copied
      <4>1. "put" \in Places
        BY DEF Places, Copying
      <4>. QED
        BY <2>4, <3>1, <4>1 DEF Migrations
    <3>3. Left(mig[m], h, unprocessed)
      BY <1>0, <2>2, <3>2 DEF Left
    <3>. QED
      BY <1>0, <1>1, <1>3, <2>2, <2>3, <3>3, WrittenStep
  <2>. QED
    BY <2>4, <2>5, <2>6, <2>7, SchemaAssumption
<1>. QED
  BY <1>2, <1>3 DEF batchWriteWithRetries

\* What the retries left is written one by one.
LEMMA putWriteRequestsIndividuallyStep ==
    ASSUME SchemaInv, NEW m \in Managers, putWriteRequestsIndividually(m) PROVE SchemaInv' /\ CompleteOnReturn
<1>0. mig[m].pc = "put" /\ touched' = touched
  BY DEF putWriteRequestsIndividually, At
<1>1. m \in Running /\ mig[m] \in Migrations
  BY <1>0, UnderWay DEF Returned
<1>2. CASE Goto(m, "failed") /\ table' = table
  BY <1>0, <1>1, <1>2, FailedStep
<1>3. ASSUME NEW r \in mig[m].batch, table[mig[m].to].status = "active",
             table' = [table EXCEPT ![mig[m].to] = Active(WithItems(@.items, {r}))],
             mig' = [mig EXCEPT ![m] = IF mig[m].batch = {r} THEN nextBatch(mig[m])
                                       ELSE [mig[m] EXCEPT !.batch = @ \ {r}]]
      PROVE  SchemaInv' /\ CompleteOnReturn
  <2>1. PICK rs, rest : rs = {r} /\ rest = mig[m].batch \ rs
    OBVIOUS
  <2>2. table' = Put(table, mig[m].to, rs) /\ rs \in SUBSET mig[m].batch
    BY <1>3, <2>1 DEF Put
  <2>3. PICK g \in Migrations : g = mig[m]
    BY <1>1
  <2>4. CASE mig[m].batch = {r}
    <3>1. PICK h : h = nextBatch(mig[m])
      OBVIOUS
    <3>2. mig' = [mig EXCEPT ![m] = h] /\ rest = {}
      BY <1>3, <2>1, <2>4, <3>1
    <3>. QED
      BY <1>0, <1>1, <1>3, <2>1, <2>2, <3>1, <3>2, WrittenStep
  <2>5. CASE mig[m].batch # {r}
    <3>1. PICK h : h = [g EXCEPT !.batch = rest]
      OBVIOUS
    <3>2. mig' = [mig EXCEPT ![m] = h]
      BY <1>3, <2>1, <2>3, <2>5, <3>1
    <3>3. rest \in SUBSET Requests
      BY <2>1, <2>3 DEF Migrations
    <3>4. /\ h \in Migrations /\ h.pc = g.pc /\ h.batch = rest
          /\ h.todo = g.todo /\ h.to = g.to /\ h.after = g.after /\ h.alone = g.alone /\ h.copied = g.copied
      BY <3>1, <3>3 DEF Migrations
    <3>5. Left(mig[m], h, rest)
      BY <1>0, <2>3, <3>4 DEF Left
    <3>. QED
      BY <1>0, <1>1, <1>3, <2>1, <2>2, <3>2, <3>5, WrittenStep
  <2>. QED
    BY <2>4, <2>5
<1>. QED
  BY <1>2, <1>3 DEF putWriteRequestsIndividually

------------------------------------------------------------------------------
\* At first nobody migrates.
LEMMA SchemaInitInv == SchemaInit => SchemaInv /\ ReplicaInv
<1>. SUFFICES ASSUME SchemaInit PROVE SchemaInv /\ ReplicaInv
  OBVIOUS
<1>1. PICK src : src = [k \in Keys |-> [of |-> k, val |-> 0]]
  OBVIOUS
<1>2. src \in [Keys -> SourceItems] /\ \A k \in Keys : src[k].of = k
  <2>1. ASSUME NEW k \in Keys PROVE [of |-> k, val |-> 0] \in SourceItems /\ [of |-> k, val |-> 0].of = k
    BY DEF SourceItems
  <2>. QED
    BY <1>1, <2>1
<1>3. PICK s1 \in {"absent", "active"}, s2 \in {"absent", "active"} :
         table = [source |-> [status |-> "active", items |-> src], target |-> [status |-> s1, items |-> NoItems],
                  backup |-> [status |-> s2, items |-> NoItems]]
  BY <1>1 DEF SchemaInit, NoTable, Active
<1>4. TablesRight(table)
  BY <1>2, <1>3 DEF TablesRight, Tables
<1>5. Idle \in Migrations /\ Idle.pc = "idle"
  <2>1. "idle" \in Places /\ 0 \in Int
    BY DEF Places, Returned
  <2>2. PICK e \in Seq(Requests) : e = <<>>
    BY EmptySeq
  <2>. QED
    BY <2>1, <2>2 DEF Migrations, Idle
<1>6. mig = [m \in Managers |-> Idle]
  BY DEF SchemaInit
<1>7. Running = {}
  BY <1>5, <1>6 DEF Running, Returned
<1>8. replica = src
  BY <1>3 DEF SchemaInit
<1>. QED
  BY <1>2, <1>4, <1>5, <1>6, <1>7, <1>8 DEF SchemaInv, ReplicaInv, ReplicaRight

\* Every step of the migrations, the tables and the application.
LEMMA SchemaStep == SchemaInv /\ ReplicaInv /\ [SchemaNext]_schemaVars => SchemaInv' /\ [CompleteOnReturn]_schemaVars
<1>. SUFFICES ASSUME SchemaInv, ReplicaInv, [SchemaNext]_schemaVars PROVE SchemaInv' /\ [CompleteOnReturn]_schemaVars
  OBVIOUS
<1>1. ASSUME NEW t \in {"target", "backup"}, TableReady(t) PROVE SchemaInv' /\ CompleteOnReturn
  BY <1>1, TableReadyStep
<1>2. ASSUME NEW k \in Keys, WriteSource(k) PROVE SchemaInv' /\ CompleteOnReturn
  BY <1>2, WriteSourceStep
<1>10. ASSUME NEW k \in Keys, Settle(k) PROVE SchemaInv' /\ CompleteOnReturn
  BY <1>10, UpdateTableStep DEF Settle
<1>3. ASSUME UpdateTable PROVE SchemaInv' /\ CompleteOnReturn
  BY <1>3, UpdateTableStep DEF UpdateTable
<1>4. ASSUME NEW m \in Managers, AutoMigrate(m) PROVE SchemaInv' /\ CompleteOnReturn
  BY <1>4, BeginStep DEF AutoMigrate
<1>5. ASSUME NEW m \in Managers, NEW backup \in BOOLEAN, NEW copy \in BOOLEAN, AutoMigrateWithOptions(m, backup, copy)
      PROVE  SchemaInv' /\ CompleteOnReturn
  BY <1>5, BeginStep
<1>6. ASSUME NEW m \in Managers, TransformWithValidation(m) PROVE SchemaInv' /\ CompleteOnReturn
  <2>1. m \in Running /\ Goto(m, "failed") /\ table' = table /\ touched' = touched
    BY <1>6 DEF TransformWithValidation, At, Running, Returned
  <2>. QED
    BY <2>1, FailedStep
<1>7. ASSUME NEW m \in Managers, CallFails(m) PROVE SchemaInv' /\ CompleteOnReturn
  BY <1>7, FailedStep DEF CallFails
<1>8. ASSUME UNCHANGED schemaVars PROVE SchemaInv' /\ CompleteOnReturn
  BY <1>8, UpdateTableStep DEF schemaVars
<1>9. ASSUME SchemaNext PROVE SchemaInv' /\ CompleteOnReturn
  BY <1>1, <1>2, <1>3, <1>4, <1>5, <1>6, <1>7, <1>9, <1>10, createBackupStep, copyTableStep, deleteBackupStep,
     createCopyStep, copyTableDataStep, ensureTargetTableStep, CreateTableStep, waitForTableActiveStep,
     scanTablePageStep, batchWriteWithRetriesStep, putWriteRequestsIndividuallyStep
  DEF SchemaNext
<1>. QED
  BY <1>8, <1>9

\* A step that leaves the source, the replica and what is touched as they are,
\* and with which no migration begins.
LEMMA ReplicaStays ==
    ASSUME ReplicaInv, replica' = replica, touched' = touched, table'.source = table.source, Running' \subseteq Running
    PROVE  ReplicaInv'
BY DEF ReplicaInv, ReplicaRight

\* What every step of a migration under way leaves as it is.
LEMMA StepStays ==
    ASSUME SchemaInv, NEW m \in Managers,
           \/ createBackup(m) \/ copyTable(m) \/ deleteBackup(m) \/ createCopy(m) \/ copyTableData(m)
           \/ ensureTargetTable(m) \/ CreateTable(m) \/ waitForTableActive(m)
           \/ scanTablePage(m) \/ TransformWithValidation(m) \/ batchWriteWithRetries(m)
           \/ putWriteRequestsIndividually(m) \/ CallFails(m)
    PROVE  replica' = replica /\ touched' = touched /\ table'.source = table.source /\ Running' \subseteq Running
<1>0. TablesRight(table) /\ mig \in [Managers -> Migrations]
  BY DEF SchemaInv
<1>1. replica' = replica /\ touched' = touched
  BY DEF createBackup, copyTable, deleteBackup, createCopy, copyTableData, ensureTargetTable, CreateTable,
         waitForTableActive, scanTablePage, TransformWithValidation, batchWriteWithRetries,
         putWriteRequestsIndividually, CallFails
<1>2. mig[m].pc \notin Returned
  BY DEF createBackup, copyTable, deleteBackup, createCopy, copyTableData, ensureTargetTable, CreateTable,
         waitForTableActive, scanTablePage, TransformWithValidation, batchWriteWithRetries,
         putWriteRequestsIndividually, CallFails, At, Returned, Running
<1>3. \E h : mig' = [mig EXCEPT ![m] = h]
  <2>1. CASE createBackup(m) \/ copyTable(m) \/ deleteBackup(m) \/ createCopy(m) \/ TransformWithValidation(m) \/ CallFails(m)
    BY <2>1 DEF createBackup, copyTable, deleteBackup, createCopy, TransformWithValidation, CallFails, Goto
  <2>2. CASE copyTableData(m)
    BY <2>2 DEF copyTableData
  <2>3. CASE ensureTargetTable(m) \/ CreateTable(m) \/ waitForTableActive(m)
    BY <2>3 DEF ensureTargetTable, CreateTable, waitForTableActive, copyDataIfRequested, Goto
  <2>4. CASE scanTablePage(m)
    BY <2>4 DEF scanTablePage
  <2>5. CASE batchWriteWithRetries(m)
    BY <2>5 DEF batchWriteWithRetries, Goto
  <2>6. CASE putWriteRequestsIndividually(m)
    BY <2>6 DEF putWriteRequestsIndividually, Goto
  <2>. QED
    BY <2>1, <2>2, <2>3, <2>4, <2>5, <2>6
<1>4. Running' \subseteq Running
  <2>1. \A n \in Managers : n # m => mig'[n] = mig[n]
    BY <1>0, <1>3
  <2>2. m \in Running
    BY <1>2 DEF Running
  <2>3. \A n \in Running' : n \in Managers /\ (n # m => n \in Running)
    BY <2>1 DEF Running
  <2>. QED
    BY <2>2, <2>3
<1>5. table' = table \/ \E t \in {"target", "backup"} : \E new : table' = [table EXCEPT ![t] = new]
  <2>1. CASE createBackup(m) \/ copyTable(m) \/ TransformWithValidation(m) \/ CallFails(m) \/ copyTableData(m)
             \/ ensureTargetTable(m) \/ waitForTableActive(m) \/ scanTablePage(m)
    BY <2>1 DEF createBackup, copyTable, TransformWithValidation, CallFails, copyTableData, ensureTargetTable,
                waitForTableActive, scanTablePage
  <2>2. CASE deleteBackup(m)
    BY <2>2 DEF deleteBackup
  <2>3. CASE createCopy(m)
    BY <2>3 DEF createCopy
  <2>4. CASE CreateTable(m)
    BY <2>4 DEF CreateTable
  <2>5. mig[m].to \in {"target", "backup"}
    BY <1>0 DEF Migrations
  <2>6. CASE batchWriteWithRetries(m)
    BY <2>5, <2>6 DEF batchWriteWithRetries
  <2>7. CASE putWriteRequestsIndividually(m)
    BY <2>5, <2>7 DEF putWriteRequestsIndividually
  <2>. QED
    BY <2>1, <2>2, <2>3, <2>4, <2>6, <2>7
<1>6. table'.source = table.source
  BY <1>0, <1>5 DEF TablesRight
<1>. QED
  BY <1>1, <1>4, <1>6

\* What a scan may read stays right: a write of the application touches its
\* key, and what has not settled when a migration begins is touched from then on.
LEMMA ReplicaStep == SchemaInv /\ ReplicaInv /\ [SchemaNext]_schemaVars => ReplicaInv'
<1>. SUFFICES ASSUME SchemaInv, ReplicaInv, [SchemaNext]_schemaVars PROVE ReplicaInv'
  OBVIOUS
<1>0. TablesRight(table)
  BY DEF SchemaInv
<1>1. ASSUME NEW t \in {"target", "backup"}, TableReady(t) PROVE ReplicaInv'
  <2>1. replica' = replica /\ touched' = touched /\ mig' = mig
    BY <1>1 DEF TableReady
  <2>2. \E new : table' = [table EXCEPT ![t] = new]
    BY <1>1 DEF TableReady
  <2>3. table'.source = table.source
    BY <1>0, <2>2 DEF TablesRight
  <2>4. Running' \subseteq Running
    BY <2>1 DEF Running
  <2>. QED
    BY <2>1, <2>3, <2>4, ReplicaStays
<1>2. ASSUME NEW k \in Keys, WriteSource(k) PROVE ReplicaInv'
  <2>1. replica' = replica /\ mig' = mig /\ touched' = (IF Running = {} THEN touched ELSE touched \cup {k})
    BY <1>2 DEF WriteSource
  <2>2. Running' = Running
    BY <2>1 DEF Running
  <2>3. \A j \in Keys : j # k => table'.source.items[j] = table.source.items[j]
    <3>1. PICK new : table' = [table EXCEPT !.source = Active([table.source.items EXCEPT ![k] = new])]
      BY <1>2 DEF WriteSource
    <3>2. table'.source.items = [table.source.items EXCEPT ![k] = new]
      BY <1>0, <3>1 DEF TablesRight, Active
    <3>. QED
      BY <1>0, <3>2 DEF TablesRight
  <2>. QED
    BY <2>1, <2>2, <2>3 DEF ReplicaInv, ReplicaRight
<1>3. ASSUME NEW k \in Keys, Settle(k) PROVE ReplicaInv'
  <2>1. /\ replica' = [replica EXCEPT ![k] = table.source.items[k]] /\ mig' = mig /\ touched' = touched
        /\ table' = table
    BY <1>3 DEF Settle
  <2>2. Running' = Running
    BY <2>1 DEF Running
  <2>3. table.source.items[k] \in SourceItems /\ table.source.items[k].of = k
    BY <1>0 DEF TablesRight
  <2>. QED
    BY <2>1, <2>2, <2>3 DEF ReplicaInv, ReplicaRight
<1>4. ASSUME UpdateTable PROVE ReplicaInv'
  BY <1>4, ReplicaStays DEF UpdateTable, Running
<1>5. ASSUME NEW m \in Managers, NEW backup \in BOOLEAN, NEW copy \in BOOLEAN, AutoMigrateWithOptions(m, backup, copy)
      PROVE  ReplicaInv'
  <2>1. replica' = replica /\ table' = table /\ touched' = (IF Running = {} THEN Unsettled ELSE touched)
    BY <1>5 DEF AutoMigrateWithOptions
  <2>2. \A k \in Keys \ touched' : replica[k] = table.source.items[k]
    BY <2>1 DEF ReplicaInv, ReplicaRight, Unsettled
  <2>. QED
    BY <2>1, <2>2 DEF ReplicaInv, ReplicaRight
<1>6. ASSUME NEW m \in Managers, AutoMigrate(m) PROVE ReplicaInv'
  BY <1>5, <1>6 DEF AutoMigrate
<1>7. ASSUME NEW m \in Managers,
             \/ createBackup(m) \/ copyTable(m) \/ deleteBackup(m) \/ createCopy(m) \/ copyTableData(m)
             \/ ensureTargetTable(m) \/ CreateTable(m) \/ waitForTableActive(m)
             \/ scanTablePage(m) \/ TransformWithValidation(m) \/ batchWriteWithRetries(m)
             \/ putWriteRequestsIndividually(m) \/ CallFails(m)
      PROVE  ReplicaInv'
  BY <1>7, StepStays, ReplicaStays
<1>8. ASSUME UNCHANGED schemaVars PROVE ReplicaInv'
  BY <1>8, ReplicaStays DEF schemaVars, Running
<1>. QED
  BY <1>1, <1>2, <1>3, <1>4, <1>5, <1>6, <1>7, <1>8 DEF SchemaNext

\* A migration that returns no error has copied every item whose last write
\* had settled when the first of the migrations under way began, for any page
\* and batch size, whatever the service left unprocessed, whatever failed
\* before and whoever else migrates; and so it has the backup, if no other
\* migration replaced it (copyData, automigrate.go:307; writeRequestsBatched,
\* automigrate.go:487).  Nothing is promised of a write that had not settled:
\* the scans are eventually consistent (automigrate.go:319).
THEOREM Migrated == SchemaSpec => MigrationComplete
<1>1. SchemaInit => SchemaInv /\ ReplicaInv
  BY SchemaInitInv
<1>2. SchemaInv /\ ReplicaInv /\ [SchemaNext]_schemaVars =>
        SchemaInv' /\ ReplicaInv' /\ [CompleteOnReturn]_schemaVars
  BY SchemaStep, ReplicaStep
<1>. QED
  BY <1>1, <1>2, PTL DEF SchemaSpec, MigrationComplete

(***************************************************************************)
(* The registry.  The argument follows parseMetadata: splitTags gives      *)
(* every modifier to its clause (SplitAt), the parts of a tag make a field *)
(* what its tag says (FieldMeans), and the first n fields make a model     *)
(* what they say, whatever comes after (Parsed).  Each is an induction     *)
(* over a recursive function, made of a set of numbers that Climb fills.   *)
(***************************************************************************)
\* A set of natural numbers has a least one.
LEMMA Smallest ==
    ASSUME NEW N, N \subseteq Nat, N # {}
    PROVE  \E m \in N : \A k \in N : m <= k
<1>1. PICK m \in N : \A k \in N : ~(<<k, m>> \in OpToRel(<, Nat))
  BY NatLessThanWellFounded, WFMin, Zenon
<1>2. \A k \in N : ~(k < m)
  BY <1>1, Zenon DEF OpToRel
<1>. QED
  BY <1>2

\* A set with 0, and with n + 1 for each of its n below N, has N.
LEMMA Climb ==
    ASSUME NEW S, NEW N \in Nat, 0 \in S, \A n \in 0..N - 1 : n \in S => n + 1 \in S
    PROVE  N \in S
<1>. DEFINE T == {n \in 0..N : n \notin S}
<1>1. SUFFICES ASSUME T # {} PROVE FALSE
  OBVIOUS
<1>2. PICK m \in T : \A k \in T : m <= k
  <2>1. T \subseteq Nat
    OBVIOUS
  <2>. QED
    BY <1>1, <2>1, Smallest
<1>3. m # 0 /\ m \in 0..N /\ m \notin S
  OBVIOUS
<1>4. m - 1 \in 0..N - 1 /\ m - 1 < m /\ (m - 1) + 1 = m
  BY <1>3
<1>5. m - 1 \in S
  <2>1. m - 1 \in 0..N
    BY <1>4
  <2>2. m - 1 \notin T
    BY <1>2, <1>3, <1>4
  <2>. QED
    BY <2>1, <2>2
<1>. QED
  BY <1>3, <1>4, <1>5

(***************************************************************************)
(* Tags and the clauses their tokens belong to.                            *)
(***************************************************************************)
Parts == [head : Tokens, modifiers : Seq(STRING)]

\* The clause at j is open for the token at i.
Opens(tag, j, i) ==
    j \in 1..i - 1 /\ IndexClause(tag[j]) /\ \A k \in j + 1..i - 1 : tag[k].k \in Modifiers

\* No token is both a clause and a modifier.
LEMMA ClausesAreNoModifiers == \A t : IndexClause(t) => t.k \notin Modifiers
BY DEF IndexClause, Modifiers

\* A modifier belongs to the clause that is open for it.
LEMMA OwnerIs ==
    ASSUME NEW tag, NEW i \in Nat, NEW j, Opens(tag, j, i), tag[i].k \in Modifiers
    PROVE  owner(tag, i) = j
<1>. DEFINE before == {l \in 1..i - 1 : IndexClause(tag[l]) /\ \A k \in l + 1..i - 1 : tag[k].k \in Modifiers}
<1>1. j \in before
  BY DEF Opens
<1>2. ASSUME NEW l \in before PROVE l = j
  <2>1. l \in Nat /\ j \in Nat /\ l <= i - 1 /\ j <= i - 1
    BY <1>1
  <2>2. IndexClause(tag[l]) /\ IndexClause(tag[j])
    BY <1>1
  <2>3. ~(l < j)
    <3>1. l < j => j \in l + 1..i - 1
      BY <2>1
    <3>. QED
      BY <2>2, <3>1, ClausesAreNoModifiers
  <2>4. ~(j < l)
    <3>1. j < l => l \in j + 1..i - 1
      BY <2>1
    <3>. QED
      BY <1>1, <2>2, <3>1, ClausesAreNoModifiers
  <2>. QED
    BY <2>1, <2>3, <2>4
<1>3. (CHOOSE l \in before : TRUE) = j
  BY <1>1, <1>2
<1>. QED
  BY <1>1, <1>3 DEF owner

\* What a token belongs to is open for it.
LEMMA OwnerIsOne ==
    ASSUME NEW tag, NEW i \in Nat, owner(tag, i) # 0
    PROVE  Opens(tag, owner(tag, i), i) /\ tag[i].k \in Modifiers
<1>. DEFINE before == {l \in 1..i - 1 : IndexClause(tag[l]) /\ \A k \in l + 1..i - 1 : tag[k].k \in Modifiers}
<1>1. tag[i].k \in Modifiers /\ before # {} /\ owner(tag, i) = CHOOSE l \in before : TRUE
  BY DEF owner
<1>2. owner(tag, i) \in before
  BY <1>1
<1>. QED
  BY <1>1, <1>2 DEF Opens

\* Only a modifier belongs to a clause.
LEMMA OwnNothing ==
    ASSUME NEW tag, NEW i \in Nat, tag[i].k \notin Modifiers
    PROVE  owner(tag, i) = 0
BY OwnerIsOne

\* The modifiers of the clause at j, of the first n tokens.
ModifiersOf(modifiers, j, tag, n) ==
    \A k : k \in Range(modifiers) <=> \E i \in 1..n : owner(tag, i) = j /\ tag[i].k = k

\* The parts of the first n tokens, with the place of each part's head.
SplitAt(parts, pos, tag, n) ==
    /\ parts \in Seq(Parts)
    /\ pos \in [1..Len(parts) -> 1..n]
    /\ \A p, q \in 1..Len(parts) : p < q => pos[p] < pos[q]
    /\ \A p \in 1..Len(parts) : parts[p].head = tag[pos[p]] /\ owner(tag, pos[p]) = 0
    /\ \A i \in 1..n : owner(tag, i) = 0 => \E p \in 1..Len(parts) : pos[p] = i
    /\ \A p \in 1..Len(parts) : ModifiersOf(parts[p].modifiers, pos[p], tag, n)

\* A modifier behind an open clause.
Attached(parts, t) == parts # <<>> /\ IndexClause(parts[Len(parts)].head) /\ t.k \in Modifiers

\* The clause of the last part is open for a modifier.
LEMMA LastOpens ==
    ASSUME NEW tag, NEW n \in Nat, NEW parts, NEW pos, SplitAt(parts, pos, tag, n),
           Attached(parts, tag[n + 1])
    PROVE  owner(tag, n + 1) = pos[Len(parts)]
<1>1. PICK L \in Nat : L = Len(parts) /\ L \in 1..Len(parts)
  <2>1. Len(parts) \in Nat /\ Len(parts) # 0
    BY EmptySeq DEF SplitAt, Attached
  <2>. QED
    BY <2>1
<1>2. pos[L] \in 1..n /\ IndexClause(tag[pos[L]])
  BY <1>1 DEF SplitAt, Attached
<1>3. ASSUME NEW k \in pos[L] + 1..n PROVE tag[k].k \in Modifiers
  <2>1. k \in 1..n /\ pos[L] < k
    BY <1>2
  <2>2. owner(tag, k) # 0
    <3>1. SUFFICES ASSUME NEW p \in 1..Len(parts), pos[p] = k PROVE FALSE
      BY <2>1 DEF SplitAt
    <3>2. p = L \/ p < L
      BY <1>1
    <3>3. p < L => pos[p] < pos[L]
      BY <1>1 DEF SplitAt
    <3>. QED
      BY <1>2, <2>1, <3>1, <3>2, <3>3
  <2>. QED
    BY <2>1, <2>2, OwnerIsOne
<1>4. Opens(tag, pos[L], n + 1)
  <2>1. (n + 1) - 1 = n
    OBVIOUS
  <2>. QED
    BY <1>2, <1>3, <2>1 DEF Opens
<1>. QED
  BY <1>1, <1>4, OwnerIs DEF Attached

\* A token that opens a part of its own belongs to no clause.
LEMMA NoneOpens ==
    ASSUME NEW tag, NEW n \in Nat, NEW parts, NEW pos, SplitAt(parts, pos, tag, n),
           ~Attached(parts, tag[n + 1])
    PROVE  owner(tag, n + 1) = 0
<1>1. SUFFICES ASSUME owner(tag, n + 1) # 0 PROVE FALSE
  OBVIOUS
<1>2. PICK o : o = owner(tag, n + 1)
  OBVIOUS
<1>3. Opens(tag, o, n + 1) /\ tag[n + 1].k \in Modifiers
  BY <1>1, <1>2, OwnerIsOne
<1>4. o \in 1..n /\ IndexClause(tag[o]) /\ \A k \in o + 1..n : tag[k].k \in Modifiers
  <2>1. (n + 1) - 1 = n
    OBVIOUS
  <2>. QED
    BY <1>3, <2>1 DEF Opens
<1>5. owner(tag, o) = 0
  BY <1>4, OwnNothing, ClausesAreNoModifiers
<1>6. PICK p \in 1..Len(parts) : pos[p] = o
  BY <1>4, <1>5 DEF SplitAt
<1>7. PICK L \in Nat : L = Len(parts) /\ L \in 1..Len(parts) /\ p <= L
  <2>1. Len(parts) \in Nat
    BY DEF SplitAt
  <2>. QED
    BY <1>6, <2>1
<1>8. p = L
  <2>1. SUFFICES ASSUME p < L PROVE FALSE
    BY <1>6, <1>7
  <2>2. pos[L] \in 1..n /\ o < pos[L]
    BY <1>6, <1>7, <2>1 DEF SplitAt
  <2>3. Opens(tag, o, pos[L])
    BY <1>4, <2>2 DEF Opens
  <2>4. tag[pos[L]].k \in Modifiers
    BY <1>4, <2>2
  <2>5. owner(tag, pos[L]) = o
    BY <2>2, <2>3, <2>4, OwnerIs
  <2>. QED
    BY <1>4, <1>7, <2>5 DEF SplitAt
<1>9. parts # <<>> /\ IndexClause(parts[Len(parts)].head)
  <2>1. parts[Len(parts)].head = tag[o]
    BY <1>6, <1>7, <1>8 DEF SplitAt
  <2>2. Len(parts) # 0
    BY <1>7
  <2>. QED
    BY <1>4, <2>1, <2>2
<1>. QED
  BY <1>3, <1>9 DEF Attached

\* The values of a longer sequence.
LEMMA RangeOfAppend ==
    ASSUME NEW S, NEW s \in Seq(S), NEW x \in S
    PROVE  \A k : k \in Range(Append(s, x)) <=> k = x \/ k \in Range(s)
<1>1. Len(s) \in Nat /\ DOMAIN s = 1..Len(s) /\ DOMAIN Append(s, x) = 1..Len(s) + 1
  BY AppendProperties, LenProperties
<1>2. \A i \in 1..Len(s) : Append(s, x)[i] = s[i]
  BY AppendProperties
<1>3. Append(s, x)[Len(s) + 1] = x
  BY AppendProperties
<1>4. \A i \in 1..Len(s) + 1 : i \in 1..Len(s) \/ i = Len(s) + 1
  BY <1>1
<1>5. Len(s) + 1 \in 1..Len(s) + 1 /\ \A i \in 1..Len(s) : i \in 1..Len(s) + 1
  BY <1>1
<1>. QED
  BY <1>1, <1>2, <1>3, <1>4, <1>5 DEF Range

\* A modifier is put to the last part.
LEMMA AttachedStep ==
    ASSUME NEW tag \in Seq(Tokens), NEW n \in Nat, n < Len(tag), NEW parts, NEW pos,
           SplitAt(parts, pos, tag, n), Attached(parts, tag[n + 1])
    PROVE  SplitAt(addToken(parts, tag[n + 1]), pos, tag, n + 1)
<1>1. PICK L \in Nat : L = Len(parts) /\ L \in 1..Len(parts) /\ parts \in Seq(Parts)
  <2>1. Len(parts) \in Nat /\ Len(parts) # 0
    BY EmptySeq DEF SplitAt, Attached
  <2>. QED
    BY <2>1 DEF SplitAt
<1>2. PICK w : w = tag[n + 1].k
  OBVIOUS
<1>3. w \in STRING
  <2>1. n + 1 \in 1..Len(tag)
    BY LenProperties
  <2>2. tag[n + 1] \in Tokens
    BY <2>1, ElementOfSeq
  <2>. QED
    BY <1>2, <2>2 DEF Tokens
<1>4. PICK new : new = addToken(parts, tag[n + 1])
  OBVIOUS
<1>5. new = [parts EXCEPT ![L].modifiers = Append(@, w)]
  BY <1>1, <1>2, <1>4 DEF addToken, Attached
<1>6. parts[L] \in Parts
  BY <1>1, ElementOfSeq
<1>7. [parts[L] EXCEPT !.modifiers = Append(@, w)] \in Parts
  <2>1. Append(parts[L].modifiers, w) \in Seq(STRING)
    BY <1>3, <1>6, AppendProperties DEF Parts
  <2>. QED
    BY <1>6, <2>1 DEF Parts
<1>8. new \in Seq(Parts) /\ Len(new) = L /\ DOMAIN new = 1..L
  <2>1. new = [parts EXCEPT ![L] = [parts[L] EXCEPT !.modifiers = Append(@, w)]]
    BY <1>5
  <2>. QED
    BY <1>1, <1>7, <2>1, ExceptSeq
<1>9. new[L].head = parts[L].head /\ new[L].modifiers = Append(parts[L].modifiers, w)
  BY <1>1, <1>5, <1>6 DEF Parts
<1>10. \A p \in 1..L : p # L => new[p] = parts[p]
  BY <1>1, <1>5
<1>11. owner(tag, n + 1) = pos[L]
  BY <1>1, LastOpens
<1>12. pos \in [1..Len(new) -> 1..n + 1]
  BY <1>1, <1>8 DEF SplitAt
<1>13. \A p, q \in 1..Len(new) : p < q => pos[p] < pos[q]
  BY <1>1, <1>8 DEF SplitAt
<1>14. \A p \in 1..Len(new) : new[p].head = tag[pos[p]] /\ owner(tag, pos[p]) = 0
  <2>1. \A p \in 1..L : new[p].head = parts[p].head
    BY <1>9, <1>10
  <2>. QED
    BY <1>1, <1>8, <2>1 DEF SplitAt
<1>15. \A i \in 1..n + 1 : i \in 1..n \/ i = n + 1
  OBVIOUS
<1>16. pos[L] # 0
  BY <1>1 DEF SplitAt
<1>17. \A i \in 1..n + 1 : owner(tag, i) = 0 => \E p \in 1..Len(new) : pos[p] = i
  BY <1>1, <1>8, <1>11, <1>15, <1>16 DEF SplitAt
<1>18. ASSUME NEW p \in 1..Len(new) PROVE ModifiersOf(new[p].modifiers, pos[p], tag, n + 1)
  <2>. SUFFICES ASSUME NEW k
                PROVE  k \in Range(new[p].modifiers) <=> \E i \in 1..n + 1 : owner(tag, i) = pos[p] /\ tag[i].k = k
    BY DEF ModifiersOf
  <2>1. p \in 1..L
    BY <1>8
  <2>0. ModifiersOf(parts[p].modifiers, pos[p], tag, n)
    BY <1>1, <2>1 DEF SplitAt
  <2>2. k \in Range(parts[p].modifiers) <=> \E i \in 1..n : owner(tag, i) = pos[p] /\ tag[i].k = k
    BY <2>0, Zenon DEF ModifiersOf
  <2>3. (\E i \in 1..n + 1 : owner(tag, i) = pos[p] /\ tag[i].k = k)
           <=> \/ \E i \in 1..n : owner(tag, i) = pos[p] /\ tag[i].k = k
               \/ owner(tag, n + 1) = pos[p] /\ tag[n + 1].k = k
    BY <1>15
  <2>4. CASE p = L
    <3>1. k \in Range(new[p].modifiers) <=> k = w \/ k \in Range(parts[p].modifiers)
      <4>1. parts[L].modifiers \in Seq(STRING)
        BY <1>6 DEF Parts
      <4>2. \A x : x \in Range(Append(parts[L].modifiers, w)) <=> x = w \/ x \in Range(parts[L].modifiers)
        BY <1>3, <4>1, RangeOfAppend
      <4>3. k \in Range(Append(parts[L].modifiers, w)) <=> k = w \/ k \in Range(parts[L].modifiers)
        BY <4>2, Zenon
      <4>. QED
        BY <1>9, <2>4, <4>3
    <3>. QED
      BY <1>2, <1>11, <2>2, <2>3, <2>4, <3>1
  <2>5. CASE p # L
    <3>1. pos[p] # pos[L]
      <4>1. p < L
        BY <2>1, <2>5
      <4>2. pos[p] < pos[L] /\ pos[p] \in 1..n /\ pos[L] \in 1..n
        BY <1>1, <2>1, <4>1 DEF SplitAt
      <4>. QED
        BY <4>2
    <3>. QED
      BY <1>10, <1>11, <2>1, <2>2, <2>3, <2>5, <3>1
  <2>. QED
    BY <2>4, <2>5
<1>. QED
  BY <1>4, <1>8, <1>12, <1>13, <1>14, <1>17, <1>18 DEF SplitAt

\* Any other token opens a part.
LEMMA OpenedStep ==
    ASSUME NEW tag \in Seq(Tokens), NEW n \in Nat, n < Len(tag), NEW parts, NEW pos,
           SplitAt(parts, pos, tag, n), ~Attached(parts, tag[n + 1])
    PROVE  \E pos2 : SplitAt(addToken(parts, tag[n + 1]), pos2, tag, n + 1)
<1>1. PICK L \in Nat : L = Len(parts) /\ parts \in Seq(Parts) /\ DOMAIN parts = 1..L
  BY LenProperties DEF SplitAt
<1>2. PICK t \in Tokens : t = tag[n + 1]
  <2>1. n + 1 \in 1..Len(tag)
    BY LenProperties
  <2>. QED
    BY <2>1, ElementOfSeq
<1>3. PICK new : new = addToken(parts, tag[n + 1])
  OBVIOUS
<1>4. PICK part : part = [head |-> t, modifiers |-> <<>>]
  OBVIOUS
<1>5. new = Append(parts, part)
  BY <1>2, <1>3, <1>4 DEF addToken, Attached
<1>6. part \in Parts /\ part.head = t /\ part.modifiers = <<>>
  <2>1. <<>> \in Seq(STRING)
    OBVIOUS
  <2>. QED
    BY <1>4, <2>1 DEF Parts
<1>7. new \in Seq(Parts) /\ Len(new) = L + 1
  BY <1>1, <1>5, <1>6, AppendProperties
<1>8. (\A p \in 1..L : new[p] = parts[p]) /\ new[L + 1] = part
  BY <1>1, <1>5, <1>6, AppendProperties
<1>. DEFINE pos2 == [p \in 1..L + 1 |-> IF p <= L THEN pos[p] ELSE n + 1]
<1>9. (\A p \in 1..L : pos2[p] = pos[p] /\ pos[p] \in 1..n) /\ pos2[L + 1] = n + 1
  <2>1. pos \in [1..L -> 1..n]
    BY <1>1 DEF SplitAt
  <2>. QED
    BY <2>1
<1>91. pos2 = [p \in 1..L + 1 |-> pos2[p]]
  OBVIOUS
<1>. HIDE DEF pos2
<1>10. \A p \in 1..L + 1 : p \in 1..L \/ p = L + 1
  OBVIOUS
<1>11. pos2 \in [1..Len(new) -> 1..n + 1]
  <2>1. \A p \in 1..L + 1 : pos2[p] \in 1..n + 1
    BY <1>9, <1>10
  <2>. QED
    BY <1>7, <1>91, <2>1
<1>12. \A p, q \in 1..Len(new) : p < q => pos2[p] < pos2[q]
  <2>. SUFFICES ASSUME NEW p \in 1..L + 1, NEW q \in 1..L + 1, p < q
                PROVE  pos2[p] < pos2[q]
    BY <1>7
  <2>1. p \in 1..L
    OBVIOUS
  <2>2. CASE q \in 1..L
    <3>1. pos[p] < pos[q]
      BY <1>1, <2>1, <2>2 DEF SplitAt
    <3>. QED
      BY <1>9, <2>1, <2>2, <3>1
  <2>3. CASE q = L + 1
    BY <1>9, <2>1, <2>3
  <2>. QED
    BY <1>10, <2>2, <2>3
<1>13. owner(tag, n + 1) = 0
  BY NoneOpens
<1>14. \A p \in 1..Len(new) : new[p].head = tag[pos2[p]] /\ owner(tag, pos2[p]) = 0
  <2>1. \A p \in 1..L : parts[p].head = tag[pos[p]] /\ owner(tag, pos[p]) = 0
    BY <1>1 DEF SplitAt
  <2>. QED
    BY <1>2, <1>6, <1>7, <1>8, <1>9, <1>10, <1>13, <2>1
<1>15. \A i \in 1..n + 1 : i \in 1..n \/ i = n + 1
  OBVIOUS
<1>16. ASSUME NEW i \in 1..n + 1, owner(tag, i) = 0 PROVE \E p \in 1..Len(new) : pos2[p] = i
  <2>1. L + 1 \in 1..Len(new) /\ \A p \in 1..L : p \in 1..Len(new)
    BY <1>7
  <2>2. CASE i = n + 1
    BY <1>9, <2>1, <2>2
  <2>3. CASE i \in 1..n
    <3>1. PICK p \in 1..L : pos[p] = i
      BY <1>1, <1>16, <2>3 DEF SplitAt
    <3>. QED
      BY <1>9, <2>1, <3>1
  <2>. QED
    BY <1>15, <2>2, <2>3
<1>17. ASSUME NEW p \in 1..Len(new) PROVE ModifiersOf(new[p].modifiers, pos2[p], tag, n + 1)
  <2>. SUFFICES ASSUME NEW k
                PROVE  k \in Range(new[p].modifiers) <=> \E i \in 1..n + 1 : owner(tag, i) = pos2[p] /\ tag[i].k = k
    BY DEF ModifiersOf
  <2>1. CASE p \in 1..L
    <3>0. ModifiersOf(parts[p].modifiers, pos[p], tag, n)
      BY <1>1, <2>1 DEF SplitAt
    <3>1. k \in Range(parts[p].modifiers) <=> \E i \in 1..n : owner(tag, i) = pos[p] /\ tag[i].k = k
      BY <3>0, Zenon DEF ModifiersOf
    <3>2. owner(tag, n + 1) # pos[p]
      BY <1>9, <1>13, <2>1
    <3>3. (\E i \in 1..n + 1 : owner(tag, i) = pos[p] /\ tag[i].k = k)
             <=> \E i \in 1..n : owner(tag, i) = pos[p] /\ tag[i].k = k
      BY <1>15, <3>2
    <3>. QED
      BY <1>8, <1>9, <2>1, <3>1, <3>3
  <2>2. CASE p = L + 1
    <3>1. k \notin Range(new[p].modifiers)
      <4>1. DOMAIN <<>> = {}
        OBVIOUS
      <4>. QED
        BY <1>6, <1>8, <2>2, <4>1 DEF Range
    <3>2. ASSUME NEW i \in 1..n + 1, owner(tag, i) = n + 1 PROVE FALSE
      <4>1. Opens(tag, n + 1, i)
        BY <3>2, OwnerIsOne
      <4>. QED
        BY <4>1 DEF Opens
    <3>. QED
      BY <1>9, <2>2, <3>1, <3>2
  <2>. QED
    BY <1>7, <1>10, <2>1, <2>2
<1>18. SplitAt(new, pos2, tag, n + 1)
  BY <1>7, <1>11, <1>12, <1>14, <1>16, <1>17 DEF SplitAt
<1>. QED
  BY <1>3, <1>18

\* f is the parts after each of the first n tokens.
Splits(f, tag, n) == f = [i \in 0..n |-> IF i = 0 THEN <<>> ELSE addToken(f[i - 1], tag[i])]

\* The recursion of splitTags defines a function.
LEMMA SplitsExists ==
    ASSUME NEW tag, NEW N \in Nat
    PROVE  \E f : Splits(f, tag, N)
<1>. DEFINE S == {n \in Nat : \E f : Splits(f, tag, n)}
<1>1. 0 \in S
  <2>1. Splits([i \in 0..0 |-> <<>>], tag, 0)
    BY DEF Splits
  <2>. QED
    BY <2>1
<1>2. ASSUME NEW n \in 0..N - 1, n \in S PROVE n + 1 \in S
  <2>1. PICK g : Splits(g, tag, n)
    BY <1>2
  <2>. DEFINE f == [i \in 0..n + 1 |-> IF i <= n THEN g[i] ELSE addToken(g[n], tag[n + 1])]
  <2>2. \A i \in 0..n : f[i] = g[i]
    OBVIOUS
  <2>3. \A i \in 0..n : g[i] = IF i = 0 THEN <<>> ELSE addToken(g[i - 1], tag[i])
    BY <2>1 DEF Splits
  <2>4. ASSUME NEW i \in 0..n + 1
        PROVE  f[i] = IF i = 0 THEN <<>> ELSE addToken(f[i - 1], tag[i])
    <3>1. CASE i = n + 1
      <4>1. f[i] = addToken(g[n], tag[n + 1]) /\ i # 0
        BY <3>1
      <4>2. f[i - 1] = g[n]
        BY <2>2, <3>1
      <4>. QED
        BY <3>1, <4>1, <4>2
    <3>2. CASE i = 0
      BY <2>2, <2>3, <3>2
    <3>3. CASE i # n + 1 /\ i # 0
      <4>1. i \in 0..n /\ i - 1 \in 0..n
        BY <3>3
      <4>. QED
        BY <2>2, <2>3, <3>3, <4>1
    <3>. QED
      BY <3>1, <3>2, <3>3
  <2>5. f = [i \in 0..n + 1 |-> IF i = 0 THEN <<>> ELSE addToken(f[i - 1], tag[i])]
    BY <2>4
  <2>6. Splits(f, tag, n + 1)
    BY <2>5 DEF Splits
  <2>. QED
    BY <2>6
<1>3. N \in S
  <2>. HIDE DEF S
  <2>. QED
    BY <1>1, <1>2, Climb
<1>. QED
  BY <1>3

\* splitTags, token after token.
LEMMA SplitsIs ==
    ASSUME NEW tag, Len(tag) \in Nat
    PROVE  \E f : /\ splitTags(tag) = f[Len(tag)]
                 /\ f[0] = <<>>
                 /\ \A n \in 0..Len(tag) - 1 : f[n + 1] = addToken(f[n], tag[n + 1])
<1>1. PICK f : f = CHOOSE g : Splits(g, tag, Len(tag))
  OBVIOUS
<1>2. Splits(f, tag, Len(tag))
  BY <1>1, SplitsExists, Zenon
<1>3. splitTags(tag) = f[Len(tag)]
  BY <1>1, Zenon DEF splitTags, Splits
<1>4. \A i \in 0..Len(tag) : f[i] = IF i = 0 THEN <<>> ELSE addToken(f[i - 1], tag[i])
  BY <1>2 DEF Splits
<1>5. f[0] = <<>>
  BY <1>4
<1>6. ASSUME NEW n \in 0..Len(tag) - 1 PROVE f[n + 1] = addToken(f[n], tag[n + 1])
  <2>1. n + 1 \in 0..Len(tag) /\ n + 1 # 0 /\ (n + 1) - 1 = n
    OBVIOUS
  <2>. QED
    BY <1>4, <2>1
<1>. QED
  BY <1>3, <1>5, <1>6

\* f is the field after each of the first n parts.
Tags(f, start, parts, n) == f = [i \in 0..n |-> IF i = 0 THEN start ELSE applyTagPart(f[i - 1], parts[i])]

\* The recursion of parseDynamormTag defines a function.
LEMMA TagsExists ==
    ASSUME NEW start, NEW parts, NEW N \in Nat
    PROVE  \E f : Tags(f, start, parts, N)
<1>. DEFINE S == {n \in Nat : \E f : Tags(f, start, parts, n)}
<1>1. 0 \in S
  <2>1. Tags([i \in 0..0 |-> start], start, parts, 0)
    BY DEF Tags
  <2>. QED
    BY <2>1
<1>2. ASSUME NEW n \in 0..N - 1, n \in S PROVE n + 1 \in S
  <2>1. PICK g : Tags(g, start, parts, n)
    BY <1>2
  <2>. DEFINE f == [i \in 0..n + 1 |-> IF i <= n THEN g[i] ELSE applyTagPart(g[n], parts[n + 1])]
  <2>2. \A i \in 0..n : f[i] = g[i]
    OBVIOUS
  <2>3. \A i \in 0..n : g[i] = IF i = 0 THEN start ELSE applyTagPart(g[i - 1], parts[i])
    BY <2>1 DEF Tags
  <2>4. ASSUME NEW i \in 0..n + 1
        PROVE  f[i] = IF i = 0 THEN start ELSE applyTagPart(f[i - 1], parts[i])
    <3>1. CASE i = n + 1
      <4>1. f[i] = applyTagPart(g[n], parts[n + 1]) /\ i # 0
        BY <3>1
      <4>2. f[i - 1] = g[n]
        BY <2>2, <3>1
      <4>. QED
        BY <3>1, <4>1, <4>2
    <3>2. CASE i = 0
      BY <2>2, <2>3, <3>2
    <3>3. CASE i # n + 1 /\ i # 0
      <4>1. i \in 0..n /\ i - 1 \in 0..n
        BY <3>3
      <4>. QED
        BY <2>2, <2>3, <3>3, <4>1
    <3>. QED
      BY <3>1, <3>2, <3>3
  <2>5. f = [i \in 0..n + 1 |-> IF i = 0 THEN start ELSE applyTagPart(f[i - 1], parts[i])]
    BY <2>4
  <2>6. Tags(f, start, parts, n + 1)
    BY <2>5 DEF Tags
  <2>. QED
    BY <2>6
<1>3. N \in S
  <2>. HIDE DEF S
  <2>. QED
    BY <1>1, <1>2, Climb
<1>. QED
  BY <1>3

\* parseDynamormTag, part after part.
LEMMA TagsIs ==
    ASSUME NEW start, NEW parts, Len(parts) \in Nat
    PROVE  \E f : /\ parseDynamormTag(start, parts) = f[Len(parts)]
                 /\ f[0] = start
                 /\ \A n \in 0..Len(parts) - 1 : f[n + 1] = applyTagPart(f[n], parts[n + 1])
<1>1. PICK f : f = CHOOSE g : Tags(g, start, parts, Len(parts))
  OBVIOUS
<1>2. Tags(f, start, parts, Len(parts))
  BY <1>1, TagsExists, Zenon
<1>3. parseDynamormTag(start, parts) = f[Len(parts)]
  BY <1>1, Zenon DEF parseDynamormTag, Tags
<1>4. \A i \in 0..Len(parts) : f[i] = IF i = 0 THEN start ELSE applyTagPart(f[i - 1], parts[i])
  BY <1>2 DEF Tags
<1>5. f[0] = start
  BY <1>4
<1>6. ASSUME NEW n \in 0..Len(parts) - 1 PROVE f[n + 1] = applyTagPart(f[n], parts[n + 1])
  <2>1. n + 1 \in 0..Len(parts) /\ n + 1 # 0 /\ (n + 1) - 1 = n
    OBVIOUS
  <2>. QED
    BY <1>4, <2>1
<1>. QED
  BY <1>3, <1>5, <1>6

\* f is the metadata after each of the first n fields.
Parses(f, d, n) == f = [i \in 0..n |-> IF i = 0 THEN newMetadata(d) ELSE parseField(f[i - 1], d.fields[i])]

\* The recursion of parseFields defines a function.
LEMMA ParsesExists ==
    ASSUME NEW d, NEW N \in Nat
    PROVE  \E f : Parses(f, d, N)
<1>. DEFINE S == {n \in Nat : \E f : Parses(f, d, n)}
<1>1. 0 \in S
  <2>1. Parses([i \in 0..0 |-> newMetadata(d)], d, 0)
    BY DEF Parses
  <2>. QED
    BY <2>1
<1>2. ASSUME NEW n \in 0..N - 1, n \in S PROVE n + 1 \in S
  <2>1. PICK g : Parses(g, d, n)
    BY <1>2
  <2>. DEFINE f == [i \in 0..n + 1 |-> IF i <= n THEN g[i] ELSE parseField(g[n], d.fields[n + 1])]
  <2>2. \A i \in 0..n : f[i] = g[i]
    OBVIOUS
  <2>3. \A i \in 0..n : g[i] = IF i = 0 THEN newMetadata(d) ELSE parseField(g[i - 1], d.fields[i])
    BY <2>1 DEF Parses
  <2>4. ASSUME NEW i \in 0..n + 1
        PROVE  f[i] = IF i = 0 THEN newMetadata(d) ELSE parseField(f[i - 1], d.fields[i])
    <3>1. CASE i = n + 1
      <4>1. f[i] = parseField(g[n], d.fields[n + 1]) /\ i # 0
        BY <3>1
      <4>2. f[i - 1] = g[n]
        BY <2>2, <3>1
      <4>. QED
        BY <3>1, <4>1, <4>2
    <3>2. CASE i = 0
      BY <2>2, <2>3, <3>2
    <3>3. CASE i # n + 1 /\ i # 0
      <4>1. i \in 0..n /\ i - 1 \in 0..n
        BY <3>3
      <4>. QED
        BY <2>2, <2>3, <3>3, <4>1
    <3>. QED
      BY <3>1, <3>2, <3>3
  <2>5. f = [i \in 0..n + 1 |-> IF i = 0 THEN newMetadata(d) ELSE parseField(f[i - 1], d.fields[i])]
    BY <2>4
  <2>6. Parses(f, d, n + 1)
    BY <2>5 DEF Parses
  <2>. QED
    BY <2>6
<1>3. N \in S
  <2>. HIDE DEF S
  <2>. QED
    BY <1>1, <1>2, Climb
<1>. QED
  BY <1>3

\* parseFields, field after field.
LEMMA ParsesIs ==
    ASSUME NEW d, Len(d.fields) \in Nat
    PROVE  \E f : /\ parseFields(d) = f[Len(d.fields)]
                 /\ f[0] = newMetadata(d)
                 /\ \A n \in 0..Len(d.fields) - 1 : f[n + 1] = parseField(f[n], d.fields[n + 1])
<1>1. PICK f : f = CHOOSE g : Parses(g, d, Len(d.fields))
  OBVIOUS
<1>2. Parses(f, d, Len(d.fields))
  BY <1>1, ParsesExists, Zenon
<1>3. parseFields(d) = f[Len(d.fields)]
  BY <1>1, Zenon DEF parseFields, Parses
<1>4. \A i \in 0..Len(d.fields) : f[i] = IF i = 0 THEN newMetadata(d) ELSE parseField(f[i - 1], d.fields[i])
  BY <1>2 DEF Parses
<1>5. f[0] = newMetadata(d)
  BY <1>4
<1>6. ASSUME NEW n \in 0..Len(d.fields) - 1 PROVE f[n + 1] = parseField(f[n], d.fields[n + 1])
  <2>1. n + 1 \in 0..Len(d.fields) /\ n + 1 # 0 /\ (n + 1) - 1 = n
    OBVIOUS
  <2>. QED
    BY <1>4, <2>1
<1>. QED
  BY <1>3, <1>5, <1>6

\* splitTags gives every modifier to the clause that owns it.
LEMMA SplitMeans ==
    ASSUME NEW tag \in Seq(Tokens)
    PROVE  \E pos : SplitAt(splitTags(tag), pos, tag, Len(tag))
<1>1. Len(tag) \in Nat
  BY LenProperties
<1>2. PICK f : /\ splitTags(tag) = f[Len(tag)]
               /\ f[0] = <<>>
               /\ \A n \in 0..Len(tag) - 1 : f[n + 1] = addToken(f[n], tag[n + 1])
  BY <1>1, SplitsIs
<1>. DEFINE S == {n \in Nat : \E pos : SplitAt(f[n], pos, tag, n)}
<1>3. 0 \in S
  <2>1. <<>> \in Seq(Parts) /\ Len(<<>>) = 0 /\ 1..0 = {}
    OBVIOUS
  <2>2. <<>> \in [1..0 -> 1..0]
    BY <2>1
  <2>3. SplitAt(<<>>, <<>>, tag, 0)
    BY <2>1, <2>2 DEF SplitAt
  <2>. QED
    BY <1>2, <2>3
<1>4. ASSUME NEW n \in 0..Len(tag) - 1, n \in S PROVE n + 1 \in S
  <2>1. PICK pos : SplitAt(f[n], pos, tag, n)
    BY <1>4
  <2>2. n \in Nat /\ n < Len(tag) /\ n + 1 \in Nat
    BY <1>1
  <2>3. f[n + 1] = addToken(f[n], tag[n + 1])
    BY <1>2
  <2>4. \E pos2 : SplitAt(addToken(f[n], tag[n + 1]), pos2, tag, n + 1)
    BY <2>1, <2>2, AttachedStep, OpenedStep
  <2>. QED
    BY <2>2, <2>3, <2>4
<1>5. Len(tag) \in S
  <2>. HIDE DEF S
  <2>. QED
    BY <1>1, <1>3, <1>4, Climb
<1>. QED
  BY <1>2, <1>5

(***************************************************************************)
(* What the parts of a tag make of a field.                                *)
(***************************************************************************)
Roles == [pk : BOOLEAN, sk : BOOLEAN]

Maps(D, R) == UNION {[S -> R] : S \in SUBSET D}
RoleMaps == Maps(STRING, Roles)

Flags == STRING \cup {"created_at", "updated_at"}

FieldRecords ==
    [name : STRING, type : STRING, flags : SUBSET Flags, roles : RoleMaps, lsi : SUBSET STRING, err : BOOLEAN]

\* The functions of Maps.
LEMMA MapsAre ==
    ASSUME NEW D, NEW R, NEW f
    PROVE  f \in Maps(D, R) <=>
             /\ f = [x \in DOMAIN f |-> f[x]]
             /\ DOMAIN f \subseteq D
             /\ \A x \in DOMAIN f : f[x] \in R
BY DEF Maps

\* The roles of a field.
LEMMA RoleMapsAre ==
    ASSUME NEW r
    PROVE  r \in RoleMaps <=>
             /\ r = [x \in DOMAIN r |-> r[x]]
             /\ DOMAIN r \subseteq STRING
             /\ \A x \in DOMAIN r : r[x] \in Roles
BY MapsAre DEF RoleMaps

\* The role an index clause gives its field.
RoleOf(part) ==
    IF part.head.k = "lsi" THEN [pk |-> FALSE, sk |-> TRUE]
    ELSE IF part.modifiers = <<>> THEN [pk |-> TRUE, sk |-> FALSE] ELSE Role(part.modifiers)

\* A clause gives a role.
LEMMA RoleTypes == \A part : RoleOf(part) \in Roles
BY DEF RoleOf, Role, Roles

KeyFlags == {"pk", "sk", "encrypted"}

NamesIndex(part, name) == IndexClause(part.head) /\ part.head.name = name

FlagsAre(flags, parts, n) ==
    \A k \in KeyFlags : k \in flags <=> \E p \in 1..n : parts[p].head.k = k

RolesAre(roles, parts, n) ==
    \A name \in STRING : name \in DOMAIN roles <=> \E p \in 1..n : NamesIndex(parts[p], name)

LastCounts(roles, parts, n) ==
    \A p \in 1..n : \A name \in STRING :
        (NamesIndex(parts[p], name) /\ \A q \in p + 1..n : ~NamesIndex(parts[q], name)) =>
            roles[name] = RoleOf(parts[p])

LocalAre(lsi, parts, n) ==
    \A name \in STRING : name \in lsi <=> \E p \in 1..n : parts[p].head.k = "lsi" /\ parts[p].head.name = name

Tagged(meta, f, parts, n) ==
    /\ meta \in FieldRecords
    /\ meta.name = f.name
    /\ ~meta.err => /\ FlagsAre(meta.flags, parts, n)
                    /\ RolesAre(meta.roles, parts, n)
                    /\ LastCounts(meta.roles, parts, n)
                    /\ LocalAre(meta.lsi, parts, n)

\* What one more part adds.
LEMMA OneMore ==
    ASSUME NEW n \in Nat
    PROVE  /\ n + 1 \in 1..n + 1
           /\ \A p \in 1..n + 1 : p \in 1..n \/ p = n + 1
           /\ \A p \in 1..n : p \in 1..n + 1 /\ n + 1 \in p + 1..n + 1 /\ \A q \in p + 1..n : q \in p + 1..n + 1
<1>1. n + 1 \in 1..n + 1
  OBVIOUS
<1>2. \A p \in 1..n + 1 : p \in 1..n \/ p = n + 1
  OBVIOUS
<1>3. ASSUME NEW p \in 1..n PROVE p \in 1..n + 1 /\ n + 1 \in p + 1..n + 1
  OBVIOUS
<1>4. ASSUME NEW p \in 1..n, NEW q \in p + 1..n PROVE q \in p + 1..n + 1
  OBVIOUS
<1>. QED
  BY <1>1, <1>2, <1>3, <1>4

\* A role put into those of a field.
LEMMA RolePut ==
    ASSUME NEW roles \in RoleMaps, NEW name \in STRING, NEW role \in Roles
    PROVE  /\ put(roles, name, role) \in RoleMaps
           /\ DOMAIN put(roles, name, role) = DOMAIN roles \cup {name}
           /\ put(roles, name, role)[name] = role
           /\ \A x \in DOMAIN roles : x # name => put(roles, name, role)[x] = roles[x]
<1>1. /\ DOMAIN put(roles, name, role) = DOMAIN roles \cup {name}
      /\ put(roles, name, role)[name] = role
      /\ \A x \in DOMAIN roles : x # name => put(roles, name, role)[x] = roles[x]
  BY DEF put
<1>2. put(roles, name, role) = [x \in DOMAIN put(roles, name, role) |-> put(roles, name, role)[x]]
  BY DEF put
<1>3. \A x \in DOMAIN put(roles, name, role) : put(roles, name, role)[x] \in Roles
  BY <1>1, RoleMapsAre
<1>4. DOMAIN put(roles, name, role) \subseteq STRING
  BY <1>1, RoleMapsAre
<1>. QED
  BY <1>1, <1>2, <1>3, <1>4, RoleMapsAre

\* An index clause puts its role into the field.
ClausePut(meta, meta2, part) ==
    /\ meta2 \in FieldRecords
    /\ meta2.name = meta.name /\ meta2.flags = meta.flags /\ meta2.err = meta.err
    /\ meta2.roles = put(meta.roles, part.head.name, RoleOf(part))
    /\ meta2.lsi = IF part.head.k = "lsi" THEN meta.lsi \cup {part.head.name} ELSE meta.lsi

\* An index clause puts its role, or is an error.
LEMMA ClauseIs ==
    ASSUME NEW meta \in FieldRecords, ~meta.err, NEW part \in Parts, IndexClause(part.head)
    PROVE  LET meta2 == applyTagPart(meta, part)
           IN  \/ ClausePut(meta, meta2, part)
               \/ meta2 \in FieldRecords /\ meta2.name = meta.name /\ meta2.err
<1>1. part.head.name \in STRING /\ part.head.k \in {"index", "lsi"}
  BY DEF Parts, Tokens, IndexClause
<1>2. put(meta.roles, part.head.name, RoleOf(part)) \in RoleMaps
  BY <1>1, RoleTypes, RolePut DEF FieldRecords
<1>3. CASE part.head.k = "index"
  <2>1. applyTagPart(meta, part) = [meta EXCEPT !.roles = put(meta.roles, part.head.name, RoleOf(part))]
    BY <1>3 DEF applyTagPart, parseIndexTag, RoleOf, IndexClause
  <2>. QED
    BY <1>2, <1>3, <2>1 DEF FieldRecords, ClausePut
<1>4. CASE part.head.k = "lsi"
  <2>1. applyTagPart(meta, part) = parseLSITag(meta, part)
    BY <1>4 DEF applyTagPart, IndexClause
  <2>2. CASE \A i \in 1..Len(part.modifiers) : part.modifiers[i] = "sk"
    <3>1. applyTagPart(meta, part) = [meta EXCEPT !.roles = put(meta.roles, part.head.name, RoleOf(part)),
                                                  !.lsi = meta.lsi \cup {part.head.name}]
      BY <1>4, <2>1, <2>2 DEF parseLSITag, RoleOf
    <3>2. meta.lsi \cup {part.head.name} \in SUBSET STRING
      BY <1>1 DEF FieldRecords
    <3>. QED
      BY <1>2, <1>4, <3>1, <3>2 DEF FieldRecords, ClausePut
  <2>3. CASE ~\A i \in 1..Len(part.modifiers) : part.modifiers[i] = "sk"
    <3>1. applyTagPart(meta, part) = [meta EXCEPT !.err = TRUE]
      BY <2>1, <2>3 DEF parseLSITag
    <3>. QED
      BY <3>1 DEF FieldRecords
  <2>. QED
    BY <2>2, <2>3
<1>. QED
  BY <1>1, <1>3, <1>4

\* The first n + 1 parts, seen from the first n.
LEMMA ClauseStep ==
    ASSUME NEW f, NEW parts \in Seq(Parts), NEW n \in Nat, n + 1 \in 1..Len(parts), NEW meta, NEW meta2,
           Tagged(meta, f, parts, n), ~meta.err, IndexClause(parts[n + 1].head),
           ClausePut(meta, meta2, parts[n + 1])
    PROVE  Tagged(meta2, f, parts, n + 1)
<1>1. PICK part \in Parts : part = parts[n + 1]
  BY ElementOfSeq
<1>2. PICK name \in STRING : name = part.head.name
  BY <1>1 DEF Parts, Tokens
<1>3. part.head.k \in {"index", "lsi"} /\ NamesIndex(part, name)
  BY <1>1, <1>2 DEF IndexClause, NamesIndex
<1>4. /\ FlagsAre(meta.flags, parts, n) /\ RolesAre(meta.roles, parts, n)
      /\ LastCounts(meta.roles, parts, n) /\ LocalAre(meta.lsi, parts, n)
  BY DEF Tagged
<1>5. /\ DOMAIN meta2.roles = DOMAIN meta.roles \cup {name}
      /\ meta2.roles[name] = RoleOf(part)
      /\ \A x \in DOMAIN meta.roles : x # name => meta2.roles[x] = meta.roles[x]
  <2>1. meta.roles \in RoleMaps
    BY DEF Tagged, FieldRecords
  <2>2. meta2.roles = put(meta.roles, name, RoleOf(part))
    BY <1>1, <1>2 DEF ClausePut
  <2>3. RoleOf(part) \in Roles
    BY RoleTypes, Zenon
  <2>4. /\ DOMAIN put(meta.roles, name, RoleOf(part)) = DOMAIN meta.roles \cup {name}
        /\ put(meta.roles, name, RoleOf(part))[name] = RoleOf(part)
        /\ \A x \in DOMAIN meta.roles : x # name => put(meta.roles, name, RoleOf(part))[x] = meta.roles[x]
    BY <2>1, <2>3, RolePut, Zenon
  <2>. QED
    BY <2>2, <2>4, Zenon
<1>6. FlagsAre(meta2.flags, parts, n + 1)
  <2>1. \A k \in KeyFlags : part.head.k # k
    BY <1>3 DEF KeyFlags
  <2>2. meta2.flags = meta.flags
    BY DEF ClausePut
  <2>. QED
    BY <1>1, <1>4, <2>1, <2>2, OneMore DEF FlagsAre
<1>7. RolesAre(meta2.roles, parts, n + 1)
  <2>. SUFFICES ASSUME NEW x \in STRING
                PROVE  x \in DOMAIN meta2.roles <=> \E p \in 1..n + 1 : NamesIndex(parts[p], x)
    BY DEF RolesAre
  <2>1. x \in DOMAIN meta.roles <=> \E p \in 1..n : NamesIndex(parts[p], x)
    BY <1>4 DEF RolesAre
  <2>2. NamesIndex(part, x) <=> x = name
    BY <1>2, <1>3 DEF NamesIndex
  <2>. QED
    BY <1>1, <1>5, <2>1, <2>2, OneMore
<1>8. LastCounts(meta2.roles, parts, n + 1)
  <2>. SUFFICES ASSUME NEW p \in 1..n + 1, NEW x \in STRING, NamesIndex(parts[p], x),
                       \A q \in p + 1..n + 1 : ~NamesIndex(parts[q], x)
                PROVE  meta2.roles[x] = RoleOf(parts[p])
    BY DEF LastCounts
  <2>1. CASE p = n + 1
    <3>1. x = name
      BY <1>1, <1>2, <2>1 DEF NamesIndex
    <3>. QED
      BY <1>1, <1>5, <2>1, <3>1
  <2>2. CASE p \in 1..n
    <3>1. ~NamesIndex(part, x)
      BY <1>1, <2>2, OneMore
    <3>2. x # name
      BY <1>3, <3>1
    <3>3. \A q \in p + 1..n : ~NamesIndex(parts[q], x)
      BY <2>2, OneMore
    <3>4. meta.roles[x] = RoleOf(parts[p])
      BY <1>4, <2>2, <3>3 DEF LastCounts
    <3>5. x \in DOMAIN meta.roles
      BY <1>4, <2>2 DEF RolesAre
    <3>. QED
      BY <1>5, <3>2, <3>4, <3>5
  <2>. QED
    BY <2>1, <2>2, OneMore
<1>9. LocalAre(meta2.lsi, parts, n + 1)
  <2>. SUFFICES ASSUME NEW x \in STRING
                PROVE  x \in meta2.lsi <=> \E p \in 1..n + 1 : parts[p].head.k = "lsi" /\ parts[p].head.name = x
    BY DEF LocalAre
  <2>1. x \in meta.lsi <=> \E p \in 1..n : parts[p].head.k = "lsi" /\ parts[p].head.name = x
    BY <1>4 DEF LocalAre
  <2>2. x \in meta2.lsi <=> x \in meta.lsi \/ (part.head.k = "lsi" /\ part.head.name = x)
    BY <1>1 DEF ClausePut
  <2>. QED
    BY <1>1, <2>1, <2>2, OneMore
<1>10. meta2 \in FieldRecords /\ meta2.name = f.name
  BY DEF ClausePut, Tagged
<1>. QED
  BY <1>6, <1>7, <1>8, <1>9, <1>10 DEF Tagged

\* A tag of the field itself.
LEMMA SimpleStep ==
    ASSUME NEW f, NEW parts \in Seq(Parts), NEW n \in Nat, n + 1 \in 1..Len(parts), NEW meta,
           Tagged(meta, f, parts, n), ~meta.err, ~IndexClause(parts[n + 1].head)
    PROVE  Tagged(applyTagPart(meta, parts[n + 1]), f, parts, n + 1)
<1>1. PICK part \in Parts : part = parts[n + 1]
  BY ElementOfSeq
<1>2. PICK k \in STRING : k = part.head.k /\ k \notin {"index", "lsi"}
  BY <1>1 DEF Parts, Tokens, IndexClause
<1>3. PICK meta2 : meta2 = applyTagPart(meta, parts[n + 1])
  OBVIOUS
<1>4. meta2 = applySimpleTag(meta, k)
  BY <1>1, <1>2, <1>3 DEF applyTagPart, IndexClause
<1>5. meta \in FieldRecords /\ meta.name = f.name
  BY DEF Tagged
<1>6. CASE k \notin SimpleTags
  <2>1. meta2 = [meta EXCEPT !.err = TRUE]
    BY <1>4, <1>6 DEF applySimpleTag
  <2>2. meta2 \in FieldRecords /\ meta2.name = f.name /\ meta2.err
    BY <1>5, <2>1 DEF FieldRecords
  <2>. QED
    BY <1>3, <2>2 DEF Tagged
<1>7. CASE k \in SimpleTags
  <2>1. meta2 = [meta EXCEPT !.flags = meta.flags \cup {k}]
    BY <1>4, <1>7 DEF applySimpleTag
  <2>2. meta.flags \cup {k} \in SUBSET Flags
    BY <1>5 DEF FieldRecords, Flags
  <2>3. /\ meta2 \in FieldRecords /\ meta2.name = f.name
        /\ meta2.flags = meta.flags \cup {k} /\ meta2.roles = meta.roles /\ meta2.lsi = meta.lsi
    BY <1>5, <2>1, <2>2 DEF FieldRecords
  <2>4. /\ FlagsAre(meta.flags, parts, n) /\ RolesAre(meta.roles, parts, n)
        /\ LastCounts(meta.roles, parts, n) /\ LocalAre(meta.lsi, parts, n)
    BY DEF Tagged
  <2>5. FlagsAre(meta2.flags, parts, n + 1)
    BY <1>1, <1>2, <2>3, <2>4, OneMore DEF FlagsAre
  <2>6. \A x \in STRING : ~NamesIndex(parts[n + 1], x)
    BY DEF NamesIndex
  <2>7. RolesAre(meta2.roles, parts, n + 1)
    BY <2>3, <2>4, <2>6, OneMore DEF RolesAre
  <2>8. LastCounts(meta2.roles, parts, n + 1)
    <3>. SUFFICES ASSUME NEW p \in 1..n + 1, NEW x \in STRING, NamesIndex(parts[p], x),
                         \A q \in p + 1..n + 1 : ~NamesIndex(parts[q], x)
                  PROVE  meta2.roles[x] = RoleOf(parts[p])
      BY DEF LastCounts
    <3>1. p \in 1..n
      BY <2>6, OneMore
    <3>2. \A q \in p + 1..n : ~NamesIndex(parts[q], x)
      BY <3>1, OneMore
    <3>. QED
      BY <2>3, <2>4, <3>1, <3>2 DEF LastCounts
  <2>9. LocalAre(meta2.lsi, parts, n + 1)
    BY <1>1, <1>2, <2>3, <2>4, OneMore DEF LocalAre
  <2>. QED
    BY <1>3, <2>3, <2>5, <2>7, <2>8, <2>9 DEF Tagged
<1>. QED
  BY <1>6, <1>7

\* One more part of any kind.
LEMMA TagStep ==
    ASSUME NEW f, NEW parts \in Seq(Parts), NEW n \in Nat, n + 1 \in 1..Len(parts), NEW meta,
           Tagged(meta, f, parts, n)
    PROVE  Tagged(applyTagPart(meta, parts[n + 1]), f, parts, n + 1)
<1>1. CASE meta.err
  <2>1. applyTagPart(meta, parts[n + 1]) = meta
    BY <1>1 DEF applyTagPart
  <2>. QED
    BY <1>1, <2>1 DEF Tagged
<1>2. CASE ~meta.err /\ IndexClause(parts[n + 1].head)
  <2>1. parts[n + 1] \in Parts /\ meta \in FieldRecords
    BY ElementOfSeq DEF Tagged
  <2>2. PICK meta2 : meta2 = applyTagPart(meta, parts[n + 1])
    OBVIOUS
  <2>3. \/ ClausePut(meta, meta2, parts[n + 1])
        \/ meta2 \in FieldRecords /\ meta2.name = meta.name /\ meta2.err
    BY <1>2, <2>1, <2>2, ClauseIs
  <2>4. CASE ClausePut(meta, meta2, parts[n + 1])
    BY <1>2, <2>2, <2>4, ClauseStep
  <2>5. CASE meta2 \in FieldRecords /\ meta2.name = meta.name /\ meta2.err
    BY <2>2, <2>5 DEF Tagged
  <2>. QED
    BY <2>3, <2>4, <2>5
<1>3. CASE ~meta.err /\ ~IndexClause(parts[n + 1].head)
  BY <1>3, SimpleStep
<1>. QED
  BY <1>1, <1>2, <1>3

\* All parts of a tag.
LEMMA TagsMean ==
    ASSUME NEW f \in StructFields, NEW parts \in Seq(Parts)
    PROVE  Tagged(parseDynamormTag([NewField(f) EXCEPT !.flags = implicitTimestamp(f)], parts), f, parts, Len(parts))
<1>1. Len(parts) \in Nat
  BY LenProperties
<1>2. PICK start : start = [NewField(f) EXCEPT !.flags = implicitTimestamp(f)]
  OBVIOUS
<1>3. PICK g : /\ parseDynamormTag(start, parts) = g[Len(parts)]
               /\ g[0] = start
               /\ \A n \in 0..Len(parts) - 1 : g[n + 1] = applyTagPart(g[n], parts[n + 1])
  BY <1>1, TagsIs
<1>. DEFINE S == {n \in Nat : Tagged(g[n], f, parts, n)}
<1>4. 0 \in S
  <2>1. <<>> \in RoleMaps /\ DOMAIN <<>> = {}
    <3>1. <<>> = [x \in {} |-> {}] /\ DOMAIN <<>> = {}
      OBVIOUS
    <3>. QED
      BY <3>1, RoleMapsAre
  <2>2. implicitTimestamp(f) \in SUBSET Flags /\ \A k \in KeyFlags : k \notin implicitTimestamp(f)
    <3>1. implicitTimestamp(f) \subseteq {"created_at", "updated_at"}
      BY DEF implicitTimestamp
    <3>2. "created_at" \in Flags /\ "updated_at" \in Flags
      BY DEF Flags
    <3>3. "created_at" \notin KeyFlags /\ "updated_at" \notin KeyFlags
      BY DEF KeyFlags
    <3>. QED
      BY <3>1, <3>2, <3>3, Zenon
  <2>3. start = [name |-> f.name, type |-> f.type, flags |-> implicitTimestamp(f), roles |-> <<>>, lsi |-> {}, err |-> FALSE]
    BY <1>2 DEF NewField
  <2>4. f.name \in STRING /\ f.type \in STRING
    BY DEF StructFields
  <2>5. start \in FieldRecords
    BY <2>1, <2>2, <2>3, <2>4 DEF FieldRecords
  <2>6. /\ start.name = f.name /\ start.flags = implicitTimestamp(f)
        /\ start.roles = <<>> /\ start.lsi = {}
    BY <2>3
  <2>7. 1..0 = {}
    OBVIOUS
  <2>8. FlagsAre(start.flags, parts, 0)
    BY <2>2, <2>6, <2>7 DEF FlagsAre
  <2>9. RolesAre(start.roles, parts, 0) /\ LastCounts(start.roles, parts, 0) /\ LocalAre(start.lsi, parts, 0)
    BY <2>1, <2>6, <2>7 DEF RolesAre, LastCounts, LocalAre
  <2>10. Tagged(start, f, parts, 0)
    BY <2>5, <2>6, <2>8, <2>9 DEF Tagged
  <2>. QED
    BY <1>3, <2>10
<1>5. ASSUME NEW n \in 0..Len(parts) - 1, n \in S PROVE n + 1 \in S
  <2>1. n \in Nat /\ n + 1 \in 1..Len(parts) /\ n + 1 \in Nat
    BY <1>1
  <2>2. Tagged(g[n], f, parts, n)
    BY <1>5
  <2>3. Tagged(applyTagPart(g[n], parts[n + 1]), f, parts, n + 1)
    BY <2>1, <2>2, TagStep
  <2>. QED
    BY <1>3, <2>1, <2>3
<1>6. Len(parts) \in S
  <2>. HIDE DEF S
  <2>. QED
    BY <1>1, <1>4, <1>5, Climb
<1>. QED
  BY <1>2, <1>3, <1>6

(***************************************************************************)
(* What a field is, by its tag.                                            *)
(***************************************************************************)
FieldMeans(meta, f) ==
    /\ meta \in FieldRecords
    /\ meta.name = f.name
    /\ ~meta.err =>
          /\ \A k \in KeyFlags : k \in meta.flags <=> Says(f, k)
          /\ \A name \in STRING : name \in DOMAIN meta.roles <=> clauses(f, name) # {}
          /\ \A name \in DOMAIN meta.roles : /\ meta.roles[name].pk <=> SaysIndex(f, name, "pk")
                                             /\ meta.roles[name].sk <=> SaysIndex(f, name, "sk")
          /\ \A name \in STRING : name \in meta.lsi <=> \E j \in clauses(f, name) : f.tag[j].k = "lsi"

\* The heads of parts are the tokens that belong to no clause.
LEMMA HeadsAre ==
    ASSUME NEW tag \in Seq(Tokens), NEW parts, NEW pos, SplitAt(parts, pos, tag, Len(tag)), NEW i \in 1..Len(tag)
    PROVE  owner(tag, i) = 0 <=> \E p \in 1..Len(parts) : pos[p] = i
BY DEF SplitAt

\* The flags of a field are what its tag says of the field itself.
LEMMA FlagsMean ==
    ASSUME NEW f \in StructFields, NEW parts, NEW pos, SplitAt(parts, pos, f.tag, Len(f.tag)),
           NEW flags, FlagsAre(flags, parts, Len(parts)), NEW k \in KeyFlags
    PROVE  k \in flags <=> Says(f, k)
<1>1. f.tag \in Seq(Tokens)
  BY DEF StructFields
<1>2. pos \in [1..Len(parts) -> 1..Len(f.tag)] /\ \A p \in 1..Len(parts) : parts[p].head = f.tag[pos[p]] /\ owner(f.tag, pos[p]) = 0
  BY DEF SplitAt
<1>3. k \in flags <=> \E p \in 1..Len(parts) : parts[p].head.k = k
  BY DEF FlagsAre
<1>4. \A i \in 1..Len(f.tag) : owner(f.tag, i) = 0 => \E p \in 1..Len(parts) : pos[p] = i
  BY <1>1, HeadsAre
<1>5. ASSUME NEW p \in 1..Len(parts), parts[p].head.k = k PROVE Says(f, k)
  BY <1>2, <1>5 DEF Says
<1>6. ASSUME NEW i \in 1..Len(f.tag), f.tag[i].k = k, owner(f.tag, i) = 0
      PROVE  \E p \in 1..Len(parts) : parts[p].head.k = k
  BY <1>2, <1>4, <1>6
<1>. QED
  BY <1>3, <1>5, <1>6, Zenon DEF Says

\* The clauses for an index are the parts that name it.
LEMMA ClausesMean ==
    ASSUME NEW f \in StructFields, NEW parts, NEW pos, SplitAt(parts, pos, f.tag, Len(f.tag)),
           NEW name, NEW i
    PROVE  i \in clauses(f, name) <=> \E p \in 1..Len(parts) : pos[p] = i /\ NamesIndex(parts[p], name)
<1>1. f.tag \in Seq(Tokens) /\ Len(f.tag) \in Nat
  BY LenProperties DEF StructFields
<1>2. pos \in [1..Len(parts) -> 1..Len(f.tag)] /\ \A p \in 1..Len(parts) : parts[p].head = f.tag[pos[p]] /\ owner(f.tag, pos[p]) = 0
  BY DEF SplitAt
<1>3. ASSUME NEW p \in 1..Len(parts), pos[p] = i, NamesIndex(parts[p], name) PROVE i \in clauses(f, name)
  BY <1>2, <1>3 DEF clauses, NamesIndex
<1>4. ASSUME i \in clauses(f, name) PROVE \E p \in 1..Len(parts) : pos[p] = i /\ NamesIndex(parts[p], name)
  <2>1. i \in 1..Len(f.tag) /\ IndexClause(f.tag[i]) /\ f.tag[i].name = name
    BY <1>4 DEF clauses
  <2>2. owner(f.tag, i) = 0
    BY <1>1, <2>1, OwnNothing, ClausesAreNoModifiers
  <2>3. PICK p \in 1..Len(parts) : pos[p] = i
    BY <1>1, <2>1, <2>2, HeadsAre
  <2>. QED
    BY <1>2, <2>1, <2>3 DEF NamesIndex
<1>. QED
  BY <1>3, <1>4

\* The last clause for an index, and the modifiers that belong to it.
LEMMA LastClause ==
    ASSUME NEW f \in StructFields, NEW parts, NEW pos, SplitAt(parts, pos, f.tag, Len(f.tag)),
           NEW name \in STRING, clauses(f, name) # {}
    PROVE  \E p \in 1..Len(parts) :
              /\ NamesIndex(parts[p], name)
              /\ \A q \in p + 1..Len(parts) : ~NamesIndex(parts[q], name)
              /\ pos[p] = CHOOSE i \in clauses(f, name) : \A j \in clauses(f, name) : j <= i
<1>1. Len(f.tag) \in Nat /\ Len(parts) \in Nat
  BY LenProperties DEF StructFields, SplitAt
<1>2. pos \in [1..Len(parts) -> 1..Len(f.tag)] /\ \A p, q \in 1..Len(parts) : p < q => pos[p] < pos[q]
  BY DEF SplitAt
<1>. DEFINE N == {Len(parts) - p : p \in {p \in 1..Len(parts) : NamesIndex(parts[p], name)}}
<1>3. N # {} /\ N \subseteq Nat
  <2>1. PICK i : i \in clauses(f, name)
    OBVIOUS
  <2>2. PICK p \in 1..Len(parts) : NamesIndex(parts[p], name)
    BY <2>1, ClausesMean
  <2>. QED
    BY <1>1, <2>2
<1>4. PICK m \in N : \A k \in N : m <= k
  <2>. HIDE DEF N
  <2>. QED
    BY <1>3, Smallest
<1>5. PICK p \in 1..Len(parts) : NamesIndex(parts[p], name) /\ m = Len(parts) - p
  BY <1>4
<1>6. ASSUME NEW q \in 1..Len(parts), NamesIndex(parts[q], name) PROVE q <= p
  <2>1. Len(parts) - q \in N
    BY <1>6
  <2>2. Len(parts) - p <= Len(parts) - q
    BY <1>4, <1>5, <2>1
  <2>. QED
    BY <1>1, <2>2
<1>7. \A q \in p + 1..Len(parts) : ~NamesIndex(parts[q], name)
  <2>. SUFFICES ASSUME NEW q \in p + 1..Len(parts), NamesIndex(parts[q], name) PROVE FALSE
    OBVIOUS
  <2>1. q \in 1..Len(parts) /\ ~(q <= p)
    BY <1>1, <1>5
  <2>. QED
    BY <1>6, <2>1
<1>8. pos[p] \in clauses(f, name)
  BY <1>5, ClausesMean
<1>9. ASSUME NEW j \in clauses(f, name) PROVE j <= pos[p]
  <2>1. PICK q \in 1..Len(parts) : pos[q] = j /\ NamesIndex(parts[q], name)
    BY <1>9, ClausesMean
  <2>2. q <= p
    BY <1>6, <2>1
  <2>3. q = p \/ q < p
    BY <2>2
  <2>4. pos[p] \in Nat /\ pos[q] \in Nat
    BY <1>1, <1>2
  <2>5. q < p => pos[q] < pos[p]
    BY <1>2
  <2>. QED
    BY <2>1, <2>3, <2>4, <2>5
<1>10. clauses(f, name) \subseteq Nat
  BY <1>1 DEF clauses
<1>11. pos[p] = CHOOSE i \in clauses(f, name) : \A j \in clauses(f, name) : j <= i
  <2>1. PICK c : c = CHOOSE i \in clauses(f, name) : \A j \in clauses(f, name) : j <= i
    OBVIOUS
  <2>2. c \in clauses(f, name) /\ \A j \in clauses(f, name) : j <= c
    BY <1>8, <1>9, <2>1
  <2>3. c \in Nat /\ pos[p] \in Nat /\ c <= pos[p] /\ pos[p] <= c
    BY <1>8, <1>9, <1>10, <2>2
  <2>. QED
    BY <2>1, <2>3
<1>. QED
  BY <1>5, <1>7, <1>11

\* The role of a field in an index is what the last clause for it says.
LEMMA RoleMeans ==
    ASSUME NEW f \in StructFields, NEW parts, NEW pos, SplitAt(parts, pos, f.tag, Len(f.tag)),
           NEW roles, LastCounts(roles, parts, Len(parts)), NEW name \in STRING, clauses(f, name) # {}
    PROVE  /\ roles[name].pk <=> SaysIndex(f, name, "pk")
           /\ roles[name].sk <=> SaysIndex(f, name, "sk")
<1>1. PICK p \in 1..Len(parts) :
              /\ NamesIndex(parts[p], name)
              /\ \A q \in p + 1..Len(parts) : ~NamesIndex(parts[q], name)
              /\ pos[p] = CHOOSE i \in clauses(f, name) : \A j \in clauses(f, name) : j <= i
  BY LastClause
<1>2. roles[name] = RoleOf(parts[p])
  BY <1>1 DEF LastCounts
<1>3. PICK mods : mods = parts[p].modifiers
  OBVIOUS
<1>4. PICK own : own = {f.tag[i].k : i \in {i \in 1..Len(f.tag) : owner(f.tag, i) = pos[p]}}
  OBVIOUS
<1>5. \A k : k \in Range(mods) <=> k \in own
  <2>1. ModifiersOf(mods, pos[p], f.tag, Len(f.tag))
    BY <1>3 DEF SplitAt
  <2>. QED
    BY <1>4, <2>1, Zenon DEF ModifiersOf
<1>6. mods = <<>> <=> own = {}
  <2>1. mods \in Seq(STRING)
    <3>1. parts[p] \in Parts
      BY ElementOfSeq DEF SplitAt
    <3>. QED
      BY <1>3, <3>1 DEF Parts
  <2>2. mods = <<>> <=> Range(mods) = {}
    <3>1. DOMAIN mods = 1..Len(mods) /\ Len(mods) \in Nat
      BY <2>1, LenProperties
    <3>2. mods = <<>> <=> Len(mods) = 0
      BY <2>1, EmptySeq
    <3>3. Len(mods) = 0 <=> 1..Len(mods) = {}
      BY <3>1
    <3>. QED
      BY <3>1, <3>2, <3>3 DEF Range
  <2>3. Range(mods) = {} <=> own = {}
    BY <1>5
  <2>. QED
    BY <2>2, <2>3
<1>7. \A k : SaysIndex(f, name, k) <=> IF f.tag[pos[p]].k = "lsi" THEN k = "sk" ELSE k \in own \/ (own = {} /\ k = "pk")
  BY <1>1, <1>4, Zenon DEF SaysIndex
<1>8. parts[p].head = f.tag[pos[p]]
  BY DEF SplitAt
<1>9. CASE f.tag[pos[p]].k = "lsi"
  <2>1. roles[name] = [pk |-> FALSE, sk |-> TRUE]
    BY <1>2, <1>8, <1>9 DEF RoleOf
  <2>2. ~SaysIndex(f, name, "pk") /\ SaysIndex(f, name, "sk")
    BY <1>7, <1>9
  <2>. QED
    BY <2>1, <2>2
<1>10. CASE f.tag[pos[p]].k # "lsi" /\ own = {}
  <2>1. roles[name] = [pk |-> TRUE, sk |-> FALSE]
    BY <1>2, <1>3, <1>6, <1>8, <1>10 DEF RoleOf
  <2>2. SaysIndex(f, name, "pk") /\ ~SaysIndex(f, name, "sk")
    BY <1>7, <1>10
  <2>. QED
    BY <2>1, <2>2
<1>11. CASE f.tag[pos[p]].k # "lsi" /\ own # {}
  <2>1. roles[name] = Role(mods)
    BY <1>2, <1>3, <1>6, <1>8, <1>11 DEF RoleOf
  <2>2. /\ roles[name].pk <=> "pk" \in Range(mods)
        /\ roles[name].sk <=> "sk" \in Range(mods)
    <3>1. PICK a, b : a = ("pk" \in Range(mods)) /\ b = ("sk" \in Range(mods))
      OBVIOUS
    <3>2. roles[name] = [pk |-> a, sk |-> b]
      BY <2>1, <3>1, Zenon DEF Role
    <3>3. roles[name].pk = a /\ roles[name].sk = b
      BY <3>2
    <3>. QED
      BY <3>1, <3>3, Zenon
  <2>3. \A k : SaysIndex(f, name, k) <=> k \in own
    BY <1>7, <1>11, Zenon
  <2>. QED
    BY <1>5, <2>2, <2>3, Zenon
<1>. QED
  BY <1>9, <1>10, <1>11

\* A field is parsed as its tag says.
LEMMA FieldIs ==
    ASSUME NEW f \in StructFields
    PROVE  FieldMeans(parseFieldMetadata(f), f)
<1>1. f.tag \in Seq(Tokens)
  BY DEF StructFields
<1>2. PICK parts : parts = splitTags(f.tag)
  OBVIOUS
<1>3. PICK pos : SplitAt(parts, pos, f.tag, Len(f.tag))
  BY <1>1, <1>2, SplitMeans
<1>4. PICK meta : meta = parseDynamormTag([NewField(f) EXCEPT !.flags = implicitTimestamp(f)], parts)
  OBVIOUS
<1>5. Tagged(meta, f, parts, Len(parts))
  <2>1. parts \in Seq(Parts)
    BY <1>3 DEF SplitAt
  <2>. QED
    BY <1>4, <2>1, TagsMean
<1>6. parseFieldMetadata(f) = meta \/ parseFieldMetadata(f) = [meta EXCEPT !.err = TRUE]
  BY <1>2, <1>4 DEF parseFieldMetadata
<1>7. meta \in FieldRecords /\ meta.name = f.name
  BY <1>5 DEF Tagged
<1>8. CASE meta.err \/ parseFieldMetadata(f) # meta
  <2>1. /\ parseFieldMetadata(f) \in FieldRecords
        /\ parseFieldMetadata(f).name = f.name /\ parseFieldMetadata(f).err
    BY <1>6, <1>7, <1>8 DEF FieldRecords
  <2>. QED
    BY <2>1 DEF FieldMeans
<1>9. CASE ~meta.err /\ parseFieldMetadata(f) = meta
  <2>0. /\ FlagsAre(meta.flags, parts, Len(parts)) /\ RolesAre(meta.roles, parts, Len(parts))
        /\ LastCounts(meta.roles, parts, Len(parts)) /\ LocalAre(meta.lsi, parts, Len(parts))
    BY <1>5, <1>9 DEF Tagged
  <2>1. \A k \in KeyFlags : k \in meta.flags <=> Says(f, k)
    BY <1>3, <2>0, FlagsMean
  <2>2. ASSUME NEW name \in STRING PROVE name \in DOMAIN meta.roles <=> clauses(f, name) # {}
    <3>1. name \in DOMAIN meta.roles <=> \E p \in 1..Len(parts) : NamesIndex(parts[p], name)
      BY <2>0 DEF RolesAre
    <3>2. ASSUME NEW p \in 1..Len(parts), NamesIndex(parts[p], name) PROVE clauses(f, name) # {}
      <4>1. pos[p] \in clauses(f, name)
        BY <1>3, <3>2, ClausesMean
      <4>. QED
        BY <4>1
    <3>3. ASSUME NEW i \in clauses(f, name) PROVE \E p \in 1..Len(parts) : NamesIndex(parts[p], name)
      BY <1>3, <3>3, ClausesMean
    <3>. QED
      BY <3>1, <3>2, <3>3
  <2>3. ASSUME NEW name \in DOMAIN meta.roles
        PROVE  /\ meta.roles[name].pk <=> SaysIndex(f, name, "pk")
               /\ meta.roles[name].sk <=> SaysIndex(f, name, "sk")
    <3>1. name \in STRING
      BY <1>7, RoleMapsAre DEF FieldRecords
    <3>2. clauses(f, name) # {}
      BY <2>2, <2>3, <3>1
    <3>. QED
      BY <1>3, <2>0, <3>1, <3>2, RoleMeans
  <2>4. ASSUME NEW name \in STRING
        PROVE  name \in meta.lsi <=> \E j \in clauses(f, name) : f.tag[j].k = "lsi"
    <3>1. name \in meta.lsi <=> \E p \in 1..Len(parts) : parts[p].head.k = "lsi" /\ parts[p].head.name = name
      BY <2>0 DEF LocalAre
    <3>2. \A p \in 1..Len(parts) : parts[p].head = f.tag[pos[p]]
      BY <1>3 DEF SplitAt
    <3>3. ASSUME NEW p \in 1..Len(parts), parts[p].head.k = "lsi", parts[p].head.name = name
          PROVE  \E j \in clauses(f, name) : f.tag[j].k = "lsi"
      <4>1. NamesIndex(parts[p], name)
        BY <3>3 DEF NamesIndex, IndexClause
      <4>2. pos[p] \in clauses(f, name)
        BY <1>3, <4>1, ClausesMean
      <4>. QED
        BY <3>2, <3>3, <4>2
    <3>4. ASSUME NEW j \in clauses(f, name), f.tag[j].k = "lsi"
          PROVE  \E p \in 1..Len(parts) : parts[p].head.k = "lsi" /\ parts[p].head.name = name
      <4>1. PICK p \in 1..Len(parts) : pos[p] = j /\ NamesIndex(parts[p], name)
        BY <1>3, <3>4, ClausesMean
      <4>. QED
        BY <3>2, <3>4, <4>1 DEF NamesIndex
    <3>. QED
      BY <3>1, <3>3, <3>4
  <2>. QED
    BY <1>7, <1>9, <2>1, <2>2, <2>3, <2>4 DEF FieldMeans
<1>. QED
  BY <1>8, <1>9

(***************************************************************************)
(* What the fields make of a model.                                        *)
(***************************************************************************)
Names == STRING \cup {None}
IndexRecords == [lsi : BOOLEAN, pk : Names, sk : Names]
IndexMaps == Maps(STRING, IndexRecords)

MetaRecords(d) ==
    [table : {d.table}, fields : SUBSET STRING, pk : Names, sk : Names, version : Names, ttl : Names,
     createdAt : Names, updatedAt : Names, indexes : IndexMaps, err : BOOLEAN]

\* The indexes of a model.
LEMMA IndexMapsAre ==
    ASSUME NEW r
    PROVE  r \in IndexMaps <=>
             /\ r = [x \in DOMAIN r |-> r[x]]
             /\ DOMAIN r \subseteq STRING
             /\ \A x \in DOMAIN r : r[x] \in IndexRecords
BY MapsAre DEF IndexMaps

\* What a field with this role leaves of an index.
WithRole(index, role, f) ==
    [index EXCEPT !.pk = IF role.pk THEN f.name ELSE @, !.sk = IF role.sk THEN f.name ELSE @]

\* The index a field finds or creates.
LEMMA IndexTypes ==
    ASSUME NEW d, NEW m \in MetaRecords(d), NEW f \in FieldRecords, NEW name \in STRING
    PROVE  /\ getOrCreateIndexSchema(m, f, name) \in IndexRecords
           /\ name \in DOMAIN m.indexes => getOrCreateIndexSchema(m, f, name) = m.indexes[name]
           /\ name \notin DOMAIN m.indexes =>
                 getOrCreateIndexSchema(m, f, name) = [lsi |-> IsLSIName(name) \/ name \in f.lsi, pk |-> None, sk |-> None]
<1>1. m.indexes \in IndexMaps
  BY DEF MetaRecords
<1>2. CASE name \in DOMAIN m.indexes
  BY <1>1, <1>2, IndexMapsAre DEF getOrCreateIndexSchema
<1>3. CASE name \notin DOMAIN m.indexes
  <2>1. getOrCreateIndexSchema(m, f, name) = [lsi |-> IsLSIName(name) \/ name \in f.lsi, pk |-> None, sk |-> None]
    BY <1>3 DEF getOrCreateIndexSchema
  <2>2. (IsLSIName(name) \/ name \in f.lsi) \in BOOLEAN /\ None \in Names
    BY DEF Names
  <2>. QED
    BY <1>3, <2>1, <2>2 DEF IndexRecords
<1>. QED
  BY <1>2, <1>3

\* The index a field leaves.
LEMMA WithRoleIs ==
    ASSUME NEW index \in IndexRecords, NEW role \in Roles, NEW f \in FieldRecords
    PROVE  /\ WithRole(index, role, f) \in IndexRecords
           /\ WithRole(index, role, f).lsi = index.lsi
           /\ WithRole(index, role, f).pk = IF role.pk THEN f.name ELSE index.pk
           /\ WithRole(index, role, f).sk = IF role.sk THEN f.name ELSE index.sk
<1>1. f.name \in Names /\ role.pk \in BOOLEAN /\ role.sk \in BOOLEAN
  BY DEF FieldRecords, Names, Roles
<1>. QED
  BY <1>1 DEF WithRole, IndexRecords

\* What the indexes of a field do to those of the model.
IndexesApplied(m, m2, f) ==
    /\ DOMAIN m2.indexes = DOMAIN m.indexes \cup DOMAIN f.roles
    /\ \A name \in DOMAIN m2.indexes :
          IF name \notin DOMAIN f.roles THEN m2.indexes[name] = m.indexes[name]
          ELSE /\ ~takenRole(getOrCreateIndexSchema(m, f, name), f.roles[name])
               /\ m2.indexes[name] = WithRole(getOrCreateIndexSchema(m, f, name), f.roles[name], f)

\* The indexes of a field are applied to those of the model, or one is taken.
LEMMA FieldIndexesIs ==
    ASSUME NEW d, NEW m \in MetaRecords(d), ~m.err, NEW f \in FieldRecords,
           NEW m2, m2 = applyFieldIndexes(m, f)
    PROVE  /\ m2 \in MetaRecords(d)
           /\ ~m2.err => m2.pk = m.pk /\ m2.sk = m.sk /\ IndexesApplied(m, m2, f)
<1>. DEFINE index(name) == getOrCreateIndexSchema(m, f, name)
            taken == \E name \in DOMAIN f.roles : takenRole(index(name), f.roles[name])
            ix == [name \in DOMAIN m.indexes \cup DOMAIN f.roles |->
                     IF name \notin DOMAIN f.roles THEN m.indexes[name]
                     ELSE [index(name) EXCEPT !.pk = IF f.roles[name].pk THEN f.name ELSE @,
                                              !.sk = IF f.roles[name].sk THEN f.name ELSE @]]
<1>1. m2 = IF taken THEN Wrong(m) ELSE [m EXCEPT !.indexes = ix]
  BY Zenon DEF applyFieldIndexes
<1>2. CASE taken
  BY <1>1, <1>2 DEF Wrong, MetaRecords
<1>3. CASE ~taken
  <2>1. m.indexes \in IndexMaps
    BY DEF MetaRecords
  <2>2. /\ DOMAIN f.roles \subseteq STRING
        /\ \A name \in DOMAIN f.roles : f.roles[name] \in Roles
    BY RoleMapsAre DEF FieldRecords
  <2>3. DOMAIN ix = DOMAIN m.indexes \cup DOMAIN f.roles
    OBVIOUS
  <2>4. ASSUME NEW name \in DOMAIN f.roles
        PROVE  ix[name] = WithRole(index(name), f.roles[name], f) /\ ix[name] \in IndexRecords
    <3>1. index(name) \in IndexRecords
      BY <2>2, IndexTypes
    <3>2. ix[name] = WithRole(index(name), f.roles[name], f)
      BY DEF WithRole
    <3>. HIDE DEF index, ix
    <3>. QED
      BY <2>2, <3>1, <3>2, WithRoleIs
  <2>5. \A name \in DOMAIN m.indexes : name \notin DOMAIN f.roles => ix[name] = m.indexes[name]
    OBVIOUS
  <2>6. ix = [name \in DOMAIN ix |-> ix[name]]
    OBVIOUS
  <2>7. m2 = [m EXCEPT !.indexes = ix]
    BY <1>1, <1>3
  <2>8. \A name \in DOMAIN f.roles : ~takenRole(index(name), f.roles[name])
    BY <1>3
  <2>. HIDE DEF ix, taken
  <2>9. ix \in IndexMaps
    <3>1. DOMAIN ix \subseteq STRING
      BY <2>1, <2>2, <2>3, IndexMapsAre
    <3>2. ASSUME NEW x \in DOMAIN ix PROVE ix[x] \in IndexRecords
      BY <2>1, <2>3, <2>4, <2>5, IndexMapsAre
    <3>. QED
      BY <2>6, <3>1, <3>2, IndexMapsAre
  <2>10. /\ m2 \in MetaRecords(d) /\ m2.indexes = ix /\ m2.pk = m.pk /\ m2.sk = m.sk
    BY <2>7, <2>9 DEF MetaRecords
  <2>11. IndexesApplied(m, m2, f)
    <3>1. DOMAIN m2.indexes = DOMAIN m.indexes \cup DOMAIN f.roles
      BY <2>3, <2>10
    <3>2. ASSUME NEW name \in DOMAIN m2.indexes, name \notin DOMAIN f.roles
          PROVE  m2.indexes[name] = m.indexes[name]
      BY <2>5, <2>10, <3>1, <3>2
    <3>3. ASSUME NEW name \in DOMAIN m2.indexes, name \in DOMAIN f.roles
          PROVE  /\ ~takenRole(getOrCreateIndexSchema(m, f, name), f.roles[name])
                 /\ m2.indexes[name] = WithRole(getOrCreateIndexSchema(m, f, name), f.roles[name], f)
      BY <2>4, <2>8, <2>10, <3>3
    <3>. QED
      BY <3>1, <3>2, <3>3, Zenon DEF IndexesApplied
  <2>. QED
    BY <2>10, <2>11
<1>. QED
  BY <1>2, <1>3

\* What a field does to the keys of a model.
KeysApplied(m, m2, f) ==
    /\ "pk" \in f.flags => m.pk = None
    /\ "sk" \in f.flags => m.sk = None
    /\ m2.pk = IF "pk" \in f.flags THEN f.name ELSE m.pk
    /\ m2.sk = IF "sk" \in f.flags THEN f.name ELSE m.sk

\* A field is an error, or leaves its keys and indexes in the model.
LEMMA ParseFieldIs ==
    ASSUME NEW d, NEW m \in MetaRecords(d), NEW f \in StructFields, NEW m2, m2 = parseField(m, f),
           NEW meta, meta = parseFieldMetadata(f)
    PROVE  /\ m2 \in MetaRecords(d)
           /\ ~m2.err => /\ ~m.err /\ ~meta.err /\ ~encryptedKey(meta)
                         /\ KeysApplied(m, m2, meta)
                         /\ IndexesApplied(m, m2, meta)
<1>1. meta \in FieldRecords
  BY FieldIs DEF FieldMeans
<1>2. meta.name \in STRING /\ meta.name \in Names /\ None \in Names /\ meta.err \in BOOLEAN /\ m.err \in BOOLEAN
  BY <1>1 DEF FieldRecords, Names, MetaRecords
<1>3. CASE m.err
  <2>1. m2 = m
    BY <1>3, Zenon DEF parseField
  <2>. QED
    BY <1>3, <2>1
<1>4. CASE ~m.err /\ (meta.err \/ encryptedKey(meta))
  <2>1. m2 = Wrong(m)
    BY <1>4, Zenon DEF parseField
  <2>. QED
    BY <2>1 DEF Wrong, MetaRecords
<1>5. CASE ~m.err /\ ~meta.err /\ ~encryptedKey(meta)
  <2>1. PICK w : w = [m EXCEPT !.fields = @ \cup {meta.name}]
    OBVIOUS
  <2>2. w \in MetaRecords(d) /\ ~w.err /\ w.pk = m.pk /\ w.sk = m.sk /\ w.indexes = m.indexes
    BY <1>2, <1>5, <2>1 DEF MetaRecords
  <2>3. PICK keyed : keyed = applyKeyFields(w, meta)
    OBVIOUS
  <2>4. CASE ("pk" \in meta.flags /\ w.pk # None) \/ ("sk" \in meta.flags /\ w.sk # None)
    <3>1. keyed = Wrong(w)
      BY <2>3, <2>4 DEF applyKeyFields
    <3>2. keyed \in MetaRecords(d) /\ keyed.err
      BY <2>2, <3>1 DEF Wrong, MetaRecords
    <3>3. m2 = keyed
      BY <1>5, <2>1, <2>3, <3>2, Zenon DEF parseField
    <3>. QED
      BY <3>2, <3>3
  <2>5. CASE ~(("pk" \in meta.flags /\ w.pk # None) \/ ("sk" \in meta.flags /\ w.sk # None))
    <3>1. keyed = [w EXCEPT !.pk = IF "pk" \in meta.flags THEN meta.name ELSE @,
                            !.sk = IF "sk" \in meta.flags THEN meta.name ELSE @]
      BY <2>3, <2>5 DEF applyKeyFields
    <3>2. /\ keyed \in MetaRecords(d) /\ ~keyed.err /\ keyed.indexes = m.indexes
          /\ keyed.pk = IF "pk" \in meta.flags THEN meta.name ELSE m.pk
          /\ keyed.sk = IF "sk" \in meta.flags THEN meta.name ELSE m.sk
      BY <1>2, <2>2, <3>1 DEF MetaRecords
    <3>3. PICK s : s = applySpecialFields(keyed, meta)
      OBVIOUS
    <3>4. s \in MetaRecords(d) /\ ~s.err /\ s.pk = keyed.pk /\ s.sk = keyed.sk /\ s.indexes = m.indexes
      BY <1>2, <3>2, <3>3 DEF applySpecialFields, MetaRecords
    <3>5. m2 = applyFieldIndexes(s, meta)
      BY <1>5, <2>1, <2>3, <3>2, <3>3, Zenon DEF parseField
    <3>6. m2 \in MetaRecords(d) /\ (~m2.err => m2.pk = s.pk /\ m2.sk = s.sk /\ IndexesApplied(s, m2, meta))
      BY <1>1, <3>4, <3>5, FieldIndexesIs
    <3>7. IndexesApplied(s, m2, meta) => IndexesApplied(m, m2, meta)
      BY <3>4 DEF IndexesApplied, getOrCreateIndexSchema
    <3>8. ~m2.err => KeysApplied(m, m2, meta)
      BY <2>2, <2>5, <3>2, <3>4, <3>6 DEF KeysApplied
    <3>. QED
      BY <1>5, <3>6, <3>7, <3>8
  <2>. QED
    BY <2>4, <2>5
<1>. QED
  BY <1>2, <1>3, <1>4, <1>5

\* What RegistryAssumption says of a definition.
WellDeclared(d) ==
    /\ d.fields \in Seq(StructFields)
    /\ \A i, j \in 1..Len(d.fields) : d.fields[i].name = d.fields[j].name => i = j
    /\ \A i \in 1..Len(d.fields) : \A j \in 1..Len(d.fields[i].tag) :
          IndexClause(d.fields[i].tag[j]) => d.fields[i].tag[j].name \in IndexNames

\* The value is the name of the only field in S, or there is none.
PickedBy(value, S, d) ==
    (S = {} /\ value = None) \/ \E i \in S : S = {i} /\ value = d.fields[i].name

Saying(d, n, k) == {i \in 1..n : Says(d.fields[i], k)}
SayingIndex(d, n, name, k) == {i \in 1..n : SaysIndex(d.fields[i], name, k)}
NamedIn(d, n, name) == \E i \in 1..n : clauses(d.fields[i], name) # {}
LocalIn(d, n, name) == \E i \in 1..n : \E j \in clauses(d.fields[i], name) : d.fields[i].tag[j].k = "lsi"

NoEncryptedKeys(d, n) ==
    \A i \in 1..n : Says(d.fields[i], "encrypted") =>
        /\ ~Says(d.fields[i], "pk") /\ ~Says(d.fields[i], "sk")
        /\ \A name \in STRING : clauses(d.fields[i], name) = {}

IndexParsed(index, d, n, name) ==
    /\ index.lsi <=> (IsLSIName(name) \/ LocalIn(d, n, name))
    /\ PickedBy(index.pk, SayingIndex(d, n, name, "pk"), d)
    /\ PickedBy(index.sk, SayingIndex(d, n, name, "sk"), d)

IndexesParsed(m, d, n) ==
    /\ \A name \in STRING : name \in DOMAIN m.indexes <=> NamedIn(d, n, name)
    /\ \A name \in DOMAIN m.indexes : IndexParsed(m.indexes[name], d, n, name)

KeysParsed(m, d, n) ==
    /\ PickedBy(m.pk, Saying(d, n, "pk"), d)
    /\ PickedBy(m.sk, Saying(d, n, "sk"), d)

Parsed(m, d, n) ==
    /\ m \in MetaRecords(d)
    /\ ~m.err => KeysParsed(m, d, n) /\ IndexesParsed(m, d, n) /\ NoEncryptedKeys(d, n)

\* The fields of a definition.
LEMMA FieldsAre ==
    ASSUME NEW d, WellDeclared(d)
    PROVE  /\ Len(d.fields) \in Nat
           /\ \A i \in 1..Len(d.fields) :
                 /\ d.fields[i] \in StructFields
                 /\ d.fields[i].name \in STRING /\ d.fields[i].name # None
                 /\ d.fields[i].tag \in Seq(Tokens)
<1>1. Len(d.fields) \in Nat
  BY LenProperties DEF WellDeclared
<1>2. \A i \in 1..Len(d.fields) : d.fields[i] \in StructFields
  BY ElementOfSeq DEF WellDeclared
<1>. QED
  BY <1>1, <1>2 DEF StructFields

\* Index and local index clauses for one index contradict each other.
LEMMA Uniform ==
    ASSUME NEW d, WellDeclared(d), NEW name \in STRING, ~IsLSIName(name),
           NEW i \in 1..Len(d.fields), NEW a \in clauses(d.fields[i], name), d.fields[i].tag[a].k = "index",
           NEW j \in 1..Len(d.fields), NEW b \in clauses(d.fields[j], name), d.fields[j].tag[b].k = "lsi"
    PROVE  Contradictory(d)
<1>. DEFINE All == UNION {Range(d.fields[l].tag) : l \in 1..Len(d.fields)}
            T == {t \in All : IndexClause(t) /\ t.name = name}
            K == {tag.k : tag \in T}
<1>1. ASSUME NEW l \in 1..Len(d.fields), NEW c \in clauses(d.fields[l], name)
      PROVE  d.fields[l].tag[c] \in T
  <2>1. c \in 1..Len(d.fields[l].tag) /\ IndexClause(d.fields[l].tag[c]) /\ d.fields[l].tag[c].name = name
    BY DEF clauses
  <2>2. d.fields[l].tag[c] \in Range(d.fields[l].tag)
    BY <2>1, FieldsAre, LenProperties DEF Range
  <2>3. d.fields[l].tag[c] \in All
    BY <2>2
  <2>. QED
    BY <2>1, <2>3
<1>2. d.fields[i].tag[a] \in T /\ d.fields[j].tag[b] \in T
  BY <1>1
<1>3. "index" \in K /\ "lsi" \in K
  <2>. HIDE DEF T
  <2>. QED
    BY <1>2
<1>4. \A t \in T : t.k \in {"index", "lsi"}
  BY DEF IndexClause
<1>5. K = {"index", "lsi"}
  <2>. HIDE DEF T
  <2>. QED
    BY <1>3, <1>4
<1>6. name \in IndexNames
  BY DEF WellDeclared, clauses
<1>. QED
  BY <1>5, <1>6, Zenon DEF Contradictory

\* The first field picked.
LEMMA PickedNew ==
    ASSUME NEW d, NEW S, NEW i, NEW v, \A j \in S : d.fields[j].name # None, PickedBy(v, S, d), v = None
    PROVE  PickedBy(d.fields[i].name, S \cup {i}, d)
<1>1. S = {}
  BY DEF PickedBy
<1>2. S \cup {i} = {i}
  BY <1>1
<1>. QED
  BY <1>2 DEF PickedBy

\* A field without a clause for an index says nothing of it.
LEMMA NoClause ==
    ASSUME NEW f, NEW name, clauses(f, name) = {}
    PROVE  \A k : ~SaysIndex(f, name, k)
BY Zenon DEF SaysIndex

\* The first n + 1 fields, seen from the first n.
LEMMA OneMoreField ==
    ASSUME NEW d, NEW n \in Nat, NEW name
    PROVE  /\ \A k : \A j : j \in Saying(d, n + 1, k) <=>
                 j \in Saying(d, n, k) \/ (j = n + 1 /\ Says(d.fields[n + 1], k))
           /\ \A k : \A j : j \in SayingIndex(d, n + 1, name, k) <=>
                 j \in SayingIndex(d, n, name, k) \/ (j = n + 1 /\ SaysIndex(d.fields[n + 1], name, k))
           /\ NamedIn(d, n + 1, name) <=> (NamedIn(d, n, name) \/ clauses(d.fields[n + 1], name) # {})
           /\ LocalIn(d, n + 1, name) <=>
                 (LocalIn(d, n, name) \/ \E j \in clauses(d.fields[n + 1], name) : d.fields[n + 1].tag[j].k = "lsi")
<1>1. \A p : p \in 1..n + 1 <=> p \in 1..n \/ p = n + 1
  OBVIOUS
<1>2. \A k : \A j : j \in Saying(d, n + 1, k) <=>
                 j \in Saying(d, n, k) \/ (j = n + 1 /\ Says(d.fields[n + 1], k))
  BY <1>1, Zenon DEF Saying
<1>3. \A k : \A j : j \in SayingIndex(d, n + 1, name, k) <=>
                 j \in SayingIndex(d, n, name, k) \/ (j = n + 1 /\ SaysIndex(d.fields[n + 1], name, k))
  BY <1>1, Zenon DEF SayingIndex
<1>4. NamedIn(d, n + 1, name) <=> (NamedIn(d, n, name) \/ clauses(d.fields[n + 1], name) # {})
  BY <1>1, Zenon DEF NamedIn
<1>5. LocalIn(d, n + 1, name) <=>
                 (LocalIn(d, n, name) \/ \E j \in clauses(d.fields[n + 1], name) : d.fields[n + 1].tag[j].k = "lsi")
  BY <1>1, Zenon DEF LocalIn
<1>. QED
  BY <1>2, <1>3, <1>4, <1>5

\* One more field: the keys of the table.
LEMMA KeysStep ==
    ASSUME NEW d, WellDeclared(d), NEW n \in Nat, n < Len(d.fields),
           NEW m, NEW m2, NEW meta, FieldMeans(meta, d.fields[n + 1]), ~meta.err,
           KeysApplied(m, m2, meta), KeysParsed(m, d, n)
    PROVE  KeysParsed(m2, d, n + 1)
<1>1. n + 1 \in 1..Len(d.fields) /\ \A j \in 1..n : j \in 1..Len(d.fields)
  BY FieldsAre
<1>2. meta.name = d.fields[n + 1].name
  BY DEF FieldMeans
<1>3. \A k : \A j \in Saying(d, n, k) : d.fields[j].name # None
  BY <1>1, FieldsAre DEF Saying
<1>4. /\ "pk" \in meta.flags <=> Says(d.fields[n + 1], "pk")
      /\ "sk" \in meta.flags <=> Says(d.fields[n + 1], "sk")
  BY DEF FieldMeans, KeyFlags
<1>5. /\ "pk" \in meta.flags => m.pk = None
      /\ "sk" \in meta.flags => m.sk = None
      /\ m2.pk = IF "pk" \in meta.flags THEN meta.name ELSE m.pk
      /\ m2.sk = IF "sk" \in meta.flags THEN meta.name ELSE m.sk
  BY DEF KeysApplied
<1>6. ASSUME NEW k, NEW v, NEW w, PickedBy(v, Saying(d, n, k), d), Says(d.fields[n + 1], k) => v = None,
             w = IF Says(d.fields[n + 1], k) THEN d.fields[n + 1].name ELSE v
      PROVE  PickedBy(w, Saying(d, n + 1, k), d)
  <2>1. \A j : j \in Saying(d, n + 1, k) <=> j \in Saying(d, n, k) \/ (j = n + 1 /\ Says(d.fields[n + 1], k))
    BY OneMoreField
  <2>2. CASE Says(d.fields[n + 1], k)
    <3>1. Saying(d, n + 1, k) = Saying(d, n, k) \cup {n + 1}
      BY <2>1, <2>2
    <3>2. w = d.fields[n + 1].name /\ v = None
      BY <1>6, <2>2
    <3>. QED
      BY <1>3, <1>6, <3>1, <3>2, PickedNew
  <2>3. CASE ~Says(d.fields[n + 1], k)
    <3>1. Saying(d, n + 1, k) = Saying(d, n, k)
      BY <2>1, <2>3
    <3>. QED
      BY <1>6, <2>3, <3>1
  <2>. QED
    BY <2>2, <2>3
<1>7. PickedBy(m2.pk, Saying(d, n + 1, "pk"), d)
  BY <1>2, <1>4, <1>5, <1>6 DEF KeysParsed
<1>8. PickedBy(m2.sk, Saying(d, n + 1, "sk"), d)
  BY <1>2, <1>4, <1>5, <1>6 DEF KeysParsed
<1>. QED
  BY <1>7, <1>8 DEF KeysParsed

\* An index before the field that names it.
LEMMA IndexBefore ==
    ASSUME NEW d, WellDeclared(d), ~Contradictory(d), NEW n \in Nat, n < Len(d.fields),
           NEW m \in MetaRecords(d), NEW meta, FieldMeans(meta, d.fields[n + 1]), ~meta.err,
           IndexesParsed(m, d, n), NEW name \in STRING, clauses(d.fields[n + 1], name) # {},
           NEW index, index = getOrCreateIndexSchema(m, meta, name)
    PROVE  /\ index \in IndexRecords
           /\ index.lsi <=> (IsLSIName(name) \/ LocalIn(d, n + 1, name))
           /\ PickedBy(index.pk, SayingIndex(d, n, name, "pk"), d)
           /\ PickedBy(index.sk, SayingIndex(d, n, name, "sk"), d)
<1>1. meta \in FieldRecords
  BY DEF FieldMeans
<1>2. /\ index \in IndexRecords
      /\ name \in DOMAIN m.indexes => index = m.indexes[name]
      /\ name \notin DOMAIN m.indexes => index = [lsi |-> IsLSIName(name) \/ name \in meta.lsi, pk |-> None, sk |-> None]
  BY <1>1, IndexTypes
<1>3. LocalIn(d, n + 1, name) <=>
         (LocalIn(d, n, name) \/ \E j \in clauses(d.fields[n + 1], name) : d.fields[n + 1].tag[j].k = "lsi")
  BY OneMoreField
<1>4. name \in DOMAIN m.indexes <=> NamedIn(d, n, name)
  BY DEF IndexesParsed
<1>5. CASE name \in DOMAIN m.indexes
  <2>1. IndexParsed(index, d, n, name)
    BY <1>2, <1>5 DEF IndexesParsed
  <2>2. ASSUME ~IsLSIName(name), NEW b \in clauses(d.fields[n + 1], name), d.fields[n + 1].tag[b].k = "lsi"
        PROVE  LocalIn(d, n, name)
    <3>1. PICK i \in 1..n : clauses(d.fields[i], name) # {}
      BY <1>4, <1>5 DEF NamedIn
    <3>2. PICK a : a \in clauses(d.fields[i], name)
      BY <3>1
    <3>3. i \in 1..Len(d.fields) /\ n + 1 \in 1..Len(d.fields)
      BY FieldsAre
    <3>4. d.fields[i].tag[a].k # "index"
      BY <2>2, <3>2, <3>3, Uniform
    <3>5. d.fields[i].tag[a].k = "lsi"
      BY <3>2, <3>4 DEF clauses, IndexClause
    <3>. QED
      BY <3>2, <3>5 DEF LocalIn
  <2>3. ~IsLSIName(name) => (LocalIn(d, n + 1, name) <=> LocalIn(d, n, name))
    BY <1>3, <2>2
  <2>4. index.lsi <=> (IsLSIName(name) \/ LocalIn(d, n, name))
    BY <2>1, Zenon DEF IndexParsed
  <2>5. index.lsi <=> (IsLSIName(name) \/ LocalIn(d, n + 1, name))
    BY <2>3, <2>4, Zenon
  <2>. QED
    BY <1>2, <2>1, <2>5, Zenon DEF IndexParsed
<1>6. CASE name \notin DOMAIN m.indexes
  <2>1. \A i \in 1..n : clauses(d.fields[i], name) = {}
    BY <1>4, <1>6 DEF NamedIn
  <2>2. ~LocalIn(d, n, name)
    BY <2>1 DEF LocalIn
  <2>3. SayingIndex(d, n, name, "pk") = {} /\ SayingIndex(d, n, name, "sk") = {}
    BY <2>1, NoClause DEF SayingIndex
  <2>4. name \in meta.lsi <=> \E j \in clauses(d.fields[n + 1], name) : d.fields[n + 1].tag[j].k = "lsi"
    BY DEF FieldMeans
  <2>5. PICK l : l = (IsLSIName(name) \/ name \in meta.lsi)
    OBVIOUS
  <2>6. index = [lsi |-> l, pk |-> None, sk |-> None]
    BY <1>2, <1>6, <2>5, Zenon
  <2>7. index.lsi = l /\ index.pk = None /\ index.sk = None
    BY <2>6
  <2>8. index.lsi <=> (IsLSIName(name) \/ LocalIn(d, n + 1, name))
    BY <1>3, <2>2, <2>4, <2>5, <2>7, Zenon
  <2>. QED
    BY <1>2, <2>3, <2>7, <2>8 DEF PickedBy
<1>. QED
  BY <1>5, <1>6

\* One more field: the indexes.
LEMMA IndexesStep ==
    ASSUME NEW d, WellDeclared(d), ~Contradictory(d), NEW n \in Nat, n < Len(d.fields),
           NEW m \in MetaRecords(d), NEW m2 \in MetaRecords(d),
           NEW meta, FieldMeans(meta, d.fields[n + 1]), ~meta.err,
           IndexesApplied(m, m2, meta), IndexesParsed(m, d, n)
    PROVE  IndexesParsed(m2, d, n + 1)
<1>1. n + 1 \in 1..Len(d.fields) /\ \A j \in 1..n : j \in 1..Len(d.fields)
  BY FieldsAre
<1>2. /\ meta \in FieldRecords /\ meta.name = d.fields[n + 1].name
      /\ \A name \in STRING : name \in DOMAIN meta.roles <=> clauses(d.fields[n + 1], name) # {}
      /\ \A name \in DOMAIN meta.roles : /\ meta.roles[name].pk <=> SaysIndex(d.fields[n + 1], name, "pk")
                                         /\ meta.roles[name].sk <=> SaysIndex(d.fields[n + 1], name, "sk")
  BY DEF FieldMeans
<1>3. /\ DOMAIN meta.roles \subseteq STRING
      /\ \A name \in DOMAIN meta.roles : meta.roles[name] \in Roles
  BY <1>2, RoleMapsAre DEF FieldRecords
<1>4. DOMAIN m2.indexes \subseteq STRING
  BY IndexMapsAre DEF MetaRecords
<1>5. DOMAIN m2.indexes = DOMAIN m.indexes \cup DOMAIN meta.roles
  BY DEF IndexesApplied
<1>6. ASSUME NEW name \in STRING PROVE name \in DOMAIN m2.indexes <=> NamedIn(d, n + 1, name)
  <2>1. name \in DOMAIN m.indexes <=> NamedIn(d, n, name)
    BY DEF IndexesParsed
  <2>2. NamedIn(d, n + 1, name) <=> (NamedIn(d, n, name) \/ clauses(d.fields[n + 1], name) # {})
    BY OneMoreField
  <2>. QED
    BY <1>2, <1>5, <2>1, <2>2
<1>7. ASSUME NEW name \in DOMAIN m2.indexes, name \notin DOMAIN meta.roles
      PROVE  IndexParsed(m2.indexes[name], d, n + 1, name)
  <2>1. m2.indexes[name] = m.indexes[name] /\ name \in DOMAIN m.indexes /\ name \in STRING
    BY <1>4, <1>5, <1>7 DEF IndexesApplied
  <2>2. IndexParsed(m2.indexes[name], d, n, name)
    BY <2>1 DEF IndexesParsed
  <2>3. clauses(d.fields[n + 1], name) = {}
    BY <1>2, <1>7, <2>1
  <2>4. \A k : SayingIndex(d, n + 1, name, k) = SayingIndex(d, n, name, k)
    <3>1. \A k : ~SaysIndex(d.fields[n + 1], name, k)
      BY <2>3, NoClause
    <3>2. ASSUME NEW k PROVE SayingIndex(d, n + 1, name, k) = SayingIndex(d, n, name, k)
      <4>1. \A j : j \in SayingIndex(d, n + 1, name, k) <=> j \in SayingIndex(d, n, name, k)
        BY <3>1, OneMoreField
      <4>. QED
        BY <4>1 DEF SayingIndex
    <3>. QED
      BY <3>2
  <2>5. LocalIn(d, n + 1, name) <=> LocalIn(d, n, name)
    BY <2>3, OneMoreField
  <2>. QED
    BY <2>2, <2>4, <2>5, Zenon DEF IndexParsed
<1>8. ASSUME NEW name \in DOMAIN m2.indexes, name \in DOMAIN meta.roles
      PROVE  IndexParsed(m2.indexes[name], d, n + 1, name)
  <2>1. name \in STRING /\ clauses(d.fields[n + 1], name) # {} /\ meta.roles[name] \in Roles
    BY <1>2, <1>3, <1>8
  <2>2. PICK index : index = getOrCreateIndexSchema(m, meta, name)
    OBVIOUS
  <2>3. /\ index \in IndexRecords
        /\ index.lsi <=> (IsLSIName(name) \/ LocalIn(d, n + 1, name))
        /\ PickedBy(index.pk, SayingIndex(d, n, name, "pk"), d)
        /\ PickedBy(index.sk, SayingIndex(d, n, name, "sk"), d)
    BY <2>1, <2>2, IndexBefore
  <2>4. PICK role \in Roles : role = meta.roles[name]
    BY <2>1
  <2>5. ~takenRole(index, role) /\ m2.indexes[name] = WithRole(index, role, meta)
    BY <1>8, <2>2, <2>4 DEF IndexesApplied
  <2>6. /\ m2.indexes[name].lsi = index.lsi
        /\ m2.indexes[name].pk = IF role.pk THEN meta.name ELSE index.pk
        /\ m2.indexes[name].sk = IF role.sk THEN meta.name ELSE index.sk
    BY <1>2, <2>3, <2>5, WithRoleIs
  <2>7. (role.pk => index.pk = None) /\ (role.sk => index.sk = None)
    BY <2>5 DEF takenRole
  <2>8. \A k : \A j \in SayingIndex(d, n, name, k) : d.fields[j].name # None
    BY <1>1, FieldsAre DEF SayingIndex
  <2>9. role.pk \in BOOLEAN /\ role.sk \in BOOLEAN
    BY DEF Roles
  <2>10. (role.pk <=> SaysIndex(d.fields[n + 1], name, "pk")) /\ (role.sk <=> SaysIndex(d.fields[n + 1], name, "sk"))
    BY <1>2, <1>8, <2>4
  <2>11. ASSUME NEW k, NEW v, NEW w, PickedBy(v, SayingIndex(d, n, name, k), d),
                SaysIndex(d.fields[n + 1], name, k) => v = None,
                w = IF SaysIndex(d.fields[n + 1], name, k) THEN d.fields[n + 1].name ELSE v
         PROVE  PickedBy(w, SayingIndex(d, n + 1, name, k), d)
    <3>1. \A j : j \in SayingIndex(d, n + 1, name, k) <=>
                   j \in SayingIndex(d, n, name, k) \/ (j = n + 1 /\ SaysIndex(d.fields[n + 1], name, k))
      BY OneMoreField
    <3>2. CASE SaysIndex(d.fields[n + 1], name, k)
      <4>1. SayingIndex(d, n + 1, name, k) = SayingIndex(d, n, name, k) \cup {n + 1}
        BY <3>1, <3>2
      <4>2. w = d.fields[n + 1].name /\ v = None
        BY <2>11, <3>2
      <4>. QED
        BY <2>8, <2>11, <4>1, <4>2, PickedNew
    <3>3. CASE ~SaysIndex(d.fields[n + 1], name, k)
      <4>1. SayingIndex(d, n + 1, name, k) = SayingIndex(d, n, name, k)
        BY <3>1, <3>3
      <4>. QED
        BY <2>11, <3>3, <4>1
    <3>. QED
      BY <3>2, <3>3
  <2>13. PickedBy(m2.indexes[name].pk, SayingIndex(d, n + 1, name, "pk"), d)
    BY <1>2, <2>3, <2>6, <2>7, <2>10, <2>11
  <2>14. PickedBy(m2.indexes[name].sk, SayingIndex(d, n + 1, name, "sk"), d)
    BY <1>2, <2>3, <2>6, <2>7, <2>10, <2>11
  <2>15. m2.indexes[name].lsi <=> (IsLSIName(name) \/ LocalIn(d, n + 1, name))
    BY <2>3, <2>6, Zenon
  <2>. QED
    BY <2>13, <2>14, <2>15, Zenon DEF IndexParsed
<1>. QED
  BY <1>6, <1>7, <1>8 DEF IndexesParsed

\* One more field: no key is encrypted.
LEMMA EncryptedStep ==
    ASSUME NEW d, NEW n \in Nat, NEW meta, FieldMeans(meta, d.fields[n + 1]), ~meta.err,
           ~encryptedKey(meta), NoEncryptedKeys(d, n)
    PROVE  NoEncryptedKeys(d, n + 1)
<1>1. /\ "pk" \in meta.flags <=> Says(d.fields[n + 1], "pk")
      /\ "sk" \in meta.flags <=> Says(d.fields[n + 1], "sk")
      /\ "encrypted" \in meta.flags <=> Says(d.fields[n + 1], "encrypted")
  BY DEF FieldMeans, KeyFlags
<1>2. ASSUME Says(d.fields[n + 1], "encrypted")
      PROVE  /\ ~Says(d.fields[n + 1], "pk") /\ ~Says(d.fields[n + 1], "sk")
             /\ \A name \in STRING : clauses(d.fields[n + 1], name) = {}
  <2>1. "encrypted" \in meta.flags
    BY <1>1, <1>2
  <2>2. meta.flags \cap {"pk", "sk"} = {} /\ meta.roles = <<>>
    BY <2>1 DEF encryptedKey
  <2>3. "pk" \notin meta.flags /\ "sk" \notin meta.flags
    BY <2>2
  <2>4. DOMAIN meta.roles = {}
    BY <2>2
  <2>5. \A name \in STRING : clauses(d.fields[n + 1], name) = {}
    BY <2>4 DEF FieldMeans
  <2>. QED
    BY <1>1, <2>3, <2>5
<1>3. \A p \in 1..n + 1 : p \in 1..n \/ p = n + 1
  OBVIOUS
<1>. QED
  BY <1>2, <1>3, Zenon DEF NoEncryptedKeys

\* All fields of a definition.
LEMMA ParsesMean ==
    ASSUME NEW d, WellDeclared(d), ~Contradictory(d)
    PROVE  Parsed(parseFields(d), d, Len(d.fields))
<1>1. Len(d.fields) \in Nat
  BY FieldsAre
<1>2. PICK f : /\ parseFields(d) = f[Len(d.fields)]
               /\ f[0] = newMetadata(d)
               /\ \A n \in 0..Len(d.fields) - 1 : f[n + 1] = parseField(f[n], d.fields[n + 1])
  BY <1>1, ParsesIs
<1>. DEFINE S == {n \in Nat : Parsed(f[n], d, n)}
<1>3. 0 \in S
  <2>1. PICK ix : ix = <<>>
    OBVIOUS
  <2>2. DOMAIN ix = {} /\ ix \in IndexMaps
    <3>1. ix = [x \in {} |-> {}] /\ DOMAIN ix = {}
      BY <2>1
    <3>. QED
      BY <3>1, IndexMapsAre
  <2>3. newMetadata(d) = [table |-> d.table, fields |-> {}, pk |-> None, sk |-> None, version |-> None, ttl |-> None,
                          createdAt |-> None, updatedAt |-> None, indexes |-> ix, err |-> FALSE]
    BY <2>1 DEF newMetadata
  <2>4. /\ newMetadata(d) \in MetaRecords(d)
        /\ newMetadata(d).pk = None /\ newMetadata(d).sk = None /\ DOMAIN newMetadata(d).indexes = {}
    BY <2>2, <2>3 DEF MetaRecords, Names
  <2>5. \A i : i \notin 1..0
    OBVIOUS
  <2>6. KeysParsed(newMetadata(d), d, 0)
    BY <2>4, <2>5 DEF KeysParsed, PickedBy, Saying
  <2>7. IndexesParsed(newMetadata(d), d, 0)
    BY <2>4, <2>5 DEF IndexesParsed, NamedIn
  <2>8. NoEncryptedKeys(d, 0)
    BY <2>5 DEF NoEncryptedKeys
  <2>. QED
    BY <1>2, <2>4, <2>6, <2>7, <2>8 DEF Parsed
<1>4. ASSUME NEW n \in 0..Len(d.fields) - 1, n \in S PROVE n + 1 \in S
  <2>1. n \in Nat /\ n < Len(d.fields) /\ n + 1 \in Nat /\ n + 1 \in 1..Len(d.fields)
    BY <1>1
  <2>2. PICK m, m2, meta : m = f[n] /\ m2 = f[n + 1] /\ meta = parseFieldMetadata(d.fields[n + 1])
    OBVIOUS
  <2>3. Parsed(m, d, n)
    BY <1>4, <2>2
  <2>4. m2 = parseField(m, d.fields[n + 1])
    BY <1>2, <2>2
  <2>5. d.fields[n + 1] \in StructFields
    BY <2>1, FieldsAre
  <2>6. FieldMeans(meta, d.fields[n + 1])
    BY <2>2, <2>5, FieldIs
  <2>7. m \in MetaRecords(d)
    BY <2>3 DEF Parsed
  <2>8. /\ m2 \in MetaRecords(d)
        /\ ~m2.err => /\ ~m.err /\ ~meta.err /\ ~encryptedKey(meta)
                      /\ KeysApplied(m, m2, meta)
                      /\ IndexesApplied(m, m2, meta)
    BY <2>2, <2>4, <2>5, <2>7, ParseFieldIs
  <2>9. ASSUME ~m2.err
        PROVE  KeysParsed(m2, d, n + 1) /\ IndexesParsed(m2, d, n + 1) /\ NoEncryptedKeys(d, n + 1)
    <3>1. KeysParsed(m, d, n) /\ IndexesParsed(m, d, n) /\ NoEncryptedKeys(d, n)
      BY <2>3, <2>8, <2>9 DEF Parsed
    <3>2. KeysParsed(m2, d, n + 1)
      BY <2>1, <2>6, <2>8, <2>9, <3>1, KeysStep
    <3>3. IndexesParsed(m2, d, n + 1)
      BY <2>1, <2>6, <2>7, <2>8, <2>9, <3>1, IndexesStep
    <3>4. NoEncryptedKeys(d, n + 1)
      BY <2>1, <2>6, <2>8, <2>9, <3>1, EncryptedStep
    <3>. QED
      BY <3>2, <3>3, <3>4
  <2>10. Parsed(m2, d, n + 1)
    BY <2>8, <2>9 DEF Parsed
  <2>. QED
    BY <2>1, <2>2, <2>10
<1>5. Len(d.fields) \in S
  <2>. HIDE DEF S
  <2>. QED
    BY <1>1, <1>3, <1>4, Climb
<1>. QED
  BY <1>2, <1>5

\* What registerIndexes leaves of a model without error.
LEMMA Finished ==
    ASSUME NEW d, NEW m \in MetaRecords(d), m = parseFields(d), NEW r, r = parseMetadata(d), ~r.err
    PROVE  /\ ~m.err /\ m.pk # None
           /\ r.pk = m.pk /\ r.sk = m.sk /\ DOMAIN r.indexes = DOMAIN m.indexes
           /\ \A name \in DOMAIN m.indexes :
                 /\ r.indexes[name].lsi = m.indexes[name].lsi
                 /\ r.indexes[name].sk = m.indexes[name].sk
                 /\ r.indexes[name].pk = IF m.indexes[name].lsi THEN m.pk ELSE m.indexes[name].pk
<1>1. Wrong(m).err
  BY DEF Wrong, MetaRecords
<1>2. ~m.err /\ m.pk # None
  <2>1. m.err \/ m.pk = None => r = Wrong(m)
    BY Zenon DEF parseMetadata
  <2>. QED
    BY <1>1, <2>1
<1>3. r = registerIndexes(m)
  BY <1>2, Zenon DEF parseMetadata
<1>4. PICK ix : ix = [name \in DOMAIN m.indexes |->
                        IF m.indexes[name].lsi THEN [m.indexes[name] EXCEPT !.pk = m.pk] ELSE m.indexes[name]]
  OBVIOUS
<1>5. r = [m EXCEPT !.indexes = ix]
  <2>1. r = Wrong(m) \/ r = [m EXCEPT !.indexes =
             [name \in DOMAIN @ |-> IF @[name].lsi THEN [@[name] EXCEPT !.pk = m.pk] ELSE @[name]]]
    BY <1>3, Zenon DEF registerIndexes
  <2>2. r # Wrong(m)
    BY <1>1
  <2>. QED
    BY <1>4, <2>1, <2>2 DEF MetaRecords
<1>6. r.pk = m.pk /\ r.sk = m.sk /\ r.indexes = ix
  BY <1>5 DEF MetaRecords
<1>7. DOMAIN ix = DOMAIN m.indexes
  BY <1>4
<1>8. ASSUME NEW name \in DOMAIN m.indexes
      PROVE  /\ ix[name].lsi = m.indexes[name].lsi
             /\ ix[name].sk = m.indexes[name].sk
             /\ ix[name].pk = IF m.indexes[name].lsi THEN m.pk ELSE m.indexes[name].pk
  <2>1. m.indexes[name] \in IndexRecords
    BY IndexMapsAre DEF MetaRecords
  <2>2. ix[name] = IF m.indexes[name].lsi THEN [m.indexes[name] EXCEPT !.pk = m.pk] ELSE m.indexes[name]
    BY <1>4
  <2>3. CASE m.indexes[name].lsi
    <3>1. ix[name] = [m.indexes[name] EXCEPT !.pk = m.pk]
      BY <2>2, <2>3
    <3>. QED
      BY <2>1, <2>3, <3>1 DEF IndexRecords
  <2>4. CASE ~m.indexes[name].lsi
    BY <2>2, <2>4
  <2>. QED
    BY <2>3, <2>4
<1>. QED
  BY <1>2, <1>6, <1>7, <1>8

\* What was picked, as RegisteredAsTagged writes it.
LEMMA PickedAt ==
    ASSUME NEW d, NEW S, NEW v, PickedBy(v, S, d)
    PROVE  /\ v = IF S = {} THEN None ELSE d.fields[CHOOSE i \in S : TRUE].name
           /\ Cardinality(S) <= 1
           /\ v # None => Cardinality(S) = 1
<1>1. CASE S = {} /\ v = None
  BY <1>1, FS_EmptySet
<1>2. ASSUME NEW i \in S, S = {i}, v = d.fields[i].name PROVE v = d.fields[CHOOSE j \in S : TRUE].name /\ Cardinality(S) = 1
  <2>1. (CHOOSE j \in S : TRUE) = i
    BY <1>2
  <2>2. Cardinality(S) = 1
    BY <1>2, FS_Singleton
  <2>. QED
    BY <1>2, <2>1, <2>2
<1>. QED
  BY <1>1, <1>2 DEF PickedBy

\* The field of a name is the one that was picked.
LEMMA PickedIs ==
    ASSUME NEW d, WellDeclared(d), NEW S, S \subseteq 1..Len(d.fields), NEW v, PickedBy(v, S, d),
           NEW i \in 1..Len(d.fields), v = d.fields[i].name
    PROVE  i \in S
<1>1. v # None
  BY FieldsAre
<1>2. PICK j \in S : v = d.fields[j].name
  BY <1>1 DEF PickedBy
<1>3. i = j
  BY <1>2 DEF WellDeclared
<1>. QED
  BY <1>2, <1>3

\* Metadata without error is what the tags say.
LEMMA AsTagged ==
    ASSUME NEW d, WellDeclared(d), ~Contradictory(d), NEW r, r = parseMetadata(d), ~r.err,
           NEW N, N = Len(d.fields)
    PROVE  /\ r.pk # None
           /\ PickedBy(r.pk, KeysOf(d, "pk"), d)
           /\ PickedBy(r.sk, KeysOf(d, "sk"), d)
           /\ DOMAIN r.indexes = {name \in IndexNames : Named(d, name)}
           /\ DOMAIN r.indexes \subseteq STRING
           /\ \A name \in DOMAIN r.indexes :
                 /\ r.indexes[name].lsi = LocalIndex(d, name)
                 /\ r.indexes[name].lsi => r.indexes[name].pk = r.pk
                 /\ ~r.indexes[name].lsi => PickedBy(r.indexes[name].pk, IndexKeysOf(d, name, "pk"), d)
                 /\ PickedBy(r.indexes[name].sk, IndexKeysOf(d, name, "sk"), d)
           /\ NoEncryptedKeys(d, N)
<1>1. PICK m : m = parseFields(d)
  OBVIOUS
<1>2. Parsed(m, d, N)
  BY <1>1, ParsesMean
<1>3. m \in MetaRecords(d)
  BY <1>2 DEF Parsed
<1>4. /\ ~m.err /\ m.pk # None
      /\ r.pk = m.pk /\ r.sk = m.sk /\ DOMAIN r.indexes = DOMAIN m.indexes
      /\ \A name \in DOMAIN m.indexes :
            /\ r.indexes[name].lsi = m.indexes[name].lsi
            /\ r.indexes[name].sk = m.indexes[name].sk
            /\ r.indexes[name].pk = IF m.indexes[name].lsi THEN m.pk ELSE m.indexes[name].pk
  BY <1>1, <1>3, Finished
<1>5. KeysParsed(m, d, N) /\ IndexesParsed(m, d, N) /\ NoEncryptedKeys(d, N)
  BY <1>2, <1>4 DEF Parsed
<1>6. \A k : KeysOf(d, k) = Saying(d, N, k)
  BY Zenon DEF KeysOf, Saying
<1>7. PickedBy(r.pk, KeysOf(d, "pk"), d) /\ PickedBy(r.sk, KeysOf(d, "sk"), d)
  BY <1>4, <1>5, <1>6 DEF KeysParsed
<1>8. DOMAIN m.indexes \subseteq STRING /\ \A name \in DOMAIN m.indexes : m.indexes[name] \in IndexRecords
  BY <1>3, IndexMapsAre DEF MetaRecords
<1>9. ASSUME NEW i \in 1..N, NEW name, clauses(d.fields[i], name) # {}
      PROVE  name \in STRING /\ name \in IndexNames
  <2>1. PICK j \in 1..Len(d.fields[i].tag) : IndexClause(d.fields[i].tag[j]) /\ d.fields[i].tag[j].name = name
    BY <1>9 DEF clauses
  <2>2. d.fields[i].tag[j] \in Tokens
    BY FieldsAre, ElementOfSeq
  <2>. QED
    BY <2>1, <2>2 DEF WellDeclared, Tokens
<1>10. \A name : name \in DOMAIN m.indexes <=> NamedIn(d, N, name)
  BY <1>5, <1>8, <1>9 DEF IndexesParsed, NamedIn
<1>11. \A name : Named(d, name) <=> NamedIn(d, N, name)
  BY Zenon DEF Named, NamedIn
<1>12. \A name : NamedIn(d, N, name) => name \in IndexNames
  BY <1>9 DEF NamedIn
<1>13. DOMAIN r.indexes = {name \in IndexNames : Named(d, name)}
  BY <1>4, <1>10, <1>11, <1>12
<1>14. ASSUME NEW name \in DOMAIN r.indexes
       PROVE  /\ r.indexes[name].lsi = LocalIndex(d, name)
              /\ r.indexes[name].lsi => r.indexes[name].pk = r.pk
              /\ ~r.indexes[name].lsi => PickedBy(r.indexes[name].pk, IndexKeysOf(d, name, "pk"), d)
              /\ PickedBy(r.indexes[name].sk, IndexKeysOf(d, name, "sk"), d)
  <2>1. IndexParsed(m.indexes[name], d, N, name)
    BY <1>4, <1>5 DEF IndexesParsed
  <2>2. \A k : IndexKeysOf(d, name, k) = SayingIndex(d, N, name, k)
    BY Zenon DEF IndexKeysOf, SayingIndex
  <2>3. r.indexes[name].lsi = LocalIndex(d, name)
    <3>1. m.indexes[name].lsi \in BOOLEAN
      BY <1>4, <1>8 DEF IndexRecords
    <3>2. LocalIndex(d, name) \in BOOLEAN
      BY DEF LocalIndex
    <3>3. LocalIndex(d, name) <=> (IsLSIName(name) \/ LocalIn(d, N, name))
      BY Zenon DEF LocalIndex, LocalIn
    <3>4. m.indexes[name].lsi <=> (IsLSIName(name) \/ LocalIn(d, N, name))
      BY <2>1, Zenon DEF IndexParsed
    <3>5. m.indexes[name].lsi <=> LocalIndex(d, name)
      BY <3>3, <3>4, Zenon
    <3>6. m.indexes[name].lsi = LocalIndex(d, name)
      BY <3>1, <3>2, <3>5
    <3>. QED
      BY <1>4, <3>6
  <2>4. PickedBy(m.indexes[name].pk, IndexKeysOf(d, name, "pk"), d) /\ PickedBy(m.indexes[name].sk, IndexKeysOf(d, name, "sk"), d)
    BY <2>1, <2>2 DEF IndexParsed
  <2>. QED
    BY <1>4, <2>3, <2>4
<1>. QED
  BY <1>4, <1>5, <1>7, <1>8, <1>13, <1>14

\* The keys of a model and of its indexes are those of no encrypted field.
LEMMA NoEncryptedName ==
    ASSUME NEW d, WellDeclared(d), ~Contradictory(d), NEW r, r = parseMetadata(d), ~r.err,
           NEW i \in 1..Len(d.fields), Says(d.fields[i], "encrypted")
    PROVE  d.fields[i].name \notin {r.pk, r.sk} \cup UNION {{x.pk, x.sk} : x \in Range(r.indexes)}
<1>1. /\ ~Says(d.fields[i], "pk") /\ ~Says(d.fields[i], "sk")
      /\ \A name \in STRING : clauses(d.fields[i], name) = {}
  BY AsTagged DEF NoEncryptedKeys
<1>2. \A k : KeysOf(d, k) \subseteq 1..Len(d.fields)
  BY DEF KeysOf
<1>3. d.fields[i].name # r.pk
  <2>1. i \notin KeysOf(d, "pk")
    BY <1>1 DEF KeysOf
  <2>2. PickedBy(r.pk, KeysOf(d, "pk"), d)
    BY AsTagged
  <2>. QED
    BY <1>2, <2>1, <2>2, PickedIs
<1>4. d.fields[i].name # r.sk
  <2>1. i \notin KeysOf(d, "sk")
    BY <1>1 DEF KeysOf
  <2>2. PickedBy(r.sk, KeysOf(d, "sk"), d)
    BY AsTagged
  <2>. QED
    BY <1>2, <2>1, <2>2, PickedIs
<1>5. ASSUME NEW name \in DOMAIN r.indexes
      PROVE  d.fields[i].name # r.indexes[name].pk /\ d.fields[i].name # r.indexes[name].sk
  <2>1. name \in STRING
    BY AsTagged
  <2>2. \A k : ~SaysIndex(d.fields[i], name, k)
    BY <1>1, <2>1, NoClause
  <2>3. \A k : i \notin IndexKeysOf(d, name, k)
    BY <2>2 DEF IndexKeysOf
  <2>4. \A k : IndexKeysOf(d, name, k) \subseteq 1..Len(d.fields)
    BY DEF IndexKeysOf
  <2>5. d.fields[i].name # r.indexes[name].sk
    <3>1. PickedBy(r.indexes[name].sk, IndexKeysOf(d, name, "sk"), d)
      BY AsTagged
    <3>. QED
      BY <2>3, <2>4, <3>1, PickedIs
  <2>6. CASE r.indexes[name].lsi
    <3>1. r.indexes[name].pk = r.pk
      BY <2>6, AsTagged
    <3>. QED
      BY <1>3, <2>5, <3>1
  <2>7. CASE ~r.indexes[name].lsi
    <3>1. PickedBy(r.indexes[name].pk, IndexKeysOf(d, name, "pk"), d)
      BY <2>7, AsTagged
    <3>2. d.fields[i].name # r.indexes[name].pk
      BY <2>3, <2>4, <3>1, PickedIs
    <3>. QED
      BY <2>5, <3>2
  <2>. QED
    BY <2>6, <2>7
<1>6. \A x \in Range(r.indexes) : d.fields[i].name # x.pk /\ d.fields[i].name # x.sk
  BY <1>5 DEF Range
<1>. QED
  BY <1>3, <1>4, <1>6

\* The table made for a model defines the attributes of its keys and no other.
LEMMA TableMadeOfKeys ==
    ASSUME NEW r, \A name \in DOMAIN r.indexes : r.indexes[name].lsi => r.indexes[name].pk = r.pk
    PROVE  buildAttributeDefinitions(r)
             = (UNION {Range(k) : k \in {buildKeySchema(r)} \cup Range(buildIndexes(r))}) \ {None}
<1>. DEFINE keys == {buildKeySchema(r)} \cup Range(buildIndexes(r))
            L == {r.pk, r.sk} \cup UNION {{index.pk, index.sk} : index \in Range(r.indexes)}
            M == UNION {Range(k) : k \in keys}
<1>1. ASSUME NEW a, NEW b PROVE Range(<<a, b>>) = {a, b}
  BY DEF Range
<1>2. Range(buildKeySchema(r)) = {r.pk, r.sk}
  BY <1>1 DEF buildKeySchema
<1>3. PICK bi : bi = buildIndexes(r)
  OBVIOUS
<1>4. DOMAIN bi = DOMAIN r.indexes
  BY <1>3 DEF buildIndexes
<1>5. ASSUME NEW name \in DOMAIN r.indexes
      PROVE  Range(bi[name]) = {r.indexes[name].pk, r.indexes[name].sk}
  <2>1. bi[name] = <<IF r.indexes[name].lsi THEN r.pk ELSE r.indexes[name].pk, r.indexes[name].sk>>
    BY <1>3 DEF buildIndexes
  <2>2. (IF r.indexes[name].lsi THEN r.pk ELSE r.indexes[name].pk) = r.indexes[name].pk
    OBVIOUS
  <2>3. bi[name] = <<r.indexes[name].pk, r.indexes[name].sk>>
    BY <2>1, <2>2
  <2>. QED
    BY <1>1, <2>3
<1>6. \A k : k \in keys <=> k = buildKeySchema(r) \/ \E name \in DOMAIN r.indexes : k = bi[name]
  BY <1>3, <1>4 DEF Range
<1>7. ASSUME NEW x PROVE x \in M <=> x \in {r.pk, r.sk} \/ \E name \in DOMAIN r.indexes : x \in Range(bi[name])
  <2>. HIDE DEF keys
  <2>. QED
    BY <1>2, <1>6
<1>8. ASSUME NEW x PROVE x \in L <=> x \in {r.pk, r.sk} \/
                 \E name \in DOMAIN r.indexes : x \in {r.indexes[name].pk, r.indexes[name].sk}
  BY DEF Range
<1>9. ASSUME NEW x PROVE x \in L <=> x \in M
  <2>. HIDE DEF L, M, keys
  <2>. QED
    BY <1>5, <1>7, <1>8
<1>10. buildAttributeDefinitions(r) = L \ {None}
  BY Zenon DEF buildAttributeDefinitions
<1>11. L \ {None} = M \ {None}
  <2>. HIDE DEF L, M, keys
  <2>. QED
    BY <1>9
<1>. QED
  BY <1>10, <1>11, Zenon

\* What is registered was parsed from the definition of its type.
RegisteredFrom(d, ms) ==
    /\ d \in Definitions
    /\ \A t \in DOMAIN ms : t \in DOMAIN d /\ ms[t] = parseMetadata(d[t]) /\ ~ms[t].err

FromDefinitions == RegisteredFrom(def, models)

\* What was parsed from its definition is what the tags say.
LEMMA FromDefinitionsTagged == FromDefinitions => RegisteredAsTagged
<1>1. SUFFICES ASSUME FromDefinitions, NEW t \in DOMAIN models, ~Contradictory(def[t]),
                      NEW d, d = def[t], NEW r, r = models[t]
      PROVE  LET at(set) == IF set = {} THEN None ELSE d.fields[CHOOSE i \in set : TRUE].name
             IN  /\ Cardinality(KeysOf(d, "pk")) = 1
                 /\ r.pk = at(KeysOf(d, "pk"))
                 /\ Cardinality(KeysOf(d, "sk")) <= 1
                 /\ r.sk = at(KeysOf(d, "sk"))
                 /\ DOMAIN r.indexes = {name \in IndexNames : Named(d, name)}
                 /\ \A name \in DOMAIN r.indexes :
                       LET index == r.indexes[name]
                       IN  /\ index.lsi = LocalIndex(d, name)
                           /\ index.pk = IF index.lsi THEN r.pk ELSE at(IndexKeysOf(d, name, "pk"))
                           /\ index.sk = at(IndexKeysOf(d, name, "sk"))
                 /\ \A i \in 1..Len(d.fields) :
                       Says(d.fields[i], "encrypted") =>
                           d.fields[i].name \notin {r.pk, r.sk}
                               \cup UNION {{x.pk, x.sk} : x \in Range(r.indexes)}
                 /\ LET keys == {buildKeySchema(r)} \cup Range(buildIndexes(r))
                    IN  buildAttributeDefinitions(r) = (UNION {Range(k) : k \in keys}) \ {None}
  BY Zenon DEF RegisteredAsTagged
<1>2. def \in Definitions /\ t \in DOMAIN def /\ r = parseMetadata(d) /\ ~r.err
  BY <1>1 DEF FromDefinitions, RegisteredFrom
<1>3. WellDeclared(d)
  BY <1>1, <1>2, RegistryAssumption, Zenon DEF WellDeclared
<1>4. ~Contradictory(d)
  BY <1>1
<1>5. r.pk # None /\ PickedBy(r.pk, KeysOf(d, "pk"), d) /\ PickedBy(r.sk, KeysOf(d, "sk"), d)
  BY <1>2, <1>3, <1>4, AsTagged
<1>6. DOMAIN r.indexes = {name \in IndexNames : Named(d, name)}
  BY <1>2, <1>3, <1>4, AsTagged
<1>. DEFINE at(set) == IF set = {} THEN None ELSE d.fields[CHOOSE i \in set : TRUE].name
<1>7. /\ Cardinality(KeysOf(d, "pk")) = 1 /\ r.pk = at(KeysOf(d, "pk"))
      /\ Cardinality(KeysOf(d, "sk")) <= 1 /\ r.sk = at(KeysOf(d, "sk"))
  BY <1>5, PickedAt
<1>8. ASSUME NEW name \in DOMAIN r.indexes
      PROVE  /\ r.indexes[name].lsi = LocalIndex(d, name)
             /\ r.indexes[name].pk = IF r.indexes[name].lsi THEN r.pk ELSE at(IndexKeysOf(d, name, "pk"))
             /\ r.indexes[name].sk = at(IndexKeysOf(d, name, "sk"))
             /\ r.indexes[name].lsi => r.indexes[name].pk = r.pk
  <2>1. /\ r.indexes[name].lsi = LocalIndex(d, name)
        /\ r.indexes[name].lsi => r.indexes[name].pk = r.pk
        /\ ~r.indexes[name].lsi => PickedBy(r.indexes[name].pk, IndexKeysOf(d, name, "pk"), d)
        /\ PickedBy(r.indexes[name].sk, IndexKeysOf(d, name, "sk"), d)
    BY <1>2, <1>3, <1>4, AsTagged
  <2>2. ~r.indexes[name].lsi => r.indexes[name].pk = at(IndexKeysOf(d, name, "pk"))
    BY <2>1, PickedAt
  <2>3. r.indexes[name].sk = at(IndexKeysOf(d, name, "sk"))
    BY <2>1, PickedAt
  <2>. HIDE DEF at
  <2>. QED
    BY <2>1, <2>2, <2>3
<1>9. ASSUME NEW i \in 1..Len(d.fields), Says(d.fields[i], "encrypted")
      PROVE  d.fields[i].name \notin {r.pk, r.sk} \cup UNION {{x.pk, x.sk} : x \in Range(r.indexes)}
  BY <1>2, <1>3, <1>4, <1>9, NoEncryptedName
<1>10. buildAttributeDefinitions(r) = (UNION {Range(k) : k \in {buildKeySchema(r)} \cup Range(buildIndexes(r))}) \ {None}
  BY <1>8, TableMadeOfKeys
<1>. QED
  BY <1>6, <1>7, <1>8, <1>9, <1>10, Zenon

\* A registration parses the definition of its type.
LEMMA RegistersFrom ==
    ASSUME FromDefinitions, [RegistryNext]_registryVars
    PROVE  FromDefinitions'
<1>1. CASE UNCHANGED registryVars
  BY <1>1 DEF registryVars, FromDefinitions, RegisteredFrom
<1>2. ASSUME NEW t \in DOMAIN def, Register(t) PROVE FromDefinitions'
  <2>1. PICK md : md = parseMetadata(def[t])
    OBVIOUS
  <2>2. def' = def
    BY <1>2 DEF Register
  <2>3. CASE md.err
    <3>1. models' = models
      BY <1>2, <2>1, <2>3 DEF Register
    <3>. QED
      BY <2>2, <3>1 DEF FromDefinitions, RegisteredFrom
  <2>4. CASE ~md.err
    <3>1. models' = put(models, t, md)
      BY <1>2, <2>1, <2>4 DEF Register
    <3>2. /\ DOMAIN models' = DOMAIN models \cup {t}
          /\ \A x \in DOMAIN models' : models'[x] = IF x = t THEN md ELSE models[x]
      BY <3>1 DEF put
    <3>3. ASSUME NEW x \in DOMAIN models' PROVE x \in DOMAIN def /\ models'[x] = parseMetadata(def[x]) /\ ~models'[x].err
      <4>1. CASE x = t
        BY <2>1, <2>4, <3>2, <4>1
      <4>2. CASE x # t
        BY <3>2, <4>2 DEF FromDefinitions, RegisteredFrom
      <4>. QED
        BY <4>1, <4>2
    <3>. QED
      BY <2>2, <3>3 DEF FromDefinitions, RegisteredFrom
  <2>. QED
    BY <2>3, <2>4
<1>. QED
  BY <1>1, <1>2 DEF RegistryNext

\* For any definitions, number of fields, tokens and indexes, a registered
\* model is exactly what its tags say, whatever the order of its fields and
\* tokens (registry.go:163, registry.go:631, manager.go:145).
THEOREM Registered == RegistrySpec => []RegisteredAsTagged
<1>1. RegistryInit => FromDefinitions
  <2>1. SUFFICES ASSUME RegistryInit PROVE FromDefinitions
    OBVIOUS
  <2>2. DOMAIN models = {}
    BY <2>1 DEF RegistryInit
  <2>. QED
    BY <2>1, <2>2 DEF RegistryInit, FromDefinitions, RegisteredFrom
<1>2. FromDefinitions /\ [RegistryNext]_registryVars => FromDefinitions'
  BY RegistersFrom
<1>. QED
  BY <1>1, <1>2, FromDefinitionsTagged, PTL DEF RegistrySpec
=============================================================================
