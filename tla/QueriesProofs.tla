---------------------------- MODULE QueriesProofs ----------------------------
(***************************************************************************)
(* What a query asks for, what it answers and how it is planned.           *)
(*                                                                         *)
(* Reads of many pages return what was there, for any table, any filter,   *)
(* any limits, any number of segments, and writes, failures and retries at *)
(* any time.  Plans fit the queries they are used for, for any number of   *)
(* queries and goroutines.  Requests mean what the calls of a query and of *)
(* an UpdateBuilder ask for, for any calls on any table.                   *)
(***************************************************************************)
EXTENDS QueryBuilder, ReadPath, Optimizer, FiniteSetTheorems, SequenceTheorems, WellFoundedInduction, TLAPS

------------------------------------------------------------------------------
\* The positions a worker of a read walks over.
Walk(op, w) == IF op = "ScanAllSegments" THEN {p \in Positions : SegmentOf(p) = w} ELSE Positions

\* Items collected up to a position: all that were there throughout, in order.
Reached(items, after, where, al, ev) ==
    /\ after \in 0..LastPosition
    /\ Increasing(items)
    /\ \A p \in Range(items) : p \in ev /\ p \in where /\ p <= after
    /\ \A p \in al \cap where : p <= after => p \in Range(items)

\* Items a worker hands over: all that were there throughout, up to the limit.
Gathered(items, c, where, al, ev) ==
    /\ Increasing(items)
    /\ \A p \in Range(items) : p \in ev /\ p \in where
    /\ \A p \in al \cap where :
          p \in Range(items) \/ (c.limit \in 1..Len(items) /\ items[c.limit] < p)
    /\ (c.exec = "db" /\ c.op # "Count" /\ c.limit > 0) => Len(items) <= c.limit

\* What a worker has in hand is right as far as it has come.
WorkerRight(k, w, c, al, ev) ==
    /\ k.pc = "reading" => Reached(k.items, k.after, Walk(c.op, w), al, ev)
    /\ (k.pc = "collected" \/ (k.pc = "sent" /\ k.after # -1)) =>
          Gathered(k.items, c, Walk(c.op, w), al, ev)

\* Between two pages of AllPaginated the caller holds the items and the cursor.
CursorRight(c, k, al, ev) ==
    c.op = "AllPaginated" =>
        /\ k[0].pc # "collected"
        /\ (c.pc = "running" /\ k[0].pc = "off") =>
              \E e \in Positions : /\ c.cursor = EncodeCursor(KeyOf(e), "", "")
                                   /\ Reached(c.items, e, Positions, al, ev)

\* A parallel scan has put together what the segments sent that it has received.
ReceivedRight(c, k) ==
    (c.op = "ScanAllSegments" /\ c.pc = "running") =>
        /\ \A w \in c.received : k[w].pc = "sent" /\ k[w].after # -1
        /\ IsInjective(c.items)
        /\ \A p \in Positions : p \in Range(c.items) <=> \E w \in c.received : p \in Range(k[w].items)

\* The cursors a read hands out.
Stopped == {NoCursor} \cup {EncodeCursor(KeyOf(p), "", "") : p \in Positions}

Calls ==
    [pc : {"running", "done"}, op : {"First", "All", "Count", "AllPaginated", "ScanAllSegments"},
     exec : {"db", "main"}, limit : Nat, retries : Int, attempt : Nat, items : Seq(Positions),
     received : SUBSET Segments, err : {"none", "failed", "notfound"}, cursor : Stopped]

Workers ==
    [pc : {"off", "reading", "collected", "failed", "sent"}, after : Int, items : Seq(Positions)]

\* The hits of a table, and ReadExact of a call.
HitsOf(tab) == {p \in Positions : tab[p] = "hit"}

CompleteOf(items, limit, where, al) ==
    \A p \in al \cap where :
        \/ p \in Range(items)
        \/ limit > 0 /\ Cardinality({o \in Range(items) \cap where : o < p}) >= limit

ExactOf(c, al, ev) ==
    c.retries < 0 \/
    /\ (c.pc = "done" /\ c.err = "none") =>
        /\ Range(c.items) \subseteq ev
        /\ IF c.op = "ScanAllSegments"
           THEN /\ IsInjective(c.items)
                /\ \A w \in Segments : CompleteOf(c.items, c.limit, Walk(c.op, w), al)
           ELSE /\ Increasing(c.items)
                /\ CompleteOf(c.items, IF c.op = "AllPaginated" THEN 0 ELSE c.limit, Positions, al)
        /\ (c.op \in {"First", "All"} /\ c.exec = "db" /\ c.limit > 0) => Len(c.items) <= c.limit
    /\ (c.pc = "done" /\ c.err = "notfound") => al = {}

Types(tab, c, k, al, ev) ==
    /\ tab \in [Positions -> {"none", "hit", "miss"}]
    /\ k \in [Segments -> Workers]
    /\ al \subseteq Positions /\ ev \subseteq Positions
    /\ c \in Calls \/ (c = Idle /\ \A w \in Segments : k[w].pc = "off")

UnderWay(tab, c, k, al, ev) ==
    c # Idle =>
        /\ al \subseteq HitsOf(tab) /\ HitsOf(tab) \subseteq ev
        /\ c.pc = "running" => c.err = "none"
        /\ \A w \in Segments : WorkerRight(k[w], w, c, al, ev)
        /\ CursorRight(c, k, al, ev)
        /\ ReceivedRight(c, k)

\* The invariant, as a predicate on a state.
Right(tab, c, k, al, ev) ==
    Types(tab, c, k, al, ev) /\ UnderWay(tab, c, k, al, ev) /\ ExactOf(c, al, ev)

ReadInv == Right(table, call, worker, always, ever)

------------------------------------------------------------------------------
(***************************************************************************)
(* Sequences of positions in order.                                        *)
(***************************************************************************)
\* A set of natural numbers has a least one.
LEMMA Smallest ==
    ASSUME NEW N, N \subseteq Nat, N # {}
    PROVE  \E m \in N : \A k \in N : m <= k
<1>1. PICK m \in N : \A k \in N : ~(<<k, m>> \in OpToRel(<, Nat))
  BY NatLessThanWellFounded, WFMin, Zenon
<1>2. \A k \in N : ~(k < m)
  BY <1>1, Zenon DEF OpToRel
<1>. QED
  BY <1>2

\* What a sequence of positions holds.
LEMMA ItemFacts ==
    ASSUME NEW s \in Seq(Positions)
    PROVE  /\ Len(s) \in Nat /\ DOMAIN s = 1..Len(s)
           /\ \A i \in 1..Len(s) : s[i] \in Range(s) /\ s[i] \in Positions
           /\ \A p \in Range(s) : p \in Positions /\ \E i \in 1..Len(s) : s[i] = p
           /\ Positions \subseteq Nat
  BY ReadAssumption, LenProperties, ElementOfSeq DEF Range, Positions

\* A new position behind the others.
LEMMA Longer ==
    ASSUME NEW S, S \subseteq Positions, NEW s \in Seq(S), Range(s) = S, Increasing(s),
           NEW p \in Positions, \A o \in S : o < p
    PROVE  \E t \in Seq(S \cup {p}) : Range(t) = S \cup {p} /\ Increasing(t) /\ Len(t) = Len(s) + 1
<1>1. s \in Seq(S \cup {p}) /\ p \in S \cup {p}
  BY SeqMonotonic
<1>2. PICK t : t = Append(s, p)
  OBVIOUS
<1>3. /\ t \in Seq(S \cup {p}) /\ Len(t) = Len(s) + 1
      /\ \A i \in 1..Len(s) : t[i] = s[i]
      /\ t[Len(s) + 1] = p
  BY <1>1, <1>2, AppendProperties
<1>4. Len(s) \in Nat /\ DOMAIN s = 1..Len(s) /\ DOMAIN t = 1..Len(t) /\ \A i \in 1..Len(s) : s[i] \in S
  BY <1>3, LenProperties, ElementOfSeq
<1>5. Range(t) = S \cup {p}
  <2>1. \A x \in Range(t) : x \in S \cup {p}
    BY <1>3, <1>4 DEF Range
  <2>2. \A x \in S : x \in Range(t)
    <3>. TAKE x \in S
    <3>1. PICK i \in 1..Len(s) : s[i] = x
      BY <1>4 DEF Range
    <3>2. i \in 1..Len(t) /\ t[i] = x
      BY <1>3, <1>4, <3>1
    <3>. QED
      BY <1>4, <3>2 DEF Range
  <2>3. p \in Range(t)
    BY <1>3, <1>4 DEF Range
  <2>. QED
    BY <2>1, <2>2, <2>3
<1>6. Increasing(t)
  <2>. SUFFICES ASSUME NEW i \in 1..Len(t), NEW j \in 1..Len(t), i < j PROVE t[i] < t[j]
    BY DEF Increasing
  <2>1. i \in 1..Len(s) /\ t[i] = s[i] /\ s[i] \in S
    BY <1>3, <1>4
  <2>2. CASE j \in 1..Len(s)
    BY <1>3, <2>1, <2>2 DEF Increasing
  <2>3. CASE j = Len(s) + 1
    BY <1>3, <2>1, <2>3
  <2>. QED
    BY <1>3, <1>4, <2>2, <2>3
<1>. QED
  BY <1>3, <1>5, <1>6

\* A set of positions that can be put in order, and its part up to n.
CanOrder(S) == \E s \in Seq(S) : Range(s) = S /\ Increasing(s)

UpTo(S, n) == {p \in S : p <= n}

\* One position more.
LEMMA OneMore ==
    ASSUME NEW S, S \subseteq Positions, NEW n \in Nat, CanOrder(UpTo(S, n))
    PROVE  CanOrder(UpTo(S, n + 1))
<1>0. \A p \in S : p \in Nat
  BY ReadAssumption DEF Positions
<1>. PICK T : T = UpTo(S, n)
  OBVIOUS
<1>1. CASE n + 1 \notin S
  <2>1. UpTo(S, n + 1) = T
    BY <1>0, <1>1 DEF UpTo
  <2>. QED
    BY <2>1
<1>2. CASE n + 1 \in S
  <2>1. UpTo(S, n + 1) = T \cup {n + 1}
    BY <1>0, <1>2 DEF UpTo
  <2>2. T \subseteq Positions /\ n + 1 \in Positions /\ \A o \in T : o < n + 1
    BY <1>0, <1>2 DEF UpTo
  <2>3. PICK s \in Seq(T) : Range(s) = T /\ Increasing(s)
    BY DEF CanOrder
  <2>4. CanOrder(T \cup {n + 1})
    BY <2>2, <2>3, Longer DEF CanOrder
  <2>. QED
    BY <2>1, <2>4
<1>. QED
  BY <1>1, <1>2

\* Every set of positions can be put in order: the least n for which the part up
\* to n could not would have one before it.
LEMMA CanBeOrdered ==
    ASSUME NEW S, S \subseteq Positions
    PROVE  CanOrder(S)
<1>. DEFINE Bad == {n \in Nat : ~CanOrder(UpTo(S, n))}
<1>0. LastPosition \in Nat /\ \A p \in S : p \in Nat /\ 0 < p /\ p <= LastPosition
  BY ReadAssumption DEF Positions
<1>1. CanOrder(UpTo(S, 0))
  <2>1. UpTo(S, 0) = {}
    BY <1>0 DEF UpTo
  <2>2. <<>> \in Seq({}) /\ Range(<<>>) = {} /\ Increasing(<<>>)
    <3>1. <<>> \in Seq({}) /\ Len(<<>>) = 0 /\ DOMAIN <<>> = 1..Len(<<>>)
      BY EmptySeq, LenProperties
    <3>2. 1..Len(<<>>) = {}
      BY <3>1
    <3>. QED
      BY <3>1, <3>2 DEF Range, Increasing
  <2>. QED
    BY <2>1, <2>2 DEF CanOrder
<1>2. Bad = {}
  <2>. SUFFICES ASSUME Bad # {} PROVE FALSE
    OBVIOUS
  <2>1. PICK m \in Bad : \A k \in Bad : m <= k
    BY Smallest
  <2>2. m \in Nat /\ ~CanOrder(UpTo(S, m))
    OBVIOUS
  <2>3. m # 0
    BY <1>1, <2>2
  <2>. PICK k : k = m - 1
    OBVIOUS
  <2>4. k \in Nat /\ k < m /\ m = k + 1
    BY <2>2, <2>3
  <2>5. k \notin Bad
    BY <2>1, <2>2, <2>4
  <2>6. CanOrder(UpTo(S, k))
    BY <2>4, <2>5
  <2>. QED
    BY <2>2, <2>4, <2>6, OneMore
<1>3. UpTo(S, LastPosition) = S
  BY <1>0 DEF UpTo
<1>. QED
  BY <1>0, <1>2, <1>3

\* No position twice.
LEMMA NoneTwice ==
    ASSUME NEW s \in Seq(Positions), Increasing(s)
    PROVE  IsInjective(s) /\ IsFiniteSet(Range(s)) /\ Cardinality(Range(s)) = Len(s)
<1>1. Len(s) \in Nat /\ DOMAIN s = 1..Len(s) /\ \A i \in 1..Len(s) : s[i] \in Nat /\ s[i] \in Range(s)
  BY ItemFacts
<1>2. \A i, j \in 1..Len(s) : s[i] = s[j] => i = j
  <2>. SUFFICES ASSUME NEW i \in 1..Len(s), NEW j \in 1..Len(s), s[i] = s[j], i # j PROVE FALSE
    OBVIOUS
  <2>1. i < j \/ j < i
    BY <1>1
  <2>2. s[i] < s[j] \/ s[j] < s[i]
    BY <2>1 DEF Increasing
  <2>. QED
    BY <1>1, <2>2
<1>3. IsInjective(s)
  BY <1>1, <1>2 DEF IsInjective
<1>4. s \in [1..Len(s) -> Range(s)]
  BY <1>1, LenProperties
<1>5. s \in Surjection(1..Len(s), Range(s)) /\ s \in Injection(1..Len(s), Range(s))
  BY <1>1, <1>3, <1>4 DEF Surjection, Injection, Range
<1>6. IsFiniteSet(1..Len(s)) /\ Cardinality(1..Len(s)) = Len(s)
  <2>1. PICK k \in Nat : k = Len(s)
    BY <1>1
  <2>2. IsFiniteSet(1..k) /\ Cardinality(1..k) = k
    BY FS_Interval
  <2>. QED
    BY <2>1, <2>2
<1>. QED
  BY <1>3, <1>5, <1>6, FS_Surjection

\* The items of a page, in order.
LEMMA InOrder ==
    ASSUME NEW S, S \subseteq Positions
    PROVE  inOrder(S) \in Seq(Positions) /\ Range(inOrder(S)) = S /\ Increasing(inOrder(S))
<1>1. PICK s \in Seq(S) : Range(s) = S /\ Increasing(s)
  BY CanBeOrdered DEF CanOrder
<1>2. s \in Seq(Positions)
  BY SeqMonotonic
<1>3. Cardinality(S) = Len(s)
  BY <1>1, <1>2, NoneTwice
<1>4. s \in [1..Cardinality(S) -> S]
  BY <1>1, <1>3, LenProperties
<1>5. PICK t : t = inOrder(S)
  OBVIOUS
<1>6. t \in [1..Cardinality(S) -> S] /\ Range(t) = S /\ Increasing(t)
  BY <1>1, <1>4, <1>5 DEF inOrder
<1>7. t \in Seq(S)
  <2>1. Cardinality(S) \in Nat
    BY <1>3, LenProperties
  <2>. QED
    BY <1>6, <2>1
<1>. QED
  BY <1>5, <1>6, <1>7, SeqMonotonic

\* What comes first in order, up to an index, is as many as the index says.
LEMMA Before ==
    ASSUME NEW s \in Seq(Positions), Increasing(s), NEW m \in 1..Len(s),
           NEW p \in Positions, s[m] < p, NEW A, \A o \in Range(s) : o < p => o \in A,
           A \subseteq Positions
    PROVE  Cardinality(A) >= m
<1>1. /\ Len(s) \in Nat /\ DOMAIN s = 1..Len(s) /\ Positions \subseteq Nat
      /\ \A i \in 1..Len(s) : s[i] \in Positions /\ s[i] \in Range(s)
  BY ItemFacts
<1>2. PICK f : f = [i \in 1..m |-> s[i]]
  OBVIOUS
<1>3. \A i \in 1..m : i \in 1..Len(s) /\ s[i] \in A
  <2>. TAKE i \in 1..m
  <2>1. i \in 1..Len(s) /\ (i = m \/ i < m)
    BY <1>1
  <2>2. s[i] < p
    <3>1. CASE i = m
      BY <3>1
    <3>2. CASE i < m
      <4>1. s[i] < s[m]
        BY <2>1, <3>2 DEF Increasing
      <4>. QED
        <5>1. m \in 1..Len(s) /\ s[i] \in Nat /\ s[m] \in Nat /\ p \in Nat
          BY <1>1, <2>1
        <5>. QED
          BY <4>1, <5>1
    <3>. QED
      BY <2>1, <3>1, <3>2
  <2>. QED
    BY <1>1, <2>1, <2>2
<1>4. f \in [1..m -> A]
  BY <1>2, <1>3
<1>5. IsInjective(s)
  BY NoneTwice
<1>6. f \in Injection(1..m, A)
  BY <1>1, <1>2, <1>3, <1>4, <1>5 DEF Injection, IsInjective
<1>7. IsFiniteSet(A)
  <2>1. IsFiniteSet(Positions)
    BY ReadAssumption, FS_Interval DEF Positions
  <2>. QED
    BY <2>1, FS_Subset
<1>8. Cardinality(1..m) <= Cardinality(A)
  BY <1>6, <1>7, FS_Injection
<1>9. Cardinality(1..m) = m
  <2>1. PICK k \in Nat : k = m /\ k > 0
    BY <1>1
  <2>2. Cardinality(1..k) = k
    BY <2>1, FS_Interval
  <2>. QED
    BY <2>1, <2>2
<1>. QED
  <2>1. Cardinality(A) \in Nat /\ m \in Nat
    BY <1>1, <1>7, FS_CardinalityType
  <2>. QED
    BY <1>8, <1>9, <2>1

------------------------------------------------------------------------------
(***************************************************************************)
(* Cursors.                                                                *)
(***************************************************************************)
\* An attribute of a key comes back from its JSON.
LEMMA AttributeComesBack ==
    ASSUME NEW t \in {"S", "N", "B"}, NEW v
    PROVE  jsonToAttributeValue(attributeValueToJSON([t |-> t, v |-> v])) = [t |-> t, v |-> v]
<1>1. PICK av : av = [t |-> t, v |-> v]
  OBVIOUS
<1>2. av.t = t /\ av.v = v
  BY <1>1
<1>3. PICK j : j = attributeValueToJSON(av)
  OBVIOUS
<1>4. CASE t = "B"
  <2>1. j = <<t, base64(v)>>
    BY <1>2, <1>3, <1>4 DEF attributeValueToJSON
  <2>2. j[1] = t /\ j[2] = base64(v)
    BY <2>1
  <2>3. unbase64(base64(v)) = v
    BY DEF base64, unbase64, Str
  <2>4. jsonToAttributeValue(j) = [t |-> t, v |-> v]
    BY <1>4, <2>2, <2>3 DEF jsonToAttributeValue, jsonBinaryToAttributeValue
  <2>. QED
    BY <1>1, <1>3, <2>4
<1>5. CASE t # "B"
  <2>1. j = <<t, Str(v)>>
    BY <1>2, <1>3, <1>5 DEF attributeValueToJSON
  <2>2. j[1] = t /\ j[2] = Str(v)
    BY <2>1
  <2>3. Str(v)[2] = v
    BY DEF Str
  <2>4. jsonToAttributeValue(j) = [t |-> t, v |-> v]
    BY <1>5, <2>2, <2>3 DEF jsonToAttributeValue
  <2>. QED
    BY <1>1, <1>3, <2>4
<1>. QED
  BY <1>4, <1>5

\* A cursor brings back the key it was made of.
LEMMA KeyComesBack ==
    ASSUME NEW key, IsKey(key)
    PROVE  EncodeCursor(key, "", "") # NoCursor /\ DecodeCursor(EncodeCursor(key, "", "")) = key
<1>1. PICK json : json = [a \in DOMAIN key |-> attributeValueToJSON(key[a])]
  OBVIOUS
<1>2. PICK cursor : cursor = [lastKey |-> json, index |-> "", sort |-> ""]
  OBVIOUS
<1>3. cursor = EncodeCursor(key, "", "")
  BY <1>1, <1>2 DEF IsKey, EncodeCursor
<1>4. cursor # NoCursor
  <2>1. "lastKey" \in DOMAIN cursor /\ "lastKey" \notin DOMAIN NoCursor
    BY <1>2 DEF NoCursor
  <2>. QED
    BY <2>1
<1>5. cursor.lastKey = json /\ DOMAIN json = DOMAIN key
  BY <1>1, <1>2
<1>6. \A a \in DOMAIN key : jsonToAttributeValue(json[a]) = key[a]
  <2>. TAKE a \in DOMAIN key
  <2>1. json[a] = attributeValueToJSON(key[a])
    BY <1>1
  <2>2. key[a] = [t |-> key[a].t, v |-> key[a].v] /\ key[a].t \in {"S", "N", "B"}
    BY DEF IsKey
  <2>3. PICK t, v : t = key[a].t /\ v = key[a].v
    OBVIOUS
  <2>4. jsonToAttributeValue(attributeValueToJSON([t |-> t, v |-> v])) = [t |-> t, v |-> v]
    BY <2>2, <2>3, AttributeComesBack
  <2>. QED
    BY <2>1, <2>2, <2>3, <2>4
<1>7. DecodeCursor(cursor) = [a \in DOMAIN key |-> jsonToAttributeValue(json[a])]
  BY <1>4, <1>5 DEF DecodeCursor
<1>8. [a \in DOMAIN key |-> jsonToAttributeValue(json[a])] = [a \in DOMAIN key |-> key[a]]
  BY <1>6
<1>. QED
  BY <1>3, <1>4, <1>7, <1>8 DEF IsKey

\* Where DynamoDB stopped is where the next page starts.
LEMMA StartsWhereStopped ==
    ASSUME NEW p \in Positions
    PROVE  /\ LastEvaluatedKey(p) = KeyOf(p) /\ KeyOf(p) # NoCursor
           /\ ExclusiveStartKey(KeyOf(p)) = p
           /\ EncodeCursor(KeyOf(p), "", "") # NoCursor
           /\ ExclusiveStartKey(DecodeCursor(EncodeCursor(KeyOf(p), "", ""))) = p
<1>1. IsKey(KeyOf(p)) /\ \A o \in Positions : KeyOf(o) = KeyOf(p) => o = p
  BY ReadAssumption
<1>2. ~(p > LastPosition)
  BY ReadAssumption DEF Positions
<1>3. LastEvaluatedKey(p) = KeyOf(p) /\ KeyOf(p) # NoCursor
  BY <1>1, <1>2 DEF LastEvaluatedKey, IsKey
<1>4. ExclusiveStartKey(KeyOf(p)) = p
  BY <1>1, <1>3 DEF ExclusiveStartKey
<1>. QED
  BY <1>1, <1>3, <1>4, KeyComesBack

\* Nothing is left behind the last position.
LEMMA NothingLeft ==
    ASSUME NEW e, e = LastPosition + 1
    PROVE  LastEvaluatedKey(e) = NoCursor
  BY ReadAssumption DEF LastEvaluatedKey

------------------------------------------------------------------------------
(***************************************************************************)
(* One page.                                                               *)
(***************************************************************************)
\* The items a page brings.
Between(S, after, e, where, H) ==
    \A p \in Positions : p \in S <=> (p \in where /\ after < p /\ p <= e /\ p \in H)

\* A page that comes after the items so far.
Follows(more, items, after, where, al, ev, H, e, S) ==
    /\ items \in Seq(Positions) /\ where \subseteq Positions /\ Reached(items, after, where, al, ev)
    /\ H \subseteq Positions /\ al \subseteq H /\ H \subseteq ev
    /\ e \in 1..(LastPosition + 1) /\ after < e
    /\ S \subseteq Positions /\ Between(S, after, e, where, H)
    /\ more = items \o inOrder(S)

\* Items of a page that ends at e.
Page(items, e, where, al, ev) ==
    /\ items \in Seq(Positions) /\ Increasing(items)
    /\ e \in 1..(LastPosition + 1)
    /\ \A p \in Range(items) : p \in ev /\ p \in where /\ p <= e
    /\ \A p \in al \cap where : p <= e => p \in Range(items)

\* A page adds the items it walked over, in order.
LEMMA PageAdds ==
    ASSUME NEW more, NEW items, NEW after, NEW where, NEW al, NEW ev, NEW H, NEW e, NEW S,
           Follows(more, items, after, where, al, ev, H, e, S)
    PROVE  Page(more, e, where, al, ev)
<1>. USE DEF Follows
<1>0. LastPosition \in Nat /\ after \in Nat /\ Positions \subseteq Nat
  BY ReadAssumption DEF Reached, Positions
<1>1. PICK page : page = inOrder(S)
  OBVIOUS
<1>2. page \in Seq(Positions) /\ Range(page) = S /\ Increasing(page)
  BY <1>1, InOrder
<1>3. /\ more \in Seq(Positions) /\ Len(more) = Len(items) + Len(page)
      /\ \A i \in 1..(Len(items) + Len(page)) :
            more[i] = IF i <= Len(items) THEN items[i] ELSE page[i - Len(items)]
  BY <1>1, <1>2, ConcatProperties
<1>4. Range(more) = Range(items) \cup S
  <2>1. more = items \o page
    BY <1>1
  <2>2. Range(items \o page) = Range(items) \cup Range(page)
    BY <1>2, RangeConcatenation
  <2>. QED
    BY <1>2, <2>1, <2>2
<1>5. Increasing(more)
  <2>. SUFFICES ASSUME NEW i \in 1..Len(more), NEW j \in 1..Len(more), i < j PROVE more[i] < more[j]
    BY DEF Increasing
  <2>1. Len(items) \in Nat /\ Len(page) \in Nat /\ i \in Nat /\ j \in Nat
    BY <1>2, LenProperties
  <2>2. CASE j <= Len(items)
    <3>1. i \in 1..Len(items) /\ j \in 1..Len(items)
      BY <1>3, <2>1, <2>2
    <3>2. items[i] < items[j]
      BY <3>1 DEF Reached, Increasing
    <3>. QED
      BY <1>3, <2>1, <2>2, <3>1, <3>2
  <2>3. CASE i <= Len(items) /\ j > Len(items)
    <3>1. i \in 1..Len(items) /\ j - Len(items) \in 1..Len(page)
      BY <1>3, <2>1, <2>3
    <3>2. more[i] = items[i] /\ more[j] = page[j - Len(items)]
      BY <1>3, <2>1, <2>3
    <3>3. items[i] \in Range(items) /\ items[i] \in Nat /\ page[j - Len(items)] \in S
      BY <1>0, <1>2, <3>1, ItemFacts
    <3>4. items[i] <= after /\ after < page[j - Len(items)]
      BY <3>3 DEF Reached, Between
    <3>5. page[j - Len(items)] \in Nat
      BY <1>0, <3>3
    <3>. QED
      BY <1>0, <3>2, <3>3, <3>4, <3>5
  <2>4. CASE i > Len(items)
    <3>1. i - Len(items) \in 1..Len(page) /\ j - Len(items) \in 1..Len(page) /\ i - Len(items) < j - Len(items)
      BY <1>3, <2>1, <2>4
    <3>2. page[i - Len(items)] < page[j - Len(items)]
      BY <1>2, <3>1 DEF Increasing
    <3>3. more[i] = page[i - Len(items)] /\ more[j] = page[j - Len(items)]
      <4>1. ~(i <= Len(items)) /\ ~(j <= Len(items)) /\ i \in 1..(Len(items) + Len(page))
        BY <1>3, <2>1, <2>4
      <4>2. j \in 1..(Len(items) + Len(page))
        BY <1>3
      <4>. QED
        BY <1>3, <4>1, <4>2
    <3>. QED
      BY <3>2, <3>3
  <2>. QED
    BY <2>1, <2>2, <2>3, <2>4
<1>6. \A p \in Range(more) : p \in ev /\ p \in where /\ p <= e
  <2>. TAKE p \in Range(more)
  <2>1. CASE p \in S
    BY <2>1 DEF Between
  <2>2. CASE p \in Range(items)
    <3>1. p \in ev /\ p \in where /\ p <= after
      BY <2>2 DEF Reached
    <3>2. p \in Nat
      BY <1>0, <3>1
    <3>. QED
      BY <1>0, <3>1, <3>2
  <2>. QED
    BY <1>4, <2>1, <2>2
<1>7. \A p \in al \cap where : p <= e => p \in Range(more)
  <2>. SUFFICES ASSUME NEW p \in al \cap where, p <= e PROVE p \in Range(more)
    OBVIOUS
  <2>1. p \in Nat
    BY <1>0
  <2>2. CASE p <= after
    BY <1>4, <2>2 DEF Reached
  <2>3. CASE after < p
    BY <1>4, <2>3 DEF Between
  <2>. QED
    BY <1>0, <2>1, <2>2, <2>3
<1>. QED
  BY <1>3, <1>5, <1>6, <1>7 DEF Page

\* The items up to the limit, or all if there is no more to read.
Whole(items, limit, where, al, ev) ==
    /\ items \in Seq(Positions) /\ Increasing(items)
    /\ \A p \in Range(items) : p \in ev /\ p \in where
    /\ \A p \in al \cap where :
          p \in Range(items) \/ (limit \in 1..Len(items) /\ items[limit] < p)

\* The positions a worker covers are those of its walk.
LEMMA WalkOfSpan ==
    ASSUME NEW w
    PROVE  span(w) = Walk(call.op, w) /\ Walk(call.op, w) \subseteq Positions
  BY DEF span, Walk

\* What DynamoDB returns for one request makes a page.
LEMMA PageRead ==
    ASSUME ReadInv, call \in Calls, NEW w \in Segments, worker[w].pc = "reading", NEW e \in Stops(w)
    PROVE  /\ Page(collected(w, e), e, Walk(call.op, w), always, ever)
           /\ e \in Positions \/ e = LastPosition + 1
<1>0. LastPosition \in Nat /\ Positions \subseteq Nat
  BY ReadAssumption DEF Positions
<1>1. call # Idle /\ worker[w] \in Workers /\ worker[w].items \in Seq(Positions)
  BY DEF Calls, Idle, ReadInv, Right, Types, Workers
<1>2. /\ Reached(worker[w].items, worker[w].after, Walk(call.op, w), always, ever)
      /\ always \subseteq HitsOf(table) /\ HitsOf(table) \subseteq ever
  BY <1>1 DEF ReadInv, Right, UnderWay, WorkerRight
<1>3. e \in There(w, worker[w].after, LastPosition) \cup {LastPosition + 1}
  BY DEF Stops
<1>4. e \in Positions \/ e = LastPosition + 1
  BY <1>3, WalkOfSpan DEF There
<1>5. worker[w].after \in Nat /\ worker[w].after <= LastPosition
  BY <1>0, <1>2 DEF Reached
<1>6. worker[w].after < e /\ e \in 1..(LastPosition + 1)
  BY <1>0, <1>3, <1>4, <1>5 DEF There, Positions
<1>7. PICK S : S = {p \in Walk(call.op, w) : worker[w].after < p /\ p <= e /\ p \in HitsOf(table)}
  OBVIOUS
<1>8. There(w, worker[w].after, e) \cap Hits = S
  BY <1>7, WalkOfSpan DEF There, Hits, HitsOf
<1>9. collected(w, e) = worker[w].items \o inOrder(S)
  BY <1>8 DEF collected
<1>10. HitsOf(table) \subseteq Positions
  BY DEF HitsOf
<1>11. PICK more, items, after, where, H :
          /\ more = collected(w, e) /\ items = worker[w].items /\ after = worker[w].after
          /\ where = Walk(call.op, w) /\ H = HitsOf(table)
  OBVIOUS
<1>12. Follows(more, items, after, where, always, ever, H, e, S)
  <2>1. /\ items \in Seq(Positions) /\ where \subseteq Positions /\ Reached(items, after, where, always, ever)
        /\ after < e /\ more = items \o inOrder(S)
        /\ H \subseteq Positions /\ always \subseteq H /\ H \subseteq ever
    BY <1>1, <1>2, <1>6, <1>9, <1>10, <1>11, WalkOfSpan
  <2>2. S \subseteq Positions
    BY <1>7, WalkOfSpan
  <2>3. Between(S, after, e, where, H)
    BY <1>7, <1>11 DEF Between
  <2>. QED
    BY <1>6, <2>1, <2>2, <2>3 DEF Follows
<1>13. Page(more, e, where, always, ever)
  BY <1>12, PageAdds
<1>. QED
  BY <1>4, <1>11, <1>13

\* The last page, or enough of them.
LEMMA LastPageWhole ==
    ASSUME NEW items, NEW e, NEW where, NEW al, NEW ev, NEW limit \in Nat, where \subseteq Positions,
           Page(items, e, where, al, ev), e = LastPosition + 1 \/ (limit > 0 /\ Len(items) >= limit)
    PROVE  Whole(items, limit, where, al, ev)
<1>0. LastPosition \in Nat /\ Positions \subseteq Nat /\ \A p \in Positions : p <= LastPosition
  BY ReadAssumption DEF Positions
<1>1. items \in Seq(Positions) /\ Len(items) \in Nat
  BY LenProperties DEF Page
<1>2. ASSUME NEW p \in al \cap where
      PROVE  p \in Range(items) \/ (limit \in 1..Len(items) /\ items[limit] < p)
  <2>0. p \in Nat /\ p <= LastPosition
    BY <1>0
  <2>1. CASE p <= e
    BY <2>1 DEF Page
  <2>2. CASE ~(p <= e)
    <3>1. e # LastPosition + 1
      BY <1>0, <2>0, <2>2
    <3>2. limit \in 1..Len(items)
      BY <1>1, <3>1
    <3>3. items[limit] \in Range(items) /\ items[limit] \in Nat
      BY <1>0, <1>1, <3>2, ItemFacts
    <3>4. items[limit] <= e /\ e \in Nat
      BY <1>0, <3>3 DEF Page
    <3>. QED
      BY <2>0, <2>2, <3>2, <3>3, <3>4
  <2>. QED
    BY <2>1, <2>2
<1>. QED
  BY <1>1, <1>2 DEF Whole, Page

\* Cutting at the limit loses nothing that the limit allows.
LEMMA TrimWhole ==
    ASSUME NEW items, NEW limit, NEW where, NEW al, NEW ev, Whole(items, limit, where, al, ev),
           where \subseteq Positions, limit \in 1..Len(items), NEW t, t = SubSeq(items, 1, limit)
    PROVE  Whole(t, limit, where, al, ev) /\ Len(t) = limit
<1>0. /\ items \in Seq(Positions) /\ Positions \subseteq Nat /\ Len(items) \in Nat
      /\ \A i \in 1..Len(items) : items[i] \in Positions /\ items[i] \in Range(items)
      /\ \A p \in Range(items) : p \in Positions /\ \E i \in 1..Len(items) : items[i] = p
  BY ItemFacts DEF Whole
<1>1. limit \in Nat /\ limit > 0 /\ limit <= Len(items) /\ \A i \in 1..limit : i \in 1..Len(items)
  BY <1>0
<1>2. t \in Seq(Positions) /\ Len(t) = limit /\ \A i \in 1..limit : t[i] = items[i]
  <2>1. \A i \in 1..limit : items[i] \in Positions
    BY <1>0, <1>1
  <2>2. /\ SubSeq(items, 1, limit) \in Seq(Positions)
        /\ Len(SubSeq(items, 1, limit)) = IF 1 <= limit THEN limit - 1 + 1 ELSE 0
        /\ \A i \in 1..(limit - 1 + 1) : SubSeq(items, 1, limit)[i] = items[1 + i - 1]
    BY <1>1, <2>1, SubSeqProperties
  <2>3. limit - 1 + 1 = limit /\ 1 <= limit /\ \A i \in 1..limit : 1 + i - 1 = i
    BY <1>1
  <2>. QED
    BY <2>2, <2>3
<1>3. Increasing(t)
  BY <1>1, <1>2 DEF Increasing, Whole
<1>4. \A i \in 1..limit : t[i] \in Range(t) /\ t[i] \in Range(items)
  BY <1>0, <1>1, <1>2, ItemFacts
<1>5. \A p \in Range(t) : p \in ev /\ p \in where
  <2>. TAKE p \in Range(t)
  <2>1. PICK i \in 1..limit : t[i] = p
    BY <1>2, ItemFacts
  <2>. QED
    BY <1>4, <2>1 DEF Whole
<1>6. ASSUME NEW p \in al \cap where
      PROVE  p \in Range(t) \/ (limit \in 1..Len(t) /\ t[limit] < p)
  <2>1. limit \in 1..limit /\ t[limit] = items[limit]
    BY <1>1, <1>2
  <2>2. CASE items[limit] < p
    BY <1>2, <2>1, <2>2
  <2>3. CASE p \in Range(items)
    <3>1. PICK i \in 1..Len(items) : items[i] = p
      BY <1>0, <2>3
    <3>2. CASE i <= limit
      <4>1. i \in 1..limit
        BY <1>0, <1>1, <3>2
      <4>. QED
        BY <1>2, <1>4, <3>1, <4>1
    <3>3. CASE limit < i
      <4>1. items[limit] < items[i]
        BY <1>1, <3>3 DEF Increasing, Whole
      <4>. QED
        BY <1>2, <2>1, <3>1, <4>1
    <3>. QED
      BY <1>0, <1>1, <3>2, <3>3
  <2>. QED
    BY <2>2, <2>3 DEF Whole
<1>. QED
  BY <1>2, <1>3, <1>5, <1>6 DEF Whole

\* A whole walk, cut at the limit where the executor cuts, can be handed over.
LEMMA WholeGathered ==
    ASSUME NEW c, NEW items, NEW where, NEW al, NEW ev, Whole(items, c.limit, where, al, ev),
           (c.exec = "db" /\ c.op # "Count" /\ c.limit > 0) => Len(items) <= c.limit
    PROVE  Gathered(items, c, where, al, ev)
  BY DEF Whole, Gathered

\* The state of a worker, from what it is made of.
LEMMA WorkerIs ==
    ASSUME NEW pc \in {"off", "reading", "collected", "failed", "sent"}, NEW after \in Int,
           NEW items \in Seq(Positions)
    PROVE  /\ Worker(pc, after, items) \in Workers
           /\ Worker(pc, after, items).pc = pc
           /\ Worker(pc, after, items).after = after
           /\ Worker(pc, after, items).items = items
  BY DEF Worker, Workers

\* More to read.
LEMMA NextPageRight ==
    ASSUME NEW e \in Positions, NEW items, NEW w, NEW c, NEW al, NEW ev,
           Page(items, e, Walk(c.op, w), al, ev)
    PROVE  nextPage(e, items) \in Workers /\ WorkerRight(nextPage(e, items), w, c, al, ev)
<1>1. e \in Int /\ e \in 0..LastPosition /\ items \in Seq(Positions)
  BY ReadAssumption DEF Positions, Page
<1>2. nextPage(e, items) = Worker("reading", e, items)
  BY StartsWhereStopped DEF nextPage
<1>3. PICK x : x = nextPage(e, items)
  OBVIOUS
<1>4. x \in Workers /\ x.pc = "reading" /\ x.after = e /\ x.items = items
  BY <1>1, <1>2, <1>3, WorkerIs
<1>5. Reached(items, e, Walk(c.op, w), al, ev)
  BY <1>1 DEF Page, Reached
<1>6. WorkerRight(x, w, c, al, ev)
  BY <1>4, <1>5 DEF WorkerRight
<1>. QED
  BY <1>3, <1>4, <1>6

\* Nothing more to read.
LEMMA CollectedRight ==
    ASSUME NEW items, NEW w, NEW c, NEW al, NEW ev, Whole(items, c.limit, Walk(c.op, w), al, ev),
           (c.exec = "db" /\ c.op # "Count" /\ c.limit > 0) => Len(items) <= c.limit
    PROVE  Worker("collected", 0, items) \in Workers /\ WorkerRight(Worker("collected", 0, items), w, c, al, ev)
<1>1. PICK x : x = Worker("collected", 0, items)
  OBVIOUS
<1>2. x \in Workers /\ x.pc = "collected" /\ x.items = items
  BY <1>1, WorkerIs DEF Whole
<1>3. Gathered(items, c, Walk(c.op, w), al, ev)
  BY WholeGathered
<1>. QED
  BY <1>1, <1>2, <1>3 DEF WorkerRight

\* Whatever executor a page goes to, the worker's items stay right.
LEMMA PageRight ==
    ASSUME ReadInv, call \in Calls, NEW w \in Segments, worker[w].pc = "reading", NEW e \in Stops(w)
    PROVE  executeRead(w, e) \in Workers /\ WorkerRight(executeRead(w, e), w, call, always, ever)
<1>1. PICK items, where, limit : items = collected(w, e) /\ where = Walk(call.op, w) /\ limit = call.limit
  OBVIOUS
<1>2. Page(items, e, where, always, ever) /\ (e \in Positions \/ e = LastPosition + 1)
  BY <1>1, PageRead
<1>3. limit \in Nat /\ call.exec \in {"db", "main"} /\ where \subseteq Positions /\ items \in Seq(Positions)
  BY <1>1, <1>2, WalkOfSpan DEF Calls, Page
<1>4. Len(items) \in Nat
  BY <1>3, LenProperties
<1>5. LastEvaluatedKey(e) = NoCursor => e = LastPosition + 1
  BY <1>2, StartsWhereStopped
<1>6. LastEvaluatedKey(e) # NoCursor => e \in Positions
  BY <1>2, NothingLeft
<1>7. lastPage(e, items) => Whole(items, limit, where, always, ever)
  <2>. SUFFICES ASSUME lastPage(e, items) PROVE Whole(items, limit, where, always, ever)
    OBVIOUS
  <2>1. e = LastPosition + 1 \/ (limit > 0 /\ Len(items) >= limit)
    BY <1>1, <1>5 DEF lastPage, enough
  <2>. QED
    BY <1>2, <1>3, <2>1, LastPageWhole
<1>8. CASE call.exec = "main"
  <2>1. executeRead(w, e) = executePagedItems(e, items)
    BY <1>1, <1>8 DEF executeRead
  <2>2. CASE lastPage(e, items)
    <3>1. executeRead(w, e) = Worker("collected", 0, items)
      BY <2>1, <2>2 DEF executePagedItems
    <3>. QED
      BY <1>1, <1>7, <1>8, <2>2, <3>1, CollectedRight
  <2>3. CASE ~lastPage(e, items)
    <3>1. executeRead(w, e) = nextPage(e, items) /\ e \in Positions
      BY <1>6, <2>1, <2>3 DEF executePagedItems, lastPage
    <3>. QED
      BY <1>1, <1>2, <3>1, NextPageRight
  <2>. QED
    BY <2>2, <2>3
<1>9. CASE call.exec = "db" /\ call.op = "Count"
  <2>1. executeRead(w, e) = collectPaginatedCounts(e, items)
    BY <1>1, <1>9 DEF executeRead
  <2>2. CASE LastEvaluatedKey(e) = NoCursor
    <3>1. executeRead(w, e) = Worker("collected", 0, items)
      BY <2>1, <2>2 DEF collectPaginatedCounts
    <3>2. lastPage(e, items)
      BY <2>2 DEF lastPage
    <3>. QED
      BY <1>1, <1>7, <1>9, <3>1, <3>2, CollectedRight
  <2>3. CASE LastEvaluatedKey(e) # NoCursor
    <3>1. executeRead(w, e) = nextPage(e, items) /\ e \in Positions
      BY <1>6, <2>1, <2>3 DEF collectPaginatedCounts
    <3>. QED
      BY <1>1, <1>2, <3>1, NextPageRight
  <2>. QED
    BY <2>2, <2>3
<1>10. CASE call.exec = "db" /\ call.op # "Count"
  <2>1. executeRead(w, e) = collectPaginatedItems(e, items)
    BY <1>1, <1>10 DEF executeRead
  <2>2. CASE lastPage(e, items)
    <3>0. PICK t : t = trim(items)
      OBVIOUS
    <3>1. executeRead(w, e) = Worker("collected", 0, t)
      BY <2>1, <2>2, <3>0 DEF collectPaginatedItems
    <3>2. Whole(items, limit, where, always, ever)
      BY <1>7, <2>2
    <3>3. Whole(t, limit, where, always, ever) /\ (limit > 0 => Len(t) <= limit)
      <4>1. CASE limit \in 1..Len(items)
        <5>1. t = SubSeq(items, 1, limit)
          BY <1>1, <3>0, <4>1 DEF trim
        <5>2. Whole(t, limit, where, always, ever) /\ Len(t) = limit
          BY <1>3, <3>2, <4>1, <5>1, TrimWhole
        <5>. QED
          BY <1>3, <5>2
      <4>2. CASE limit \notin 1..Len(items)
        <5>1. t = items
          BY <1>1, <3>0, <4>2 DEF trim
        <5>. QED
          BY <1>3, <1>4, <3>2, <4>2, <5>1
      <4>. QED
        BY <4>1, <4>2
    <3>. QED
      BY <1>1, <3>1, <3>3, CollectedRight
  <2>3. CASE ~lastPage(e, items)
    <3>1. executeRead(w, e) = nextPage(e, items) /\ e \in Positions
      BY <1>6, <2>1, <2>3 DEF collectPaginatedItems, lastPage
    <3>. QED
      BY <1>1, <1>2, <3>1, NextPageRight
  <2>. QED
    BY <2>2, <2>3
<1>. QED
  BY <1>3, <1>8, <1>9, <1>10

------------------------------------------------------------------------------
(***************************************************************************)
(* The steps.                                                              *)
(***************************************************************************)
\* A call that was made is not idle.
LEMMA CallIs ==
    ASSUME NEW c \in Calls
    PROVE  /\ c # Idle /\ c.pc \in {"running", "done"} /\ c.limit \in Nat /\ c.items \in Seq(Positions)
           /\ c.received \subseteq Segments /\ c.exec \in {"db", "main"} /\ c.attempt \in Nat
           /\ c.op \in {"First", "All", "Count", "AllPaginated", "ScanAllSegments"}
  BY DEF Calls, Idle

\* One worker comes on; what others hold, and what was received, stays.
LEMMA OneWorker ==
    ASSUME NEW tab, NEW c \in Calls, NEW k, NEW al, NEW ev, Right(tab, c, k, al, ev),
           NEW w \in Segments, NEW x \in Workers, WorkerRight(x, w, c, al, ev),
           NEW k2, k2 = [k EXCEPT ![w] = x], CursorRight(c, k2, al, ev),
           (c.op = "ScanAllSegments" /\ c.pc = "running") => w \notin c.received
    PROVE  Right(tab, c, k2, al, ev)
<1>1. k \in [Segments -> Workers] /\ c # Idle
  BY CallIs DEF Right, Types
<1>2. k2 \in [Segments -> Workers] /\ k2[w] = x /\ \A v \in Segments \ {w} : k2[v] = k[v]
  BY <1>1
<1>3. \A v \in Segments : WorkerRight(k2[v], v, c, al, ev)
  BY <1>1, <1>2 DEF Right, UnderWay
<1>4. ReceivedRight(c, k2)
  <2>. SUFFICES ASSUME c.op = "ScanAllSegments", c.pc = "running"
                PROVE  /\ \A v \in c.received : k2[v].pc = "sent" /\ k2[v].after # -1
                       /\ IsInjective(c.items)
                       /\ \A p \in Positions : p \in Range(c.items) <=> \E v \in c.received : p \in Range(k2[v].items)
    BY DEF ReceivedRight
  <2>1. ReceivedRight(c, k)
    BY <1>1 DEF Right, UnderWay
  <2>2. \A v \in c.received : k2[v] = k[v]
    BY <1>2, CallIs
  <2>. QED
    BY <2>1, <2>2 DEF ReceivedRight
<1>5. Types(tab, c, k2, al, ev)
  BY <1>2 DEF Right, Types
<1>6. UnderWay(tab, c, k2, al, ev)
  BY <1>1, <1>3, <1>4 DEF Right, UnderWay
<1>. QED
  BY <1>5, <1>6 DEF Right

\* What a worker holds is right for a call by its operation, executor and limit.
SameKind(c, d) == d.op = c.op /\ d.exec = c.exec /\ d.limit = c.limit

\* What a worker has is right for another call of the same kind.
LEMMA WorkerSame ==
    ASSUME NEW c, NEW d, SameKind(c, d), NEW x, NEW w, NEW al, NEW ev, WorkerRight(x, w, c, al, ev)
    PROVE  WorkerRight(x, w, d, al, ev)
  BY DEF SameKind, WorkerRight, Gathered

\* No items: in order, and none twice.
LEMMA EmptyItems ==
    <<>> \in Seq(Positions) /\ Len(<<>>) = 0 /\ Range(<<>>) = {} /\ Increasing(<<>>) /\ IsInjective(<<>>)
<1>1. <<>> \in Seq(Positions) /\ Len(<<>>) = 0 /\ DOMAIN <<>> = 1..Len(<<>>)
  BY EmptySeq, LenProperties
<1>2. 1..Len(<<>>) = {}
  BY <1>1
<1>. QED
  BY <1>1, <1>2 DEF Range, Increasing, IsInjective

\* A worker at the start of a read.
LEMMA FromTheStart ==
    ASSUME NEW w, NEW c, NEW al, NEW ev, al \subseteq Positions
    PROVE  /\ Worker("reading", 0, <<>>) \in Workers
           /\ WorkerRight(Worker("reading", 0, <<>>), w, c, al, ev)
<1>0. PICK s \in Seq(Positions) : s = <<>>
  BY EmptyItems
<1>1. PICK x : x = Worker("reading", 0, <<>>)
  OBVIOUS
<1>2. x \in Workers /\ x.pc = "reading" /\ x.after = 0 /\ x.items = <<>>
  <2>1. x = Worker("reading", 0, s)
    BY <1>0, <1>1
  <2>2. x \in Workers /\ x.pc = "reading" /\ x.after = 0 /\ x.items = s
    BY <2>1, WorkerIs
  <2>. QED
    BY <1>0, <2>2
<1>3. \A p \in al : p \in Nat /\ ~(p <= 0)
  BY ReadAssumption DEF Positions
<1>4. Reached(<<>>, 0, Walk(c.op, w), al, ev)
  BY <1>3, EmptyItems, ReadAssumption DEF Reached
<1>. QED
  BY <1>1, <1>2, <1>4 DEF WorkerRight

\* A worker that holds nothing.
LEMMA HoldsNothing ==
    ASSUME NEW pc \in {"off", "failed"}, NEW items \in Seq(Positions), NEW w, NEW c, NEW al, NEW ev
    PROVE  Worker(pc, 0, items) \in Workers /\ WorkerRight(Worker(pc, 0, items), w, c, al, ev)
<1>1. PICK x : x = Worker(pc, 0, items)
  OBVIOUS
<1>2. x \in Workers /\ x.pc = pc
  BY <1>1, WorkerIs
<1>. QED
  BY <1>1, <1>2 DEF WorkerRight

\* A call begins with what is in the table.
LEMMA StartRight ==
    ASSUME ReadInv, NEW c \in Calls, NEW started \in SUBSET Segments,
           \/ c.pc = "running" /\ c.err = "none" /\ 0 \in started
           \/ c.pc = "done" /\ c.retries < 0 /\ c.op # "AllPaginated",
           c.items = <<>>, c.received = {}, Start(c, started)
    PROVE  ReadInv'
<1>1. /\ call' = c /\ always' = Hits /\ ever' = Hits /\ table' = table
      /\ worker' = [w \in Segments |-> IF w \in started THEN Worker("reading", 0, <<>>) ELSE Off]
  BY DEF Start
<1>2. PICK k : k = worker'
  OBVIOUS
<1>3. Hits = HitsOf(table) /\ Hits \subseteq Positions
  BY DEF Hits, HitsOf
<1>4. Off = Worker("off", 0, <<>>) /\ <<>> \in Seq(Positions)
  BY EmptyItems DEF Off
<1>5. \A w \in Segments : k[w] \in Workers /\ WorkerRight(k[w], w, c, Hits, Hits)
  <2>. TAKE w \in Segments
  <2>1. CASE w \in started
    <3>1. k[w] = Worker("reading", 0, <<>>)
      BY <1>1, <1>2, <2>1
    <3>. QED
      BY <1>3, <3>1, FromTheStart
  <2>2. CASE w \notin started
    <3>1. k[w] = Worker("off", 0, <<>>)
      BY <1>1, <1>2, <1>4, <2>2
    <3>. QED
      <4>1. PICK s \in Seq(Positions) : s = <<>>
        BY <1>4
      <4>2. k[w] = Worker("off", 0, s)
        BY <3>1, <4>1
      <4>. QED
        BY <4>2, HoldsNothing
  <2>. QED
    BY <2>1, <2>2
<1>6. k \in [Segments -> Workers] /\ (0 \in started => k[0].pc = "reading")
  <2>1. k = [w \in Segments |-> k[w]]
    BY <1>1, <1>2
  <2>2. 0 \in started => k[0] = Worker("reading", 0, <<>>)
    BY <1>1, <1>2, ReadAssumption
  <2>. QED
    BY <1>5, <2>1, <2>2 DEF Worker
<1>7. CursorRight(c, k, Hits, Hits)
  BY <1>6 DEF CursorRight
<1>8. ReceivedRight(c, k)
  BY EmptyItems DEF ReceivedRight
<1>9. Types(table, c, k, Hits, Hits)
  BY <1>3, <1>6 DEF ReadInv, Right, Types
<1>10. UnderWay(table, c, k, Hits, Hits)
  BY <1>3, <1>5, <1>7, <1>8 DEF UnderWay
<1>11. ExactOf(c, Hits, Hits)
  BY DEF ExactOf
<1>12. Right(table, c, k, Hits, Hits)
  BY <1>9, <1>10, <1>11 DEF Right
<1>. QED
  BY <1>1, <1>2, <1>12 DEF ReadInv

\* A call that begins has nothing yet.
LEMMA NewCall ==
    ASSUME NEW op \in {"First", "All", "Count", "AllPaginated", "ScanAllSegments"}, NEW exec \in {"db", "main"},
           NEW limit \in Nat, NEW retries \in Int
    PROVE  /\ New(op, exec, limit, retries) \in Calls
           /\ New(op, exec, limit, retries).pc = "running" /\ New(op, exec, limit, retries).err = "none"
           /\ New(op, exec, limit, retries).items = <<>> /\ New(op, exec, limit, retries).received = {}
           /\ New(op, exec, limit, retries).op = op /\ New(op, exec, limit, retries).retries = retries
<1>1. NoCursor \in Stopped /\ <<>> \in Seq(Positions)
  BY EmptyItems DEF Stopped
<1>. QED
  BY <1>1 DEF New, Calls

\* Every read starts right.
LEMMA StartsRight ==
    ASSUME ReadInv
    PROVE  /\ \A exec \in {"db", "main"}, r \in Retries : First(exec, r) => ReadInv'
           /\ \A exec \in {"db", "main"}, r \in Retries, l \in Limits : All(exec, l, r) => ReadInv'
           /\ \A exec \in {"db", "main"}, l \in Limits : ScanAllSegments(exec, l) => ReadInv'
           /\ \A l \in Limits : AllPaginated(l) => ReadInv'
           /\ Count => ReadInv'
<1>0. /\ Limits \subseteq Nat /\ Retries \subseteq Int /\ {0} \in SUBSET Segments /\ 0 \in {0}
      /\ Segments \in SUBSET Segments /\ 0 \in Segments /\ 0 \in Int /\ 0 \in Nat /\ 1 \in Nat
  BY ReadAssumption
<1>1. ASSUME NEW exec \in {"db", "main"}, NEW r \in Retries, First(exec, r) PROVE ReadInv'
  <2>1. PICK c : c = New("First", exec, 1, r)
    OBVIOUS
  <2>2. /\ c \in Calls /\ c.pc = "running" /\ c.err = "none" /\ c.items = <<>> /\ c.received = {}
        /\ c.op = "First" /\ c.retries = r
    BY <1>0, <2>1, NewCall
  <2>3. CASE ~(r < 0)
    <3>1. Start(c, {0})
      BY <1>1, <2>1, <2>3 DEF First
    <3>. QED
      BY <1>0, <2>2, <3>1, StartRight
  <2>4. CASE r < 0
    <3>1. PICK d : d = [c EXCEPT !.pc = "done", !.err = "notfound"]
      OBVIOUS
    <3>2. /\ d \in Calls /\ d.pc = "done" /\ d.items = <<>> /\ d.received = {}
          /\ d.op # "AllPaginated" /\ d.retries < 0
      BY <2>2, <2>4, <3>1 DEF Calls
    <3>3. Start(d, {})
      BY <1>1, <2>1, <2>4, <3>1 DEF First
    <3>. QED
      BY <3>2, <3>3, StartRight
  <2>. QED
    BY <2>3, <2>4
<1>2. ASSUME NEW exec \in {"db", "main"}, NEW r \in Retries, NEW l \in Limits, All(exec, l, r) PROVE ReadInv'
  <2>1. PICK c : c = New("All", exec, l, r)
    OBVIOUS
  <2>2. /\ c \in Calls /\ c.pc = "running" /\ c.err = "none" /\ c.items = <<>> /\ c.received = {}
        /\ c.op = "All" /\ c.retries = r
    BY <1>0, <2>1, NewCall
  <2>3. CASE ~(r < 0)
    <3>1. Start(c, {0})
      BY <1>2, <2>1, <2>3 DEF All
    <3>. QED
      BY <1>0, <2>2, <3>1, StartRight
  <2>4. CASE r < 0
    <3>1. PICK d : d = [c EXCEPT !.pc = "done"]
      OBVIOUS
    <3>2. /\ d \in Calls /\ d.pc = "done" /\ d.items = <<>> /\ d.received = {}
          /\ d.op # "AllPaginated" /\ d.retries < 0
      BY <2>2, <2>4, <3>1 DEF Calls
    <3>3. Start(d, {})
      BY <1>2, <2>1, <2>4, <3>1 DEF All
    <3>. QED
      BY <3>2, <3>3, StartRight
  <2>. QED
    BY <2>3, <2>4
<1>3. ASSUME NEW exec \in {"db", "main"}, NEW l \in Limits, ScanAllSegments(exec, l) PROVE ReadInv'
  <2>1. PICK c : c = New("ScanAllSegments", exec, l, 0)
    OBVIOUS
  <2>2. c \in Calls /\ c.pc = "running" /\ c.err = "none" /\ c.items = <<>> /\ c.received = {}
    BY <1>0, <2>1, NewCall
  <2>3. Start(c, Segments)
    BY <1>3, <2>1 DEF ScanAllSegments
  <2>. QED
    BY <1>0, <2>2, <2>3, StartRight
<1>4. ASSUME NEW l \in Limits, AllPaginated(l) PROVE ReadInv'
  <2>1. PICK c : c = New("AllPaginated", "db", l, 0)
    OBVIOUS
  <2>2. c \in Calls /\ c.pc = "running" /\ c.err = "none" /\ c.items = <<>> /\ c.received = {}
    BY <1>0, <2>1, NewCall
  <2>3. Start(c, {0})
    BY <1>4, <2>1 DEF AllPaginated
  <2>. QED
    BY <1>0, <2>2, <2>3, StartRight
<1>5. ASSUME Count PROVE ReadInv'
  <2>0. PICK l \in Nat, r \in Int : l = 0 /\ r = 0
    BY <1>0
  <2>1. PICK c : c = New("Count", "db", l, r)
    OBVIOUS
  <2>2. c \in Calls /\ c.pc = "running" /\ c.err = "none" /\ c.items = <<>> /\ c.received = {}
    BY <2>1, NewCall
  <2>3. Start(c, {0})
    BY <1>5, <2>0, <2>1 DEF Count
  <2>. QED
    BY <1>0, <2>2, <2>3, StartRight
<1>. QED
  BY <1>1, <1>2, <1>3, <1>4, <1>5

\* A call under way or done, wherever a worker is not off.
LEMMA WorkingMeansCalled ==
    ASSUME ReadInv, NEW w \in Segments, worker[w].pc # "off"
    PROVE  call \in Calls
  BY DEF ReadInv, Right, Types

\* A page read.
LEMMA NextPageStep ==
    ASSUME ReadInv, NEW w \in Segments, NextPage(w)
    PROVE  ReadInv'
<1>1. /\ worker[w].pc = "reading" /\ call.op # "AllPaginated"
      /\ table' = table /\ call' = call /\ always' = always /\ ever' = ever
  BY DEF NextPage
<1>2. PICK e \in Stops(w) : worker' = [worker EXCEPT ![w] = executeRead(w, e)]
  BY DEF NextPage
<1>3. call \in Calls
  BY <1>1, WorkingMeansCalled
<1>4. PICK x : x = executeRead(w, e)
  OBVIOUS
<1>5. x \in Workers /\ WorkerRight(x, w, call, always, ever)
  BY <1>1, <1>3, <1>4, PageRight
<1>6. CursorRight(call, worker', always, ever)
  BY <1>1 DEF CursorRight
<1>7. (call.op = "ScanAllSegments" /\ call.pc = "running") => w \notin call.received
  BY <1>1, <1>3, CallIs DEF ReadInv, Right, UnderWay, ReceivedRight
<1>8. Right(table, call, worker', always, ever)
  BY <1>2, <1>3, <1>4, <1>5, <1>6, <1>7, OneWorker DEF ReadInv
<1>. QED
  BY <1>1, <1>8 DEF ReadInv

\* A request that fails.
LEMMA PageFailsStep ==
    ASSUME ReadInv, NEW w \in Segments, PageFails(w)
    PROVE  ReadInv'
<1>1. /\ worker[w].pc = "reading"
      /\ table' = table /\ call' = call /\ always' = always /\ ever' = ever
      /\ worker' = [worker EXCEPT ![w] = Worker("failed", 0, <<>>)]
  BY DEF PageFails
<1>2. call \in Calls /\ call # Idle
  BY <1>1, WorkingMeansCalled, CallIs
<1>3. PICK x : x = Worker("failed", 0, <<>>)
  OBVIOUS
<1>4. x \in Workers /\ WorkerRight(x, w, call, always, ever) /\ x.pc = "failed"
  <2>1. PICK s \in Seq(Positions) : s = <<>>
    BY EmptyItems
  <2>2. x = Worker("failed", 0, s)
    BY <1>3, <2>1
  <2>3. x.pc = "failed"
    BY <1>3 DEF Worker
  <2>. QED
    BY <2>2, <2>3, HoldsNothing
<1>5. PICK k2 : k2 = worker'
  OBVIOUS
<1>6. worker \in [Segments -> Workers]
  BY DEF ReadInv, Right, Types
<1>7. k2[w] = x /\ \A v \in Segments \ {w} : k2[v] = worker[v]
  BY <1>1, <1>3, <1>5, <1>6
<1>8. CursorRight(call, k2, always, ever)
  <2>1. CursorRight(call, worker, always, ever)
    BY <1>2 DEF ReadInv, Right, UnderWay
  <2>2. k2[0].pc = "failed" \/ k2[0] = worker[0]
    BY <1>4, <1>7, ReadAssumption
  <2>. QED
    BY <2>1, <2>2 DEF CursorRight
<1>9. (call.op = "ScanAllSegments" /\ call.pc = "running") => w \notin call.received
  BY <1>1, <1>2, CallIs DEF ReadInv, Right, UnderWay, ReceivedRight
<1>10. Right(table, call, k2, always, ever)
  BY <1>1, <1>2, <1>3, <1>4, <1>5, <1>8, <1>9, OneWorker DEF ReadInv
<1>. QED
  BY <1>1, <1>5, <1>10 DEF ReadInv

\* A segment's outcome sent to the channel.
LEMMA SendStep ==
    ASSUME ReadInv, NEW w \in Segments, Send(w)
    PROVE  ReadInv'
<1>1. /\ worker[w].pc \in {"collected", "failed"} /\ call.op = "ScanAllSegments"
      /\ table' = table /\ call' = call /\ always' = always /\ ever' = ever
      /\ worker' = [worker EXCEPT ![w] =
                     Worker("sent", IF worker[w].pc = "failed" THEN -1 ELSE 0, worker[w].items)]
  BY DEF Send, Outcome
<1>2. call \in Calls /\ call # Idle
  BY <1>1, WorkingMeansCalled, CallIs
<1>3. PICK after, items : after = (IF worker[w].pc = "failed" THEN -1 ELSE 0) /\ items = worker[w].items
  OBVIOUS
<1>4. worker[w] \in Workers /\ items \in Seq(Positions) /\ after \in Int
  BY <1>3 DEF ReadInv, Right, Types, Workers
<1>5. PICK x : x = Worker("sent", after, items)
  OBVIOUS
<1>6. x \in Workers /\ x.pc = "sent" /\ x.after = after /\ x.items = items
  BY <1>4, <1>5, WorkerIs
<1>7. WorkerRight(worker[w], w, call, always, ever)
  BY <1>2 DEF ReadInv, Right, UnderWay
<1>8. WorkerRight(x, w, call, always, ever)
  BY <1>1, <1>3, <1>6, <1>7 DEF WorkerRight
<1>9. CursorRight(call, worker', always, ever)
  BY <1>1 DEF CursorRight
<1>10. (call.op = "ScanAllSegments" /\ call.pc = "running") => w \notin call.received
  BY <1>1, <1>2, CallIs DEF ReadInv, Right, UnderWay, ReceivedRight
<1>11. worker' = [worker EXCEPT ![w] = x]
  BY <1>1, <1>3, <1>5
<1>12. Right(table, call, worker', always, ever)
  BY <1>2, <1>6, <1>8, <1>9, <1>10, <1>11, OneWorker DEF ReadInv
<1>. QED
  BY <1>1, <1>12 DEF ReadInv

\* The caller comes back with the cursor.
LEMMA SetCursorStep ==
    ASSUME ReadInv, SetCursor
    PROVE  ReadInv'
<1>1. /\ call.pc = "running" /\ call.op = "AllPaginated" /\ worker[0].pc = "off" /\ 0 \in Segments
      /\ table' = table /\ call' = call /\ always' = always /\ ever' = ever
      /\ worker' = [worker EXCEPT ![0] =
                     Worker("reading", ExclusiveStartKey(DecodeCursor(call.cursor)), call.items)]
  BY ReadAssumption DEF SetCursor
<1>2. call \in Calls /\ call # Idle /\ call.items \in Seq(Positions)
  BY <1>1, CallIs DEF ReadInv, Right, Types, Idle
<1>3. PICK e \in Positions :
          call.cursor = EncodeCursor(KeyOf(e), "", "") /\ Reached(call.items, e, Positions, always, ever)
  BY <1>1, <1>2 DEF ReadInv, Right, UnderWay, CursorRight
<1>4. ExclusiveStartKey(DecodeCursor(call.cursor)) = e /\ e \in Int
  <2>1. e \in Int
    BY ReadAssumption DEF Positions
  <2>. QED
    BY <1>3, <2>1, StartsWhereStopped
<1>5. PICK x : x = Worker("reading", e, call.items)
  OBVIOUS
<1>6. x \in Workers /\ x.pc = "reading" /\ x.after = e /\ x.items = call.items
  BY <1>2, <1>4, <1>5, WorkerIs
<1>7. Walk(call.op, 0) = Positions
  BY <1>1 DEF Walk
<1>8. WorkerRight(x, 0, call, always, ever)
  BY <1>3, <1>6, <1>7 DEF WorkerRight
<1>9. PICK k2 : k2 = worker'
  OBVIOUS
<1>10. k2 = [worker EXCEPT ![0] = x] /\ worker \in [Segments -> Workers]
  BY <1>1, <1>4, <1>5, <1>9 DEF ReadInv, Right, Types
<1>11. k2[0] = x
  BY <1>1, <1>10
<1>12. CursorRight(call, k2, always, ever)
  BY <1>6, <1>11 DEF CursorRight
<1>13. Right(table, call, k2, always, ever)
  BY <1>1, <1>2, <1>6, <1>8, <1>10, <1>12, OneWorker DEF ReadInv
<1>. QED
  BY <1>1, <1>9, <1>13 DEF ReadInv

\* A write shows less of what was there throughout, and more of what was there at
\* some time.
LEMMA WriteStep ==
    ASSUME ReadInv, NEW p \in Positions, NEW x \in {"none", "hit", "miss"}, Write(p, x)
    PROVE  ReadInv'
<1>1. /\ call.pc = "running" /\ table' = [table EXCEPT ![p] = x]
      /\ always' = (IF x = "hit" THEN always ELSE always \ {p})
      /\ ever' = (IF x = "hit" THEN ever \cup {p} ELSE ever)
      /\ call' = call /\ worker' = worker
  BY DEF Write
<1>2. call \in Calls /\ call # Idle
  BY <1>1, CallIs DEF ReadInv, Right, Types, Idle
<1>3. PICK tab, al, ev : tab = table' /\ al = always' /\ ev = ever'
  OBVIOUS
<1>4. al \subseteq always /\ ever \subseteq ev
  BY <1>1, <1>3
<1>5. Types(table, call, worker, always, ever) /\ UnderWay(table, call, worker, always, ever)
  BY DEF ReadInv, Right
<1>6. Types(tab, call, worker, al, ev)
  BY <1>1, <1>3, <1>5 DEF Types
<1>7. al \subseteq HitsOf(tab) /\ HitsOf(tab) \subseteq ev
  <2>1. \A o \in Positions : tab[o] = IF o = p THEN x ELSE table[o]
    BY <1>1, <1>3, <1>5 DEF Types
  <2>2. always \subseteq HitsOf(table) /\ HitsOf(table) \subseteq ever /\ always \subseteq Positions
    BY <1>2, <1>5 DEF UnderWay, Types
  <2>3. ASSUME NEW o \in al PROVE o \in HitsOf(tab)
    <3>1. o \in Positions /\ table[o] = "hit" /\ (o = p => x = "hit")
      BY <1>1, <1>3, <2>2 DEF HitsOf
    <3>. QED
      BY <2>1, <3>1 DEF HitsOf
  <2>4. ASSUME NEW o \in HitsOf(tab) PROVE o \in ev
    <3>1. o \in Positions /\ tab[o] = "hit"
      BY DEF HitsOf
    <3>2. CASE o = p
      BY <1>1, <1>3, <2>1, <3>1, <3>2
    <3>3. CASE o # p
      BY <1>4, <2>1, <2>2, <3>1, <3>3 DEF HitsOf
    <3>. QED
      BY <3>2, <3>3
  <2>. QED
    BY <2>3, <2>4
<1>8. \A w \in Segments : WorkerRight(worker[w], w, call, al, ev)
  <2>. TAKE w \in Segments
  <2>1. WorkerRight(worker[w], w, call, always, ever)
    BY <1>2, <1>5 DEF UnderWay
  <2>. QED
    BY <1>4, <2>1 DEF WorkerRight, Reached, Gathered
<1>9. CursorRight(call, worker, al, ev)
  <2>1. CursorRight(call, worker, always, ever)
    BY <1>2, <1>5 DEF UnderWay
  <2>2. \A e \in Positions : Reached(call.items, e, Positions, always, ever) => Reached(call.items, e, Positions, al, ev)
    BY <1>4 DEF Reached
  <2>. QED
    BY <2>1, <2>2 DEF CursorRight
<1>10. UnderWay(tab, call, worker, al, ev)
  BY <1>2, <1>5, <1>7, <1>8, <1>9 DEF UnderWay
<1>11. ExactOf(call, al, ev)
  BY <1>1 DEF ExactOf
<1>. QED
  BY <1>1, <1>3, <1>6, <1>10, <1>11 DEF ReadInv, Right

------------------------------------------------------------------------------
(***************************************************************************)
(* The answers.                                                            *)
(***************************************************************************)
\* An answer that has what a worker gathered is complete where the worker went.
LEMMA GatheredComplete ==
    ASSUME NEW items \in Seq(Positions), NEW c, c.limit \in Nat, NEW where, where \subseteq Positions, NEW al, NEW ev,
           Gathered(items, c, where, al, ev), NEW all, \A o \in Range(items) : o \in Range(all)
    PROVE  CompleteOf(all, c.limit, where, al)
<1>. SUFFICES ASSUME NEW p \in al \cap where
              PROVE  \/ p \in Range(all)
                     \/ c.limit > 0 /\ Cardinality({o \in Range(all) \cap where : o < p}) >= c.limit
  BY DEF CompleteOf
<1>1. CASE p \in Range(items)
  BY <1>1
<1>2. CASE c.limit \in 1..Len(items) /\ items[c.limit] < p
  <2>1. PICK A, m : A = {o \in Range(all) \cap where : o < p} /\ m = c.limit
    OBVIOUS
  <2>2. A \subseteq Positions /\ p \in Positions
    BY <2>1
  <2>3. \A o \in Range(items) : o < p => o \in A
    BY <2>1 DEF Gathered
  <2>4. m \in 1..Len(items) /\ items[m] < p /\ Increasing(items)
    BY <1>2, <2>1 DEF Gathered
  <2>5. Cardinality(A) >= m
    BY <2>2, <2>3, <2>4, Before
  <2>6. Len(items) \in Nat
    BY LenProperties
  <2>. QED
    BY <1>2, <2>1, <2>5, <2>6
<1>. QED
  BY <1>1, <1>2 DEF Gathered

\* A call answered: nothing about it can go wrong any more but its answer.
LEMMA Answered ==
    ASSUME NEW tab, NEW c \in Calls, NEW k, NEW al, NEW ev, Right(tab, c, k, al, ev),
           NEW d \in Calls, SameKind(c, d), d.pc = "done", ExactOf(d, al, ev),
           NEW k2 \in [Segments -> Workers], \A w \in Segments : k2[w] = k[w] \/ k2[w].pc = "off"
    PROVE  Right(tab, d, k2, al, ev)
<1>1. c # Idle /\ d # Idle
  BY CallIs
<1>2. Types(tab, d, k2, al, ev)
  BY DEF Right, Types
<1>3. \A w \in Segments : WorkerRight(k2[w], w, d, al, ev)
  <2>. TAKE w \in Segments
  <2>1. CASE k2[w] = k[w]
    <3>1. WorkerRight(k[w], w, c, al, ev)
      BY <1>1 DEF Right, UnderWay
    <3>. QED
      BY <2>1, <3>1, WorkerSame
  <2>2. CASE k2[w].pc = "off"
    BY <2>2 DEF WorkerRight
  <2>. QED
    BY <2>1, <2>2
<1>4. CursorRight(d, k2, al, ev)
  <2>1. CursorRight(c, k, al, ev) /\ 0 \in Segments
    BY <1>1, ReadAssumption DEF Right, UnderWay
  <2>2. k2[0] = k[0] \/ k2[0].pc = "off"
    BY <2>1
  <2>. QED
    BY <2>1, <2>2 DEF CursorRight, SameKind
<1>5. ReceivedRight(d, k2)
  BY DEF ReceivedRight
<1>6. UnderWay(tab, d, k2, al, ev)
  BY <1>1, <1>3, <1>4, <1>5 DEF Right, UnderWay
<1>. QED
  BY <1>2, <1>6 DEF Right

\* One page of AllPaginated.
LEMMA ExecutePageStep ==
    ASSUME ReadInv, ExecutePage
    PROVE  ReadInv'
<1>1. /\ call.pc = "running" /\ call.op = "AllPaginated" /\ worker[0].pc = "reading" /\ 0 \in Segments
      /\ table' = table /\ always' = always /\ ever' = ever
  BY ReadAssumption DEF ExecutePage
<1>2. PICK e \in Stops(0) :
        /\ call' = [call EXCEPT !.cursor = encodeCursor(e), !.items = collected(0, e),
                                !.pc = IF encodeCursor(e) = NoCursor THEN "done" ELSE @]
        /\ worker' = [worker EXCEPT ![0] = Worker("off", 0, collected(0, e))]
  BY DEF ExecutePage
<1>3. call \in Calls /\ call # Idle /\ call.err = "none"
  BY <1>1, WorkingMeansCalled, CallIs DEF ReadInv, Right, UnderWay
<1>4. PICK items, cur, d, k2 : items = collected(0, e) /\ cur = encodeCursor(e) /\ d = call' /\ k2 = worker'
  OBVIOUS
<1>5. Page(items, e, Positions, always, ever) /\ (e \in Positions \/ e = LastPosition + 1)
  <2>1. Walk(call.op, 0) = Positions
    BY <1>1 DEF Walk
  <2>. QED
    BY <1>1, <1>3, <1>4, <2>1, PageRead
<1>6. items \in Seq(Positions)
  BY <1>5 DEF Page
<1>7. PICK x : x = Worker("off", 0, items)
  OBVIOUS
<1>8. x \in Workers /\ x.pc = "off"
  BY <1>6, <1>7, WorkerIs
<1>9. worker \in [Segments -> Workers] /\ Right(table, call, worker, always, ever)
  BY DEF ReadInv, Right, Types
<1>10. k2 = [worker EXCEPT ![0] = x]
  BY <1>2, <1>4, <1>7
<1>11. k2 \in [Segments -> Workers] /\ k2[0].pc = "off" /\ \A w \in Segments : k2[w] = worker[w] \/ k2[w].pc = "off"
  BY <1>1, <1>8, <1>9, <1>10
<1>12. d = [call EXCEPT !.cursor = cur, !.items = items, !.pc = IF cur = NoCursor THEN "done" ELSE @]
  BY <1>2, <1>4
<1>13. cur \in Stopped => d \in Calls
  BY <1>3, <1>6, <1>12 DEF Calls
<1>14. /\ d.cursor = cur /\ d.items = items /\ d.pc = (IF cur = NoCursor THEN "done" ELSE call.pc)
       /\ SameKind(call, d) /\ d.op = "AllPaginated" /\ d.err = "none"
  BY <1>1, <1>3, <1>12 DEF Calls, SameKind
<1>15. CASE e = LastPosition + 1
  <2>1. cur = NoCursor
    BY <1>4, <1>15, NothingLeft DEF encodeCursor, EncodeCursor
  <2>2. d \in Calls /\ d.pc = "done"
    BY <1>13, <1>14, <2>1 DEF Stopped
  <2>3. \A p \in Positions : p <= e
    BY <1>15, ReadAssumption DEF Positions
  <2>4. always \subseteq Positions
    BY <1>9 DEF Right, Types
  <2>5. CompleteOf(items, 0, Positions, always)
    BY <1>5, <2>3, <2>4 DEF CompleteOf, Page
  <2>6. Range(items) \subseteq ever /\ Increasing(items)
    BY <1>5 DEF Page
  <2>7. ExactOf(d, always, ever)
    BY <1>14, <2>5, <2>6 DEF ExactOf
  <2>8. Right(table, d, k2, always, ever)
    BY <1>3, <1>9, <1>11, <1>14, <2>2, <2>7, Answered
  <2>. QED
    BY <1>1, <1>4, <2>8 DEF ReadInv
<1>16. CASE e \in Positions
  <2>1. cur = EncodeCursor(KeyOf(e), "", "") /\ cur # NoCursor
    BY <1>4, <1>16, StartsWhereStopped DEF encodeCursor
  <2>2. cur \in Stopped
    BY <1>16, <2>1 DEF Stopped
  <2>3. d \in Calls /\ d.pc = "running" /\ d # Idle
    BY <1>1, <1>13, <1>14, <2>1, <2>2, CallIs
  <2>4. Reached(items, e, Positions, always, ever)
    <3>1. e \in 0..LastPosition
      BY <1>16, ReadAssumption DEF Positions
    <3>. QED
      BY <1>5, <3>1 DEF Page, Reached
  <2>5. CursorRight(d, k2, always, ever)
    BY <1>11, <1>14, <1>16, <2>1, <2>4 DEF CursorRight
  <2>6. ReceivedRight(d, k2)
    BY <1>14 DEF ReceivedRight
  <2>7. \A w \in Segments : WorkerRight(k2[w], w, d, always, ever)
    <3>. TAKE w \in Segments
    <3>1. CASE k2[w] = worker[w]
      <4>1. WorkerRight(worker[w], w, call, always, ever)
        BY <1>3, <1>9 DEF Right, UnderWay
      <4>. QED
        BY <1>14, <3>1, <4>1, WorkerSame
    <3>2. CASE k2[w].pc = "off"
      BY <3>2 DEF WorkerRight
    <3>. QED
      BY <1>11, <3>1, <3>2
  <2>8. Types(table, d, k2, always, ever)
    BY <1>9, <1>11, <2>3 DEF Right, Types
  <2>9. UnderWay(table, d, k2, always, ever)
    BY <1>3, <1>9, <1>14, <2>5, <2>6, <2>7 DEF Right, UnderWay
  <2>10. ExactOf(d, always, ever)
    BY <2>3 DEF ExactOf
  <2>. QED
    BY <1>1, <1>4, <2>8, <2>9, <2>10 DEF ReadInv, Right
<1>. QED
  BY <1>5, <1>15, <1>16

\* The answer of a read with one worker.
LEMMA AnswerExact ==
    ASSUME NEW c \in Calls, NEW items \in Seq(Positions), NEW al, NEW ev, NEW err, NEW faulty \in BOOLEAN,
           c.op # "ScanAllSegments", al \subseteq Positions,
           ~faulty => c.op # "AllPaginated" /\ Gathered(items, c, Positions, al, ev),
           err = "none" => ~faulty, err = "notfound" => ~faulty /\ items = <<>>,
           NEW d \in Calls, SameKind(c, d), d.items = items, d.err = err
    PROVE  ExactOf(d, al, ev)
<1>0. d.op = c.op /\ d.exec = c.exec /\ d.limit = c.limit /\ c.limit \in Nat
  BY CallIs DEF SameKind
<1>1. ASSUME err = "none"
      PROVE  /\ Range(items) \subseteq ev /\ Increasing(items) /\ c.op # "AllPaginated"
             /\ CompleteOf(items, c.limit, Positions, al)
             /\ (c.op \in {"First", "All"} /\ c.exec = "db" /\ c.limit > 0) => Len(items) <= c.limit
  <2>1. c.op # "AllPaginated" /\ Gathered(items, c, Positions, al, ev)
    BY <1>1
  <2>2. CompleteOf(items, c.limit, Positions, al)
    BY <1>0, <2>1, GatheredComplete
  <2>3. Range(items) \subseteq ev /\ Increasing(items)
    BY <2>1 DEF Gathered
  <2>4. (c.op \in {"First", "All"} /\ c.exec = "db" /\ c.limit > 0) => Len(items) <= c.limit
    BY <2>1 DEF Gathered
  <2>. QED
    BY <2>1, <2>2, <2>3, <2>4
<1>2. ASSUME err = "notfound" PROVE al = {}
  <2>1. Gathered(items, c, Positions, al, ev) /\ items = <<>>
    BY <1>2
  <2>2. Range(items) = {} /\ Len(items) = 0
    BY <2>1, EmptyItems
  <2>3. 1..Len(items) = {}
    BY <2>2
  <2>4. \A p \in al \cap Positions : FALSE
    BY <2>1, <2>2, <2>3 DEF Gathered
  <2>. QED
    BY <2>4
<1>. QED
  BY <1>0, <1>1, <1>2 DEF ExactOf

\* A read with one worker comes back, or tries again.
LEMMA ReturnStep ==
    ASSUME ReadInv, Return
    PROVE  ReadInv'
<1>1. PICK items, faulty : items = worker[0].items /\ faulty = (worker[0].pc = "failed")
  OBVIOUS
<1>2. /\ call.pc = "running" /\ call.op # "ScanAllSegments" /\ worker[0].pc \in {"collected", "failed"}
      /\ 0 \in Segments /\ table' = table /\ always' = always /\ ever' = ever /\ faulty \in BOOLEAN
  BY <1>1, ReadAssumption DEF Return
<1>3. call \in Calls /\ call # Idle /\ call.err = "none" /\ call.attempt \in Nat /\ call.limit \in Nat
  BY <1>2, WorkingMeansCalled, CallIs DEF ReadInv, Right, UnderWay
<1>4. worker \in [Segments -> Workers] /\ Right(table, call, worker, always, ever) /\ always \subseteq Positions
  BY DEF ReadInv, Right, Types
<1>5. items \in Seq(Positions)
  BY <1>1, <1>2, <1>4 DEF Workers
<1>6. PICK d, k2 : d = call' /\ k2 = worker'
  OBVIOUS
<1>7. CASE again(items, faulty)
  <2>1. d = [call EXCEPT !.attempt = @ + 1] /\ k2 = [worker EXCEPT ![0] = Worker("reading", 0, <<>>)]
    BY <1>1, <1>6, <1>7 DEF Return
  <2>2. d \in Calls
    BY <1>3, <2>1 DEF Calls
  <2>3. /\ d.pc = "running" /\ d.err = "none" /\ d.op = call.op /\ SameKind(call, d) /\ d # Idle
    BY <1>2, <1>3, <2>1, <2>2, CallIs DEF Calls, SameKind
  <2>4. PICK x : x = Worker("reading", 0, <<>>)
    OBVIOUS
  <2>5. x \in Workers /\ x.pc = "reading" /\ WorkerRight(x, 0, d, always, ever)
    <3>1. x \in Workers /\ WorkerRight(x, 0, d, always, ever)
      BY <1>4, <2>4, FromTheStart
    <3>2. x.pc = "reading"
      BY <2>4 DEF Worker
    <3>. QED
      BY <3>1, <3>2
  <2>6. k2 \in [Segments -> Workers] /\ k2[0] = x /\ \A w \in Segments \ {0} : k2[w] = worker[w]
    BY <1>2, <1>4, <2>1, <2>4, <2>5
  <2>7. \A w \in Segments : WorkerRight(k2[w], w, d, always, ever)
    <3>. TAKE w \in Segments
    <3>1. CASE w = 0
      BY <2>5, <2>6, <3>1
    <3>2. CASE w # 0
      <4>1. WorkerRight(worker[w], w, call, always, ever)
        BY <1>3, <1>4 DEF Right, UnderWay
      <4>2. k2[w] = worker[w]
        BY <2>6, <3>2
      <4>. QED
        BY <2>3, <4>1, <4>2, WorkerSame
    <3>. QED
      BY <3>1, <3>2
  <2>8. CursorRight(d, k2, always, ever)
    BY <2>5, <2>6 DEF CursorRight
  <2>9. ReceivedRight(d, k2)
    BY <1>2, <2>3 DEF ReceivedRight
  <2>10. Types(table, d, k2, always, ever)
    BY <1>4, <2>2, <2>6 DEF Right, Types
  <2>11. UnderWay(table, d, k2, always, ever)
    BY <1>3, <1>4, <2>3, <2>7, <2>8, <2>9 DEF Right, UnderWay
  <2>12. ExactOf(d, always, ever)
    BY <2>3 DEF ExactOf
  <2>. QED
    BY <1>2, <1>6, <2>10, <2>11, <2>12 DEF ReadInv, Right
<1>8. CASE ~again(items, faulty)
  <2>0. PICK err : err = errorOf(items, faulty)
    OBVIOUS
  <2>1. d = [call EXCEPT !.pc = "done", !.items = items, !.err = err] /\ k2 = [worker EXCEPT ![0] = Off]
    BY <1>1, <1>6, <1>8, <2>0 DEF Return
  <2>2. /\ err \in {"none", "failed", "notfound"}
        /\ err = "none" => ~faulty
        /\ err = "notfound" => ~faulty /\ items = <<>>
    BY <1>2, <2>0 DEF errorOf
  <2>3. d \in Calls
    BY <1>3, <1>5, <2>1, <2>2 DEF Calls
  <2>4. d.pc = "done" /\ d.items = items /\ d.err = err /\ SameKind(call, d)
    BY <1>3, <2>1 DEF Calls, SameKind
  <2>5. Off \in Workers /\ Off.pc = "off"
    <3>1. PICK s \in Seq(Positions) : s = <<>>
      BY EmptyItems
    <3>2. Off = Worker("off", 0, s)
      BY <3>1 DEF Off
    <3>. QED
      BY <3>2, WorkerIs
  <2>6. k2 \in [Segments -> Workers] /\ \A w \in Segments : k2[w] = worker[w] \/ k2[w].pc = "off"
    BY <1>4, <2>1, <2>5
  <2>7. ~faulty => call.op # "AllPaginated" /\ Gathered(items, call, Positions, always, ever)
    <3>. SUFFICES ASSUME ~faulty PROVE call.op # "AllPaginated" /\ Gathered(items, call, Positions, always, ever)
      OBVIOUS
    <3>1. worker[0].pc = "collected"
      BY <1>1, <1>2
    <3>2. WorkerRight(worker[0], 0, call, always, ever) /\ CursorRight(call, worker, always, ever)
      BY <1>2, <1>3, <1>4 DEF Right, UnderWay
    <3>3. Walk(call.op, 0) = Positions
      BY <1>2 DEF Walk
    <3>. QED
      BY <1>1, <3>1, <3>2, <3>3 DEF WorkerRight, CursorRight
  <2>8. ExactOf(d, always, ever)
    BY <1>2, <1>3, <1>4, <1>5, <2>2, <2>3, <2>4, <2>7, AnswerExact
  <2>9. Right(table, d, k2, always, ever)
    BY <1>3, <1>4, <2>3, <2>4, <2>6, <2>8, Answered
  <2>. QED
    BY <1>2, <1>6, <2>9 DEF ReadInv
<1>. QED
  BY <1>7, <1>8

\* What the segments sent, put together.
Together(c, k) ==
    /\ \A w \in c.received : k[w].pc = "sent" /\ k[w].after # -1
    /\ IsInjective(c.items)
    /\ \A p \in Positions : p \in Range(c.items) <=> \E w \in c.received : p \in Range(k[w].items)

\* Items of different segments are different.
LEMMA OneMoreSegment ==
    ASSUME NEW tab, NEW c \in Calls, NEW k, NEW al, NEW ev, Right(tab, c, k, al, ev),
           c.op = "ScanAllSegments", Together(c, k), NEW w \in Segments, w \notin c.received,
           k[w].pc = "sent", k[w].after # -1, NEW d \in Calls,
           d.received = c.received \cup {w}, d.items = c.items \o k[w].items
    PROVE  Together(d, k)
<1>1. /\ k \in [Segments -> Workers] /\ c.items \in Seq(Positions) /\ k[w].items \in Seq(Positions)
      /\ c.received \subseteq Segments /\ c # Idle
  BY CallIs DEF Right, Types, Workers
<1>2. PICK a, b, s : a = c.items /\ b = k[w].items /\ s = d.items
  OBVIOUS
<1>3. /\ a \in Seq(Positions) /\ b \in Seq(Positions) /\ s = a \o b
      /\ Len(a) \in Nat /\ Len(b) \in Nat /\ DOMAIN a = 1..Len(a) /\ DOMAIN b = 1..Len(b)
  BY <1>1, <1>2, LenProperties
<1>4. /\ s \in Seq(Positions) /\ Len(s) = Len(a) + Len(b)
      /\ \A i \in 1..(Len(a) + Len(b)) : s[i] = IF i <= Len(a) THEN a[i] ELSE b[i - Len(a)]
  BY <1>3, ConcatProperties
<1>5. DOMAIN s = 1..Len(s) /\ Range(s) = Range(a) \cup Range(b)
  BY <1>3, <1>4, LenProperties, RangeConcatenation
<1>6. \A v \in Segments : (k[v].pc = "sent" /\ k[v].after # -1) =>
          \A p \in Range(k[v].items) : p \in Positions /\ SegmentOf(p) = v
  <2>. SUFFICES ASSUME NEW v \in Segments, k[v].pc = "sent", k[v].after # -1, NEW p \in Range(k[v].items)
                PROVE  p \in Positions /\ SegmentOf(p) = v
    OBVIOUS
  <2>1. Gathered(k[v].items, c, Walk(c.op, v), al, ev)
    BY <1>1 DEF Right, UnderWay, WorkerRight
  <2>2. p \in Walk(c.op, v)
    BY <2>1 DEF Gathered
  <2>. QED
    BY <2>2 DEF Walk
<1>7. \A p \in Range(b) : p \notin Range(a)
  <2>. SUFFICES ASSUME NEW p \in Range(b), p \in Range(a) PROVE FALSE
    OBVIOUS
  <2>1. p \in Positions /\ SegmentOf(p) = w
    BY <1>2, <1>6
  <2>2. PICK v \in c.received : p \in Range(k[v].items)
    BY <1>2, <2>1 DEF Together
  <2>3. SegmentOf(p) = v
    BY <1>1, <1>6, <2>2 DEF Together
  <2>. QED
    BY <2>1, <2>3
<1>8. IsInjective(a) /\ IsInjective(b)
  <2>1. Gathered(b, c, Walk(c.op, w), al, ev)
    BY <1>1, <1>2 DEF Right, UnderWay, WorkerRight
  <2>2. IsInjective(b)
    BY <1>3, <2>1, NoneTwice DEF Gathered
  <2>. QED
    BY <1>2, <2>2 DEF Together
<1>9. IsInjective(s)
  <2>. SUFFICES ASSUME NEW i \in 1..Len(s), NEW j \in 1..Len(s), s[i] = s[j] PROVE i = j
    BY <1>5 DEF IsInjective
  <2>0. i \in Nat /\ j \in Nat /\ i \in 1..(Len(a) + Len(b)) /\ j \in 1..(Len(a) + Len(b))
    BY <1>3, <1>4
  <2>1. \A n \in 1..(Len(a) + Len(b)) : n <= Len(a) => n \in 1..Len(a) /\ s[n] = a[n] /\ a[n] \in Range(a)
    BY <1>3, <1>4, ItemFacts
  <2>2. \A n \in 1..(Len(a) + Len(b)) :
            ~(n <= Len(a)) => n - Len(a) \in 1..Len(b) /\ s[n] = b[n - Len(a)] /\ b[n - Len(a)] \in Range(b)
    <3>. SUFFICES ASSUME NEW n \in 1..(Len(a) + Len(b)), ~(n <= Len(a))
                  PROVE  n - Len(a) \in 1..Len(b) /\ s[n] = b[n - Len(a)] /\ b[n - Len(a)] \in Range(b)
      OBVIOUS
    <3>1. n - Len(a) \in 1..Len(b)
      BY <1>3
    <3>2. b[n - Len(a)] \in Range(b)
      BY <1>3, <3>1, ItemFacts
    <3>. QED
      BY <1>4, <3>1, <3>2
  <2>3. CASE i <= Len(a) /\ j <= Len(a)
    BY <1>3, <1>8, <2>0, <2>1, <2>3 DEF IsInjective
  <2>4. CASE ~(i <= Len(a)) /\ ~(j <= Len(a))
    <3>1. b[i - Len(a)] = b[j - Len(a)] /\ i - Len(a) \in 1..Len(b) /\ j - Len(a) \in 1..Len(b)
      BY <2>0, <2>2, <2>4
    <3>2. i - Len(a) = j - Len(a)
      BY <1>3, <1>8, <3>1 DEF IsInjective
    <3>. QED
      BY <1>3, <2>0, <3>2
  <2>5. CASE i <= Len(a) /\ ~(j <= Len(a))
    <3>1. s[i] \in Range(a) /\ s[j] \in Range(b)
      BY <2>0, <2>1, <2>2, <2>5
    <3>. QED
      BY <1>7, <3>1
  <2>6. CASE ~(i <= Len(a)) /\ j <= Len(a)
    <3>1. s[i] \in Range(b) /\ s[j] \in Range(a)
      BY <2>0, <2>1, <2>2, <2>6
    <3>. QED
      BY <1>7, <3>1
  <2>. QED
    BY <2>3, <2>4, <2>5, <2>6
<1>10. \A p \in Positions : p \in Range(s) <=> \E v \in d.received : p \in Range(k[v].items)
  BY <1>2, <1>5 DEF Together
<1>11. \A v \in d.received : k[v].pc = "sent" /\ k[v].after # -1
  BY DEF Together
<1>. QED
  BY <1>2, <1>9, <1>10, <1>11 DEF Together

\* A parallel scan receives a segment's items, or its error.
LEMMA ReceiveStep ==
    ASSUME ReadInv, NEW w \in Segments, Receive(w)
    PROVE  ReadInv'
<1>1. /\ call.pc = "running" /\ call.op = "ScanAllSegments" /\ worker[w].pc = "sent" /\ w \notin call.received
      /\ table' = table /\ worker' = worker /\ always' = always /\ ever' = ever
  BY DEF Receive, InChannel
<1>2. call \in Calls /\ call # Idle /\ call.err = "none" /\ call.limit \in Nat
  BY <1>1, WorkingMeansCalled, CallIs DEF ReadInv, Right, UnderWay
<1>3. worker \in [Segments -> Workers] /\ Right(table, call, worker, always, ever)
  BY DEF ReadInv, Right, Types
<1>4. PICK d : d = call'
  OBVIOUS
<1>5. CASE worker[w].after = -1
  <2>1. d = [call EXCEPT !.pc = "done", !.err = "failed", !.items = <<>>]
    BY <1>4, <1>5 DEF Receive
  <2>2. d \in Calls
    BY <1>2, <2>1, EmptyItems DEF Calls
  <2>3. d.pc = "done" /\ d.err = "failed" /\ SameKind(call, d)
    BY <1>2, <2>1 DEF Calls, SameKind
  <2>4. ExactOf(d, always, ever)
    BY <2>3 DEF ExactOf
  <2>5. Right(table, d, worker, always, ever)
    BY <1>2, <1>3, <2>2, <2>3, <2>4, Answered
  <2>. QED
    BY <1>1, <1>4, <2>5 DEF ReadInv
<1>6. CASE worker[w].after # -1
  <2>0. PICK items, all : items = call.items \o worker[w].items /\ all = (call.received \cup {w} = Segments)
    OBVIOUS
  <2>1. d = [call EXCEPT !.received = @ \cup {w}, !.items = @ \o worker[w].items,
                         !.pc = IF all THEN "done" ELSE @]
    BY <1>4, <1>6, <2>0 DEF Receive
  <2>2. items \in Seq(Positions) /\ call.received \cup {w} \in SUBSET Segments
    <3>1. call.items \in Seq(Positions) /\ worker[w].items \in Seq(Positions) /\ call.received \subseteq Segments
      BY <1>2, <1>3, CallIs DEF Workers
    <3>. QED
      BY <2>0, <3>1, ConcatProperties
  <2>3. /\ d.received = call.received \cup {w} /\ d.items = items
        /\ d.pc = (IF all THEN "done" ELSE "running") /\ d.err = "none" /\ SameKind(call, d)
    BY <1>1, <1>2, <2>0, <2>1 DEF Calls, SameKind
  <2>4. d \in Calls
    BY <1>1, <1>2, <2>0, <2>1, <2>2 DEF Calls
  <2>5. Together(call, worker)
    BY <1>1, <1>2, <1>3 DEF Right, UnderWay, ReceivedRight, Together
  <2>6. Together(d, worker)
    BY <1>1, <1>2, <1>3, <1>6, <2>0, <2>3, <2>4, <2>5, OneMoreSegment
  <2>7. CASE all
    <3>1. d.received = Segments /\ d.pc = "done" /\ d.op = "ScanAllSegments" /\ d.limit = call.limit
      BY <1>1, <2>0, <2>3, <2>7 DEF SameKind
    <3>2. \A v \in Segments : Gathered(worker[v].items, call, Walk(d.op, v), always, ever)
      <4>. TAKE v \in Segments
      <4>1. worker[v].pc = "sent" /\ worker[v].after # -1
        BY <2>6, <3>1 DEF Together
      <4>2. WorkerRight(worker[v], v, call, always, ever)
        BY <1>2, <1>3 DEF Right, UnderWay
      <4>. QED
        BY <1>1, <3>1, <4>1, <4>2 DEF WorkerRight
    <3>3. \A v \in Segments : \A o \in Range(worker[v].items) : o \in Positions /\ o \in Range(items) /\ o \in ever
      <4>. TAKE v \in Segments
      <4>. TAKE o \in Range(worker[v].items)
      <4>1. o \in ever /\ o \in Walk(d.op, v)
        BY <3>2 DEF Gathered
      <4>2. o \in Positions
        BY <4>1 DEF Walk
      <4>. QED
        BY <2>3, <2>6, <3>1, <4>1, <4>2 DEF Together
    <3>4. Range(items) \subseteq ever
      <4>. SUFFICES ASSUME NEW o \in Range(items) PROVE o \in ever
        OBVIOUS
      <4>1. o \in Positions
        BY <2>2, ItemFacts
      <4>2. PICK v \in Segments : o \in Range(worker[v].items)
        BY <2>3, <2>6, <3>1, <4>1 DEF Together
      <4>. QED
        BY <3>3, <4>2
    <3>5. \A v \in Segments : CompleteOf(items, call.limit, Walk(d.op, v), always)
      <4>. TAKE v \in Segments
      <4>1. worker[v].items \in Seq(Positions) /\ Walk(d.op, v) \subseteq Positions
        BY <1>3 DEF Workers, Walk
      <4>2. \A o \in Range(worker[v].items) : o \in Range(items)
        BY <3>3
      <4>3. Gathered(worker[v].items, call, Walk(d.op, v), always, ever)
        BY <3>2
      <4>. QED
        BY <1>2, <4>1, <4>2, <4>3, GatheredComplete
    <3>6. IsInjective(items)
      BY <2>3, <2>6 DEF Together
    <3>7. ExactOf(d, always, ever)
      BY <2>3, <3>1, <3>4, <3>5, <3>6 DEF ExactOf
    <3>8. Right(table, d, worker, always, ever)
      BY <1>2, <1>3, <2>3, <2>4, <3>1, <3>7, Answered
    <3>. QED
      BY <1>1, <1>4, <3>8 DEF ReadInv
  <2>8. CASE ~all
    <3>1. d.pc = "running" /\ d.op = "ScanAllSegments" /\ d # Idle
      BY <1>1, <2>3, <2>4, <2>8, CallIs DEF SameKind
    <3>2. ReceivedRight(d, worker)
      BY <2>6 DEF ReceivedRight, Together
    <3>3. CursorRight(d, worker, always, ever)
      BY <3>1 DEF CursorRight
    <3>4. \A v \in Segments : WorkerRight(worker[v], v, d, always, ever)
      <4>. TAKE v \in Segments
      <4>1. WorkerRight(worker[v], v, call, always, ever)
        BY <1>2, <1>3 DEF Right, UnderWay
      <4>. QED
        BY <2>3, <4>1, WorkerSame
    <3>5. Types(table, d, worker, always, ever)
      BY <1>3, <2>4 DEF Right, Types
    <3>6. UnderWay(table, d, worker, always, ever)
      BY <1>2, <1>3, <2>3, <3>2, <3>3, <3>4 DEF Right, UnderWay
    <3>7. ExactOf(d, always, ever)
      BY <3>1 DEF ExactOf
    <3>. QED
      BY <1>1, <1>4, <3>5, <3>6, <3>7 DEF ReadInv, Right
  <2>. QED
    BY <2>7, <2>8
<1>. QED
  BY <1>5, <1>6

------------------------------------------------------------------------------
\* At first there is no call.
LEMMA StartsRightly == ReadInit => ReadInv
<1>. SUFFICES ASSUME ReadInit PROVE ReadInv
  OBVIOUS
<1>1. /\ table \in [Positions -> {"none", "hit", "miss"}] /\ call = Idle
      /\ worker = [w \in Segments |-> Off] /\ always = {} /\ ever = {}
  BY DEF ReadInit
<1>2. Off \in Workers /\ Off.pc = "off"
  <2>1. PICK s \in Seq(Positions) : s = <<>>
    BY EmptyItems
  <2>2. Off = Worker("off", 0, s)
    BY <2>1 DEF Off
  <2>. QED
    BY <2>2, WorkerIs
<1>3. Types(table, call, worker, always, ever)
  BY <1>1, <1>2 DEF Types
<1>4. UnderWay(table, call, worker, always, ever)
  BY <1>1 DEF UnderWay
<1>5. ExactOf(call, always, ever)
  BY <1>1 DEF ExactOf, Idle
<1>. QED
  BY <1>3, <1>4, <1>5 DEF ReadInv, Right

\* Every step of a reader, of DynamoDB and of the writers keeps the reads right.
LEMMA StaysRight == ReadInv /\ [ReadNext]_readVars => ReadInv'
<1>. SUFFICES ASSUME ReadInv, [ReadNext]_readVars PROVE ReadInv'
  OBVIOUS
<1>1. ASSUME NEW exec \in {"db", "main"}, NEW r \in Retries, First(exec, r) PROVE ReadInv'
  BY <1>1, StartsRight
<1>2. ASSUME NEW exec \in {"db", "main"}, NEW r \in Retries, NEW l \in Limits, All(exec, l, r) PROVE ReadInv'
  BY <1>2, StartsRight
<1>3. ASSUME NEW exec \in {"db", "main"}, NEW l \in Limits, ScanAllSegments(exec, l) PROVE ReadInv'
  BY <1>3, StartsRight
<1>4. CASE Count
  BY <1>4, StartsRight
<1>5. ASSUME NEW l \in Limits \ {0}, AllPaginated(l) PROVE ReadInv'
  BY <1>5, StartsRight
<1>6. ASSUME NEW w \in Segments, Step(w) PROVE ReadInv'
  BY <1>6, NextPageStep, SendStep, ReceiveStep DEF Step
<1>7. ASSUME NEW w \in Segments, PageFails(w) PROVE ReadInv'
  BY <1>7, PageFailsStep
<1>8. CASE ExecutePage
  BY <1>8, ExecutePageStep
<1>9. CASE SetCursor
  BY <1>9, SetCursorStep
<1>10. CASE Return
  BY <1>10, ReturnStep
<1>11. ASSUME NEW p \in Positions, NEW x \in {"none", "hit", "miss"}, Write(p, x) PROVE ReadInv'
  BY <1>11, WriteStep
<1>12. CASE UNCHANGED readVars
  <2>1. table' = table /\ call' = call /\ worker' = worker /\ always' = always /\ ever' = ever
    BY <1>12 DEF readVars
  <2>. QED
    BY <2>1 DEF ReadInv
<1>. QED
  BY <1>1, <1>2, <1>3, <1>4, <1>5, <1>6, <1>7, <1>8, <1>9, <1>10, <1>11, <1>12 DEF ReadNext

\* The answer of every read that was tried, by any of the executors and in any
\* number of pages or segments, is exact whatever is written between the pages and
\* wherever DynamoDB cuts them: nothing missing, repeated or made up.  The limit says
\* where it may end, in a parallel scan for each segment, and bounds the answer of
\* First and All of the executor of DB (collectPaginatedItems, query_executor.go:1263;
\* executeReadWithPagination; ScanAllSegments, query.go:1111).
THEOREM ReadsExact == ReadSpec => []ReadExact
<1>1. ReadInv => ReadExact
  <2>. SUFFICES ASSUME ReadInv PROVE ReadExact
    OBVIOUS
  <2>1. ExactOf(call, always, ever)
    BY DEF ReadInv, Right
  <2>2. \A w \in Segments : span(w) = Walk(call.op, w)
    BY WalkOfSpan
  <2>3. \A items, limit, where : Complete(items, limit, where) <=> CompleteOf(items, limit, where, always)
    BY DEF Complete, CompleteOf
  <2>. QED
    BY <2>1, <2>2, <2>3 DEF ReadExact, ExactOf, NeverTried, LimitBounds
<1>. QED
  BY <1>1, StartsRightly, StaysRight, PTL DEF ReadSpec

(***************************************************************************)
(* Plans.                                                                  *)
(*                                                                         *)
(* The counters are read and written back without a lock, so a count may   *)
(* be lost; what an estimate needs is that none is made up.  Executions    *)
(* reported and not yet counted are the slack: whatever value is written   *)
(* next, with all that are still to be counted on top, the number reported *)
(* is not passed.                                                          *)
(***************************************************************************)
Counting == {"read", "write", "store"}
UserPlaces == {"away", "made", "planned", "executed", "reports"} \cup Counting
StatsKeys == {generateStatsKey(query) : query \in Queries}

\* The call r of a goroutine, with n statistics made.
CallOK(r, n) ==
    /\ r.pc \in UserPlaces
    /\ r.pc # "away" => r.q \in Queries
    /\ r.pc \in Counting => r.stats \in 1..n
    /\ r.pc \in {"executed", "reports", "read", "write"} =>
          r.result.executions = 1 /\ r.result.items \in Nat
    /\ r.pc \in {"read", "write"} => r.at \in 1..2
    /\ r.pc = "write" => r.value \in Nat

OptTypes ==
    /\ statistics \in Seq([executions : Nat, items : Nat])
    /\ DOMAIN user = Users
    /\ user = [u \in Users |-> user[u]]
    /\ \A u \in Users : CallOK(user[u], Len(statistics))
    /\ recorded \in [StatsKeys -> Nat]
    /\ \A k \in DOMAIN queryStats :
          k \in StatsKeys /\ queryStats[k] \in 1..Len(statistics)

\* The statistics number s are those of the fields k.
Belongs(s, k) ==
    \/ k \in DOMAIN queryStats /\ queryStats[k] = s
    \/ \E u \in Users : /\ user[u].pc \in Counting /\ user[u].stats = s
                        /\ generateStatsKey(user[u].q) = k

\* Goroutines that have reported an execution and not yet counted it.
Uncounted(s) ==
    {u \in Users : user[u].pc \in {"read", "write"} /\ user[u].at = 1 /\ user[u].stats = s}

\* Statistics are of one query's fields, and whatever value is written to
\* their counter of executions next, it is covered by executions reported.
Covered ==
    \A s \in 1..Len(statistics), k \in StatsKeys : Belongs(s, k) =>
        /\ \A j \in StatsKeys : Belongs(s, j) => j = k
        /\ statistics[s].executions + Cardinality(Uncounted(s)) <= recorded[k]
        /\ \A u \in Uncounted(s) :
              user[u].pc = "write" => user[u].value + Cardinality(Uncounted(s)) <= recorded[k]

\* A plan for query.
Fits(plan, query, reports) ==
    /\ plan.op \in {"Query", "Scan"}
    /\ plan.op = "Query" <=> query.conds # <<>>
    /\ plan.confident => reports[generateStatsKey(query)] > Enough

Plans ==
    /\ \A id \in DOMAIN cache : \A query \in Queries : generatePlanID(query) = id => Fits(cache[id], query, recorded)
    /\ \A u \in Users : user[u].pc \in {"made", "planned"} => Fits(user[u].plan, user[u].q, recorded)
    /\ \A u \in Users : user[u].pc = "executed" => (user[u].read = "All" <=> user[u].q.conds # <<>>)

OptInv == OptTypes /\ Covered /\ Plans

USE OptimizerAssumption
------------------------------------------------------------------------------
\* A step of the goroutine u that leaves it at r.
Moves(u, r) == user' = [user EXCEPT ![u] = r]

\* Only the goroutine that moves changes its call.
LEMMA Moved ==
    ASSUME OptTypes, NEW u \in Users, NEW r, Moves(u, r)
    PROVE  /\ DOMAIN user' = Users
           /\ user' = [v \in Users |-> user'[v]]
           /\ user'[u] = r
           /\ \A v \in Users : v # u => user'[v] = user[v]
BY DEF OptTypes, Moves

\* Statistics are kept under the fields of a query.
LEMMA KeyOfQuery == ASSUME NEW query \in Queries PROVE generateStatsKey(query) \in StatsKeys
BY DEF StatsKeys

\* What fits goes on fitting when more executions are reported.
Grown == \A k \in StatsKeys : recorded'[k] >= recorded[k]

\* A plan that fits goes on fitting.
LEMMA FitsOn ==
    ASSUME OptTypes, OptTypes', Grown, NEW p, NEW query \in Queries, Fits(p, query, recorded)
    PROVE  Fits(p, query, recorded')
<1>1. generateStatsKey(query) \in StatsKeys
  BY KeyOfQuery
<1>2. recorded'[generateStatsKey(query)] >= recorded[generateStatsKey(query)]
  BY <1>1 DEF Grown
<1>3. recorded[generateStatsKey(query)] \in Nat /\ recorded'[generateStatsKey(query)] \in Nat
  BY <1>1 DEF OptTypes
<1>. QED
  BY <1>2, <1>3 DEF Fits

\* The other goroutines and the cache keep their plans.
LEMMA PlansOn ==
    ASSUME OptTypes, OptTypes', Grown, Plans, NEW u \in Users,
           \A v \in Users : v # u => user'[v] = user[v],
           UNCHANGED cache,
           user'[u].pc \in {"made", "planned"} => Fits(user'[u].plan, user'[u].q, recorded'),
           user'[u].pc = "executed" => (user'[u].read = "All" <=> user'[u].q.conds # <<>>)
    PROVE  Plans'
<1>1. ASSUME NEW id \in DOMAIN cache', NEW query \in Queries, generatePlanID(query) = id
      PROVE  Fits(cache'[id], query, recorded')
  <2>1. Fits(cache[id], query, recorded)
    BY <1>1 DEF Plans
  <2>2. PICK p : p = cache[id]
    OBVIOUS
  <2>3. Fits(p, query, recorded')
    BY <2>1, <2>2, FitsOn
  <2>. QED
    BY <2>2, <2>3
<1>2. ASSUME NEW v \in Users, user'[v].pc \in {"made", "planned"}
      PROVE  Fits(user'[v].plan, user'[v].q, recorded')
  <2>1. CASE v = u
    BY <1>2, <2>1
  <2>2. CASE v # u
    <3>1. user'[v] = user[v] /\ Fits(user[v].plan, user[v].q, recorded) /\ user[v].q \in Queries
      BY <1>2, <2>2 DEF Plans, OptTypes, CallOK
    <3>2. PICK p, query : p = user[v].plan /\ query = user[v].q
      OBVIOUS
    <3>3. Fits(p, query, recorded')
      BY <3>1, <3>2, FitsOn
    <3>. QED
      BY <3>1, <3>2, <3>3
  <2>. QED
    BY <2>1, <2>2
<1>3. ASSUME NEW v \in Users, user'[v].pc = "executed"
      PROVE  user'[v].read = "All" <=> user'[v].q.conds # <<>>
  BY <1>3 DEF Plans
<1>. QED
  BY <1>1, <1>2, <1>3 DEF Plans

\* A goroutine that counts nothing, before and after.
LEMMA CoveredOutside ==
    ASSUME OptTypes, Covered, NEW u \in Users,
           \A v \in Users : v # u => user'[v] = user[v],
           user[u].pc \notin Counting, user'[u].pc \notin Counting,
           UNCHANGED <<statistics, queryStats, recorded>>
    PROVE  Covered'
<1>1. ASSUME NEW s PROVE Uncounted(s)' = Uncounted(s)
  BY DEF Uncounted, Counting
<1>2. ASSUME NEW s, NEW k, Belongs(s, k)' PROVE Belongs(s, k)
  BY <1>2 DEF Belongs, Counting
<1>3. ASSUME NEW s, NEW v \in Uncounted(s) PROVE user'[v] = user[v]
  BY <1>3 DEF Uncounted, Counting
<1>. QED
  BY <1>1, <1>2, <1>3 DEF Covered

\* What a statistic holds.
LEMMA Statistic ==
    ASSUME OptTypes, NEW s \in 1..Len(statistics)
    PROVE  statistics[s] \in [executions : Nat, items : Nat]
BY ElementOfSeq DEF OptTypes

\* Only finitely many goroutines can be behind with counting.
LEMMA Finite == ASSUME NEW s PROVE IsFiniteSet(Uncounted(s)) /\ Cardinality(Uncounted(s)) \in Nat
BY FS_Subset, FS_CardinalityType DEF Uncounted
------------------------------------------------------------------------------
\* At first there are no plans and no statistics.
LEMMA OptInitInv == OptInit => OptInv
<1>. SUFFICES ASSUME OptInit PROVE OptInv
  OBVIOUS
<1>1. OptTypes
  <2>1. statistics \in Seq([executions : Nat, items : Nat]) /\ Len(statistics) = 0
    BY DEF OptInit
  <2>2. \A u \in Users : CallOK(user[u], 0)
    BY DEF OptInit, Away, CallOK, UserPlaces, Counting
  <2>3. recorded \in [StatsKeys -> Nat]
    BY DEF OptInit, StatsKeys
  <2>4. DOMAIN queryStats = {}
    BY DEF OptInit
  <2>. QED
    BY <2>1, <2>2, <2>3, <2>4 DEF OptTypes, OptInit
<1>2. Covered
  BY DEF OptInit, Covered
<1>3. Plans
  BY DEF OptInit, Plans, Away
<1>. QED
  BY <1>1, <1>2, <1>3 DEF OptInv

\* A step that touches neither statistics nor calls leaves them covered.
LEMMA CoveredSame ==
    ASSUME Covered, UNCHANGED <<statistics, queryStats, recorded, user>>
    PROVE  Covered'
<1>1. ASSUME NEW s PROVE Uncounted(s)' = Uncounted(s)
  BY DEF Uncounted
<1>2. ASSUME NEW s, NEW k PROVE Belongs(s, k)' <=> Belongs(s, k)
  BY DEF Belongs
<1>. QED
  BY <1>1, <1>2 DEF Covered

\* Time makes plans expire, it changes none.
LEMMA ClockStep == ASSUME OptInv, Clock PROVE OptInv'
<1>1. OptTypes'
  BY DEF OptInv, Clock, OptTypes
<1>2. Covered'
  BY CoveredSame DEF OptInv, Clock
<1>3. Plans'
  BY DEF OptInv, Clock, Plans
<1>. QED
  BY <1>1, <1>2, <1>3 DEF OptInv

\* ClearCache forgets plans, and makes none.
LEMMA ClearStep == ASSUME OptInv, ClearCache PROVE OptInv'
<1>1. OptTypes'
  BY DEF OptInv, ClearCache, OptTypes
<1>2. Covered'
  BY CoveredSame DEF OptInv, ClearCache
<1>3. Plans'
  BY DEF OptInv, ClearCache, Plans
<1>. QED
  BY <1>1, <1>2, <1>3 DEF OptInv

\* A step that touches nothing but its own call, and counts nothing.
LEMMA QuietStep ==
    ASSUME OptInv, NEW u \in Users, NEW r, Moves(u, r),
           UNCHANGED <<cache, statistics, queryStats, recorded>>,
           user[u].pc \notin Counting, r.pc \notin Counting,
           CallOK(r, Len(statistics)),
           r.pc \in {"made", "planned"} => Fits(r.plan, r.q, recorded),
           r.pc = "executed" => (r.read = "All" <=> r.q.conds # <<>>)
    PROVE  OptInv'
<1>1. OptTypes /\ Covered /\ Plans
  BY DEF OptInv
<1>2. /\ DOMAIN user' = Users
      /\ user' = [v \in Users |-> user'[v]]
      /\ user'[u] = r
      /\ \A v \in Users : v # u => user'[v] = user[v]
  BY <1>1, Moved
<1>3. OptTypes'
  BY <1>1, <1>2 DEF OptTypes
<1>4. Covered'
  BY <1>1, <1>2, CoveredOutside
<1>5. Grown
  BY <1>1 DEF Grown, OptTypes
<1>6. user'[u].pc \in {"made", "planned"} => Fits(user'[u].plan, user'[u].q, recorded')
  BY <1>2
<1>7. Plans'
  BY <1>1, <1>2, <1>3, <1>5, <1>6, PlansOn
<1>. QED
  BY <1>3, <1>4, <1>7 DEF OptInv

\* A cached plan fits every query that has its identifier.
LEMMA CachedPlanStep ==
    ASSUME OptInv, NEW u \in Users, NEW query \in Queries, CachedPlan(u, query) PROVE OptInv'
<1>1. PICK r : r = [pc |-> "planned", q |-> query, plan |-> cache[generatePlanID(query)]]
  OBVIOUS
<1>2. Moves(u, r) /\ user[u].pc \notin Counting /\ r.pc \notin Counting
  BY <1>1 DEF CachedPlan, Moves, Counting
<1>3. CallOK(r, Len(statistics))
  BY <1>1 DEF CallOK, Counting, UserPlaces
<1>4. Fits(r.plan, r.q, recorded)
  BY <1>1 DEF CachedPlan, OptInv, Plans
<1>. QED
  BY <1>1, <1>2, <1>3, <1>4, QuietStep DEF CachedPlan

\* An estimate that claims to rest on history rests on executions reported.
LEMMA Estimated ==
    ASSUME OptInv, NEW query \in Queries, estimateCost(query).confident
    PROVE  recorded[generateStatsKey(query)] > Enough
<1>1. PICK k : k = generateStatsKey(query) /\ k \in StatsKeys
  BY KeyOfQuery
<1>2. k \in DOMAIN queryStats /\ statistics[queryStats[k]].executions > Enough
  BY <1>1 DEF estimateCost
<1>3. PICK s : s = queryStats[k] /\ s \in 1..Len(statistics)
  BY <1>2 DEF OptInv, OptTypes
<1>4. Belongs(s, k)
  BY <1>2, <1>3 DEF Belongs
<1>5. statistics[s].executions + Cardinality(Uncounted(s)) <= recorded[k]
  BY <1>1, <1>3, <1>4 DEF OptInv, Covered
<1>6. statistics[s].executions \in Nat /\ recorded[k] \in Nat
  BY <1>1, <1>3, Statistic DEF OptInv, OptTypes
<1>7. Cardinality(Uncounted(s)) \in Nat
  BY Finite
<1>. QED
  BY <1>1, <1>2, <1>3, <1>5, <1>6, <1>7

\* A new plan fits the query it is made for.
LEMMA MakePlanStep ==
    ASSUME OptInv, NEW u \in Users, NEW query \in Queries, MakePlan(u, query) PROVE OptInv'
<1>1. PICK found : found = IF query.conds # <<>> THEN analyzeQueryConditions ELSE analyzeScanOperation(query)
  OBVIOUS
<1>2. PICK cost : cost = estimateCost(query)
  OBVIOUS
<1>3. PICK r : r = [pc |-> "made", q |-> query,
             plan |-> [op |-> found.op, segments |-> found.segments, cachedAt |-> time,
                       confident |-> cost.confident, source |-> cost.source]]
  OBVIOUS
<1>4. Moves(u, r) /\ user[u].pc \notin Counting /\ r.pc \notin Counting
  BY <1>1, <1>2, <1>3 DEF MakePlan, Moves, Counting
<1>5. CallOK(r, Len(statistics))
  BY <1>3 DEF CallOK, Counting, UserPlaces
<1>6. found.op = IF query.conds # <<>> THEN "Query" ELSE "Scan"
  BY <1>1 DEF analyzeQueryConditions, analyzeScanOperation
<1>7. Fits(r.plan, r.q, recorded)
  BY <1>2, <1>3, <1>6, Estimated DEF Fits
<1>. QED
  BY <1>3, <1>4, <1>5, <1>7, QuietStep DEF MakePlan

\* A query is executed as its plan says.
LEMMA ExecuteStep == ASSUME OptInv, NEW u \in Users, Execute(u) PROVE OptInv'
<1>1. PICK r : r = [pc |-> "executed", q |-> user[u].q, read |-> ReadOf(user[u].plan),
                    result |-> [executions |-> 1, items |-> 0]]
  OBVIOUS
<1>2. Moves(u, r) /\ user[u].pc \notin Counting /\ r.pc \notin Counting
  BY <1>1 DEF Execute, Moves, Counting, OptInv, OptTypes
<1>3. CallOK(user[u], Len(statistics)) /\ Fits(user[u].plan, user[u].q, recorded)
  BY DEF Execute, OptInv, OptTypes, Plans
<1>4. CallOK(r, Len(statistics))
  BY <1>1, <1>3 DEF CallOK, Counting, UserPlaces, Execute
<1>5. r.read = "All" <=> r.q.conds # <<>>
  BY <1>1, <1>3 DEF Fits, ReadOf
<1>. QED
  BY <1>1, <1>2, <1>4, <1>5, QuietStep DEF Execute

\* A result reported without a plan counts as any other.
LEMMA ReportStep ==
    ASSUME OptInv, NEW u \in Users, NEW query \in Queries, Report(u, query, 2) PROVE OptInv'
<1>1. PICK r : r = [pc |-> "reports", q |-> query, result |-> [executions |-> 1, items |-> 2]]
  OBVIOUS
<1>2. Moves(u, r) /\ user[u].pc \notin Counting /\ r.pc \notin Counting
  BY <1>1 DEF Report, Moves, Counting
<1>3. CallOK(r, Len(statistics))
  BY <1>1 DEF CallOK, Counting, UserPlaces
<1>. QED
  BY <1>1, <1>2, <1>3, QuietStep DEF Report

\* Without adaptive learning nothing is counted.
LEMMA RecordDisabledStep == ASSUME OptInv, NEW u \in Users, RecordDisabled(u) PROVE OptInv'
<1>1. Moves(u, Away) /\ user[u].pc \notin Counting /\ Away.pc \notin Counting
  BY DEF RecordDisabled, Reporting, Moves, Counting, Away
<1>2. CallOK(Away, Len(statistics))
  BY DEF CallOK, Counting, UserPlaces, Away
<1>. QED
  BY <1>1, <1>2, QuietStep DEF RecordDisabled, Away

\* A stored plan fits every query that has its identifier.
LEMMA StorePlanStep == ASSUME OptInv, NEW u \in Users, StorePlan(u) PROVE OptInv'
<1>0. OptTypes /\ Covered /\ Plans
  BY DEF OptInv
<1>1. PICK r : r = [pc |-> "planned", q |-> user[u].q, plan |-> user[u].plan]
  OBVIOUS
<1>2. Moves(u, r) /\ user[u].pc \notin Counting /\ r.pc \notin Counting
  BY <1>0, <1>1 DEF StorePlan, Moves, Counting, OptTypes
<1>3. /\ DOMAIN user' = Users
      /\ user' = [v \in Users |-> user'[v]]
      /\ user'[u] = r
      /\ \A v \in Users : v # u => user'[v] = user[v]
  BY <1>0, <1>2, Moved
<1>4. CallOK(user[u], Len(statistics)) /\ Fits(r.plan, r.q, recorded) /\ user[u].pc = "made"
  BY <1>0, <1>1 DEF StorePlan, OptTypes, Plans
<1>5. CallOK(r, Len(statistics))
  BY <1>1, <1>4 DEF CallOK, Counting, UserPlaces
<1>6. OptTypes'
  BY <1>0, <1>3, <1>5 DEF OptTypes, StorePlan
<1>7. Covered'
  BY <1>0, <1>2, <1>3, CoveredOutside DEF StorePlan
<1>8. ASSUME NEW id \in DOMAIN cache', NEW query \in Queries, generatePlanID(query) = id
      PROVE  Fits(cache'[id], query, recorded')
  <2>1. CASE id = generatePlanID(r.q)
    <3>1. cache'[id] = r.plan
      BY <1>1, <1>8, <2>1 DEF StorePlan, Store
    <3>2. query.conds = r.q.conds
      BY <1>8, <2>1 DEF generatePlanID
    <3>3. generateStatsKey(query) = generateStatsKey(r.q)
      BY <3>2 DEF generateStatsKey
    <3>. QED
      BY <1>4, <3>1, <3>2, <3>3 DEF Fits, StorePlan
  <2>2. CASE id # generatePlanID(r.q)
    <3>1. id \in DOMAIN cache /\ cache'[id] = cache[id]
      BY <1>1, <1>8, <2>2 DEF StorePlan, Store
    <3>2. Fits(cache[id], query, recorded)
      BY <1>0, <1>8, <3>1 DEF Plans
    <3>. QED
      BY <3>1, <3>2 DEF StorePlan
  <2>. QED
    BY <2>1, <2>2
<1>9. ASSUME NEW v \in Users, user'[v].pc \in {"made", "planned"}
      PROVE  Fits(user'[v].plan, user'[v].q, recorded')
  <2>1. CASE v = u
    BY <1>3, <1>4, <2>1 DEF StorePlan
  <2>2. CASE v # u
    BY <1>0, <1>3, <1>9, <2>2 DEF Plans, StorePlan
  <2>. QED
    BY <2>1, <2>2
<1>10. ASSUME NEW v \in Users, user'[v].pc = "executed"
       PROVE  user'[v].read = "All" <=> user'[v].q.conds # <<>>
  BY <1>0, <1>1, <1>3, <1>10 DEF Plans
<1>11. Plans'
  BY <1>8, <1>9, <1>10 DEF Plans
<1>. QED
  BY <1>6, <1>7, <1>11 DEF OptInv

\* Between reading a counter and storing the statistics, u keeps to them.
LEMMA Owners ==
    ASSUME OptTypes, Covered, NEW u \in Users, user[u].pc \in Counting
    PROVE  /\ generateStatsKey(user[u].q) \in StatsKeys
           /\ Belongs(user[u].stats, generateStatsKey(user[u].q))
           /\ user[u].stats \in 1..Len(statistics)
<1>1. CallOK(user[u], Len(statistics))
  BY DEF OptTypes
<1>. QED
  BY <1>1, KeyOfQuery DEF CallOK, Belongs, Counting

\* A counter read is at most what is in it.
LEMMA ReadCounterStep == ASSUME OptInv, NEW u \in Users, ReadCounter(u) PROVE OptInv'
<1>0. OptTypes /\ Covered /\ Plans /\ user[u].pc = "read" /\ user[u].pc \in Counting
  BY DEF OptInv, ReadCounter, Counting
<1>1. PICK r : r = [pc |-> "write", q |-> user[u].q, result |-> user[u].result, at |-> user[u].at,
                    stats |-> user[u].stats,
                    value |-> statistics[user[u].stats][Counters[user[u].at]]]
  OBVIOUS
<1>2. Moves(u, r)
  BY <1>0, <1>1 DEF ReadCounter, Moves, OptTypes
<1>3. /\ DOMAIN user' = Users
      /\ user' = [v \in Users |-> user'[v]]
      /\ user'[u] = r
      /\ \A v \in Users : v # u => user'[v] = user[v]
  BY <1>0, <1>2, Moved
<1>4. CallOK(user[u], Len(statistics))
  BY <1>0 DEF OptTypes
<1>5. statistics[user[u].stats] \in [executions : Nat, items : Nat]
  BY <1>0, <1>4, Statistic DEF CallOK, Counting
<1>6. /\ r.value \in Nat
      /\ r.at = 1 => r.value = statistics[r.stats].executions
  <2>1. CASE user[u].at = 1
    BY <1>1, <1>5, <2>1 DEF Counters
  <2>2. CASE user[u].at = 2
    BY <1>1, <1>5, <2>2 DEF Counters
  <2>. QED
    BY <1>0, <1>4, <2>1, <2>2 DEF CallOK
<1>7. CallOK(r, Len(statistics))
  BY <1>0, <1>1, <1>4, <1>6 DEF CallOK, Counting, UserPlaces
<1>8. OptTypes'
  BY <1>0, <1>3, <1>7 DEF OptTypes, ReadCounter
<1>9. Plans'
  <2>1. Grown
    BY <1>0 DEF Grown, OptTypes, ReadCounter
  <2>2. user'[u].pc = "write"
    BY <1>1, <1>3
  <2>. QED
    BY <1>0, <1>3, <1>8, <2>1, <2>2, PlansOn DEF ReadCounter
<1>10. Covered'
  <2>1. ASSUME NEW s PROVE Uncounted(s)' = Uncounted(s)
    BY <1>0, <1>1, <1>3 DEF Uncounted
  <2>2. ASSUME NEW s, NEW k, Belongs(s, k)' PROVE Belongs(s, k)
    <3>1. CASE k \in DOMAIN queryStats' /\ queryStats'[k] = s
      BY <3>1 DEF Belongs, ReadCounter
    <3>2. ASSUME NEW v \in Users, user'[v].pc \in Counting, user'[v].stats = s,
                 generateStatsKey(user'[v].q) = k
          PROVE  Belongs(s, k)
      BY <1>0, <1>1, <1>3, <3>2 DEF Belongs
    <3>. QED
      BY <2>2, <3>1, <3>2 DEF Belongs
  <2>3. ASSUME NEW s \in 1..Len(statistics), NEW k \in StatsKeys, Belongs(s, k),
               NEW v \in Uncounted(s), user'[v].pc = "write"
        PROVE  user'[v].value + Cardinality(Uncounted(s)) <= recorded[k]
    <3>1. CASE v = u
      BY <1>0, <1>1, <1>3, <1>6, <2>3, <3>1 DEF Covered, Uncounted
    <3>2. CASE v # u
      BY <1>0, <1>3, <2>3, <3>2 DEF Covered, Uncounted
    <3>. QED
      BY <3>1, <3>2
  <2>4. UNCHANGED <<statistics, recorded>>
    BY DEF ReadCounter
  <2>. QED
    BY <1>0, <2>1, <2>2, <2>3, <2>4 DEF Covered
<1>. QED
  BY <1>8, <1>9, <1>10 DEF OptInv

\* A counter written back, over what others wrote meanwhile, claims no more than was reported.
LEMMA WriteCounterStep == ASSUME OptInv, NEW u \in Users, WriteCounter(u) PROVE OptInv'
<1>0. OptTypes /\ Covered /\ Plans /\ user[u].pc = "write" /\ user[u].pc \in Counting
  BY DEF OptInv, WriteCounter, Counting
<1>1. PICK r : r = [pc |-> IF user[u].at = Len(Counters) THEN "store" ELSE "read", q |-> user[u].q,
                    result |-> user[u].result, at |-> user[u].at + 1, stats |-> user[u].stats]
  OBVIOUS
<1>2. Moves(u, r)
  BY <1>0, <1>1 DEF WriteCounter, Moves, OptTypes
<1>3. /\ DOMAIN user' = Users
      /\ user' = [v \in Users |-> user'[v]]
      /\ user'[u] = r
      /\ \A v \in Users : v # u => user'[v] = user[v]
  BY <1>0, <1>2, Moved
<1>4. CallOK(user[u], Len(statistics)) /\ Len(Counters) = 2
  BY <1>0 DEF OptTypes, Counters
<1>5. PICK t : t = user[u].stats /\ t \in 1..Len(statistics)
  BY <1>0, <1>4 DEF CallOK
<1>6. statistics[t] \in [executions : Nat, items : Nat]
  BY <1>0, <1>5, Statistic
<1>7. PICK c : c = [statistics[t] EXCEPT ![Counters[user[u].at]] =
                       user[u].value + user[u].result[Counters[user[u].at]]]
  OBVIOUS
<1>8. statistics' = [statistics EXCEPT ![t] = c]
  BY <1>5, <1>7 DEF WriteCounter
<1>9. /\ c \in [executions : Nat, items : Nat]
      /\ user[u].at = 1 => c.executions = user[u].value + 1
      /\ user[u].at = 2 => c.executions = statistics[t].executions
  <2>1. user[u].value \in Nat /\ user[u].result.executions = 1 /\ user[u].result.items \in Nat
    BY <1>0, <1>4 DEF CallOK
  <2>2. CASE user[u].at = 1
    BY <1>6, <1>7, <2>1, <2>2 DEF Counters
  <2>3. CASE user[u].at = 2
    BY <1>6, <1>7, <2>1, <2>3 DEF Counters
  <2>. QED
    BY <1>0, <1>4, <2>2, <2>3 DEF CallOK
<1>10. /\ statistics' \in Seq([executions : Nat, items : Nat])
       /\ Len(statistics') = Len(statistics)
       /\ statistics'[t] = c
       /\ \A s \in 1..Len(statistics) : s # t => statistics'[s] = statistics[s]
  BY <1>0, <1>5, <1>8, <1>9, ExceptSeq DEF OptTypes
<1>11. CallOK(r, Len(statistics))
  <2>1. user[u].at \in 1..2
    BY <1>0, <1>4 DEF CallOK
  <2>2. r.pc = "read" => r.at \in 1..2
    BY <1>1, <1>4, <2>1
  <2>. QED
    BY <1>0, <1>1, <1>4, <2>2 DEF CallOK, Counting, UserPlaces
<1>12. OptTypes'
  BY <1>0, <1>3, <1>10, <1>11 DEF OptTypes, WriteCounter
<1>13. Plans'
  <2>1. Grown
    BY <1>0 DEF Grown, OptTypes, WriteCounter
  <2>2. user'[u].pc \in {"store", "read"}
    BY <1>1, <1>3
  <2>. QED
    BY <1>0, <1>3, <1>12, <2>1, <2>2, PlansOn DEF WriteCounter
<1>14. Covered'
  <2>1. ASSUME NEW s, NEW k, Belongs(s, k)' PROVE Belongs(s, k)
    <3>1. CASE k \in DOMAIN queryStats' /\ queryStats'[k] = s
      BY <3>1 DEF Belongs, WriteCounter
    <3>2. ASSUME NEW v \in Users, user'[v].pc \in Counting, user'[v].stats = s,
                 generateStatsKey(user'[v].q) = k
          PROVE  Belongs(s, k)
      BY <1>0, <1>1, <1>3, <3>2 DEF Belongs
    <3>. QED
      BY <2>1, <3>1, <3>2 DEF Belongs
  <2>2. ASSUME NEW s PROVE Uncounted(s)' = Uncounted(s) \ {u}
    <3>1. r.at # 1
      BY <1>0, <1>1, <1>4 DEF CallOK
    <3>. QED
      BY <1>3, <3>1 DEF Uncounted
  <2>3. ASSUME NEW s
        PROVE  /\ Cardinality(Uncounted(s)') \in Nat /\ Cardinality(Uncounted(s)) \in Nat
               /\ u \in Uncounted(s) => Cardinality(Uncounted(s)') = Cardinality(Uncounted(s)) - 1
               /\ u \notin Uncounted(s) => Uncounted(s)' = Uncounted(s)
    <3>1. IsFiniteSet(Uncounted(s)) /\ Cardinality(Uncounted(s)) \in Nat
      BY Finite
    <3>2. u \in Uncounted(s) => Cardinality(Uncounted(s) \ {u}) = Cardinality(Uncounted(s)) - 1
      BY <3>1, FS_RemoveElement
    <3>3. IsFiniteSet(Uncounted(s) \ {u})
      BY <3>1, FS_RemoveElement
    <3>4. Cardinality(Uncounted(s) \ {u}) \in Nat
      BY <3>3, FS_CardinalityType
    <3>. QED
      BY <2>2, <3>1, <3>2, <3>4
  <2>4. u \in Uncounted(t) <=> user[u].at = 1
    BY <1>0, <1>5 DEF Uncounted
  <2>5. ASSUME NEW s \in 1..Len(statistics), NEW k \in StatsKeys, Belongs(s, k)
        PROVE  /\ \A j \in StatsKeys : Belongs(s, j)' => j = k
               /\ statistics'[s].executions + Cardinality(Uncounted(s)') <= recorded[k]
               /\ \A v \in Uncounted(s)' : user'[v].pc = "write" =>
                     user'[v].value + Cardinality(Uncounted(s)') <= recorded[k]
    <3>1. /\ \A j \in StatsKeys : Belongs(s, j) => j = k
          /\ statistics[s].executions + Cardinality(Uncounted(s)) <= recorded[k]
          /\ \A v \in Uncounted(s) : user[v].pc = "write" =>
                     user[v].value + Cardinality(Uncounted(s)) <= recorded[k]
      BY <1>0, <2>5 DEF Covered
    <3>2. \A j \in StatsKeys : Belongs(s, j)' => j = k
      BY <2>1, <3>1
    <3>3. recorded[k] \in Nat /\ statistics[s].executions \in Nat
      BY <1>0, <2>5, Statistic DEF OptTypes
    <3>4. statistics'[s].executions + Cardinality(Uncounted(s)') <= recorded[k]
      <4>1. CASE s # t
        <5>1. u \notin Uncounted(s)
          BY <1>5, <4>1 DEF Uncounted
        <5>. QED
          BY <1>10, <2>3, <3>1, <4>1, <5>1
      <4>2. CASE s = t /\ user[u].at = 1
        <5>1. u \in Uncounted(s) /\ user[u].value + Cardinality(Uncounted(s)) <= recorded[k]
          BY <1>0, <2>4, <3>1, <4>2
        <5>2. user[u].value \in Nat
          BY <1>0, <1>4 DEF CallOK
        <5>3. Cardinality(Uncounted(s)') = Cardinality(Uncounted(s)) - 1 /\ Cardinality(Uncounted(s)) \in Nat
          BY <2>3, <5>1
        <5>4. statistics'[s].executions = user[u].value + 1
          BY <1>9, <1>10, <4>2
        <5>. QED
          BY <3>3, <5>1, <5>2, <5>3, <5>4
      <4>3. CASE s = t /\ user[u].at = 2
        <5>1. Uncounted(s)' = Uncounted(s)
          BY <2>3, <2>4, <4>3
        <5>. QED
          BY <1>9, <1>10, <3>1, <4>3, <5>1
      <4>. QED
        BY <1>0, <1>4, <4>1, <4>2, <4>3 DEF CallOK
    <3>5. ASSUME NEW v \in Uncounted(s)', user'[v].pc = "write"
          PROVE  user'[v].value + Cardinality(Uncounted(s)') <= recorded[k]
      <4>1. v \in Uncounted(s) /\ v # u /\ v \in Users
        BY <2>2, <3>5 DEF Uncounted
      <4>2. user'[v] = user[v] /\ user[v].value + Cardinality(Uncounted(s)) <= recorded[k]
        BY <1>3, <3>1, <3>5, <4>1
      <4>3. user[v].value \in Nat
        BY <1>0, <3>5, <4>1, <4>2 DEF OptTypes, CallOK
      <4>4. Cardinality(Uncounted(s)') <= Cardinality(Uncounted(s)) /\ Cardinality(Uncounted(s)) \in Nat
            /\ Cardinality(Uncounted(s)') \in Nat
        BY <2>3
      <4>. QED
        BY <3>3, <4>2, <4>3, <4>4
    <3>. QED
      BY <3>2, <3>4, <3>5
  <2>6. UNCHANGED recorded
    BY DEF WriteCounter
  <2>. QED
    BY <1>10, <2>1, <2>5, <2>6 DEF Covered
<1>. QED
  BY <1>12, <1>13, <1>14 DEF OptInv

\* Statistics stored again are those of the same fields.
LEMMA StoreStatisticsStep == ASSUME OptInv, NEW u \in Users, StoreStatistics(u) PROVE OptInv'
<1>0. OptTypes /\ Covered /\ Plans /\ user[u].pc = "store" /\ user[u].pc \in Counting
  BY DEF OptInv, StoreStatistics, Counting
<1>1. Moves(u, Away)
  BY DEF StoreStatistics, Moves
<1>2. /\ DOMAIN user' = Users
      /\ user' = [v \in Users |-> user'[v]]
      /\ user'[u] = Away
      /\ \A v \in Users : v # u => user'[v] = user[v]
  BY <1>0, <1>1, Moved
<1>3. PICK key : key = generateStatsKey(user[u].q)
  OBVIOUS
<1>4. key \in StatsKeys /\ Belongs(user[u].stats, key) /\ user[u].stats \in 1..Len(statistics)
  BY <1>0, <1>3, Owners
<1>5. /\ DOMAIN queryStats' = DOMAIN queryStats \cup {key}
      /\ queryStats'[key] = user[u].stats
      /\ \A k \in DOMAIN queryStats : k # key => queryStats'[k] = queryStats[k]
  BY <1>3 DEF StoreStatistics, Store
<1>6. CallOK(Away, Len(statistics))
  BY DEF CallOK, Counting, UserPlaces, Away
<1>7. OptTypes'
  BY <1>0, <1>2, <1>4, <1>5, <1>6 DEF OptTypes, StoreStatistics
<1>8. Plans'
  <2>1. Grown
    BY <1>0 DEF Grown, OptTypes, StoreStatistics
  <2>2. user'[u].pc = "away"
    BY <1>2 DEF Away
  <2>. QED
    BY <1>0, <1>2, <1>7, <2>1, <2>2, PlansOn DEF StoreStatistics
<1>9. Covered'
  <2>1. ASSUME NEW s, NEW k, Belongs(s, k)' PROVE Belongs(s, k)
    <3>1. CASE k \in DOMAIN queryStats' /\ queryStats'[k] = s
      BY <1>4, <1>5, <3>1 DEF Belongs
    <3>2. ASSUME NEW v \in Users, user'[v].pc \in Counting, user'[v].stats = s,
                 generateStatsKey(user'[v].q) = k
          PROVE  Belongs(s, k)
      BY <1>2, <3>2 DEF Belongs, Away, Counting
    <3>. QED
      BY <2>1, <3>1, <3>2 DEF Belongs
  <2>2. ASSUME NEW s PROVE Uncounted(s)' = Uncounted(s)
    BY <1>0, <1>2 DEF Uncounted, Away
  <2>3. ASSUME NEW s, NEW v \in Uncounted(s) PROVE user'[v] = user[v]
    BY <1>0, <1>2 DEF Uncounted
  <2>. QED
    BY <1>0, <2>1, <2>2, <2>3 DEF Covered, StoreStatistics
<1>. QED
  BY <1>7, <1>8, <1>9 DEF OptInv

\* An execution is reported before it is counted.
LEMMA RecordExecutionStep == ASSUME OptInv, NEW u \in Users, RecordExecution(u) PROVE OptInv'
<1>0. OptTypes /\ Covered /\ Plans /\ user[u].pc \in {"executed", "reports"}
  BY DEF OptInv, RecordExecution, Reporting
<1>1. PICK key : key = generateStatsKey(user[u].q)
  OBVIOUS
<1>2. CallOK(user[u], Len(statistics)) /\ user[u].q \in Queries /\ key \in StatsKeys
  BY <1>0, <1>1, KeyOfQuery DEF OptTypes, CallOK
<1>3. PICK t : t = IF key \in DOMAIN queryStats THEN queryStats[key] ELSE Len(statistics) + 1
  OBVIOUS
<1>4. PICK r : r = [pc |-> "read", q |-> user[u].q, result |-> user[u].result, at |-> 1, stats |-> t]
  OBVIOUS
<1>5. Moves(u, r)
  BY <1>0, <1>1, <1>3, <1>4 DEF RecordExecution, Moves, OptTypes
<1>6. /\ DOMAIN user' = Users
      /\ user' = [v \in Users |-> user'[v]]
      /\ user'[u] = r
      /\ \A v \in Users : v # u => user'[v] = user[v]
  BY <1>0, <1>5, Moved
<1>7. /\ recorded' \in [StatsKeys -> Nat]
      /\ recorded'[key] = recorded[key] + 1
      /\ \A k \in StatsKeys : k # key => recorded'[k] = recorded[k]
      /\ \A k \in StatsKeys : recorded[k] \in Nat
  BY <1>0, <1>1, <1>2 DEF RecordExecution, OptTypes
<1>8. /\ statistics' \in Seq([executions : Nat, items : Nat])
      /\ Len(statistics) \in Nat
      /\ Len(statistics') = IF key \in DOMAIN queryStats THEN Len(statistics) ELSE Len(statistics) + 1
      /\ \A s \in 1..Len(statistics) : statistics'[s] = statistics[s]
      /\ key \notin DOMAIN queryStats => statistics'[t].executions = 0
  <2>0. PICK zero : zero = [executions |-> 0, items |-> 0]
    OBVIOUS
  <2>1. zero \in [executions : Nat, items : Nat] /\ zero.executions = 0
    BY <2>0
  <2>2. statistics' = IF key \in DOMAIN queryStats THEN statistics ELSE Append(statistics, zero)
    BY <1>1, <2>0 DEF RecordExecution
  <2>3. statistics \in Seq([executions : Nat, items : Nat]) /\ Len(statistics) \in Nat
    BY <1>0, LenProperties DEF OptTypes
  <2>4. CASE key \in DOMAIN queryStats
    BY <2>2, <2>3, <2>4
  <2>5. CASE key \notin DOMAIN queryStats
    <3>1. statistics' = Append(statistics, zero) /\ t = Len(statistics) + 1
      BY <1>3, <2>2, <2>5
    <3>2. /\ Append(statistics, zero) \in Seq([executions : Nat, items : Nat])
          /\ Len(Append(statistics, zero)) = Len(statistics) + 1
          /\ \A i \in 1..Len(statistics) : Append(statistics, zero)[i] = statistics[i]
          /\ Append(statistics, zero)[Len(statistics) + 1] = zero
      BY <2>1, <2>3, AppendProperties
    <3>. QED
      BY <2>1, <2>3, <2>5, <3>1, <3>2
  <2>. QED
    BY <2>4, <2>5
<1>9. t \in 1..Len(statistics') /\ Len(statistics) <= Len(statistics')
  BY <1>0, <1>3, <1>8 DEF OptTypes
<1>10. CallOK(r, Len(statistics'))
  BY <1>0, <1>2, <1>4, <1>9 DEF CallOK, Counting, UserPlaces
<1>11. OptTypes'
  <2>1. ASSUME NEW v \in Users PROVE CallOK(user'[v], Len(statistics'))
    <3>1. CASE v = u
      BY <1>6, <1>10, <3>1
    <3>2. CASE v # u
      <4>1. user'[v] = user[v] /\ CallOK(user[v], Len(statistics))
        BY <1>0, <1>6, <3>2 DEF OptTypes
      <4>2. \A n \in 1..Len(statistics) : n \in 1..Len(statistics')
        BY <1>8, <1>9
      <4>. QED
        BY <4>1, <4>2 DEF CallOK
    <3>. QED
      BY <3>1, <3>2
  <2>2. ASSUME NEW k \in DOMAIN queryStats' PROVE k \in StatsKeys /\ queryStats'[k] \in 1..Len(statistics')
    BY <1>0, <1>8, <1>9 DEF OptTypes, RecordExecution
  <2>. QED
    BY <1>6, <1>7, <1>8, <2>1, <2>2 DEF OptTypes
<1>12. Plans'
  <2>1. Grown
    BY <1>7 DEF Grown
  <2>2. user'[u].pc = "read"
    BY <1>4, <1>6
  <2>. QED
    BY <1>0, <1>6, <1>11, <2>1, <2>2, PlansOn DEF RecordExecution
<1>13. ASSUME NEW s, NEW k, Belongs(s, k)'
       PROVE  Belongs(s, k) \/ (s = t /\ k = key)
  <2>1. CASE k \in DOMAIN queryStats' /\ queryStats'[k] = s
    BY <2>1 DEF Belongs, RecordExecution
  <2>2. ASSUME NEW v \in Users, user'[v].pc \in Counting, user'[v].stats = s,
               generateStatsKey(user'[v].q) = k
        PROVE  Belongs(s, k) \/ (s = t /\ k = key)
    <3>1. CASE v = u
      BY <1>1, <1>4, <1>6, <2>2, <3>1
    <3>2. CASE v # u
      BY <1>6, <2>2, <3>2 DEF Belongs
    <3>. QED
      BY <3>1, <3>2
  <2>. QED
    BY <1>13, <2>1, <2>2 DEF Belongs
<1>14. ASSUME NEW s, NEW k, Belongs(s, k) PROVE s \in 1..Len(statistics) /\ k \in StatsKeys
  BY <1>0, <1>14, KeyOfQuery DEF Belongs, OptTypes, CallOK, Counting
<1>15. ASSUME NEW k, Belongs(t, k) PROVE k = key
  <2>1. CASE key \in DOMAIN queryStats
    <3>1. Belongs(t, key)
      BY <1>3, <2>1 DEF Belongs
    <3>. QED
      BY <1>0, <1>2, <1>14, <1>15, <3>1 DEF Covered
  <2>2. CASE key \notin DOMAIN queryStats
    BY <1>3, <1>8, <1>14, <1>15, <2>2
  <2>. QED
    BY <2>1, <2>2
<1>16. ASSUME NEW s
       PROVE  /\ Cardinality(Uncounted(s)) \in Nat
              /\ s = t => Cardinality(Uncounted(s)') = Cardinality(Uncounted(s)) + 1
              /\ s # t => Uncounted(s)' = Uncounted(s)
              /\ \A v \in Uncounted(s)' : user'[v].pc = "write" => v \in Uncounted(s) /\ user'[v] = user[v]
  <2>1. u \notin Uncounted(s) /\ IsFiniteSet(Uncounted(s)) /\ Cardinality(Uncounted(s)) \in Nat
    BY <1>0, Finite DEF Uncounted
  <2>2. s = t => Uncounted(s)' = Uncounted(s) \cup {u}
    BY <1>0, <1>4, <1>6 DEF Uncounted
  <2>3. s # t => Uncounted(s)' = Uncounted(s)
    BY <1>0, <1>4, <1>6 DEF Uncounted
  <2>4. Cardinality(Uncounted(s) \cup {u}) = Cardinality(Uncounted(s)) + 1
    BY <2>1, FS_AddElement
  <2>5. \A v \in Uncounted(s)' : user'[v].pc = "write" => v \in Uncounted(s) /\ user'[v] = user[v]
    BY <1>4, <1>6 DEF Uncounted
  <2>. QED
    BY <2>1, <2>2, <2>3, <2>4, <2>5
<1>17. ASSUME NEW s \in 1..Len(statistics'), NEW k \in StatsKeys, Belongs(s, k)'
       PROVE  /\ \A j \in StatsKeys : Belongs(s, j)' => j = k
              /\ statistics'[s].executions + Cardinality(Uncounted(s)') <= recorded'[k]
              /\ \A v \in Uncounted(s)' : user'[v].pc = "write" =>
                     user'[v].value + Cardinality(Uncounted(s)') <= recorded'[k]
  <2>1. \A j \in StatsKeys : Belongs(s, j)' => j = k
    BY <1>0, <1>13, <1>14, <1>15, <1>17 DEF Covered
  <2>2. CASE Belongs(s, k)
    <3>1. /\ s \in 1..Len(statistics)
          /\ statistics[s].executions + Cardinality(Uncounted(s)) <= recorded[k]
          /\ \A v \in Uncounted(s) : user[v].pc = "write" =>
                user[v].value + Cardinality(Uncounted(s)) <= recorded[k]
      BY <1>0, <1>14, <2>2 DEF Covered
    <3>2. statistics'[s] = statistics[s] /\ statistics[s].executions \in Nat
      BY <1>0, <1>8, <3>1, Statistic
    <3>3. s = t => k = key
      BY <1>15, <2>2
    <3>4. /\ recorded[k] \in Nat /\ recorded'[k] \in Nat
          /\ recorded'[k] >= recorded[k]
          /\ s = t => recorded'[k] = recorded[k] + 1
      BY <1>7, <3>3
    <3>5. statistics'[s].executions + Cardinality(Uncounted(s)') <= recorded'[k]
      BY <1>16, <3>1, <3>2, <3>4
    <3>6. ASSUME NEW v \in Uncounted(s)', user'[v].pc = "write"
          PROVE  user'[v].value + Cardinality(Uncounted(s)') <= recorded'[k]
      <4>1. v \in Uncounted(s) /\ user'[v] = user[v] /\ v \in Users
        BY <1>16, <3>6 DEF Uncounted
      <4>2. user[v].value \in Nat
        <5>1. CallOK(user[v], Len(statistics)) /\ user[v].pc = "write"
          BY <1>0, <3>6, <4>1 DEF OptTypes
        <5>. QED
          BY <5>1 DEF CallOK
      <4>3. user[v].value + Cardinality(Uncounted(s)) <= recorded[k]
        BY <3>1, <3>6, <4>1
      <4>4. CASE s = t
        BY <1>16, <3>4, <4>1, <4>2, <4>3, <4>4
      <4>5. CASE s # t
        <5>1. Cardinality(Uncounted(s)') = Cardinality(Uncounted(s)) /\ Cardinality(Uncounted(s)) \in Nat
          BY <1>16, <4>5
        <5>. QED
          BY <3>4, <4>1, <4>2, <4>3, <5>1
      <4>. QED
        BY <4>4, <4>5
    <3>. QED
      BY <2>1, <3>5, <3>6
  <2>3. CASE ~Belongs(s, k)
    <3>1. s = t /\ k = key /\ key \notin DOMAIN queryStats
      BY <1>3, <1>13, <1>17, <2>3 DEF Belongs
    <3>2. statistics'[s].executions = 0 /\ t = Len(statistics) + 1
      BY <1>3, <1>8, <3>1
    <3>3. Uncounted(t) = {}
      <4>1. ASSUME NEW v \in Uncounted(t) PROVE FALSE
        <5>1. Belongs(t, generateStatsKey(user[v].q))
          BY <4>1 DEF Belongs, Uncounted, Counting
        <5>. QED
          BY <1>8, <1>14, <3>2, <5>1
      <4>. QED
        BY <4>1
    <3>4. Cardinality(Uncounted(s)') = 1
      <4>1. Cardinality({}) = 0
        BY FS_EmptySet
      <4>2. Cardinality(Uncounted(s)) = 0
        BY <3>1, <3>3, <4>1
      <4>3. Cardinality(Uncounted(s)') = Cardinality(Uncounted(s)) + 1
        BY <1>16, <3>1
      <4>. QED
        BY <4>2, <4>3
    <3>5. \A v \in Uncounted(s)' : user'[v].pc # "write"
      BY <1>16, <3>1, <3>3
    <3>. QED
      BY <1>7, <2>1, <3>1, <3>2, <3>4, <3>5
  <2>. QED
    BY <2>2, <2>3
<1>18. Covered'
  BY <1>17 DEF Covered
<1>. QED
  BY <1>11, <1>12, <1>18 DEF OptInv

\* Every step of a goroutine keeps the plans and the statistics right.
LEMMA OptStep == OptInv /\ [OptNext]_optVars => OptInv'
<1>1. ASSUME OptInv, UNCHANGED optVars PROVE OptInv'
  <2>1. OptTypes'
    BY <1>1 DEF OptInv, optVars, OptTypes
  <2>2. Covered'
    BY <1>1, CoveredSame DEF OptInv, optVars
  <2>3. Plans'
    BY <1>1 DEF OptInv, optVars, Plans
  <2>. QED
    BY <2>1, <2>2, <2>3 DEF OptInv
<1>. QED
  BY <1>1, ClockStep, ClearStep, CachedPlanStep, MakePlanStep, ReportStep, StorePlanStep, ExecuteStep,
     RecordDisabledStep, RecordExecutionStep, ReadCounterStep, WriteCounterStep, StoreStatisticsStep
  DEF OptNext

\* A plan never outlives what it was made from: a query is executed by the
\* operation its own conditions call for, whoever made the plan in the cache, and
\* an estimate that claims to rest on history has had that many executions
\* reported for the query's fields, however the goroutines that count them race
\* (OptimizeQuery, optimizer.go:94; RecordExecution, optimizer.go:334).
THEOREM Justified == OptSpec => []PlanJustified
<1>1. OptInv => PlanJustified
  BY DEF OptInv, Plans, Fits, PlanJustified
<1>. QED
  BY <1>1, OptInitInv, OptStep, PTL DEF OptSpec

------------------------------------------------------------------------------
(***************************************************************************)
(* Requests (QueryBuilder over Expr).  What an expression means depends on *)
(* maps of placeholders, so that the proof follows these: those to come are*)
(* free, and those that are there keep their meaning.  The values of the   *)
(* expression builder come first.                                          *)
(***************************************************************************)
Maps(D, R) == UNION {[S -> R] : S \in SUBSET D}

NameRefs == {<<"#", n>> : n \in STRING} \cup {<<"#n", k>> : k \in Nat}
ValueRefs == {<<":v", k>> : k \in Nat}

Operators == {"=", "<>", "<", "<=", ">", ">=", "EXISTS", "NOT_EXISTS", "BETWEEN", "IN",
              "BEGINS_WITH", "CONTAINS", "unsupported"}
Links == {"AND", "OR"}
Words == STRING \cup {"=", "ATTRIBUTE_EXISTS", "ATTRIBUTE_NOT_EXISTS", "SET", "ADD", "REMOVE", "IF_NOT_EXISTS"}

Terms == [op : Operators, name : NameRefs, vals : Seq(ValueRefs)]
GroupTerms == [op : {"GROUP"}, terms : Seq(Terms), operators : Seq(Links)]
UpdateTerms == [action : Words, name : NameRefs, vals : Seq(ValueRefs)]
AnyTerms == Terms \cup GroupTerms \cup UpdateTerms

Builders ==
    [names : Maps(NameRefs, STRING), values : Maps(ValueRefs, Nat),
     nameCounter : Nat, valueCounter : Nat,
     keyConditions : Seq(Terms),
     filterConditions : Seq(Terms \cup GroupTerms), filterOperators : Seq(Links),
     conditions : Seq(Terms), conditionOperators : Seq(Links),
     updates : Seq(UpdateTerms), err : BOOLEAN]

\* A map with any domain.
LEMMA MapsAre ==
    ASSUME NEW D, NEW R, NEW f
    PROVE  f \in Maps(D, R) <=>
             /\ f = [p \in DOMAIN f |-> f[p]]
             /\ DOMAIN f \subseteq D
             /\ \A p \in DOMAIN f : f[p] \in R
BY DEF Maps

\* h is f over g.
Over(f, g, h, D, R) ==
    /\ h \in Maps(D, R)
    /\ DOMAIN h = DOMAIN f \cup DOMAIN g
    /\ \A p \in DOMAIN f : h[p] = f[p]
    /\ \A p \in DOMAIN g : p \notin DOMAIN f => h[p] = g[p]

LEMMA OverIs ==
    ASSUME NEW D, NEW R, NEW f \in Maps(D, R), NEW g \in Maps(D, R)
    PROVE  Over(f, g, over(f, g), D, R)
<1>1. DOMAIN over(f, g) = DOMAIN f \cup DOMAIN g
  BY DEF over
<1>2. over(f, g) = [p \in DOMAIN over(f, g) |-> over(f, g)[p]]
  BY DEF over
<1>3. \A p \in DOMAIN over(f, g) : over(f, g)[p] \in R
  BY MapsAre DEF over
<1>. QED
  BY <1>1, <1>2, <1>3, MapsAre DEF over, Over

(***************************************************************************)
(* Placeholders.                                                           *)
(***************************************************************************)
\* Placeholders yet to be made are free.
Fresh(b) ==
    /\ \A k \in Nat : <<"#n", k>> \in DOMAIN b.names => k <= b.nameCounter
    /\ \A n \in STRING : <<"#", n>> \in DOMAIN b.names => b.names[<<"#", n>>] = n
    /\ \A k \in Nat : <<":v", k>> \in DOMAIN b.values => k <= b.valueCounter

\* Placeholders keep their meaning.
Kept(b, b2) ==
    /\ \A p \in DOMAIN b.names : p \in DOMAIN b2.names /\ b2.names[p] = b.names[p]
    /\ \A p \in DOMAIN b.values : p \in DOMAIN b2.values /\ b2.values[p] = b.values[p]

\* Nothing but the placeholders is changed.
SameLists(b, b2) ==
    /\ b2.keyConditions = b.keyConditions
    /\ b2.filterConditions = b.filterConditions /\ b2.filterOperators = b.filterOperators
    /\ b2.conditions = b.conditions /\ b2.conditionOperators = b.conditionOperators
    /\ b2.updates = b.updates
    /\ b2.err = b.err

\* The names are those of b, and perhaps another.
NamesGrow(b, b2, name) ==
    /\ DOMAIN b.names \subseteq DOMAIN b2.names /\ DOMAIN b.values \subseteq DOMAIN b2.values
    /\ \A p \in DOMAIN b2.names :
          (p \in DOMAIN b.names /\ b2.names[p] = b.names[p]) \/ b2.names[p] = name

\* What is added for a name.
LEMMA NameAdded ==
    ASSUME NEW b \in Builders, NEW n \in STRING, NEW b2, b2 = addNameSecure(b, n)
    PROVE  /\ b2 \in Builders
           /\ SameLists(b, b2) /\ b2.values = b.values /\ b2.valueCounter = b.valueCounter
           /\ NamesGrow(b, b2, n)
           /\ nameRef(b, n) \in DOMAIN b2.names /\ b2.names[nameRef(b, n)] = n
           /\ nameRef(b, n) \in NameRefs
           /\ Fresh(b) => Fresh(b2) /\ Kept(b, b2)
<1>0. b.names \in Maps(NameRefs, STRING) /\ b.nameCounter \in Nat
  BY DEF Builders
<1>1. CASE holders(b, n) # {}
  <2>1. b2 = b
    BY <1>1 DEF addNameSecure
  <2>2. nameRef(b, n) \in holders(b, n)
    BY <1>1 DEF nameRef
  <2>3. nameRef(b, n) \in DOMAIN b.names /\ b.names[nameRef(b, n)] = n
    BY <2>2 DEF holders
  <2>4. nameRef(b, n) \in NameRefs
    BY <1>0, <2>3, MapsAre
  <2>. QED
    BY <2>1, <2>3, <2>4 DEF SameLists, NamesGrow, Kept
<1>2. CASE holders(b, n) = {}
  <2>1. PICK r : r = namePlaceholder(b, n)
    OBVIOUS
  <2>2. nameRef(b, n) = r /\ r \in NameRefs
    BY <1>0, <1>2, <2>1 DEF nameRef, namePlaceholder, NameRefs
  <2>3. PICK new : new = [p \in {r} |-> n]
    OBVIOUS
  <2>4. new \in Maps(NameRefs, STRING) /\ DOMAIN new = {r} /\ new[r] = n
    BY <2>2, <2>3, MapsAre
  <2>5. PICK names, c : names = over(new, b.names) /\ c \in Nat /\ c = b.nameCounter + 1
    BY <1>0
  <2>6. /\ names \in Maps(NameRefs, STRING)
        /\ DOMAIN names = DOMAIN b.names \cup {r} /\ names[r] = n
        /\ \A p \in DOMAIN b.names : p # r => names[p] = b.names[p]
    <3>1. Over(new, b.names, names, NameRefs, STRING)
      BY <1>0, <2>4, <2>5, OverIs
    <3>. QED
      BY <2>4, <3>1 DEF Over
  <2>7. b2 = [b EXCEPT !.names = names, !.nameCounter = c]
    BY <1>2, <2>1, <2>3, <2>5 DEF addNameSecure, Builders
  <2>8. b2 \in Builders
    BY <2>5, <2>6, <2>7 DEF Builders
  <2>9. b2.names = names /\ b2.nameCounter = c
    BY <2>7 DEF Builders
  <2>10. b2.values = b.values /\ b2.valueCounter = b.valueCounter
    BY <2>7 DEF Builders
  <2>11. SameLists(b, b2)
    <3>1. b2.err = b.err
      BY <2>7 DEF Builders
    <3>. QED
      BY <2>7, <3>1 DEF Builders, SameLists
  <2>12. NamesGrow(b, b2, n)
    BY <2>6, <2>9, <2>10 DEF NamesGrow
  <2>13. ASSUME Fresh(b) PROVE r \notin DOMAIN b.names
    <3>1. CASE isReservedWord(n)
      <4>1. r = <<"#", n>>
        BY <2>1, <3>1 DEF namePlaceholder
      <4>. QED
        BY <1>2, <2>13, <4>1 DEF Fresh, holders
    <3>2. CASE ~isReservedWord(n)
      <4>1. r = <<"#n", c>> /\ ~(c <= b.nameCounter)
        BY <1>0, <2>1, <2>5, <3>2 DEF namePlaceholder
      <4>. QED
        BY <2>5, <2>13, <4>1 DEF Fresh
    <3>. QED
      BY <3>1, <3>2
  <2>14. ASSUME Fresh(b) PROVE Kept(b, b2)
    BY <2>6, <2>9, <2>10, <2>13, <2>14 DEF Kept
  <2>15. ASSUME Fresh(b) PROVE Fresh(b2)
    <3>1. ASSUME NEW k \in Nat, <<"#n", k>> \in DOMAIN b2.names PROVE k <= b2.nameCounter
      <4>1. CASE <<"#n", k>> \in DOMAIN b.names
        BY <1>0, <2>5, <2>9, <2>15, <4>1 DEF Fresh
      <4>2. CASE <<"#n", k>> = r
        <5>1. k = c
          BY <1>0, <2>1, <2>5, <4>2 DEF namePlaceholder
        <5>. QED
          BY <2>5, <2>9, <5>1
      <4>. QED
        BY <2>6, <2>9, <3>1, <4>1, <4>2
    <3>2. ASSUME NEW m \in STRING, <<"#", m>> \in DOMAIN b2.names PROVE b2.names[<<"#", m>>] = m
      <4>1. CASE <<"#", m>> = r
        <5>1. m = n
          BY <2>1, <4>1 DEF namePlaceholder
        <5>. QED
          BY <2>6, <2>9, <4>1, <5>1
      <4>2. CASE <<"#", m>> # r
        <5>1. <<"#", m>> \in DOMAIN b.names
          BY <2>6, <2>9, <3>2, <4>2
        <5>. QED
          BY <2>6, <2>9, <2>15, <4>2, <5>1 DEF Fresh
      <4>. QED
        BY <4>1, <4>2
    <3>. QED
      BY <2>10, <2>15, <3>1, <3>2 DEF Fresh
  <2>. QED
    BY <2>2, <2>6, <2>8, <2>9, <2>10, <2>11, <2>12, <2>14, <2>15
<1>. QED
  BY <1>1, <1>2

\* What is added for a list of values.
LEMMA ValuesAdded ==
    ASSUME NEW b \in Builders, NEW vals \in Seq(Nat), NEW b2, b2 = addValueSecure(b, vals)
    PROVE  /\ b2 \in Builders
           /\ SameLists(b, b2) /\ b2.names = b.names /\ b2.nameCounter = b.nameCounter
           /\ valueRefs(b, vals) \in Seq(ValueRefs) /\ Len(valueRefs(b, vals)) = Len(vals)
           /\ \A j \in 1..Len(vals) : /\ valueRefs(b, vals)[j] \in DOMAIN b2.values
                                      /\ b2.values[valueRefs(b, vals)[j]] = vals[j]
           /\ DOMAIN b.values \subseteq DOMAIN b2.values
           /\ Fresh(b) => Fresh(b2) /\ Kept(b, b2)
<1>0. b.values \in Maps(ValueRefs, Nat) /\ b.valueCounter \in Nat
  BY DEF Builders
<1>1. PICK N, C, refs : N \in Nat /\ C \in Nat /\ N = Len(vals) /\ C = b.valueCounter /\ refs = valueRefs(b, vals)
  BY <1>0, LenProperties
<1>2. refs = [j \in 1..N |-> <<":v", C + j>>]
  BY <1>1 DEF valueRefs
<1>3. \A j \in 1..N : refs[j] \in ValueRefs
  <2>. SUFFICES ASSUME NEW j \in 1..N PROVE refs[j] \in ValueRefs
    OBVIOUS
  <2>1. PICK k \in Nat : k = C + j
    BY <1>1
  <2>. QED
    BY <1>2, <2>1 DEF ValueRefs
<1>4. refs \in Seq(ValueRefs) /\ Len(refs) = N
  BY <1>1, <1>2, <1>3
<1>5. PICK new : new = [p \in Range(refs) |-> vals[p[2] - C]]
  OBVIOUS
<1>6. DOMAIN new = Range(refs) /\ Range(refs) = {refs[j] : j \in 1..N}
  BY <1>2, <1>5 DEF Range
<1>7. \A j \in 1..N : refs[j] \in DOMAIN new /\ new[refs[j]] = vals[j]
  <2>. SUFFICES ASSUME NEW j \in 1..N PROVE refs[j] \in DOMAIN new /\ new[refs[j]] = vals[j]
    OBVIOUS
  <2>1. refs[j] = <<":v", C + j>> /\ refs[j] \in Range(refs)
    BY <1>2, <1>6
  <2>2. refs[j][2] = C + j
    BY <2>1
  <2>3. refs[j][2] - C = j
    BY <1>1, <2>2
  <2>. QED
    BY <1>5, <2>1, <2>3
<1>8. new \in Maps(ValueRefs, Nat)
  <2>1. DOMAIN new \subseteq ValueRefs
    BY <1>3, <1>6
  <2>2. ASSUME NEW p \in DOMAIN new PROVE new[p] \in Nat
    <3>1. PICK j \in 1..N : p = refs[j]
      BY <1>6
    <3>2. vals[j] \in Nat
      BY <1>1, ElementOfSeq
    <3>. QED
      BY <1>7, <3>1, <3>2
  <2>3. new = [p \in DOMAIN new |-> new[p]]
    BY <1>5
  <2>. QED
    BY <2>1, <2>2, <2>3, MapsAre
<1>9. PICK values : values = over(new, b.values)
  OBVIOUS
<1>10. Over(new, b.values, values, ValueRefs, Nat)
  BY <1>0, <1>8, <1>9, OverIs
<1>11. b2 = [b EXCEPT !.values = values, !.valueCounter = C + N]
  BY <1>1, <1>5, <1>9 DEF addValueSecure, Builders
<1>12. b2 \in Builders
  <2>1. values \in Maps(ValueRefs, Nat)
    BY <1>10 DEF Over
  <2>2. PICK M \in Nat : M = C + N
    BY <1>1
  <2>. QED
    BY <1>11, <2>1, <2>2 DEF Builders
<1>13. b2.names = b.names /\ b2.nameCounter = b.nameCounter /\ b2.values = values /\ b2.valueCounter = C + N
  BY <1>11 DEF Builders
<1>14. SameLists(b, b2)
  <2>1. b2.err = b.err
    BY <1>11 DEF Builders
  <2>. QED
    BY <1>11, <2>1 DEF Builders, SameLists
<1>15. \A j \in 1..N : refs[j] \in DOMAIN b2.values /\ b2.values[refs[j]] = vals[j]
  BY <1>7, <1>10, <1>13 DEF Over
<1>18. DOMAIN b.values \subseteq DOMAIN b2.values
  BY <1>10, <1>13 DEF Over
<1>16. ASSUME Fresh(b) PROVE Kept(b, b2)
  <2>1. ASSUME NEW j \in 1..N, refs[j] \in DOMAIN b.values PROVE FALSE
    <3>1. PICK k \in Nat : k = C + j /\ ~(k <= C)
      BY <1>1
    <3>2. refs[j] = <<":v", k>>
      BY <1>2, <3>1
    <3>. QED
      BY <1>1, <1>16, <2>1, <3>1, <3>2 DEF Fresh
  <2>2. \A p \in DOMAIN b.values : p \notin DOMAIN new
    BY <1>6, <2>1
  <2>. QED
    BY <1>10, <1>13, <2>2 DEF Over, Kept
<1>17. ASSUME Fresh(b) PROVE Fresh(b2)
  <2>1. ASSUME NEW k \in Nat, <<":v", k>> \in DOMAIN b2.values PROVE k <= b2.valueCounter
    <3>1. CASE <<":v", k>> \in DOMAIN b.values
      BY <1>1, <1>13, <1>17, <3>1 DEF Fresh
    <3>2. CASE <<":v", k>> \in DOMAIN new
      <4>1. PICK j \in 1..N : <<":v", k>> = refs[j]
        BY <1>6, <3>2
      <4>2. <<":v", k>> = <<":v", C + j>>
        BY <1>2, <4>1
      <4>3. k = C + j
        BY <4>2
      <4>. QED
        BY <1>1, <1>13, <4>3
    <3>. QED
      BY <1>10, <1>13, <2>1, <3>1, <3>2 DEF Over
  <2>. QED
    BY <1>13, <1>17, <2>1 DEF Fresh
<1>. QED
  BY <1>1, <1>4, <1>12, <1>13, <1>14, <1>15, <1>16, <1>17, <1>18

\* A term's placeholders stand for a name and values.
Refers(b, ref, refs, name, vals) ==
    /\ ref \in DOMAIN b.names /\ b.names[ref] = name
    /\ Len(refs) = Len(vals)
    /\ \A j \in 1..Len(vals) : refs[j] \in DOMAIN b.values /\ b.values[refs[j]] = vals[j]

LEMMA StillRefers ==
    ASSUME NEW b, NEW b2, NEW ref, NEW refs, NEW name, NEW vals,
           Refers(b, ref, refs, name, vals), Kept(b, b2)
    PROVE  Refers(b2, ref, refs, name, vals)
BY DEF Refers, Kept

\* The placeholders of a term are added.
HasTerm(b, b2, n, vals) ==
    /\ b2 \in Builders /\ SameLists(b, b2)
    /\ NamesGrow(b, b2, n)
    /\ nameRef(b, n) \in NameRefs /\ valueRefs(b, vals) \in Seq(ValueRefs)
    /\ Refers(b2, nameRef(b, n), valueRefs(b, vals), n, vals)
    /\ Fresh(b) => Fresh(b2) /\ Kept(b, b2)

LEMMA TermAdded ==
    ASSUME NEW b \in Builders, NEW n \in STRING, NEW vals \in Seq(Nat)
    PROVE  HasTerm(b, withTerm(b, n, vals), n, vals)
<1>0. PICK b2 : b2 = withTerm(b, n, vals)
  OBVIOUS
<1>1. PICK b1 : b1 = addNameSecure(b, n)
  OBVIOUS
<1>2. b2 = addValueSecure(b1, vals)
  BY <1>0, <1>1 DEF withTerm
<1>3. /\ b1 \in Builders
      /\ SameLists(b, b1) /\ b1.values = b.values /\ b1.valueCounter = b.valueCounter
      /\ NamesGrow(b, b1, n)
      /\ nameRef(b, n) \in DOMAIN b1.names /\ b1.names[nameRef(b, n)] = n
      /\ nameRef(b, n) \in NameRefs
      /\ Fresh(b) => Fresh(b1) /\ Kept(b, b1)
  BY <1>1, NameAdded
<1>4. valueRefs(b1, vals) = valueRefs(b, vals)
  BY <1>3 DEF valueRefs
<1>5. /\ b2 \in Builders
      /\ SameLists(b1, b2) /\ b2.names = b1.names
      /\ valueRefs(b1, vals) \in Seq(ValueRefs) /\ Len(valueRefs(b1, vals)) = Len(vals)
      /\ \A j \in 1..Len(vals) : /\ valueRefs(b1, vals)[j] \in DOMAIN b2.values
                                 /\ b2.values[valueRefs(b1, vals)[j]] = vals[j]
      /\ DOMAIN b1.values \subseteq DOMAIN b2.values
      /\ Fresh(b1) => Fresh(b2) /\ Kept(b1, b2)
  BY <1>2, <1>3, ValuesAdded
<1>6. SameLists(b, b2)
  BY <1>3, <1>5 DEF SameLists
<1>7. NamesGrow(b, b2, n)
  BY <1>3, <1>5 DEF NamesGrow
<1>8. Refers(b2, nameRef(b, n), valueRefs(b, vals), n, vals)
  BY <1>3, <1>4, <1>5 DEF Refers
<1>9. ASSUME Fresh(b) PROVE Fresh(b2) /\ Kept(b, b2)
  BY <1>3, <1>5, <1>9 DEF Kept
<1>. QED
  BY <1>0, <1>3, <1>4, <1>5, <1>6, <1>7, <1>8, <1>9 DEF HasTerm

(***************************************************************************)
(* Clauses.                                                                *)
(***************************************************************************)
Lists == {"keyConditions", "filterConditions", "conditions", "updates"}

Clauses ==
    [to : Lists \cup {"none"}, link : Links, name : STRING, op : Words, vals : Seq(Nat)]

\* A term is what a clause says.
Stands(b, t, c) ==
    /\ Refers(b, t.name, t.vals, c.name, c.vals)
    /\ IF c.to = "updates" THEN t.action = c.op ELSE t.op = canonical(c.op)

\* A term is put at the end of the list the clause is for.
Put(b, b2, c, t) ==
    /\ b2.keyConditions = IF c.to = "keyConditions" THEN Append(b.keyConditions, t) ELSE b.keyConditions
    /\ b2.filterConditions =
          IF c.to = "filterConditions" THEN Append(b.filterConditions, t) ELSE b.filterConditions
    /\ b2.conditions = IF c.to = "conditions" THEN Append(b.conditions, t) ELSE b.conditions
    /\ b2.updates = IF c.to = "updates" THEN Append(b.updates, t) ELSE b.updates
    /\ b2.filterOperators = IF c.to = "filterConditions"
                             THEN linked(b.filterOperators, b.filterConditions, c.link)
                             ELSE b.filterOperators
    /\ b2.conditionOperators = IF c.to = "conditions"
                                THEN linked(b.conditionOperators, b.conditions, c.link)
                                ELSE b.conditionOperators

\* All is as it was, but for an error.
Refused(b, b2) == b2.err /\ SameLists([b EXCEPT !.err = TRUE], b2)

\* What adding a clause does.
OneClause(b, b2, c) ==
    /\ b2 \in Builders
    /\ NamesGrow(b, b2, c.name)
    /\ Fresh(b) => Fresh(b2) /\ Kept(b, b2)
    /\ c.to = "none" => b2 = b
    /\ c.to # "none" => \/ Refused(b, b2)
                        \/ b2.err = b.err /\ \E t \in AnyTerms : Stands(b2, t, c) /\ Put(b, b2, c, t)

LEMMA FailedIs ==
    ASSUME NEW b \in Builders, NEW c, c.to # "none"
    PROVE  OneClause(b, failed(b), c)
<1>1. PICK b2 : b2 = [b EXCEPT !.err = TRUE]
  OBVIOUS
<1>2. b2 \in Builders /\ b2.names = b.names /\ b2.values = b.values
  BY <1>1 DEF Builders
<1>3. b2.nameCounter = b.nameCounter /\ b2.valueCounter = b.valueCounter /\ b2.err
  BY <1>1 DEF Builders
<1>4. Refused(b, b2)
  BY <1>1, <1>3 DEF Refused, SameLists
<1>5. NamesGrow(b, b2, c.name) /\ Kept(b, b2) /\ (Fresh(b) => Fresh(b2))
  BY <1>2, <1>3 DEF NamesGrow, Kept, Fresh
<1>. QED
  BY <1>1, <1>2, <1>4, <1>5 DEF OneClause, failed

\* The term that is made of a clause.
TermOf(b, t, c) ==
    /\ t.name = nameRef(b, c.name) /\ t.vals = valueRefs(b, c.vals)
    /\ IF c.to = "updates" THEN t.action = c.op ELSE t.op = canonical(c.op)

\* The placeholders are as they were.
SameMaps(b, b2) ==
    /\ b2.names = b.names /\ b2.nameCounter = b.nameCounter
    /\ b2.values = b.values /\ b2.valueCounter = b.valueCounter
    /\ b2.err = b.err

\* The list a clause is for has one more term.
LEMMA TermPut ==
    ASSUME NEW b \in Builders, NEW c \in Clauses, c.to # "none", NEW b1, b1 = withTerm(b, c.name, c.vals),
           NEW t \in AnyTerms, TermOf(b, t, c),
           NEW b2 \in Builders, Put(b1, b2, c, t), SameMaps(b1, b2)
    PROVE  OneClause(b, b2, c)
<1>. USE DEF SameMaps
<1>0. c.name \in STRING /\ c.vals \in Seq(Nat)
  BY DEF Clauses
<1>1. /\ b1 \in Builders /\ SameLists(b, b1) /\ NamesGrow(b, b1, c.name)
      /\ Refers(b1, nameRef(b, c.name), valueRefs(b, c.vals), c.name, c.vals)
      /\ Fresh(b) => Fresh(b1) /\ Kept(b, b1)
  BY <1>0, TermAdded DEF HasTerm
<1>2. NamesGrow(b, b2, c.name) /\ Refers(b2, t.name, t.vals, c.name, c.vals)
  BY <1>1 DEF NamesGrow, Refers, TermOf
<1>3. Fresh(b) => Fresh(b2) /\ Kept(b, b2)
  BY <1>1 DEF Fresh, Kept
<1>4. b2.err = b.err
  BY <1>1 DEF SameLists
<1>5. Put(b, b2, c, t)
  BY <1>1 DEF SameLists, Put
<1>6. Stands(b2, t, c)
  BY <1>2 DEF Stands, TermOf
<1>. QED
  BY <1>2, <1>3, <1>4, <1>5, <1>6 DEF OneClause

LEMMA CanonicalIs ==
    ASSUME NEW op
    PROVE  canonical(op) \in Operators
BY Zenon DEF canonical, Operators

LEMMA LinkedIs ==
    ASSUME NEW ops \in Seq(Links), NEW terms, NEW link \in Links
    PROVE  linked(ops, terms, link) \in Seq(Links)
<1>1. Append(ops, link) \in Seq(Links)
  BY AppendProperties
<1>. QED
  BY <1>1 DEF linked

\* Adding a clause does what it should.
LEMMA ClauseAdded ==
    ASSUME NEW b \in Builders, NEW c \in Clauses
    PROVE  OneClause(b, addClause(b, c), c)
<1>0. c.name \in STRING /\ c.vals \in Seq(Nat) /\ c.op \in Words /\ c.link \in Links /\ c.to \in Lists \cup {"none"}
  BY DEF Clauses
<1>1. PICK b1, t, u, b2 : /\ b1 = withTerm(b, c.name, c.vals) /\ t = term(b, c.name, c.op, c.vals)
                          /\ u = [action |-> c.op, name |-> nameRef(b, c.name), vals |-> valueRefs(b, c.vals)]
                          /\ b2 = addClause(b, c)
  OBVIOUS
<1>2. b1 \in Builders /\ nameRef(b, c.name) \in NameRefs /\ valueRefs(b, c.vals) \in Seq(ValueRefs)
  BY <1>0, <1>1, TermAdded DEF HasTerm
<1>3. t \in Terms /\ t.name = nameRef(b, c.name) /\ t.vals = valueRefs(b, c.vals) /\ t.op = canonical(c.op)
  BY <1>0, <1>1, <1>2, CanonicalIs DEF term, Terms
<1>4. u \in UpdateTerms /\ u.name = nameRef(b, c.name) /\ u.vals = valueRefs(b, c.vals) /\ u.action = c.op
  BY <1>0, <1>1, <1>2 DEF UpdateTerms
<1>5. SameLists(b, b1)
  BY <1>0, <1>1, TermAdded DEF HasTerm
<1>11. /\ c.to # "updates" => TermOf(b, t, c)
       /\ c.to = "updates" => TermOf(b, u, c)
       /\ t \in AnyTerms /\ u \in AnyTerms
  BY <1>3, <1>4 DEF TermOf, AnyTerms
<1>6. CASE c.to = "none"
  <2>1. b2 = b
    BY <1>1, <1>6 DEF addClause
  <2>. QED
    BY <1>1, <1>6, <2>1 DEF OneClause, NamesGrow, Kept
<1>7. CASE c.to = "keyConditions"
  <2>1. b2 = AddKeyCondition(b, c.name, c.op, c.vals)
    BY <1>1, <1>7 DEF addClause
  <2>2. CASE badCondition(c.name, c.op, c.vals)
    BY <1>1, <1>7, <2>1, <2>2, FailedIs DEF AddKeyCondition
  <2>3. CASE ~badCondition(c.name, c.op, c.vals)
    <3>1. PICK list \in Seq(Terms) : list = Append(b1.keyConditions, t)
      BY <1>2, <1>3, AppendProperties DEF Builders
    <3>2. b2 = [b1 EXCEPT !.keyConditions = list]
      BY <1>1, <1>2, <2>1, <2>3, <3>1 DEF AddKeyCondition, Builders
    <3>3. b2 \in Builders
      BY <1>2, <3>2 DEF Builders
    <3>4. SameMaps(b1, b2)
      <4>1. b2.err = b1.err
        BY <1>2, <3>2 DEF Builders
      <4>. QED
        BY <1>2, <3>2, <4>1 DEF Builders, SameMaps
    <3>6. Put(b1, b2, c, t)
      BY <1>2, <1>7, <3>1, <3>2 DEF Builders, Put
    <3>. QED
      BY <1>1, <1>7, <1>11, <3>3, <3>4, <3>6, TermPut
  <2>. QED
    BY <2>2, <2>3
<1>8. CASE c.to = "filterConditions"
  <2>1. b2 = AddFilterCondition(b, c.link, c.name, c.op, c.vals)
    BY <1>1, <1>8 DEF addClause
  <2>2. CASE badCondition(c.name, c.op, c.vals)
    BY <1>1, <1>8, <2>1, <2>2, FailedIs DEF AddFilterCondition
  <2>3. CASE ~badCondition(c.name, c.op, c.vals)
    <3>0. t \in Terms \cup GroupTerms /\ b1.filterConditions = b.filterConditions
      BY <1>3, <1>5 DEF SameLists
    <3>1. PICK list \in Seq(Terms \cup GroupTerms) : list = Append(b1.filterConditions, t)
      BY <1>2, <3>0, AppendProperties DEF Builders
    <3>2. PICK ops \in Seq(Links) : ops = linked(b1.filterOperators, b1.filterConditions, c.link)
      BY <1>0, <1>2, LinkedIs DEF Builders
    <3>3. b2 = [b1 EXCEPT !.filterConditions = list, !.filterOperators = ops]
      BY <1>1, <1>2, <2>1, <2>3, <3>0, <3>1, <3>2 DEF AddFilterCondition, Builders
    <3>4. b2 \in Builders
      BY <1>2, <3>3 DEF Builders
    <3>5. SameMaps(b1, b2)
      <4>1. b2.err = b1.err
        BY <1>2, <3>3 DEF Builders
      <4>. QED
        BY <1>2, <3>3, <4>1 DEF Builders, SameMaps
    <3>7. Put(b1, b2, c, t)
      BY <1>2, <1>8, <3>1, <3>2, <3>3 DEF Builders, Put
    <3>. QED
      BY <1>1, <1>8, <1>11, <3>4, <3>5, <3>7, TermPut
  <2>. QED
    BY <2>2, <2>3
<1>9. CASE c.to = "conditions"
  <2>1. b2 = AddConditionExpressionWithOp(b, c.link, c.name, c.op, c.vals)
    BY <1>1, <1>9 DEF addClause
  <2>2. CASE badCondition(c.name, c.op, c.vals)
    BY <1>1, <1>9, <2>1, <2>2, FailedIs DEF AddConditionExpressionWithOp
  <2>3. CASE ~badCondition(c.name, c.op, c.vals)
    <3>0. b1.conditions = b.conditions
      BY <1>5 DEF SameLists
    <3>1. PICK list \in Seq(Terms) : list = Append(b1.conditions, t)
      BY <1>2, <1>3, AppendProperties DEF Builders
    <3>2. PICK ops \in Seq(Links) : ops = linked(b1.conditionOperators, b1.conditions, c.link)
      BY <1>0, <1>2, LinkedIs DEF Builders
    <3>3. b2 = [b1 EXCEPT !.conditions = list, !.conditionOperators = ops]
      BY <1>1, <1>2, <2>1, <2>3, <3>0, <3>1, <3>2 DEF AddConditionExpressionWithOp, Builders
    <3>4. b2 \in Builders
      BY <1>2, <3>3 DEF Builders
    <3>5. SameMaps(b1, b2)
      <4>1. b2.err = b1.err
        BY <1>2, <3>3 DEF Builders
      <4>. QED
        BY <1>2, <3>3, <4>1 DEF Builders, SameMaps
    <3>7. Put(b1, b2, c, t)
      BY <1>2, <1>9, <3>1, <3>2, <3>3 DEF Builders, Put
    <3>. QED
      BY <1>1, <1>9, <1>11, <3>4, <3>5, <3>7, TermPut
  <2>. QED
    BY <2>2, <2>3
<1>10. CASE c.to = "updates"
  <2>1. b2 = addUpdate(b, c.op, c.name, c.vals)
    BY <1>1, <1>10 DEF addClause
  <2>2. CASE ~ValidateFieldName(c.name)
    BY <1>1, <1>10, <2>1, <2>2, FailedIs DEF addUpdate
  <2>3. CASE ValidateFieldName(c.name)
    <3>1. PICK list \in Seq(UpdateTerms) : list = Append(b1.updates, u)
      BY <1>2, <1>4, AppendProperties DEF Builders
    <3>2. b2 = [b1 EXCEPT !.updates = list]
      BY <1>1, <1>2, <2>1, <2>3, <3>1 DEF addUpdate, Builders
    <3>3. b2 \in Builders
      BY <1>2, <3>2 DEF Builders
    <3>4. SameMaps(b1, b2)
      <4>1. b2.err = b1.err
        BY <1>2, <3>2 DEF Builders
      <4>. QED
        BY <1>2, <3>2, <4>1 DEF Builders, SameMaps
    <3>6. Put(b1, b2, c, u)
      BY <1>2, <1>10, <3>1, <3>2 DEF Builders, Put
    <3>. QED
      BY <1>1, <1>10, <1>11, <3>3, <3>4, <3>6, TermPut
  <2>. QED
    BY <2>2, <2>3
<1>. QED
  BY <1>0, <1>1, <1>6, <1>7, <1>8, <1>9, <1>10 DEF Lists

(***************************************************************************)
(* Clauses added one after the other.  The recursive function exists, and  *)
(* what holds of one clause holds of all.                                  *)
(***************************************************************************)
\* f is the builder after each of the first n clauses.
Adds(f, b, cs, n) == f = [i \in 0..n |-> IF i = 0 THEN b ELSE addClause(f[i - 1], cs[i])]

LEMMA AddsIs ==
    ASSUME NEW b, NEW cs
    PROVE  addClauses(b, cs) = (CHOOSE f : Adds(f, b, cs, Len(cs)))[Len(cs)]
BY Zenon DEF addClauses, Adds

LEMMA AddsExtends ==
    ASSUME NEW b, NEW cs, NEW n \in Nat, NEW g, Adds(g, b, cs, n)
    PROVE  \E f : Adds(f, b, cs, n + 1)
<1>. DEFINE f == [i \in 0..n + 1 |-> IF i <= n THEN g[i] ELSE addClause(g[n], cs[n + 1])]
<1>1. \A i \in 0..n : f[i] = g[i]
  OBVIOUS
<1>2. \A i \in 0..n : g[i] = IF i = 0 THEN b ELSE addClause(g[i - 1], cs[i])
  BY DEF Adds
<1>3. ASSUME NEW i \in 0..n + 1
      PROVE  f[i] = IF i = 0 THEN b ELSE addClause(f[i - 1], cs[i])
  <2>1. CASE i = n + 1
    <3>1. f[i] = addClause(g[n], cs[n + 1]) /\ i # 0
      BY <2>1
    <3>2. f[i - 1] = g[n]
      BY <1>1, <2>1
    <3>. QED
      BY <2>1, <3>1, <3>2
  <2>2. CASE i = 0
    BY <1>1, <1>2, <2>2
  <2>3. CASE i # n + 1 /\ i # 0
    <3>1. i \in 0..n /\ i - 1 \in 0..n
      BY <2>3
    <3>. QED
      BY <1>1, <1>2, <2>3, <3>1
  <2>. QED
    BY <2>1, <2>2, <2>3
<1>4. f = [i \in 0..n + 1 |-> IF i = 0 THEN b ELSE addClause(f[i - 1], cs[i])]
  BY <1>3
<1>. QED
  BY <1>4 DEF Adds

LEMMA AddsExists ==
    ASSUME NEW b, NEW cs, NEW n \in Nat
    PROVE  \E f : Adds(f, b, cs, n)
<1>. DEFINE N == {m \in Nat : ~\E f : Adds(f, b, cs, m)}
<1>1. SUFFICES ASSUME N # {} PROVE FALSE
  OBVIOUS
<1>2. PICK m \in N : \A k \in N : m <= k
  <2>1. N \subseteq Nat
    OBVIOUS
  <2>. QED
    BY <1>1, <2>1, Smallest
<1>3. CASE m = 0
  <2>1. Adds([i \in 0..0 |-> b], b, cs, 0)
    BY DEF Adds
  <2>. QED
    BY <1>2, <1>3, <2>1
<1>4. CASE m # 0
  <2>1. PICK k \in Nat : m = k + 1
    <3>1. m - 1 \in Nat /\ m = (m - 1) + 1
      BY <1>2, <1>4
    <3>. QED
      BY <3>1
  <2>2. k \notin N
    BY <1>2, <2>1
  <2>3. PICK g : Adds(g, b, cs, k)
    BY <2>2
  <2>. QED
    BY <1>2, <2>1, <2>3, AddsExtends
<1>. QED
  BY <1>3, <1>4

------------------------------------------------------------------------------
(***************************************************************************)
(* What all clauses do to one of the lists.                                *)
(***************************************************************************)
ListOf(b, L) ==
    IF L = "keyConditions" THEN b.keyConditions
    ELSE IF L = "filterConditions" THEN b.filterConditions
    ELSE IF L = "conditions" THEN b.conditions ELSE b.updates

LinksOf(b, L) ==
    IF L = "filterConditions" THEN b.filterOperators
    ELSE IF L = "conditions" THEN b.conditionOperators ELSE <<>>

Chained == {"filterConditions", "conditions"}

\* A clause leaves a list as it is, or puts its term at the end.
ListStep(b, b2, c, L) ==
    \/ /\ ListOf(b2, L) = ListOf(b, L) /\ LinksOf(b2, L) = LinksOf(b, L)
       /\ c.to # L \/ b2.err
    \/ /\ c.to = L
       /\ \E t \in AnyTerms : Stands(b2, t, c) /\ ListOf(b2, L) = Append(ListOf(b, L), t)
       /\ L \in Chained => LinksOf(b2, L) = linked(LinksOf(b, L), ListOf(b, L), c.link)
       /\ L \notin Chained => LinksOf(b2, L) = LinksOf(b, L)

LEMMA ListsAre ==
    ASSUME NEW b \in Builders, NEW L \in Lists
    PROVE  ListOf(b, L) \in Seq(AnyTerms) /\ LinksOf(b, L) \in Seq(Links)
<1>1. Terms \subseteq AnyTerms /\ UpdateTerms \subseteq AnyTerms /\ Terms \cup GroupTerms \subseteq AnyTerms
  BY DEF AnyTerms
<1>2. \A S : S \subseteq AnyTerms => Seq(S) \subseteq Seq(AnyTerms)
  OBVIOUS
<1>3. /\ b.keyConditions \in Seq(Terms) /\ b.filterConditions \in Seq(Terms \cup GroupTerms)
      /\ b.conditions \in Seq(Terms) /\ b.updates \in Seq(UpdateTerms)
      /\ b.filterOperators \in Seq(Links) /\ b.conditionOperators \in Seq(Links)
  BY DEF Builders
<1>4. /\ b.keyConditions \in Seq(AnyTerms) /\ b.filterConditions \in Seq(AnyTerms)
      /\ b.conditions \in Seq(AnyTerms) /\ b.updates \in Seq(AnyTerms)
  BY <1>1, <1>2, <1>3
<1>5. <<>> \in Seq(Links)
  OBVIOUS
<1>. QED
  BY <1>3, <1>4, <1>5 DEF ListOf, LinksOf

LEMMA StepIs ==
    ASSUME NEW b \in Builders, NEW c \in Clauses, NEW b2, OneClause(b, b2, c), NEW L \in Lists
    PROVE  ListStep(b, b2, c, L) /\ (b.err => b2.err)
<1>0. c.to \in Lists \cup {"none"}
  BY DEF Clauses
<1>1. CASE c.to = "none"
  <2>1. b2 = b /\ c.to # L
    BY <1>1 DEF OneClause, Lists
  <2>. QED
    BY <2>1 DEF ListStep
<1>2. CASE c.to # "none" /\ Refused(b, b2)
  <2>1. b2.err
    BY <1>2 DEF Refused
  <2>2. ListOf(b2, L) = ListOf(b, L) /\ LinksOf(b2, L) = LinksOf(b, L)
    BY <1>2 DEF Refused, SameLists, ListOf, LinksOf, Builders
  <2>. QED
    BY <2>1, <2>2 DEF ListStep
<1>3. CASE c.to # "none" /\ ~Refused(b, b2)
  <2>1. PICK t \in AnyTerms : Stands(b2, t, c) /\ Put(b, b2, c, t)
    BY <1>3 DEF OneClause
  <2>2. b2.err = b.err
    BY <1>3 DEF OneClause
  <2>3. CASE c.to = L
    <3>1. ListOf(b2, L) = Append(ListOf(b, L), t)
      BY <2>1, <2>3 DEF Put, ListOf, Lists
    <3>2. L \in Chained => LinksOf(b2, L) = linked(LinksOf(b, L), ListOf(b, L), c.link)
      BY <2>1, <2>3 DEF Put, ListOf, LinksOf, Lists, Chained
    <3>3. L \notin Chained => LinksOf(b2, L) = LinksOf(b, L)
      BY DEF LinksOf, Chained
    <3>. QED
      BY <2>1, <2>2, <2>3, <3>1, <3>2, <3>3 DEF ListStep
  <2>4. CASE c.to # L
    <3>1. ListOf(b2, L) = ListOf(b, L) /\ LinksOf(b2, L) = LinksOf(b, L)
      BY <2>1, <2>4 DEF Put, ListOf, LinksOf, Lists
    <3>. QED
      BY <2>2, <2>4, <3>1 DEF ListStep
  <2>. QED
    BY <2>3, <2>4
<1>. QED
  BY <1>1, <1>2, <1>3

\* The names of b2 are those of b and of the first n clauses.
NamesFrom(b, b2, cs, n) ==
    /\ DOMAIN b.names \subseteq DOMAIN b2.names /\ DOMAIN b.values \subseteq DOMAIN b2.values
    /\ \A p \in DOMAIN b2.names :
          \/ p \in DOMAIN b.names /\ b2.names[p] = b.names[p]
          \/ \E k \in 1..n : cs[k].to # "none" /\ b2.names[p] = cs[k].name

\* s2 is s, continued.
Continues(s, s2) == Len(s) <= Len(s2) /\ \A i \in 1..Len(s) : s2[i] = s[i]

\* A term of b2 is that of the k-th clause.
Is(b, b2, cs, L, i, k) ==
    /\ cs[k].to = L
    /\ ListOf(b2, L)[i].name \in DOMAIN b2.names
    /\ L # "updates" => ListOf(b2, L)[i].op = canonical(cs[k].op)
    /\ Fresh(b) => Stands(b2, ListOf(b2, L)[i], cs[k])

\* Every new term is that of a clause, and different ones of different clauses.
NewTerms(b, b2, cs, n, L) ==
    /\ \A i \in 1..Len(ListOf(b2, L)) :
          i > Len(ListOf(b, L)) => \E k \in 1..n : Is(b, b2, cs, L, i, k)
    /\ \A i, j \in 1..Len(ListOf(b2, L)) :
          i > Len(ListOf(b, L)) /\ i < j =>
              \E k, m \in 1..n : k # m /\ Is(b, b2, cs, L, i, k) /\ Is(b, b2, cs, L, j, m)

\* Without an error every clause has its term.
AllTerms(b, b2, cs, n, L) ==
    ~b2.err => \A k \in 1..n : cs[k].to = L =>
        \E i \in 1..Len(ListOf(b2, L)) : i > Len(ListOf(b, L)) /\ Is(b, b2, cs, L, i, k)

\* The operators stand between the terms.
Separated(terms, links) == Len(links) = IF Len(terms) = 0 THEN 0 ELSE Len(terms) - 1

\* The new operators are AND if all clauses ask for that.
NewLinks(b, b2, cs, n, L) ==
    /\ Continues(LinksOf(b, L), LinksOf(b2, L))
    /\ L \in Chained /\ Separated(ListOf(b, L), LinksOf(b, L)) => Separated(ListOf(b2, L), LinksOf(b2, L))
    /\ (\A k \in 1..n : cs[k].link = "AND") =>
          \A j \in 1..Len(LinksOf(b2, L)) : j > Len(LinksOf(b, L)) => LinksOf(b2, L)[j] = "AND"

\* Clauses that are all for one empty list become its terms one by one.
OneByOne(b, b2, cs, n, L) ==
    (~b2.err /\ L \in Chained /\ ListOf(b, L) = <<>> /\ LinksOf(b, L) = <<>> /\ \A k \in 1..n : cs[k].to = L) =>
        /\ Len(ListOf(b2, L)) = n
        /\ Separated(ListOf(b2, L), LinksOf(b2, L))
        /\ \A k \in 1..n : Is(b, b2, cs, L, k, k)
        /\ \A k \in 1..n : k > 1 => LinksOf(b2, L)[k - 1] = cs[k].link

Folded(b, b2, cs, n, L) ==
    /\ b2 \in Builders
    /\ b.err => b2.err
    /\ (\A k \in 1..n : cs[k].to = "none") => b2 = b
    /\ NamesFrom(b, b2, cs, n)
    /\ Fresh(b) => Fresh(b2) /\ Kept(b, b2)
    /\ Continues(ListOf(b, L), ListOf(b2, L))
    /\ NewTerms(b, b2, cs, n, L)
    /\ AllTerms(b, b2, cs, n, L)
    /\ NewLinks(b, b2, cs, n, L)
    /\ OneByOne(b, b2, cs, n, L)

LEMMA StandsKept ==
    ASSUME NEW b, NEW b2, NEW t, NEW c, Stands(b, t, c), Kept(b, b2)
    PROVE  Stands(b2, t, c)
BY StillRefers DEF Stands

\* The elements of a sequence that was appended to.
Appended(s, t, s2, N) ==
    /\ N \in Nat /\ Len(s) = N /\ Len(s2) = N + 1
    /\ \A i \in 1..N : s2[i] = s[i]
    /\ s2[N + 1] = t
    /\ \A i \in 1..N + 1 : i \in 1..N \/ i = N + 1

LEMMA AppendedIs ==
    ASSUME NEW S, NEW s \in Seq(S), NEW t \in S
    PROVE  Appended(s, t, Append(s, t), Len(s))
<1>1. Len(s) \in Nat /\ Len(Append(s, t)) = Len(s) + 1
  BY LenProperties, AppendProperties
<1>2. \A i \in 1..Len(s) : Append(s, t)[i] = s[i]
  BY AppendProperties
<1>3. Append(s, t)[Len(s) + 1] = t
  BY AppendProperties
<1>. QED
  BY <1>1, <1>2, <1>3 DEF Appended

LEMMA NamesFold ==
    ASSUME NEW b, NEW b1, NEW b2, NEW cs, NEW n \in Nat,
           NamesFrom(b, b1, cs, n), NamesGrow(b1, b2, cs[n + 1].name),
           cs[n + 1].to = "none" => b2 = b1
    PROVE  NamesFrom(b, b2, cs, n + 1)
<1>1. 1..n \subseteq 1..n + 1 /\ n + 1 \in 1..n + 1
  OBVIOUS
<1>2. DOMAIN b.names \subseteq DOMAIN b2.names /\ DOMAIN b.values \subseteq DOMAIN b2.values
  BY DEF NamesFrom, NamesGrow
<1>3. ASSUME NEW p \in DOMAIN b2.names
      PROVE  \/ p \in DOMAIN b.names /\ b2.names[p] = b.names[p]
             \/ \E k \in 1..n + 1 : cs[k].to # "none" /\ b2.names[p] = cs[k].name
  <2>1. CASE p \in DOMAIN b1.names /\ b2.names[p] = b1.names[p]
    BY <1>1, <2>1 DEF NamesFrom
  <2>2. CASE ~(p \in DOMAIN b1.names /\ b2.names[p] = b1.names[p])
    <3>1. b2.names[p] = cs[n + 1].name
      BY <2>2 DEF NamesGrow
    <3>2. cs[n + 1].to # "none"
      BY <2>2
    <3>. QED
      BY <1>1, <3>1, <3>2
  <2>. QED
    BY <2>1, <2>2
<1>. QED
  BY <1>2, <1>3 DEF NamesFrom

\* A term stays that of its clause.
LEMMA IsFold ==
    ASSUME NEW b, NEW b1, NEW b2, NEW cs, NEW L, NEW i, NEW k, Is(b, b1, cs, L, i, k),
           ListOf(b2, L)[i] = ListOf(b1, L)[i],
           DOMAIN b1.names \subseteq DOMAIN b2.names,
           Fresh(b) => Kept(b1, b2)
    PROVE  Is(b, b2, cs, L, i, k)
BY StandsKept DEF Is

\* What one more clause changes: the next builder, its list and its operators.
After(b, b1, b2, cs, n, L) ==
    /\ b1 \in Builders /\ b2 \in Builders /\ b \in Builders
    /\ DOMAIN b1.names \subseteq DOMAIN b2.names
    /\ Fresh(b) => Kept(b1, b2)
    /\ ListStep(b1, b2, cs[n + 1], L)
    /\ b1.err => b2.err
    /\ Continues(ListOf(b, L), ListOf(b1, L))

LEMMA NewTermsFold ==
    ASSUME NEW b, NEW b1, NEW b2, NEW cs, NEW n \in Nat, NEW L \in Lists,
           After(b, b1, b2, cs, n, L), NewTerms(b, b1, cs, n, L)
    PROVE  NewTerms(b, b2, cs, n + 1, L) /\ Continues(ListOf(b, L), ListOf(b2, L))
<1>0. /\ ListOf(b, L) \in Seq(AnyTerms) /\ ListOf(b1, L) \in Seq(AnyTerms)
      /\ Len(ListOf(b, L)) \in Nat /\ Len(ListOf(b1, L)) \in Nat
  BY ListsAre, LenProperties DEF After
<1>1. 1..n \subseteq 1..n + 1 /\ n + 1 \in 1..n + 1 /\ n + 1 \notin 1..n
  OBVIOUS
<1>2. CASE ListOf(b2, L) = ListOf(b1, L)
  <2>1. \A i, k : Is(b, b1, cs, L, i, k) => Is(b, b2, cs, L, i, k)
    BY <1>2, IsFold DEF After
  <2>. QED
    BY <1>1, <1>2, <2>1 DEF NewTerms, After
<1>3. CASE ListOf(b2, L) # ListOf(b1, L)
  <2>1. PICK t \in AnyTerms : Stands(b2, t, cs[n + 1]) /\ ListOf(b2, L) = Append(ListOf(b1, L), t)
    BY <1>3 DEF After, ListStep
  <2>2. cs[n + 1].to = L
    BY <1>3 DEF After, ListStep
  <2>3. PICK s, s1, s2, N : s = ListOf(b, L) /\ s1 = ListOf(b1, L) /\ s2 = ListOf(b2, L) /\ N = Len(s1)
    OBVIOUS
  <2>4. Appended(s1, t, s2, N)
    BY <1>0, <2>1, <2>3, AppendedIs
  <2>5. Is(b, b2, cs, L, N + 1, n + 1)
    BY <2>1, <2>2, <2>3, <2>4 DEF Is, Appended, Stands, Refers
  <2>6. \A i \in 1..N : \A k : Is(b, b1, cs, L, i, k) => Is(b, b2, cs, L, i, k)
    BY <2>3, <2>4, IsFold DEF After, Appended
  <2>7. Continues(s, s2)
    BY <1>0, <2>3, <2>4 DEF After, Continues, Appended
  <2>8. ASSUME NEW i \in 1..N + 1, i > Len(s) PROVE \E k \in 1..n + 1 : Is(b, b2, cs, L, i, k)
    <3>1. CASE i = N + 1
      BY <1>1, <2>5, <3>1
    <3>2. CASE i \in 1..N
      <4>1. PICK k \in 1..n : Is(b, b1, cs, L, i, k)
        BY <2>3, <2>8, <3>2 DEF NewTerms
      <4>. QED
        BY <1>1, <2>6, <3>2, <4>1
    <3>. QED
      BY <2>4, <3>1, <3>2 DEF Appended
  <2>9. ASSUME NEW i \in 1..N + 1, NEW j \in 1..N + 1, i > Len(s), i < j
        PROVE  \E k, m \in 1..n + 1 : k # m /\ Is(b, b2, cs, L, i, k) /\ Is(b, b2, cs, L, j, m)
    <3>0. i \in 1..N
      BY <2>4, <2>9 DEF Appended
    <3>1. CASE j = N + 1
      <4>1. PICK k \in 1..n : Is(b, b1, cs, L, i, k)
        BY <2>3, <2>9, <3>0 DEF NewTerms
      <4>. QED
        BY <1>1, <2>5, <2>6, <3>0, <3>1, <4>1
    <3>2. CASE j \in 1..N
      <4>1. PICK k \in 1..n, m \in 1..n : k # m /\ Is(b, b1, cs, L, i, k) /\ Is(b, b1, cs, L, j, m)
        BY <2>3, <2>9, <3>0, <3>2 DEF NewTerms
      <4>. QED
        BY <1>1, <2>6, <3>0, <3>2, <4>1
    <3>. QED
      BY <2>4, <3>1, <3>2 DEF Appended
  <2>10. Len(s2) = N + 1
    BY <2>4 DEF Appended
  <2>. QED
    BY <2>3, <2>7, <2>8, <2>9, <2>10 DEF NewTerms
<1>. QED
  BY <1>2, <1>3

LEMMA AllTermsFold ==
    ASSUME NEW b, NEW b1, NEW b2, NEW cs, NEW n \in Nat, NEW L \in Lists,
           After(b, b1, b2, cs, n, L), AllTerms(b, b1, cs, n, L)
    PROVE  AllTerms(b, b2, cs, n + 1, L)
<1>. SUFFICES ASSUME ~b2.err, NEW k \in 1..n + 1, cs[k].to = L
              PROVE  \E i \in 1..Len(ListOf(b2, L)) : i > Len(ListOf(b, L)) /\ Is(b, b2, cs, L, i, k)
  BY DEF AllTerms
<1>0. /\ ListOf(b, L) \in Seq(AnyTerms) /\ ListOf(b1, L) \in Seq(AnyTerms)
      /\ Len(ListOf(b, L)) \in Nat /\ Len(ListOf(b1, L)) \in Nat
      /\ ListOf(b2, L) \in Seq(AnyTerms) /\ Len(ListOf(b2, L)) \in Nat
  BY ListsAre, LenProperties DEF After
<1>1. ~b1.err
  BY DEF After
<1>2. CASE ListOf(b2, L) = ListOf(b1, L)
  <2>1. cs[n + 1].to # L
    <3>1. CASE cs[n + 1].to = L
      <4>1. PICK t \in AnyTerms : ListOf(b1, L) = Append(ListOf(b1, L), t)
        BY <1>2, <3>1 DEF After, ListStep
      <4>2. Appended(ListOf(b1, L), t, ListOf(b1, L), Len(ListOf(b1, L)))
        BY <1>0, <4>1, AppendedIs
      <4>. QED
        BY <1>0, <4>2 DEF Appended
    <3>. QED
      BY <3>1
  <2>2. k \in 1..n
    BY <2>1
  <2>3. PICK i \in 1..Len(ListOf(b1, L)) : i > Len(ListOf(b, L)) /\ Is(b, b1, cs, L, i, k)
    BY <1>1, <2>2 DEF AllTerms
  <2>4. Is(b, b2, cs, L, i, k)
    BY <1>2, <2>3, IsFold DEF After
  <2>. QED
    BY <1>2, <2>3, <2>4
<1>3. CASE ListOf(b2, L) # ListOf(b1, L)
  <2>1. PICK t \in AnyTerms : Stands(b2, t, cs[n + 1]) /\ ListOf(b2, L) = Append(ListOf(b1, L), t)
    BY <1>3 DEF After, ListStep
  <2>3. PICK s, s1, s2, N : s = ListOf(b, L) /\ s1 = ListOf(b1, L) /\ s2 = ListOf(b2, L) /\ N = Len(s1)
    OBVIOUS
  <2>4. Appended(s1, t, s2, N)
    BY <1>0, <2>1, <2>3, AppendedIs
  <2>5. CASE k = n + 1
    <3>1. Is(b, b2, cs, L, N + 1, n + 1)
      BY <2>1, <2>3, <2>4, <2>5 DEF Is, Appended, Stands, Refers
    <3>2. N + 1 \in 1..Len(s2) /\ N + 1 > Len(s)
      BY <1>0, <2>3, <2>4 DEF Appended, After, Continues
    <3>. QED
      BY <2>3, <2>5, <3>1, <3>2
  <2>6. CASE k \in 1..n
    <3>1. PICK i \in 1..Len(s1) : i > Len(s) /\ Is(b, b1, cs, L, i, k)
      BY <1>1, <2>3, <2>6 DEF AllTerms
    <3>2. i \in 1..N /\ i \in 1..Len(s2)
      BY <1>0, <2>3, <2>4, <3>1 DEF Appended
    <3>3. Is(b, b2, cs, L, i, k)
      BY <2>3, <2>4, <3>1, <3>2, IsFold DEF After, Appended
    <3>. QED
      BY <2>3, <3>1, <3>2, <3>3
  <2>. QED
    BY <2>5, <2>6
<1>. QED
  BY <1>2, <1>3

LEMMA LinksFold ==
    ASSUME NEW b, NEW b1, NEW b2, NEW cs \in Seq(Clauses), NEW n \in Nat, n + 1 \in 1..Len(cs), NEW L \in Lists,
           After(b, b1, b2, cs, n, L), NewLinks(b, b1, cs, n, L)
    PROVE  NewLinks(b, b2, cs, n + 1, L)
<1>0. /\ LinksOf(b, L) \in Seq(Links) /\ LinksOf(b1, L) \in Seq(Links) /\ LinksOf(b2, L) \in Seq(Links)
      /\ Len(LinksOf(b, L)) \in Nat /\ Len(LinksOf(b1, L)) \in Nat
      /\ ListOf(b1, L) \in Seq(AnyTerms) /\ Len(ListOf(b1, L)) \in Nat
  BY ListsAre, LenProperties DEF After
<1>1. 1..n \subseteq 1..n + 1 /\ n + 1 \in 1..n + 1
  OBVIOUS
<1>2. cs[n + 1].link \in Links
  <2>1. cs[n + 1] \in Clauses
    BY ElementOfSeq
  <2>. QED
    BY <2>1 DEF Clauses
<1>3. CASE ListOf(b2, L) = ListOf(b1, L) /\ LinksOf(b2, L) = LinksOf(b1, L)
  BY <1>1, <1>3 DEF NewLinks
<1>4. CASE ~(ListOf(b2, L) = ListOf(b1, L) /\ LinksOf(b2, L) = LinksOf(b1, L))
  <2>1. PICK t \in AnyTerms : ListOf(b2, L) = Append(ListOf(b1, L), t)
    BY <1>4 DEF After, ListStep
  <2>2. PICK s1, s2, N : s1 = ListOf(b1, L) /\ s2 = ListOf(b2, L) /\ N = Len(s1)
    OBVIOUS
  <2>3. Appended(s1, t, s2, N)
    BY <1>0, <2>1, <2>2, AppendedIs
  <2>4. PICK l, l1, l2, M : l = LinksOf(b, L) /\ l1 = LinksOf(b1, L) /\ l2 = LinksOf(b2, L) /\ M = Len(l1)
    OBVIOUS
  <2>5. CASE L \notin Chained
    <3>1. l2 = l1
      BY <1>4, <2>4, <2>5 DEF After, ListStep
    <3>. QED
      BY <1>1, <2>4, <2>5, <3>1 DEF NewLinks
  <2>6. CASE L \in Chained /\ s1 = <<>>
    <3>1. l2 = l1
      BY <1>4, <2>2, <2>4, <2>6 DEF After, ListStep, linked
    <3>2. Len(s1) = 0 /\ Len(s2) = 1
      BY <1>0, <2>2, <2>3, <2>6 DEF Appended
    <3>3. Separated(s1, l1) => Separated(s2, l2)
      BY <3>1, <3>2 DEF Separated
    <3>. QED
      BY <1>1, <2>2, <2>4, <2>6, <3>1, <3>3 DEF NewLinks
  <2>7. CASE L \in Chained /\ s1 # <<>>
    <3>1. l2 = Append(l1, cs[n + 1].link)
      BY <1>4, <2>2, <2>4, <2>7 DEF After, ListStep, linked
    <3>2. Appended(l1, cs[n + 1].link, l2, M)
      BY <1>0, <1>2, <2>4, <3>1, AppendedIs
    <3>3. Len(s1) # 0
      BY <1>0, <2>2, <2>7, EmptySeq
    <3>4. Separated(s1, l1) => Separated(s2, l2)
      <4>1. Len(s1) \in Nat /\ Len(s2) = Len(s1) + 1
        BY <2>3 DEF Appended
      <4>2. Len(l1) \in Nat /\ Len(l2) = Len(l1) + 1
        BY <3>2 DEF Appended
      <4>. QED
        BY <3>3, <4>1, <4>2 DEF Separated
    <3>5. Continues(l, l2)
      <4>1. Continues(l, l1) /\ Len(l) \in Nat /\ M \in Nat /\ Len(l1) = M
        BY <1>0, <2>4 DEF NewLinks
      <4>2. Len(l2) = M + 1 /\ \A i \in 1..M : l2[i] = l1[i]
        BY <3>2 DEF Appended
      <4>3. Len(l) <= M /\ \A i \in 1..Len(l) : l1[i] = l[i]
        BY <4>1 DEF Continues
      <4>4. \A i \in 1..Len(l) : i \in 1..M
        BY <4>1, <4>3
      <4>5. Len(l) <= Len(l2)
        BY <4>1, <4>2, <4>3
      <4>6. \A i \in 1..Len(l) : l2[i] = l[i]
        BY <4>2, <4>3, <4>4
      <4>. QED
        BY <4>5, <4>6 DEF Continues
    <3>6. ASSUME \A k \in 1..n + 1 : cs[k].link = "AND", NEW j \in 1..Len(l2), j > Len(l) PROVE l2[j] = "AND"
      <4>1. CASE j = M + 1
        BY <1>1, <3>2, <3>6, <4>1 DEF Appended
      <4>2. CASE j \in 1..M
        BY <1>1, <2>4, <3>2, <3>6, <4>2 DEF Appended, NewLinks
      <4>. QED
        BY <3>2, <4>1, <4>2 DEF Appended
    <3>. QED
      BY <2>2, <2>4, <3>4, <3>5, <3>6 DEF NewLinks
  <2>. QED
    BY <2>5, <2>6, <2>7
<1>. QED
  BY <1>3, <1>4

LEMMA OneByOneFold ==
    ASSUME NEW b, NEW b1, NEW b2, NEW cs \in Seq(Clauses), NEW n \in Nat, n + 1 \in 1..Len(cs), NEW L \in Lists,
           After(b, b1, b2, cs, n, L), OneByOne(b, b1, cs, n, L)
    PROVE  OneByOne(b, b2, cs, n + 1, L)
<1>. SUFFICES ASSUME ~b2.err, L \in Chained, ListOf(b, L) = <<>>, LinksOf(b, L) = <<>>,
                     \A k \in 1..n + 1 : cs[k].to = L
              PROVE  /\ Len(ListOf(b2, L)) = n + 1
                     /\ Separated(ListOf(b2, L), LinksOf(b2, L))
                     /\ \A k \in 1..n + 1 : Is(b, b2, cs, L, k, k)
                     /\ \A k \in 1..n + 1 : k > 1 => LinksOf(b2, L)[k - 1] = cs[k].link
  BY DEF OneByOne
<1>0. /\ LinksOf(b1, L) \in Seq(Links) /\ ListOf(b1, L) \in Seq(AnyTerms)
  BY ListsAre DEF After
<1>1. 1..n \subseteq 1..n + 1 /\ n + 1 \in 1..n + 1
  OBVIOUS
<1>2. cs[n + 1].link \in Links
  <2>1. cs[n + 1] \in Clauses
    BY ElementOfSeq
  <2>. QED
    BY <2>1 DEF Clauses
<1>3. ~b1.err
  BY DEF After
<1>4. /\ Len(ListOf(b1, L)) = n
      /\ Separated(ListOf(b1, L), LinksOf(b1, L))
      /\ \A k \in 1..n : Is(b, b1, cs, L, k, k)
      /\ \A k \in 1..n : k > 1 => LinksOf(b1, L)[k - 1] = cs[k].link
  BY <1>1, <1>3 DEF OneByOne
<1>5. cs[n + 1].to = L
  BY <1>1
<1>6. PICK t \in AnyTerms : Stands(b2, t, cs[n + 1]) /\ ListOf(b2, L) = Append(ListOf(b1, L), t)
  BY <1>5 DEF After, ListStep
<1>7. LinksOf(b2, L) = linked(LinksOf(b1, L), ListOf(b1, L), cs[n + 1].link)
  BY <1>5 DEF After, ListStep
<1>8. PICK s1, s2, l1, l2 : s1 = ListOf(b1, L) /\ s2 = ListOf(b2, L) /\ l1 = LinksOf(b1, L) /\ l2 = LinksOf(b2, L)
  OBVIOUS
<1>9. Appended(s1, t, s2, n)
  BY <1>0, <1>4, <1>6, <1>8, AppendedIs
<1>10. Is(b, b2, cs, L, n + 1, n + 1)
  BY <1>5, <1>6, <1>8, <1>9 DEF Is, Appended, Stands, Refers
<1>11. \A k \in 1..n : Is(b, b2, cs, L, k, k)
  BY <1>4, <1>8, <1>9, IsFold DEF After, Appended
<1>12. \A k \in 1..n + 1 : Is(b, b2, cs, L, k, k)
  BY <1>9, <1>10, <1>11 DEF Appended
<1>13. CASE s1 = <<>>
  <2>1. l2 = l1 /\ n = 0
    BY <1>4, <1>7, <1>8, <1>13 DEF linked
  <2>2. Separated(s2, l2)
    BY <1>4, <1>8, <1>9, <2>1 DEF Separated, Appended
  <2>3. \A k \in 1..n + 1 : ~(k > 1)
    BY <2>1
  <2>. QED
    BY <1>8, <1>9, <1>12, <2>2, <2>3 DEF Appended
<1>14. CASE s1 # <<>>
  <2>1. l2 = Append(l1, cs[n + 1].link)
    BY <1>7, <1>8, <1>14 DEF linked
  <2>2. n # 0
    BY <1>0, <1>4, <1>8, <1>14, EmptySeq
  <2>3. Len(l1) = n - 1
    BY <1>4, <1>8, <2>2 DEF Separated
  <2>4. Appended(l1, cs[n + 1].link, l2, n - 1)
    BY <1>0, <1>2, <1>8, <2>1, <2>3, AppendedIs
  <2>5. Separated(s2, l2)
    BY <1>9, <2>2, <2>4 DEF Separated, Appended
  <2>6. ASSUME NEW k \in 1..n + 1, k > 1 PROVE l2[k - 1] = cs[k].link
    <3>1. CASE k = n + 1
      <4>1. l2[(n - 1) + 1] = cs[n + 1].link
        BY <2>4 DEF Appended
      <4>2. (n - 1) + 1 = k - 1
        BY <3>1
      <4>. QED
        BY <3>1, <4>1, <4>2
    <3>2. CASE k # n + 1
      <4>1. k \in 1..n /\ k - 1 \in 1..n - 1
        BY <2>6, <3>2
      <4>2. l2[k - 1] = l1[k - 1]
        BY <2>4, <4>1 DEF Appended
      <4>. QED
        BY <1>4, <1>8, <2>6, <4>1, <4>2
    <3>. QED
      BY <3>1, <3>2
  <2>. QED
    BY <1>8, <1>9, <1>12, <2>5, <2>6 DEF Appended
<1>. QED
  BY <1>13, <1>14

LEMMA FoldedStart ==
    ASSUME NEW b \in Builders, NEW cs, NEW L \in Lists
    PROVE  Folded(b, b, cs, 0, L)
<1>0. /\ LinksOf(b, L) \in Seq(Links) /\ ListOf(b, L) \in Seq(AnyTerms)
      /\ Len(LinksOf(b, L)) \in Nat /\ Len(ListOf(b, L)) \in Nat
  BY ListsAre, LenProperties
<1>1. NamesFrom(b, b, cs, 0) /\ Kept(b, b)
  BY DEF NamesFrom, Kept
<1>2. Continues(ListOf(b, L), ListOf(b, L)) /\ Continues(LinksOf(b, L), LinksOf(b, L))
  BY <1>0 DEF Continues
<1>3. NewTerms(b, b, cs, 0, L)
  BY <1>0 DEF NewTerms
<1>4. AllTerms(b, b, cs, 0, L)
  BY DEF AllTerms
<1>5. NewLinks(b, b, cs, 0, L)
  BY <1>0, <1>2 DEF NewLinks
<1>6. OneByOne(b, b, cs, 0, L)
  <2>1. ASSUME ListOf(b, L) = <<>>, LinksOf(b, L) = <<>> PROVE Len(ListOf(b, L)) = 0 /\ Len(LinksOf(b, L)) = 0
    BY <2>1
  <2>. QED
    BY <2>1 DEF OneByOne, Separated
<1>. QED
  BY <1>1, <1>2, <1>3, <1>4, <1>5, <1>6 DEF Folded

LEMMA FoldedOne ==
    ASSUME NEW b \in Builders, NEW b1, NEW b2, NEW cs \in Seq(Clauses), NEW n \in Nat, n + 1 \in 1..Len(cs),
           NEW L \in Lists, Folded(b, b1, cs, n, L), b2 = addClause(b1, cs[n + 1])
    PROVE  Folded(b, b2, cs, n + 1, L)
<1>1. cs[n + 1] \in Clauses /\ b1 \in Builders
  BY ElementOfSeq DEF Folded
<1>2. OneClause(b1, b2, cs[n + 1])
  BY <1>1, ClauseAdded
<1>3. ListStep(b1, b2, cs[n + 1], L) /\ (b1.err => b2.err)
  BY <1>1, <1>2, StepIs
<1>4. b2 \in Builders /\ NamesGrow(b1, b2, cs[n + 1].name) /\ (cs[n + 1].to = "none" => b2 = b1)
  BY <1>2 DEF OneClause
<1>5. Fresh(b) => Fresh(b2) /\ Kept(b1, b2)
  BY <1>2 DEF OneClause, Folded
<1>6. Fresh(b) => Kept(b, b2)
  BY <1>5 DEF Folded, Kept
<1>7. After(b, b1, b2, cs, n, L)
  BY <1>1, <1>3, <1>4, <1>5 DEF After, Folded, NamesGrow
<1>8. NamesFrom(b, b2, cs, n + 1)
  BY <1>4, NamesFold DEF Folded
<1>9. NewTerms(b, b2, cs, n + 1, L) /\ Continues(ListOf(b, L), ListOf(b2, L))
  BY <1>7, NewTermsFold DEF Folded
<1>10. AllTerms(b, b2, cs, n + 1, L)
  BY <1>7, AllTermsFold DEF Folded
<1>11. NewLinks(b, b2, cs, n + 1, L)
  BY <1>7, LinksFold DEF Folded
<1>12. OneByOne(b, b2, cs, n + 1, L)
  BY <1>7, OneByOneFold DEF Folded
<1>13. ASSUME \A k \in 1..n + 1 : cs[k].to = "none" PROVE b2 = b
  BY <1>4, <1>13 DEF Folded
<1>14. b.err => b2.err
  BY <1>3 DEF Folded
<1>. QED
  BY <1>4, <1>5, <1>6, <1>8, <1>9, <1>10, <1>11, <1>12, <1>13, <1>14 DEF Folded

\* What addClauses does, for any clauses.
LEMMA ClausesAdded ==
    ASSUME NEW b \in Builders, NEW cs \in Seq(Clauses), NEW L \in Lists
    PROVE  Folded(b, addClauses(b, cs), cs, Len(cs), L)
<1>0. Len(cs) \in Nat
  BY LenProperties
<1>1. PICK f : f = CHOOSE g : Adds(g, b, cs, Len(cs))
  OBVIOUS
<1>2. Adds(f, b, cs, Len(cs)) /\ addClauses(b, cs) = f[Len(cs)]
  BY <1>0, <1>1, AddsExists, AddsIs
<1>3. f[0] = b /\ \A i \in 1..Len(cs) : f[i] = addClause(f[i - 1], cs[i])
  BY <1>0, <1>2 DEF Adds
<1>. DEFINE N == {n \in Nat : n <= Len(cs) /\ ~Folded(b, f[n], cs, n, L)}
<1>4. SUFFICES ASSUME N # {} PROVE FALSE
  BY <1>0, <1>2
<1>5. PICK m \in N : \A k \in N : m <= k
  <2>1. N \subseteq Nat
    OBVIOUS
  <2>. QED
    BY <1>4, <2>1, Smallest
<1>6. CASE m = 0
  BY <1>3, <1>5, <1>6, FoldedStart
<1>7. CASE m # 0
  <2>1. PICK k \in Nat : m = k + 1
    <3>1. m - 1 \in Nat /\ m = (m - 1) + 1
      BY <1>5, <1>7
    <3>. QED
      BY <3>1
  <2>2. k \notin N /\ k <= Len(cs) /\ k + 1 \in 1..Len(cs)
    BY <1>0, <1>5, <2>1
  <2>3. Folded(b, f[k], cs, k, L)
    BY <2>2
  <2>4. f[k + 1] = addClause(f[k], cs[k + 1])
    <3>1. (k + 1) - 1 = k
      OBVIOUS
    <3>. QED
      BY <1>3, <2>2, <3>1
  <2>. QED
    BY <1>5, <2>1, <2>2, <2>3, <2>4, FoldedOne
<1>. QED
  BY <1>6, <1>7

(***************************************************************************)
(* What expressions mean.                                                  *)
(***************************************************************************)
ClauseSays(c, item) == Compare(canonical(c.op), item[c.name], c.vals)

\* A term means what its clause says.
LEMMA TermMeans ==
    ASSUME NEW b, NEW t, NEW c \in Clauses, c.to # "updates", Stands(b, t, c), NEW item
    PROVE  /\ termHolds(t, b, item) = ClauseSays(c, item)
           /\ simpleHolds(t, b, item) = ClauseSays(c, item)
<1>0. c.vals \in Seq(Nat)
  BY DEF Clauses
<1>1. t.op = canonical(c.op) /\ Refers(b, t.name, t.vals, c.name, c.vals)
  BY DEF Stands
<1>2. t.op # "GROUP"
  BY <1>1, CanonicalIs DEF Operators
<1>3. b.names[t.name] = c.name /\ Len(t.vals) = Len(c.vals)
  BY <1>1 DEF Refers
<1>4. [i \in 1..Len(t.vals) |-> b.values[t.vals[i]]] = c.vals
  <2>1. c.vals = [i \in 1..Len(c.vals) |-> c.vals[i]]
    BY <1>0
  <2>2. \A i \in 1..Len(c.vals) : b.values[t.vals[i]] = c.vals[i]
    BY <1>1 DEF Refers
  <2>. QED
    BY <1>3, <2>1, <2>2
<1>5. simpleHolds(t, b, item) = Compare(t.op, item[b.names[t.name]], c.vals)
  BY <1>4 DEF simpleHolds
<1>6. simpleHolds(t, b, item) = ClauseSays(c, item)
  BY <1>1, <1>3, <1>5 DEF ClauseSays
<1>. QED
  BY <1>2, <1>6 DEF termHolds

\* AND and OR of the same.
LEMMA AndOrSame ==
    ASSUME NEW n \in Nat, NEW h, NEW g, Len(h) = n, Len(g) = n, NEW links,
           \A i \in 1..n : h[i] <=> g[i]
    PROVE  AndOr(h, links) <=> AndOr(g, links)
BY DEF AndOr

\* AND everywhere: all hold.
LEMMA AndsAll ==
    ASSUME NEW n \in Nat, NEW h, Len(h) = n, NEW links, \A j \in 1..n : j < n => links[j] = "AND"
    PROVE  AndOr(h, links) <=> \A i \in 1..n : h[i]
<1>1. AndOr(h, links) <=> \/ n = 0
                          \/ \E i, j \in 1..n :
                                /\ i <= j
                                /\ i = 1 \/ links[i - 1] = "OR"
                                /\ j = n \/ links[j] = "OR"
                                /\ \A k \in i..j : h[k] /\ (k < j => links[k] = "AND")
  BY DEF AndOr
<1>2. \A i \in 1..n : i # 1 => links[i - 1] # "OR"
  <2>. SUFFICES ASSUME NEW i \in 1..n, i # 1 PROVE links[i - 1] # "OR"
    OBVIOUS
  <2>1. i - 1 \in 1..n /\ i - 1 < n
    OBVIOUS
  <2>2. links[i - 1] = "AND"
    BY <2>1
  <2>. QED
    BY <2>2
<1>3. \A j \in 1..n : j # n => links[j] # "OR"
  <2>. SUFFICES ASSUME NEW j \in 1..n, j # n PROVE links[j] # "OR"
    OBVIOUS
  <2>1. links[j] = "AND"
    OBVIOUS
  <2>. QED
    BY <2>1
<1>4. ASSUME AndOr(h, links) PROVE \A i \in 1..n : h[i]
  <2>1. CASE n = 0
    BY <2>1
  <2>2. CASE n # 0
    <3>1. PICK i \in 1..n, j \in 1..n : /\ i <= j
                                        /\ i = 1 \/ links[i - 1] = "OR"
                                        /\ j = n \/ links[j] = "OR"
                                        /\ \A k \in i..j : h[k]
      BY <1>1, <1>4, <2>2
    <3>2. i = 1 /\ j = n
      BY <1>2, <1>3, <3>1
    <3>. QED
      BY <3>1, <3>2
  <2>. QED
    BY <2>1, <2>2
<1>5. ASSUME \A i \in 1..n : h[i] PROVE AndOr(h, links)
  <2>1. CASE n = 0
    BY <1>1, <2>1
  <2>2. CASE n # 0
    <3>1. 1 \in 1..n /\ n \in 1..n /\ 1 <= n
      BY <2>2
    <3>2. \A k \in 1..n : h[k] /\ (k < n => links[k] = "AND")
      BY <1>5
    <3>. QED
      BY <1>1, <3>1, <3>2
  <2>. QED
    BY <2>1, <2>2
<1>. QED
  BY <1>4, <1>5

\* An expression with AND everywhere holds if all terms do.
LEMMA AndsHold ==
    ASSUME NEW terms, Len(terms) \in Nat, NEW links, NEW b, NEW item,
           \A j \in 1..Len(terms) : j < Len(terms) => links[j] = "AND"
    PROVE  ExpressionHolds(terms, links, b, item) <=> \A i \in 1..Len(terms) : termHolds(terms[i], b, item)
<1>1. PICK n \in Nat : n = Len(terms)
  OBVIOUS
<1>2. PICK h : h = [i \in 1..n |-> termHolds(terms[i], b, item)]
  OBVIOUS
<1>3. Len(h) = n /\ \A i \in 1..n : h[i] = termHolds(terms[i], b, item)
  BY <1>2
<1>4. ExpressionHolds(terms, links, b, item) <=> AndOr(h, links)
  BY <1>1, <1>2 DEF ExpressionHolds
<1>5. AndOr(h, links) <=> \A i \in 1..n : h[i]
  BY <1>1, <1>3, AndsAll
<1>6. (\A i \in 1..n : h[i]) <=> \A i \in 1..n : termHolds(terms[i], b, item)
  BY <1>3
<1>. QED
  BY <1>1, <1>4, <1>5, <1>6

(***************************************************************************)
(* Names.                                                                  *)
(***************************************************************************)
Secret == {DBName[f] : f \in Encrypted}

LEMMA NamesAre ==
    /\ \A f \in DOMAIN DBName : DBName[f] \in STRING /\ f \in STRING
    /\ \A f, g \in DOMAIN DBName : DBName[f] = DBName[g] => f = g
    /\ Encrypted \subseteq DOMAIN DBName
BY QueryAssumption DEF IsInjective

LEMMA Resolves ==
    ASSUME NEW f \in STRING
    PROVE  /\ resolveAttributeName(f) \in STRING
           /\ resolveGoFieldName(f) \in DOMAIN DBName => resolveAttributeName(f) = DBName[resolveGoFieldName(f)]
           /\ ~rejectEncryptedConditionField(f) => resolveAttributeName(f) \notin Secret
<1>1. CASE AttributeMetadata(f) = {}
  <2>1. f \notin DOMAIN DBName /\ \A g \in DOMAIN DBName : DBName[g] # f
    BY <1>1 DEF AttributeMetadata
  <2>2. resolveGoFieldName(f) = f /\ resolveAttributeName(f) = f
    BY <1>1 DEF resolveGoFieldName, resolveAttributeName
  <2>. QED
    BY <2>1, <2>2, NamesAre DEF Secret
<1>2. CASE AttributeMetadata(f) # {}
  <2>1. resolveGoFieldName(f) \in AttributeMetadata(f)
    BY <1>2 DEF resolveGoFieldName
  <2>2. resolveGoFieldName(f) \in DOMAIN DBName
    BY <2>1 DEF AttributeMetadata
  <2>3. resolveAttributeName(f) = DBName[resolveGoFieldName(f)]
    BY <1>2 DEF resolveAttributeName
  <2>. QED
    BY <2>2, <2>3, NamesAre DEF Secret, rejectEncryptedConditionField
<1>. QED
  BY <1>1, <1>2

LEMMA GoNames ==
    ASSUME NEW f \in DOMAIN DBName
    PROVE  /\ resolveGoFieldName(f) = f /\ resolveAttributeName(f) = DBName[f]
           /\ rejectEncryptedConditionField(f) <=> f \in Encrypted
<1>1. AttributeMetadata(f) = {f}
  BY DEF AttributeMetadata
<1>2. resolveGoFieldName(f) = f
  BY <1>1 DEF resolveGoFieldName
<1>. QED
  BY <1>1, <1>2 DEF resolveAttributeName, rejectEncryptedConditionField

LEMMA KeysAre ==
    /\ PrimaryKey.pk \in DOMAIN DBName \ Encrypted
    /\ PrimaryKey.sk \in (DOMAIN DBName \ Encrypted) \cup {""}
    /\ keyFields \subseteq DOMAIN DBName \ Encrypted
    /\ "" \notin DOMAIN DBName
    /\ VersionField \in DOMAIN DBName \ Encrypted
BY QueryAssumption DEF keyFields

(***************************************************************************)
(* Calls with conditions, and the clauses made of them.                    *)
(***************************************************************************)
ConditionCalls == [field : STRING, op : Words, vals : Seq(Nat)]

LEMMA CallsAre ==
    /\ Conditions \subseteq ConditionCalls /\ GroupConditions \subseteq ConditionCalls
    /\ UpdateFields \subseteq STRING /\ FieldLists \subseteq Seq(STRING)
<1>1. [field : STRING, op : STRING, vals : Seq(Nat)] \subseteq ConditionCalls
  BY DEF ConditionCalls, Words
<1>. QED
  BY <1>1, CallAssumption

LEMMA ClausesAre ==
    ASSUME NEW cs \in Seq(ConditionCalls), NEW chosen, NEW to \in Lists
    PROVE  LET cl == clausesOf(cs, chosen, to) IN
           /\ cl \in Seq(Clauses) /\ Len(cl) = Len(cs)
           /\ \A i \in 1..Len(cs) :
                 /\ cl[i].to = (IF i \in chosen THEN to ELSE "none") /\ cl[i].link = "AND"
                 /\ cl[i].name = resolveAttributeName(cs[i].field)
                 /\ cl[i].op = cs[i].op /\ cl[i].vals = cs[i].vals
<1>. DEFINE cl == clausesOf(cs, chosen, to)
<1>0. Len(cs) \in Nat
  BY LenProperties
<1>1. \A i \in 1..Len(cs) : cs[i] \in ConditionCalls
  BY ElementOfSeq
<1>2. ASSUME NEW i \in 1..Len(cs)
      PROVE  /\ cl[i] \in Clauses
             /\ cl[i].to = (IF i \in chosen THEN to ELSE "none") /\ cl[i].link = "AND"
             /\ cl[i].name = resolveAttributeName(cs[i].field)
             /\ cl[i].op = cs[i].op /\ cl[i].vals = cs[i].vals
  <2>1. cl[i] = [to |-> IF i \in chosen THEN to ELSE "none", link |-> "AND",
                 name |-> resolveAttributeName(cs[i].field), op |-> cs[i].op, vals |-> cs[i].vals]
    BY DEF clausesOf
  <2>2. cs[i].field \in STRING /\ cs[i].op \in Words /\ cs[i].vals \in Seq(Nat)
    BY <1>1 DEF ConditionCalls
  <2>3. resolveAttributeName(cs[i].field) \in STRING
    BY <2>2, Resolves
  <2>. QED
    BY <2>1, <2>2, <2>3 DEF Clauses, Links
<1>3. cl \in Seq(Clauses) /\ Len(cl) = Len(cs)
  BY <1>0, <1>2 DEF clausesOf
<1>. QED
  BY <1>2, <1>3

(***************************************************************************)
(* The state of a query, part by part.                                     *)
(***************************************************************************)
Filters == [group : Seq(ConditionCalls), operators : Seq(Links), grouped : BOOLEAN]
Raws == [cond : ConditionCalls, holders : RawValues]
UpdateConditions == [cond : ConditionCalls, logicOp : Links]
IndexNames == {""} \cup {Indexes[i].name : i \in 1..Len(Indexes)}

QueryRecords ==
    [conditions : Seq(ConditionCalls), builder : Builders \cup {NoBuilder}, index : IndexNames,
     writeConditions : Seq(ConditionCalls), raw : Seq(Raws), model : [DOMAIN DBName -> Nat], builderErr : BOOLEAN]

UpdateBuilders == [expr : Builders, conditions : Seq(UpdateConditions), buildErr : BOOLEAN]

Effects == {<<"SET", v>> : v \in Nat} \cup {<<"ADD", v>> : v \in Nat} \cup {<<"DEFAULT", v>> : v \in Nat}
           \cup {<<"REMOVE">>}

Asks ==
    [calls : Nat, where : Seq(ConditionCalls), filters : Seq(Filters), operators : Seq(Links),
     writes : Seq(ConditionCalls), updates : Seq(ConditionCalls), updateOps : Seq(Links), effects : Maps(STRING, Effects)]

Typed == mode \in Modes /\ q \in QueryRecords /\ ub \in UpdateBuilders /\ asked \in Asks

\* The conditions of Where: none is on an encrypted field, none is lost without an error.
WherePart(cs, err, where) ==
    /\ \A i \in 1..Len(cs) : ~rejectEncryptedConditionField(cs[i].field)
    /\ Len(cs) <= Len(where)
    /\ ~err => cs = where

\* No name is that of an encrypted attribute.
Clear(b) == \A p \in DOMAIN b.names : b.names[p] \notin Secret

\* A term has its name and its values.
Grounds(b, t) == t.name \in DOMAIN b.names /\ \A j \in 1..Len(t.vals) : t.vals[j] \in DOMAIN b.values

AllGround(b, t) ==
    /\ t.op # "GROUP" => Grounds(b, t)
    /\ t.op = "GROUP" => \A i \in 1..Len(t.terms) : Grounds(b, t.terms[i])

Grounded(b) == \A i \in 1..Len(b.filterConditions) : AllGround(b, b.filterConditions[i])

Plain(filters) == \A i \in 1..Len(filters) : ~filters[i].grouped

\* The builder's filters mean those asked for.
FiltersMean(b, filters, operators) ==
    /\ Len(b.filterConditions) = Len(filters) /\ b.filterOperators = operators
    /\ \A item \in Items : \A i \in 1..Len(filters) :
          termHolds(b.filterConditions[i], b, item) <=> GroupSays(filters[i], item)

FilterPart(b, err, filters, operators) ==
    /\ b \in Builders /\ ~b.err /\ b.keyConditions = <<>>
    /\ Separated(b.filterConditions, b.filterOperators)
    /\ Clear(b) /\ Grounded(b)
    /\ filters = <<>> => b = EmptyBuilder
    /\ Plain(filters) => Fresh(b)
    /\ ~err /\ (Plain(filters) \/ Len(filters) <= 1) => FiltersMean(b, filters, operators)

Things == Items \cup {NoItem}

\* The write conditions and the raw ones say what was asked for, of any item or none.
WritePart(wc, raw, err, writes) ==
    /\ \A i \in 1..Len(wc) : wc[i].field \notin Secret
    /\ ~err => \A item \in Things :
          AllSay(writes, item) <=>
              /\ \A i \in 1..Len(wc) : Compare(canonical(wc[i].op), item[wc[i].field], wc[i].vals)
              /\ \A i \in 1..Len(raw) : Says(raw[i].cond, item)

\* The conditions of the UpdateBuilder are those asked for, with their operators.
UpdateConditionPart(conds, err, updates, ops) ==
    ~err => /\ Len(conds) = Len(updates)
            /\ \A i \in 1..Len(updates) : /\ conds[i].cond = updates[i]
                                          /\ ~rejectEncryptedConditionField(updates[i].field)
                                          /\ i > 1 => ops[i - 1] = conds[i].logicOp
            /\ Separated(updates, ops)

\* An action with its values has the effect e.
Does(action, vals, e) ==
    \/ action = "SET" /\ Len(vals) = 1 /\ e = <<"SET", vals[1]>>
    \/ action = "ADD" /\ Len(vals) = 1 /\ e = <<"ADD", vals[1]>>
    \/ action = "IF_NOT_EXISTS" /\ Len(vals) = 1 /\ e = <<"DEFAULT", vals[1]>>
    \/ action = "REMOVE" /\ e = <<"REMOVE">>

\* An update has the effect asked for on its attribute.
Matches(b, u, effects) ==
    \E vals \in Seq(Nat), a \in DOMAIN effects :
        Refers(b, u.name, u.vals, a, vals) /\ Does(u.action, vals, effects[a])

\* The updates have the effects asked for.
UpdatePart(b, err, effects) ==
    /\ Fresh(b) /\ ~b.err /\ b.conditions = <<>> /\ b.conditionOperators = <<>>
    /\ \A i \in 1..Len(b.updates) : Matches(b, b.updates[i], effects)
    /\ ~err => \A a \in DOMAIN effects : \E i \in 1..Len(b.updates) : b.names[b.updates[i].name] = a

QueryInv ==
    /\ Typed
    /\ WherePart(q.conditions, q.builderErr, asked.where)
    /\ FilterPart(newBuilder(q), q.builderErr, asked.filters, asked.operators)
    /\ WritePart(q.writeConditions, q.raw, q.builderErr, asked.writes)
    /\ UpdateConditionPart(ub.conditions, ub.buildErr, asked.updates, asked.updateOps)
    /\ UpdatePart(ub.expr, ub.buildErr, asked.effects)

\* A map without entries.
LEMMA NoEntries ==
    ASSUME NEW D, NEW R
    PROVE  <<>> \in Maps(D, R) /\ DOMAIN <<>> = {}
<1>1. <<>> \in [{} -> R] /\ {} \in SUBSET D
  OBVIOUS
<1>. QED
  BY <1>1 DEF Maps

LEMMA EmptyIs ==
    /\ EmptyBuilder \in Builders /\ Fresh(EmptyBuilder) /\ Clear(EmptyBuilder) /\ ~EmptyBuilder.err
    /\ DOMAIN EmptyBuilder.names = {} /\ DOMAIN EmptyBuilder.values = {}
    /\ \A L \in Lists : ListOf(EmptyBuilder, L) = <<>> /\ LinksOf(EmptyBuilder, L) = <<>>
<1>1. <<>> \in Maps(NameRefs, STRING) /\ <<>> \in Maps(ValueRefs, Nat) /\ DOMAIN <<>> = {}
  BY NoEntries
<1>2. EmptyBuilder \in Builders
  BY <1>1 DEF EmptyBuilder, Builders
<1>3. DOMAIN EmptyBuilder.names = {} /\ DOMAIN EmptyBuilder.values = {}
  BY <1>1 DEF EmptyBuilder
<1>4. Fresh(EmptyBuilder) /\ Clear(EmptyBuilder)
  BY <1>3 DEF Fresh, Clear
<1>5. \A L \in Lists : ListOf(EmptyBuilder, L) = <<>> /\ LinksOf(EmptyBuilder, L) = <<>>
  BY DEF EmptyBuilder, ListOf, LinksOf
<1>6. ~EmptyBuilder.err
  BY DEF EmptyBuilder
<1>. QED
  BY <1>2, <1>3, <1>4, <1>5, <1>6

LEMMA BuilderIsNot ==
    ASSUME NEW b \in Builders
    PROVE  b # NoBuilder
<1>1. DOMAIN b = {"names", "values", "nameCounter", "valueCounter", "keyConditions", "filterConditions",
                  "filterOperators", "conditions", "conditionOperators", "updates", "err"}
  BY DEF Builders
<1>2. DOMAIN NoBuilder = {"none"}
  BY DEF NoBuilder
<1>. QED
  BY <1>1, <1>2

\* The calls that name the item of an UpdateBuilder.
LEMMA NamedIs ==
    /\ named \in Seq(ConditionCalls)
    /\ \A i \in 1..Len(named) : ~rejectEncryptedConditionField(named[i].field)
<1>. DEFINE is(f) == [field |-> f, op |-> "=", vals |-> <<1>>]
<1>1. \A f \in DOMAIN DBName \ Encrypted : is(f) \in ConditionCalls /\ ~rejectEncryptedConditionField(is(f).field)
  <2>. SUFFICES ASSUME NEW f \in DOMAIN DBName \ Encrypted
                PROVE  is(f) \in ConditionCalls /\ ~rejectEncryptedConditionField(is(f).field)
    OBVIOUS
  <2>1. <<1>> \in Seq(Nat)
    OBVIOUS
  <2>2. is(f) \in ConditionCalls
    BY <2>1, NamesAre DEF ConditionCalls, Words
  <2>. QED
    BY <2>2, GoNames
<1>2. CASE mode # "update"
  <2>1. named = <<>>
    BY <1>2 DEF named
  <2>. QED
    BY <2>1
<1>3. CASE mode = "update" /\ PrimaryKey.sk = ""
  <2>1. named = <<is(PrimaryKey.pk)>>
    BY <1>3 DEF named
  <2>2. is(PrimaryKey.pk) \in ConditionCalls /\ ~rejectEncryptedConditionField(is(PrimaryKey.pk).field)
    BY <1>1, KeysAre
  <2>3. PICK x : x = is(PrimaryKey.pk)
    OBVIOUS
  <2>4. named = <<x>> /\ x \in ConditionCalls /\ ~rejectEncryptedConditionField(x.field)
    BY <2>1, <2>2, <2>3
  <2>. QED
    BY <2>4
<1>4. CASE mode = "update" /\ PrimaryKey.sk # ""
  <2>1. named = <<is(PrimaryKey.pk), is(PrimaryKey.sk)>>
    BY <1>4 DEF named
  <2>2. is(PrimaryKey.pk) \in ConditionCalls /\ ~rejectEncryptedConditionField(is(PrimaryKey.pk).field)
    BY <1>1, KeysAre
  <2>3. is(PrimaryKey.sk) \in ConditionCalls /\ ~rejectEncryptedConditionField(is(PrimaryKey.sk).field)
    BY <1>1, <1>4, KeysAre
  <2>4. PICK x, y : x = is(PrimaryKey.pk) /\ y = is(PrimaryKey.sk)
    OBVIOUS
  <2>5. named = <<x, y>> /\ x \in ConditionCalls /\ y \in ConditionCalls
    BY <2>1, <2>2, <2>3, <2>4
  <2>6. ~rejectEncryptedConditionField(x.field) /\ ~rejectEncryptedConditionField(y.field)
    BY <2>2, <2>3, <2>4
  <2>. QED
    BY <2>5, <2>6
<1>. QED
  BY <1>2, <1>3, <1>4

LEMMA InitQueryInv ==
    ASSUME QueryInit
    PROVE  QueryInv
<1>0. PICK m \in Models[mode] :
          q = [conditions |-> named, builder |-> NoBuilder, index |-> "",
               writeConditions |-> <<>>, raw |-> <<>>, model |-> m, builderErr |-> FALSE]
  BY DEF QueryInit
<1>1. /\ mode \in Modes
      /\ ub = [expr |-> EmptyBuilder, conditions |-> <<>>, buildErr |-> FALSE]
      /\ asked = [calls |-> 0, where |-> named, filters |-> <<>>, operators |-> <<>>,
                  writes |-> <<>>, updates |-> <<>>, updateOps |-> <<>>, effects |-> <<>>]
  BY DEF QueryInit
<1>2. m \in [DOMAIN DBName -> Nat]
  <2>1. Models[mode] \subseteq [DOMAIN DBName -> Nat]
    BY <1>1, CallAssumption
  <2>. QED
    BY <2>1
<1>3. <<>> \in Maps(STRING, Effects) /\ DOMAIN <<>> = {}
  BY NoEntries
<1>4. Typed
  <2>1. q \in QueryRecords
    <3>1. PICK x \in IndexNames : x = ""
      BY DEF IndexNames
    <3>2. q = [conditions |-> named, builder |-> NoBuilder, index |-> x,
               writeConditions |-> <<>>, raw |-> <<>>, model |-> m, builderErr |-> FALSE]
      BY <1>0, <3>1
    <3>. QED
      BY <1>2, <3>2, NamedIs DEF QueryRecords
  <2>2. ub \in UpdateBuilders
    BY <1>1, EmptyIs DEF UpdateBuilders
  <2>3. asked \in Asks
    BY <1>1, <1>3, NamedIs DEF Asks
  <2>. QED
    BY <1>1, <2>1, <2>2, <2>3 DEF Typed
<1>5. WherePart(q.conditions, q.builderErr, asked.where)
  <2>1. q.conditions = named /\ asked.where = named
    BY <1>0, <1>1
  <2>2. Len(named) \in Nat
    BY NamedIs, LenProperties
  <2>. QED
    BY <2>1, <2>2, NamedIs DEF WherePart
<1>6. FilterPart(newBuilder(q), q.builderErr, asked.filters, asked.operators)
  <2>1. newBuilder(q) = EmptyBuilder /\ asked.filters = <<>> /\ asked.operators = <<>>
    BY <1>0, <1>1 DEF newBuilder
  <2>2. EmptyBuilder.keyConditions = <<>> /\ EmptyBuilder.filterConditions = <<>> /\ EmptyBuilder.filterOperators = <<>>
    BY DEF EmptyBuilder
  <2>3. Len(<<>>) = 0
    OBVIOUS
  <2>4. Separated(EmptyBuilder.filterConditions, EmptyBuilder.filterOperators)
    BY <2>2, <2>3 DEF Separated
  <2>5. Grounded(EmptyBuilder) /\ FiltersMean(EmptyBuilder, <<>>, <<>>)
    BY <2>2, <2>3 DEF Grounded, FiltersMean
  <2>. QED
    BY <2>1, <2>2, <2>4, <2>5, EmptyIs DEF FilterPart
<1>7. WritePart(q.writeConditions, q.raw, q.builderErr, asked.writes)
  <2>1. q.writeConditions = <<>> /\ q.raw = <<>> /\ asked.writes = <<>>
    BY <1>0, <1>1
  <2>. QED
    BY <2>1 DEF WritePart, AllSay
<1>8. UpdateConditionPart(ub.conditions, ub.buildErr, asked.updates, asked.updateOps)
  <2>1. ub.conditions = <<>> /\ asked.updates = <<>> /\ asked.updateOps = <<>>
    BY <1>1
  <2>. QED
    BY <2>1 DEF UpdateConditionPart, Separated
<1>9. UpdatePart(ub.expr, ub.buildErr, asked.effects)
  <2>1. ub.expr = EmptyBuilder /\ asked.effects = <<>>
    BY <1>1
  <2>2. EmptyBuilder.conditions = <<>> /\ EmptyBuilder.conditionOperators = <<>> /\ EmptyBuilder.updates = <<>>
    BY DEF EmptyBuilder
  <2>3. Len(EmptyBuilder.updates) = 0
    BY <2>2
  <2>. QED
    BY <1>3, <2>1, <2>2, <2>3, EmptyIs DEF UpdatePart
<1>. QED
  BY <1>4, <1>5, <1>6, <1>7, <1>8, <1>9 DEF QueryInv

LEMMA WhereMore ==
    ASSUME NEW cs \in Seq(ConditionCalls), NEW where \in Seq(ConditionCalls), NEW err, WherePart(cs, err, where), NEW c \in ConditionCalls
    PROVE  /\ WherePart(cs, TRUE, Append(where, c))
           /\ ~rejectEncryptedConditionField(c.field) => WherePart(Append(cs, c), err, Append(where, c))
<1>1. Appended(cs, c, Append(cs, c), Len(cs)) /\ Appended(where, c, Append(where, c), Len(where))
  BY AppendedIs
<1>2. WherePart(cs, TRUE, Append(where, c))
  BY <1>1 DEF WherePart, Appended
<1>3. ASSUME ~rejectEncryptedConditionField(c.field)
      PROVE  WherePart(Append(cs, c), err, Append(where, c))
  <2>1. \A i \in 1..Len(Append(cs, c)) : ~rejectEncryptedConditionField(Append(cs, c)[i].field)
    BY <1>1, <1>3 DEF WherePart, Appended
  <2>2. Len(Append(cs, c)) <= Len(Append(where, c))
    BY <1>1 DEF WherePart, Appended
  <2>. QED
    BY <2>1, <2>2 DEF WherePart
<1>. QED
  BY <1>2, <1>3

\* A call of Where.
LEMMA WhereKeeps ==
    ASSUME QueryInv, NEW c \in Conditions, Where(c)
    PROVE  QueryInv'
<1>0. c \in ConditionCalls /\ q \in QueryRecords /\ asked \in Asks /\ ub \in UpdateBuilders /\ mode \in Modes
  BY CallsAre DEF QueryInv, Typed
<1>1. asked' = [asked EXCEPT !.calls = @ + 1, !.where = Append(@, c)] /\ mode' = mode /\ ub' = ub
  BY DEF Where
<1>2. q.conditions \in Seq(ConditionCalls) /\ asked.where \in Seq(ConditionCalls) /\ asked.calls \in Nat
  BY <1>0 DEF QueryRecords, Asks
<1>3. Append(q.conditions, c) \in Seq(ConditionCalls) /\ Append(asked.where, c) \in Seq(ConditionCalls) /\ asked.calls + 1 \in Nat
  BY <1>0, <1>2, AppendProperties
<1>4. asked' \in Asks
  BY <1>0, <1>1, <1>3 DEF Asks
<1>5. /\ asked'.where = Append(asked.where, c) /\ asked'.filters = asked.filters
      /\ asked'.operators = asked.operators /\ asked'.writes = asked.writes
      /\ asked'.updates = asked.updates /\ asked'.updateOps = asked.updateOps /\ asked'.effects = asked.effects
  BY <1>0, <1>1 DEF Asks
<1>6. CASE rejectEncryptedConditionField(c.field)
  <2>1. q' = [q EXCEPT !.builderErr = TRUE]
    BY <1>6 DEF Where, recordBuilderError
  <2>2. q' \in QueryRecords /\ q'.builderErr
    BY <1>0, <2>1 DEF QueryRecords
  <2>3. /\ q'.conditions = q.conditions /\ q'.builder = q.builder
        /\ q'.writeConditions = q.writeConditions /\ q'.raw = q.raw
    BY <1>0, <2>1 DEF QueryRecords
  <2>4. WherePart(q'.conditions, q'.builderErr, asked'.where)
    BY <1>0, <1>2, <1>5, <2>2, <2>3, WhereMore DEF QueryInv, WherePart
  <2>5. newBuilder(q') = newBuilder(q)
    BY <2>3 DEF newBuilder
  <2>6. FilterPart(newBuilder(q'), q'.builderErr, asked'.filters, asked'.operators)
    BY <1>5, <2>2, <2>5 DEF QueryInv, FilterPart
  <2>7. WritePart(q'.writeConditions, q'.raw, q'.builderErr, asked'.writes)
    BY <1>5, <2>2, <2>3 DEF QueryInv, WritePart
  <2>. QED
    BY <1>0, <1>1, <1>4, <1>5, <2>2, <2>4, <2>6, <2>7 DEF QueryInv, Typed
<1>7. CASE ~rejectEncryptedConditionField(c.field)
  <2>1. q' = [q EXCEPT !.conditions = Append(@, c)]
    BY <1>7 DEF Where
  <2>2. q' \in QueryRecords
    BY <1>0, <1>3, <2>1 DEF QueryRecords
  <2>3. /\ q'.conditions = Append(q.conditions, c) /\ q'.builder = q.builder
        /\ q'.writeConditions = q.writeConditions /\ q'.raw = q.raw
    BY <1>0, <2>1 DEF QueryRecords
  <2>4. q'.builderErr = q.builderErr
    BY <1>0, <2>1 DEF QueryRecords
  <2>5. WherePart(q'.conditions, q'.builderErr, asked'.where)
    BY <1>0, <1>2, <1>5, <1>7, <2>3, <2>4, WhereMore DEF QueryInv
  <2>6. newBuilder(q') = newBuilder(q)
    BY <2>3 DEF newBuilder
  <2>. QED
    BY <1>0, <1>1, <1>4, <1>5, <2>2, <2>3, <2>4, <2>5, <2>6 DEF QueryInv, Typed
<1>. QED
  BY <1>6, <1>7

\* A call of Index.
LEMMA IndexKeeps ==
    ASSUME QueryInv, NEW i \in 1..Len(Indexes), Index(Indexes[i].name)
    PROVE  QueryInv'
<1>0. q \in QueryRecords /\ asked \in Asks /\ ub \in UpdateBuilders /\ mode \in Modes
  BY DEF QueryInv, Typed
<1>1. PICK x \in IndexNames : x = Indexes[i].name
  BY DEF IndexNames
<1>2. q' = [q EXCEPT !.index = x] /\ mode' = mode /\ ub' = ub /\ asked' = [asked EXCEPT !.calls = @ + 1]
  BY <1>1 DEF Index
<1>3. asked.calls + 1 \in Nat
  BY <1>0 DEF Asks
<1>4. asked' \in Asks
  BY <1>0, <1>2, <1>3 DEF Asks
<1>5. /\ asked'.where = asked.where /\ asked'.filters = asked.filters
      /\ asked'.operators = asked.operators /\ asked'.writes = asked.writes
      /\ asked'.updates = asked.updates /\ asked'.updateOps = asked.updateOps /\ asked'.effects = asked.effects
  BY <1>0, <1>2 DEF Asks
<1>6. q' \in QueryRecords
  BY <1>0, <1>2 DEF QueryRecords
<1>7. /\ q'.conditions = q.conditions /\ q'.builder = q.builder
      /\ q'.writeConditions = q.writeConditions /\ q'.raw = q.raw
  BY <1>0, <1>2 DEF QueryRecords
<1>8. q'.builderErr = q.builderErr
  BY <1>0, <1>2 DEF QueryRecords
<1>9. newBuilder(q') = newBuilder(q)
  BY <1>7 DEF newBuilder
<1>. QED
  BY <1>0, <1>2, <1>4, <1>5, <1>6, <1>7, <1>8, <1>9 DEF QueryInv, Typed

\* What holds of the elements of a sequence, and of one more.
LEMMA AllMore ==
    ASSUME NEW S, NEW s \in Seq(S), NEW t \in S, NEW item
    PROVE  AllSay(Append(s, t), item) <=> AllSay(s, item) /\ Says(t, item)
<1>1. Appended(s, t, Append(s, t), Len(s))
  BY AppendedIs
<1>2. PICK s2, N : s2 = Append(s, t) /\ N \in Nat /\ N = Len(s)
  BY LenProperties
<1>3. /\ Len(s2) = N + 1 /\ (\A i \in 1..N : s2[i] = s[i]) /\ s2[N + 1] = t
      /\ \A i \in 1..N + 1 : i \in 1..N \/ i = N + 1
      /\ 1..N \subseteq 1..N + 1 /\ N + 1 \in 1..N + 1
  BY <1>1, <1>2 DEF Appended
<1>. QED
  BY <1>2, <1>3 DEF AllSay

WriteSays(c, item) == Compare(canonical(c.op), item[c.field], c.vals)

LEMMA WritesMore ==
    ASSUME NEW S, NEW s \in Seq(S), NEW t \in S, NEW item
    PROVE  (\A i \in 1..Len(Append(s, t)) : WriteSays(Append(s, t)[i], item)) <=>
             (\A i \in 1..Len(s) : WriteSays(s[i], item)) /\ WriteSays(t, item)
<1>1. Appended(s, t, Append(s, t), Len(s))
  BY AppendedIs
<1>2. PICK s2, N : s2 = Append(s, t) /\ N \in Nat /\ N = Len(s)
  BY LenProperties
<1>3. /\ Len(s2) = N + 1 /\ (\A i \in 1..N : s2[i] = s[i]) /\ s2[N + 1] = t
      /\ \A i \in 1..N + 1 : i \in 1..N \/ i = N + 1
      /\ 1..N \subseteq 1..N + 1 /\ N + 1 \in 1..N + 1
  BY <1>1, <1>2 DEF Appended
<1>. QED
  BY <1>2, <1>3

LEMMA RawsMore ==
    ASSUME NEW S, NEW s \in Seq(S), NEW t \in S, NEW item
    PROVE  (\A i \in 1..Len(Append(s, t)) : Says(Append(s, t)[i].cond, item)) <=>
             (\A i \in 1..Len(s) : Says(s[i].cond, item)) /\ Says(t.cond, item)
<1>1. Appended(s, t, Append(s, t), Len(s))
  BY AppendedIs
<1>2. PICK s2, N : s2 = Append(s, t) /\ N \in Nat /\ N = Len(s)
  BY LenProperties
<1>3. /\ Len(s2) = N + 1 /\ (\A i \in 1..N : s2[i] = s[i]) /\ s2[N + 1] = t
      /\ \A i \in 1..N + 1 : i \in 1..N \/ i = N + 1
      /\ 1..N \subseteq 1..N + 1 /\ N + 1 \in 1..N + 1
  BY <1>1, <1>2 DEF Appended
<1>. QED
  BY <1>2, <1>3

\* One more write condition.
LEMMA WriteMore ==
    ASSUME NEW wc \in Seq(ConditionCalls), NEW raw, NEW writes \in Seq(ConditionCalls), NEW err, WritePart(wc, raw, err, writes),
           NEW w \in ConditionCalls, w.field \notin Secret, NEW c \in ConditionCalls,
           \A item \in Things : (\A i \in 1..Len(wc) : WriteSays(wc[i], item)) =>
                                    (WriteSays(w, item) <=> Says(c, item))
    PROVE  WritePart(Append(wc, w), raw, err, Append(writes, c))
<1>1. Appended(wc, w, Append(wc, w), Len(wc))
  BY AppendedIs
<1>2. \A i \in 1..Len(Append(wc, w)) : Append(wc, w)[i].field \notin Secret
  BY <1>1 DEF WritePart, Appended
<1>3. ASSUME ~err, NEW item \in Things
      PROVE  AllSay(Append(writes, c), item) <=>
               /\ \A i \in 1..Len(Append(wc, w)) : WriteSays(Append(wc, w)[i], item)
               /\ \A i \in 1..Len(raw) : Says(raw[i].cond, item)
  <2>1. AllSay(writes, item) <=> /\ \A i \in 1..Len(wc) : WriteSays(wc[i], item)
                                 /\ \A i \in 1..Len(raw) : Says(raw[i].cond, item)
    BY <1>3 DEF WritePart, WriteSays
  <2>2. AllSay(Append(writes, c), item) <=> AllSay(writes, item) /\ Says(c, item)
    BY AllMore
  <2>3. (\A i \in 1..Len(Append(wc, w)) : WriteSays(Append(wc, w)[i], item)) <=>
           (\A i \in 1..Len(wc) : WriteSays(wc[i], item)) /\ WriteSays(w, item)
    BY WritesMore
  <2>. QED
    BY <2>1, <2>2, <2>3
<1>. QED
  BY <1>2, <1>3 DEF WritePart, WriteSays

\* The query after a call that adds write conditions or raw ones.
WriteCall(c, wc, raw, err) ==
    /\ q' = [q EXCEPT !.writeConditions = wc, !.raw = raw, !.builderErr = err]
    /\ asked' = [asked EXCEPT !.calls = @ + 1, !.writes = Append(@, c)]
    /\ mode' = mode /\ ub' = ub

LEMMA WriteCallKeeps ==
    ASSUME QueryInv, NEW c \in ConditionCalls, NEW wc \in Seq(ConditionCalls), NEW raw \in Seq(Raws), NEW err \in BOOLEAN,
           WriteCall(c, wc, raw, err), q.builderErr => err,
           WritePart(wc, raw, err, Append(asked.writes, c))
    PROVE  QueryInv'
<1>0. q \in QueryRecords /\ asked \in Asks /\ ub \in UpdateBuilders /\ mode \in Modes
  BY DEF QueryInv, Typed
<1>2. asked' = [asked EXCEPT !.calls = @ + 1, !.writes = Append(@, c)] /\ mode' = mode /\ ub' = ub
  BY DEF WriteCall
<1>3. asked.calls + 1 \in Nat /\ Append(asked.writes, c) \in Seq(ConditionCalls)
  BY <1>0, AppendProperties DEF Asks
<1>4. asked' \in Asks
  BY <1>0, <1>2, <1>3 DEF Asks
<1>5. /\ asked'.where = asked.where /\ asked'.filters = asked.filters
      /\ asked'.operators = asked.operators /\ asked'.writes = Append(asked.writes, c)
      /\ asked'.updates = asked.updates /\ asked'.updateOps = asked.updateOps /\ asked'.effects = asked.effects
  BY <1>0, <1>2 DEF Asks
<1>6. q' \in QueryRecords
  BY <1>0 DEF QueryRecords, WriteCall
<1>7. /\ q'.conditions = q.conditions /\ q'.builder = q.builder
      /\ q'.writeConditions = wc /\ q'.raw = raw
  BY <1>0 DEF QueryRecords, WriteCall
<1>8. q'.builderErr = err
  BY <1>0 DEF QueryRecords, WriteCall
<1>9. newBuilder(q') = newBuilder(q)
  BY <1>7 DEF newBuilder
<1>10. FilterPart(newBuilder(q'), q'.builderErr, asked'.filters, asked'.operators)
  BY <1>5, <1>8, <1>9 DEF QueryInv, FilterPart
<1>11. WherePart(q'.conditions, q'.builderErr, asked'.where)
  BY <1>5, <1>7, <1>8 DEF QueryInv, WherePart
<1>12. WritePart(q'.writeConditions, q'.raw, q'.builderErr, asked'.writes)
  BY <1>5, <1>7, <1>8
<1>. QED
  BY <1>0, <1>2, <1>4, <1>5, <1>6, <1>10, <1>11, <1>12 DEF QueryInv, Typed

\* A call of WithCondition.
LEMMA WithConditionKeeps ==
    ASSUME QueryInv, NEW c \in Conditions, WithCondition(c)
    PROVE  QueryInv'
<1>0. c \in ConditionCalls /\ q \in QueryRecords /\ asked \in Asks
  BY CallsAre DEF QueryInv, Typed
<1>1. /\ q.writeConditions \in Seq(ConditionCalls) /\ q.raw \in Seq(Raws) /\ q.builderErr \in BOOLEAN
      /\ asked.writes \in Seq(ConditionCalls)
  BY <1>0 DEF QueryRecords, Asks
<1>2. CASE rejectEncryptedConditionField(c.field)
  <2>1. q' = [q EXCEPT !.builderErr = TRUE]
    BY <1>2 DEF WithCondition, recordBuilderError
  <2>2. q' = [q EXCEPT !.writeConditions = q.writeConditions, !.raw = q.raw, !.builderErr = TRUE]
    BY <1>0, <2>1 DEF QueryRecords
  <2>3. WriteCall(c, q.writeConditions, q.raw, TRUE)
    BY <2>2 DEF WithCondition, WriteCall
  <2>4. WritePart(q.writeConditions, q.raw, TRUE, Append(asked.writes, c))
    BY DEF QueryInv, WritePart
  <2>. QED
    BY <1>0, <1>1, <2>3, <2>4, WriteCallKeeps
<1>3. CASE ~rejectEncryptedConditionField(c.field)
  <2>0. PICK w : w = [c EXCEPT !.field = resolveAttributeName(@)]
    OBVIOUS
  <2>1. c.field \in STRING /\ resolveAttributeName(c.field) \in STRING /\ resolveAttributeName(c.field) \notin Secret
    BY <1>0, <1>3, Resolves DEF ConditionCalls
  <2>2. w \in ConditionCalls /\ w.field = resolveAttributeName(c.field) /\ w.op = c.op /\ w.vals = c.vals
    BY <1>0, <2>0, <2>1 DEF ConditionCalls
  <2>3. PICK wc \in Seq(ConditionCalls) : wc = Append(q.writeConditions, w)
    BY <1>1, <2>2, AppendProperties
  <2>4. q' = [q EXCEPT !.writeConditions = wc]
    BY <1>0, <1>3, <2>0, <2>3 DEF WithCondition, QueryRecords
  <2>5. q' = [q EXCEPT !.writeConditions = wc, !.raw = q.raw, !.builderErr = q.builderErr]
    BY <1>0, <2>4 DEF QueryRecords
  <2>6. WriteCall(c, wc, q.raw, q.builderErr)
    BY <2>5 DEF WithCondition, WriteCall
  <2>7. \A item : WriteSays(w, item) <=> Says(c, item)
    BY <2>2 DEF WriteSays, Says
  <2>8. WritePart(wc, q.raw, q.builderErr, Append(asked.writes, c))
    BY <1>0, <1>1, <2>1, <2>2, <2>3, <2>7, WriteMore DEF QueryInv
  <2>. QED
    BY <1>0, <1>1, <2>3, <2>6, <2>8, WriteCallKeeps
<1>. QED
  BY <1>2, <1>3

\* A call of WithConditionExpression.
LEMMA RawKeeps ==
    ASSUME QueryInv, NEW c \in GroupConditions, NEW p \in RawValues, WithConditionExpression(c, p)
    PROVE  QueryInv'
<1>0. c \in ConditionCalls /\ q \in QueryRecords /\ asked \in Asks
  BY CallsAre DEF QueryInv, Typed
<1>1. /\ q.writeConditions \in Seq(ConditionCalls) /\ q.raw \in Seq(Raws) /\ q.builderErr \in BOOLEAN
      /\ asked.writes \in Seq(ConditionCalls)
  BY <1>0 DEF QueryRecords, Asks
<1>2. PICK r \in Raws : r = [cond |-> c, holders |-> p]
  BY <1>0 DEF Raws
<1>3. PICK raw \in Seq(Raws) : raw = Append(q.raw, r)
  BY <1>1, <1>2, AppendProperties
<1>4. q' = [q EXCEPT !.raw = raw]
  BY <1>0, <1>2, <1>3 DEF WithConditionExpression, QueryRecords
<1>5. q' = [q EXCEPT !.writeConditions = q.writeConditions, !.raw = raw, !.builderErr = q.builderErr]
  BY <1>0, <1>4 DEF QueryRecords
<1>6. WriteCall(c, q.writeConditions, raw, q.builderErr)
  BY <1>5 DEF WithConditionExpression, WriteCall
<1>7. WritePart(q.writeConditions, raw, q.builderErr, Append(asked.writes, c))
  <2>1. ASSUME ~q.builderErr, NEW item \in Things
        PROVE  AllSay(Append(asked.writes, c), item) <=>
                 /\ \A i \in 1..Len(q.writeConditions) : WriteSays(q.writeConditions[i], item)
                 /\ \A i \in 1..Len(raw) : Says(raw[i].cond, item)
    <3>1. AllSay(asked.writes, item) <=>
                 /\ \A i \in 1..Len(q.writeConditions) : WriteSays(q.writeConditions[i], item)
                 /\ \A i \in 1..Len(q.raw) : Says(q.raw[i].cond, item)
      BY <2>1 DEF WritePart, QueryInv, WriteSays
    <3>2. AllSay(Append(asked.writes, c), item) <=> AllSay(asked.writes, item) /\ Says(c, item)
      BY <1>0, <1>1, AllMore
    <3>3. (\A i \in 1..Len(raw) : Says(raw[i].cond, item)) <=>
             (\A i \in 1..Len(q.raw) : Says(q.raw[i].cond, item)) /\ Says(r.cond, item)
      <4>1. PICK s : s = q.raw
        OBVIOUS
      <4>2. s \in Seq(Raws) /\ raw = Append(s, r) /\ r \in Raws
        BY <1>1, <1>2, <1>3, <4>1
      <4>3. (\A i \in 1..Len(Append(s, r)) : Says(Append(s, r)[i].cond, item)) <=>
               (\A i \in 1..Len(s) : Says(s[i].cond, item)) /\ Says(r.cond, item)
        BY <4>2, RawsMore
      <4>. QED
        BY <4>1, <4>2, <4>3
    <3>4. r.cond = c
      BY <1>2
    <3>. QED
      BY <3>1, <3>2, <3>3, <3>4
  <2>. QED
    BY <2>1 DEF WritePart, QueryInv, WriteSays
<1>. QED
  BY <1>0, <1>1, <1>3, <1>6, <1>7, WriteCallKeeps

\* A write condition that the others imply.
LEMMA WriteAlso ==
    ASSUME NEW wc \in Seq(ConditionCalls), NEW raw, NEW writes, NEW err, WritePart(wc, raw, err, writes),
           NEW w \in ConditionCalls, w.field \notin Secret,
           \A item \in Things : (\A i \in 1..Len(wc) : WriteSays(wc[i], item)) => WriteSays(w, item)
    PROVE  WritePart(Append(wc, w), raw, err, writes)
<1>1. Appended(wc, w, Append(wc, w), Len(wc))
  BY AppendedIs
<1>2. \A i \in 1..Len(Append(wc, w)) : Append(wc, w)[i].field \notin Secret
  BY <1>1 DEF WritePart, Appended
<1>3. ASSUME ~err, NEW item \in Things
      PROVE  AllSay(writes, item) <=>
               /\ \A i \in 1..Len(Append(wc, w)) : WriteSays(Append(wc, w)[i], item)
               /\ \A i \in 1..Len(raw) : Says(raw[i].cond, item)
  <2>1. AllSay(writes, item) <=> /\ \A i \in 1..Len(wc) : WriteSays(wc[i], item)
                                 /\ \A i \in 1..Len(raw) : Says(raw[i].cond, item)
    BY <1>3 DEF WritePart, WriteSays
  <2>2. (\A i \in 1..Len(Append(wc, w)) : WriteSays(Append(wc, w)[i], item)) <=>
           (\A i \in 1..Len(wc) : WriteSays(wc[i], item)) /\ WriteSays(w, item)
    BY WritesMore
  <2>. QED
    BY <2>1, <2>2
<1>. QED
  BY <1>2, <1>3 DEF WritePart, WriteSays

\* An item has its keys; where there is none, nothing is there.
LEMMA ItemKeys ==
    ASSUME NEW item \in Things, NEW f \in keyFields
    PROVE  item[DBName[f]] # Absent <=> item # NoItem
<1>1. f \in DOMAIN DBName
  BY KeysAre
<1>2. NoItem[DBName[f]] = Absent
  BY <1>1 DEF NoItem
<1>3. item \in Items => item[DBName[f]] # Absent
  BY CallAssumption DEF keyFields
<1>. QED
  BY <1>2, <1>3 DEF Things

\* Two elements at the end of a sequence.
LEMMA TwoMore ==
    ASSUME NEW S, NEW w \in Seq(S), NEW x \in S, NEW y \in S
    PROVE  w \o <<x, y>> = Append(Append(w, x), y)
<1>1. <<x>> \in Seq(S) /\ <<y>> \in Seq(S) /\ <<x, y>> = Append(<<x>>, y)
  OBVIOUS
<1>2. <<x, y>> = <<x>> \o <<y>>
  BY <1>1, AppendIsConcat
<1>3. Append(w, x) \in Seq(S) /\ Append(w, x) = w \o <<x>>
  BY AppendIsConcat, AppendProperties
<1>4. Append(Append(w, x), y) = (w \o <<x>>) \o <<y>>
  BY <1>3, AppendIsConcat
<1>5. (w \o <<x>>) \o <<y>> = w \o (<<x>> \o <<y>>)
  BY <1>1, ConcatAssociative
<1>. QED
  BY <1>2, <1>4, <1>5

\* A call of IfExists or IfNotExists.
LEMMA IfExistenceKeeps ==
    ASSUME QueryInv, NEW op \in {"ATTRIBUTE_EXISTS", "ATTRIBUTE_NOT_EXISTS"}, IfExistence(op)
    PROVE  QueryInv'
<1>0. q \in QueryRecords /\ asked \in Asks
  BY DEF QueryInv, Typed
<1>1. /\ q.writeConditions \in Seq(ConditionCalls) /\ q.raw \in Seq(Raws) /\ q.builderErr \in BOOLEAN
      /\ asked.writes \in Seq(ConditionCalls)
  BY <1>0 DEF QueryRecords, Asks
<1>. DEFINE on(f) == [field |-> resolveAttributeName(f), op |-> op, vals |-> <<>>]
<1>2. ASSUME NEW f \in DOMAIN DBName \ Encrypted
      PROVE  on(f) \in ConditionCalls /\ on(f).field = DBName[f] /\ on(f).op = op /\ on(f).vals = <<>> /\ on(f).field \notin Secret
  <2>1. resolveAttributeName(f) = DBName[f] /\ DBName[f] \in STRING /\ DBName[f] \notin Secret
    BY GoNames, NamesAre DEF Secret
  <2>2. op \in Words /\ <<>> \in Seq(Nat)
    BY DEF Words
  <2>. QED
    BY <2>1, <2>2 DEF ConditionCalls
<1>3. PICK c : c = [field |-> PrimaryKey.pk, op |-> op, vals |-> <<>>]
  OBVIOUS
<1>4. c \in ConditionCalls /\ c.field = PrimaryKey.pk /\ c.op = op /\ c.vals = <<>>
  <2>1. op \in Words /\ <<>> \in Seq(Nat)
    BY DEF Words
  <2>2. PrimaryKey.pk \in DOMAIN DBName
    BY KeysAre
  <2>3. PrimaryKey.pk \in STRING
    BY <2>2, NamesAre
  <2>. QED
    BY <1>3, <2>1, <2>3 DEF ConditionCalls
<1>5. PICK x : x = on(PrimaryKey.pk)
  OBVIOUS
<1>6. x \in ConditionCalls /\ x.field = DBName[PrimaryKey.pk] /\ x.op = op /\ x.vals = <<>> /\ x.field \notin Secret
  BY <1>2, <1>5, KeysAre
<1>7. \A item : WriteSays(x, item) <=> Says(c, item)
  <2>1. resolveAttributeName(c.field) = DBName[PrimaryKey.pk]
    BY <1>4, GoNames, KeysAre
  <2>. QED
    BY <1>4, <1>6, <2>1 DEF WriteSays, Says
<1>8. PICK wc \in Seq(ConditionCalls) : wc = Append(q.writeConditions, x)
  BY <1>1, <1>6, AppendProperties
<1>9. WritePart(wc, q.raw, q.builderErr, Append(asked.writes, c))
  BY <1>1, <1>4, <1>6, <1>7, <1>8, WriteMore DEF QueryInv
<1>10. /\ q' = [q EXCEPT !.writeConditions = @ \o addPrimaryKeyCondition(op)]
       /\ asked' = [asked EXCEPT !.calls = @ + 1, !.writes = Append(@, c)]
       /\ mode' = mode /\ ub' = ub
  BY <1>3 DEF IfExistence
<1>11. CASE ~(PrimaryKey.sk # "" /\ op = "ATTRIBUTE_EXISTS")
  <2>1. addPrimaryKeyCondition(op) = <<x>>
    BY <1>5, <1>11 DEF addPrimaryKeyCondition
  <2>2. q.writeConditions \o <<x>> = wc
    BY <1>1, <1>6, <1>8
  <2>3. q' = [q EXCEPT !.writeConditions = wc]
    BY <1>10, <2>1, <2>2
  <2>4. q' = [q EXCEPT !.writeConditions = wc, !.raw = q.raw, !.builderErr = q.builderErr]
    BY <1>0, <2>3 DEF QueryRecords
  <2>5. WriteCall(c, wc, q.raw, q.builderErr)
    BY <1>10, <2>4 DEF WriteCall
  <2>. QED
    BY <1>1, <1>4, <1>8, <1>9, <2>5, WriteCallKeeps
<1>12. CASE PrimaryKey.sk # "" /\ op = "ATTRIBUTE_EXISTS"
  <2>0. PICK y : y = on(PrimaryKey.sk)
    OBVIOUS
  <2>1. y \in ConditionCalls /\ y.field = DBName[PrimaryKey.sk] /\ y.op = op /\ y.vals = <<>> /\ y.field \notin Secret
    BY <1>2, <1>12, <2>0, KeysAre
  <2>2. addPrimaryKeyCondition(op) = <<x, y>>
    BY <1>5, <1>12, <2>0 DEF addPrimaryKeyCondition
  <2>3. PICK wc2 \in Seq(ConditionCalls) : wc2 = Append(wc, y)
    BY <1>8, <2>1, AppendProperties
  <2>4. q.writeConditions \o <<x, y>> = wc2
    BY <1>1, <1>6, <1>8, <2>1, <2>3, TwoMore
  <2>5. q' = [q EXCEPT !.writeConditions = wc2]
    BY <1>10, <2>2, <2>4
  <2>6. q' = [q EXCEPT !.writeConditions = wc2, !.raw = q.raw, !.builderErr = q.builderErr]
    BY <1>0, <2>5 DEF QueryRecords
  <2>7. WriteCall(c, wc2, q.raw, q.builderErr)
    BY <1>10, <2>6 DEF WriteCall
  <2>8. ASSUME NEW item \in Things, \A i \in 1..Len(wc) : WriteSays(wc[i], item) PROVE WriteSays(y, item)
    <3>1. WriteSays(x, item)
      BY <1>1, <1>6, <1>8, <2>8, WritesMore
    <3>2. canonical(op) = "EXISTS"
      BY <1>12 DEF canonical
    <3>3. item[DBName[PrimaryKey.pk]] # Absent
      BY <1>6, <3>1, <3>2 DEF WriteSays, Compare
    <3>4. PrimaryKey.pk \in keyFields /\ PrimaryKey.sk \in keyFields
      BY <1>12, KeysAre DEF keyFields
    <3>5. item[DBName[PrimaryKey.sk]] # Absent
      BY <3>3, <3>4, ItemKeys
    <3>. QED
      BY <2>1, <3>2, <3>5 DEF WriteSays, Compare
  <2>9. WritePart(wc2, q.raw, q.builderErr, Append(asked.writes, c))
    BY <1>8, <1>9, <2>1, <2>3, <2>8, WriteAlso
  <2>. QED
    BY <1>1, <1>4, <2>3, <2>7, <2>9, WriteCallKeeps
<1>. QED
  BY <1>11, <1>12

\* The operator before one more condition.
LEMMA LinkedMore ==
    ASSUME NEW S, NEW s \in Seq(S), NEW t \in S, NEW ops \in Seq(Links), NEW op \in Links, Separated(s, ops)
    PROVE  LET s2 == Append(s, t)  o2 == linked(ops, s, op) IN
           /\ o2 \in Seq(Links) /\ Separated(s2, o2)
           /\ Len(s) # 0 => o2[Len(s)] = op
           /\ \A i \in 1..Len(s) : i > 1 => o2[i - 1] = ops[i - 1]
<1>0. PICK N : N \in Nat /\ N = Len(s)
  BY LenProperties
<1>1. Appended(s, t, Append(s, t), N)
  BY <1>0, AppendedIs
<1>2. CASE N = 0
  <2>1. linked(ops, s, op) = ops
    BY <1>0, <1>2, EmptySeq DEF linked
  <2>. QED
    BY <1>0, <1>1, <1>2, <2>1 DEF Separated, Appended
<1>3. CASE N # 0
  <2>1. linked(ops, s, op) = Append(ops, op)
    BY <1>0, <1>3, EmptySeq DEF linked
  <2>2. Len(ops) = N - 1
    BY <1>0, <1>3 DEF Separated
  <2>3. Appended(ops, op, Append(ops, op), N - 1)
    BY <2>2, AppendedIs
  <2>4. Append(ops, op)[N] = op
    <3>1. (N - 1) + 1 = N
      BY <1>0
    <3>. QED
      BY <2>3, <3>1 DEF Appended
  <2>5. Len(Append(ops, op)) = N
    BY <1>0, <2>3 DEF Appended
  <2>6. Separated(Append(s, t), Append(ops, op))
    BY <1>0, <1>1, <2>5 DEF Appended, Separated
  <2>7. ASSUME NEW i \in 1..N, i > 1 PROVE Append(ops, op)[i - 1] = ops[i - 1]
    <3>1. i - 1 \in 1..N - 1
      BY <1>0, <2>7
    <3>. QED
      BY <2>3, <3>1 DEF Appended
  <2>. QED
    BY <1>0, <2>1, <2>4, <2>6, <2>7, AppendProperties
<1>. QED
  BY <1>2, <1>3

\* A call of Condition or OrCondition.
LEMMA UpdateConditionKeeps ==
    ASSUME QueryInv, NEW c \in Conditions, NEW logicOp \in Links, updateCondition(logicOp, c)
    PROVE  QueryInv'
<1>0. c \in ConditionCalls /\ q \in QueryRecords /\ asked \in Asks /\ ub \in UpdateBuilders /\ mode \in Modes
  BY CallsAre DEF QueryInv, Typed
<1>1. /\ asked.updates \in Seq(ConditionCalls) /\ asked.updateOps \in Seq(Links) /\ asked.calls \in Nat
      /\ ub.conditions \in Seq(UpdateConditions) /\ ub.buildErr \in BOOLEAN /\ ub.expr \in Builders
  BY <1>0 DEF Asks, UpdateBuilders
<1>2. PICK us \in Seq(ConditionCalls), os \in Seq(Links) :
        us = Append(asked.updates, c) /\ os = linked(asked.updateOps, asked.updates, logicOp)
  BY <1>0, <1>1, AppendProperties, LinkedIs
<1>3. asked' = [asked EXCEPT !.calls = @ + 1, !.updates = us, !.updateOps = os] /\ mode' = mode /\ q' = q
  BY <1>0, <1>2 DEF updateCondition, Asks
<1>4. asked' \in Asks
  <2>1. asked.calls + 1 \in Nat
    BY <1>1
  <2>. QED
    BY <1>0, <1>2, <1>3, <2>1 DEF Asks
<1>5. /\ asked'.where = asked.where /\ asked'.filters = asked.filters
      /\ asked'.operators = asked.operators /\ asked'.writes = asked.writes
      /\ asked'.updates = us /\ asked'.updateOps = os /\ asked'.effects = asked.effects
  BY <1>0, <1>3 DEF Asks
<1>6. /\ newBuilder(q') = newBuilder(q)
      /\ WherePart(q'.conditions, q'.builderErr, asked'.where)
      /\ WritePart(q'.writeConditions, q'.raw, q'.builderErr, asked'.writes)
      /\ FilterPart(newBuilder(q'), q'.builderErr, asked'.filters, asked'.operators)
  BY <1>3, <1>5 DEF QueryInv
<1>7. CASE ~ub.buildErr /\ rejectEncryptedConditionField(c.field)
  <2>1. ub' = [ub EXCEPT !.buildErr = TRUE]
    BY <1>7 DEF updateCondition
  <2>2. ub' \in UpdateBuilders /\ ub'.expr = ub.expr /\ ub'.conditions = ub.conditions
    BY <1>0, <2>1 DEF UpdateBuilders
  <2>3. ub'.buildErr
    BY <1>0, <2>1 DEF UpdateBuilders
  <2>4. UpdateConditionPart(ub'.conditions, ub'.buildErr, asked'.updates, asked'.updateOps)
    BY <2>3 DEF UpdateConditionPart
  <2>5. UpdatePart(ub'.expr, ub'.buildErr, asked'.effects)
    BY <1>5, <2>2, <2>3 DEF QueryInv, UpdatePart
  <2>. QED
    BY <1>0, <1>3, <1>4, <1>6, <2>2, <2>4, <2>5 DEF QueryInv, Typed
<1>8. CASE ~(~ub.buildErr /\ rejectEncryptedConditionField(c.field))
  <2>0. PICK u \in UpdateConditions : u = [cond |-> c, logicOp |-> logicOp]
    BY <1>0 DEF UpdateConditions
  <2>1. PICK cs \in Seq(UpdateConditions) : cs = Append(ub.conditions, u)
    BY <1>1, <2>0, AppendProperties
  <2>2. ub' = [ub EXCEPT !.conditions = cs]
    BY <1>0, <1>8, <2>0, <2>1 DEF updateCondition, UpdateBuilders
  <2>3. ub' \in UpdateBuilders /\ ub'.expr = ub.expr /\ ub'.conditions = cs
    BY <1>0, <2>2 DEF UpdateBuilders
  <2>4. ub'.buildErr = ub.buildErr
    BY <1>0, <2>2 DEF UpdateBuilders
  <2>5. UpdatePart(ub'.expr, ub'.buildErr, asked'.effects)
    BY <1>5, <2>3, <2>4 DEF QueryInv
  <2>6. ASSUME ~ub.buildErr
        PROVE  /\ Len(cs) = Len(us)
               /\ \A i \in 1..Len(us) : /\ cs[i].cond = us[i]
                                        /\ ~rejectEncryptedConditionField(us[i].field)
                                        /\ i > 1 => os[i - 1] = cs[i].logicOp
               /\ Separated(us, os)
    <3>1. /\ Len(ub.conditions) = Len(asked.updates)
          /\ \A i \in 1..Len(asked.updates) : /\ ub.conditions[i].cond = asked.updates[i]
                                              /\ ~rejectEncryptedConditionField(asked.updates[i].field)
                                              /\ i > 1 => asked.updateOps[i - 1] = ub.conditions[i].logicOp
          /\ Separated(asked.updates, asked.updateOps)
      BY <2>6 DEF QueryInv, UpdateConditionPart
    <3>2. PICK N : N \in Nat /\ N = Len(asked.updates)
      BY <1>1, LenProperties
    <3>3. Appended(asked.updates, c, us, N) /\ Appended(ub.conditions, u, cs, N)
      BY <1>0, <1>1, <1>2, <2>0, <2>1, <3>1, <3>2, AppendedIs
    <3>4. /\ Separated(us, os) /\ N # 0 => os[N] = logicOp
          /\ \A i \in 1..N : i > 1 => os[i - 1] = asked.updateOps[i - 1]
      BY <1>0, <1>1, <1>2, <3>1, <3>2, LinkedMore
    <3>5. Separated(us, os) /\ (N # 0 => os[N] = logicOp)
      BY <1>0, <1>1, <1>2, <3>1, <3>2, LinkedMore
    <3>6. ~rejectEncryptedConditionField(c.field)
      BY <1>8, <2>6
    <3>7. ASSUME NEW i \in 1..N + 1
          PROVE  /\ cs[i].cond = us[i]
                 /\ ~rejectEncryptedConditionField(us[i].field)
                 /\ i > 1 => os[i - 1] = cs[i].logicOp
      <4>1. CASE i = N + 1
        <5>1. us[i] = c /\ cs[i] = u /\ u.cond = c /\ u.logicOp = logicOp
          BY <2>0, <3>3, <4>1 DEF Appended
        <5>2. i > 1 => N # 0 /\ i - 1 = N
          BY <3>2, <4>1
        <5>. QED
          BY <3>5, <3>6, <5>1, <5>2
      <4>2. CASE i \in 1..N
        BY <3>1, <3>2, <3>3, <3>4, <4>2 DEF Appended
      <4>. QED
        BY <3>3, <4>1, <4>2 DEF Appended
    <3>. QED
      BY <3>3, <3>5, <3>7 DEF Appended
  <2>7. UpdateConditionPart(ub'.conditions, ub'.buildErr, asked'.updates, asked'.updateOps)
    BY <1>5, <2>3, <2>4, <2>6 DEF UpdateConditionPart
  <2>. QED
    BY <1>0, <1>3, <1>4, <1>6, <2>3, <2>5, <2>7 DEF QueryInv, Typed
<1>. QED
  BY <1>7, <1>8

\* A group of one says what its condition says.
LEMMA OneSays ==
    ASSUME NEW c, NEW g, g.group = <<c>>, NEW item
    PROVE  GroupSays(g, item) <=> Says(c, item)
<1>1. PICK h : h = [i \in 1..1 |-> Says(c, item)]
  OBVIOUS
<1>2. Len(g.group) = 1 /\ g.group[1] = c
  OBVIOUS
<1>3. [i \in 1..Len(g.group) |-> Says(g.group[i], item)] = h
  BY <1>1, <1>2
<1>4. Len(h) = 1 /\ h[1] = Says(c, item)
  BY <1>1
<1>5. AndOr(h, g.operators) <=> h[1]
  BY <1>4 DEF AndOr
<1>. QED
  BY <1>3, <1>4, <1>5 DEF GroupSays

\* A term means the same wherever its placeholders do.
LEMMA TermKept ==
    ASSUME NEW b, NEW b2, Kept(b, b2), NEW t, NEW item, AllGround(b, t)
    PROVE  termHolds(t, b2, item) = termHolds(t, b, item)
<1>1. ASSUME NEW u, Grounds(b, u)
      PROVE  simpleHolds(u, b2, item) = simpleHolds(u, b, item)
  <2>1. b2.names[u.name] = b.names[u.name]
    BY <1>1 DEF Kept, Grounds
  <2>2. [j \in 1..Len(u.vals) |-> b2.values[u.vals[j]]] = [j \in 1..Len(u.vals) |-> b.values[u.vals[j]]]
    BY <1>1 DEF Kept, Grounds
  <2>. QED
    BY <2>1, <2>2 DEF simpleHolds
<1>2. CASE t.op # "GROUP"
  BY <1>1, <1>2 DEF termHolds, AllGround
<1>3. CASE t.op = "GROUP"
  <2>1. [i \in 1..Len(t.terms) |-> simpleHolds(t.terms[i], b2, item)]
          = [i \in 1..Len(t.terms) |-> simpleHolds(t.terms[i], b, item)]
    BY <1>1, <1>3 DEF AllGround
  <2>. QED
    BY <1>3, <2>1 DEF termHolds
<1>. QED
  BY <1>2, <1>3

\* All but the error is as it was.
Cleared(b, b3) ==
    /\ b3 \in Builders /\ ~b3.err
    /\ b3.names = b.names /\ b3.values = b.values
    /\ b3.nameCounter = b.nameCounter /\ b3.valueCounter = b.valueCounter
    /\ \A L \in Lists : ListOf(b3, L) = ListOf(b, L) /\ LinksOf(b3, L) = LinksOf(b, L)

LEMMA ClearedIs ==
    ASSUME NEW b \in Builders
    PROVE  Cleared(b, [b EXCEPT !.err = FALSE])
<1>1. PICK b3 : b3 = [b EXCEPT !.err = FALSE]
  OBVIOUS
<1>2. b3 \in Builders
  BY <1>1 DEF Builders
<1>3. ~b3.err
  BY <1>1 DEF Builders
<1>4. /\ b3.names = b.names /\ b3.values = b.values
      /\ b3.nameCounter = b.nameCounter /\ b3.valueCounter = b.valueCounter
  BY <1>1 DEF Builders
<1>5. \A L \in Lists : ListOf(b3, L) = ListOf(b, L) /\ LinksOf(b3, L) = LinksOf(b, L)
  BY <1>1 DEF Builders, ListOf, LinksOf
<1>. QED
  BY <1>1, <1>2, <1>3, <1>4, <1>5 DEF Cleared

\* The lists by their names.
LEMMA ListNames ==
    ASSUME NEW b
    PROVE  /\ ListOf(b, "keyConditions") = b.keyConditions
           /\ ListOf(b, "filterConditions") = b.filterConditions
           /\ ListOf(b, "conditions") = b.conditions /\ ListOf(b, "updates") = b.updates
           /\ LinksOf(b, "filterConditions") = b.filterOperators
           /\ LinksOf(b, "conditions") = b.conditionOperators
           /\ "keyConditions" \in Lists /\ "filterConditions" \in Lists
           /\ "conditions" \in Lists /\ "updates" \in Lists
           /\ "filterConditions" \in Chained /\ "conditions" \in Chained
BY DEF ListOf, LinksOf, Lists, Chained

FilterClause(link, c) ==
    [to |-> "filterConditions", link |-> link, name |-> resolveAttributeName(c.field), op |-> c.op, vals |-> c.vals]

\* What a call of Filter does to a builder.
Filtered(b, b2, link, c) ==
    /\ FilterClause(link, c) \in Clauses
    /\ b2 \in Builders /\ NamesGrow(b, b2, resolveAttributeName(c.field))
    /\ Fresh(b) => Fresh(b2) /\ Kept(b, b2)
    /\ b.err => b2.err
    /\ b2.keyConditions = b.keyConditions
    /\ \/ /\ b2.filterConditions = b.filterConditions /\ b2.filterOperators = b.filterOperators
          /\ b2.err
       \/ \E t \in Terms : /\ Stands(b2, t, FilterClause(link, c))
                           /\ b2.filterConditions = Append(b.filterConditions, t)
                           /\ b2.filterOperators = linked(b.filterOperators, b.filterConditions, link)

LEMMA FilteredIs ==
    ASSUME NEW b \in Builders, NEW c \in ConditionCalls, NEW link \in Links
    PROVE  Filtered(b, withFilter(b, link, c), link, c)
<1>1. PICK cl, b2 : cl = FilterClause(link, c) /\ b2 = withFilter(b, link, c)
  OBVIOUS
<1>2. c.field \in STRING /\ c.op \in Words /\ c.vals \in Seq(Nat) /\ resolveAttributeName(c.field) \in STRING
  BY Resolves DEF ConditionCalls
<1>3. /\ cl \in Clauses /\ cl.to = "filterConditions" /\ cl.link = link
      /\ cl.name = resolveAttributeName(c.field) /\ cl.op = c.op /\ cl.vals = c.vals
  BY <1>1, <1>2 DEF FilterClause, Clauses, Lists
<1>4. b2 = addClause(b, cl)
  BY <1>1, <1>3 DEF withFilter, addClause
<1>5. OneClause(b, b2, cl)
  BY <1>3, <1>4, ClauseAdded
<1>6. ListStep(b, b2, cl, "filterConditions") /\ ListStep(b, b2, cl, "keyConditions") /\ (b.err => b2.err)
  BY <1>3, <1>5, StepIs, ListNames
<1>7. b2 \in Builders /\ NamesGrow(b, b2, cl.name) /\ (Fresh(b) => Fresh(b2) /\ Kept(b, b2))
  BY <1>5 DEF OneClause
<1>8. b2.keyConditions = b.keyConditions
  BY <1>3, <1>6, ListNames DEF ListStep
<1>9. \/ /\ b2.filterConditions = b.filterConditions /\ b2.filterOperators = b.filterOperators
         /\ b2.err
      \/ \E t \in Terms : /\ Stands(b2, t, cl)
                          /\ b2.filterConditions = Append(b.filterConditions, t)
                          /\ b2.filterOperators = linked(b.filterOperators, b.filterConditions, link)
  <2>1. CASE b2.filterConditions = b.filterConditions /\ b2.filterOperators = b.filterOperators /\ b2.err
    BY <2>1
  <2>2. CASE ~(b2.filterConditions = b.filterConditions /\ b2.filterOperators = b.filterOperators /\ b2.err)
    <3>1. PICK t \in AnyTerms : Stands(b2, t, cl) /\ b2.filterConditions = Append(b.filterConditions, t)
      BY <1>3, <1>6, <2>2, ListNames DEF ListStep
    <3>2. b2.filterOperators = linked(b.filterOperators, b.filterConditions, link)
      BY <1>3, <1>6, <2>2, ListNames DEF ListStep
    <3>3. t \in Terms
      <4>1. t.op = canonical(cl.op)
        BY <1>3, <3>1 DEF Stands
      <4>2. t.op # "GROUP"
        BY <4>1, CanonicalIs DEF Operators
      <4>3. t \in Terms \cup GroupTerms
        <5>1. PICK s : s = b.filterConditions /\ s \in Seq(AnyTerms) /\ s \in Seq(Terms \cup GroupTerms)
          BY ListsAre, ListNames DEF Builders
        <5>2. Appended(s, t, b2.filterConditions, Len(s))
          BY <3>1, <5>1, AppendedIs
        <5>3. b2.filterConditions \in Seq(Terms \cup GroupTerms)
          BY <1>7 DEF Builders
        <5>4. PICK N : N \in Nat /\ N = Len(s)
          BY <5>1, LenProperties
        <5>5. N + 1 \in 1..Len(b2.filterConditions) /\ b2.filterConditions[N + 1] = t
          BY <5>2, <5>4 DEF Appended
        <5>. QED
          BY <5>3, <5>5, ElementOfSeq
      <4>. QED
        BY <4>2, <4>3 DEF GroupTerms
    <3>. QED
      BY <3>1, <3>2, <3>3
  <2>. QED
    BY <2>1, <2>2
<1>. QED
  BY <1>1, <1>3, <1>6, <1>7, <1>8, <1>9 DEF Filtered

\* Terms stay grounded.
LEMMA GroundStays ==
    ASSUME NEW b, NEW b2, NEW t, AllGround(b, t),
           DOMAIN b.names \subseteq DOMAIN b2.names, DOMAIN b.values \subseteq DOMAIN b2.values
    PROVE  AllGround(b2, t)
BY DEF AllGround, Grounds

LEMMA PlainMore ==
    ASSUME NEW filters \in Seq(Filters), NEW f \in Filters
    PROVE  /\ Append(filters, f) # <<>> /\ Append(filters, f) \in Seq(Filters)
           /\ Plain(Append(filters, f)) <=> Plain(filters) /\ ~f.grouped
           /\ Len(Append(filters, f)) <= 1 => filters = <<>>
<1>1. Appended(filters, f, Append(filters, f), Len(filters))
  BY AppendedIs
<1>2. PICK s2, N : s2 = Append(filters, f) /\ N \in Nat /\ N = Len(filters)
  BY LenProperties
<1>3. /\ Len(s2) = N + 1 /\ (\A i \in 1..N : s2[i] = filters[i]) /\ s2[N + 1] = f
      /\ \A i \in 1..N + 1 : i \in 1..N \/ i = N + 1
      /\ 1..N \subseteq 1..N + 1 /\ N + 1 \in 1..N + 1
  BY <1>1, <1>2 DEF Appended
<1>4. Plain(s2) <=> Plain(filters) /\ ~f.grouped
  BY <1>2, <1>3 DEF Plain
<1>5. Len(s2) <= 1 => filters = <<>>
  BY <1>2, <1>3, EmptySeq
<1>6. s2 # <<>> /\ s2 \in Seq(Filters)
  BY <1>2, <1>3, AppendProperties
<1>. QED
  BY <1>2, <1>4, <1>5, <1>6

\* One more filter.
LEMMA FilterMore ==
    ASSUME NEW b, NEW err \in BOOLEAN, NEW filters \in Seq(Filters), NEW operators \in Seq(Links),
           FilterPart(b, err, filters, operators),
           NEW c \in ConditionCalls, ~rejectEncryptedConditionField(c.field), NEW link \in Links,
           NEW f \in Filters, f.group = <<c>>, ~f.grouped,
           NEW b2, b2 = withFilter(b, link, c), NEW b3, b3 = [b2 EXCEPT !.err = FALSE]
    PROVE  FilterPart(b3, err \/ b2.err, Append(filters, f), linked(operators, filters, link))
<1>0. b \in Builders /\ c.field \in STRING /\ resolveAttributeName(c.field) \notin Secret
  BY Resolves DEF FilterPart, ConditionCalls
<1>1. Filtered(b, b2, link, c)
  BY <1>0, FilteredIs
<1>2. b2 \in Builders /\ Cleared(b2, b3)
  BY <1>1, ClearedIs DEF Filtered
<1>3. /\ b3 \in Builders /\ ~b3.err /\ b3.names = b2.names /\ b3.values = b2.values
      /\ b3.keyConditions = b2.keyConditions /\ b3.filterConditions = b2.filterConditions
      /\ b3.filterOperators = b2.filterOperators
  BY <1>2, ListNames DEF Cleared
<1>4. PICK cl : cl = FilterClause(link, c)
  OBVIOUS
<1>5. PICK s, s3, l, l3 : /\ s = b.filterConditions /\ s3 = b3.filterConditions
                          /\ l = b.filterOperators /\ l3 = b3.filterOperators
  OBVIOUS
<1>6. s \in Seq(Terms \cup GroupTerms) /\ l \in Seq(Links) /\ Separated(s, l)
  BY <1>0, <1>5 DEF Builders, FilterPart
<1>7. Kept(b2, b3) /\ (Fresh(b2) => Fresh(b3))
  BY <1>2 DEF Cleared, Kept, Fresh
<1>8. DOMAIN b.names \subseteq DOMAIN b3.names /\ DOMAIN b.values \subseteq DOMAIN b3.values
  BY <1>1, <1>3 DEF Filtered, NamesGrow
<1>9. Clear(b3)
  BY <1>0, <1>1, <1>3 DEF Filtered, NamesGrow, Clear, FilterPart
<1>10. \A i \in 1..Len(s) : AllGround(b3, s[i])
  BY <1>5, <1>8, GroundStays DEF FilterPart, Grounded
<1>11. Plain(Append(filters, f)) => Plain(filters)
  BY PlainMore
<1>12. Plain(filters) => Fresh(b) /\ Fresh(b3) /\ Kept(b, b3)
  <2>1. Plain(filters) => Fresh(b) /\ Fresh(b2) /\ Kept(b, b2)
    BY <1>1 DEF Filtered, FilterPart
  <2>. QED
    BY <1>7, <2>1 DEF Kept
<1>13. b3.keyConditions = <<>> /\ Append(filters, f) # <<>>
  BY <1>1, <1>3, PlainMore DEF Filtered, FilterPart
<1>14. CASE s3 = s /\ l3 = l /\ b2.err
  BY <1>3, <1>5, <1>6, <1>9, <1>10, <1>11, <1>12, <1>13, <1>14 DEF FilterPart, Grounded
<1>15. CASE ~(s3 = s /\ l3 = l /\ b2.err)
  <2>1. PICK t \in Terms : /\ Stands(b2, t, cl) /\ s3 = Append(s, t) /\ l3 = linked(l, s, link)
    BY <1>1, <1>3, <1>4, <1>5, <1>15 DEF Filtered
  <2>2. t \in Terms \cup GroupTerms /\ Stands(b3, t, cl)
    BY <1>7, <2>1, StandsKept
  <2>3. PICK N : N \in Nat /\ N = Len(s)
    BY <1>6, LenProperties
  <2>4. Appended(s, t, s3, N)
    BY <1>6, <2>1, <2>2, <2>3, AppendedIs
  <2>5. Separated(s3, l3)
    BY <1>6, <2>1, <2>2, LinkedMore
  <2>6. cl \in Clauses /\ cl.to = "filterConditions"
    BY <1>1, <1>4 DEF Filtered, FilterClause
  <2>7. AllGround(b3, t)
    <3>1. t.op # "GROUP"
      BY <2>1 DEF Terms, Operators
    <3>2. Grounds(b3, t)
      BY <2>2 DEF Stands, Refers, Grounds
    <3>. QED
      BY <3>1, <3>2 DEF AllGround
  <2>8. Grounded(b3)
    BY <1>5, <1>10, <2>3, <2>4, <2>7 DEF Grounded, Appended
  <2>9. ASSUME ~(err \/ b2.err), Plain(Append(filters, f)) \/ Len(Append(filters, f)) <= 1
        PROVE  FiltersMean(b3, Append(filters, f), linked(operators, filters, link))
    <3>1. Plain(filters)
      <4>1. filters = <<>> => Plain(filters)
        BY DEF Plain
      <4>. QED
        BY <1>11, <2>9, <4>1, PlainMore
    <3>2. FiltersMean(b, filters, operators)
      BY <2>9, <3>1 DEF FilterPart
    <3>3. Kept(b, b3)
      BY <1>12, <3>1
    <3>4. Len(filters) = N /\ l = operators
      BY <1>5, <2>3, <3>2 DEF FiltersMean
    <3>5. Appended(filters, f, Append(filters, f), N)
      BY <3>4, AppendedIs
    <3>6. l3 = linked(operators, filters, link)
      <4>1. s = <<>> <=> filters = <<>>
        BY <1>6, <2>3, <3>4, EmptySeq
      <4>. QED
        BY <2>1, <3>4, <4>1 DEF linked
    <3>7. ASSUME NEW item \in Items, NEW i \in 1..N + 1
          PROVE  termHolds(s3[i], b3, item) <=> GroupSays(Append(filters, f)[i], item)
      <4>1. CASE i = N + 1
        <5>1. termHolds(t, b3, item) = ClauseSays(cl, item)
          BY <2>2, <2>6, TermMeans
        <5>2. ClauseSays(cl, item) = Says(c, item)
          BY <1>4 DEF ClauseSays, Says, FilterClause
        <5>3. GroupSays(f, item) <=> Says(c, item)
          BY OneSays
        <5>4. s3[i] = t /\ Append(filters, f)[i] = f
          BY <2>4, <3>5, <4>1 DEF Appended
        <5>. QED
          BY <5>1, <5>2, <5>3, <5>4
      <4>2. CASE i \in 1..N
        <5>1. s3[i] = s[i] /\ Append(filters, f)[i] = filters[i]
          BY <2>4, <3>5, <4>2 DEF Appended
        <5>2. AllGround(b, s[i])
          BY <1>5, <2>3, <4>2 DEF FilterPart, Grounded
        <5>3. termHolds(s[i], b3, item) = termHolds(s[i], b, item)
          BY <3>3, <5>2, TermKept
        <5>4. termHolds(s[i], b, item) <=> GroupSays(filters[i], item)
          BY <1>5, <3>2, <3>4, <4>2 DEF FiltersMean
        <5>. QED
          BY <5>1, <5>3, <5>4
      <4>. QED
        BY <3>5, <4>1, <4>2 DEF Appended
    <3>8. Len(s3) = N + 1 /\ Len(Append(filters, f)) = N + 1
      BY <2>4, <3>5 DEF Appended
    <3>. QED
      BY <1>5, <3>6, <3>7, <3>8 DEF FiltersMean
  <2>. QED
    BY <1>3, <1>5, <1>9, <1>11, <1>12, <1>13, <2>5, <2>8, <2>9 DEF FilterPart
<1>. QED
  BY <1>14, <1>15

\* The query after a call that adds a filter.
FilterCall(link, f, b, err) ==
    /\ q' = [q EXCEPT !.builder = b, !.builderErr = err]
    /\ asked' = [asked EXCEPT !.calls = @ + 1, !.filters = Append(@, f),
                              !.operators = linked(@, asked.filters, link)]
    /\ mode' = mode /\ ub' = ub

LEMMA FilterCallKeeps ==
    ASSUME QueryInv, NEW link \in Links, NEW f \in Filters, NEW b \in Builders \cup {NoBuilder}, NEW err \in BOOLEAN,
           FilterCall(link, f, b, err), q.builderErr => err,
           FilterPart(IF b = NoBuilder THEN EmptyBuilder ELSE b, err, Append(asked.filters, f),
                      linked(asked.operators, asked.filters, link))
    PROVE  QueryInv'
<1>0. q \in QueryRecords /\ asked \in Asks /\ ub \in UpdateBuilders /\ mode \in Modes
  BY DEF QueryInv, Typed
<1>1. PICK fs \in Seq(Filters), os \in Seq(Links) :
        fs = Append(asked.filters, f) /\ os = linked(asked.operators, asked.filters, link)
  BY <1>0, AppendProperties, LinkedIs DEF Asks
<1>2. asked' = [asked EXCEPT !.calls = @ + 1, !.filters = fs, !.operators = os] /\ mode' = mode /\ ub' = ub
  BY <1>0, <1>1 DEF FilterCall, Asks
<1>3. asked.calls + 1 \in Nat
  BY <1>0 DEF Asks
<1>4. asked' \in Asks
  BY <1>0, <1>1, <1>2, <1>3 DEF Asks
<1>5. /\ asked'.where = asked.where /\ asked'.filters = fs
      /\ asked'.operators = os /\ asked'.writes = asked.writes
      /\ asked'.updates = asked.updates /\ asked'.updateOps = asked.updateOps /\ asked'.effects = asked.effects
  BY <1>0, <1>2 DEF Asks
<1>6. q' \in QueryRecords
  BY <1>0 DEF QueryRecords, FilterCall
<1>7. /\ q'.conditions = q.conditions /\ q'.builder = b
      /\ q'.writeConditions = q.writeConditions /\ q'.raw = q.raw
  BY <1>0 DEF QueryRecords, FilterCall
<1>8. q'.builderErr = err
  BY <1>0 DEF QueryRecords, FilterCall
<1>9. newBuilder(q') = IF b = NoBuilder THEN EmptyBuilder ELSE b
  BY <1>7 DEF newBuilder
<1>10. FilterPart(newBuilder(q'), q'.builderErr, asked'.filters, asked'.operators)
  BY <1>1, <1>5, <1>8, <1>9
<1>11. WherePart(q'.conditions, q'.builderErr, asked'.where)
  BY <1>5, <1>7, <1>8 DEF QueryInv, WherePart
<1>12. WritePart(q'.writeConditions, q'.raw, q'.builderErr, asked'.writes)
  BY <1>5, <1>7, <1>8 DEF QueryInv, WritePart
<1>. QED
  BY <1>0, <1>2, <1>4, <1>5, <1>6, <1>10, <1>11, <1>12 DEF QueryInv, Typed

\* A call of Filter or OrFilter.
LEMMA FilterKeeps ==
    ASSUME QueryInv, NEW c \in Conditions, NEW link \in Links, addFilter(link, c)
    PROVE  QueryInv'
<1>0. c \in ConditionCalls /\ q \in QueryRecords /\ asked \in Asks /\ q.builderErr \in BOOLEAN
  BY CallsAre DEF QueryInv, Typed, QueryRecords
<1>1. PICK f : f = [group |-> <<c>>, operators |-> <<>>, grouped |-> FALSE]
  OBVIOUS
<1>2. f \in Filters /\ f.group = <<c>> /\ ~f.grouped
  BY <1>0, <1>1 DEF Filters
<1>3. asked.filters \in Seq(Filters) /\ asked.operators \in Seq(Links)
  BY <1>0 DEF Asks
<1>4. /\ asked' = [asked EXCEPT !.calls = @ + 1, !.filters = Append(@, f),
                                !.operators = linked(@, asked.filters, link)]
      /\ mode' = mode /\ ub' = ub
  BY <1>1 DEF addFilter, askFilter
<1>5. PICK b : b = newBuilder(q)
  OBVIOUS
<1>6. FilterPart(b, q.builderErr, asked.filters, asked.operators)
  BY <1>5 DEF QueryInv
<1>7. CASE rejectEncryptedConditionField(c.field)
  <2>1. q' = [q EXCEPT !.builderErr = TRUE]
    BY <1>7 DEF addFilter, recordBuilderError
  <2>2. q' = [q EXCEPT !.builder = q.builder, !.builderErr = TRUE]
    BY <1>0, <2>1 DEF QueryRecords
  <2>3. FilterCall(link, f, q.builder, TRUE)
    BY <1>4, <2>2 DEF FilterCall
  <2>4. q.builder \in Builders \cup {NoBuilder} /\ b = IF q.builder = NoBuilder THEN EmptyBuilder ELSE q.builder
    BY <1>0, <1>5 DEF QueryRecords, newBuilder
  <2>5. FilterPart(b, TRUE, Append(asked.filters, f), linked(asked.operators, asked.filters, link))
    BY <1>2, <1>3, <1>6, PlainMore DEF FilterPart
  <2>. QED
    BY <1>2, <2>3, <2>4, <2>5, FilterCallKeeps
<1>8. CASE ~rejectEncryptedConditionField(c.field)
  <2>0. PICK b2, b3 : b2 = withFilter(b, link, c) /\ b3 = [b2 EXCEPT !.err = FALSE]
    OBVIOUS
  <2>1. q' = [q EXCEPT !.builder = b3, !.builderErr = @ \/ b2.err]
    BY <1>5, <1>8, <2>0 DEF addFilter, keepBuilder
  <2>2. b \in Builders
    BY <1>6 DEF FilterPart
  <2>3. b2 \in Builders
    BY <1>0, <2>0, <2>2, FilteredIs DEF Filtered
  <2>4. b3 \in Builders /\ b2.err \in BOOLEAN
    BY <2>0, <2>3 DEF Builders
  <2>5. PICK err \in BOOLEAN : err = (q.builderErr \/ b2.err)
    BY <1>0, <2>4
  <2>6. q' = [q EXCEPT !.builder = b3, !.builderErr = err]
    BY <1>0, <2>1, <2>5 DEF QueryRecords
  <2>7. FilterPart(b3, q.builderErr \/ b2.err, Append(asked.filters, f), linked(asked.operators, asked.filters, link))
    BY <1>0, <1>2, <1>3, <1>6, <1>8, <2>0, FilterMore
  <2>8. FilterPart(b3, err, Append(asked.filters, f), linked(asked.operators, asked.filters, link))
    BY <2>5, <2>7
  <2>9. FilterCall(link, f, b3, err) /\ (q.builderErr => err)
    BY <1>4, <2>5, <2>6 DEF FilterCall
  <2>10. (IF b3 = NoBuilder THEN EmptyBuilder ELSE b3) = b3
    BY <2>4, BuilderIsNot
  <2>. QED
    BY <1>2, <2>4, <2>8, <2>9, <2>10, FilterCallKeeps
<1>. QED
  BY <1>7, <1>8

\* The builder of a group: plain terms only, that mean the conditions cs unless one
\* of them was refused.
GroupOf(b, cs, lost) ==
    /\ b \in Builders /\ Fresh(b) /\ Clear(b)
    /\ b.filterConditions \in Seq(Terms)
    /\ \A i \in 1..Len(b.filterConditions) : AllGround(b, b.filterConditions[i])
    /\ lost \/ b.err \/
          /\ Len(b.filterConditions) = Len(cs)
          /\ \A i \in 1..Len(cs) : \A item : termHolds(b.filterConditions[i], b, item) = Says(cs[i], item)

LEMMA GroupMore ==
    ASSUME NEW b, NEW cs \in Seq(ConditionCalls), NEW lost \in BOOLEAN, GroupOf(b, cs, lost),
           NEW c \in ConditionCalls, ~rejectEncryptedConditionField(c.field), NEW link \in Links,
           NEW b2, b2 = withFilter(b, link, c)
    PROVE  /\ GroupOf(b2, Append(cs, c), lost)
           /\ b.err => b2.err
           /\ b2.err \/ b2.filterOperators = linked(b.filterOperators, b.filterConditions, link)
<1>0. b \in Builders /\ c.field \in STRING /\ resolveAttributeName(c.field) \notin Secret
  BY Resolves DEF GroupOf, ConditionCalls
<1>1. Filtered(b, b2, link, c)
  BY <1>0, FilteredIs
<1>2. b2 \in Builders /\ Fresh(b2) /\ Kept(b, b2) /\ (b.err => b2.err)
  BY <1>1 DEF Filtered, GroupOf
<1>3. DOMAIN b.names \subseteq DOMAIN b2.names /\ DOMAIN b.values \subseteq DOMAIN b2.values
  BY <1>1 DEF Filtered, NamesGrow
<1>4. Clear(b2)
  BY <1>0, <1>1 DEF Filtered, NamesGrow, Clear, GroupOf
<1>5. PICK s, s2, cl : s = b.filterConditions /\ s2 = b2.filterConditions /\ cl = FilterClause(link, c)
  OBVIOUS
<1>6. s \in Seq(Terms) /\ \A i \in 1..Len(s) : AllGround(b, s[i]) /\ AllGround(b2, s[i])
  BY <1>3, <1>5, GroundStays DEF GroupOf
<1>7. CASE s2 = s /\ b2.err
  BY <1>2, <1>4, <1>5, <1>6, <1>7 DEF GroupOf
<1>8. CASE ~(s2 = s /\ b2.err)
  <2>1. PICK t \in Terms : Stands(b2, t, cl) /\ s2 = Append(s, t)
    BY <1>1, <1>5, <1>8 DEF Filtered
  <2>2. b2.filterOperators = linked(b.filterOperators, b.filterConditions, link)
    BY <1>1, <1>5, <1>8 DEF Filtered
  <2>3. PICK N : N \in Nat /\ N = Len(s)
    BY <1>6, LenProperties
  <2>4. Appended(s, t, s2, N) /\ s2 \in Seq(Terms)
    BY <1>6, <2>1, <2>3, AppendedIs, AppendProperties
  <2>5. cl \in Clauses /\ cl.to = "filterConditions"
    BY <1>1, <1>5 DEF Filtered, FilterClause
  <2>6. t.op # "GROUP"
    BY <2>1 DEF Terms, Operators
  <2>7. AllGround(b2, t)
    BY <2>1, <2>6 DEF Stands, Refers, Grounds, AllGround
  <2>8. \A i \in 1..Len(s2) : AllGround(b2, s2[i])
    BY <1>6, <2>3, <2>4, <2>7 DEF Appended
  <2>9. ASSUME ~lost, ~b2.err
        PROVE  /\ Len(s2) = Len(Append(cs, c))
               /\ \A i \in 1..Len(Append(cs, c)) : \A item : termHolds(s2[i], b2, item) = Says(Append(cs, c)[i], item)
    <3>1. /\ N = Len(cs)
          /\ \A i \in 1..Len(cs) : \A item : termHolds(s[i], b, item) = Says(cs[i], item)
      BY <1>2, <1>5, <2>3, <2>9 DEF GroupOf
    <3>2. Appended(cs, c, Append(cs, c), N)
      BY <3>1, AppendedIs
    <3>3. ASSUME NEW i \in 1..N + 1, NEW item PROVE termHolds(s2[i], b2, item) = Says(Append(cs, c)[i], item)
      <4>1. CASE i = N + 1
        <5>1. termHolds(t, b2, item) = ClauseSays(cl, item)
          BY <2>1, <2>5, TermMeans
        <5>2. ClauseSays(cl, item) = Says(c, item)
          BY <1>5 DEF ClauseSays, Says, FilterClause
        <5>3. s2[i] = t /\ Append(cs, c)[i] = c
          BY <2>4, <3>2, <4>1 DEF Appended
        <5>. QED
          BY <5>1, <5>2, <5>3
      <4>2. CASE i \in 1..N
        <5>1. s2[i] = s[i] /\ Append(cs, c)[i] = cs[i]
          BY <2>4, <3>2, <4>2 DEF Appended
        <5>2. termHolds(s[i], b2, item) = termHolds(s[i], b, item)
          BY <1>2, <1>6, <2>3, <4>2, TermKept
        <5>. QED
          BY <3>1, <4>2, <5>1, <5>2
      <4>. QED
        BY <3>2, <4>1, <4>2 DEF Appended
    <3>. QED
      BY <2>4, <3>2, <3>3 DEF Appended
  <2>. QED
    BY <1>2, <1>4, <1>5, <2>2, <2>4, <2>8, <2>9 DEF GroupOf
<1>. QED
  BY <1>7, <1>8

LEMMA TwoIs ==
    ASSUME NEW S, NEW x \in S, NEW y \in S
    PROVE  <<x>> \in Seq(S) /\ Append(<<x>>, y) = <<x, y>>
<1>1. <<x>> \in Seq(S)
  OBVIOUS
<1>2. <<x, y>> = Append(<<x>>, y)
  OBVIOUS
<1>. QED
  BY <1>1, <1>2

\* A refused condition adds nothing, and is known to be lost.
GroupStep(b, cs, lost, link, c, b2, lost2) ==
    /\ cs \in Seq(ConditionCalls) /\ lost \in BOOLEAN /\ lost2 \in BOOLEAN
    /\ GroupOf(b, cs, lost)
    /\ c \in ConditionCalls /\ link \in Links
    /\ b2 = withGroupFilter(b, link, c)
    /\ lost2 = (lost \/ rejectEncryptedConditionField(c.field))

GroupGrown(b, cs, link, c, b2, lost2) ==
    /\ GroupOf(b2, Append(cs, c), lost2)
    /\ b.err => b2.err
    /\ lost2 \/ b2.err \/ b2.filterOperators = linked(b.filterOperators, b.filterConditions, link)

LEMMA GroupMaybe ==
    \A b, cs, lost, link, c, b2, lost2 :
        GroupStep(b, cs, lost, link, c, b2, lost2) => GroupGrown(b, cs, link, c, b2, lost2)
<1>. SUFFICES ASSUME NEW b, NEW cs, NEW lost, NEW link, NEW c, NEW b2, NEW lost2,
                     GroupStep(b, cs, lost, link, c, b2, lost2)
              PROVE  GroupGrown(b, cs, link, c, b2, lost2)
  OBVIOUS
<1>0. /\ cs \in Seq(ConditionCalls) /\ lost \in BOOLEAN /\ lost2 \in BOOLEAN
      /\ GroupOf(b, cs, lost)
      /\ c \in ConditionCalls /\ link \in Links
      /\ b2 = withGroupFilter(b, link, c)
      /\ lost2 = (lost \/ rejectEncryptedConditionField(c.field))
  BY DEF GroupStep
<1>1. CASE rejectEncryptedConditionField(c.field)
  <2>1. b2 = b /\ lost2
    BY <1>0, <1>1 DEF withGroupFilter
  <2>. QED
    BY <1>0, <2>1 DEF GroupOf, GroupGrown
<1>2. CASE ~rejectEncryptedConditionField(c.field)
  <2>1. b2 = withFilter(b, link, c) /\ lost2 = lost
    BY <1>0, <1>2 DEF withGroupFilter
  <2>. QED
    BY <1>0, <1>2, <2>1, GroupMore DEF GroupGrown
<1>. QED
  BY <1>1, <1>2

\* The group given to FilterGroup.
LEMMA GroupIs ==
    ASSUME NEW g \in Groups, NEW lost \in BOOLEAN, lost = anyEncrypted(g.group)
    PROVE  /\ g \in Filters /\ g.grouped /\ Len(g.group) # 0
           /\ GroupOf(groupBuilder(g), g.group, lost)
           /\ lost \/ groupBuilder(g).err \/ groupBuilder(g).filterOperators = g.operators
<1>1. EmptyBuilder.filterConditions = <<>> /\ EmptyBuilder.filterOperators = <<>>
  BY DEF EmptyBuilder
<1>2. GroupOf(EmptyBuilder, <<>>, FALSE) /\ ~EmptyBuilder.err
  BY <1>1, EmptyIs DEF GroupOf
<1>5. PICK and \in Links, or \in Links : and = "AND" /\ or = "OR"
  BY DEF Links
<1>6. PICK none \in Seq(ConditionCalls), no \in BOOLEAN : none = <<>> /\ no = FALSE
  <2>1. <<>> \in Seq(ConditionCalls)
    OBVIOUS
  <2>. QED
    BY <2>1
<1>7. GroupOf(EmptyBuilder, none, no)
  BY <1>2, <1>6
<1>8. linked(EmptyBuilder.filterOperators, EmptyBuilder.filterConditions, and) = <<>>
  BY <1>1 DEF linked
<1>3. ASSUME NEW c \in GroupConditions, g = [group |-> <<c>>, operators |-> <<>>, grouped |-> TRUE]
      PROVE  /\ g \in Filters /\ g.grouped /\ Len(g.group) # 0
             /\ GroupOf(groupBuilder(g), g.group, lost)
             /\ lost \/ groupBuilder(g).err \/ groupBuilder(g).filterOperators = g.operators
  <2>1. c \in ConditionCalls /\ g.group = <<c>> /\ g.operators = <<>> /\ g.grouped /\ Len(g.group) = 1 /\ g.group[1] = c
    BY <1>3, CallsAre
  <2>2. lost = (no \/ rejectEncryptedConditionField(c.field))
    <3>1. \A i \in 1..1 : i = 1
      OBVIOUS
    <3>2. 1 \in 1..1
      OBVIOUS
    <3>3. anyEncrypted(g.group) <=> rejectEncryptedConditionField(c.field)
      BY <2>1, <3>1, <3>2, Zenon DEF anyEncrypted
    <3>. QED
      BY <1>6, <3>3
  <2>3. PICK b : b = withGroupFilter(EmptyBuilder, "AND", c)
    OBVIOUS
  <2>4. groupBuilder(g) = b
    BY <2>1, <2>3 DEF groupBuilder
  <2>0. b = withGroupFilter(EmptyBuilder, and, c)
    BY <1>5, <2>3
  <2>5. GroupOf(b, Append(none, c), lost) /\ (lost \/ b.err \/ b.filterOperators = <<>>)
    <3>1. GroupStep(EmptyBuilder, none, no, and, c, b, lost)
      BY <1>7, <2>0, <2>1, <2>2 DEF GroupStep
    <3>2. GroupGrown(EmptyBuilder, none, and, c, b, lost)
      BY <3>1, GroupMaybe, Zenon
    <3>. QED
      BY <1>8, <3>2, Zenon DEF GroupGrown
  <2>6. Append(none, c) = <<c>>
    BY <1>6
  <2>7. g \in Filters
    BY <1>3, <2>1 DEF Filters
  <2>. QED
    BY <2>1, <2>4, <2>5, <2>6, <2>7
<1>4. ASSUME NEW c \in GroupConditions, NEW d \in GroupConditions,
             g = [group |-> <<c, d>>, operators |-> <<"OR">>, grouped |-> TRUE]
      PROVE  /\ g \in Filters /\ g.grouped /\ Len(g.group) # 0
             /\ GroupOf(groupBuilder(g), g.group, lost)
             /\ lost \/ groupBuilder(g).err \/ groupBuilder(g).filterOperators = g.operators
  <2>1. /\ c \in ConditionCalls /\ d \in ConditionCalls /\ g.group = <<c, d>> /\ g.operators = <<"OR">> /\ g.grouped
        /\ Len(g.group) = 2 /\ g.group[1] = c /\ g.group[2] = d /\ g.operators[1] = "OR"
    BY <1>4, CallsAre
  <2>2. PICK lost1 \in BOOLEAN : lost1 = (no \/ rejectEncryptedConditionField(c.field))
    OBVIOUS
  <2>12. lost = (lost1 \/ rejectEncryptedConditionField(d.field))
    <3>1. \A i \in 1..2 : i = 1 \/ i = 2
      OBVIOUS
    <3>2. 1 \in 1..2 /\ 2 \in 1..2
      OBVIOUS
    <3>3. anyEncrypted(g.group) <=> rejectEncryptedConditionField(c.field) \/ rejectEncryptedConditionField(d.field)
      BY <2>1, <3>1, <3>2, Zenon DEF anyEncrypted
    <3>. QED
      BY <1>6, <2>2, <3>3
  <2>3. PICK b1, b : b1 = withGroupFilter(EmptyBuilder, "AND", c) /\ b = withGroupFilter(b1, "OR", d)
    OBVIOUS
  <2>4. groupBuilder(g) = b
    BY <2>1, <2>3 DEF groupBuilder
  <2>0. b1 = withGroupFilter(EmptyBuilder, and, c)
    BY <1>5, <2>3
  <2>5. GroupOf(b1, Append(none, c), lost1) /\ (lost1 \/ b1.err \/ b1.filterOperators = <<>>)
    <3>1. GroupStep(EmptyBuilder, none, no, and, c, b1, lost1)
      BY <1>7, <2>0, <2>1, <2>2 DEF GroupStep
    <3>2. GroupGrown(EmptyBuilder, none, and, c, b1, lost1)
      BY <3>1, GroupMaybe, Zenon
    <3>. QED
      BY <1>8, <3>2, Zenon DEF GroupGrown
  <2>6. Append(none, c) = <<c>>
    BY <1>6
  <2>11. <<c>> \in Seq(ConditionCalls) /\ Append(<<c>>, d) = <<c, d>> /\ Len(<<c>>) = 1
    BY <2>1, TwoIs
  <2>7. GroupOf(b1, <<c>>, lost1) /\ (lost1 \/ b1.err \/ b1.filterOperators = <<>>)
    BY <2>5, <2>6
  <2>8. GroupOf(b, <<c, d>>, lost) /\ (b1.err => b.err)
        /\ (lost \/ b.err \/ b.filterOperators = linked(b1.filterOperators, b1.filterConditions, or))
    <3>0. b = withGroupFilter(b1, or, d)
      BY <1>5, <2>3
    <3>1. PICK cs \in Seq(ConditionCalls) : cs = <<c>>
      BY <2>11
    <3>2. GroupOf(b, Append(cs, d), lost) /\ (b1.err => b.err)
          /\ (lost \/ b.err \/ b.filterOperators = linked(b1.filterOperators, b1.filterConditions, or))
      <4>1. GroupOf(b1, cs, lost1) /\ d \in ConditionCalls
        BY <2>1, <2>7, <3>1
      <4>2. GroupStep(b1, cs, lost1, or, d, b, lost)
        BY <2>2, <2>12, <3>0, <3>1, <4>1 DEF GroupStep
      <4>3. GroupGrown(b1, cs, or, d, b, lost)
        BY <4>2, GroupMaybe, Zenon
      <4>. QED
        BY <4>3 DEF GroupGrown
    <3>. QED
      BY <2>11, <3>1, <3>2
  <2>9. lost \/ b.err \/ b.filterOperators = <<"OR">>
    <3>1. ASSUME ~lost, ~b.err PROVE b.filterOperators = <<"OR">>
      <4>0. ~lost1 /\ ~b1.err
        BY <2>8, <2>12, <3>1
      <4>1. b1.filterOperators = <<>> /\ Len(b1.filterConditions) = Len(<<c>>)
        BY <2>7, <4>0 DEF GroupOf
      <4>2. b1.filterConditions # <<>>
        <5>1. PICK s : s = b1.filterConditions
          OBVIOUS
        <5>2. Len(s) = 1
          BY <2>11, <4>1, <5>1
        <5>3. s # <<>>
          <6>1. Len(<<>>) # 1
            OBVIOUS
          <6>. QED
            BY <5>2, <6>1, Zenon
        <5>. QED
          BY <5>1, <5>3
      <4>. QED
        BY <1>5, <2>8, <3>1, <4>1, <4>2 DEF linked
    <3>. QED
      BY <3>1
  <2>10. g \in Filters
    <3>1. <<"OR">> \in Seq(Links) /\ <<c, d>> \in Seq(ConditionCalls)
      BY <2>1 DEF Links
    <3>. QED
      BY <1>4, <3>1 DEF Filters
  <2>. QED
    BY <2>1, <2>4, <2>8, <2>9, <2>10
<1>. QED
  BY <1>3, <1>4 DEF Groups

\* The placeholders of a group are put over those of the query.
Merged(b, sub, b2) ==
    /\ b2 \in Builders /\ b2.err = b.err /\ b2.keyConditions = b.keyConditions
    /\ Over(sub.names, b.names, b2.names, NameRefs, STRING)
    /\ Over(sub.values, b.values, b2.values, ValueRefs, Nat)
    /\ \/ /\ sub.filterConditions = <<>>
          /\ b2.filterConditions = b.filterConditions /\ b2.filterOperators = b.filterOperators
       \/ /\ sub.filterConditions # <<>>
          /\ \E t \in GroupTerms :
                /\ t.terms = sub.filterConditions /\ t.operators = sub.filterOperators
                /\ b2.filterConditions = Append(b.filterConditions, t)

LEMMA MergedIs ==
    ASSUME NEW b \in Builders, NEW sub \in Builders, sub.filterConditions \in Seq(Terms), NEW link \in Links
    PROVE  /\ Merged(b, sub, AddGroupFilter(b, link, sub))
           /\ sub.filterConditions # <<>> =>
                AddGroupFilter(b, link, sub).filterOperators = linked(b.filterOperators, b.filterConditions, link)
<1>1. PICK N, V : N = over(sub.names, b.names) /\ V = over(sub.values, b.values)
  OBVIOUS
<1>2. Over(sub.names, b.names, N, NameRefs, STRING) /\ Over(sub.values, b.values, V, ValueRefs, Nat)
  BY <1>1, OverIs DEF Builders
<1>3. N \in Maps(NameRefs, STRING) /\ V \in Maps(ValueRefs, Nat)
  BY <1>2 DEF Over
<1>4. PICK b2, m : b2 = AddGroupFilter(b, link, sub) /\ m = [b EXCEPT !.names = N, !.values = V]
  OBVIOUS
<1>5. m = [b EXCEPT !.names = over(sub.names, @), !.values = over(sub.values, @)]
  BY <1>1, <1>4
<1>6. m \in Builders /\ m.names = N /\ m.values = V /\ m.keyConditions = b.keyConditions
  BY <1>3, <1>4 DEF Builders
<1>7. m.err = b.err
  BY <1>4 DEF Builders
<1>8. m.filterConditions = b.filterConditions /\ m.filterOperators = b.filterOperators
  BY <1>4 DEF Builders
<1>9. CASE sub.filterConditions = <<>>
  <2>1. b2 = m
    BY <1>4, <1>5, <1>9 DEF AddGroupFilter
  <2>. QED
    BY <1>2, <1>4, <1>6, <1>7, <1>8, <1>9, <2>1 DEF Merged
<1>10. CASE sub.filterConditions # <<>>
  <2>1. PICK t : t = [op |-> "GROUP", terms |-> sub.filterConditions, operators |-> sub.filterOperators]
    OBVIOUS
  <2>2. t \in GroupTerms /\ t.terms = sub.filterConditions /\ t.operators = sub.filterOperators
    BY <2>1 DEF GroupTerms, Builders
  <2>3. b.filterConditions \in Seq(Terms \cup GroupTerms) /\ t \in Terms \cup GroupTerms
    BY <2>2 DEF Builders
  <2>4. PICK s \in Seq(Terms \cup GroupTerms) : s = Append(b.filterConditions, t)
    BY <2>3, AppendProperties
  <2>5. PICK l \in Seq(Links) : l = linked(b.filterOperators, b.filterConditions, link)
    BY LinkedIs DEF Builders
  <2>6. b2 = [m EXCEPT !.filterConditions = Append(@, t), !.filterOperators = linked(@, b.filterConditions, link)]
    BY <1>4, <1>5, <1>10, <2>1 DEF AddGroupFilter
  <2>7. b2 = [m EXCEPT !.filterConditions = s, !.filterOperators = l]
    BY <1>6, <1>8, <2>4, <2>5, <2>6 DEF Builders
  <2>8. b2 \in Builders
    BY <1>6, <2>7 DEF Builders
  <2>9. b2.names = N /\ b2.values = V /\ b2.keyConditions = b.keyConditions /\ b2.filterConditions = s /\ b2.filterOperators = l
    BY <1>6, <2>7 DEF Builders
  <2>10. b2.err = b.err
    BY <1>6, <1>7, <2>7 DEF Builders
  <2>. QED
    BY <1>2, <1>4, <1>10, <2>2, <2>4, <2>5, <2>8, <2>9, <2>10 DEF Merged
<1>. QED
  BY <1>9, <1>10

\* One more group.
GroupCall(err, filters, operators, link, g, lost, b, sub, b2, b3) ==
    /\ err \in BOOLEAN /\ filters \in Seq(Filters) /\ operators \in Seq(Links)
    /\ link \in Links /\ g \in Filters /\ lost \in BOOLEAN
    /\ FilterPart(b, err, filters, operators)
    /\ g.grouped /\ Len(g.group) # 0 /\ GroupOf(sub, g.group, lost)
    /\ lost \/ sub.err \/ sub.filterOperators = g.operators
    /\ b2 = AddGroupFilter(b, link, sub) /\ b3 = [b2 EXCEPT !.err = FALSE]

GroupAdded(err, filters, operators, link, g, lost, sub, b2, b3) ==
    /\ b2 \in Builders /\ ~b2.err
    /\ FilterPart(b3, err \/ sub.err \/ lost, Append(filters, g), linked(operators, filters, link))

LEMMA GroupFilterMore ==
    \A err, filters, operators, link, g, lost, b, sub, b2, b3 :
        GroupCall(err, filters, operators, link, g, lost, b, sub, b2, b3)
            => GroupAdded(err, filters, operators, link, g, lost, sub, b2, b3)
<1>. SUFFICES
    ASSUME NEW err \in BOOLEAN, NEW filters \in Seq(Filters), NEW operators \in Seq(Links),
           NEW link \in Links, NEW g \in Filters, NEW lost \in BOOLEAN,
           NEW b, NEW sub, NEW b2, NEW b3,
           FilterPart(b, err, filters, operators),
           g.grouped, Len(g.group) # 0, GroupOf(sub, g.group, lost),
           lost \/ sub.err \/ sub.filterOperators = g.operators,
           b2 = AddGroupFilter(b, link, sub), b3 = [b2 EXCEPT !.err = FALSE]
    PROVE  /\ b2 \in Builders /\ ~b2.err
           /\ FilterPart(b3, err \/ sub.err \/ lost, Append(filters, g), linked(operators, filters, link))
  BY DEF GroupCall, GroupAdded
<1>0. b \in Builders /\ sub \in Builders /\ sub.filterConditions \in Seq(Terms) /\ g.group \in Seq(ConditionCalls)
  BY DEF FilterPart, GroupOf, Filters
<1>1. Merged(b, sub, b2)
  BY <1>0, MergedIs
<1>2. b2 \in Builders /\ Cleared(b2, b3) /\ ~b2.err
  <2>1. b2.err = b.err /\ ~b.err
    BY <1>1 DEF Merged, FilterPart
  <2>. QED
    BY <1>1, <2>1, ClearedIs DEF Merged
<1>3. /\ b3 \in Builders /\ ~b3.err /\ b3.names = b2.names /\ b3.values = b2.values
      /\ b3.keyConditions = b2.keyConditions /\ b3.filterConditions = b2.filterConditions
      /\ b3.filterOperators = b2.filterOperators
  BY <1>2, ListNames DEF Cleared
<1>4. Over(sub.names, b.names, b3.names, NameRefs, STRING) /\ Over(sub.values, b.values, b3.values, ValueRefs, Nat)
  BY <1>1, <1>3 DEF Merged
<1>5. Kept(sub, b3)
  BY <1>4 DEF Over, Kept
<1>6. Clear(b3)
  BY <1>4 DEF Over, Clear, FilterPart, GroupOf
<1>7. /\ DOMAIN b.names \subseteq DOMAIN b3.names /\ DOMAIN b.values \subseteq DOMAIN b3.values
      /\ DOMAIN sub.names \subseteq DOMAIN b3.names /\ DOMAIN sub.values \subseteq DOMAIN b3.values
  BY <1>4 DEF Over
<1>8. PICK s, s3, l, l3 : /\ s = b.filterConditions /\ s3 = b3.filterConditions
                          /\ l = b.filterOperators /\ l3 = b3.filterOperators
  OBVIOUS
<1>9. s \in Seq(Terms \cup GroupTerms) /\ l \in Seq(Links) /\ Separated(s, l)
  BY <1>0, <1>8 DEF Builders, FilterPart
<1>10. \A i \in 1..Len(s) : AllGround(b3, s[i])
  BY <1>7, <1>8, GroundStays DEF FilterPart, Grounded
<1>11. ~Plain(Append(filters, g)) /\ Append(filters, g) # <<>> /\ (Len(Append(filters, g)) <= 1 => filters = <<>>)
  BY PlainMore
<1>12. b3.keyConditions = <<>>
  BY <1>1, <1>3 DEF Merged, FilterPart
<1>13. CASE sub.filterConditions = <<>>
  <2>1. s3 = s /\ l3 = l
    BY <1>1, <1>3, <1>8, <1>13 DEF Merged
  <2>2. sub.err \/ lost
    <3>1. lost \/ sub.err \/ Len(sub.filterConditions) = Len(g.group)
      BY DEF GroupOf
    <3>2. Len(sub.filterConditions) = 0
      BY <1>13
    <3>. QED
      BY <3>1, <3>2
  <2>. QED
    BY <1>2, <1>3, <1>6, <1>8, <1>9, <1>10, <1>11, <1>12, <2>1, <2>2 DEF FilterPart, Grounded
<1>14. CASE sub.filterConditions # <<>>
  <2>1. PICK t \in GroupTerms : /\ t.terms = sub.filterConditions /\ t.operators = sub.filterOperators
                                /\ s3 = Append(s, t)
    BY <1>1, <1>3, <1>8, <1>14 DEF Merged
  <2>2. l3 = linked(l, s, link) /\ t \in Terms \cup GroupTerms
    BY <1>0, <1>3, <1>8, <1>14, MergedIs
  <2>3. PICK N : N \in Nat /\ N = Len(s)
    BY <1>9, LenProperties
  <2>4. Appended(s, t, s3, N)
    BY <1>9, <2>1, <2>2, <2>3, AppendedIs
  <2>5. Separated(s3, l3)
    BY <1>9, <2>1, <2>2, LinkedMore
  <2>6. t.op = "GROUP"
    BY <2>1 DEF GroupTerms
  <2>7. \A i \in 1..Len(t.terms) : t.terms[i] \in Terms /\ t.terms[i].op # "GROUP"
    <3>. SUFFICES ASSUME NEW i \in 1..Len(t.terms) PROVE t.terms[i] \in Terms /\ t.terms[i].op # "GROUP"
      OBVIOUS
    <3>1. t.terms[i] \in Terms
      BY <1>0, <2>1, ElementOfSeq
    <3>. QED
      BY <3>1 DEF Terms, Operators
  <2>8. \A i \in 1..Len(t.terms) : Grounds(sub, t.terms[i])
    BY <2>1, <2>7 DEF GroupOf, AllGround
  <2>9. AllGround(sub, t) /\ AllGround(b3, t)
    BY <1>7, <2>6, <2>8, GroundStays DEF AllGround
  <2>10. Grounded(b3)
    BY <1>8, <1>10, <2>3, <2>4, <2>9 DEF Grounded, Appended
  <2>11. ASSUME ~(err \/ sub.err \/ lost), Len(Append(filters, g)) <= 1
         PROVE  FiltersMean(b3, Append(filters, g), linked(operators, filters, link))
    <3>1. filters = <<>>
      BY <1>11, <2>11
    <3>2. FiltersMean(b, filters, operators)
      <4>1. Plain(filters)
        BY <3>1 DEF Plain
      <4>. QED
        BY <2>11, <4>1 DEF FilterPart
    <3>3. N = 0 /\ Len(filters) = 0 /\ l = operators
      BY <1>8, <2>3, <3>1, <3>2 DEF FiltersMean
    <3>4. l3 = linked(operators, filters, link)
      <4>1. s = <<>>
        BY <1>9, <2>3, <3>3, EmptySeq
      <4>. QED
        BY <2>2, <3>1, <3>3, <4>1
    <3>5. Appended(filters, g, Append(filters, g), N)
      BY <3>3, AppendedIs
    <3>6. ASSUME NEW item \in Items PROVE termHolds(t, b3, item) <=> GroupSays(g, item)
      <4>1. termHolds(t, b3, item) = termHolds(t, sub, item)
        BY <1>5, <2>9, TermKept
      <4>2. /\ Len(t.terms) = Len(g.group) /\ t.operators = g.operators
            /\ \A i \in 1..Len(g.group) : termHolds(t.terms[i], sub, item) = Says(g.group[i], item)
        BY <2>1, <2>11 DEF GroupOf
      <4>3. \A i \in 1..Len(g.group) : simpleHolds(t.terms[i], sub, item) = Says(g.group[i], item)
        BY <2>7, <4>2 DEF termHolds
      <4>4. [i \in 1..Len(t.terms) |-> simpleHolds(t.terms[i], sub, item)]
              = [i \in 1..Len(g.group) |-> Says(g.group[i], item)]
        BY <4>2, <4>3
      <4>5. termHolds(t, sub, item) = AndOr([i \in 1..Len(t.terms) |-> simpleHolds(t.terms[i], sub, item)], t.operators)
        BY <2>6 DEF termHolds
      <4>6. GroupSays(g, item) = AndOr([i \in 1..Len(g.group) |-> Says(g.group[i], item)], g.operators)
        BY DEF GroupSays
      <4>. QED
        BY <4>1, <4>2, <4>4, <4>5, <4>6
    <3>7. Len(s3) = 1 /\ Len(Append(filters, g)) = 1 /\ s3[1] = t /\ Append(filters, g)[1] = g
      BY <2>4, <3>3, <3>5 DEF Appended
    <3>8. ASSUME NEW item \in Items, NEW i \in 1..1
          PROVE  termHolds(s3[i], b3, item) <=> GroupSays(Append(filters, g)[i], item)
      <4>1. i = 1
        OBVIOUS
      <4>. QED
        BY <3>6, <3>7, <4>1
    <3>. QED
      BY <1>8, <3>4, <3>7, <3>8 DEF FiltersMean
  <2>. QED
    BY <1>2, <1>3, <1>6, <1>8, <1>11, <1>12, <2>5, <2>10, <2>11 DEF FilterPart
<1>. QED
  BY <1>13, <1>14

\* A call of FilterGroup or OrFilterGroup.
LEMMA GroupKeeps ==
    ASSUME QueryInv, NEW g \in Groups, NEW link \in Links, addFilterGroup(link, g)
    PROVE  QueryInv'
<1>0. q \in QueryRecords /\ asked \in Asks /\ q.builderErr \in BOOLEAN
  BY DEF QueryInv, Typed, QueryRecords
<1>1. PICK sub, b, b2, b3 : /\ sub = groupBuilder(g) /\ b = newBuilder(q)
                            /\ b2 = AddGroupFilter(b, link, sub) /\ b3 = [b2 EXCEPT !.err = FALSE]
  OBVIOUS
<1>14. PICK lost \in BOOLEAN : lost = anyEncrypted(g.group)
  BY DEF anyEncrypted
<1>2. /\ g \in Filters /\ g.grouped /\ Len(g.group) # 0
      /\ GroupOf(sub, g.group, lost) /\ (lost \/ sub.err \/ sub.filterOperators = g.operators)
  BY <1>1, <1>14, GroupIs
<1>3. asked.filters \in Seq(Filters) /\ asked.operators \in Seq(Links)
  BY <1>0 DEF Asks
<1>4. FilterPart(b, q.builderErr, asked.filters, asked.operators)
  BY <1>1 DEF QueryInv
<1>5. /\ b2 \in Builders /\ ~b2.err
      /\ FilterPart(b3, q.builderErr \/ sub.err \/ lost, Append(asked.filters, g), linked(asked.operators, asked.filters, link))
  <2>1. PICK e, fs, os : e = q.builderErr /\ fs = asked.filters /\ os = asked.operators
    OBVIOUS
  <2>2. e \in BOOLEAN /\ fs \in Seq(Filters) /\ os \in Seq(Links) /\ FilterPart(b, e, fs, os)
    BY <1>0, <1>3, <1>4, <2>1
  <2>3. lost \/ sub.err \/ sub.filterOperators = g.operators
    BY <1>2
  <2>4. /\ b2 \in Builders /\ ~b2.err
        /\ FilterPart(b3, e \/ sub.err \/ lost, Append(fs, g), linked(os, fs, link))
    <3>1. g \in Filters
      BY <1>2
    <3>2. g.grouped
      BY <1>2
    <3>3. Len(g.group) # 0
      BY <1>2
    <3>4. GroupOf(sub, g.group, lost)
      BY <1>2
    <3>5. b2 = AddGroupFilter(b, link, sub)
      BY <1>1
    <3>6. b3 = [b2 EXCEPT !.err = FALSE]
      BY <1>1
    <3>7. e \in BOOLEAN
      BY <2>2
    <3>8. fs \in Seq(Filters)
      BY <2>2
    <3>9. os \in Seq(Links)
      BY <2>2
    <3>10. FilterPart(b, e, fs, os)
      BY <2>2
    <3>11. GroupCall(e, fs, os, link, g, lost, b, sub, b2, b3)
      BY <2>3, <3>1, <3>2, <3>3, <3>4, <3>5, <3>6, <3>7, <3>8, <3>9, <3>10, Zenon DEF GroupCall
    <3>12. GroupAdded(e, fs, os, link, g, lost, sub, b2, b3)
      BY <3>11, GroupFilterMore, Zenon
    <3>. QED
      BY <3>12, Zenon DEF GroupAdded
  <2>. QED
    BY <2>1, <2>4
<1>6. q' = [[q EXCEPT !.builder = b3, !.builderErr = @ \/ b2.err] EXCEPT !.builderErr = @ \/ sub.err \/ lost]
  <2>1. q' = [keepBuilder(q, AddGroupFilter(newBuilder(q), link, groupBuilder(g))) EXCEPT
                 !.builderErr = @ \/ groupBuilder(g).err \/ anyEncrypted(g.group)]
    BY DEF addFilterGroup
  <2>2. q' = [keepBuilder(q, b2) EXCEPT !.builderErr = @ \/ sub.err \/ lost]
    BY <1>1, <1>14, <2>1
  <2>3. keepBuilder(q, b2) = [q EXCEPT !.builder = b3, !.builderErr = @ \/ b2.err]
    BY <1>1 DEF keepBuilder
  <2>. QED
    BY <2>2, <2>3
<1>7. b3 \in Builders /\ sub.err \in BOOLEAN /\ b2.err \in BOOLEAN
  BY <1>1, <1>2, <1>5 DEF Builders, GroupOf
<1>8. PICK err \in BOOLEAN : err = (q.builderErr \/ sub.err \/ lost)
  BY <1>0, <1>7
<1>9. q' = [q EXCEPT !.builder = b3, !.builderErr = err]
  <2>1. ((q.builderErr \/ b2.err) \/ sub.err \/ lost) = err
    BY <1>0, <1>5, <1>7, <1>8
  <2>2. q' = [q EXCEPT !.builder = b3, !.builderErr = ((q.builderErr \/ b2.err) \/ sub.err \/ lost)]
    BY <1>0, <1>6 DEF QueryRecords
  <2>. QED
    BY <2>1, <2>2
<1>10. /\ asked' = [asked EXCEPT !.calls = @ + 1, !.filters = Append(@, g),
                                 !.operators = linked(@, asked.filters, link)]
       /\ mode' = mode /\ ub' = ub
  BY DEF addFilterGroup, askFilter
<1>11. FilterCall(link, g, b3, err) /\ (q.builderErr => err)
  BY <1>8, <1>9, <1>10 DEF FilterCall
<1>12. FilterPart(b3, err, Append(asked.filters, g), linked(asked.operators, asked.filters, link))
  BY <1>5, <1>8
<1>13. (IF b3 = NoBuilder THEN EmptyBuilder ELSE b3) = b3
  BY <1>7, BuilderIsNot
<1>. QED
  BY <1>2, <1>7, <1>11, <1>12, <1>13, FilterCallKeeps

\* What a call of the UpdateBuilder does to its builder.
Changed(b, b2, name, action, vals) ==
    /\ b2 \in Builders
    /\ Fresh(b) => Fresh(b2) /\ Kept(b, b2)
    /\ b2.conditions = b.conditions /\ b2.conditionOperators = b.conditionOperators
    /\ \/ b2.updates = b.updates /\ b2.err
       \/ \E u \in UpdateTerms : /\ u.action = action /\ Refers(b2, u.name, u.vals, name, vals)
                                 /\ b2.updates = Append(b.updates, u)

LEMMA ChangedIs ==
    ASSUME NEW b \in Builders, NEW name \in STRING, NEW action \in Words, NEW vals \in Seq(Nat)
    PROVE  Changed(b, addUpdate(b, action, name, vals), name, action, vals)
<1>1. PICK cl, b2 : /\ cl = [to |-> "updates", link |-> "AND", name |-> name, op |-> action, vals |-> vals]
                    /\ b2 = addUpdate(b, action, name, vals)
  OBVIOUS
<1>2. /\ cl \in Clauses /\ cl.to = "updates" /\ cl.name = name /\ cl.op = action /\ cl.vals = vals
  <2>1. PICK x \in Links : x = "AND"
    BY DEF Links
  <2>2. PICK y \in Lists : y = "updates"
    BY DEF Lists
  <2>3. cl = [to |-> y, link |-> x, name |-> name, op |-> action, vals |-> vals]
    BY <1>1, <2>1, <2>2
  <2>. QED
    BY <2>2, <2>3 DEF Clauses
<1>3. b2 = addClause(b, cl)
  BY <1>1, <1>2 DEF addClause
<1>4. OneClause(b, b2, cl)
  BY <1>2, <1>3, ClauseAdded
<1>5. ListStep(b, b2, cl, "updates") /\ ListStep(b, b2, cl, "conditions")
  BY <1>2, <1>4, StepIs, ListNames
<1>6. b2 \in Builders /\ (Fresh(b) => Fresh(b2) /\ Kept(b, b2))
  BY <1>4 DEF OneClause
<1>7. b2.conditions = b.conditions /\ b2.conditionOperators = b.conditionOperators
  BY <1>2, <1>5, ListNames DEF ListStep
<1>8. CASE b2.updates = b.updates /\ b2.err
  BY <1>1, <1>6, <1>7, <1>8 DEF Changed
<1>9. CASE ~(b2.updates = b.updates /\ b2.err)
  <2>1. PICK u \in AnyTerms : Stands(b2, u, cl) /\ b2.updates = Append(b.updates, u)
    BY <1>2, <1>5, <1>9, ListNames DEF ListStep
  <2>2. u \in UpdateTerms
    <3>1. b.updates \in Seq(UpdateTerms) /\ b2.updates \in Seq(UpdateTerms)
      BY <1>6 DEF Builders
    <3>2. PICK N : N \in Nat /\ N = Len(b.updates)
      BY <3>1, LenProperties
    <3>3. b.updates \in Seq(AnyTerms)
      BY ListsAre, ListNames
    <3>4. Appended(b.updates, u, b2.updates, N)
      BY <2>1, <3>2, <3>3, AppendedIs
    <3>5. N + 1 \in 1..Len(b2.updates) /\ b2.updates[N + 1] = u
      BY <3>2, <3>4 DEF Appended
    <3>. QED
      BY <3>1, <3>5, ElementOfSeq
  <2>3. u.action = action /\ Refers(b2, u.name, u.vals, name, vals)
    BY <1>2, <2>1 DEF Stands
  <2>. QED
    BY <1>1, <1>6, <1>7, <2>1, <2>2, <2>3 DEF Changed
<1>. QED
  BY <1>8, <1>9

\* An update keeps its effect.
LEMMA MatchesStays ==
    ASSUME NEW b, NEW b2, Kept(b, b2), NEW u, NEW effects, NEW effects2, Matches(b, u, effects),
           \A a \in DOMAIN effects : a \in DOMAIN effects2 /\ effects2[a] = effects[a]
    PROVE  Matches(b2, u, effects2) /\ u.name \in DOMAIN b.names /\ b2.names[u.name] = b.names[u.name]
<1>1. PICK vals \in Seq(Nat), a \in DOMAIN effects :
          Refers(b, u.name, u.vals, a, vals) /\ Does(u.action, vals, effects[a])
  BY DEF Matches
<1>2. Refers(b2, u.name, u.vals, a, vals)
  BY <1>1, StillRefers
<1>3. a \in DOMAIN effects2 /\ Does(u.action, vals, effects2[a])
  BY <1>1
<1>4. Matches(b2, u, effects2)
  BY <1>1, <1>2, <1>3 DEF Matches
<1>5. u.name \in DOMAIN b.names
  BY <1>1 DEF Refers
<1>. QED
  BY <1>4, <1>5 DEF Kept

\* One more effect.
MoreEffects(effects, name, e, effects2) ==
    /\ effects2 \in Maps(STRING, Effects) /\ DOMAIN effects2 = DOMAIN effects \cup {name}
    /\ effects2[name] = e
    /\ \A a \in DOMAIN effects : effects2[a] = effects[a]

LEMMA MoreEffectsIs ==
    ASSUME NEW effects \in Maps(STRING, Effects), NEW name \in STRING, name \notin DOMAIN effects, NEW e \in Effects
    PROVE  MoreEffects(effects, name, e, over([a \in {name} |-> e], effects))
<1>1. PICK f : f = [a \in {name} |-> e]
  OBVIOUS
<1>2. DOMAIN f = {name} /\ f[name] = e
  BY <1>1
<1>3. f \in Maps(STRING, Effects)
  <2>1. f \in [{name} -> Effects] /\ {name} \in SUBSET STRING
    BY <1>1
  <2>. QED
    BY <2>1 DEF Maps
<1>4. Over(f, effects, over(f, effects), STRING, Effects)
  BY <1>3, OverIs
<1>. QED
  BY <1>1, <1>2, <1>4 DEF Over, MoreEffects

LEMMA UpdateMore ==
    ASSUME NEW b \in Builders, NEW err, NEW effects, UpdatePart(b, err, effects),
           NEW name, NEW action, NEW vals \in Seq(Nat), NEW e, Does(action, vals, e),
           NEW b2, Changed(b, b2, name, action, vals), NEW b3, Cleared(b2, b3),
           NEW effects2, MoreEffects(effects, name, e, effects2)
    PROVE  UpdatePart(b3, err \/ b2.err, effects2)
<1>1. /\ b3.names = b2.names /\ b3.values = b2.values /\ b3.conditions = b2.conditions
      /\ b3.conditionOperators = b2.conditionOperators /\ b3.updates = b2.updates /\ b3 \in Builders
  BY ListNames DEF Cleared
<1>2. ~b3.err
  BY DEF Cleared
<1>3. Fresh(b) /\ Fresh(b2) /\ Kept(b, b2)
  BY DEF UpdatePart, Changed
<1>4. Fresh(b3) /\ Kept(b, b3) /\ Kept(b2, b3)
  BY <1>3 DEF Cleared, Kept, Fresh
<1>5. b3.conditions = <<>> /\ b3.conditionOperators = <<>>
  BY <1>1 DEF UpdatePart, Changed
<1>6. \A a \in DOMAIN effects : a \in DOMAIN effects2 /\ effects2[a] = effects[a]
  BY DEF MoreEffects
<1>7. \A i \in 1..Len(b.updates) : /\ Matches(b3, b.updates[i], effects2)
                                   /\ b3.names[b.updates[i].name] = b.names[b.updates[i].name]
  <2>1. \A i \in 1..Len(b.updates) : Matches(b, b.updates[i], effects)
    BY DEF UpdatePart
  <2>2. \A u : Matches(b, u, effects) => Matches(b3, u, effects2) /\ b3.names[u.name] = b.names[u.name]
    BY <1>4, <1>6, MatchesStays
  <2>. QED
    BY <2>1, <2>2
<1>8. CASE b2.updates = b.updates /\ b2.err
  <2>1. b3.updates = b.updates
    BY <1>1, <1>8
  <2>2. err \/ b2.err
    BY <1>8
  <2>3. \A i \in 1..Len(b3.updates) : Matches(b3, b3.updates[i], effects2)
    BY <1>7, <2>1
  <2>. QED
    BY <1>2, <1>4, <1>5, <2>2, <2>3 DEF UpdatePart
<1>9. CASE ~(b2.updates = b.updates /\ b2.err)
  <2>1. PICK u \in UpdateTerms : /\ u.action = action /\ Refers(b2, u.name, u.vals, name, vals)
                                 /\ b2.updates = Append(b.updates, u)
    BY <1>9 DEF Changed
  <2>2. Refers(b3, u.name, u.vals, name, vals)
    BY <1>4, <2>1, StillRefers
  <2>3. Matches(b3, u, effects2) /\ b3.names[u.name] = name
    <3>1. name \in DOMAIN effects2 /\ Does(u.action, vals, effects2[name])
      BY <2>1 DEF MoreEffects
    <3>2. Matches(b3, u, effects2)
      BY <2>2, <3>1 DEF Matches
    <3>. QED
      BY <2>2, <3>2 DEF Refers
  <2>4. b.updates \in Seq(UpdateTerms)
    BY DEF Builders
  <2>5. PICK N : N \in Nat /\ N = Len(b.updates)
    BY <2>4, LenProperties
  <2>6. Appended(b.updates, u, b3.updates, N)
    BY <1>1, <2>1, <2>4, <2>5, AppendedIs
  <2>7. \A i \in 1..Len(b3.updates) : Matches(b3, b3.updates[i], effects2)
    BY <1>7, <2>3, <2>5, <2>6 DEF Appended
  <2>8. ASSUME ~(err \/ b2.err), NEW a \in DOMAIN effects2
        PROVE  \E i \in 1..Len(b3.updates) : b3.names[b3.updates[i].name] = a
    <3>1. CASE a = name
      <4>1. N + 1 \in 1..Len(b3.updates) /\ b3.updates[N + 1] = u
        BY <2>5, <2>6 DEF Appended
      <4>. QED
        BY <2>3, <3>1, <4>1
    <3>2. CASE a \in DOMAIN effects
      <4>1. PICK i \in 1..Len(b.updates) : b.names[b.updates[i].name] = a
        BY <2>8, <3>2 DEF UpdatePart
      <4>2. i \in 1..Len(b3.updates) /\ b3.updates[i] = b.updates[i]
        BY <2>5, <2>6 DEF Appended
      <4>. QED
        BY <1>7, <4>1, <4>2
    <3>. QED
      BY <3>1, <3>2 DEF MoreEffects
  <2>. QED
    BY <1>2, <1>4, <1>5, <2>7, <2>8 DEF UpdatePart
<1>. QED
  BY <1>8, <1>9

\* A call that updates an attribute.
LEMMA UpdateCallKeeps ==
    ASSUME QueryInv, NEW f \in UpdateFields, NEW action \in Words, NEW vals \in Seq(Nat),
           NEW e \in Effects, Does(action, vals, e),
           NEW b2, b2 = addUpdate(ub.expr, action, resolveAttributeName(f), vals), updateCall(f, e, b2)
    PROVE  QueryInv'
<1>0. q \in QueryRecords /\ asked \in Asks /\ ub \in UpdateBuilders /\ mode \in Modes
  BY DEF QueryInv, Typed
<1>1. PICK name \in STRING : name = resolveAttributeName(f)
  BY CallsAre, Resolves
<1>2. /\ ub.buildErr \in BOOLEAN /\ ub.expr \in Builders /\ asked.effects \in Maps(STRING, Effects)
      /\ asked.calls + 1 \in Nat
  BY <1>0 DEF UpdateBuilders, Asks
<1>3. PICK b3, effects2 : b3 = [b2 EXCEPT !.err = FALSE] /\ effects2 = over([a \in {name} |-> e], asked.effects)
  OBVIOUS
<1>4. Changed(ub.expr, b2, name, action, vals)
  BY <1>1, <1>2, ChangedIs
<1>5. Cleared(b2, b3) /\ b2 \in Builders
  BY <1>3, <1>4, ClearedIs DEF Changed
<1>6. name \notin DOMAIN asked.effects
  BY <1>1 DEF updateCall
<1>7. MoreEffects(asked.effects, name, e, effects2)
  BY <1>2, <1>3, <1>6, MoreEffectsIs
<1>8. PICK err \in BOOLEAN : err = (ub.buildErr \/ b2.err)
  BY <1>2, <1>5 DEF Builders
<1>9. UpdatePart(b3, err, effects2)
  <2>1. UpdatePart(ub.expr, ub.buildErr, asked.effects)
    BY DEF QueryInv
  <2>2. PICK x : x = ub.expr
    OBVIOUS
  <2>3. x \in Builders
    BY <1>2, <2>2
  <2>4. Changed(x, b2, name, action, vals) /\ UpdatePart(x, ub.buildErr, asked.effects)
    BY <1>4, <2>1, <2>2
  <2>5. UpdatePart(b3, ub.buildErr \/ b2.err, effects2)
    BY <1>5, <1>7, <2>3, <2>4, UpdateMore
  <2>. QED
    BY <1>8, <2>5
<1>10. ub' = [ub EXCEPT !.expr = b3, !.buildErr = err]
  <2>1. ub' = [ub EXCEPT !.expr = [b2 EXCEPT !.err = FALSE], !.buildErr = @ \/ b2.err]
    BY DEF updateCall
  <2>. QED
    BY <1>0, <1>3, <1>8, <2>1 DEF UpdateBuilders
<1>11. asked' = [asked EXCEPT !.calls = asked.calls + 1, !.effects = effects2] /\ mode' = mode /\ q' = q
  BY <1>0, <1>1, <1>3 DEF updateCall, Asks
<1>12. asked' \in Asks
  BY <1>0, <1>2, <1>7, <1>11 DEF Asks, MoreEffects
<1>13. /\ asked'.where = asked.where /\ asked'.filters = asked.filters
       /\ asked'.operators = asked.operators /\ asked'.writes = asked.writes
       /\ asked'.updates = asked.updates /\ asked'.updateOps = asked.updateOps /\ asked'.effects = effects2
  BY <1>0, <1>11 DEF Asks
<1>14. ub' \in UpdateBuilders /\ ub'.expr = b3 /\ ub'.conditions = ub.conditions
  BY <1>0, <1>5, <1>10 DEF UpdateBuilders, Cleared
<1>15. ub'.buildErr = err
  BY <1>0, <1>10 DEF UpdateBuilders
<1>16. UpdatePart(ub'.expr, ub'.buildErr, asked'.effects)
  BY <1>9, <1>13, <1>14, <1>15
<1>17. UpdateConditionPart(ub'.conditions, ub'.buildErr, asked'.updates, asked'.updateOps)
  BY <1>8, <1>13, <1>14, <1>15 DEF QueryInv, UpdateConditionPart
<1>18. /\ newBuilder(q') = newBuilder(q)
       /\ WherePart(q'.conditions, q'.builderErr, asked'.where)
       /\ WritePart(q'.writeConditions, q'.raw, q'.builderErr, asked'.writes)
       /\ FilterPart(newBuilder(q'), q'.builderErr, asked'.filters, asked'.operators)
  BY <1>11, <1>13 DEF QueryInv
<1>. QED
  BY <1>0, <1>11, <1>12, <1>14, <1>16, <1>17, <1>18 DEF QueryInv, Typed

LEMMA UpdateKeeps ==
    ASSUME QueryInv, NEW f \in UpdateFields,
           UpdateSet(f, 2) \/ UpdateAdd(f, 1) \/ UpdateRemove(f) \/ UpdateSetIfNotExists(f, 1)
    PROVE  QueryInv'
<1>. DEFINE name == resolveAttributeName(f)
<1>0. PICK one, two, none : /\ one = <<1>> /\ two = <<2>> /\ none = <<>>
  OBVIOUS
<1>1. /\ one \in Seq(Nat) /\ two \in Seq(Nat) /\ none \in Seq(Nat)
      /\ Len(one) = 1 /\ Len(two) = 1 /\ one[1] = 1 /\ two[1] = 2
  BY <1>0
<1>2. PICK set \in Words, add \in Words, remove \in Words, default \in Words :
          set = "SET" /\ add = "ADD" /\ remove = "REMOVE" /\ default = "IF_NOT_EXISTS"
  BY DEF Words
<1>3. PICK e1, e2, e3, e4 : e1 = <<"SET", 2>> /\ e2 = <<"ADD", 1>> /\ e3 = <<"REMOVE">> /\ e4 = <<"DEFAULT", 1>>
  OBVIOUS
<1>4. e1 \in Effects /\ e2 \in Effects /\ e3 \in Effects /\ e4 \in Effects
  BY <1>3 DEF Effects
<1>5. Does(set, two, e1) /\ Does(add, one, e2) /\ Does(remove, none, e3) /\ Does(default, one, e4)
  BY <1>1, <1>2, <1>3 DEF Does
<1>6. CASE UpdateSet(f, 2)
  <2>1. updateCall(f, e1, addUpdate(ub.expr, set, name, two))
    BY <1>0, <1>2, <1>3, <1>6 DEF UpdateSet, AddUpdateSet
  <2>. QED
    BY <1>1, <1>4, <1>5, <2>1, UpdateCallKeeps
<1>7. CASE UpdateAdd(f, 1)
  <2>1. updateCall(f, e2, addUpdate(ub.expr, add, name, one))
    BY <1>0, <1>2, <1>3, <1>7 DEF UpdateAdd, AddUpdateAdd
  <2>. QED
    BY <1>1, <1>4, <1>5, <2>1, UpdateCallKeeps
<1>8. CASE UpdateRemove(f)
  <2>1. updateCall(f, e3, addUpdate(ub.expr, remove, name, none))
    BY <1>0, <1>2, <1>3, <1>8 DEF UpdateRemove, AddUpdateRemove
  <2>. QED
    BY <1>1, <1>4, <1>5, <2>1, UpdateCallKeeps
<1>9. CASE UpdateSetIfNotExists(f, 1)
  <2>1. updateCall(f, e4, addUpdate(ub.expr, default, name, one))
    BY <1>0, <1>2, <1>3, <1>9 DEF UpdateSetIfNotExists, AddUpdateFunction
  <2>. QED
    BY <1>1, <1>4, <1>5, <2>1, UpdateCallKeeps
<1>. QED
  BY <1>6, <1>7, <1>8, <1>9

LEMMA NextQueryInv ==
    ASSUME QueryInv, [QueryNext]_queryVars
    PROVE  QueryInv'
<1>0. PICK and \in Links, or \in Links : and = "AND" /\ or = "OR"
  BY DEF Links
<1>1. ASSUME NEW c \in Conditions, Where(c) PROVE QueryInv'
  BY <1>1, WhereKeeps
<1>2. ASSUME NEW c \in Conditions, Filter(c) \/ OrFilter(c) PROVE QueryInv'
  <2>1. addFilter(and, c) \/ addFilter(or, c)
    BY <1>0, <1>2 DEF Filter, OrFilter
  <2>. QED
    BY <2>1, FilterKeeps
<1>3. ASSUME NEW c \in Conditions, WithCondition(c) PROVE QueryInv'
  BY <1>3, WithConditionKeeps
<1>4. ASSUME NEW c \in Conditions, Condition(c) \/ OrCondition(c) PROVE QueryInv'
  <2>1. updateCondition(and, c) \/ updateCondition(or, c)
    BY <1>0, <1>4 DEF Condition, OrCondition
  <2>. QED
    BY <2>1, UpdateConditionKeeps
<1>5. ASSUME NEW c \in GroupConditions, NEW p \in RawValues, WithConditionExpression(c, p) PROVE QueryInv'
  BY <1>5, RawKeeps
<1>6. ASSUME NEW g \in Groups, FilterGroup(g) \/ OrFilterGroup(g) PROVE QueryInv'
  <2>1. addFilterGroup(and, g) \/ addFilterGroup(or, g)
    BY <1>0, <1>6 DEF FilterGroup, OrFilterGroup
  <2>. QED
    BY <2>1, GroupKeeps
<1>7. ASSUME NEW i \in 1..Len(Indexes), Index(Indexes[i].name) PROVE QueryInv'
  BY <1>7, IndexKeeps
<1>8. ASSUME IfNotExists \/ IfExists PROVE QueryInv'
  <2>1. PICK op \in {"ATTRIBUTE_EXISTS", "ATTRIBUTE_NOT_EXISTS"} : IfExistence(op)
    BY <1>8 DEF IfNotExists, IfExists
  <2>. QED
    BY <2>1, IfExistenceKeeps
<1>9. ASSUME NEW f \in UpdateFields,
             UpdateSet(f, 2) \/ UpdateAdd(f, 1) \/ UpdateRemove(f) \/ UpdateSetIfNotExists(f, 1)
      PROVE  QueryInv'
  BY <1>9, UpdateKeeps
<1>10. CASE UNCHANGED queryVars
  <2>1. mode' = mode /\ q' = q /\ ub' = ub /\ asked' = asked
    BY <1>10 DEF queryVars
  <2>2. Typed'
    BY <2>1 DEF QueryInv, Typed
  <2>3. newBuilder(q') = newBuilder(q)
    BY <2>1
  <2>. QED
    BY <2>1, <2>2, <2>3 DEF QueryInv
<1>. QED
  BY <1>1, <1>2, <1>3, <1>4, <1>5, <1>6, <1>7, <1>8, <1>9, <1>10 DEF QueryNext

LEMMA QueryKept == QuerySpec => []QueryInv
BY InitQueryInv, NextQueryInv, PTL DEF QuerySpec

\* A sequence that continues another of the same length is that one.
LEMMA SameSeq ==
    ASSUME NEW S, NEW s \in Seq(S), NEW s2 \in Seq(S), Continues(s, s2), Len(s2) = Len(s)
    PROVE  s2 = s
BY SeqEqual DEF Continues

\* Clauses that are not for a list leave it alone.
LEMMA Untouched ==
    ASSUME NEW b \in Builders, NEW cs, NEW n, NEW L \in Lists, NEW b2, Folded(b, b2, cs, n, L),
           \A k \in 1..n : cs[k].to # L
    PROVE  ListOf(b2, L) = ListOf(b, L)
<1>1. PICK s, s2 : s = ListOf(b, L) /\ s2 = ListOf(b2, L)
  OBVIOUS
<1>2. s \in Seq(AnyTerms) /\ s2 \in Seq(AnyTerms) /\ Continues(s, s2)
  BY <1>1, ListsAre DEF Folded
<1>3. Len(s) \in Nat /\ Len(s2) \in Nat /\ Len(s) <= Len(s2)
  BY <1>2, LenProperties DEF Continues
<1>4. ASSUME NEW i \in 1..Len(s2), i > Len(s) PROVE FALSE
  <2>1. \E k \in 1..n : Is(b, b2, cs, L, i, k)
    BY <1>1, <1>4 DEF Folded, NewTerms
  <2>. QED
    BY <2>1 DEF Is
<1>5. Len(s2) = Len(s)
  BY <1>3, <1>4
<1>. QED
  BY <1>1, <1>2, <1>5, SameSeq

\* One clause is a list of one.
LEMMA OneClauseOnly ==
    ASSUME NEW b, NEW c
    PROVE  addClause(b, c) = addClauses(b, <<c>>)
<1>1. PICK cs : cs = <<c>>
  OBVIOUS
<1>2. Len(cs) = 1 /\ cs[1] = c
  BY <1>1
<1>3. addClauses(b, cs) = (CHOOSE f : Adds(f, b, cs, 1))[1]
  BY <1>2, AddsIs
<1>4. PICK f : f = (CHOOSE g : Adds(g, b, cs, 1))
  OBVIOUS
<1>5. \E g : Adds(g, b, cs, 1)
  BY AddsExists
<1>6. Adds(f, b, cs, 1)
  BY <1>4, <1>5
<1>7. f[1] = addClause(f[0], cs[1]) /\ f[0] = b
  BY <1>6 DEF Adds
<1>. QED
  BY <1>1, <1>2, <1>3, <1>4, <1>7

(***************************************************************************)
(* The conditions of a write, joined by AND.                               *)
(***************************************************************************)
\* Every condition has its placeholders, every operator is AND.
Sound(b) ==
    /\ b \in Builders /\ Fresh(b) /\ Separated(b.conditions, b.conditionOperators)
    /\ \A j \in 1..Len(b.conditionOperators) : b.conditionOperators[j] = "AND"
    /\ \A i \in 1..Len(b.conditions) : Grounds(b, b.conditions[i])

\* No condition is on an encrypted attribute.
Public(b) == \A i \in 1..Len(b.conditions) : b.names[b.conditions[i].name] \notin Secret

AllHold(b, item) == \A i \in 1..Len(b.conditions) : termHolds(b.conditions[i], b, item)

LEMMA SimpleTerms ==
    ASSUME NEW b \in Builders, NEW i \in 1..Len(b.conditions)
    PROVE  b.conditions[i] \in Terms /\ b.conditions[i].op # "GROUP"
<1>1. b.conditions \in Seq(Terms)
  BY DEF Builders
<1>2. b.conditions[i] \in Terms
  BY <1>1, ElementOfSeq
<1>. QED
  BY <1>2 DEF Terms, Operators

LEMMA SoundHolds ==
    ASSUME NEW b, Sound(b), NEW item
    PROVE  ExpressionHolds(b.conditions, b.conditionOperators, b, item) <=> AllHold(b, item)
<1>1. b.conditions \in Seq(Terms)
  BY DEF Sound, Builders
<1>2. PICK N : N \in Nat /\ N = Len(b.conditions)
  BY <1>1, LenProperties
<1>3. Len(b.conditionOperators) = IF N = 0 THEN 0 ELSE N - 1
  BY <1>2 DEF Sound, Separated
<1>4. \A j \in 1..N : j < N => j \in 1..Len(b.conditionOperators)
  BY <1>2, <1>3
<1>5. \A j \in 1..N : j < N => b.conditionOperators[j] = "AND"
  BY <1>4 DEF Sound
<1>. QED
  BY <1>2, <1>5, AndsHold DEF AllHold

\* What clauses do to the conditions.
Joins(b, b2, cs) ==
    /\ Sound(b2) /\ Kept(b, b2) /\ (b.err => b2.err)
    /\ Public(b) /\ (\A k \in 1..Len(cs) : cs[k].to = "conditions" => cs[k].name \notin Secret) => Public(b2)
    /\ ~b2.err => \A item : AllHold(b2, item) <=>
          AllHold(b, item) /\ \A k \in 1..Len(cs) : cs[k].to = "conditions" => ClauseSays(cs[k], item)

LEMMA ConditionsJoin ==
    ASSUME NEW b, Sound(b), NEW cs \in Seq(Clauses), \A k \in 1..Len(cs) : cs[k].link = "AND"
    PROVE  Joins(b, addClauses(b, cs), cs)
<1>1. PICK b2, s, s2, l, l2 : /\ b2 = addClauses(b, cs)
                              /\ s = b.conditions /\ s2 = b2.conditions
                              /\ l = b.conditionOperators /\ l2 = b2.conditionOperators
  OBVIOUS
<1>2. b \in Builders /\ Fresh(b)
  BY DEF Sound
<1>3. PICK L \in Lists : L = "conditions"
  BY ListNames
<1>4. Folded(b, b2, cs, Len(cs), L) /\ L \in Chained
  BY <1>1, <1>2, <1>3, ClausesAdded, ListNames
<1>5. ListOf(b, L) = s /\ ListOf(b2, L) = s2 /\ LinksOf(b, L) = l /\ LinksOf(b2, L) = l2
  BY <1>1, <1>3, ListNames
<1>6. b2 \in Builders /\ Fresh(b2) /\ Kept(b, b2) /\ (b.err => b2.err)
  BY <1>2, <1>4 DEF Folded
<1>7. s \in Seq(Terms) /\ s2 \in Seq(Terms) /\ l \in Seq(Links) /\ l2 \in Seq(Links)
  BY <1>1, <1>2, <1>6 DEF Builders
<1>8. Len(s) \in Nat /\ Len(s2) \in Nat /\ Len(s) <= Len(s2) /\ Len(l) \in Nat /\ Len(l2) \in Nat
  BY <1>4, <1>5, <1>7, LenProperties DEF Folded, Continues
<1>9. \A i \in 1..Len(s) : i \in 1..Len(s2) /\ s2[i] = s[i]
  BY <1>4, <1>5, <1>8 DEF Folded, Continues
<1>10. \A j \in 1..Len(l) : l2[j] = l[j]
  BY <1>4, <1>5 DEF Folded, NewLinks, Continues
<1>11. Separated(s2, l2)
  BY <1>1, <1>4, <1>5 DEF Folded, NewLinks, Sound
<1>12. \A j \in 1..Len(l2) : l2[j] = "AND"
  <2>1. \A j \in 1..Len(l2) : j > Len(l) => l2[j] = "AND"
    BY <1>4, <1>5 DEF Folded, NewLinks
  <2>2. \A j \in 1..Len(l) : l2[j] = "AND"
    BY <1>1, <1>10 DEF Sound
  <2>3. \A j \in 1..Len(l2) : j > Len(l) \/ j \in 1..Len(l)
    BY <1>8
  <2>. QED
    BY <2>1, <2>2, <2>3
<1>13. \A i \in 1..Len(s2) : i > Len(s) =>
          \E k \in 1..Len(cs) : cs[k].to = "conditions" /\ Stands(b2, s2[i], cs[k])
  BY <1>2, <1>3, <1>4, <1>5 DEF Folded, NewTerms, Is
<1>14. \A i \in 1..Len(s2) : i > Len(s) \/ i \in 1..Len(s)
  BY <1>8
<1>15. \A i \in 1..Len(s) : Grounds(b, s[i])
  BY <1>1 DEF Sound
<1>16. \A i \in 1..Len(s2) : Grounds(b2, s2[i])
  <2>1. \A i \in 1..Len(s) : Grounds(b2, s2[i])
    BY <1>6, <1>9, <1>15 DEF Kept, Grounds
  <2>2. \A i \in 1..Len(s2) : i > Len(s) => Grounds(b2, s2[i])
    <3>1. \A t, c : Stands(b2, t, c) => Grounds(b2, t)
      BY DEF Stands, Refers, Grounds
    <3>. QED
      BY <1>13, <3>1
  <2>. QED
    BY <1>14, <2>1, <2>2
<1>17. Sound(b2)
  BY <1>1, <1>6, <1>11, <1>12, <1>16 DEF Sound
<1>18. ASSUME Public(b), \A k \in 1..Len(cs) : cs[k].to = "conditions" => cs[k].name \notin Secret
       PROVE  Public(b2)
  <2>1. \A i \in 1..Len(s) : b2.names[s2[i].name] \notin Secret
    BY <1>1, <1>6, <1>9, <1>15, <1>18 DEF Public, Kept, Grounds
  <2>2. \A i \in 1..Len(s2) : i > Len(s) => b2.names[s2[i].name] \notin Secret
    BY <1>13, <1>18 DEF Stands, Refers
  <2>. QED
    BY <1>1, <1>14, <2>1, <2>2 DEF Public
<1>19. ASSUME ~b2.err, NEW item
       PROVE  AllHold(b2, item) <=>
                AllHold(b, item) /\ \A k \in 1..Len(cs) : cs[k].to = "conditions" => ClauseSays(cs[k], item)
  <2>1. \A i \in 1..Len(s) : termHolds(s2[i], b2, item) = termHolds(s[i], b, item)
    <3>. SUFFICES ASSUME NEW i \in 1..Len(s) PROVE termHolds(s2[i], b2, item) = termHolds(s[i], b, item)
      OBVIOUS
    <3>1. s[i].op # "GROUP" /\ Grounds(b, s[i])
      BY <1>1, <1>2, <1>15, SimpleTerms
    <3>2. AllGround(b, s[i])
      BY <3>1 DEF AllGround
    <3>. QED
      BY <1>6, <1>9, <3>2, TermKept
  <2>2. \A k \in 1..Len(cs) : cs[k] \in Clauses
    BY ElementOfSeq
  <2>3. \A t : \A k \in 1..Len(cs) : cs[k].to = "conditions" /\ Stands(b2, t, cs[k]) =>
            termHolds(t, b2, item) = ClauseSays(cs[k], item)
    <3>. SUFFICES ASSUME NEW t, NEW k \in 1..Len(cs), cs[k].to = "conditions", Stands(b2, t, cs[k])
                  PROVE  termHolds(t, b2, item) = ClauseSays(cs[k], item)
      OBVIOUS
    <3>1. cs[k] \in Clauses /\ cs[k].to # "updates"
      BY <2>2
    <3>. QED
      BY <3>1, TermMeans
  <2>4. \A k \in 1..Len(cs) : cs[k].to = "conditions" =>
            \E i \in 1..Len(s2) : i > Len(s) /\ Stands(b2, s2[i], cs[k])
    BY <1>2, <1>3, <1>4, <1>5, <1>19 DEF Folded, AllTerms, Is
  <2>5. ASSUME AllHold(b2, item)
        PROVE  AllHold(b, item) /\ \A k \in 1..Len(cs) : cs[k].to = "conditions" => ClauseSays(cs[k], item)
    <3>1. \A i \in 1..Len(s2) : termHolds(s2[i], b2, item)
      BY <1>1, <2>5 DEF AllHold
    <3>2. \A i \in 1..Len(s) : termHolds(s[i], b, item)
      BY <1>9, <2>1, <3>1
    <3>3. \A k \in 1..Len(cs) : cs[k].to = "conditions" => ClauseSays(cs[k], item)
      BY <2>3, <2>4, <3>1
    <3>. QED
      BY <1>1, <3>2, <3>3 DEF AllHold
  <2>6. ASSUME AllHold(b, item), \A k \in 1..Len(cs) : cs[k].to = "conditions" => ClauseSays(cs[k], item)
        PROVE  AllHold(b2, item)
    <3>1. \A i \in 1..Len(s) : termHolds(s2[i], b2, item)
      BY <1>1, <2>1, <2>6 DEF AllHold
    <3>2. \A i \in 1..Len(s2) : i > Len(s) => termHolds(s2[i], b2, item)
      BY <1>13, <2>3, <2>6
    <3>. QED
      BY <1>1, <1>14, <3>1, <3>2 DEF AllHold
  <2>. QED
    BY <2>5, <2>6
<1>20. Joins(b, b2, cs)
  BY <1>6, <1>17, <1>18, <1>19 DEF Joins
<1>. QED
  BY <1>1, <1>20

LEMMA EmptySound ==
    Sound(EmptyBuilder) /\ Public(EmptyBuilder) /\ \A item : AllHold(EmptyBuilder, item)
<1>1. EmptyBuilder.conditions = <<>> /\ EmptyBuilder.conditionOperators = <<>>
  BY DEF EmptyBuilder
<1>2. Len(EmptyBuilder.conditions) = 0 /\ Len(EmptyBuilder.conditionOperators) = 0
  BY <1>1
<1>. QED
  BY <1>2, EmptyIs DEF Sound, Public, AllHold, Separated

LEMMA FailedSound ==
    ASSUME NEW b, Sound(b)
    PROVE  /\ Sound(failed(b)) /\ Kept(b, failed(b)) /\ (Public(b) => Public(failed(b)))
           /\ failed(b).err
<1>1. PICK b2 : b2 = failed(b)
  OBVIOUS
<1>2. b \in Builders
  BY DEF Sound
<1>3. /\ b2 \in Builders /\ b2.names = b.names /\ b2.values = b.values
      /\ b2.nameCounter = b.nameCounter /\ b2.valueCounter = b.valueCounter
      /\ b2.conditions = b.conditions /\ b2.conditionOperators = b.conditionOperators
  BY <1>1, <1>2 DEF failed, Builders
<1>4. b2.err
  BY <1>1, <1>2 DEF failed, Builders
<1>5. Fresh(b2) /\ Kept(b, b2)
  BY <1>3 DEF Fresh, Kept, Sound
<1>6. Sound(b2) /\ (Public(b) => Public(b2))
  BY <1>3, <1>5 DEF Sound, Grounds, Public
<1>. QED
  BY <1>1, <1>4, <1>5, <1>6

\* The write conditions are joined to those there are.
LEMMA WritesJoin ==
    ASSUME QueryInv, NEW b, Sound(b), NEW b2, b2 = addWriteConditions(b)
    PROVE  /\ Sound(b2) /\ Kept(b, b2) /\ (b.err => b2.err) /\ (Public(b) => Public(b2))
           /\ ~b2.err => \A item : AllHold(b2, item) <=>
                AllHold(b, item) /\ \A i \in 1..Len(q.writeConditions) : WriteSays(q.writeConditions[i], item)
<1>1. PICK wc : wc = q.writeConditions
  OBVIOUS
<1>2. wc \in Seq(ConditionCalls) /\ \A i \in 1..Len(wc) : wc[i].field \notin Secret
  BY <1>1 DEF QueryInv, Typed, QueryRecords, WritePart
<1>3. CASE anyEncrypted(q.writeConditions)
  <2>1. b2 = failed(b)
    BY <1>3 DEF addWriteConditions
  <2>. QED
    BY <2>1, FailedSound
<1>4. CASE ~anyEncrypted(q.writeConditions)
  <2>1. PICK cs : cs = [i \in 1..Len(wc) |-> [to |-> "conditions", link |-> "AND", name |-> wc[i].field,
                                              op |-> wc[i].op, vals |-> wc[i].vals]]
    OBVIOUS
  <2>2. b2 = addClauses(b, cs)
    BY <1>1, <1>4, <2>1 DEF addWriteConditions
  <2>3. PICK N : N \in Nat /\ N = Len(wc)
    BY <1>2, LenProperties
  <2>4. \A i \in 1..N : /\ cs[i] \in Clauses /\ cs[i].to = "conditions" /\ cs[i].link = "AND"
                        /\ cs[i].name = wc[i].field /\ cs[i].op = wc[i].op /\ cs[i].vals = wc[i].vals
    <3>. SUFFICES ASSUME NEW i \in 1..N
                  PROVE  /\ cs[i] \in Clauses /\ cs[i].to = "conditions" /\ cs[i].link = "AND"
                         /\ cs[i].name = wc[i].field /\ cs[i].op = wc[i].op /\ cs[i].vals = wc[i].vals
      OBVIOUS
    <3>1. wc[i] \in ConditionCalls
      BY <1>2, <2>3, ElementOfSeq
    <3>2. wc[i].field \in STRING /\ wc[i].op \in Words /\ wc[i].vals \in Seq(Nat)
      BY <3>1 DEF ConditionCalls
    <3>3. cs[i] = [to |-> "conditions", link |-> "AND", name |-> wc[i].field, op |-> wc[i].op, vals |-> wc[i].vals]
      BY <2>1, <2>3
    <3>. QED
      BY <3>2, <3>3 DEF Clauses, Lists, Links
  <2>5. Len(cs) = N /\ cs \in Seq(Clauses)
    BY <2>1, <2>3, <2>4
  <2>6. Joins(b, b2, cs)
    BY <2>2, <2>4, <2>5, ConditionsJoin
  <2>7. \A item : \A i \in 1..N : ClauseSays(cs[i], item) = WriteSays(wc[i], item)
    BY <2>4 DEF ClauseSays, WriteSays
  <2>8. \A i \in 1..N : cs[i].name \notin Secret
    BY <1>2, <2>3, <2>4
  <2>. QED
    BY <1>1, <2>3, <2>4, <2>5, <2>6, <2>7, <2>8 DEF Joins
<1>. QED
  BY <1>3, <1>4

\* The conditions of Where that are on no key are joined to those there are.
LEMMA WheresJoin ==
    ASSUME QueryInv, NEW b, Sound(b), NEW b2, b2 = addWhereConditions(b)
    PROVE  /\ Sound(b2) /\ Kept(b, b2) /\ (b.err => b2.err) /\ (Public(b) => Public(b2))
           /\ ~b2.err => \A item : AllHold(b2, item) <=>
                AllHold(b, item) /\ \A i \in 1..Len(q.conditions) :
                    splitConditionsByKey(PrimaryKey, q.conditions[i]) \/ Says(q.conditions[i], item)
<1>1. PICK wc : wc = q.conditions
  OBVIOUS
<1>2. wc \in Seq(ConditionCalls)
  BY <1>1 DEF QueryInv, Typed, QueryRecords
<1>3. CASE anyEncrypted(q.conditions)
  <2>1. b2 = failed(b)
    BY <1>3 DEF addWhereConditions
  <2>. QED
    BY <2>1, FailedSound
<1>4. CASE ~anyEncrypted(q.conditions)
  <2>1. PICK chosen : chosen = {i \in DOMAIN wc : ~splitConditionsByKey(PrimaryKey, wc[i])}
    OBVIOUS
  <2>2. PICK L \in Lists : L = "conditions"
    BY ListNames
  <2>3. PICK cs : cs = clausesOf(wc, chosen, L)
    OBVIOUS
  <2>4. b2 = addClauses(b, cs)
    BY <1>1, <1>4, <2>1, <2>2, <2>3 DEF addWhereConditions
  <2>5. PICK N : N \in Nat /\ N = Len(wc)
    BY <1>2, LenProperties
  <2>6. /\ cs \in Seq(Clauses) /\ Len(cs) = N
        /\ \A i \in 1..N :
              /\ cs[i].to = (IF i \in chosen THEN L ELSE "none") /\ cs[i].link = "AND"
              /\ cs[i].name = resolveAttributeName(wc[i].field)
              /\ cs[i].op = wc[i].op /\ cs[i].vals = wc[i].vals
    BY <1>2, <2>3, <2>5, ClausesAre
  <2>7. Joins(b, b2, cs)
    BY <2>4, <2>6, ConditionsJoin
  <2>8. \A item : \A i \in 1..N : ClauseSays(cs[i], item) = Says(wc[i], item)
    BY <2>6 DEF ClauseSays, Says
  <2>9. \A i \in 1..N : cs[i].to = "conditions" <=> ~splitConditionsByKey(PrimaryKey, wc[i])
    <3>1. DOMAIN wc = 1..N
      BY <1>2, <2>5
    <3>. QED
      BY <2>1, <2>2, <2>6, <3>1
  <2>10. ASSUME ~b2.err, NEW item
         PROVE  AllHold(b2, item) <=>
                  AllHold(b, item) /\ \A i \in 1..N : splitConditionsByKey(PrimaryKey, wc[i]) \/ Says(wc[i], item)
    <3>1. AllHold(b2, item) <=>
            AllHold(b, item) /\ \A i \in 1..N : cs[i].to = "conditions" => ClauseSays(cs[i], item)
      BY <2>6, <2>7, <2>10 DEF Joins
    <3>. QED
      BY <2>8, <2>9, <3>1
  <2>12. \A i \in 1..N : cs[i].name \notin Secret
    <3>. SUFFICES ASSUME NEW i \in 1..N PROVE cs[i].name \notin Secret
      OBVIOUS
    <3>1. wc[i] \in ConditionCalls
      BY <1>2, <2>5, ElementOfSeq
    <3>2. ~rejectEncryptedConditionField(wc[i].field)
      BY <1>1, <1>4, <2>5 DEF anyEncrypted
    <3>. QED
      BY <2>6, <3>1, <3>2, Resolves DEF ConditionCalls
  <2>11. Sound(b2) /\ Kept(b, b2) /\ (b.err => b2.err) /\ (Public(b) => Public(b2))
    BY <2>6, <2>7, <2>12 DEF Joins
  <2>. QED
    BY <1>1, <2>5, <2>10, <2>11
<1>. QED
  BY <1>3, <1>4

\* Raw expressions bring no condition of the builder, or an error.
LEMMA MergeIs ==
    ASSUME NEW b, Sound(b), NEW b2, b2 = mergeConditionExpressions(b)
    PROVE  b2 = b \/ (b2 = failed(b) /\ b2.err)
<1>1. b2 = b \/ b2 = failed(b)
  BY DEF mergeConditionExpressions
<1>. QED
  BY <1>1, FailedSound

\* The condition of a write.
LEMMA BuildIs ==
    ASSUME QueryInv, NEW b, Sound(b), NEW includeWhere \in BOOLEAN,
           NEW b2, b2 = buildConditionExpression(b, includeWhere)
    PROVE  /\ Sound(b2) /\ (b.err => b2.err)
           /\ Public(b) => Public(b2)
           /\ ~b2.err => /\ Kept(b, b2)
                         /\ \A item : AllHold(b2, item) <=>
                              /\ AllHold(b, item)
                              /\ \A i \in 1..Len(q.writeConditions) : WriteSays(q.writeConditions[i], item)
                              /\ includeWhere => \A i \in 1..Len(q.conditions) :
                                    splitConditionsByKey(PrimaryKey, q.conditions[i]) \/ Says(q.conditions[i], item)
<1>1. PICK b3, b4 : b3 = addWriteConditions(b) /\ b4 = addWhereConditions(b3)
  OBVIOUS
<1>2. /\ Sound(b3) /\ Kept(b, b3) /\ (b.err => b3.err) /\ (Public(b) => Public(b3))
      /\ ~b3.err => \A item : AllHold(b3, item) <=>
           AllHold(b, item) /\ \A i \in 1..Len(q.writeConditions) : WriteSays(q.writeConditions[i], item)
  BY <1>1, WritesJoin
<1>3. CASE ~includeWhere
  <2>1. b2 = mergeConditionExpressions(b3)
    BY <1>1, <1>3 DEF buildConditionExpression
  <2>2. b2 = b3 \/ (b2 = failed(b3) /\ b2.err)
    BY <1>2, <2>1, MergeIs
  <2>3. Sound(b2) /\ (Public(b3) => Public(b2))
    BY <1>2, <2>2, FailedSound
  <2>. QED
    BY <1>2, <1>3, <2>2, <2>3
<1>4. CASE includeWhere
  <2>1. b2 = mergeConditionExpressions(b4)
    BY <1>1, <1>4 DEF buildConditionExpression
  <2>2. /\ Sound(b4) /\ Kept(b3, b4) /\ (b3.err => b4.err) /\ (Public(b3) => Public(b4))
        /\ ~b4.err => \A item : AllHold(b4, item) <=>
             AllHold(b3, item) /\ \A i \in 1..Len(q.conditions) :
                 splitConditionsByKey(PrimaryKey, q.conditions[i]) \/ Says(q.conditions[i], item)
    BY <1>1, <1>2, WheresJoin
  <2>3. b2 = b4 \/ (b2 = failed(b4) /\ b2.err)
    BY <2>1, <2>2, MergeIs
  <2>4. Sound(b2) /\ (Public(b4) => Public(b2))
    BY <2>2, <2>3, FailedSound
  <2>5. Kept(b, b4)
    BY <1>2, <2>2 DEF Kept
  <2>6. b.err => b2.err
    BY <1>2, <2>2, <2>3
  <2>. QED
    BY <1>2, <1>4, <2>2, <2>3, <2>4, <2>5, <2>6
<1>. QED
  BY <1>3, <1>4

\* A finite set as a sequence.
LEMMA SeqOfSet ==
    ASSUME NEW S, IsFiniteSet(S)
    PROVE  SetToSeq(S) \in Seq(S)
<1>1. Cardinality(S) \in Nat /\ ExistsBijection(1..Cardinality(S), S)
  BY FS_CardinalityType
<1>2. PICK f \in [1..Cardinality(S) -> S] : IsInjective(f)
  BY <1>1 DEF ExistsBijection, Bijection, Injection
<1>3. SetToSeq(S) \in [1..Cardinality(S) -> S]
  BY <1>2 DEF SetToSeq
<1>. QED
  BY <1>1, <1>3

\* One clause for the conditions, or for another list.
LEMMA ClauseJoins ==
    ASSUME NEW b, Sound(b), NEW c \in Clauses, c.link = "AND", NEW b2, b2 = addClause(b, c)
    PROVE  /\ Sound(b2) /\ Kept(b, b2) /\ (b.err => b2.err)
           /\ Public(b) /\ (c.to = "conditions" => c.name \notin Secret) => Public(b2)
           /\ ~b2.err => \A item : AllHold(b2, item) <=>
                AllHold(b, item) /\ (c.to = "conditions" => ClauseSays(c, item))
<1>1. PICK cs : cs = <<c>>
  OBVIOUS
<1>2. cs \in Seq(Clauses) /\ Len(cs) = 1 /\ cs[1] = c
  BY <1>1
<1>3. b2 = addClauses(b, cs)
  BY <1>1, OneClauseOnly
<1>4. \A k \in 1..Len(cs) : k = 1
  BY <1>2
<1>5. Joins(b, b2, cs)
  BY <1>2, <1>3, <1>4, ConditionsJoin
<1>6. 1 \in 1..Len(cs)
  BY <1>2
<1>. QED
  BY <1>2, <1>4, <1>5, <1>6 DEF Joins

\* The condition on the version.
LEMMA VersionJoins ==
    ASSUME QueryInv, NEW b, Sound(b), NEW b2, b2 = versionCondition(b)
    PROVE  /\ Sound(b2) /\ Kept(b, b2) /\ (b.err => b2.err) /\ (Public(b) => Public(b2))
           /\ ~b2.err => \A item : AllHold(b2, item) <=>
                AllHold(b, item) /\ item[DBName[VersionField]] = q.model[VersionField]
<1>1. PICK v : v = q.model[VersionField]
  OBVIOUS
<1>2. v \in Nat /\ DBName[VersionField] \in STRING
  BY <1>1, KeysAre, NamesAre DEF QueryInv, Typed, QueryRecords
<1>3. PICK vals : vals = <<v>>
  OBVIOUS
<1>4. vals \in Seq(Nat) /\ vals[1] = v
  BY <1>2, <1>3
<1>5. PICK c : c = [to |-> "conditions", link |-> "AND", name |-> DBName[VersionField], op |-> "=", vals |-> vals]
  OBVIOUS
<1>6. /\ c \in Clauses /\ c.to = "conditions" /\ c.link = "AND" /\ c.name = DBName[VersionField]
      /\ c.op = "=" /\ c.vals = vals
  BY <1>2, <1>4, <1>5 DEF Clauses, Lists, Links, Words
<1>7. b2 = addClause(b, c)
  BY <1>1, <1>3, <1>6 DEF versionCondition, AddConditionExpression, addClause
<1>8. \A item : ClauseSays(c, item) <=> item[DBName[VersionField]] = v
  <2>1. canonical("=") = "="
    BY DEF canonical
  <2>. QED
    BY <1>4, <1>6, <2>1 DEF ClauseSays, Compare
<1>9. c.name \notin Secret
  BY <1>6, KeysAre, NamesAre DEF Secret
<1>. QED
  BY <1>1, <1>6, <1>7, <1>8, <1>9, ClauseJoins

\* A field that Update takes is one of the model's.
LEMMA KnownIs ==
    ASSUME NEW f, AttributeMetadata(f) # {}
    PROVE  resolveGoFieldName(f) \in DOMAIN DBName
<1>1. resolveGoFieldName(f) \in AttributeMetadata(f)
  BY DEF resolveGoFieldName
<1>. QED
  BY <1>1 DEF AttributeMetadata

\* The update of a model checks its version.
LEMMA UpdateExpressionIs ==
    ASSUME QueryInv, NEW fields \in Seq(STRING), NEW b, b = buildUpdateExpression(fields)
    PROVE  /\ Sound(b) /\ Public(b)
           /\ ~b.err => \A item : AllHold(b, item) <=> item[DBName[VersionField]] = q.model[VersionField]
<1>0. q.model \in [DOMAIN DBName -> Nat]
  BY DEF QueryInv, Typed, QueryRecords
<1>23. CASE \E i \in 1..Len(fields) : ~updatable(fields[i])
  <2>1. b = failed(EmptyBuilder)
    BY <1>23 DEF buildUpdateExpression
  <2>. QED
    BY <2>1, EmptySound, FailedSound
<1>24. CASE \A i \in 1..Len(fields) : updatable(fields[i])
  <2>1. PICK S, T : S = metadataFieldsToUpdate /\ T = UpdatedAt
    OBVIOUS
  <2>2. S \subseteq DOMAIN DBName /\ IsFiniteSet(S) /\ T \subseteq DOMAIN DBName /\ IsFiniteSet(T)
    <3>1. S \subseteq DOMAIN DBName /\ T \subseteq DOMAIN DBName
      BY <2>1, QueryAssumption DEF metadataFieldsToUpdate
    <3>2. IsFiniteSet(DOMAIN DBName)
      BY QueryAssumption
    <3>. QED
      BY <3>1, <3>2, FS_Subset
  <2>3. PICK listed, times : listed = SetToSeq(S) /\ times = SetToSeq(T)
    OBVIOUS
  <2>4. listed \in Seq(S) /\ times \in Seq(T)
    BY <2>2, <2>3, SeqOfSet
  <2>5. PICK chosen : chosen = IF fields = <<>> THEN listed ELSE fields
    OBVIOUS
  <2>6. PICK N : N \in Nat /\ N = Len(chosen)
    BY <2>4, <2>5, LenProperties
  <2>7. PICK M : M \in Nat /\ M = Len(times)
    BY <2>4, LenProperties
  <2>8. ASSUME NEW i \in 1..N PROVE chosen[i] \in STRING /\ resolveGoFieldName(chosen[i]) \in DOMAIN DBName
    <3>1. CASE fields = <<>>
      <4>1. chosen[i] \in DOMAIN DBName
        BY <2>2, <2>4, <2>5, <2>6, <3>1, ElementOfSeq
      <4>2. AttributeMetadata(chosen[i]) # {}
        BY <4>1 DEF AttributeMetadata
      <4>. QED
        BY <4>1, <4>2, KnownIs, NamesAre
    <3>2. CASE fields # <<>>
      <4>1. chosen = fields /\ i \in 1..Len(fields)
        BY <2>5, <2>6, <3>2
      <4>2. AttributeMetadata(chosen[i]) # {}
        BY <1>24, <4>1 DEF updatable
      <4>3. chosen[i] \in STRING
        BY <4>1, ElementOfSeq
      <4>. QED
        BY <4>2, <4>3, KnownIs
    <3>. QED
      BY <3>1, <3>2
  <2>9. PICK updates : updates = [i \in 1..(Len(chosen) + Len(times)) |->
                       IF i <= Len(chosen)
                       THEN [field |-> chosen[i], op |-> "SET",
                             vals |-> <<q.model[resolveGoFieldName(chosen[i])]>>]
                       ELSE [field |-> times[i - Len(chosen)], op |-> "SET", vals |-> <<Now>>]]
    OBVIOUS
  <2>10. updates \in Seq(ConditionCalls)
    <3>1. ASSUME NEW i \in 1..(N + M) PROVE updates[i] \in ConditionCalls
      <4>1. CASE i <= N
        <5>1. i \in 1..N
          BY <2>6, <4>1
        <5>2. q.model[resolveGoFieldName(chosen[i])] \in Nat /\ chosen[i] \in STRING
          BY <1>0, <2>8, <5>1
        <5>3. PICK vals : vals = <<q.model[resolveGoFieldName(chosen[i])]>>
          OBVIOUS
        <5>4. vals \in Seq(Nat)
          BY <5>2, <5>3
        <5>5. updates[i] = [field |-> chosen[i], op |-> "SET", vals |-> vals]
          BY <2>6, <2>7, <2>9, <4>1, <5>3
        <5>. QED
          BY <5>2, <5>4, <5>5 DEF ConditionCalls, Words
      <4>2. CASE ~(i <= N)
        <5>1. i - N \in 1..M
          BY <2>6, <2>7, <4>2
        <5>2. times[i - N] \in STRING
          BY <2>2, <2>4, <2>7, <5>1, ElementOfSeq, NamesAre
        <5>3. PICK vals : vals = <<Now>>
          OBVIOUS
        <5>4. vals \in Seq(Nat)
          BY <5>3 DEF Now
        <5>5. updates[i] = [field |-> times[i - N], op |-> "SET", vals |-> vals]
          BY <2>6, <2>7, <2>9, <4>2, <5>3
        <5>. QED
          BY <5>2, <5>4, <5>5 DEF ConditionCalls, Words
      <4>. QED
        BY <4>1, <4>2
    <3>2. updates = [i \in 1..(N + M) |-> updates[i]] /\ N + M \in Nat
      BY <2>6, <2>7, <2>9
    <3>. QED
      BY <3>1, <3>2, IsASeq
  <2>11. PICK passed : passed = {i \in 1..Len(chosen) : resolveGoFieldName(chosen[i]) \in keptBack}
    OBVIOUS
  <2>12. PICK some : some = DOMAIN updates \ passed
    OBVIOUS
  <2>13. PICK L \in Lists : L = "updates"
    BY ListNames
  <2>14. PICK cs, sets, empty : /\ cs = clausesOf(updates, some, L) /\ sets = addClauses(EmptyBuilder, cs)
                                /\ empty = EmptyBuilder
    OBVIOUS
  <2>15. /\ cs \in Seq(Clauses) /\ Len(cs) = Len(updates)
         /\ \A i \in 1..Len(updates) : cs[i].to = (IF i \in some THEN L ELSE "none") /\ cs[i].link = "AND"
    BY <2>10, <2>14, ClausesAre
  <2>16. \A i \in 1..Len(cs) : cs[i].to # "conditions" /\ cs[i].link = "AND"
    BY <2>13, <2>15
  <2>17. Joins(empty, sets, cs)
    BY <2>14, <2>15, <2>16, ConditionsJoin, EmptySound
  <2>18. Sound(sets) /\ Public(sets) /\ (~sets.err => \A item : AllHold(sets, item))
    BY <2>14, <2>16, <2>17, EmptySound DEF Joins
  <2>19. PICK b1 : b1 = versionCondition(sets)
    OBVIOUS
  <2>20. /\ Sound(b1) /\ (sets.err => b1.err) /\ (Public(sets) => Public(b1))
         /\ ~b1.err => \A item : AllHold(b1, item) <=>
              AllHold(sets, item) /\ item[DBName[VersionField]] = q.model[VersionField]
    BY <2>18, <2>19, VersionJoins
  <2>21. b = AddUpdateAdd(b1, DBName[VersionField], 1)
    BY <1>24, <2>1, <2>3, <2>5, <2>9, <2>11, <2>12, <2>13, <2>14, <2>19 DEF buildUpdateExpression
  <2>22. PICK one : one = <<1>>
    OBVIOUS
  <2>23. PICK c : c = [to |-> "updates", link |-> "AND", name |-> DBName[VersionField], op |-> "ADD", vals |-> one]
    OBVIOUS
  <2>24. /\ c \in Clauses /\ c.to = "updates" /\ c.link = "AND" /\ c.name = DBName[VersionField]
         /\ c.op = "ADD" /\ c.vals = one
    <3>0. one \in Seq(Nat)
      BY <2>22
    <3>1. one \in Seq(Nat) /\ DBName[VersionField] \in STRING
      BY <3>0, KeysAre, NamesAre
    <3>2. PICK x \in Links, y \in Lists, z \in Words : x = "AND" /\ y = "updates" /\ z = "ADD"
      BY DEF Links, Lists, Words
    <3>3. c = [to |-> y, link |-> x, name |-> DBName[VersionField], op |-> z, vals |-> one]
      BY <2>23, <3>2
    <3>. QED
      BY <3>1, <3>2, <3>3 DEF Clauses
  <2>25. b = addClause(b1, c)
    BY <2>21, <2>22, <2>24 DEF AddUpdateAdd, addClause
  <2>26. /\ Sound(b) /\ (b1.err => b.err)
         /\ Public(b1) /\ (c.to = "conditions" => c.name \notin Secret) => Public(b)
         /\ ~b.err => \A item : AllHold(b, item) <=>
              AllHold(b1, item) /\ (c.to = "conditions" => ClauseSays(c, item))
    BY <2>20, <2>24, <2>25, ClauseJoins
  <2>. QED
    BY <2>18, <2>20, <2>24, <2>26
<1>. QED
  BY <1>23, <1>24

(***************************************************************************)
(* The requests of a write.                                                *)
(***************************************************************************)
\* What is stored is an item or nothing.
LEMMA StoredIs ==
    ASSUME NEW key
    PROVE  Stored(key) \subseteq Things
BY DEF Stored, Things

\* The condition of a request, apart from what was there before the query's own.
LEMMA WriteSaid ==
    ASSUME QueryInv, ~q.builderErr, NEW b, Sound(b), NEW includeWhere \in BOOLEAN,
           NEW r, r.b = buildConditionExpression(b, includeWhere), ~r.b.err, NEW item \in Things
    PROVE  WriteHolds(r, item) <=>
             /\ AllHold(b, item) /\ AllSay(asked.writes, item)
             /\ includeWhere => \A i \in 1..Len(asked.where) :
                   splitConditionsByKey(PrimaryKey, asked.where[i]) \/ Says(asked.where[i], item)
<1>1. PICK b2 : b2 = r.b
  OBVIOUS
<1>2. ~b2.err
  BY <1>1
<1>3. Sound(b2)
  BY <1>1, BuildIs
<1>4. AllHold(b2, item) <=>
        /\ AllHold(b, item)
        /\ \A i \in 1..Len(q.writeConditions) : WriteSays(q.writeConditions[i], item)
        /\ includeWhere => \A i \in 1..Len(q.conditions) :
              splitConditionsByKey(PrimaryKey, q.conditions[i]) \/ Says(q.conditions[i], item)
  BY <1>1, <1>2, BuildIs
<1>5. AllSay(asked.writes, item) <=>
        /\ \A i \in 1..Len(q.writeConditions) : WriteSays(q.writeConditions[i], item)
        /\ \A i \in 1..Len(q.raw) : Says(q.raw[i].cond, item)
  BY DEF QueryInv, WritePart, WriteSays
<1>6. q.conditions = asked.where
  BY DEF QueryInv, WherePart
<1>7. WriteHolds(r, item) <=> AllHold(b2, item) /\ \A i \in 1..Len(q.raw) : Says(q.raw[i].cond, item)
  <2>1. q.raw \in Seq(Raws)
    BY DEF QueryInv, Typed, QueryRecords
  <2>2. PICK conds : conds = [i \in 1..Len(q.raw) |-> q.raw[i].cond]
    OBVIOUS
  <2>3. Len(conds) = Len(q.raw) /\ \A i \in 1..Len(q.raw) : conds[i] = q.raw[i].cond
    BY <2>1, <2>2, LenProperties
  <2>4. AllSay(conds, item) <=> \A i \in 1..Len(q.raw) : Says(q.raw[i].cond, item)
    BY <2>3 DEF AllSay
  <2>. QED
    BY <1>1, <1>3, <2>2, <2>4, SoundHolds DEF WriteHolds
<1>. QED
  BY <1>4, <1>5, <1>6, <1>7

\* Create.
LEMMA CreateMeans ==
    ASSUME QueryInv, Sent(CreateRequest), NEW item \in Stored(Nil)
    PROVE  WriteHolds(CreateRequest, item) <=> AllSay(asked.writes, item)
<1>1. PICK r, b : r = CreateRequest /\ b = EmptyBuilder
  OBVIOUS
<1>2. r.b = buildConditionExpression(b, FALSE) /\ ~r.b.err /\ ~q.builderErr
  BY <1>1 DEF Sent, CreateRequest
<1>3. Sound(b) /\ AllHold(b, item) /\ item \in Things
  BY <1>1, EmptySound, StoredIs
<1>4. WriteHolds(r, item) <=> AllHold(b, item) /\ AllSay(asked.writes, item)
  BY <1>2, <1>3, WriteSaid
<1>. QED
  BY <1>1, <1>3, <1>4

\* Update.
LEMMA UpdateMeans ==
    ASSUME QueryInv, NEW fields \in FieldLists, NEW r, r = UpdateRequest(fields), Sent(r), NEW item \in Stored(r.key)
    PROVE  WriteHolds(r, item) <=>
               WriteMeant(item) /\ item[DBName[VersionField]] = q.model[VersionField]
<1>1. PICK b : b = buildUpdateExpression(fields)
  OBVIOUS
<1>7. fields \in Seq(STRING)
  BY CallsAre
<1>2. r.b = buildConditionExpression(b, TRUE) /\ ~r.b.err /\ ~q.builderErr
  BY <1>1 DEF Sent, UpdateRequest
<1>3. Sound(b) /\ item \in Things
  BY <1>1, <1>7, UpdateExpressionIs, StoredIs
<1>4. ~b.err
  BY <1>2, <1>3, BuildIs
<1>5. AllHold(b, item) <=> item[DBName[VersionField]] = q.model[VersionField]
  BY <1>1, <1>4, <1>7, UpdateExpressionIs
<1>6. WriteHolds(r, item) <=>
        /\ AllHold(b, item) /\ AllSay(asked.writes, item)
        /\ \A i \in 1..Len(asked.where) :
              splitConditionsByKey(PrimaryKey, asked.where[i]) \/ Says(asked.where[i], item)
  BY <1>2, <1>3, WriteSaid
<1>. QED
  BY <1>5, <1>6 DEF WriteMeant

\* Delete.
LEMMA DeleteMeans ==
    ASSUME QueryInv, Sent(DeleteRequest), NEW item \in Stored(DeleteRequest.key)
    PROVE  WriteHolds(DeleteRequest, item) <=>
               WriteMeant(item) /\ q.model[VersionField] \in {Zero, item[DBName[VersionField]]}
<1>1. PICK r, b : /\ r = DeleteRequest
                  /\ b = IF q.model[VersionField] # Zero THEN versionCondition(EmptyBuilder) ELSE EmptyBuilder
  OBVIOUS
<1>2. r.b = buildConditionExpression(b, TRUE) /\ ~r.b.err /\ ~q.builderErr
  BY <1>1 DEF Sent, DeleteRequest
<1>3. Sound(b) /\ item \in Things
  <2>1. Sound(versionCondition(EmptyBuilder))
    BY VersionJoins, EmptySound
  <2>. QED
    BY <1>1, <2>1, EmptySound, StoredIs
<1>4. ~b.err
  BY <1>2, <1>3, BuildIs
<1>5. AllHold(b, item) <=> q.model[VersionField] \in {Zero, item[DBName[VersionField]]}
  <2>1. CASE q.model[VersionField] # Zero
    <3>1. b = versionCondition(EmptyBuilder)
      BY <1>1, <2>1
    <3>2. AllHold(b, item) <=> AllHold(EmptyBuilder, item) /\ item[DBName[VersionField]] = q.model[VersionField]
      BY <1>4, <3>1, VersionJoins, EmptySound
    <3>. QED
      BY <2>1, <3>2, EmptySound
  <2>2. CASE q.model[VersionField] = Zero
    BY <1>1, <2>2, EmptySound
  <2>. QED
    BY <2>1, <2>2
<1>6. WriteHolds(r, item) <=>
        /\ AllHold(b, item) /\ AllSay(asked.writes, item)
        /\ \A i \in 1..Len(asked.where) :
              splitConditionsByKey(PrimaryKey, asked.where[i]) \/ Says(asked.where[i], item)
  BY <1>2, <1>3, WriteSaid
<1>. QED
  BY <1>1, <1>5, <1>6 DEF WriteMeant

(***************************************************************************)
(* The requests of an UpdateBuilder.                                       *)
(***************************************************************************)
\* The clauses of its conditions.
OwnClauses(cs, conds, keepLogicOp) ==
    /\ cs \in Seq(Clauses) /\ Len(cs) = Len(conds)
    /\ \A i \in 1..Len(conds) :
          /\ cs[i].to = "conditions" /\ cs[i].name = resolveAttributeName(conds[i].cond.field)
          /\ cs[i].op = conds[i].cond.op /\ cs[i].vals = conds[i].cond.vals
          /\ cs[i].link = IF keepLogicOp THEN conds[i].logicOp ELSE "AND"

LEMMA OwnClausesAre ==
    ASSUME QueryInv, NEW keepLogicOp \in BOOLEAN
    PROVE  \E cs : OwnClauses(cs, ub.conditions, keepLogicOp) /\ withUpdateConditions(keepLogicOp) = addClauses(ub.expr, cs)
<1>1. PICK conds : conds = ub.conditions
  OBVIOUS
<1>2. conds \in Seq(UpdateConditions)
  BY <1>1 DEF QueryInv, Typed, UpdateBuilders
<1>3. PICK cs : cs = [i \in 1..Len(conds) |->
        [to |-> "conditions", link |-> IF keepLogicOp THEN conds[i].logicOp ELSE "AND",
         name |-> resolveAttributeName(conds[i].cond.field),
         op |-> conds[i].cond.op, vals |-> conds[i].cond.vals]]
  OBVIOUS
<1>4. withUpdateConditions(keepLogicOp) = addClauses(ub.expr, cs)
  BY <1>1, <1>3 DEF withUpdateConditions
<1>5. PICK N : N \in Nat /\ N = Len(conds)
  BY <1>2, LenProperties
<1>6. ASSUME NEW i \in 1..N
      PROVE  /\ cs[i] \in Clauses
             /\ cs[i].to = "conditions" /\ cs[i].name = resolveAttributeName(conds[i].cond.field)
             /\ cs[i].op = conds[i].cond.op /\ cs[i].vals = conds[i].cond.vals
             /\ cs[i].link = IF keepLogicOp THEN conds[i].logicOp ELSE "AND"
  <2>1. conds[i] \in UpdateConditions
    BY <1>2, <1>5, ElementOfSeq
  <2>2. conds[i].cond \in ConditionCalls /\ conds[i].logicOp \in Links
    BY <2>1 DEF UpdateConditions
  <2>3. /\ conds[i].cond.field \in STRING /\ conds[i].cond.op \in Words /\ conds[i].cond.vals \in Seq(Nat)
    BY <2>2 DEF ConditionCalls
  <2>4. resolveAttributeName(conds[i].cond.field) \in STRING
    BY <2>3, Resolves
  <2>5. PICK x \in Links : x = IF keepLogicOp THEN conds[i].logicOp ELSE "AND"
    BY <2>2 DEF Links
  <2>6. PICK y \in Lists : y = "conditions"
    BY ListNames
  <2>7. cs[i] = [to |-> y, link |-> x, name |-> resolveAttributeName(conds[i].cond.field),
                 op |-> conds[i].cond.op, vals |-> conds[i].cond.vals]
    BY <1>3, <1>5, <2>5, <2>6
  <2>. QED
    BY <2>3, <2>4, <2>5, <2>6, <2>7 DEF Clauses
<1>7. Len(cs) = N /\ cs \in Seq(Clauses)
  BY <1>3, <1>5, <1>6
<1>. QED
  BY <1>1, <1>4, <1>5, <1>6, <1>7 DEF OwnClauses

\* Its builder, with its conditions.
Own(own, cs, L) ==
    /\ own \in Builders /\ Fresh(own) /\ Kept(ub.expr, own) /\ own.updates = ub.expr.updates
    /\ \A i \in 1..Len(own.conditions) : \E k \in 1..Len(cs) : Stands(own, own.conditions[i], cs[k])
    /\ ~own.err => /\ Len(own.conditions) = Len(cs) /\ Separated(own.conditions, own.conditionOperators)
                   /\ \A k \in 1..Len(cs) : /\ Stands(own, own.conditions[k], cs[k])
                                            /\ k > 1 => own.conditionOperators[k - 1] = cs[k].link

LEMMA OwnIs ==
    ASSUME QueryInv, NEW cs \in Seq(Clauses), \A k \in 1..Len(cs) : cs[k].to = "conditions",
           NEW own, own = addClauses(ub.expr, cs)
    PROVE  Own(own, cs, "conditions")
<1>1. PICK b : b = ub.expr
  OBVIOUS
<1>2. b \in Builders /\ Fresh(b) /\ b.conditions = <<>> /\ b.conditionOperators = <<>>
  BY <1>1 DEF QueryInv, Typed, UpdateBuilders, UpdatePart
<1>3. PICK L \in Lists, U \in Lists : L = "conditions" /\ U = "updates"
  BY ListNames
<1>4. Folded(b, own, cs, Len(cs), L) /\ Folded(b, own, cs, Len(cs), U)
  BY <1>1, <1>2, ClausesAdded
<1>5. /\ ListOf(b, L) = <<>> /\ LinksOf(b, L) = <<>> /\ L \in Chained
      /\ ListOf(own, L) = own.conditions /\ LinksOf(own, L) = own.conditionOperators
      /\ ListOf(b, U) = b.updates /\ ListOf(own, U) = own.updates
  BY <1>2, <1>3, ListNames
<1>6. own \in Builders /\ Fresh(own) /\ Kept(b, own)
  BY <1>2, <1>4 DEF Folded
<1>7. own.updates = b.updates
  <2>1. \A k \in 1..Len(cs) : cs[k].to # U
    BY <1>3
  <2>. QED
    BY <1>2, <1>4, <1>5, <2>1, Untouched
<1>8. \A i \in 1..Len(own.conditions) : \E k \in 1..Len(cs) : Stands(own, own.conditions[i], cs[k])
  <2>1. Len(<<>>) = 0
    OBVIOUS
  <2>2. \A i \in 1..Len(own.conditions) : i > 0
    OBVIOUS
  <2>. QED
    BY <1>2, <1>4, <1>5, <2>1, <2>2 DEF Folded, NewTerms, Is
<1>9. ~own.err => /\ Len(own.conditions) = Len(cs) /\ Separated(own.conditions, own.conditionOperators)
                  /\ \A k \in 1..Len(cs) : /\ Stands(own, own.conditions[k], cs[k])
                                           /\ k > 1 => own.conditionOperators[k - 1] = cs[k].link
  <2>1. \A k \in 1..Len(cs) : cs[k].to = L
    BY <1>3
  <2>. QED
    BY <1>2, <1>4, <1>5, <2>1 DEF Folded, OneByOne, Is
<1>. QED
  BY <1>1, <1>6, <1>7, <1>8, <1>9 DEF Own

\* The conditions are reset, the placeholders stay.
LEMMA ResetSound ==
    ASSUME NEW own \in Builders, Fresh(own), NEW b, b = ResetConditions(Clone(own))
    PROVE  Sound(b) /\ Public(b) /\ Kept(own, b) /\ (own.err => b.err) /\ \A item : AllHold(b, item)
<1>1. b = [own EXCEPT !.conditions = <<>>, !.conditionOperators = <<>>]
  BY DEF ResetConditions, Clone
<1>2. /\ b \in Builders /\ b.names = own.names /\ b.values = own.values
      /\ b.nameCounter = own.nameCounter /\ b.valueCounter = own.valueCounter
      /\ b.conditions = <<>> /\ b.conditionOperators = <<>>
  <2>1. PICK none : none = <<>>
    OBVIOUS
  <2>2. none \in Seq(Terms) /\ none \in Seq(Links)
    BY <2>1
  <2>3. b = [own EXCEPT !.conditions = none, !.conditionOperators = none]
    BY <1>1, <2>1
  <2>4. b \in Builders
    BY <2>2, <2>3 DEF Builders
  <2>5. b.conditions = none /\ b.conditionOperators = none
    BY <2>3 DEF Builders
  <2>6. /\ b.names = own.names /\ b.values = own.values
        /\ b.nameCounter = own.nameCounter /\ b.valueCounter = own.valueCounter
    BY <2>3 DEF Builders
  <2>. QED
    BY <2>1, <2>4, <2>5, <2>6
<1>3. own.err => b.err
  BY <1>1 DEF Builders
<1>4. Len(b.conditions) = 0 /\ Len(b.conditionOperators) = 0
  BY <1>2
<1>5. Fresh(b) /\ Kept(own, b)
  BY <1>2 DEF Fresh, Kept
<1>. QED
  BY <1>2, <1>3, <1>4, <1>5 DEF Sound, Public, AllHold, Separated

\* An update changes what it was told to.
LEMMA UpdatedMeans ==
    ASSUME QueryInv, ~ub.buildErr, NEW own, Kept(ub.expr, own), own.updates = ub.expr.updates, NEW item
    PROVE  Updated(own, item) = [a \in DOMAIN item |-> EffectOf(a, item[a])]
<1>1. PICK b, effects : b = ub.expr /\ effects = asked.effects
  OBVIOUS
<1>2. /\ \A i \in 1..Len(b.updates) : Matches(b, b.updates[i], effects)
      /\ \A a \in DOMAIN effects : \E i \in 1..Len(b.updates) : b.names[b.updates[i].name] = a
  BY <1>1 DEF QueryInv, UpdatePart
<1>3. \A i \in 1..Len(own.updates) : /\ Matches(own, own.updates[i], effects)
                                     /\ own.names[own.updates[i].name] = b.names[own.updates[i].name]
  <2>1. \A u : Matches(b, u, effects) => Matches(own, u, effects) /\ own.names[u.name] = b.names[u.name]
    BY <1>1, MatchesStays
  <2>. QED
    BY <1>1, <1>2, <2>1
<1>4. \A a \in DOMAIN effects : \E i \in 1..Len(own.updates) : own.names[own.updates[i].name] = a
  BY <1>1, <1>2, <1>3
<1>. DEFINE mine(a) == {i \in 1..Len(own.updates) : own.names[own.updates[i].name] = a}
            result(a) == IF mine(a) = {} THEN item[a]
                         ELSE changed(own, own.updates[CHOOSE i \in mine(a) : TRUE], item[a])
<1>5. ASSUME NEW a PROVE result(a) = EffectOf(a, item[a])
  <2>1. CASE a \notin DOMAIN effects
    <3>1. ASSUME NEW i \in mine(a) PROVE FALSE
      <4>1. Matches(own, own.updates[i], effects)
        BY <1>3
      <4>2. own.names[own.updates[i].name] \in DOMAIN effects
        BY <4>1 DEF Matches, Refers
      <4>. QED
        BY <2>1, <4>2
    <3>2. mine(a) = {}
      BY <3>1
    <3>. QED
      BY <1>1, <2>1, <3>2 DEF EffectOf
  <2>2. CASE a \in DOMAIN effects
    <3>1. mine(a) # {}
      BY <1>4, <2>2
    <3>2. PICK i : i = CHOOSE j \in mine(a) : TRUE
      OBVIOUS
    <3>3. i \in mine(a)
      BY <3>1, <3>2
    <3>4. PICK u : u = own.updates[i]
      OBVIOUS
    <3>5. PICK vals \in Seq(Nat), a2 \in DOMAIN effects :
              Refers(own, u.name, u.vals, a2, vals) /\ Does(u.action, vals, effects[a2])
      BY <1>3, <3>3, <3>4 DEF Matches
    <3>6. a2 = a
      BY <3>3, <3>4, <3>5 DEF Refers
    <3>7. Does(u.action, vals, effects[a])
      BY <3>5, <3>6
    <3>8. Len(vals) = 1 => own.values[u.vals[1]] = vals[1]
      BY <3>5 DEF Refers
    <3>9. PICK e : e = effects[a]
      OBVIOUS
    <3>10. EffectOf(a, item[a]) = CASE e[1] = "SET"     -> e[2]
                                    [] e[1] = "ADD"     -> IF item[a] = Absent THEN e[2] ELSE item[a] + e[2]
                                    [] e[1] = "REMOVE"  -> Absent
                                    [] e[1] = "DEFAULT" -> IF item[a] = Absent THEN e[2] ELSE item[a]
      BY <1>1, <2>2, <3>9 DEF EffectOf
    <3>11. result(a) = changed(own, u, item[a])
      BY <3>1, <3>2, <3>4
    <3>. HIDE DEF result, mine
    <3>12. CASE u.action = "SET" /\ Len(vals) = 1 /\ e = <<"SET", vals[1]>>
      <4>1. e[1] = "SET" /\ e[2] = vals[1]
        BY <3>12
      <4>. QED
        BY <3>8, <3>10, <3>11, <3>12, <4>1 DEF changed
    <3>13. CASE u.action = "ADD" /\ Len(vals) = 1 /\ e = <<"ADD", vals[1]>>
      <4>1. e[1] = "ADD" /\ e[2] = vals[1]
        BY <3>13
      <4>. QED
        BY <3>8, <3>10, <3>11, <3>13, <4>1 DEF changed
    <3>14. CASE u.action = "IF_NOT_EXISTS" /\ Len(vals) = 1 /\ e = <<"DEFAULT", vals[1]>>
      <4>1. e[1] = "DEFAULT" /\ e[2] = vals[1]
        BY <3>14
      <4>. QED
        BY <3>8, <3>10, <3>11, <3>14, <4>1 DEF changed
    <3>15. CASE u.action = "REMOVE" /\ e = <<"REMOVE">>
      <4>1. e[1] = "REMOVE"
        BY <3>15
      <4>. QED
        BY <3>10, <3>11, <3>15, <4>1 DEF changed
    <3>. QED
      BY <3>7, <3>9, <3>12, <3>13, <3>14, <3>15 DEF Does
  <2>. QED
    BY <2>1, <2>2
<1>6. Updated(own, item) = [a \in DOMAIN item |-> result(a)]
  BY DEF Updated
<1>. HIDE DEF result, mine
<1>7. [a \in DOMAIN item |-> result(a)] = [a \in DOMAIN item |-> EffectOf(a, item[a])]
  BY <1>5
<1>. QED
  BY <1>6, <1>7

\* The operators that are sent are those that were asked for.
SentOps(operators, keepLogicOp) == [j \in 1..Len(operators) |-> IF keepLogicOp THEN operators[j] ELSE "AND"]

\* Execute and ExecuteWithResult.
LEMMA ResultMeans ==
    ASSUME QueryInv, NEW keepLogicOp \in BOOLEAN, NEW r, r = joined(withUpdateConditions(keepLogicOp)),
           BuilderSends(r), ~q.builderErr, NEW item \in Stored(r.key)
    PROVE  /\ UpdateDone(r, item) <=>
                  /\ AllSay(asked.writes, item)
                  /\ AndOr([i \in 1..Len(asked.updates) |-> Says(asked.updates[i], item)],
                           SentOps(asked.updateOps, keepLogicOp))
           /\ Updated(r.own, item) = [a \in DOMAIN item |-> EffectOf(a, item[a])]
<1>0. ~ub.buildErr /\ ~r.own.err /\ ~r.b.err
  BY DEF BuilderSends
<1>1. PICK own, b : own = withUpdateConditions(keepLogicOp) /\ b = ResetConditions(Clone(own))
  OBVIOUS
<1>2. r.own = own /\ r.b = buildConditionExpression(b, FALSE)
  BY <1>1 DEF joined
<1>3. PICK cs : OwnClauses(cs, ub.conditions, keepLogicOp) /\ own = addClauses(ub.expr, cs)
  BY <1>1, OwnClausesAre
<1>4. cs \in Seq(Clauses) /\ \A k \in 1..Len(cs) : cs[k].to = "conditions"
  BY <1>3 DEF OwnClauses
<1>5. Own(own, cs, "conditions")
  BY <1>3, <1>4, OwnIs
<1>6. own \in Builders /\ Fresh(own) /\ Kept(ub.expr, own) /\ own.updates = ub.expr.updates /\ ~own.err
  BY <1>0, <1>2, <1>5 DEF Own
<1>7. Sound(b) /\ Kept(own, b) /\ AllHold(b, item)
  BY <1>1, <1>6, ResetSound
<1>8. ~r.b.err /\ ~q.builderErr /\ item \in Things
  BY <1>0, StoredIs
<1>9. WriteHolds(r, item) <=> AllSay(asked.writes, item)
  BY <1>2, <1>7, <1>8, WriteSaid
<1>10. Kept(own, r.b)
  <2>1. Kept(b, r.b)
    BY <1>2, <1>7, <1>8, BuildIs
  <2>. QED
    BY <1>7, <2>1 DEF Kept
<1>11. Updated(own, item) = [a \in DOMAIN item |-> EffectOf(a, item[a])]
  BY <1>0, <1>6, UpdatedMeans
<1>12. PICK s, l, us, ops : /\ s = own.conditions /\ l = own.conditionOperators
                            /\ us = asked.updates /\ ops = asked.updateOps
  OBVIOUS
<1>22. PICK os : os = SentOps(ops, keepLogicOp)
  OBVIOUS
<1>23. s \in Seq(Terms) /\ l \in Seq(Links) /\ us \in Seq(ConditionCalls) /\ ops \in Seq(Links)
  BY <1>6, <1>12 DEF QueryInv, Typed, Asks, Builders
<1>24. os \in Seq(Links) /\ Len(os) = Len(ops)
       /\ \A j \in 1..Len(ops) : os[j] = IF keepLogicOp THEN ops[j] ELSE "AND"
  <2>1. PICK n : n \in Nat /\ n = Len(ops)
    BY <1>23, LenProperties
  <2>2. os = [j \in 1..n |-> IF keepLogicOp THEN ops[j] ELSE "AND"]
    BY <1>22, <2>1 DEF SentOps
  <2>3. ASSUME NEW j \in 1..n PROVE os[j] \in Links /\ os[j] = IF keepLogicOp THEN ops[j] ELSE "AND"
    <3>1. ops[j] \in Links
      BY <1>23, <2>1, ElementOfSeq
    <3>. QED
      BY <2>2, <3>1 DEF Links
  <2>. QED
    BY <2>1, <2>2, <2>3
<1>13. s \in Seq(Terms) /\ l \in Seq(Links) /\ us \in Seq(ConditionCalls) /\ os \in Seq(Links)
  BY <1>23, <1>24
<1>14. PICK N : N \in Nat /\ N = Len(us)
  BY <1>13, LenProperties
<1>25. /\ Len(ub.conditions) = N /\ Separated(us, ops)
       /\ \A i \in 1..N : ub.conditions[i].cond = us[i] /\ (i > 1 => ops[i - 1] = ub.conditions[i].logicOp)
  BY <1>0, <1>12, <1>14 DEF QueryInv, UpdateConditionPart
<1>15. /\ Separated(us, os)
       /\ \A i \in 1..N : i > 1 => os[i - 1] = IF keepLogicOp THEN ub.conditions[i].logicOp ELSE "AND"
  <2>1. Separated(us, os)
    BY <1>24, <1>25 DEF Separated
  <2>2. ASSUME NEW i \in 1..N, i > 1 PROVE os[i - 1] = IF keepLogicOp THEN ub.conditions[i].logicOp ELSE "AND"
    <3>1. Len(ops) = N - 1
      BY <1>14, <1>25, <2>2 DEF Separated
    <3>2. i - 1 \in 1..Len(ops)
      BY <1>14, <2>2, <3>1
    <3>. QED
      BY <1>24, <1>25, <2>2, <3>2
  <2>. QED
    BY <2>1, <2>2
<1>16. /\ Len(cs) = N
       /\ \A i \in 1..N : /\ cs[i].name = resolveAttributeName(us[i].field) /\ cs[i].op = us[i].op
                          /\ cs[i].vals = us[i].vals /\ (i > 1 => os[i - 1] = cs[i].link)
  BY <1>3, <1>15, <1>25 DEF OwnClauses
<1>17. /\ Len(s) = N /\ Separated(s, l)
       /\ \A i \in 1..N : Stands(own, s[i], cs[i]) /\ (i > 1 => l[i - 1] = os[i - 1])
  BY <1>5, <1>6, <1>12, <1>16 DEF Own
<1>18. l = os
  <2>1. Len(l) = Len(os) /\ Len(l) = IF N = 0 THEN 0 ELSE N - 1
    BY <1>14, <1>15, <1>17 DEF Separated
  <2>2. ASSUME NEW j \in 1..Len(l) PROVE l[j] = os[j]
    <3>1. j + 1 \in 1..N /\ j + 1 > 1 /\ (j + 1) - 1 = j
      BY <1>14, <2>1
    <3>. QED
      BY <1>17, <3>1
  <2>. QED
    BY <1>13, <2>1, <2>2, SeqEqual
<1>19. ASSUME NEW i \in 1..N PROVE termHolds(s[i], r.b, item) = Says(us[i], item)
  <2>1. cs[i] \in Clauses /\ cs[i].to # "updates"
    BY <1>4, <1>16, ElementOfSeq
  <2>2. Stands(r.b, s[i], cs[i])
    BY <1>10, <1>17, StandsKept
  <2>3. termHolds(s[i], r.b, item) = ClauseSays(cs[i], item)
    BY <2>1, <2>2, TermMeans
  <2>. QED
    BY <1>16, <2>3 DEF ClauseSays, Says
<1>20. [i \in 1..Len(s) |-> termHolds(s[i], r.b, item)] = [i \in 1..Len(us) |-> Says(us[i], item)]
  BY <1>14, <1>17, <1>19
<1>21. ExpressionHolds(s, l, r.b, item) = AndOr([i \in 1..Len(us) |-> Says(us[i], item)], os)
  BY <1>18, <1>20 DEF ExpressionHolds
<1>. QED
  BY <1>2, <1>9, <1>11, <1>12, <1>21, <1>22 DEF UpdateDone

\* Joined by OR only, one of them is enough.
LEMMA OrsAny ==
    ASSUME NEW holds, NEW n \in Nat \ {0}, n = Len(holds), NEW operators,
           \A j \in 1..(n - 1) : operators[j] = "OR"
    PROVE  AndOr(holds, operators) <=> \E i \in 1..n : holds[i]
<1>1. ASSUME NEW i \in 1..n, holds[i] PROVE AndOr(holds, operators)
  <2>1. i = 1 \/ i - 1 \in 1..(n - 1)
    OBVIOUS
  <2>2. i = n \/ i \in 1..(n - 1)
    OBVIOUS
  <2>3. i = 1 \/ operators[i - 1] = "OR"
    BY <2>1
  <2>4. i = n \/ operators[i] = "OR"
    BY <2>2
  <2>5. \A k \in i..i : k = i /\ ~(k < i)
    OBVIOUS
  <2>6. \A k \in i..i : holds[k] /\ (k < i => operators[k] = "AND")
    BY <1>1, <2>5
  <2>7. i <= i
    OBVIOUS
  <2>. QED
    BY <2>3, <2>4, <2>6, <2>7 DEF AndOr
<1>2. ASSUME AndOr(holds, operators) PROVE \E i \in 1..n : holds[i]
  <2>1. PICK i \in 1..n, j \in 1..n : i <= j /\ \A k \in i..j : holds[k]
    BY <1>2 DEF AndOr
  <2>2. i \in i..j
    BY <2>1
  <2>. QED
    BY <2>1, <2>2
<1>. QED
  BY <1>1, <1>2

\* Joined alike, they say what the calls say.
LEMMA AlikeSays ==
    ASSUME QueryInv, ~ub.buildErr, NEW keepLogicOp \in BOOLEAN,
           IF keepLogicOp THEN ~MixesAndOr ELSE ~OrAsked, NEW item
    PROVE  AndOr([i \in 1..Len(asked.updates) |-> Says(asked.updates[i], item)],
                 SentOps(asked.updateOps, keepLogicOp)) <=> UpdateSays(item)
<1>1. PICK us, ops, os, holds : /\ us = asked.updates /\ ops = asked.updateOps
                                /\ os = SentOps(ops, keepLogicOp)
                                /\ holds = [i \in 1..Len(us) |-> Says(us[i], item)]
  OBVIOUS
<1>2. us \in Seq(ConditionCalls) /\ ops \in Seq(Links) /\ Separated(us, ops)
  BY <1>1 DEF QueryInv, Typed, Asks, UpdateConditionPart
<1>3. PICK N : N \in Nat /\ N = Len(us)
  BY <1>2, LenProperties
<1>4. Len(holds) = N /\ \A i \in 1..N : holds[i] = Says(us[i], item)
  BY <1>1, <1>3
<1>5. Len(ops) = IF N = 0 THEN 0 ELSE N - 1
  BY <1>2, <1>3 DEF Separated
<1>6. \A j \in 1..Len(ops) : ops[j] \in Links
  BY <1>2, ElementOfSeq
<1>7. Range(ops) = {ops[j] : j \in 1..Len(ops)}
  BY <1>2 DEF Range
<1>8. \A j \in 1..Len(ops) : os[j] = IF keepLogicOp THEN ops[j] ELSE "AND"
  BY <1>1 DEF SentOps
<1>9. CASE OrAsked
  <2>1. keepLogicOp /\ "OR" \in Range(ops) /\ ~("AND" \in Range(ops))
    BY <1>1, <1>9 DEF OrAsked, MixesAndOr
  <2>2. \A j \in 1..Len(ops) : os[j] = "OR"
    BY <1>6, <1>7, <1>8, <2>1 DEF Links
  <2>3. N # 0
    <3>1. Len(ops) # 0
      BY <1>7, <2>1
    <3>. QED
      BY <1>5, <3>1
  <2>4. AndOr(holds, os) <=> \E i \in 1..N : holds[i]
    BY <1>3, <1>4, <1>5, <2>2, <2>3, OrsAny
  <2>. QED
    BY <1>1, <1>3, <1>4, <1>9, <2>4 DEF UpdateSays
<1>10. CASE ~OrAsked
  <2>1. \A j \in 1..Len(ops) : os[j] = "AND"
    BY <1>1, <1>6, <1>7, <1>8, <1>10 DEF OrAsked, Links
  <2>2. \A j \in 1..N : j < N => os[j] = "AND"
    <3>1. \A j \in 1..N : j < N => j \in 1..Len(ops)
      BY <1>3, <1>5
    <3>. QED
      BY <2>1, <3>1
  <2>3. AndOr(holds, os) <=> \A i \in 1..N : holds[i]
    BY <1>3, <1>4, <2>2, AndsAll
  <2>. QED
    BY <1>1, <1>3, <1>4, <1>10, <2>3 DEF UpdateSays, AllSay
<1>. QED
  BY <1>9, <1>10

LEMMA WritesMean == QueryInv => WriteMeansCalls
<1>. SUFFICES ASSUME QueryInv PROVE WriteMeansCalls
  OBVIOUS
<1>1. Sent(CreateRequest) => \A item \in Stored(Nil) :
          WriteHolds(CreateRequest, item) <=> AllSay(asked.writes, item)
  BY CreateMeans
<1>2. ASSUME NEW fields \in FieldLists, NEW r, r = UpdateRequest(fields), Sent(r), NEW item \in Stored(r.key)
      PROVE  WriteHolds(r, item) <=>
                 WriteMeant(item) /\ item[DBName[VersionField]] = q.model[VersionField]
  BY <1>2, UpdateMeans
<1>3. Sent(DeleteRequest) => \A item \in Stored(DeleteRequest.key) :
          WriteHolds(DeleteRequest, item) <=>
              WriteMeant(item) /\ q.model[VersionField] \in {Zero, item[DBName[VersionField]]}
  BY DeleteMeans
<1>4. ASSUME ~q.builderErr, NEW keepLogicOp \in BOOLEAN, IF keepLogicOp THEN ~MixesAndOr ELSE ~OrAsked,
             NEW r, r = joined(withUpdateConditions(keepLogicOp))
      PROVE  UpdateAsAsked(r)
  <2>. SUFFICES ASSUME BuilderSends(r), NEW item \in Stored(r.key)
                PROVE  /\ UpdateDone(r, item) <=> AllSay(asked.writes, item) /\ UpdateSays(item)
                       /\ Updated(r.own, item) = [a \in DOMAIN item |-> EffectOf(a, item[a])]
    BY DEF UpdateAsAsked
  <2>1. ~ub.buildErr
    BY DEF BuilderSends
  <2>. QED
    BY <1>4, <2>1, ResultMeans, AlikeSays
<1>5. ~q.builderErr => /\ OrAsked \/ UpdateAsAsked(UpdateExecute)
                       /\ MixesAndOr \/ UpdateAsAsked(ExecuteWithResult)
  BY <1>4 DEF UpdateExecute, ExecuteWithResult
<1>. QED
  BY <1>1, <1>2, <1>3, <1>5 DEF WriteMeansCalls, ConditionRefused

\* Create, Update and Delete happen exactly if what their calls ask of the stored item
\* holds, for any calls on any table; so does the update of an UpdateBuilder, which
\* then changes what it was told to, unless its query refused a call or OrCondition is
\* used with Execute or beside Condition (query.go:701, 813, 1043;
\* update_builder.go:320, 416).
THEOREM WritesAsAsked == QuerySpec => []WriteMeansCalls
BY QueryKept, WritesMean, PTL

(***************************************************************************)
(* The requests of a read: the query's filters, then its conditions.       *)
(***************************************************************************)
LEMMA EffectiveIs == effectiveBuilder = newBuilder(q)
BY DEF effectiveBuilder, newBuilder, Clone

\* b1 has the key conditions, b2 the other conditions too; keys and others are their clauses.
Applied(b, b1, b2, cs, keyed, keys, others) ==
    /\ b1 = addClauses(b, keys) /\ b2 = addClauses(b1, others)
    /\ keys \in Seq(Clauses) /\ others \in Seq(Clauses) /\ Len(keys) = Len(cs) /\ Len(others) = Len(cs)
    /\ \A i \in 1..Len(cs) :
          /\ keys[i].to = (IF i \in keyed THEN "keyConditions" ELSE "none") /\ keys[i].link = "AND"
          /\ keys[i].name = resolveAttributeName(cs[i].field)
          /\ keys[i].op = cs[i].op /\ keys[i].vals = cs[i].vals
    /\ \A i \in 1..Len(cs) :
          /\ others[i].to = (IF i \in keyed THEN "none" ELSE "filterConditions") /\ others[i].link = "AND"
          /\ others[i].name = resolveAttributeName(cs[i].field)
          /\ others[i].op = cs[i].op /\ others[i].vals = cs[i].vals

LEMMA AppliedIs ==
    ASSUME QueryInv, NEW b, NEW keyed
    PROVE  \E b1, keys, others :
              Applied(b, b1, applyKeyAndFilterConditions(b, keyed), q.conditions, keyed, keys, others)
<1>1. PICK cs : cs = q.conditions
  OBVIOUS
<1>2. cs \in Seq(ConditionCalls)
  BY <1>1 DEF QueryInv, Typed, QueryRecords
<1>3. PICK N : N \in Nat /\ N = Len(cs)
  BY <1>2, LenProperties
<1>4. DOMAIN cs = 1..N
  BY <1>2, <1>3
<1>5. PICK K \in Lists, F \in Lists : K = "keyConditions" /\ F = "filterConditions"
  BY ListNames
<1>6. PICK rest : rest = DOMAIN cs \ keyed
  OBVIOUS
<1>7. PICK keys, others : keys = clausesOf(cs, keyed, K) /\ others = clausesOf(cs, rest, F)
  OBVIOUS
<1>8. PICK b1, b2 : b1 = addClauses(b, keys) /\ b2 = addClauses(b1, others)
  OBVIOUS
<1>9. applyKeyAndFilterConditions(b, keyed) = b2
  BY <1>1, <1>5, <1>6, <1>7, <1>8 DEF applyKeyAndFilterConditions
<1>10. /\ keys \in Seq(Clauses) /\ Len(keys) = N
       /\ \A i \in 1..N :
             /\ keys[i].to = (IF i \in keyed THEN K ELSE "none") /\ keys[i].link = "AND"
             /\ keys[i].name = resolveAttributeName(cs[i].field)
             /\ keys[i].op = cs[i].op /\ keys[i].vals = cs[i].vals
  BY <1>2, <1>3, <1>7, ClausesAre
<1>11. /\ others \in Seq(Clauses) /\ Len(others) = N
       /\ \A i \in 1..N :
             /\ others[i].to = (IF i \in rest THEN F ELSE "none") /\ others[i].link = "AND"
             /\ others[i].name = resolveAttributeName(cs[i].field)
             /\ others[i].op = cs[i].op /\ others[i].vals = cs[i].vals
  BY <1>2, <1>3, <1>7, ClausesAre
<1>12. \A i \in 1..N : i \in rest <=> i \notin keyed
  BY <1>4, <1>6
<1>13. Applied(b, b1, b2, cs, keyed, keys, others)
  BY <1>3, <1>5, <1>8, <1>10, <1>11, <1>12 DEF Applied
<1>. QED
  BY <1>1, <1>9, <1>13

\* A Scan is a Query without key conditions.
LEMMA ScanIs ==
    ASSUME QueryInv
    PROVE  applyScanConditions = applyKeyAndFilterConditions(newBuilder(q), {})
<1>1. PICK cs, b : cs = q.conditions /\ b = newBuilder(q)
  OBVIOUS
<1>2. cs \in Seq(ConditionCalls) /\ b \in Builders
  BY <1>1 DEF QueryInv, Typed, QueryRecords, FilterPart
<1>3. PICK K \in Lists : K = "keyConditions"
  BY ListNames
<1>4. PICK keys : keys = clausesOf(cs, {}, K)
  OBVIOUS
<1>5. keys \in Seq(Clauses) /\ Len(keys) = Len(cs) /\ \A i \in 1..Len(cs) : keys[i].to = "none"
  BY <1>2, <1>4, ClausesAre
<1>6. addClauses(b, keys) = b
  <2>1. Folded(b, addClauses(b, keys), keys, Len(keys), K)
    BY <1>2, <1>5, ClausesAdded
  <2>. QED
    BY <1>5, <2>1 DEF Folded
<1>7. DOMAIN cs \ {} = DOMAIN cs
  OBVIOUS
<1>8. applyKeyAndFilterConditions(b, {}) = addClauses(addClauses(b, keys), clausesOf(cs, DOMAIN cs, "filterConditions"))
  BY <1>1, <1>3, <1>4, <1>7 DEF applyKeyAndFilterConditions
<1>9. applyScanConditions = addClauses(b, clausesOf(cs, DOMAIN cs, "filterConditions"))
  BY <1>1, EffectiveIs DEF applyScanConditions
<1>. QED
  BY <1>1, <1>6, <1>8, <1>9

\* What is compiled.
LEMMA CompileIs ==
    ASSUME QueryInv
    PROVE  \E keyed : Compile.b = applyKeyAndFilterConditions(newBuilder(q), keyed)
<1>1. CASE q.index # ""
  <2>1. Compile = compileWithExplicitIndex
    BY <1>1 DEF Compile
  <2>. QED
    BY <2>1, EffectiveIs, ScanIs DEF compileWithExplicitIndex
<1>2. CASE q.index = ""
  <2>1. Compile = compileWithBestIndex
    BY <1>2 DEF Compile
  <2>. QED
    BY <2>1, EffectiveIs, ScanIs DEF compileWithBestIndex
<1>. QED
  BY <1>1, <1>2

\* The two steps.
Steps(b, b1, b2, keys, others) ==
    /\ b1 \in Builders /\ b2 \in Builders /\ (b1.err => b2.err) /\ (b.err => b1.err)
    /\ b2.keyConditions = b1.keyConditions /\ b1.filterConditions = b.filterConditions
    /\ Folded(b, b1, keys, Len(keys), "keyConditions") /\ Folded(b1, b2, others, Len(others), "filterConditions")
    /\ Fresh(b) => Fresh(b1) /\ Kept(b, b1) /\ Fresh(b2) /\ Kept(b1, b2) /\ Kept(b, b2)

LEMMA StepsAre ==
    ASSUME NEW b \in Builders, NEW b1, NEW b2, NEW cs, NEW keyed, NEW keys, NEW others,
           Applied(b, b1, b2, cs, keyed, keys, others)
    PROVE  Steps(b, b1, b2, keys, others)
<1>1. PICK K \in Lists, F \in Lists : K = "keyConditions" /\ F = "filterConditions"
  BY ListNames
<1>2. keys \in Seq(Clauses) /\ others \in Seq(Clauses) /\ b1 = addClauses(b, keys) /\ b2 = addClauses(b1, others)
  BY DEF Applied
<1>3. Folded(b, b1, keys, Len(keys), K) /\ Folded(b, b1, keys, Len(keys), F)
  BY <1>2, ClausesAdded
<1>4. b1 \in Builders /\ (b.err => b1.err) /\ (Fresh(b) => Fresh(b1) /\ Kept(b, b1))
  BY <1>3 DEF Folded
<1>5. Folded(b1, b2, others, Len(others), K) /\ Folded(b1, b2, others, Len(others), F)
  BY <1>2, <1>4, ClausesAdded
<1>6. b2 \in Builders /\ (b1.err => b2.err) /\ (Fresh(b1) => Fresh(b2) /\ Kept(b1, b2))
  BY <1>5 DEF Folded
<1>7. (\A k \in 1..Len(others) : others[k].to # K) /\ (\A k \in 1..Len(keys) : keys[k].to # F)
  BY <1>1 DEF Applied
<1>8. ListOf(b2, K) = ListOf(b1, K) /\ ListOf(b1, F) = ListOf(b, F)
  BY <1>3, <1>4, <1>5, <1>7, Untouched
<1>9. b2.keyConditions = b1.keyConditions /\ b1.filterConditions = b.filterConditions
  BY <1>1, <1>8, ListNames
<1>10. Fresh(b) => Kept(b, b2)
  BY <1>4, <1>6 DEF Kept
<1>. QED
  BY <1>1, <1>3, <1>4, <1>5, <1>6, <1>9, <1>10 DEF Steps

\* Names of a Query that are compared.
LEMMA NothingSecret ==
    ASSUME QueryInv, NEW keyed, NEW b2, b2 = applyKeyAndFilterConditions(newBuilder(q), keyed)
    PROVE  /\ comparedNames(b2.keyConditions, b2) \cap Secret = {}
           /\ comparedNames(b2.filterConditions, b2) \cap Secret = {}
<1>1. PICK b, cs : b = newBuilder(q) /\ cs = q.conditions
  OBVIOUS
<1>2. /\ b \in Builders /\ Clear(b) /\ Grounded(b) /\ b.keyConditions = <<>>
      /\ cs \in Seq(ConditionCalls) /\ \A i \in 1..Len(cs) : ~rejectEncryptedConditionField(cs[i].field)
  BY <1>1 DEF QueryInv, Typed, QueryRecords, FilterPart, WherePart
<1>3. PICK b1, keys, others : Applied(b, b1, b2, cs, keyed, keys, others)
  BY <1>1, AppliedIs
<1>4. Steps(b, b1, b2, keys, others)
  BY <1>2, <1>3, StepsAre
<1>5. \A i \in 1..Len(cs) : resolveAttributeName(cs[i].field) \notin Secret
  <2>. SUFFICES ASSUME NEW i \in 1..Len(cs) PROVE resolveAttributeName(cs[i].field) \notin Secret
    OBVIOUS
  <2>1. cs[i] \in ConditionCalls
    BY <1>2, ElementOfSeq
  <2>. QED
    BY <1>2, <2>1, Resolves DEF ConditionCalls
<1>6. NamesFrom(b, b1, keys, Len(keys)) /\ NamesFrom(b1, b2, others, Len(others))
  BY <1>4 DEF Steps, Folded
<1>7. Clear(b1)
  BY <1>2, <1>3, <1>5, <1>6 DEF NamesFrom, Clear, Applied
<1>8. Clear(b2)
  BY <1>3, <1>5, <1>6, <1>7 DEF NamesFrom, Clear, Applied
<1>9. DOMAIN b.names \subseteq DOMAIN b2.names /\ DOMAIN b1.names \subseteq DOMAIN b2.names
  BY <1>6 DEF NamesFrom
<1>10. \A i \in 1..Len(b2.keyConditions) : /\ b2.keyConditions[i].name \in DOMAIN b2.names
                                           /\ b2.keyConditions[i].op # "GROUP"
  <2>. SUFFICES ASSUME NEW i \in 1..Len(b2.keyConditions)
                PROVE  b2.keyConditions[i].name \in DOMAIN b2.names /\ b2.keyConditions[i].op # "GROUP"
    OBVIOUS
  <2>1. b2.keyConditions = b1.keyConditions /\ b1.keyConditions \in Seq(Terms)
    BY <1>4 DEF Steps, Builders
  <2>2. b1.keyConditions[i] \in Terms
    BY <2>1, ElementOfSeq
  <2>3. i > Len(b.keyConditions)
    BY <1>2
  <2>4. \E k \in 1..Len(keys) : Is(b, b1, keys, "keyConditions", i, k)
    BY <1>4, <2>1, <2>3, ListNames DEF Steps, Folded, NewTerms
  <2>5. b1.keyConditions[i].name \in DOMAIN b1.names
    BY <2>4, ListNames DEF Is
  <2>. QED
    BY <1>9, <2>1, <2>2, <2>5 DEF Terms, Operators
<1>11. \A i \in 1..Len(b2.filterConditions) :
         LET t == b2.filterConditions[i] IN
         /\ t.op # "GROUP" => t.name \in DOMAIN b2.names
         /\ t.op = "GROUP" => \A j \in 1..Len(t.terms) : t.terms[j].name \in DOMAIN b2.names
  <2>. SUFFICES ASSUME NEW i \in 1..Len(b2.filterConditions), NEW t, t = b2.filterConditions[i]
                PROVE  /\ t.op # "GROUP" => t.name \in DOMAIN b2.names
                       /\ t.op = "GROUP" => \A j \in 1..Len(t.terms) : t.terms[j].name \in DOMAIN b2.names
    OBVIOUS
  <2>1. PICK F, s, s2 : F = "filterConditions" /\ s = b.filterConditions /\ s2 = b2.filterConditions
    OBVIOUS
  <2>2. ListOf(b1, F) = s /\ ListOf(b2, F) = s2 /\ Folded(b1, b2, others, Len(others), F)
    BY <1>4, <2>1, ListNames DEF Steps
  <2>3. s \in Seq(Terms \cup GroupTerms) /\ Len(s) \in Nat
    BY <1>2, <2>1, LenProperties DEF Builders
  <2>4. CASE i \in 1..Len(s)
    <3>1. t = s[i]
      BY <2>1, <2>2, <2>4 DEF Folded, Continues
    <3>2. AllGround(b, t)
      BY <1>2, <2>1, <2>4, <3>1 DEF Grounded
    <3>. QED
      BY <1>9, <3>2 DEF AllGround, Grounds
  <2>5. CASE i > Len(s)
    <3>1. PICK k \in 1..Len(others) : Is(b1, b2, others, F, i, k)
      BY <2>1, <2>2, <2>5 DEF Folded, NewTerms
    <3>2. t.name \in DOMAIN b2.names /\ t.op = canonical(others[k].op)
      BY <2>1, <2>2, <3>1 DEF Is
    <3>3. t.op # "GROUP"
      BY <3>2, CanonicalIs DEF Operators
    <3>. QED
      BY <3>2, <3>3
  <2>6. i \in 1..Len(s) \/ i > Len(s)
    BY <2>3
  <2>. QED
    BY <2>4, <2>5, <2>6
<1>12. comparedNames(b2.keyConditions, b2) \cap Secret = {}
  BY <1>8, <1>10 DEF comparedNames, Clear
<1>13. comparedNames(b2.filterConditions, b2) \cap Secret = {}
  BY <1>8, <1>11 DEF comparedNames, Clear
<1>. QED
  BY <1>12, <1>13

LEMMA PublicIs ==
    ASSUME NEW b \in Builders, Public(b)
    PROVE  comparedNames(b.conditions, b) \cap Secret = {}
<1>1. \A i \in 1..Len(b.conditions) : b.conditions[i].op # "GROUP" /\ b.names[b.conditions[i].name] \notin Secret
  BY SimpleTerms DEF Public
<1>. QED
  BY <1>1 DEF comparedNames

LEMMA Unseen == QueryInv => EncryptedNeverCompared
<1>. SUFFICES ASSUME QueryInv PROVE EncryptedNeverCompared
  OBVIOUS
<1>1. /\ comparedNames(Compile.b.keyConditions, Compile.b) \cap Secret = {}
      /\ comparedNames(Compile.b.filterConditions, Compile.b) \cap Secret = {}
  BY CompileIs, NothingSecret
<1>2. /\ comparedNames(compileScan.b.keyConditions, compileScan.b) \cap Secret = {}
      /\ comparedNames(compileScan.b.filterConditions, compileScan.b) \cap Secret = {}
  <2>1. compileScan.b = applyScanConditions
    BY DEF compileScan
  <2>. QED
    BY <2>1, ScanIs, NothingSecret
<1>3. ASSUME NEW b, Sound(b), Public(b), NEW where \in BOOLEAN,
             NEW b2, b2 = buildConditionExpression(b, where)
      PROVE  comparedNames(b2.conditions, b2) \cap Secret = {}
  <2>1. Sound(b2) /\ Public(b2)
    BY <1>3, BuildIs
  <2>. QED
    BY <2>1, PublicIs DEF Sound
<1>4. /\ comparedNames(CreateRequest.b.conditions, CreateRequest.b) \cap Secret = {}
      /\ comparedNames(DeleteRequest.b.conditions, DeleteRequest.b) \cap Secret = {}
      /\ \A fields \in FieldLists :
            comparedNames(UpdateRequest(fields).b.conditions, UpdateRequest(fields).b) \cap Secret = {}
  <2>1. comparedNames(CreateRequest.b.conditions, CreateRequest.b) \cap Secret = {}
    BY <1>3, EmptySound DEF CreateRequest
  <2>2. PICK b : b = IF q.model[VersionField] # Zero THEN versionCondition(EmptyBuilder) ELSE EmptyBuilder
    OBVIOUS
  <2>3. Sound(b) /\ Public(b)
    <3>1. Sound(versionCondition(EmptyBuilder)) /\ Public(versionCondition(EmptyBuilder))
      BY VersionJoins, EmptySound
    <3>. QED
      BY <2>2, <3>1, EmptySound
  <2>4. DeleteRequest.b = buildConditionExpression(b, TRUE)
    BY <2>2 DEF DeleteRequest
  <2>5. comparedNames(DeleteRequest.b.conditions, DeleteRequest.b) \cap Secret = {}
    BY <1>3, <2>3, <2>4
  <2>6. ASSUME NEW fields \in FieldLists
        PROVE  comparedNames(UpdateRequest(fields).b.conditions, UpdateRequest(fields).b) \cap Secret = {}
    <3>1. fields \in Seq(STRING)
      BY CallsAre
    <3>2. Sound(buildUpdateExpression(fields)) /\ Public(buildUpdateExpression(fields))
      BY <3>1, UpdateExpressionIs
    <3>. QED
      BY <1>3, <3>2 DEF UpdateRequest
  <2>. QED
    BY <2>1, <2>5, <2>6
<1>5. ASSUME ~ub.buildErr, NEW keepLogicOp \in BOOLEAN, NEW r, r = joined(withUpdateConditions(keepLogicOp))
      PROVE  /\ comparedNames(r.own.conditions, r.own) \cap Secret = {}
             /\ comparedNames(r.b.conditions, r.b) \cap Secret = {}
  <2>1. PICK own, b, b2 : /\ own = withUpdateConditions(keepLogicOp) /\ b = ResetConditions(Clone(own))
                          /\ b2 = buildConditionExpression(b, FALSE)
    OBVIOUS
  <2>2. r.own = own /\ r.b = b2
    BY <1>5, <2>1 DEF joined
  <2>3. PICK cs : OwnClauses(cs, ub.conditions, keepLogicOp) /\ own = addClauses(ub.expr, cs)
    BY <2>1, OwnClausesAre
  <2>4. cs \in Seq(Clauses) /\ \A k \in 1..Len(cs) : cs[k].to = "conditions"
    BY <2>3 DEF OwnClauses
  <2>5. Own(own, cs, "conditions")
    BY <2>3, <2>4, OwnIs
  <2>6. \A k \in 1..Len(cs) : cs[k].name \notin Secret
    <3>. SUFFICES ASSUME NEW k \in 1..Len(cs) PROVE cs[k].name \notin Secret
      OBVIOUS
    <3>1. asked.updates \in Seq(ConditionCalls) /\ Len(ub.conditions) = Len(asked.updates) /\ Len(cs) = Len(ub.conditions)
      BY <1>5, <2>3 DEF QueryInv, Typed, Asks, UpdateConditionPart, OwnClauses
    <3>2. asked.updates[k] \in ConditionCalls
      BY <3>1, ElementOfSeq
    <3>3. ub.conditions[k].cond = asked.updates[k] /\ ~rejectEncryptedConditionField(asked.updates[k].field)
      BY <1>5, <3>1 DEF QueryInv, UpdateConditionPart
    <3>4. cs[k].name = resolveAttributeName(asked.updates[k].field)
      BY <2>3, <3>1, <3>3 DEF OwnClauses
    <3>. QED
      BY <3>2, <3>3, <3>4, Resolves DEF ConditionCalls
  <2>7. own \in Builders /\ Fresh(own) /\ Public(own)
    BY <2>5, <2>6 DEF Own, Public, Stands, Refers
  <2>8. Sound(b) /\ Public(b)
    BY <2>1, <2>7, ResetSound
  <2>9. Sound(b2) /\ Public(b2)
    BY <2>1, <2>8, BuildIs
  <2>. QED
    BY <2>2, <2>7, <2>9, PublicIs DEF Sound
<1>6. ~ub.buildErr => \A r \in {UpdateExecute, ExecuteWithResult} :
          /\ comparedNames(r.own.conditions, r.own) \cap Secret = {}
          /\ comparedNames(r.b.conditions, r.b) \cap Secret = {}
  BY <1>5 DEF UpdateExecute, ExecuteWithResult
<1>. QED
  BY <1>1, <1>2, <1>4, <1>6 DEF EncryptedNeverCompared, Secret

\* No condition the library builds from calls compares an encrypted attribute with a
\* value: of a Query or Scan, a Create, Update or Delete, or an UpdateBuilder, groups
\* included, for any calls on any table; raw expressions are not read (query.go:106).
THEOREM NeverCompared == QuerySpec => []EncryptedNeverCompared
BY QueryKept, Unseen, PTL

(***************************************************************************)
(* Indexes.                                                                *)
(***************************************************************************)
IndexRecords == [name : STRING, type : STRING \cup {"PRIMARY"}, projection : STRING \cup {""},
                 pk : DOMAIN DBName, sk : DOMAIN DBName \cup {""}]

\* A sequence is one of all its elements.
LEMMA ElementsMake ==
    ASSUME NEW R, NEW S, NEW s \in Seq(R), \A i \in 1..Len(s) : s[i] \in S
    PROVE  s \in Seq(S)
<1>1. s = [i \in 1..Len(s) |-> s[i]] /\ Len(s) \in Nat
  BY LenProperties
<1>2. s \in [1..Len(s) -> S]
  BY <1>1
<1>. QED
  BY <1>1, <1>2

LEMMA IndexesAre ==
    /\ Indexes \in Seq(IndexRecords) /\ Len(Indexes) \in Nat
    /\ \A i \in 1..Len(Indexes) : Indexes[i] \in IndexRecords /\ Indexes[i].name # ""
    /\ \A i, j \in 1..Len(Indexes) : Indexes[i].name = Indexes[j].name => i = j
<1>1. PICK R : R = [name : STRING \ {""}, type : STRING, projection : STRING,
                    pk : DOMAIN DBName, sk : DOMAIN DBName \cup {""}]
  OBVIOUS
<1>2. Indexes \in Seq(R)
  BY <1>1, QueryAssumption
<1>3. \A i \in 1..Len(Indexes) : Indexes[i] \in R
  BY <1>2, ElementOfSeq
<1>4. \A i \in 1..Len(Indexes) : Indexes[i] \in IndexRecords /\ Indexes[i].name # ""
  BY <1>1, <1>3 DEF IndexRecords
<1>5. Indexes = [i \in 1..Len(Indexes) |-> Indexes[i]] /\ Len(Indexes) \in Nat
  BY <1>2, LenProperties
<1>6. Indexes \in Seq(IndexRecords)
  BY <1>2, <1>4, ElementsMake
<1>. QED
  BY <1>4, <1>5, <1>6, QueryAssumption

LEMMA NamedIndex ==
    ASSUME NEW i \in 1..Len(Indexes)
    PROVE  indexSchemaByName(Indexes[i].name) = Indexes[i]
<1>1. {j \in 1..Len(Indexes) : Indexes[j].name = Indexes[i].name} = {i}
  BY IndexesAre
<1>. QED
  BY <1>1 DEF indexSchemaByName

\* An index of the list is the table or one of the others, and found by its name.
LEMMA ListedIndex ==
    ASSUME NEW i \in 1..Len(IndexList), NEW idx, idx = IndexList[i]
    PROVE  /\ idx.pk \in DOMAIN DBName /\ idx.sk \in DOMAIN DBName \cup {""} /\ idx # Nil
           /\ idx = IF idx.name = "" THEN IndexList[1] ELSE indexSchemaByName(idx.name)
<1>1. PICK base : base = [name |-> "", type |-> "PRIMARY", projection |-> "",
                            pk |-> PrimaryKey.pk, sk |-> PrimaryKey.sk]
  OBVIOUS
<1>2. IndexList = <<base>> \o Indexes
  BY <1>1 DEF IndexList
<1>3. PICK N : N \in Nat /\ N = Len(Indexes)
  BY IndexesAre
<1>4. <<base>> \in Seq(IndexRecords \cup {base}) /\ Indexes \in Seq(IndexRecords \cup {base})
  <2>1. \A j \in 1..Len(Indexes) : Indexes[j] \in IndexRecords \cup {base}
    BY IndexesAre
  <2>2. Indexes \in Seq(IndexRecords \cup {base})
    BY <2>1, ElementsMake, IndexesAre
  <2>3. <<base>> \in Seq({base} \cup IndexRecords)
    OBVIOUS
  <2>4. {base} \cup IndexRecords = IndexRecords \cup {base}
    OBVIOUS
  <2>. QED
    BY <2>2, <2>3, <2>4
<1>5. Len(IndexList) = N + 1 /\ IndexList[1] = base /\ \A j \in 1..N : IndexList[j + 1] = Indexes[j]
  <2>1. Len(<<base>>) = 1 /\ <<base>>[1] = base
    OBVIOUS
  <2>2. PICK s : s = <<base>>
    OBVIOUS
  <2>3. /\ Len(s \o Indexes) = Len(s) + Len(Indexes)
        /\ \A j \in 1..(Len(s) + Len(Indexes)) :
              (s \o Indexes)[j] = IF j <= Len(s) THEN s[j] ELSE Indexes[j - Len(s)]
    BY <1>4, <2>2, ConcatProperties
  <2>4. /\ Len(IndexList) = N + 1
        /\ \A j \in 1..N + 1 : IndexList[j] = IF j <= 1 THEN base ELSE Indexes[j - 1]
    BY <1>2, <1>3, <2>1, <2>2, <2>3
  <2>5. \A j \in 1..N : j + 1 \in 1..N + 1 /\ ~(j + 1 <= 1) /\ (j + 1) - 1 = j
    BY <1>3
  <2>6. 1 \in 1..N + 1
    BY <1>3
  <2>. QED
    BY <2>4, <2>5, <2>6
<1>6. DOMAIN Nil = {"none"}
  BY DEF Nil
<1>7. CASE i = 1
  <2>1. idx = base
    BY <1>5, <1>7
  <2>2. base.pk = PrimaryKey.pk /\ base.sk = PrimaryKey.sk /\ base.name = "" /\ DOMAIN base = {"name", "type", "projection", "pk", "sk"}
    BY <1>1
  <2>. QED
    BY <1>5, <1>6, <2>1, <2>2, KeysAre
<1>8. CASE i # 1
  <2>1. PICK j \in 1..N : i = j + 1
    <3>1. i - 1 \in 1..N /\ i = (i - 1) + 1
      BY <1>3, <1>5, <1>8
    <3>. QED
      BY <3>1
  <2>2. idx = Indexes[j]
    BY <1>5, <2>1
  <2>3. idx \in IndexRecords /\ idx.name # ""
    BY <1>3, <2>2, IndexesAre
  <2>4. idx.pk \in DOMAIN DBName /\ idx.sk \in DOMAIN DBName \cup {""} /\ DOMAIN idx = {"name", "type", "projection", "pk", "sk"}
    BY <2>3 DEF IndexRecords
  <2>5. indexSchemaByName(idx.name) = idx
    BY <1>3, <2>2, NamedIndex
  <2>. QED
    BY <1>6, <2>3, <2>4, <2>5
<1>. QED
  BY <1>7, <1>8

\* The partition key the conditions ask for; a key that is not there.
Partition(required) == required.pk
Blank == ""

LEMMA Required ==
    ASSUME NEW cs, NEW N \in Nat, N = Len(cs), NEW required, required = AnalyzeConditions(cs),
           Partition(required) # Blank
    PROVE  \E at \in 1..N : canonical(cs[at].op) = "=" /\ resolveGoFieldName(cs[at].field) = Partition(required)
<1>1. PICK eqs : eqs = {i \in 1..N : canonical(cs[i].op) = "="}
  OBVIOUS
<1>2. eqs # {}
  <2>1. eqs = {} => required = [pk |-> Blank, sk |-> Blank, op |-> Blank]
    BY <1>1 DEF AnalyzeConditions, Blank
  <2>. QED
    BY <2>1 DEF Partition
<1>3. eqs \subseteq Nat
  BY <1>1
<1>4. PICK at : at = Min(eqs)
  OBVIOUS
<1>5. at \in eqs
  <2>1. \E m \in eqs : \A k \in eqs : m <= k
    BY <1>2, <1>3, Smallest
  <2>. QED
    BY <1>4, <2>1 DEF Min
<1>6. PICK pk, others : /\ pk = resolveGoFieldName(cs[at].field)
                        /\ others = {i \in 1..N : resolveGoFieldName(cs[i].field) # pk}
  OBVIOUS
<1>7. PICK sort : sort = IF {i \in others : i > at} # {} THEN Min({i \in others : i > at}) ELSE Min(others)
  OBVIOUS
<1>8. PICK sk, op : sk = resolveGoFieldName(cs[sort].field) /\ op = canonical(cs[sort].op)
  OBVIOUS
<1>9. required = IF others = {} THEN [pk |-> pk, sk |-> Blank, op |-> Blank] ELSE [pk |-> pk, sk |-> sk, op |-> op]
  BY <1>1, <1>2, <1>4, <1>6, <1>7, <1>8 DEF AnalyzeConditions, Blank
<1>10. Partition(required) = pk
  BY <1>9 DEF Partition
<1>. QED
  BY <1>1, <1>5, <1>6, <1>10

LEMMA Optimal ==
    ASSUME NEW required, SelectOptimal(required) # Nil
    PROVE  /\ Partition(required) # Blank
           /\ \E i \in 1..Len(IndexList) : /\ SelectOptimal(required) = IndexList[i]
                                             /\ IndexList[i].pk = Partition(required)
<1>1. PICK best : best = {i \in 1..Len(IndexList) :
                       /\ scoreIndex(IndexList[i], required) > 0
                       /\ \A j \in 1..Len(IndexList) :
                             \/ scoreIndex(IndexList[j], required) < scoreIndex(IndexList[i], required)
                             \/ scoreIndex(IndexList[j], required) = scoreIndex(IndexList[i], required) /\ i <= j}
  OBVIOUS
<1>2. SelectOptimal(required) = IF Partition(required) = Blank \/ best = {} THEN Nil ELSE IndexList[CHOOSE i \in best : TRUE]
  BY <1>1 DEF SelectOptimal, Partition, Blank
<1>3. Partition(required) # Blank /\ best # {}
  BY <1>2
<1>4. PICK i : i = CHOOSE j \in best : TRUE
  OBVIOUS
<1>5. i \in best
  BY <1>3, <1>4
<1>6. scoreIndex(IndexList[i], required) > 0 /\ i \in 1..Len(IndexList)
  BY <1>1, <1>5
<1>7. IndexList[i].pk = Partition(required)
  <2>1. ASSUME IndexList[i].pk # Partition(required) PROVE FALSE
    <3>1. scoreIndex(IndexList[i], required) = 0
      BY <2>1 DEF scoreIndex, Partition
    <3>. QED
      BY <1>6, <3>1
  <2>. QED
    BY <2>1
<1>. QED
  BY <1>2, <1>3, <1>4, <1>6, <1>7

GoName(c) == resolveGoFieldName(c.field)

IndexOf(name) == IF name = Blank THEN IndexList[1] ELSE indexSchemaByName(name)

\* The keys of an index; a sort key it has not is the table's.
LEMMA KeyNames ==
    ASSUME NEW idx, idx # Nil, idx.pk \in DOMAIN DBName, NEW c
    PROVE  LET keys == keyNamesForIndex(idx) IN
           /\ isPartitionKey(keys, c) <=> GoName(c) = idx.pk
           /\ isSortKey(keys, c) =>
                \/ idx.sk # Blank /\ GoName(c) = idx.sk
                \/ idx.sk = Blank /\ GoName(c) = PrimaryKey.sk
<1>1. Blank \notin DOMAIN DBName
  BY KeysAre DEF Blank
<1>2. idx.pk # Blank
  BY <1>1
<1>3. PICK keys : keys = [pk |-> idx.pk, sk |-> IF idx.sk = Blank THEN PrimaryKey.sk ELSE idx.sk]
  OBVIOUS
<1>4. keyNamesForIndex(idx) = keys
  BY <1>2, <1>3 DEF keyNamesForIndex, Blank
<1>5. keys.pk = idx.pk /\ keys.sk = IF idx.sk = Blank THEN PrimaryKey.sk ELSE idx.sk
  BY <1>3
<1>6. isPartitionKey(keys, c) <=> GoName(c) = idx.pk
  BY <1>2, <1>5 DEF isPartitionKey, GoName, Blank
<1>7. isSortKey(keys, c) => GoName(c) = keys.sk
  BY DEF isSortKey, GoName
<1>. QED
  BY <1>4, <1>5, <1>6, <1>7

\* A Query that was compiled: its index, its key conditions, one of them an
\* equality on the partition key.
Compiled(r, idx, keyed, cs, at) ==
    /\ r.b = applyKeyAndFilterConditions(newBuilder(q), keyed)
    /\ idx = IndexOf(r.index) /\ idx.pk \in DOMAIN DBName /\ idx.sk \in DOMAIN DBName \cup {Blank}
    /\ at \in 1..Len(cs) /\ at \in keyed
    /\ GoName(cs[at]) = idx.pk /\ canonical(cs[at].op) = "="
    /\ \A i \in keyed : /\ i \in 1..Len(cs)
                        /\ \/ GoName(cs[i]) = idx.pk
                           \/ idx.sk # Blank /\ GoName(cs[i]) = idx.sk
                           \/ idx.sk = Blank /\ GoName(cs[i]) = PrimaryKey.sk

LEMMA QueryCompiled ==
    ASSUME QueryInv, NEW r, r = Compile, r.op = "Query"
    PROVE  \E idx, keyed, at : Compiled(r, idx, keyed, q.conditions, at)
<1>1. PICK cs : cs = q.conditions
  OBVIOUS
<1>2. cs \in Seq(ConditionCalls) /\ q.index \in IndexNames
  BY <1>1 DEF QueryInv, Typed, QueryRecords
<1>3. PICK N : N \in Nat /\ N = Len(cs)
  BY <1>2, LenProperties
<1>4. DOMAIN cs = 1..N
  BY <1>2, <1>3
<1>5. CASE q.index # Blank
  <2>1. PICK j \in 1..Len(Indexes) : q.index = Indexes[j].name
    BY <1>2, <1>5 DEF IndexNames, Blank
  <2>2. PICK idx : idx = Indexes[j]
    OBVIOUS
  <2>3. indexSchemaByName(q.index) = idx /\ idx.pk \in DOMAIN DBName
    BY <2>1, <2>2, NamedIndex, IndexesAre DEF IndexRecords
  <2>20. idx.sk \in DOMAIN DBName \cup {Blank}
    BY <2>2, IndexesAre DEF IndexRecords, Blank
  <2>4. idx # Nil
    <3>1. idx \in IndexRecords
      BY <2>2, IndexesAre
    <3>2. DOMAIN idx = {"name", "type", "projection", "pk", "sk"}
      BY <3>1 DEF IndexRecords
    <3>3. DOMAIN Nil = {"none"}
      BY DEF Nil
    <3>. QED
      BY <3>2, <3>3
  <2>5. PICK keys : keys = keyNamesForIndex(idx)
    OBVIOUS
  <2>6. PICK keyed : keyed = {i \in DOMAIN cs : partitionConditionsForKeys(keys, cs[i])}
    OBVIOUS
  <2>7. r = compileWithExplicitIndex
    BY <1>5 DEF Compile, Blank
  <2>8. r = IF \E i \in keyed : isPartitionKey(keys, cs[i])
            THEN [op |-> "Query", index |-> q.index, b |-> applyKeyAndFilterConditions(effectiveBuilder, keyed)]
            ELSE [op |-> "Scan", index |-> q.index, b |-> applyScanConditions]
    BY <1>1, <2>3, <2>5, <2>6, <2>7 DEF compileWithExplicitIndex
  <2>9. \E i \in keyed : isPartitionKey(keys, cs[i])
    <3>1. [op |-> "Scan", index |-> q.index, b |-> applyScanConditions].op = "Scan" /\ "Scan" # "Query"
      OBVIOUS
    <3>. QED
      BY <2>8, <3>1
  <2>10. PICK at \in keyed : isPartitionKey(keys, cs[at])
    BY <2>9
  <2>11. r.index = q.index /\ r.b = applyKeyAndFilterConditions(newBuilder(q), keyed)
    BY <2>8, <2>9, EffectiveIs
  <2>12. GoName(cs[at]) = idx.pk
    BY <2>3, <2>4, <2>5, <2>10, KeyNames
  <2>13. cs[at].op = "="
    BY <2>6, <2>10 DEF partitionConditionsForKeys
  <2>14. canonical(cs[at].op) = "="
    BY <2>13 DEF canonical
  <2>15. \A i \in keyed : isPartitionKey(keys, cs[i]) \/ isSortKey(keys, cs[i])
    BY <2>6 DEF partitionConditionsForKeys
  <2>16. \A i \in keyed : \/ GoName(cs[i]) = idx.pk
                          \/ idx.sk # Blank /\ GoName(cs[i]) = idx.sk
                          \/ idx.sk = Blank /\ GoName(cs[i]) = PrimaryKey.sk
    BY <2>3, <2>4, <2>5, <2>15, KeyNames
  <2>17. idx = IndexOf(r.index)
    BY <1>5, <2>3, <2>11 DEF IndexOf
  <2>18. keyed \subseteq 1..Len(cs)
    BY <1>3, <1>4, <2>6
  <2>19. Compiled(r, idx, keyed, cs, at)
    BY <2>3, <2>20, <2>10, <2>11, <2>12, <2>14, <2>16, <2>17, <2>18 DEF Compiled
  <2>. QED
    BY <1>1, <2>19
<1>6. CASE q.index = Blank
  <2>1. PICK required : required = AnalyzeConditions(cs)
    OBVIOUS
  <2>2. PICK idx : idx = SelectOptimal(required)
    OBVIOUS
  <2>3. PICK keys : keys = keyNamesForIndex(idx)
    OBVIOUS
  <2>4. PICK keyed : keyed = {i \in DOMAIN cs : splitConditionsByKey(keys, cs[i])}
    OBVIOUS
  <2>5. r = compileWithBestIndex
    BY <1>6 DEF Compile, Blank
  <2>6. r = IF idx # Nil
            THEN [op |-> "Query", index |-> idx.name, b |-> applyKeyAndFilterConditions(effectiveBuilder, keyed)]
            ELSE [op |-> "Scan", index |-> Blank, b |-> applyScanConditions]
    BY <1>1, <2>1, <2>2, <2>3, <2>4, <2>5 DEF compileWithBestIndex, Blank
  <2>7. idx # Nil
    <3>1. [op |-> "Scan", index |-> Blank, b |-> applyScanConditions].op = "Scan" /\ "Scan" # "Query"
      OBVIOUS
    <3>. QED
      BY <2>6, <3>1
  <2>8. r.index = idx.name /\ r.b = applyKeyAndFilterConditions(newBuilder(q), keyed)
    BY <2>6, <2>7, EffectiveIs
  <2>9. Partition(required) # Blank /\ \E i \in 1..Len(IndexList) : idx = IndexList[i] /\ IndexList[i].pk = Partition(required)
    BY <2>2, <2>7, Optimal
  <2>10. PICK i \in 1..Len(IndexList) : idx = IndexList[i] /\ idx.pk = Partition(required)
    BY <2>9
  <2>11. idx.pk \in DOMAIN DBName
    BY <2>10, ListedIndex
  <2>20. idx.sk \in DOMAIN DBName \cup {Blank}
    BY <2>10, ListedIndex DEF Blank
  <2>12. idx = IndexOf(r.index)
    BY <2>8, <2>10, ListedIndex DEF IndexOf, Blank
  <2>13. PICK at \in 1..N : canonical(cs[at].op) = "=" /\ resolveGoFieldName(cs[at].field) = Partition(required)
    BY <1>3, <2>1, <2>9, Required
  <2>14. GoName(cs[at]) = idx.pk
    BY <2>10, <2>13 DEF GoName
  <2>15. at \in keyed
    <3>1. isPartitionKey(keys, cs[at])
      BY <2>3, <2>7, <2>11, <2>14, KeyNames
    <3>. QED
      BY <1>4, <2>4, <3>1 DEF splitConditionsByKey
  <2>16. \A j \in keyed : isPartitionKey(keys, cs[j]) \/ isSortKey(keys, cs[j])
    BY <2>4 DEF splitConditionsByKey
  <2>17. \A j \in keyed : \/ GoName(cs[j]) = idx.pk
                          \/ idx.sk # Blank /\ GoName(cs[j]) = idx.sk
                          \/ idx.sk = Blank /\ GoName(cs[j]) = PrimaryKey.sk
    BY <2>3, <2>7, <2>11, <2>16, KeyNames
  <2>18. keyed \subseteq 1..Len(cs)
    BY <1>3, <1>4, <2>4
  <2>19. Compiled(r, idx, keyed, cs, at)
    BY <1>3, <2>8, <2>11, <2>20, <2>12, <2>13, <2>14, <2>15, <2>17, <2>18 DEF Compiled
  <2>. QED
    BY <1>1, <2>19
<1>. QED
  BY <1>5, <1>6

\* Without a group beside other conditions, the placeholders of a query with a condition are its own.
LEMMA Unblended ==
    ASSUME QueryInv, ~GroupBlends, Len(asked.where) # 0
    PROVE  Plain(asked.filters) /\ Fresh(newBuilder(q))
<1>1. asked.filters \in Seq(Filters) /\ asked.where \in Seq(ConditionCalls)
  BY DEF QueryInv, Typed, Asks
<1>2. PICK M, N : M \in Nat /\ N \in Nat /\ M = Len(asked.filters) /\ N = Len(asked.where)
  BY <1>1, LenProperties
<1>3. ASSUME NEW i \in 1..M, asked.filters[i].grouped PROVE FALSE
  <2>1. N # 0
    BY <1>2
  <2>2. \A m, n \in Nat : n # 0 /\ i \in 1..m => m + n > 1
    BY <1>3
  <2>3. M + N > 1
    BY <1>2, <1>3, <2>1, <2>2
  <2>. QED
    BY <1>2, <1>3, <2>3 DEF GroupBlends
<1>4. Plain(asked.filters)
  BY <1>2, <1>3 DEF Plain
<1>. QED
  BY <1>4 DEF QueryInv, FilterPart

\* An equality on the partition key of the index, and at most one condition on its sort key.
KeysSound(r, idx, keys) ==
    /\ IsInjective(keys)
    /\ \E i \in 1..Len(keys) : keys[i] = DBName[idx.pk] /\ r.b.keyConditions[i].op = "="
    /\ Range(keys) \subseteq {DBName[k] : k \in {idx.pk, idx.sk} \ {Blank}}

LEMMA InjectiveIs ==
    ASSUME NEW f, \A i, j \in DOMAIN f : f[i] = f[j] => i = j
    PROVE  IsInjective(f)
BY DEF IsInjective

LEMMA KeysValid ==
    ASSUME QueryInv, NEW r, r = Compile, r.op = "Query", ~r.b.err, ~GroupBlends,
           NEW idx, idx = IndexOf(r.index), NEW cs, cs = q.conditions,
           \A i, j \in 1..Len(cs) : i # j => GoName(cs[i]) # GoName(cs[j]),
           \A i \in 1..Len(cs) : idx.sk = Blank => GoName(cs[i]) # PrimaryKey.sk,
           NEW keys, keys = [i \in 1..Len(r.b.keyConditions) |-> r.b.names[r.b.keyConditions[i].name]]
    PROVE  KeysSound(r, idx, keys)
<1>1. PICK keyed, at : Compiled(r, idx, keyed, cs, at)
  <2>1. \E x, k, a : Compiled(r, x, k, cs, a)
    BY QueryCompiled
  <2>2. PICK x, k, a : Compiled(r, x, k, cs, a)
    BY <2>1
  <2>3. x = idx
    BY <2>2 DEF Compiled
  <2>. QED
    BY <2>2, <2>3
<1>2. PICK b, b2 : b = newBuilder(q) /\ b2 = r.b
  OBVIOUS
<1>3. b \in Builders /\ b.keyConditions = <<>> /\ cs \in Seq(ConditionCalls)
  BY <1>2 DEF QueryInv, Typed, QueryRecords, FilterPart
<1>4. PICK b1, kc, others : Applied(b, b1, b2, cs, keyed, kc, others)
  BY <1>1, <1>2, AppliedIs DEF Compiled
<1>5. Steps(b, b1, b2, kc, others)
  BY <1>3, <1>4, StepsAre
<1>6. Fresh(b) /\ Kept(b1, b2) /\ ~b2.err /\ ~b1.err
  <2>1. Len(asked.where) # 0
    <3>1. Len(cs) <= Len(asked.where) /\ asked.where \in Seq(ConditionCalls)
      BY DEF QueryInv, WherePart, Typed, Asks
    <3>2. at \in 1..Len(cs) /\ Len(cs) \in Nat /\ Len(asked.where) \in Nat
      BY <1>1, <1>3, <3>1, LenProperties DEF Compiled
    <3>. QED
      BY <3>1, <3>2
  <2>2. Fresh(b)
    BY <1>2, <2>1, Unblended
  <2>3. ~b2.err
    BY <1>2
  <2>. QED
    BY <1>5, <2>2, <2>3 DEF Steps
<1>7. PICK K \in Lists : K = "keyConditions"
  BY ListNames
<1>8. PICK s : s = b2.keyConditions
  OBVIOUS
<1>9. /\ Folded(b, b1, kc, Len(kc), K) /\ ListOf(b1, K) = s /\ Len(ListOf(b, K)) = 0
      /\ s \in Seq(Terms) /\ Len(kc) = Len(cs)
  <2>1. Folded(b, b1, kc, Len(kc), K) /\ b1 \in Builders /\ b2.keyConditions = b1.keyConditions
    BY <1>5, <1>7 DEF Steps
  <2>2. ListOf(b1, K) = s /\ ListOf(b, K) = b.keyConditions
    BY <1>7, <1>8, <2>1, ListNames
  <2>3. Len(b.keyConditions) = 0
    BY <1>3
  <2>4. s \in Seq(Terms)
    BY <1>8, <2>1 DEF Builders
  <2>5. Len(kc) = Len(cs)
    BY <1>4 DEF Applied
  <2>. QED
    BY <2>1, <2>2, <2>3, <2>4, <2>5
<1>10. \A i \in 1..Len(s) : i > 0
  OBVIOUS
<1>11. PICK N : N \in Nat /\ N = Len(s)
  BY <1>9, LenProperties
<1>12. /\ keys = [i \in 1..N |-> b2.names[s[i].name]] /\ DOMAIN keys = 1..N /\ Len(keys) = N
       /\ \A i \in 1..N : keys[i] = b2.names[s[i].name]
  BY <1>2, <1>8, <1>11
<1>13. ASSUME NEW i, NEW k \in 1..Len(cs), Is(b, b1, kc, K, i, k)
       PROVE  k \in keyed /\ b2.names[s[i].name] = DBName[GoName(cs[k])] /\ GoName(cs[k]) \in DOMAIN DBName
                /\ GoName(cs[k]) \in {idx.pk, idx.sk} \ {Blank}
  <2>1. kc[k].to = K /\ Stands(b1, s[i], kc[k])
    BY <1>6, <1>9, <1>13 DEF Is
  <2>2. k \in keyed
    BY <1>4, <1>7, <2>1 DEF Applied
  <2>3. Stands(b2, s[i], kc[k])
    BY <1>6, <2>1, StandsKept
  <2>4. b2.names[s[i].name] = resolveAttributeName(cs[k].field)
    BY <1>4, <2>3 DEF Stands, Refers, Applied
  <2>5. cs[k] \in ConditionCalls
    BY <1>3, ElementOfSeq
  <2>6. cs[k].field \in STRING
    BY <2>5 DEF ConditionCalls
  <2>7. Blank \notin DOMAIN DBName
    BY KeysAre DEF Blank
  <2>8. GoName(cs[k]) \in {idx.pk, idx.sk} \ {Blank}
    <3>1. idx.pk # Blank
      BY <1>1, <2>7 DEF Compiled
    <3>2. \/ GoName(cs[k]) = idx.pk
          \/ idx.sk # Blank /\ GoName(cs[k]) = idx.sk
          \/ idx.sk = Blank /\ GoName(cs[k]) = PrimaryKey.sk
      BY <1>1, <2>2 DEF Compiled
    <3>. QED
      BY <3>1, <3>2
  <2>9. idx.sk \in DOMAIN DBName \cup {Blank}
    BY <1>1 DEF Compiled
  <2>10. GoName(cs[k]) \in DOMAIN DBName
    BY <1>1, <2>8, <2>9 DEF Compiled
  <2>11. resolveAttributeName(cs[k].field) = DBName[GoName(cs[k])]
    BY <2>6, <2>10, Resolves DEF GoName
  <2>. QED
    BY <2>2, <2>4, <2>8, <2>10, <2>11
<1>14. IsInjective(keys)
  <2>1. ASSUME NEW i \in 1..N, NEW j \in 1..N, i < j PROVE keys[i] # keys[j]
    <3>1. PICK k \in 1..Len(cs), m \in 1..Len(cs) : k # m /\ Is(b, b1, kc, K, i, k) /\ Is(b, b1, kc, K, j, m)
      BY <1>9, <1>10, <1>11, <2>1 DEF Folded, NewTerms
    <3>2. keys[i] = DBName[GoName(cs[k])] /\ keys[j] = DBName[GoName(cs[m])]
      BY <1>12, <1>13, <3>1
    <3>3. GoName(cs[k]) # GoName(cs[m]) /\ GoName(cs[k]) \in DOMAIN DBName /\ GoName(cs[m]) \in DOMAIN DBName
      BY <1>13, <3>1
    <3>. QED
      BY <3>2, <3>3, NamesAre
  <2>2. \A i, j \in 1..N : i = j \/ i < j \/ j < i
    BY <1>11
  <2>3. \A i, j \in 1..N : keys[i] = keys[j] => i = j
    BY <2>1, <2>2
  <2>4. DOMAIN keys = 1..N
    BY <1>12
  <2>. QED
    <3>1. PICK f : f = keys
      OBVIOUS
    <3>2. \A i, j \in DOMAIN f : f[i] = f[j] => i = j
      <4>. SUFFICES ASSUME NEW i \in DOMAIN f, NEW j \in DOMAIN f, f[i] = f[j] PROVE i = j
        OBVIOUS
      <4>1. i \in 1..N /\ j \in 1..N
        BY <2>4, <3>1
      <4>2. keys[i] = keys[j]
        BY <3>1
      <4>. QED
        BY <2>3, <4>1, <4>2
    <3>3. IsInjective(f)
      BY <3>2, InjectiveIs
    <3>. QED
      BY <3>1, <3>3
<1>15. \E i \in 1..Len(keys) : keys[i] = DBName[idx.pk] /\ r.b.keyConditions[i].op = "="
  <2>1. at \in 1..Len(kc) /\ kc[at].to = K
    BY <1>1, <1>4, <1>7 DEF Compiled, Applied
  <2>2. PICK i \in 1..Len(s) : Is(b, b1, kc, K, i, at)
    BY <1>6, <1>9, <2>1 DEF Folded, AllTerms
  <2>3. keys[i] = DBName[GoName(cs[at])] /\ GoName(cs[at]) = idx.pk
    BY <1>1, <1>9, <1>11, <1>12, <1>13, <2>1, <2>2 DEF Compiled
  <2>4. s[i].op = canonical(kc[at].op) /\ kc[at].op = cs[at].op
    BY <1>1, <1>4, <1>7, <1>9, <2>2 DEF Is, Applied, Compiled
  <2>5. s[i].op = "="
    BY <1>1, <2>4 DEF Compiled
  <2>. QED
    BY <1>2, <1>8, <1>11, <1>12, <2>3, <2>5
<1>16. Range(keys) \subseteq {DBName[k] : k \in {idx.pk, idx.sk} \ {Blank}}
  <2>1. ASSUME NEW i \in 1..N PROVE keys[i] \in {DBName[k] : k \in {idx.pk, idx.sk} \ {Blank}}
    <3>1. PICK k \in 1..Len(cs) : Is(b, b1, kc, K, i, k)
      BY <1>9, <1>10, <1>11 DEF Folded, NewTerms
    <3>. QED
      BY <1>12, <1>13, <3>1
  <2>. QED
    BY <1>12, <2>1 DEF Range
<1>. QED
  BY <1>14, <1>15, <1>16 DEF KeysSound

LEMMA KeysMean == QueryInv => KeyConditionsValid
<1>. SUFFICES ASSUME QueryInv PROVE KeyConditionsValid
  OBVIOUS
<1>. DEFINE R     == Compile
            Keys  == [i \in 1..Len(R.b.keyConditions) |-> R.b.names[R.b.keyConditions[i].name]]
            Idx   == IF R.index = "" THEN IndexList[1] ELSE indexSchemaByName(R.index)
            Once  == \A i, j \in 1..Len(q.conditions) :
                         i # j => resolveGoFieldName(q.conditions[i].field)
                                    # resolveGoFieldName(q.conditions[j].field)
            Usual == \A i \in 1..Len(q.conditions) :
                         /\ q.conditions[i].op \in {"=", "EQ", "<", ">", "BETWEEN", "BEGINS_WITH"}
                         /\ Idx.sk = "" => resolveGoFieldName(q.conditions[i].field) # PrimaryKey.sk
<1>1. ASSUME R.op = "Query", ~R.b.err, Once, Usual, ~GroupBlends
      PROVE  /\ IsInjective(Keys)
             /\ \E i \in 1..Len(Keys) : Keys[i] = DBName[Idx.pk] /\ R.b.keyConditions[i].op = "="
             /\ Range(Keys) \subseteq {DBName[k] : k \in {Idx.pk, Idx.sk} \ {""}}
  <2>1. PICK r, cs, idx, keys : r = R /\ cs = q.conditions /\ idx = Idx /\ keys = Keys
    OBVIOUS
  <2>. HIDE DEF R, Idx, Keys
  <2>2. \A i, j \in 1..Len(cs) : i # j => GoName(cs[i]) # GoName(cs[j])
    BY <1>1, <2>1 DEF GoName
  <2>3. \A i \in 1..Len(cs) : idx.sk = Blank => GoName(cs[i]) # PrimaryKey.sk
    BY <1>1, <2>1, Zenon DEF GoName, Blank
  <2>4. r = Compile /\ r.op = "Query" /\ ~GroupBlends /\ cs = q.conditions
    BY <1>1, <2>1 DEF R
  <2>5. ~r.b.err
    BY <1>1, <2>1
  <2>6. idx = IndexOf(r.index)
    BY <2>1 DEF IndexOf, Blank, Idx
  <2>7. keys = [i \in 1..Len(r.b.keyConditions) |-> r.b.names[r.b.keyConditions[i].name]]
    BY <2>1 DEF Keys
  <2>8. KeysSound(r, idx, keys)
    BY <2>2, <2>3, <2>4, <2>5, <2>6, <2>7, KeysValid
  <2>. QED
    BY <2>1, <2>8 DEF KeysSound, Blank
<1>. QED
  BY <1>1 DEF KeyConditionsValid

\* A compiled Query is one DynamoDB accepts, for any calls on any table, as far as the
\* caller keeps to what the code does not check.
THEOREM KeysAccepted == QuerySpec => []KeyConditionsValid
BY QueryKept, KeysMean, PTL

\* The terms that clauses add to a list hold exactly if the clauses do, also with
\* placeholders that came later.
NewHold(b, b2, b3, cs, L, item) ==
    (\A i \in 1..Len(ListOf(b2, L)) : i > Len(ListOf(b, L)) => termHolds(ListOf(b2, L)[i], b3, item))
        <=> \A k \in 1..Len(cs) : cs[k].to = L => ClauseSays(cs[k], item)

LEMMA NewTermsMean ==
    ASSUME NEW b, NEW b2, NEW b3, NEW cs \in Seq(Clauses), NEW L \in Lists, L # "updates",
           Folded(b, b2, cs, Len(cs), L), Fresh(b), ~b2.err, Kept(b2, b3), NEW item
    PROVE  NewHold(b, b2, b3, cs, L, item)
<1>1. PICK s, N : s = ListOf(b2, L) /\ N = Len(ListOf(b, L))
  OBVIOUS
<1>2. \A k \in 1..Len(cs) : cs[k] \in Clauses
  BY ElementOfSeq
<1>3. \A i : \A k \in 1..Len(cs) : Is(b, b2, cs, L, i, k) => cs[k].to = L /\ termHolds(s[i], b3, item) = ClauseSays(cs[k], item)
  <2>. SUFFICES ASSUME NEW i, NEW k \in 1..Len(cs), Is(b, b2, cs, L, i, k)
                PROVE  cs[k].to = L /\ termHolds(s[i], b3, item) = ClauseSays(cs[k], item)
    OBVIOUS
  <2>1. cs[k].to = L /\ Stands(b2, s[i], cs[k])
    BY <1>1 DEF Is
  <2>2. Stands(b3, s[i], cs[k])
    BY <2>1, StandsKept
  <2>3. cs[k] \in Clauses /\ cs[k].to # "updates"
    BY <1>2, <2>1
  <2>. QED
    BY <2>1, <2>2, <2>3, TermMeans
<1>4. \A i \in 1..Len(s) : i > N => \E k \in 1..Len(cs) : Is(b, b2, cs, L, i, k)
  BY <1>1 DEF Folded, NewTerms
<1>5. \A k \in 1..Len(cs) : cs[k].to = L => \E i \in 1..Len(s) : i > N /\ Is(b, b2, cs, L, i, k)
  BY <1>1 DEF Folded, AllTerms
<1>6. (\A i \in 1..Len(s) : i > N => termHolds(s[i], b3, item)) => \A k \in 1..Len(cs) : cs[k].to = L => ClauseSays(cs[k], item)
  BY <1>3, <1>5
<1>7. (\A k \in 1..Len(cs) : cs[k].to = L => ClauseSays(cs[k], item)) => \A i \in 1..Len(s) : i > N => termHolds(s[i], b3, item)
  BY <1>3, <1>4
<1>. QED
  BY <1>1, <1>6, <1>7 DEF NewHold

\* A list that has no more terms has the same operators.
LEMMA SameLinks ==
    ASSUME NEW b \in Builders, NEW cs, NEW n, NEW L \in Lists, L \in Chained, NEW b2, Folded(b, b2, cs, n, L),
           Separated(ListOf(b, L), LinksOf(b, L)), ListOf(b2, L) = ListOf(b, L)
    PROVE  LinksOf(b2, L) = LinksOf(b, L)
<1>1. b2 \in Builders /\ Continues(LinksOf(b, L), LinksOf(b2, L)) /\ Separated(ListOf(b2, L), LinksOf(b2, L))
  BY DEF Folded, NewLinks
<1>2. LinksOf(b, L) \in Seq(Links) /\ LinksOf(b2, L) \in Seq(Links)
  BY <1>1, ListsAre
<1>3. Len(LinksOf(b2, L)) = Len(LinksOf(b, L))
  BY <1>1 DEF Separated
<1>. QED
  BY <1>1, <1>2, <1>3, SameSeq

\* The key conditions of a Query hold exactly if what was asked of the keys does.
LEMMA KeysHold ==
    ASSUME NEW b \in Builders, NEW b1, NEW b2, NEW cs, NEW keyed, NEW kc, NEW others,
           Applied(b, b1, b2, cs, keyed, kc, others), Steps(b, b1, b2, kc, others),
           b.keyConditions = <<>>, Fresh(b), ~b2.err, NEW item
    PROVE  ExpressionHolds(b2.keyConditions, ands(b2.keyConditions), b2, item)
             <=> \A i \in 1..Len(cs) : i \in keyed => Says(cs[i], item)
<1>1. PICK K \in Lists : K = "keyConditions" /\ K # "updates"
  BY ListNames
<1>2. PICK s : s = b2.keyConditions
  OBVIOUS
<1>3. Folded(b, b1, kc, Len(kc), K) /\ Kept(b1, b2) /\ ~b1.err /\ s = b1.keyConditions /\ b1 \in Builders
  BY <1>1, <1>2 DEF Steps
<1>4. kc \in Seq(Clauses) /\ Len(kc) = Len(cs)
  BY DEF Applied
<1>5. NewHold(b, b1, b2, kc, K, item)
  BY <1>1, <1>3, <1>4, NewTermsMean
<1>6. ListOf(b1, K) = s /\ ListOf(b, K) = b.keyConditions
  BY <1>1, <1>3, ListNames
<1>7. Len(ListOf(b, K)) = 0
  BY <1>6
<1>8. (\A i \in 1..Len(s) : termHolds(s[i], b2, item))
        <=> \A k \in 1..Len(kc) : kc[k].to = K => ClauseSays(kc[k], item)
  <2>1. \A i \in 1..Len(s) : i > 0
    OBVIOUS
  <2>. QED
    BY <1>5, <1>6, <1>7, <2>1 DEF NewHold
<1>9. \A k \in 1..Len(cs) : (kc[k].to = K <=> k \in keyed) /\ ClauseSays(kc[k], item) = Says(cs[k], item)
  BY <1>1 DEF Applied, ClauseSays, Says
<1>10. Len(s) \in Nat /\ s \in Seq(Terms)
  BY <1>3, LenProperties DEF Builders
<1>11. ExpressionHolds(s, ands(s), b2, item) <=> \A i \in 1..Len(s) : termHolds(s[i], b2, item)
  <2>1. \A j \in 1..Len(s) : ands(s)[j] = "AND"
    BY DEF ands
  <2>. QED
    BY <1>10, <2>1, AndsHold
<1>. QED
  BY <1>2, <1>4, <1>8, <1>9, <1>11

\* The chain of filters that was asked for.
ChainSays(filters, operators, item) == AndOr([i \in 1..Len(filters) |-> GroupSays(filters[i], item)], operators)

\* Filters that mean those asked for, and no more terms.
LEMMA ChainHolds ==
    ASSUME NEW b, NEW b2, NEW filters, NEW operators, Len(filters) \in Nat,
           Grounded(b), Kept(b, b2), FiltersMean(b, filters, operators),
           b2.filterConditions = b.filterConditions, b2.filterOperators = operators, NEW item \in Items
    PROVE  ExpressionHolds(b2.filterConditions, b2.filterOperators, b2, item) <=> ChainSays(filters, operators, item)
<1>1. PICK s, n : s = b.filterConditions /\ n = Len(filters)
  OBVIOUS
<1>2. Len(s) = n /\ n \in Nat
  BY <1>1 DEF FiltersMean
<1>3. \A i \in 1..n : termHolds(s[i], b2, item) <=> GroupSays(filters[i], item)
  <2>. SUFFICES ASSUME NEW i \in 1..n PROVE termHolds(s[i], b2, item) <=> GroupSays(filters[i], item)
    OBVIOUS
  <2>1. termHolds(s[i], b, item) <=> GroupSays(filters[i], item)
    BY <1>1 DEF FiltersMean
  <2>2. AllGround(b, s[i])
    BY <1>1, <1>2 DEF Grounded
  <2>3. termHolds(s[i], b2, item) = termHolds(s[i], b, item)
    BY <2>2, TermKept
  <2>. QED
    BY <2>1, <2>3
<1>4. PICK h, g : h = [i \in 1..n |-> termHolds(s[i], b2, item)] /\ g = [i \in 1..n |-> GroupSays(filters[i], item)]
  OBVIOUS
<1>5. Len(h) = n /\ Len(g) = n /\ \A i \in 1..n : h[i] = termHolds(s[i], b2, item) /\ g[i] = GroupSays(filters[i], item)
  BY <1>2, <1>4
<1>6. \A i \in 1..n : h[i] <=> g[i]
  BY <1>3, <1>5
<1>7. AndOr(h, operators) <=> AndOr(g, operators)
  BY <1>2, <1>5, <1>6, AndOrSame
<1>8. ExpressionHolds(b2.filterConditions, b2.filterOperators, b2, item) <=> AndOr(h, operators)
  BY <1>1, <1>2, <1>4 DEF ExpressionHolds
<1>9. ChainSays(filters, operators, item) <=> AndOr(g, operators)
  BY <1>1, <1>4 DEF ChainSays
<1>. QED
  BY <1>7, <1>8, <1>9

\* The filters of a read hold exactly if the filters asked for and the conditions that
\* are on no key do, unless such a condition is beside an OR.
LEMMA FiltersHold ==
    ASSUME NEW b \in Builders, NEW b1, NEW b2, NEW cs, NEW keyed, NEW kc, NEW others,
           Applied(b, b1, b2, cs, keyed, kc, others), Steps(b, b1, b2, kc, others),
           Separated(b.filterConditions, b.filterOperators), Fresh(b), Grounded(b), ~b2.err,
           NEW filters \in Seq(Filters), NEW operators \in Seq(Links), FiltersMean(b, filters, operators),
           NEW item \in Items,
           (\A j \in 1..Len(operators) : operators[j] # "OR") \/ Len(b2.filterConditions) <= Len(filters)
    PROVE  ExpressionHolds(b2.filterConditions, b2.filterOperators, b2, item)
             <=> /\ ChainSays(filters, operators, item)
                 /\ \A i \in 1..Len(cs) : i \notin keyed => Says(cs[i], item)
<1>1. PICK F \in Lists : F = "filterConditions" /\ F # "updates" /\ F \in Chained
  BY ListNames
<1>2. PICK s, s2, l, l2 : /\ s = b.filterConditions /\ s2 = b2.filterConditions
                          /\ l = b.filterOperators /\ l2 = b2.filterOperators
  OBVIOUS
<1>3. kc \in Seq(Clauses) /\ others \in Seq(Clauses) /\ Len(others) = Len(cs) /\ b1 = addClauses(b, kc)
  BY DEF Applied
<1>4. /\ b1 \in Builders /\ b2 \in Builders /\ Folded(b1, b2, others, Len(others), F)
      /\ Fresh(b1) /\ Kept(b, b1) /\ Kept(b1, b2) /\ Kept(b, b2) /\ b1.filterConditions = s
  BY <1>1, <1>2 DEF Steps
<1>5. /\ ListOf(b, F) = s /\ ListOf(b1, F) = s /\ ListOf(b2, F) = s2
      /\ LinksOf(b, F) = l /\ LinksOf(b1, F) = b1.filterOperators /\ LinksOf(b2, F) = l2
  BY <1>1, <1>2, <1>4, ListNames
<1>6. b1.filterOperators = l
  <2>1. Folded(b, b1, kc, Len(kc), F)
    BY <1>3, ClausesAdded
  <2>2. Separated(ListOf(b, F), LinksOf(b, F)) /\ ListOf(b1, F) = ListOf(b, F)
    BY <1>2, <1>5
  <2>3. LinksOf(b1, F) = LinksOf(b, F)
    BY <1>1, <2>1, <2>2, SameLinks
  <2>. QED
    BY <1>5, <2>3
<1>7. LinksOf(b1, F) = l /\ Separated(s, l)
  BY <1>2, <1>5, <1>6
<1>8. /\ s \in Seq(Terms \cup GroupTerms) /\ s2 \in Seq(Terms \cup GroupTerms)
      /\ l \in Seq(Links) /\ l2 \in Seq(Links)
  BY <1>2, <1>4 DEF Builders
<1>9. Len(s) \in Nat /\ Len(s2) \in Nat /\ Len(l) \in Nat /\ Len(l2) \in Nat /\ Len(filters) \in Nat
  BY <1>8, LenProperties
<1>10. Len(s) <= Len(s2) /\ \A i \in 1..Len(s) : s2[i] = s[i]
  BY <1>4, <1>5 DEF Folded, Continues
<1>11. Len(s) = Len(filters) /\ l = operators
  BY <1>2 DEF FiltersMean
<1>12. NewHold(b1, b2, b2, others, F, item)
  <2>1. Kept(b2, b2)
    BY DEF Kept
  <2>. QED
    BY <1>1, <1>3, <1>4, <2>1, NewTermsMean
<1>13. (\A i \in 1..Len(s2) : i > Len(s) => termHolds(s2[i], b2, item))
         <=> \A k \in 1..Len(cs) : k \notin keyed => Says(cs[k], item)
  <2>1. \A k \in 1..Len(cs) : (others[k].to = F <=> k \notin keyed) /\ ClauseSays(others[k], item) = Says(cs[k], item)
    BY <1>1 DEF Applied, ClauseSays, Says
  <2>. QED
    BY <1>3, <1>5, <1>12, <2>1 DEF NewHold
<1>14. CASE Len(s2) <= Len(s)
  <2>1. Len(s2) = Len(s)
    BY <1>9, <1>10, <1>14
  <2>2. Continues(s, s2)
    BY <1>10 DEF Continues
  <2>3. s2 = s
    BY <1>8, <2>1, <2>2, SameSeq
  <2>4. l2 = l
    <3>1. Separated(ListOf(b1, F), LinksOf(b1, F)) /\ ListOf(b2, F) = ListOf(b1, F)
      BY <1>5, <1>7, <2>3
    <3>2. LinksOf(b2, F) = LinksOf(b1, F)
      BY <1>1, <1>4, <3>1, SameLinks
    <3>. QED
      BY <1>5, <1>7, <3>2
  <2>5. \A i \in 1..Len(s2) : ~(i > Len(s))
    BY <1>9, <2>1
  <2>6. \A k \in 1..Len(cs) : k \notin keyed => Says(cs[k], item)
    BY <1>13, <2>5
  <2>7. b2.filterConditions = b.filterConditions /\ b2.filterOperators = operators
    BY <1>2, <1>11, <2>3, <2>4
  <2>8. ExpressionHolds(b2.filterConditions, b2.filterOperators, b2, item) <=> ChainSays(filters, operators, item)
    BY <1>4, <1>9, <2>7, ChainHolds
  <2>. QED
    BY <2>6, <2>8
<1>15. CASE Len(s2) > Len(s)
  <2>1. \A j \in 1..Len(l) : l[j] = "AND"
    <3>1. \A j \in 1..Len(operators) : operators[j] # "OR"
      BY <1>2, <1>9, <1>11, <1>15
    <3>2. \A j \in 1..Len(operators) : operators[j] \in Links
      BY ElementOfSeq
    <3>. QED
      BY <1>11, <3>1, <3>2 DEF Links
  <2>2. \A j \in 1..Len(l2) : l2[j] = "AND"
    <3>1. \A k \in 1..Len(others) : others[k].link = "AND"
      BY <1>3 DEF Applied
    <3>2. Continues(l, l2) /\ \A j \in 1..Len(l2) : j > Len(l) => l2[j] = "AND"
      BY <1>4, <1>5, <1>7, <3>1 DEF Folded, NewLinks
    <3>3. \A j \in 1..Len(l2) : j > Len(l) \/ j \in 1..Len(l)
      BY <1>9
    <3>. QED
      BY <2>1, <3>2, <3>3 DEF Continues
  <2>3. Separated(s2, l2)
    BY <1>1, <1>4, <1>5, <1>7 DEF Folded, NewLinks
  <2>4. \A j \in 1..Len(s2) : j < Len(s2) => l2[j] = "AND"
    <3>1. \A j \in 1..Len(s2) : j < Len(s2) => j \in 1..Len(l2)
      BY <1>9, <2>3 DEF Separated
    <3>. QED
      BY <2>2, <3>1
  <2>5. ExpressionHolds(s2, l2, b2, item) <=> \A i \in 1..Len(s2) : termHolds(s2[i], b2, item)
    BY <1>9, <2>4, AndsHold
  <2>6. PICK g : g = [i \in 1..Len(filters) |-> GroupSays(filters[i], item)]
    OBVIOUS
  <2>7. Len(g) = Len(filters) /\ \A i \in 1..Len(filters) : g[i] = GroupSays(filters[i], item)
    BY <1>9, <2>6
  <2>8. \A j \in 1..Len(filters) : j < Len(filters) => operators[j] = "AND"
    <3>1. \A j \in 1..Len(s) : j < Len(s) => j \in 1..Len(l)
      BY <1>7, <1>9 DEF Separated
    <3>. QED
      BY <1>11, <2>1, <3>1
  <2>9. AndOr(g, operators) <=> \A i \in 1..Len(filters) : g[i]
    BY <1>9, <2>7, <2>8, AndsAll
  <2>10. ChainSays(filters, operators, item) <=> \A i \in 1..Len(filters) : GroupSays(filters[i], item)
    BY <2>6, <2>7, <2>9 DEF ChainSays
  <2>11. \A i \in 1..Len(s) : termHolds(s2[i], b2, item) <=> GroupSays(filters[i], item)
    <3>. SUFFICES ASSUME NEW i \in 1..Len(s) PROVE termHolds(s2[i], b2, item) <=> GroupSays(filters[i], item)
      OBVIOUS
    <3>1. termHolds(s[i], b, item) <=> GroupSays(filters[i], item)
      BY <1>2, <1>11 DEF FiltersMean
    <3>2. AllGround(b, s[i])
      BY <1>2 DEF Grounded
    <3>3. termHolds(s[i], b2, item) = termHolds(s[i], b, item) /\ s2[i] = s[i]
      BY <1>4, <1>10, <3>2, TermKept
    <3>. QED
      BY <3>1, <3>3
  <2>12. \A i \in 1..Len(s2) : i \in 1..Len(s) \/ i > Len(s)
    BY <1>9
  <2>13. \A i \in 1..Len(s) : i \in 1..Len(s2)
    BY <1>9, <1>10
  <2>14. (\A i \in 1..Len(s2) : termHolds(s2[i], b2, item))
           <=> /\ \A i \in 1..Len(s) : GroupSays(filters[i], item)
               /\ \A i \in 1..Len(s2) : i > Len(s) => termHolds(s2[i], b2, item)
    BY <2>11, <2>12, <2>13
  <2>. QED
    BY <1>2, <1>11, <1>13, <2>5, <2>10, <2>14
<1>16. Len(s2) <= Len(s) \/ Len(s2) > Len(s)
  BY <1>9
<1>. QED
  BY <1>14, <1>15, <1>16

\* What a read asks for is what its calls meant.
LEMMA ReadIs ==
    ASSUME QueryInv, ~q.builderErr, ~GroupBlends, NEW r, NEW keyed,
           r.b = applyKeyAndFilterConditions(newBuilder(q), keyed)
    PROVE  ReadMeans(r)
<1>. SUFFICES ASSUME ~r.b.err, ~OrBlends(r), NEW item \in Items PROVE Selected(r, item) <=> Meant(item)
  BY DEF ReadMeans
<1>1. PICK b, b2, cs, filters, operators :
        /\ b = newBuilder(q) /\ b2 = r.b /\ cs = q.conditions
        /\ filters = asked.filters /\ operators = asked.operators
  OBVIOUS
<1>2. cs \in Seq(ConditionCalls) /\ filters \in Seq(Filters) /\ operators \in Seq(Links)
  BY <1>1 DEF QueryInv, Typed, QueryRecords, Asks
<1>3. PICK N, M : N \in Nat /\ M \in Nat /\ N = Len(cs) /\ M = Len(filters)
  BY <1>2, LenProperties
<1>4. cs = asked.where
  BY <1>1 DEF QueryInv, WherePart
<1>5. FilterPart(b, FALSE, filters, operators)
  <2>1. q.builderErr = FALSE
    BY DEF QueryInv, Typed, QueryRecords
  <2>2. FilterPart(b, q.builderErr, filters, operators)
    BY <1>1 DEF QueryInv
  <2>. QED
    BY <2>1, <2>2
<1>6. /\ b \in Builders /\ b.keyConditions = <<>> /\ Grounded(b)
      /\ Separated(b.filterConditions, b.filterOperators)
  BY <1>5 DEF FilterPart
<1>7. Plain(filters) \/ M <= 1
  <2>1. ASSUME ~Plain(filters), ~(M <= 1) PROVE FALSE
    <3>1. \E i \in 1..Len(asked.filters) : asked.filters[i].grouped
      BY <1>1, <2>1 DEF Plain
    <3>2. \A m, n \in Nat : ~(m <= 1) => m + n > 1
      OBVIOUS
    <3>3. M + N > 1
      BY <1>3, <2>1, <3>2
    <3>4. Len(asked.filters) = M /\ Len(asked.where) = N
      BY <1>1, <1>3, <1>4
    <3>. QED
      BY <3>1, <3>3, <3>4 DEF GroupBlends
  <2>. QED
    BY <2>1
<1>8. FiltersMean(b, filters, operators)
  BY <1>3, <1>5, <1>7 DEF FilterPart
<1>9. PICK b1, kc, others : Applied(b, b1, b2, cs, keyed, kc, others)
  BY <1>1, AppliedIs
<1>10. Steps(b, b1, b2, kc, others)
  BY <1>6, <1>9, StepsAre
<1>11. ~b2.err
  BY <1>1
<1>12. Selected(r, item) <=> /\ ExpressionHolds(b2.keyConditions, ands(b2.keyConditions), b2, item)
                             /\ ExpressionHolds(b2.filterConditions, b2.filterOperators, b2, item)
  BY <1>1 DEF Selected
<1>13. Meant(item) <=> AllSay(cs, item) /\ ChainSays(filters, operators, item)
  BY <1>1, <1>4 DEF Meant, ChainSays
<1>14. CASE N = 0
  <2>1. b1 = b /\ b2 = b
    <3>1. Len(kc) = 0 /\ Len(others) = 0
      BY <1>3, <1>9, <1>14 DEF Applied
    <3>2. (\A k \in 1..Len(kc) : kc[k].to = "none") /\ (\A k \in 1..Len(others) : others[k].to = "none")
      BY <3>1
    <3>3. b1 = b
      BY <1>10, <3>2 DEF Steps, Folded
    <3>4. b2 = b1
      BY <1>10, <3>2 DEF Steps, Folded
    <3>. QED
      BY <3>3, <3>4
  <2>2. Kept(b, b) /\ b.filterOperators = operators
    BY <1>8 DEF Kept, FiltersMean
  <2>3. Len(filters) \in Nat
    BY <1>3
  <2>4. ExpressionHolds(b.filterConditions, b.filterOperators, b, item) <=> ChainSays(filters, operators, item)
    BY <1>6, <1>8, <2>2, <2>3, ChainHolds
  <2>5. PICK s : s = b.keyConditions
    OBVIOUS
  <2>6. Len(s) = 0
    BY <1>6, <2>5
  <2>7. ExpressionHolds(s, ands(s), b, item)
    <3>1. Len(s) \in Nat /\ \A j \in 1..Len(s) : j < Len(s) => ands(s)[j] = "AND"
      BY <2>6
    <3>2. ExpressionHolds(s, ands(s), b, item) <=> \A i \in 1..Len(s) : termHolds(s[i], b, item)
      BY <3>1, AndsHold
    <3>. QED
      BY <2>6, <3>2
  <2>8. AllSay(cs, item)
    BY <1>3, <1>14 DEF AllSay
  <2>. QED
    BY <1>12, <1>13, <2>1, <2>4, <2>5, <2>7, <2>8
<1>15. CASE N # 0
  <2>1. Fresh(b)
    BY <1>1, <1>3, <1>4, <1>15, Unblended
  <2>2. (\A j \in 1..Len(operators) : operators[j] # "OR") \/ Len(b2.filterConditions) <= Len(filters)
    <3>1. ~("OR" \in Range(operators) /\ Len(b2.filterConditions) > Len(filters))
      BY <1>1 DEF OrBlends
    <3>2. DOMAIN operators = 1..Len(operators)
      BY <1>2
    <3>3. Len(b2.filterConditions) \in Nat
      <4>1. b2.filterConditions \in Seq(Terms \cup GroupTerms)
        BY <1>10 DEF Steps, Builders
      <4>. QED
        BY <4>1, LenProperties
    <3>4. CASE "OR" \notin Range(operators)
      BY <3>2, <3>4 DEF Range
    <3>5. CASE ~(Len(b2.filterConditions) > Len(filters))
      BY <1>3, <3>3, <3>5
    <3>. QED
      BY <3>1, <3>4, <3>5
  <2>3. ExpressionHolds(b2.keyConditions, ands(b2.keyConditions), b2, item)
          <=> \A i \in 1..Len(cs) : i \in keyed => Says(cs[i], item)
    BY <1>6, <1>9, <1>10, <1>11, <2>1, KeysHold
  <2>4. ExpressionHolds(b2.filterConditions, b2.filterOperators, b2, item)
          <=> /\ ChainSays(filters, operators, item)
              /\ \A i \in 1..Len(cs) : i \notin keyed => Says(cs[i], item)
    BY <1>2, <1>6, <1>8, <1>9, <1>10, <1>11, <2>1, <2>2, FiltersHold
  <2>5. AllSay(cs, item) <=> /\ \A i \in 1..Len(cs) : i \in keyed => Says(cs[i], item)
                             /\ \A i \in 1..Len(cs) : i \notin keyed => Says(cs[i], item)
    BY DEF AllSay
  <2>. QED
    BY <1>12, <1>13, <2>3, <2>4, <2>5
<1>. QED
  BY <1>14, <1>15

\* Two conditions on a key field are needed for the last to count.
LEMMA OneOnField ==
    ASSUME NEW cs, Len(cs) \in Nat, NEW i \in 1..Len(cs), NEW f, f = GoName(cs[i]),
           \A j, k \in onField(cs, f) : j = k
    PROVE  onField(cs, f) # {} /\ Max(onField(cs, f)) = i
<1>1. i \in onField(cs, f)
  BY DEF onField, GoName
<1>2. onField(cs, f) = {i}
  BY <1>1
<1>3. Max({i}) = i
  <2>1. \A x : x \in {i} /\ (\A y \in {i} : x >= y) <=> x = i
    OBVIOUS
  <2>. QED
    BY <2>1 DEF Max
<1>. QED
  BY <1>2, <1>3

LEMMA KeyFieldsAre == keyFields \subseteq DOMAIN DBName /\ \A f, g \in keyFields : DBName[f] = DBName[g] => f = g
BY KeysAre, NamesAre

\* The item fetched by its key is one the calls ask for.
LEMMA GetIs ==
    ASSUME QueryInv, ~q.builderErr, NEW key, key = compileGetItem, key # Nil, ~RepeatedKey,
           NEW item, HasKey(item, key)
    PROVE  AllSay(asked.where, item)
<1>1. PICK cs : cs = q.conditions
  OBVIOUS
<1>2. cs \in Seq(ConditionCalls) /\ cs = asked.where
  BY <1>1 DEF QueryInv, Typed, QueryRecords, WherePart
<1>3. Len(cs) \in Nat
  BY <1>2, LenProperties
<1>4. /\ key = buildPrimaryKeyMap
      /\ \A i \in 1..Len(cs) : GoName(cs[i]) \in keyFields
  BY <1>1 DEF compileGetItem, GoName
<1>5. keyByEquality /\ key = [a \in {DBName[f] : f \in keyFields} |-> keyValue(CHOOSE f \in keyFields : DBName[f] = a)]
  BY <1>4 DEF buildPrimaryKeyMap
<1>. SUFFICES ASSUME NEW i \in 1..Len(cs) PROVE Says(cs[i], item)
  BY <1>2 DEF AllSay
<1>6. PICK f \in keyFields : f = GoName(cs[i])
  BY <1>4
<1>7. i \in onField(cs, f)
  BY <1>6 DEF onField, GoName
<1>8. cs[i].op = "="
  BY <1>1, <1>5, <1>7 DEF keyByEquality
<1>9. onField(cs, f) # {} /\ Max(onField(cs, f)) = i
  <2>1. \A j, k \in onField(cs, f) : j = k
    BY <1>2, <1>6 DEF RepeatedKey
  <2>. QED
    BY <1>3, <1>6, <2>1, OneOnField
<1>10. keyValue(f) = cs[i].vals[1]
  BY <1>1, <1>9 DEF keyValue
<1>11. (CHOOSE g \in keyFields : DBName[g] = DBName[f]) = f
  <2>1. \A g \in keyFields : DBName[g] = DBName[f] => g = f
    BY KeyFieldsAre
  <2>. QED
    BY <1>6, <2>1
<1>12. DBName[f] \in DOMAIN key /\ key[DBName[f]] = keyValue(f)
  <2>1. PICK a : a = DBName[f]
    OBVIOUS
  <2>2. a \in {DBName[g] : g \in keyFields}
    BY <1>6, <2>1
  <2>3. a \in DOMAIN key /\ key[a] = keyValue(CHOOSE g \in keyFields : DBName[g] = a)
    BY <1>5, <2>2
  <2>. QED
    BY <1>11, <2>1, <2>3
<1>13. item[DBName[f]] = cs[i].vals[1]
  BY <1>10, <1>12 DEF HasKey
<1>14. resolveAttributeName(cs[i].field) = DBName[f]
  <2>1. cs[i] \in ConditionCalls
    BY <1>2, ElementOfSeq
  <2>2. cs[i].field \in STRING /\ f \in DOMAIN DBName /\ resolveGoFieldName(cs[i].field) = f
    BY <1>6, <2>1, KeyFieldsAre DEF ConditionCalls, GoName
  <2>. QED
    BY <2>2, Resolves
<1>15. canonical(cs[i].op) = "="
  BY <1>8 DEF canonical
<1>16. Compare("=", item[DBName[f]], cs[i].vals)
  BY <1>13 DEF Compare
<1>. QED
  BY <1>14, <1>15, <1>16 DEF Says

LEMMA RequestsMean == QueryInv => RequestMeansCalls
<1>. SUFFICES ASSUME QueryInv, ~q.builderErr
              PROVE  /\ GroupBlends \/ (ReadMeans(Compile) /\ ReadMeans(compileScan))
                     /\ (compileGetItem # Nil /\ ~RepeatedKey) =>
                           \A item \in Items : HasKey(item, compileGetItem) => AllSay(asked.where, item)
  BY DEF RequestMeansCalls
<1>1. ASSUME ~GroupBlends PROVE ReadMeans(Compile)
  <2>1. PICK keyed : Compile.b = applyKeyAndFilterConditions(newBuilder(q), keyed)
    BY CompileIs
  <2>. QED
    BY <1>1, <2>1, ReadIs
<1>2. ASSUME ~GroupBlends PROVE ReadMeans(compileScan)
  <2>1. compileScan.b = applyKeyAndFilterConditions(newBuilder(q), {})
    BY ScanIs DEF compileScan
  <2>. QED
    BY <1>2, <2>1, ReadIs
<1>. QED
  BY <1>1, <1>2, GetIs

\* A read finds what its calls ask for, for any Where, Filter, OrFilter and lone group
\* on any table, keys, indexes, reserved words and items.  As the property says, three
\* mixtures are not covered: a group beside other conditions (GroupsMeanCalls shows
\* that it fails), OrFilter beside a Where that becomes a filter, and two conditions on
\* one key field of a GetItem (query.go:1362, 1863, 1925).
THEOREM ReadsAsAsked == QuerySpec => []RequestMeansCalls
BY QueryKept, RequestsMean, PTL
==============================================================================
