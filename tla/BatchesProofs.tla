----------------------------- MODULE BatchesProofs -----------------------------
(***************************************************************************)
(* Batch operations, for any number of keys and items, any sizes of chunks *)
(* and batches, any number of attempts and any answers of DynamoDB.        *)
(***************************************************************************)
EXTENDS MCBatches, FiniteSetTheorems, SequenceTheorems, WellFoundedInduction, TLAPS

------------------------------------------------------------------------------
(***************************************************************************)
(* Cutting: n positions in pieces of s.                                    *)
(***************************************************************************)
\* The integer quotient, by what it is.
LEMMA Quotient ==
    ASSUME NEW x \in Nat, NEW s \in Nat \ {0}, NEW q \in Nat
    PROVE  /\ x \div s \in Nat
           /\ x \div s = q <=> q * s <= x /\ x < (q + 1) * s
           /\ q <= x \div s <=> q * s <= x
<1>1. PICK d : d = x \div s
  OBVIOUS
<1>2. d \in Nat /\ d * s <= x /\ x < (d + 1) * s
  BY <1>1
<1>3. d <= q => d * s <= q * s
  BY <1>2
<1>4. d + 1 <= q => (d + 1) * s <= q * s
  BY <1>2
<1>5. q + 1 <= d => (q + 1) * s <= d * s
  BY <1>2
<1>6. q <= d => q * s <= d * s
  BY <1>2
<1>7. d * s \in Int /\ q * s \in Int /\ (q + 1) * s \in Int /\ (d + 1) * s \in Int
  BY <1>2
<1>8. d = q \/ d + 1 <= q \/ q + 1 <= d
  BY <1>2
<1>9. x \div s = q <=> q * s <= x /\ x < (q + 1) * s
  <2>1. CASE d = q
    BY <1>1, <1>2, <2>1
  <2>2. CASE d + 1 <= q
    BY <1>1, <1>2, <1>4, <1>7, <2>2
  <2>3. CASE q + 1 <= d
    BY <1>1, <1>2, <1>5, <1>7, <2>3
  <2>. QED
    BY <1>8, <2>1, <2>2, <2>3
<1>10. q <= x \div s <=> q * s <= x
  <2>1. CASE q <= d
    BY <1>1, <1>2, <1>6, <1>7, <2>1
  <2>2. CASE d + 1 <= q
    BY <1>1, <1>2, <1>4, <1>7, <2>2
  <2>. QED
    BY <1>2, <2>1, <2>2
<1>. QED
  BY <1>1, <1>2, <1>9, <1>10

\* A position is in the piece its quotient names, and in no other; the pieces
\* are as many as it takes.
LEMMA Cutting ==
    ASSUME NEW s \in Nat \ {0}, NEW n \in Nat, NEW i \in 1..n
    PROVE  /\ (i - 1) \div s + 1 \in 1..n
           /\ (i - 1) \div s + 1 <= (n + s - 1) \div s
           /\ \A c \in Nat \ {0} :
                (i - 1) \div s + 1 = c <=> (c - 1) * s + 1 <= i /\ i <= c * s
<1>1. PICK q : q = (i - 1) \div s
  OBVIOUS
<1>2. q \in Nat /\ q * s <= i - 1
  BY <1>1, Quotient
<1>3. q <= q * s
  BY <1>2
<1>4. q + 1 \in 1..n
  BY <1>2, <1>3
<1>5. q + 1 <= (n + s - 1) \div s
  <2>1. (q + 1) * s = q * s + s
    BY <1>2
  <2>2. (q + 1) * s <= n + s - 1
    BY <1>2, <2>1
  <2>3. n + s - 1 \in Nat /\ q + 1 \in Nat
    BY <1>2
  <2>. QED
    BY <2>2, <2>3, Quotient
<1>6. ASSUME NEW c \in Nat \ {0}
      PROVE  q + 1 = c <=> (c - 1) * s + 1 <= i /\ i <= c * s
  <2>1. c - 1 \in Nat /\ i - 1 \in Nat /\ (c - 1) * s \in Int /\ c * s \in Int
    OBVIOUS
  <2>2. q = c - 1 <=> (c - 1) * s <= i - 1 /\ i - 1 < ((c - 1) + 1) * s
    BY <1>1, <2>1, Quotient
  <2>3. (c - 1) + 1 = c
    OBVIOUS
  <2>4. i - 1 < c * s <=> i <= c * s
    BY <2>1
  <2>5. (c - 1) * s <= i - 1 <=> (c - 1) * s + 1 <= i
    BY <2>1
  <2>6. q = c - 1 <=> q + 1 = c
    BY <1>2
  <2>. QED
    BY <2>2, <2>3, <2>4, <2>5, <2>6
<1>. QED
  BY <1>1, <1>4, <1>5, <1>6

\* A piece that is there has a first position, and there are no more pieces than positions.
LEMMA Pieces ==
    ASSUME NEW s \in Nat \ {0}, NEW n \in Nat, NEW c \in Nat \ {0}
    PROVE  /\ (c - 1) * s \in Nat /\ c * s = (c - 1) * s + s
           /\ c <= (n + s - 1) \div s <=> (c - 1) * s + 1 <= n
           /\ c <= (n + s - 1) \div s => c <= n
           /\ n > 0 => 1 <= (n + s - 1) \div s
<1>1. c - 1 \in Nat /\ (c - 1) * s \in Nat
  OBVIOUS
<1>2. c * s = (c - 1) * s + s
  OBVIOUS
<1>3. n + s - 1 \in Nat
  OBVIOUS
<1>4. c <= (n + s - 1) \div s <=> c * s <= n + s - 1
  BY <1>3, Quotient
<1>5. c * s <= n + s - 1 <=> (c - 1) * s + 1 <= n
  BY <1>1, <1>2
<1>6. c - 1 <= (c - 1) * s
  BY <1>1
<1>7. 1 <= (n + s - 1) \div s <=> 1 * s <= n + s - 1
  BY <1>3, Quotient
<1>. QED
  BY <1>1, <1>2, <1>4, <1>5, <1>6, <1>7

------------------------------------------------------------------------------
(***************************************************************************)
(* The provers see one Cardinality per instance; all are the same.         *)
(***************************************************************************)
LEMMA SameCardinality ==
    ASSUME NEW S
    PROVE  /\ G!Cardinality(S) = Cardinality(S)
           /\ W!Cardinality(S) = Cardinality(S)
           /\ U!Cardinality(S) = Cardinality(S)
BY DEF G!Cardinality, W!Cardinality, U!Cardinality, Cardinality

\* A set of natural numbers has a least one.
LEMMA Smallest ==
    ASSUME NEW N, N \subseteq Nat, N # {}
    PROVE  \E m \in N : \A k \in N : m <= k
<1>1. PICK m \in N : \A k \in N : ~(<<k, m>> \in OpToRel(<, Nat))
  BY NatLessThanWellFounded, WFMin, Zenon
<1>2. \A k \in N : ~(k < m)
  BY <1>1, Zenon DEF OpToRel
<1>. QED
  BY <1>2

------------------------------------------------------------------------------
(***************************************************************************)
(* Alignment.  The recursive function of alignChunkResults exists, and its *)
(* value for a key is known from that for the key before.                  *)
(***************************************************************************)
Unaligned == [ordered |-> ordered, used |-> {}, matched |-> 0]

\* One key.
AlignKey(before, i, items) ==
    LET idx == G!findMatchingItem(keys[i], items, before.used)
    IN  IF idx = 0 THEN before
        ELSE [ordered |-> [before.ordered EXCEPT ![i] = items[idx]],
              used    |-> before.used \cup {idx},
              matched |-> before.matched + 1]

\* f is the function, as far as the key at hi.
Aligns(f, lo, hi, items) ==
    f = [i \in lo - 1..hi |-> IF i < lo THEN Unaligned ELSE AlignKey(f[i - 1], i, items)]

\* alignChunkResults reads the function it chooses at the last key.
AlignedBy(f, hi) == [ordered |-> f[hi].ordered, matched |-> f[hi].matched]

\* alignChunkResults, from any function that follows its recursion.
LEMMA AlignIs ==
    ASSUME NEW c, NEW items
    PROVE  G!alignChunkResults(c, items) =
             AlignedBy(CHOOSE f : Aligns(f, G!First(c), G!Last(c), items), G!Last(c))
BY Zenon DEF G!alignChunkResults, AlignedBy, Aligns, AlignKey, Unaligned

\* The recursion, one key further.
LEMMA AlignsExtends ==
    ASSUME NEW lo \in Nat \ {0}, NEW hi \in Nat, lo <= hi, NEW items,
           NEW g, Aligns(g, lo, hi - 1, items)
    PROVE  \E f : Aligns(f, lo, hi, items)
<1>. DEFINE f == [i \in lo - 1..hi |-> IF i <= hi - 1 THEN g[i] ELSE AlignKey(g[hi - 1], hi, items)]
<1>1. \A i \in lo - 1..hi - 1 : f[i] = g[i]
  OBVIOUS
<1>2. \A i \in lo - 1..hi - 1 : g[i] = IF i < lo THEN Unaligned ELSE AlignKey(g[i - 1], i, items)
  BY DEF Aligns
<1>3. ASSUME NEW i \in lo - 1..hi
      PROVE  f[i] = IF i < lo THEN Unaligned ELSE AlignKey(f[i - 1], i, items)
  <2>1. CASE i = hi
    <3>1. f[i] = AlignKey(g[hi - 1], hi, items) /\ ~(i < lo)
      BY <2>1
    <3>2. f[i - 1] = g[hi - 1]
      BY <1>1, <2>1
    <3>. QED
      BY <2>1, <3>1, <3>2
  <2>2. CASE i < lo
    BY <1>1, <1>2, <2>2
  <2>3. CASE i # hi /\ ~(i < lo)
    <3>1. i \in lo - 1..hi - 1 /\ i - 1 \in lo - 1..hi - 1
      BY <2>3
    <3>. QED
      BY <1>1, <1>2, <2>3, <3>1
  <2>. QED
    BY <2>1, <2>2, <2>3
<1>4. f = [i \in lo - 1..hi |-> IF i < lo THEN Unaligned ELSE AlignKey(f[i - 1], i, items)]
  BY <1>3
<1>. QED
  BY <1>4 DEF Aligns

\* There is such a function, for any chunk.
LEMMA AlignsExists ==
    ASSUME NEW lo \in Nat \ {0}, NEW hi \in Nat, lo - 1 <= hi, NEW items
    PROVE  \E f : Aligns(f, lo, hi, items)
<1>. DEFINE N == {n \in Nat : lo - 1 <= n /\ ~\E f : Aligns(f, lo, n, items)}
<1>1. SUFFICES N = {}
  OBVIOUS
<1>2. SUFFICES ASSUME N # {} PROVE FALSE
  OBVIOUS
<1>3. PICK m \in N : \A k \in N : m <= k
  <2>1. N \subseteq Nat
    OBVIOUS
  <2>. QED
    BY <1>2, <2>1, Smallest
<1>4. CASE m = lo - 1
  <2>1. Aligns([i \in lo - 1..m |-> Unaligned], lo, m, items)
    BY <1>4 DEF Aligns
  <2>. QED
    BY <1>3, <2>1
<1>5. CASE m # lo - 1
  <2>1. m - 1 \in Nat /\ lo - 1 <= m - 1 /\ m - 1 \notin N
    BY <1>3, <1>5
  <2>2. PICK g : Aligns(g, lo, m - 1, items)
    BY <2>1
  <2>3. m \in Nat /\ lo <= m
    BY <1>3, <1>5
  <2>. QED
    BY <1>3, <2>2, <2>3, AlignsExtends
<1>. QED
  BY <1>4, <1>5

\* What the slots are after the keys from lo to i were looked for.
Placed(s, lo, i, items) ==
    /\ s.ordered \in [DOMAIN keys -> Keys \cup {Nil}]
    /\ \A j \in DOMAIN keys :
         s.ordered[j] = IF j \in lo..i /\ keys[j] \in G!Elements(items) THEN keys[j] ELSE ordered[j]
    /\ \A u \in s.used : u \in DOMAIN items /\ \E j \in lo..i : items[u] = keys[j]
    /\ s.matched = Cardinality({j \in lo..i : keys[j] \in G!Elements(items)})

\* The search finds an item if there is one, because the keys of a chunk differ.
LEMMA Found ==
    ASSUME KeysProjected, NEW items \in Seq(table), NEW k, NEW used,
           \A u \in used : u \in DOMAIN items /\ items[u] # k
    PROVE  LET idx == G!findMatchingItem(k, items, used) IN
           IF k \in G!Elements(items) THEN idx \in DOMAIN items /\ idx # 0 /\ items[idx] = k
           ELSE idx = 0
<1>. DEFINE found == {u \in DOMAIN items \ used : G!keyMatchesItem(k, items[u])}
<1>1. DOMAIN items = 1..Len(items) /\ Len(items) \in Nat
  BY LenProperties
<1>2. \A u : u \in found <=> u \in DOMAIN items /\ items[u] = k
  BY DEF G!keyMatchesItem
<1>3. CASE k \in G!Elements(items)
  <2>1. found # {} /\ found \subseteq Nat
    BY <1>1, <1>2, <1>3 DEF G!Elements
  <2>2. \E m \in found : \A n \in found : m <= n
    BY <2>1, Smallest
  <2>3. G!findMatchingItem(k, items, used) \in found
    BY <2>1, <2>2 DEF G!findMatchingItem
  <2>. QED
    BY <1>1, <1>2, <1>3, <2>3
<1>4. CASE k \notin G!Elements(items)
  <2>1. found = {}
    BY <1>2, <1>4 DEF G!Elements
  <2>. QED
    BY <1>4, <2>1 DEF G!findMatchingItem
<1>. QED
  BY <1>3, <1>4

\* One key: it gets an item not used yet, if there is one for it.
LEMMA PlacedKey ==
    ASSUME KeysProjected, NEW items \in Seq(table),
           keys \in Seq(Keys), ordered \in [DOMAIN keys -> Keys \cup {Nil}],
           NEW lo \in Nat \ {0}, NEW i \in DOMAIN keys, lo <= i,
           \A j \in lo..i - 1 : keys[j] # keys[i],
           NEW s, Placed(s, lo, i - 1, items)
    PROVE  Placed(AlignKey(s, i, items), lo, i, items)
<1>0. DOMAIN keys = 1..Len(keys) /\ Len(keys) \in Nat /\ i \in Nat
  BY LenProperties
<1>1. \A u \in s.used : u \in DOMAIN items /\ items[u] # keys[i]
  BY DEF Placed
<1>2. PICK idx : idx = G!findMatchingItem(keys[i], items, s.used)
  OBVIOUS
<1>3. IF keys[i] \in G!Elements(items) THEN idx \in DOMAIN items /\ idx # 0 /\ items[idx] = keys[i]
      ELSE idx = 0
  BY <1>1, <1>2, Found
<1>4. PICK before : before = {j \in lo..i - 1 : keys[j] \in G!Elements(items)}
  OBVIOUS
<1>5. IsFiniteSet(before) /\ i \notin before /\ s.matched = Cardinality(before)
  <2>1. IsFiniteSet(lo..i - 1) /\ before \subseteq lo..i - 1
    BY <1>0, <1>4, FS_Interval
  <2>2. IsFiniteSet(before)
    BY <2>1, FS_Subset
  <2>3. i \notin before
    BY <1>0, <1>4
  <2>. QED
    BY <1>4, <2>2, <2>3 DEF Placed
<1>6. CASE keys[i] \in G!Elements(items)
  <2>1. PICK r : r = AlignKey(s, i, items)
    OBVIOUS
  <2>2. /\ r.ordered = [s.ordered EXCEPT ![i] = keys[i]]
        /\ r.used = s.used \cup {idx}
        /\ r.matched = s.matched + 1
    BY <1>2, <1>3, <1>6, <2>1 DEF AlignKey
  <2>3. {j \in lo..i : keys[j] \in G!Elements(items)} = before \cup {i}
    BY <1>0, <1>4, <1>6
  <2>4. Cardinality(before \cup {i}) = Cardinality(before) + 1
    BY <1>5, FS_AddElement
  <2>5. r.ordered \in [DOMAIN keys -> Keys \cup {Nil}]
    BY <2>2 DEF Placed
  <2>6. \A j \in DOMAIN keys :
          r.ordered[j] = IF j \in lo..i /\ keys[j] \in G!Elements(items) THEN keys[j] ELSE ordered[j]
    BY <1>0, <1>6, <2>2 DEF Placed
  <2>7. \A u \in r.used : u \in DOMAIN items /\ \E j \in lo..i : items[u] = keys[j]
    <3>. SUFFICES ASSUME NEW u \in r.used PROVE u \in DOMAIN items /\ \E j \in lo..i : items[u] = keys[j]
      OBVIOUS
    <3>1. CASE u = idx
      BY <1>0, <1>3, <1>6, <3>1
    <3>2. CASE u \in s.used
      <4>1. PICK j \in lo..i - 1 : items[u] = keys[j]
        BY <3>2 DEF Placed
      <4>2. j \in lo..i
        BY <1>0, <4>1
      <4>. QED
        BY <3>2, <4>1, <4>2 DEF Placed
    <3>. QED
      BY <2>2, <3>1, <3>2
  <2>. QED
    BY <1>5, <2>1, <2>2, <2>3, <2>4, <2>5, <2>6, <2>7 DEF Placed
<1>7. CASE keys[i] \notin G!Elements(items)
  <2>1. AlignKey(s, i, items) = s
    BY <1>2, <1>3, <1>7 DEF AlignKey
  <2>2. {j \in lo..i : keys[j] \in G!Elements(items)} = before
    BY <1>0, <1>4, <1>7
  <2>3. \A j \in lo..i : j = i \/ j \in lo..i - 1
    BY <1>0
  <2>4. \A j \in lo..i - 1 : j \in lo..i
    BY <1>0
  <2>5. \A j \in DOMAIN keys :
          s.ordered[j] = IF j \in lo..i /\ keys[j] \in G!Elements(items) THEN keys[j] ELSE ordered[j]
    BY <1>7, <2>3, <2>4 DEF Placed
  <2>6. \A u \in s.used : u \in DOMAIN items /\ \E j \in lo..i : items[u] = keys[j]
    BY <2>4 DEF Placed
  <2>7. s.ordered \in [DOMAIN keys -> Keys \cup {Nil}]
    BY DEF Placed
  <2>. QED
    BY <1>5, <2>1, <2>2, <2>5, <2>6, <2>7 DEF Placed
<1>. QED
  BY <1>6, <1>7

\* All keys of a chunk.
LEMMA PlacedAll ==
    ASSUME KeysProjected, NEW items \in Seq(table),
           keys \in Seq(Keys), ordered \in [DOMAIN keys -> Keys \cup {Nil}],
           NEW lo \in Nat \ {0}, NEW hi \in DOMAIN keys, lo <= hi,
           \A i, j \in lo..hi : keys[i] = keys[j] => i = j,
           NEW f, Aligns(f, lo, hi, items)
    PROVE  Placed(f[hi], lo, hi, items)
<1>0. DOMAIN keys = 1..Len(keys) /\ Len(keys) \in Nat /\ hi \in Nat
  BY LenProperties
<1>1. \A i \in lo - 1..hi : f[i] = IF i < lo THEN Unaligned ELSE AlignKey(f[i - 1], i, items)
  BY DEF Aligns
<1>. DEFINE N == {n \in Nat : lo - 1 <= n /\ n <= hi /\ ~Placed(f[n], lo, n, items)}
<1>2. SUFFICES N = {}
  BY <1>0
<1>3. SUFFICES ASSUME N # {} PROVE FALSE
  OBVIOUS
<1>4. PICK m \in N : \A k \in N : m <= k
  <2>1. N \subseteq Nat
    OBVIOUS
  <2>. QED
    BY <1>3, <2>1, Smallest
<1>5. CASE m = lo - 1
  <2>1. f[m] = Unaligned
    BY <1>0, <1>1, <1>5
  <2>2. lo..m = {}
    BY <1>5
  <2>3. {j \in lo..m : keys[j] \in G!Elements(items)} = {}
    BY <2>2
  <2>4. Placed(f[m], lo, m, items)
    <3>1. f[m].ordered = ordered /\ f[m].used = {} /\ f[m].matched = 0
      BY <2>1 DEF Unaligned
    <3>2. Cardinality({j \in lo..m : keys[j] \in G!Elements(items)}) = 0
      BY <2>3, FS_EmptySet
    <3>3. \A j : j \notin lo..m
      BY <2>2
    <3>. QED
      BY <3>1, <3>2, <3>3 DEF Placed
  <2>. QED
    BY <1>4, <2>4
<1>6. CASE m # lo - 1
  <2>1. m \in Nat /\ lo <= m /\ m <= hi /\ m - 1 \in Nat /\ lo - 1 <= m - 1
    BY <1>4, <1>6
  <2>2. m - 1 \notin N
    BY <1>4, <2>1
  <2>3. Placed(f[m - 1], lo, m - 1, items)
    BY <1>0, <2>1, <2>2
  <2>4. m \in DOMAIN keys /\ \A j \in lo..m - 1 : keys[j] # keys[m]
    BY <1>0, <2>1
  <2>5. Placed(AlignKey(f[m - 1], m, items), lo, m, items)
    BY <2>1, <2>3, <2>4, PlacedKey
  <2>6. f[m] = AlignKey(f[m - 1], m, items)
    BY <1>0, <1>1, <2>1
  <2>. QED
    BY <1>4, <2>5, <2>6
<1>. QED
  BY <1>5, <1>6

\* Every item of a chunk is in the slot of its key, and they are counted.
InPlace(a, lo, hi, items) ==
    /\ a.ordered \in [DOMAIN keys -> Keys \cup {Nil}]
    /\ \A j \in DOMAIN keys :
         a.ordered[j] = IF j \in lo..hi /\ keys[j] \in G!Elements(items) THEN keys[j] ELSE ordered[j]
    /\ a.matched = Cardinality({j \in lo..hi : keys[j] \in G!Elements(items)})

\* What alignChunkResults does to a chunk: each slot gets the item of its key.
LEMMA Alignment ==
    ASSUME KeysProjected, NEW items \in Seq(table), NEW c,
           keys \in Seq(Keys), ordered \in [DOMAIN keys -> Keys \cup {Nil}],
           NEW lo \in Nat \ {0}, NEW hi \in DOMAIN keys, lo <= hi,
           G!First(c) = lo, G!Last(c) = hi,
           \A i, j \in lo..hi : keys[i] = keys[j] => i = j
    PROVE  InPlace(G!alignChunkResults(c, items), lo, hi, items)
<1>0. DOMAIN keys = 1..Len(keys) /\ Len(keys) \in Nat /\ hi \in Nat
  BY LenProperties
<1>1. PICK f : f = CHOOSE g : Aligns(g, lo, hi, items)
  OBVIOUS
<1>2. Aligns(f, lo, hi, items)
  <2>1. \E g : Aligns(g, lo, hi, items)
    BY <1>0, AlignsExists
  <2>. QED
    BY <1>1, <2>1, Zenon
<1>3. Placed(f[hi], lo, hi, items)
  BY <1>2, PlacedAll
<1>4. G!alignChunkResults(c, items) = AlignedBy(f, hi)
  BY <1>1, AlignIs, Zenon
<1>. QED
  BY <1>3, <1>4 DEF Placed, AlignedBy, InPlace

------------------------------------------------------------------------------
(***************************************************************************)
(* BatchGet: the inductive invariant.                                      *)
(***************************************************************************)
GetPlaces == {"none", "waiting", "request", "backoff", "failed", "align", "callback",
              "done", "error"}

GetTypes ==
    /\ stage \in {"new", "running", "ok", "error"}
    /\ keys \in Seq(Keys \cup {BadKey}) /\ Len(keys) \in 0..MaxKeys
    /\ table \in SUBSET Keys
    /\ opts \in [size : Int, parallel : BOOLEAN, concurrency : Int, retry : BOOLEAN,
                 handler : BOOLEAN]
    /\ pc \in [1..MaxKeys -> GetPlaces]
    /\ remaining \in [1..MaxKeys -> SUBSET Keys]
    /\ collected \in [1..MaxKeys -> Seq(table)]
    /\ attempts \in [1..MaxKeys -> 0..MaxRetries]
    /\ current \in [1..MaxKeys -> Nat]
    /\ retrieved \in Nat /\ highest \in Nat /\ callbacks \in Nat
    /\ skipped \in SUBSET (1..MaxKeys)

\* Nothing is cut yet, or the call was refused.
Unplanned ==
    /\ stage \in {"new", "error"}
    /\ \A c \in 1..MaxKeys : pc[c] = "none" /\ collected[c] = <<>> /\ current[c] = 0
    /\ ordered = <<>> /\ skipped = {}
    /\ retrieved = 0 /\ highest = 0 /\ callbacks = 0

\* The chunks are those the keys were cut into.
Cut ==
    /\ stage # "new"
    /\ keys \in Seq(Keys) /\ Len(keys) \in 1..MaxKeys
    /\ opts.size \in Nat \ {0}
    /\ \A c \in 1..MaxKeys :
         pc[c] # "none" <=> c <= G!ChunkCount(Len(keys), opts.size)

\* A chunk has collected what is stored of the keys that were processed, and
\* aligns what it collected of all of its keys, which differ.
Collecting(c) ==
    /\ pc[c] = "waiting" => collected[c] = <<>>
    /\ pc[c] \in {"request", "backoff"} =>
         /\ remaining[c] \subseteq G!ChunkKeys(c)
         /\ G!Elements(collected[c]) = (G!ChunkKeys(c) \ remaining[c]) \cap table
    /\ pc[c] = "align" =>
         G!Acceptable(c) /\ G!Elements(collected[c]) = G!ChunkKeys(c) \cap table

\* The loop has finished the chunks before the one it is at.
InTurn ==
    ~opts.parallel =>
        \A c, d \in 1..MaxKeys : c < d /\ pc[d] \notin {"none", "waiting"} => pc[c] = "done"

Delivered(c) == pc[c] \in {"callback", "done"} /\ c \notin skipped

\* A slot is filled when its chunk was aligned, and only then.
Slots ==
    /\ ordered \in [DOMAIN keys -> Keys \cup {Nil}]
    /\ \A i \in DOMAIN keys :
         ordered[i] = IF Delivered(G!ChunkOf(i)) /\ keys[i] \in table THEN keys[i] ELSE Nil
    /\ \A c \in skipped : pc[c] = "done"

CalledBack == {c \in 1..MaxKeys : pc[c] = "done"} \ skipped

\* The counter is the number of filled slots.  The highest count was given to
\* the callback, or a chunk that has it is on its way there.
Counting ==
    /\ retrieved = Cardinality(G!Filled)
    /\ callbacks = Cardinality(CalledBack)
    /\ \A c \in 1..MaxKeys : current[c] <= retrieved
    /\ highest <= retrieved
    /\ \/ highest = retrieved
       \/ \E c \in 1..MaxKeys : pc[c] = "callback" /\ current[c] = retrieved

GetOutcome ==
    /\ G!Returned => G!InFlight = {}
    /\ stage = "ok" => /\ \A c \in 1..MaxKeys : pc[c] \in {"none", "done"}
                       /\ result = G!flattenBatchGetResults(ordered)

Planned == Cut /\ (\A c \in 1..MaxKeys : Collecting(c)) /\ InTurn /\ Slots /\ Counting

GetInv == GetTypes /\ (Unplanned \/ Planned) /\ GetOutcome

------------------------------------------------------------------------------
\* Where a chunk begins and ends, and which slots are its own.
LEMMA ChunkFacts ==
    ASSUME GetTypes, Cut, NEW c \in 1..MaxKeys, pc[c] # "none"
    PROVE  /\ G!First(c) \in Nat \ {0} /\ G!Last(c) \in DOMAIN keys /\ G!First(c) <= G!Last(c)
           /\ \A i \in DOMAIN keys : i \in G!First(c)..G!Last(c) <=> G!ChunkOf(i) = c
           /\ G!ChunkKeys(c) \subseteq Keys
<1>1. PICK n, s : n = Len(keys) /\ s = opts.size
  OBVIOUS
<1>2. n \in Nat \ {0} /\ s \in Nat \ {0} /\ c \in Nat \ {0} /\ DOMAIN keys = 1..n
  BY <1>1, LenProperties DEF Cut
<1>3. (c - 1) * s \in Nat /\ c * s = (c - 1) * s + s /\ (c - 1) * s + 1 <= n
  BY <1>1, <1>2, Pieces DEF Cut, G!ChunkCount
<1>4. G!First(c) = (c - 1) * s + 1 /\ G!Last(c) = IF c * s > n THEN n ELSE c * s
  BY <1>1 DEF G!First, G!Last
<1>5. c * s \in Nat
  BY <1>2, <1>3
<1>6. G!First(c) \in Nat \ {0} /\ G!Last(c) \in 1..n /\ G!First(c) <= G!Last(c)
  BY <1>2, <1>3, <1>4, <1>5
<1>7. ASSUME NEW i \in DOMAIN keys
      PROVE  i \in G!First(c)..G!Last(c) <=> G!ChunkOf(i) = c
  <2>1. G!ChunkOf(i) = c <=> (c - 1) * s + 1 <= i /\ i <= c * s
    BY <1>1, <1>2, Cutting DEF G!ChunkOf
  <2>. QED
    BY <1>2, <1>3, <1>4, <1>5, <2>1
<1>8. G!ChunkKeys(c) \subseteq Keys
  BY <1>2, <1>6, ElementOfSeq DEF G!ChunkKeys, Cut
<1>. QED
  BY <1>2, <1>6, <1>7, <1>8

\* Every slot has a chunk.
LEMMA SlotHasChunk ==
    ASSUME GetTypes, Cut, NEW i \in DOMAIN keys
    PROVE  G!ChunkOf(i) \in 1..MaxKeys /\ pc[G!ChunkOf(i)] # "none"
<1>1. PICK n, s : n = Len(keys) /\ s = opts.size
  OBVIOUS
<1>2. n \in 1..MaxKeys /\ n \in Nat /\ s \in Nat \ {0} /\ DOMAIN keys = 1..n
  BY <1>1, LenProperties DEF Cut
<1>3. G!ChunkOf(i) \in 1..n /\ G!ChunkOf(i) <= (n + s - 1) \div s
  BY <1>1, <1>2, Cutting DEF G!ChunkOf
<1>4. G!ChunkOf(i) \in 1..MaxKeys
  BY <1>2, <1>3, BatchesAssumption
<1>. QED
  BY <1>1, <1>3, <1>4 DEF Cut, G!ChunkCount

\* The keys of a request that DynamoDB accepts differ.
LEMMA AcceptableDiffer ==
    ASSUME GetTypes, Cut, NEW c \in 1..MaxKeys, pc[c] # "none", G!Acceptable(c)
    PROVE  \A i, j \in G!First(c)..G!Last(c) : keys[i] = keys[j] => i = j
<1>1. PICK lo, hi : lo = G!First(c) /\ hi = G!Last(c)
  OBVIOUS
<1>2. lo \in Nat \ {0} /\ hi \in Nat /\ lo <= hi
  <2>1. G!Last(c) \in DOMAIN keys /\ DOMAIN keys = 1..Len(keys) /\ Len(keys) \in Nat
    BY ChunkFacts, LenProperties DEF Cut
  <2>. QED
    BY <1>1, <2>1, ChunkFacts
<1>3. IsFiniteSet(lo..hi) /\ Cardinality(lo..hi) = hi - lo + 1
  BY <1>2, FS_Interval
<1>4. PICK f : f = [i \in lo..hi |-> keys[i]]
  OBVIOUS
<1>5. f \in Surjection(lo..hi, G!ChunkKeys(c))
  BY <1>1, <1>4 DEF Surjection, G!ChunkKeys
<1>6. Cardinality(G!ChunkKeys(c)) = Cardinality(lo..hi)
  BY <1>1, <1>3, SameCardinality DEF G!Acceptable
<1>7. f \in Injection(lo..hi, G!ChunkKeys(c))
  BY <1>3, <1>5, <1>6, FS_Surjection
<1>. QED
  BY <1>1, <1>4, <1>7 DEF Injection, IsInjective

------------------------------------------------------------------------------
\* Another chunk's step changes nothing of this.
LEMMA CollectingSame ==
    ASSUME NEW c \in 1..MaxKeys, UNCHANGED <<keys, table, opts>>, Collecting(c),
           pc'[c] = pc[c], collected'[c] = collected[c], remaining'[c] = remaining[c]
    PROVE  Collecting(c)'
BY DEF Collecting, G!ChunkKeys, G!Acceptable, G!First, G!Last

\* A step of a chunk leaves the plan, the turns and the other chunks alone.
LEMMA ChunkMoves ==
    ASSUME GetInv, GetTypes', NEW c \in 1..MaxKeys, NEW l \in GetPlaces \ {"none", "waiting"},
           pc[c] \notin {"none", "done", "error"},
           pc[c] = "waiting" => stage = "running" /\ G!Slot(c),
           pc' = [pc EXCEPT ![c] = l], UNCHANGED <<keys, table, opts, stage>>,
           \A d \in 1..MaxKeys :
             d # c => collected'[d] = collected[d] /\ remaining'[d] = remaining[d],
           Collecting(c)', Slots', Counting'
    PROVE  GetInv'
<1>0. pc \in [1..MaxKeys -> GetPlaces] /\ (\A d \in 1..MaxKeys : pc'[d] = IF d = c THEN l ELSE pc[d])
  BY DEF GetInv, GetTypes
<1>1. Planned
  BY DEF GetInv, Unplanned
<1>2. stage = "running"
  <2>1. pc[c] # "waiting" => c \in G!InFlight
    BY DEF G!InFlight, G!Chunks
  <2>2. stage \notin {"ok", "error"}
    BY <2>1 DEF GetInv, GetOutcome, G!Returned
  <2>. QED
    BY <1>1, <2>2 DEF Planned, Cut, GetInv, GetTypes
<1>3. Cut'
  BY <1>0, <1>1 DEF Planned, Cut, G!ChunkCount
<1>4. ASSUME NEW d \in 1..MaxKeys PROVE Collecting(d)'
  <2>1. CASE d = c
    BY <2>1
  <2>2. CASE d # c
    <3>1. pc'[d] = pc[d] /\ collected'[d] = collected[d] /\ remaining'[d] = remaining[d]
      BY <1>0, <2>2
    <3>2. Collecting(d)
      BY <1>1 DEF Planned
    <3>. QED
      BY <3>1, <3>2, CollectingSame
  <2>. QED
    BY <2>1, <2>2
<1>5. InTurn'
  <2>. SUFFICES ASSUME ~opts.parallel, NEW a \in 1..MaxKeys, NEW d \in 1..MaxKeys, a < d,
                       pc'[d] \notin {"none", "waiting"}
                PROVE  pc'[a] = "done"
    BY DEF InTurn
  <2>1. CASE pc[d] \notin {"none", "waiting"}
    <3>1. pc[a] = "done"
      BY <1>1, <2>1 DEF Planned, InTurn
    <3>. QED
      BY <1>0, <3>1
  <2>2. CASE pc[d] \in {"none", "waiting"}
    <3>1. d = c /\ pc[c] = "waiting"
      BY <1>0, <2>2
    <3>2. pc[a] = "done"
      BY <3>1 DEF G!Slot
    <3>. QED
      BY <1>0, <3>1, <3>2
  <2>. QED
    BY <2>1, <2>2
<1>6. GetOutcome'
  BY <1>2 DEF GetOutcome, G!Returned
<1>. QED
  BY <1>3, <1>4, <1>5, <1>6 DEF GetInv, Planned

\* Slots and counters stay as they are until a chunk is aligned, also when the
\* error of a chunk is taken.
LEMMA NotDelivered ==
    ASSUME GetInv, NEW c \in 1..MaxKeys, NEW l \in GetPlaces \ {"none", "waiting", "callback"},
           pc[c] \notin {"none", "done", "error", "callback"},
           pc' = [pc EXCEPT ![c] = l],
           skipped' = IF l = "done" THEN skipped \cup {c} ELSE skipped,
           UNCHANGED <<keys, table, opts, current, ordered, retrieved, callbacks, highest>>
    PROVE  Slots' /\ Counting'
<1>0. pc \in [1..MaxKeys -> GetPlaces] /\ (\A d \in 1..MaxKeys : pc'[d] = IF d = c THEN l ELSE pc[d])
  BY DEF GetInv, GetTypes
<1>1. Planned
  BY DEF GetInv, Unplanned
<1>2. c \notin skipped /\ skipped \subseteq 1..MaxKeys
  BY <1>1 DEF Planned, Slots, GetInv, GetTypes
<1>3. \A d \in 1..MaxKeys : Delivered(d)' <=> Delivered(d)
  BY <1>0, <1>2 DEF Delivered
<1>4. Slots'
  <2>1. \A i \in DOMAIN keys : G!ChunkOf(i)' = G!ChunkOf(i) /\ G!ChunkOf(i) \in 1..MaxKeys
    BY <1>1, SlotHasChunk DEF Planned, GetInv, G!ChunkOf
  <2>2. \A i \in DOMAIN keys : Delivered(G!ChunkOf(i))' <=> Delivered(G!ChunkOf(i))
    BY <1>3, <2>1 DEF Delivered
  <2>3. \A d \in skipped' : pc'[d] = "done"
    BY <1>0, <1>1, <1>2 DEF Planned, Slots
  <2>. QED
    BY <1>1, <2>2, <2>3 DEF Planned, Slots
<1>5. Counting'
  <2>1. CalledBack' = CalledBack
    BY <1>0, <1>2 DEF CalledBack
  <2>2. G!Filled' = G!Filled
    BY DEF G!Filled
  <2>3. \A d \in 1..MaxKeys : pc[d] = "callback" => pc'[d] = "callback"
    BY <1>0
  <2>. QED
    BY <1>1, <2>1, <2>2, <2>3 DEF Planned, Counting
<1>. QED
  BY <1>4, <1>5

\* The callback of a chunk.
LEMMA CallbackCounts ==
    ASSUME GetInv, NEW c \in 1..MaxKeys, G!ProgressCallback(c)
    PROVE  GetTypes' /\ Slots' /\ Counting'
<1>0. /\ pc \in [1..MaxKeys -> GetPlaces] /\ pc[c] = "callback"
      /\ \A d \in 1..MaxKeys : pc'[d] = IF d = c THEN "done" ELSE pc[d]
  BY DEF GetInv, GetTypes, G!ProgressCallback, G!Goto
<1>1. Planned
  BY <1>0 DEF GetInv, Unplanned
<1>2. c \notin skipped /\ skipped \subseteq 1..MaxKeys
  BY <1>0, <1>1 DEF Planned, Slots, GetInv, GetTypes
<1>3. /\ UNCHANGED <<keys, table, opts, stage, remaining, collected, attempts, current>>
      /\ UNCHANGED <<ordered, retrieved, skipped>>
      /\ callbacks' = callbacks + 1
      /\ highest' = IF current[c] > highest THEN current[c] ELSE highest
  BY DEF G!ProgressCallback, G!call
<1>4. retrieved \in Nat /\ highest \in Nat /\ callbacks \in Nat /\ current \in [1..MaxKeys -> Nat]
  BY DEF GetInv, GetTypes
<1>5. GetTypes'
  <2>1. pc' \in [1..MaxKeys -> GetPlaces]
    BY <1>0 DEF GetPlaces, G!ProgressCallback, G!Goto
  <2>2. highest' \in Nat /\ callbacks' \in Nat
    BY <1>3, <1>4
  <2>. QED
    BY <1>3, <2>1, <2>2 DEF GetInv, GetTypes
<1>6. Slots'
  <2>1. \A i \in DOMAIN keys : G!ChunkOf(i)' = G!ChunkOf(i) /\ G!ChunkOf(i) \in 1..MaxKeys
    BY <1>1, <1>3, SlotHasChunk DEF Planned, GetInv, G!ChunkOf
  <2>2. \A i \in DOMAIN keys : Delivered(G!ChunkOf(i))' <=> Delivered(G!ChunkOf(i))
    BY <1>0, <1>3, <2>1 DEF Delivered
  <2>3. \A d \in skipped' : pc'[d] = "done"
    BY <1>0, <1>1, <1>2, <1>3 DEF Planned, Slots
  <2>. QED
    BY <1>1, <1>3, <2>2, <2>3 DEF Planned, Slots
<1>7. Counting'
  <2>1. CalledBack' = CalledBack \cup {c} /\ c \notin CalledBack /\ CalledBack \subseteq 1..MaxKeys
    BY <1>0, <1>2, <1>3 DEF CalledBack
  <2>2. IsFiniteSet(CalledBack)
    <3>1. IsFiniteSet(1..MaxKeys)
      BY FS_Interval, BatchesAssumption
    <3>. QED
      BY <2>1, <3>1, FS_Subset
  <2>3. Cardinality(CalledBack \cup {c}) = Cardinality(CalledBack) + 1
    BY <2>1, <2>2, FS_AddElement
  <2>4. callbacks' = Cardinality(CalledBack')
    BY <1>1, <1>3, <2>1, <2>3 DEF Planned, Counting
  <2>5. retrieved' = Cardinality(G!Filled')
    BY <1>1, <1>3 DEF Planned, Counting, G!Filled
  <2>6. (\A d \in 1..MaxKeys : current'[d] <= retrieved') /\ highest' <= retrieved'
    BY <1>1, <1>3, <1>4 DEF Planned, Counting
  <2>7. \/ highest' = retrieved'
        \/ \E d \in 1..MaxKeys : pc'[d] = "callback" /\ current'[d] = retrieved'
    <3>1. CASE current[c] = retrieved
      BY <1>1, <1>3, <1>4, <3>1 DEF Planned, Counting
    <3>2. CASE highest = retrieved
      BY <1>1, <1>3, <1>4, <3>2 DEF Planned, Counting
    <3>3. CASE current[c] # retrieved /\ \E d \in 1..MaxKeys : pc[d] = "callback" /\ current[d] = retrieved
      BY <1>0, <1>3, <3>3
    <3>. QED
      BY <1>1, <3>1, <3>2, <3>3 DEF Planned, Counting
  <2>. QED
    BY <2>4, <2>5, <2>6, <2>7 DEF Counting
<1>. QED
  BY <1>5, <1>6, <1>7

\* The chunk's items reach its slots, and no others.
LEMMA AlignFills ==
    ASSUME KeysProjected, GetInv, NEW c \in 1..MaxKeys, G!AlignChunk(c)
    PROVE  GetTypes' /\ Slots' /\ Counting'
<1>0. /\ pc \in [1..MaxKeys -> GetPlaces] /\ pc[c] = "align"
      /\ \A d \in 1..MaxKeys : pc'[d] = IF d = c THEN "callback" ELSE pc[d]
  BY DEF GetInv, GetTypes, G!AlignChunk, G!Goto
<1>1. Planned
  BY <1>0 DEF GetInv, Unplanned
<1>2. c \notin skipped /\ skipped \subseteq 1..MaxKeys
  BY <1>0, <1>1 DEF Planned, Slots, GetInv, GetTypes
<1>3. PICK a : a = G!alignChunkResults(c, collected[c])
  OBVIOUS
<1>4. /\ UNCHANGED <<keys, table, opts, stage, remaining, collected, attempts>>
      /\ UNCHANGED <<callbacks, highest, skipped>>
      /\ ordered' = a.ordered /\ retrieved' = retrieved + a.matched
      /\ current' = [current EXCEPT ![c] = retrieved']
  BY <1>3 DEF G!AlignChunk, G!call
<1>5. PICK lo, hi : lo = G!First(c) /\ hi = G!Last(c)
  OBVIOUS
<1>6. /\ lo \in Nat \ {0} /\ hi \in DOMAIN keys /\ lo <= hi
      /\ \A i \in DOMAIN keys : i \in lo..hi <=> G!ChunkOf(i) = c
  BY <1>0, <1>1, <1>5, ChunkFacts DEF Planned, GetInv
<1>7. keys \in Seq(Keys) /\ DOMAIN keys = 1..Len(keys) /\ Len(keys) \in Nat
  BY <1>1, LenProperties DEF Planned, Cut
<1>8. G!Acceptable(c) /\ G!Elements(collected[c]) = G!ChunkKeys(c) \cap table
  BY <1>0, <1>1 DEF Planned, Collecting
<1>9. \A i, j \in lo..hi : keys[i] = keys[j] => i = j
  BY <1>0, <1>1, <1>5, <1>8, AcceptableDiffer DEF Planned, GetInv
<1>10. /\ a.ordered \in [DOMAIN keys -> Keys \cup {Nil}]
       /\ \A j \in DOMAIN keys :
            a.ordered[j] = IF j \in lo..hi /\ keys[j] \in G!Elements(collected[c])
                           THEN keys[j] ELSE ordered[j]
       /\ a.matched = Cardinality({j \in lo..hi : keys[j] \in G!Elements(collected[c])})
  <2>1. collected[c] \in Seq(table) /\ ordered \in [DOMAIN keys -> Keys \cup {Nil}]
    BY <1>1 DEF Planned, Slots, GetInv, GetTypes
  <2>2. InPlace(a, lo, hi, collected[c])
    BY <1>3, <1>5, <1>6, <1>7, <1>9, <2>1, Alignment
  <2>. QED
    BY <2>2 DEF InPlace
<1>11. \A j \in lo..hi : j \in DOMAIN keys /\ (keys[j] \in G!Elements(collected[c]) <=> keys[j] \in table)
  BY <1>5, <1>6, <1>7, <1>8 DEF G!ChunkKeys
<1>12. PICK new : new = {j \in lo..hi : keys[j] \in table}
  OBVIOUS
<1>13. a.matched = Cardinality(new)
  <2>1. new = {j \in lo..hi : keys[j] \in G!Elements(collected[c])}
    BY <1>11, <1>12
  <2>. QED
    BY <1>10, <2>1
<1>14. Slots'
  <2>1. \A i \in DOMAIN keys : G!ChunkOf(i)' = G!ChunkOf(i) /\ G!ChunkOf(i) \in 1..MaxKeys
    BY <1>1, <1>4, SlotHasChunk DEF Planned, GetInv, G!ChunkOf
  <2>2. ASSUME NEW i \in DOMAIN keys
        PROVE  ordered'[i] = IF Delivered(G!ChunkOf(i))' /\ keys[i] \in table THEN keys[i] ELSE Nil
    <3>1. CASE i \in lo..hi
      <4>1. G!ChunkOf(i) = c /\ Delivered(G!ChunkOf(i))' /\ ~Delivered(c)
        BY <1>0, <1>2, <1>4, <1>6, <2>1, <3>1 DEF Delivered
      <4>2. ordered[i] = Nil
        BY <1>1, <4>1 DEF Planned, Slots
      <4>. QED
        BY <1>4, <1>10, <1>11, <3>1, <4>1, <4>2
    <3>2. CASE i \notin lo..hi
      <4>1. G!ChunkOf(i) # c /\ (Delivered(G!ChunkOf(i))' <=> Delivered(G!ChunkOf(i)))
        BY <1>0, <1>4, <1>6, <2>1, <3>2 DEF Delivered
      <4>2. ordered'[i] = ordered[i]
        BY <1>4, <1>10, <3>2
      <4>. QED
        BY <1>1, <4>1, <4>2 DEF Planned, Slots
    <3>. QED
      BY <3>1, <3>2
  <2>3. \A d \in skipped' : pc'[d] = "done"
    BY <1>0, <1>1, <1>2, <1>4 DEF Planned, Slots
  <2>4. ordered' \in [DOMAIN keys' -> Keys \cup {Nil}]
    BY <1>4, <1>10
  <2>. QED
    BY <1>4, <2>2, <2>3, <2>4 DEF Slots
<1>15. retrieved' = Cardinality(G!Filled') /\ Cardinality(new) \in Nat
  <2>1. \A j \in lo..hi : ordered[j] = Nil
    <3>1. \A j \in lo..hi : j \in DOMAIN keys /\ G!ChunkOf(j) = c
      BY <1>6, <1>11
    <3>2. ~Delivered(c)
      BY <1>0 DEF Delivered
    <3>. QED
      BY <1>1, <3>1, <3>2 DEF Planned, Slots
  <2>2. DOMAIN ordered = DOMAIN keys /\ DOMAIN ordered' = DOMAIN keys
    BY <1>1, <1>4, <1>10 DEF Planned, Slots
  <2>3. G!Filled' = G!Filled \cup new /\ G!Filled \cap new = {}
    <3>0. \A i \in DOMAIN keys : keys[i] # Nil
      BY <1>7, ElementOfSeq, BatchesAssumption
    <3>1. \A i : i \in G!Filled' <=> i \in DOMAIN keys /\ ordered'[i] # Nil
      BY <2>2 DEF G!Filled
    <3>2. \A i : i \in G!Filled <=> i \in DOMAIN keys /\ ordered[i] # Nil
      BY <2>2 DEF G!Filled
    <3>3. \A i \in DOMAIN keys : ordered'[i] = IF i \in new THEN keys[i] ELSE ordered[i]
      BY <1>4, <1>10, <1>11, <1>12
    <3>4. new \subseteq DOMAIN keys /\ \A i \in new : ordered[i] = Nil
      BY <1>11, <1>12, <2>1
    <3>. QED
      BY <3>0, <3>1, <3>2, <3>3, <3>4
  <2>4. IsFiniteSet(G!Filled) /\ IsFiniteSet(new)
    <3>1. IsFiniteSet(DOMAIN keys)
      BY <1>7, FS_Interval
    <3>2. G!Filled \subseteq DOMAIN keys /\ new \subseteq DOMAIN keys
      BY <1>11, <1>12, <2>2 DEF G!Filled
    <3>. QED
      BY <3>1, <3>2, FS_Subset
  <2>5. Cardinality(G!Filled \cup new) = Cardinality(G!Filled) + Cardinality(new)
    <3>1. Cardinality(G!Filled \cap new) = 0
      BY <2>3, FS_EmptySet
    <3>2. Cardinality(G!Filled) \in Nat /\ Cardinality(new) \in Nat
      BY <2>4, FS_CardinalityType
    <3>. QED
      BY <2>4, <3>1, <3>2, FS_Union
  <2>6. Cardinality(new) \in Nat
    BY <2>4, FS_CardinalityType
  <2>. QED
    BY <1>1, <1>4, <1>13, <2>3, <2>5, <2>6 DEF Planned, Counting
<1>16. retrieved \in Nat /\ current \in [1..MaxKeys -> Nat] /\ highest \in Nat
  BY DEF GetInv, GetTypes
<1>17. retrieved' \in Nat /\ retrieved' >= retrieved
  BY <1>4, <1>13, <1>15, <1>16
<1>18. GetTypes'
  <2>1. pc' \in [1..MaxKeys -> GetPlaces]
    BY <1>0 DEF GetPlaces, G!AlignChunk, G!Goto
  <2>2. current' \in [1..MaxKeys -> Nat]
    BY <1>4, <1>16, <1>17
  <2>. QED
    BY <1>4, <1>17, <2>1, <2>2 DEF GetInv, GetTypes
<1>19. Counting'
  <2>1. CalledBack' = CalledBack
    BY <1>0, <1>4 DEF CalledBack
  <2>2. \A d \in 1..MaxKeys : current'[d] = IF d = c THEN retrieved' ELSE current[d]
    BY <1>4, <1>16
  <2>3. \A d \in 1..MaxKeys : current'[d] <= retrieved'
    BY <1>1, <1>16, <1>17, <2>2 DEF Planned, Counting
  <2>4. highest' <= retrieved' /\ callbacks' = Cardinality(CalledBack')
    BY <1>1, <1>4, <1>16, <1>17, <2>1 DEF Planned, Counting
  <2>5. \E d \in 1..MaxKeys : pc'[d] = "callback" /\ current'[d] = retrieved'
    BY <1>0, <2>2
  <2>. QED
    BY <1>15, <2>3, <2>4, <2>5 DEF Counting
<1>. QED
  BY <1>14, <1>18, <1>19

------------------------------------------------------------------------------
\* The call begins with nothing planned.
LEMMA GetInit == G!Init => GetInv
<1>. SUFFICES ASSUME G!Init PROVE GetInv
  OBVIOUS
<1>1. PICK n \in 0..MaxKeys : keys \in [1..n -> Keys \cup {BadKey}]
  BY DEF G!Init
<1>2. n \in Nat
  BY BatchesAssumption
<1>3. keys \in Seq(Keys \cup {BadKey}) /\ Len(keys) = n
  <2>1. keys = [i \in 1..n |-> keys[i]] /\ \A i \in 1..n : keys[i] \in Keys \cup {BadKey}
    BY <1>1
  <2>2. keys \in Seq(Keys \cup {BadKey})
    BY <1>2, <2>1, IsASeq
  <2>3. DOMAIN keys = 1..n /\ DOMAIN keys = 1..Len(keys) /\ Len(keys) \in Nat
    BY <1>1, <2>2, LenProperties
  <2>. QED
    BY <1>2, <2>2, <2>3
<1>4. opts \in [size : Int, parallel : BOOLEAN, concurrency : Int, retry : BOOLEAN, handler : BOOLEAN]
  BY BatchesAssumption DEF G!Init, G!Options
<1>5. collected \in [1..MaxKeys -> Seq(table)]
  BY EmptySeq DEF G!Init
<1>6. GetTypes
  <2>1. attempts \in [1..MaxKeys -> 0..MaxRetries] /\ current \in [1..MaxKeys -> Nat]
    BY BatchesAssumption DEF G!Init
  <2>2. pc \in [1..MaxKeys -> GetPlaces] /\ remaining \in [1..MaxKeys -> SUBSET Keys]
    BY DEF G!Init, GetPlaces
  <2>. QED
    BY <1>1, <1>3, <1>4, <1>5, <2>1, <2>2 DEF G!Init, GetTypes
<1>7. Unplanned
  BY DEF G!Init, Unplanned
<1>8. GetOutcome
  BY DEF G!Init, GetOutcome, G!Returned
<1>. QED
  BY <1>6, <1>7, <1>8 DEF GetInv

\* Options after normalization.
LEMMA Normalized ==
    ASSUME NEW o \in [size : Int, parallel : BOOLEAN, concurrency : Int, retry : BOOLEAN,
                      handler : BOOLEAN]
    PROVE  /\ G!normalizeBatchGetOptions(o) \in
                [size : Int, parallel : BOOLEAN, concurrency : Int, retry : BOOLEAN, handler : BOOLEAN]
           /\ G!normalizeBatchGetOptions(o).size \in Nat \ {0}
<1>1. PICK s : s = IF o.size <= 0 \/ o.size > MaxChunk THEN MaxChunk ELSE o.size
  OBVIOUS
<1>2. s \in Nat \ {0}
  BY <1>1, BatchesAssumption
<1>3. PICK k : k = IF o.concurrency <= 0 THEN 1 ELSE o.concurrency
  OBVIOUS
<1>4. k \in Int
  BY <1>3
<1>5. CASE o.parallel /\ k # 1
  <2>1. G!normalizeBatchGetOptions(o) =
          [size |-> s, parallel |-> TRUE, retry |-> o.retry, handler |-> o.handler, concurrency |-> k]
    BY <1>1, <1>3, <1>5 DEF G!normalizeBatchGetOptions
  <2>. QED
    BY <1>2, <1>4, <2>1
<1>6. CASE ~(o.parallel /\ k # 1)
  <2>1. G!normalizeBatchGetOptions(o) =
          [size |-> s, parallel |-> FALSE, retry |-> o.retry, handler |-> o.handler, concurrency |-> 1]
    BY <1>1, <1>3, <1>6 DEF G!normalizeBatchGetOptions
  <2>. QED
    BY <1>2, <2>1
<1>. QED
  BY <1>5, <1>6

\* The caller's own steps.
LEMMA GetCaller == GetInv /\ G!Return => GetInv'
<1>. SUFFICES ASSUME GetInv, G!Return PROVE GetInv'
  OBVIOUS
<1>1. CASE G!Refuse
  <2>1. Unplanned
    BY <1>1 DEF G!Refuse, GetInv, Planned, Cut
  <2>2. GetTypes' /\ Unplanned'
    BY <1>1, <2>1 DEF GetInv, GetTypes, Unplanned, G!Refuse, G!call, G!chunk, G!report
  <2>3. G!InFlight' = {}
    BY <2>2 DEF Unplanned, G!InFlight, G!Chunks
  <2>4. GetOutcome'
    BY <1>1, <2>3 DEF GetOutcome, G!Refuse
  <2>. QED
    BY <2>2, <2>4 DEF GetInv
<1>2. CASE G!buildBatchGetPlan
  <2>1. Unplanned
    BY <1>2 DEF G!buildBatchGetPlan, GetInv, Planned, Cut
  <2>2. /\ stage' = "running" /\ UNCHANGED <<keys, table, result, remaining, collected, attempts>>
        /\ UNCHANGED <<current, retrieved, callbacks, highest, skipped>>
        /\ opts' = G!normalizeBatchGetOptions(opts)
        /\ pc' = [c \in 1..MaxKeys |->
                    IF c <= G!ChunkCount(Len(keys), opts'.size) THEN "waiting" ELSE "none"]
        /\ ordered' = [i \in DOMAIN keys |-> Nil]
        /\ keys # <<>> /\ BadKey \notin G!Elements(keys)
    BY <1>2 DEF G!buildBatchGetPlan, G!call, G!report, G!convertBatchGetKeysFails
  <2>3. opts' \in [size : Int, parallel : BOOLEAN, concurrency : Int, retry : BOOLEAN, handler : BOOLEAN]
        /\ opts'.size \in Nat \ {0}
    BY <2>2, Normalized DEF GetInv, GetTypes
  <2>4. keys \in Seq(Keys) /\ Len(keys) \in 1..MaxKeys
    <3>1. keys \in Seq(Keys \cup {BadKey}) /\ Len(keys) \in 0..MaxKeys
      BY DEF GetInv, GetTypes
    <3>2. Len(keys) # 0
      BY <2>2, <3>1, EmptySeq
    <3>3. \A i \in 1..Len(keys) : keys[i] \in Keys
      BY <2>2, <3>1, ElementOfSeq, LenProperties DEF G!Elements
    <3>4. keys = [i \in 1..Len(keys) |-> keys[i]] /\ Len(keys) \in Nat
      BY <3>1, LenProperties
    <3>5. keys \in Seq(Keys)
      BY <3>3, <3>4, IsASeq
    <3>. QED
      BY <3>1, <3>2, <3>5, BatchesAssumption
  <2>5. GetTypes'
    <3>1. pc' \in [1..MaxKeys -> GetPlaces]
      BY <2>2 DEF GetPlaces
    <3>. QED
      BY <2>2, <2>3, <3>1 DEF GetInv, GetTypes
  <2>6. \A c \in 1..MaxKeys : pc'[c] = IF c <= G!ChunkCount(Len(keys), opts'.size) THEN "waiting" ELSE "none"
    BY <2>2
  <2>7. Cut'
    BY <2>2, <2>3, <2>4, <2>6 DEF Cut, G!ChunkCount
  <2>8. \A c \in 1..MaxKeys : Collecting(c)'
    BY <2>1, <2>2, <2>6 DEF Unplanned, Collecting
  <2>9. InTurn'
    BY <2>6 DEF InTurn
  <2>10. \A i \in DOMAIN keys : ~Delivered(G!ChunkOf(i))'
    <3>1. ASSUME NEW i \in DOMAIN keys PROVE G!ChunkOf(i)' \in 1..MaxKeys
      <4>1. DOMAIN keys = 1..Len(keys) /\ Len(keys) \in Nat /\ Len(keys) <= MaxKeys /\ MaxKeys \in Nat
        BY <2>4, LenProperties, BatchesAssumption
      <4>2. (i - 1) \div opts'.size + 1 \in 1..Len(keys)
        BY <2>3, <4>1, Cutting
      <4>. QED
        BY <4>1, <4>2 DEF G!ChunkOf
    <3>. QED
      BY <2>2, <2>6, <3>1 DEF Delivered
  <2>11. Slots'
    BY <2>1, <2>2, <2>10 DEF Slots, Unplanned
  <2>12. Counting'
    <3>1. G!Filled' = {} /\ CalledBack' = {}
      BY <2>2, <2>6 DEF G!Filled, CalledBack
    <3>. QED
      BY <2>1, <2>2, <3>1, FS_EmptySet DEF Counting, Unplanned
  <2>13. GetOutcome'
    BY <2>2 DEF GetOutcome, G!Returned
  <2>. QED
    BY <2>5, <2>7, <2>8, <2>9, <2>11, <2>12, <2>13 DEF GetInv, Planned
<1>3. CASE G!ReturnError
  <2>1. Planned
    BY <1>3 DEF G!ReturnError, GetInv, Unplanned
  <2>2. stage' = "error" /\ stage = "running" /\ UNCHANGED <<keys, table, opts, result, pc, remaining>>
        /\ UNCHANGED <<collected, attempts, current, ordered, retrieved, callbacks, highest, skipped>>
    BY <1>3 DEF G!ReturnError, G!call, G!chunk, G!report
  <2>3. GetTypes'
    BY <2>2 DEF GetInv, GetTypes
  <2>4. Planned'
    <3>1. Cut' /\ InTurn'
      BY <2>1, <2>2 DEF Planned, Cut, InTurn, G!ChunkCount
    <3>2. Slots' /\ Counting'
      BY <2>1, <2>2 DEF Planned, Slots, Counting, Delivered, G!ChunkOf, G!Filled, CalledBack
    <3>3. \A c \in 1..MaxKeys : Collecting(c)'
      BY <2>1, <2>2, CollectingSame DEF Planned
    <3>. QED
      BY <3>1, <3>2, <3>3 DEF Planned
  <2>5. G!InFlight = {}
    <3>1. CASE opts.parallel
      BY <1>3, <3>1 DEF G!ReturnError, G!Finished, G!InFlight
    <3>2. CASE ~opts.parallel
      <4>1. PICK e \in 1..MaxKeys : pc[e] = "error"
        BY <1>3 DEF G!ReturnError, G!Chunks
      <4>2. ASSUME NEW c \in G!InFlight PROVE FALSE
        <5>1. c \in 1..MaxKeys /\ pc[c] \notin {"none", "waiting", "done", "error"}
          BY <4>2 DEF G!InFlight, G!Chunks
        <5>2. c < e \/ e < c
          BY <4>1, <5>1
        <5>. QED
          BY <2>1, <3>2, <4>1, <5>1, <5>2 DEF Planned, InTurn
      <4>. QED
        BY <4>2
    <3>. QED
      BY <3>1, <3>2
  <2>6. GetOutcome'
    BY <2>2, <2>5 DEF GetOutcome, G!InFlight, G!Chunks
  <2>. QED
    BY <2>3, <2>4, <2>6 DEF GetInv
<1>4. CASE G!ReturnItems
  <2>1. Planned
    BY <1>4 DEF G!ReturnItems, GetInv, Unplanned
  <2>2. /\ stage' = "ok" /\ stage = "running"
        /\ UNCHANGED <<keys, table, opts, pc, remaining>>
        /\ UNCHANGED <<collected, attempts, current, ordered, retrieved, callbacks, highest, skipped>>
        /\ result' = G!flattenBatchGetResults(ordered)
    BY <1>4 DEF G!ReturnItems, G!call, G!chunk, G!report
  <2>3. GetTypes'
    BY <2>2 DEF GetInv, GetTypes
  <2>4. Planned'
    <3>1. Cut' /\ InTurn'
      BY <2>1, <2>2 DEF Planned, Cut, InTurn, G!ChunkCount
    <3>2. Slots' /\ Counting'
      BY <2>1, <2>2 DEF Planned, Slots, Counting, Delivered, G!ChunkOf, G!Filled, CalledBack
    <3>3. \A c \in 1..MaxKeys : Collecting(c)'
      BY <2>1, <2>2, CollectingSame DEF Planned
    <3>. QED
      BY <3>1, <3>2, <3>3 DEF Planned
  <2>5. \A c \in 1..MaxKeys : pc[c] \in {"none", "done"}
    BY <1>4 DEF G!ReturnItems, G!Chunks
  <2>10. G!InFlight' = {}
    BY <2>2, <2>5 DEF G!InFlight, G!Chunks
  <2>11. GetOutcome'
    BY <2>2, <2>5, <2>10 DEF GetOutcome
  <2>. QED
    BY <2>3, <2>4, <2>11 DEF GetInv
<1>. QED
  BY <1>1, <1>2, <1>3, <1>4 DEF G!Return

\* What the call answers with is what a read key by key would give.
LEMMA GetExpected ==
    ASSUME GetInv, stage = "ok"
    PROVE  result = G!Expected
<1>1. Planned /\ (\A c \in 1..MaxKeys : pc[c] \in {"none", "done"})
      /\ result = G!flattenBatchGetResults(ordered)
  BY DEF GetInv, GetOutcome, Unplanned
<1>2. PICK at : at = [i \in DOMAIN keys |->
                        IF keys[i] \in table /\ G!ChunkOf(i) \notin skipped THEN keys[i] ELSE Nil]
  OBVIOUS
<1>3. ordered = at
  <2>1. ASSUME NEW i \in DOMAIN keys PROVE ordered[i] = at[i]
    <3>1. G!ChunkOf(i) \in 1..MaxKeys /\ pc[G!ChunkOf(i)] # "none"
      BY <1>1, SlotHasChunk DEF Planned, GetInv
    <3>2. pc[G!ChunkOf(i)] = "done"
      BY <1>1, <3>1
    <3>. QED
      BY <1>1, <1>2, <3>2 DEF Planned, Slots, Delivered
  <2>2. ordered \in [DOMAIN keys -> Keys \cup {Nil}]
    BY <1>1 DEF Planned, Slots
  <2>. QED
    BY <1>2, <2>1, <2>2
<1>4. G!Expected = G!flattenBatchGetResults(at)
  BY <1>2, Zenon DEF G!Expected, G!flattenBatchGetResults
<1>. QED
  BY <1>1, <1>3, <1>4

\* The items of some keys of a chunk, in any order, are a sequence of them.
LEMMA ResponseIsSequence ==
    ASSUME GetTypes, Cut, NEW c \in 1..MaxKeys, pc[c] # "none",
           NEW ks, ks \subseteq G!ChunkKeys(c) \cap table, NEW items \in G!Responses(ks)
    PROVE  items \in Seq(table) /\ G!Elements(items) = ks
<1>1. IsFiniteSet(G!ChunkKeys(c))
  <2>1. PICK lo, hi : lo = G!First(c) /\ hi = G!Last(c)
    OBVIOUS
  <2>2. lo \in Int /\ hi \in Int
    <3>1. G!Last(c) \in DOMAIN keys /\ DOMAIN keys = 1..Len(keys) /\ Len(keys) \in Nat
      BY ChunkFacts, LenProperties DEF Cut
    <3>. QED
      BY <2>1, <3>1, ChunkFacts
  <2>3. [i \in lo..hi |-> keys[i]] \in Surjection(lo..hi, G!ChunkKeys(c))
    BY <2>1 DEF Surjection, G!ChunkKeys
  <2>4. IsFiniteSet(lo..hi)
    BY <2>2, FS_Interval
  <2>. QED
    BY <2>3, <2>4, FS_Surjection
<1>2. PICK n : n = Cardinality(ks)
  OBVIOUS
<1>3. n \in Nat
  BY <1>1, <1>2, FS_Subset, FS_CardinalityType
<1>4. items \in [1..n -> ks] /\ G!Elements(items) = ks
  BY <1>2, SameCardinality DEF G!Responses
<1>5. items = [i \in 1..n |-> items[i]] /\ \A i \in 1..n : items[i] \in table
  BY <1>4
<1>6. items \in Seq(table)
  BY <1>3, <1>5, IsASeq
<1>. QED
  BY <1>4, <1>6

\* The items of two pages.
LEMMA ElementsConcat ==
    ASSUME NEW T, NEW s \in Seq(T), NEW t \in Seq(T)
    PROVE  s \o t \in Seq(T) /\ G!Elements(s \o t) = G!Elements(s) \cup G!Elements(t)
<1>1. /\ s \o t \in Seq(T) /\ Len(s \o t) = Len(s) + Len(t)
      /\ \A i \in 1..Len(s) + Len(t) : (s \o t)[i] = IF i <= Len(s) THEN s[i] ELSE t[i - Len(s)]
  BY ConcatProperties
<1>2. /\ DOMAIN s = 1..Len(s) /\ DOMAIN t = 1..Len(t) /\ DOMAIN (s \o t) = 1..Len(s \o t)
      /\ Len(s) \in Nat /\ Len(t) \in Nat
  BY <1>1, LenProperties
<1>3. ASSUME NEW i \in DOMAIN s PROVE s[i] \in G!Elements(s \o t)
  <2>1. i \in DOMAIN (s \o t) /\ (s \o t)[i] = s[i]
    BY <1>1, <1>2
  <2>. QED
    BY <2>1 DEF G!Elements
<1>4. ASSUME NEW i \in DOMAIN t PROVE t[i] \in G!Elements(s \o t)
  <2>1. PICK j : j = i + Len(s)
    OBVIOUS
  <2>2. j \in DOMAIN (s \o t) /\ ~(j <= Len(s)) /\ j - Len(s) = i
    BY <1>1, <1>2, <2>1
  <2>3. (s \o t)[j] = t[i]
    BY <1>1, <1>2, <2>2
  <2>. QED
    BY <2>2, <2>3 DEF G!Elements
<1>5. ASSUME NEW i \in DOMAIN (s \o t) PROVE (s \o t)[i] \in G!Elements(s) \cup G!Elements(t)
  <2>1. CASE i <= Len(s)
    <3>1. i \in DOMAIN s /\ (s \o t)[i] = s[i]
      BY <1>1, <1>2, <2>1
    <3>. QED
      BY <3>1 DEF G!Elements
  <2>2. CASE ~(i <= Len(s))
    <3>1. i - Len(s) \in DOMAIN t /\ (s \o t)[i] = t[i - Len(s)]
      BY <1>1, <1>2, <2>2
    <3>. QED
      BY <3>1 DEF G!Elements
  <2>. QED
    BY <2>1, <2>2
<1>6. /\ \A x : x \in G!Elements(s \o t) => x \in G!Elements(s) \cup G!Elements(t)
      /\ \A x \in G!Elements(s) : x \in G!Elements(s \o t)
      /\ \A x \in G!Elements(t) : x \in G!Elements(s \o t)
  BY <1>3, <1>4, <1>5 DEF G!Elements
<1>. QED
  BY <1>1, <1>6

\* A request that is answered, in part or in whole.
LEMMA GetAnswered ==
    ASSUME GetInv, NEW c \in 1..MaxKeys, G!BatchGetItem(c)
    PROVE  GetInv'
<1>0. Planned
  BY DEF GetInv, Unplanned, G!BatchGetItem
<1>1. PICK done, left, items, l :
        /\ done \subseteq remaining[c]
        /\ left = remaining[c] \ done
        /\ items \in G!Responses(done \cap table)
        /\ collected' = [collected EXCEPT ![c] = collected[c] \o items]
        /\ remaining' = [remaining EXCEPT ![c] = left]
        /\ pc' = [pc EXCEPT ![c] = l]
        /\ \/ left = {} /\ l = "align" /\ UNCHANGED attempts
           \/ l = "backoff" /\ attempts[c] < MaxRetries /\ attempts' = [attempts EXCEPT ![c] = attempts[c] + 1]
           \/ l = "failed" /\ UNCHANGED attempts
  BY DEF G!BatchGetItem, G!Goto, G!mayRetry
<1>2. /\ pc[c] = "request" /\ G!Acceptable(c)
      /\ UNCHANGED <<keys, table, opts, stage, result, current, ordered, skipped>>
      /\ UNCHANGED <<retrieved, callbacks, highest>>
  BY DEF G!BatchGetItem, G!call, G!report
<1>3. /\ pc \in [1..MaxKeys -> GetPlaces] /\ remaining \in [1..MaxKeys -> SUBSET Keys]
      /\ collected \in [1..MaxKeys -> Seq(table)] /\ attempts \in [1..MaxKeys -> 0..MaxRetries]
      /\ MaxRetries \in Nat
  BY BatchesAssumption DEF GetInv, GetTypes
<1>4. /\ remaining[c] \subseteq G!ChunkKeys(c)
      /\ G!Elements(collected[c]) = (G!ChunkKeys(c) \ remaining[c]) \cap table
  BY <1>0, <1>2 DEF Planned, Collecting
<1>5. items \in Seq(table) /\ G!Elements(items) = done \cap table
  <2>1. done \cap table \subseteq G!ChunkKeys(c) \cap table
    BY <1>1, <1>4
  <2>. QED
    BY <1>0, <1>1, <1>2, <2>1, ResponseIsSequence DEF GetInv, Planned
<1>6. collected[c] \o items \in Seq(table)
      /\ G!Elements(collected[c] \o items) = G!Elements(collected[c]) \cup (done \cap table)
  BY <1>3, <1>5, ElementsConcat
<1>7. l \in GetPlaces \ {"none", "waiting", "callback", "done"}
  BY <1>1 DEF GetPlaces
<1>8. GetTypes'
  <2>1. pc' \in [1..MaxKeys -> GetPlaces]
    BY <1>1, <1>3, <1>7
  <2>2. remaining' \in [1..MaxKeys -> SUBSET Keys]
    <3>1. left \in SUBSET Keys
      BY <1>1, <1>3
    <3>. QED
      BY <1>1, <1>3, <3>1
  <2>3. collected' \in [1..MaxKeys -> Seq(table)]
    BY <1>1, <1>3, <1>6
  <2>4. attempts' \in [1..MaxKeys -> 0..MaxRetries]
    BY <1>1, <1>3
  <2>. QED
    BY <1>2, <2>1, <2>2, <2>3, <2>4 DEF GetInv, GetTypes
<1>9. Collecting(c)'
  <2>1. pc'[c] = l /\ collected'[c] = collected[c] \o items /\ remaining'[c] = left
    BY <1>1, <1>3
  <2>2. G!Elements(collected'[c]) = (G!ChunkKeys(c) \ left) \cap table /\ left \subseteq G!ChunkKeys(c)
    <3>1. left \subseteq G!ChunkKeys(c)
      BY <1>1, <1>4
    <3>2. G!Elements(collected'[c]) = ((G!ChunkKeys(c) \ remaining[c]) \cap table) \cup (done \cap table)
      BY <1>4, <1>6, <2>1
    <3>3. (G!ChunkKeys(c) \ left) \cap table =
            ((G!ChunkKeys(c) \ remaining[c]) \cap table) \cup (done \cap table)
      BY <1>1, <1>4
    <3>. QED
      BY <3>1, <3>2, <3>3
  <2>3. G!ChunkKeys(c)' = G!ChunkKeys(c) /\ (G!Acceptable(c)' <=> G!Acceptable(c))
    BY <1>2 DEF G!ChunkKeys, G!Acceptable, G!First, G!Last
  <2>4. l = "align" => G!Elements(collected'[c]) = G!ChunkKeys(c) \cap table
    BY <1>1, <2>2
  <2>5. l # "waiting"
    BY <1>7
  <2>. QED
    BY <1>2, <2>1, <2>2, <2>3, <2>4, <2>5 DEF Collecting, G!Elements
<1>10. Slots' /\ Counting'
  BY <1>1, <1>2, <1>7, NotDelivered
<1>11. \A d \in 1..MaxKeys : d # c => collected'[d] = collected[d] /\ remaining'[d] = remaining[d]
  BY <1>1, <1>3
<1>. QED
  BY <1>1, <1>2, <1>7, <1>8, <1>9, <1>10, <1>11, ChunkMoves

\* The steps of a chunk that send, wait and fail.
LEMMA GetGoesOn ==
    ASSUME GetInv, NEW c \in 1..MaxKeys, NEW l \in {"request", "failed", "error", "done"},
           NEW rem \in SUBSET Keys,
           pc' = [pc EXCEPT ![c] = l], remaining' = [remaining EXCEPT ![c] = rem],
           skipped' = IF l = "done" THEN skipped \cup {c} ELSE skipped,
           UNCHANGED <<keys, table, opts, stage, result, collected, attempts, current>>,
           UNCHANGED <<ordered, retrieved, callbacks, highest>>,
           \/ pc[c] = "waiting" /\ l = "request" /\ stage = "running" /\ G!Slot(c) /\ rem = G!ChunkKeys(c)
           \/ pc[c] = "backoff" /\ l = "request" /\ rem = remaining[c]
           \/ pc[c] \in {"request", "failed"} /\ l # "request"
    PROVE  GetInv'
<1>0. Planned
  BY DEF GetInv, Unplanned
<1>1. pc \in [1..MaxKeys -> GetPlaces] /\ remaining \in [1..MaxKeys -> SUBSET Keys]
      /\ skipped \in SUBSET (1..MaxKeys)
  BY DEF GetInv, GetTypes
<1>2. l \in GetPlaces \ {"none", "waiting", "callback"}
  BY DEF GetPlaces
<1>3. GetTypes'
  <2>1. pc' \in [1..MaxKeys -> GetPlaces] /\ remaining' \in [1..MaxKeys -> SUBSET Keys]
    BY <1>1, <1>2
  <2>2. skipped' \in SUBSET (1..MaxKeys)
    BY <1>1
  <2>. QED
    BY <2>1, <2>2 DEF GetInv, GetTypes
<1>4. pc'[c] = l /\ remaining'[c] = rem
      /\ \A d \in 1..MaxKeys : d # c => remaining'[d] = remaining[d]
  BY <1>1
<1>5. Collecting(c)'
  <2>1. Collecting(c)
    BY <1>0 DEF Planned
  <2>2. G!ChunkKeys(c)' = G!ChunkKeys(c)
    BY DEF G!ChunkKeys, G!First, G!Last
  <2>3. l = "request" => rem \subseteq G!ChunkKeys(c)
                         /\ G!Elements(collected[c]) = (G!ChunkKeys(c) \ rem) \cap table
    <3>1. CASE pc[c] = "waiting"
      <4>1. G!Elements(collected[c]) = {} /\ rem = G!ChunkKeys(c)
        BY <2>1, <3>1, EmptySeq DEF Collecting, G!Elements
      <4>. QED
        BY <4>1
    <3>2. CASE pc[c] = "backoff"
      BY <2>1, <3>2 DEF Collecting
    <3>. QED
      BY <3>1, <3>2
  <2>. QED
    BY <1>4, <2>2, <2>3 DEF Collecting, G!Elements
<1>6. Slots' /\ Counting'
  BY <1>2, NotDelivered
<1>. QED
  BY <1>2, <1>3, <1>4, <1>5, <1>6, ChunkMoves

\* A goroutine's steps preserve the invariant.
LEMMA GetChunk ==
    ASSUME KeysProjected, GetInv, NEW c \in 1..MaxKeys, G!Chunk(c)
    PROVE  GetInv'
<1>0. remaining \in [1..MaxKeys -> SUBSET Keys] /\ remaining = [remaining EXCEPT ![c] = remaining[c]]
      /\ remaining[c] \in SUBSET Keys
  BY DEF GetInv, GetTypes
<1>1. CASE G!ProcessChunk(c)
  <2>1. Planned
    BY <1>1 DEF GetInv, Unplanned, G!ProcessChunk
  <2>2. G!ChunkKeys(c) \in SUBSET Keys
    BY <1>1, <2>1, ChunkFacts DEF Planned, GetInv, G!ProcessChunk
  <2>. QED
    BY <1>1, <2>2, GetGoesOn DEF G!ProcessChunk, G!Goto, G!call, G!report
<1>2. CASE G!BatchGetItem(c)
  BY <1>2, GetAnswered
<1>3. CASE G!Backoff(c)
  BY <1>0, <1>3, GetGoesOn DEF G!Backoff, G!Goto, G!call, G!report
<1>4. CASE G!RequestFails(c)
  BY <1>0, <1>4, GetGoesOn DEF G!RequestFails, G!Goto, G!call, G!report
<1>5. CASE G!HandlerTakes(c)
  BY <1>0, <1>5, GetGoesOn DEF G!HandlerTakes, G!Goto, G!call, G!report
<1>6. CASE G!ChunkError(c)
  BY <1>0, <1>6, GetGoesOn DEF G!ChunkError, G!Goto, G!call, G!report
<1>7. CASE G!AlignChunk(c)
  <2>1. GetTypes' /\ Slots' /\ Counting'
    BY <1>7, AlignFills
  <2>2. /\ pc[c] = "align" /\ pc' = [pc EXCEPT ![c] = "callback"] /\ "callback" \in GetPlaces
        /\ UNCHANGED <<keys, table, opts, stage, result, remaining, collected>>
    BY <1>7 DEF G!AlignChunk, G!Goto, G!call, GetPlaces
  <2>3. Collecting(c)'
    BY <2>2 DEF Collecting, GetInv, GetTypes
  <2>. QED
    BY <2>1, <2>2, <2>3, ChunkMoves
<1>8. CASE G!ProgressCallback(c)
  <2>1. GetTypes' /\ Slots' /\ Counting'
    BY <1>8, CallbackCounts
  <2>2. /\ pc[c] = "callback" /\ pc' = [pc EXCEPT ![c] = "done"] /\ "done" \in GetPlaces
        /\ UNCHANGED <<keys, table, opts, stage, result, remaining, collected>>
    BY <1>8 DEF G!ProgressCallback, G!Goto, G!call, GetPlaces
  <2>3. Collecting(c)'
    BY <2>2 DEF Collecting, GetInv, GetTypes
  <2>. QED
    BY <2>1, <2>2, <2>3, ChunkMoves
<1>. QED
  BY <1>1, <1>2, <1>3, <1>4, <1>5, <1>6, <1>7, <1>8 DEF G!Chunk

\* So does a step of another operation.
LEMMA GetSame == GetInv /\ UNCHANGED G!vars => GetInv'
<1>. SUFFICES ASSUME GetInv, UNCHANGED G!vars PROVE GetInv'
  OBVIOUS
<1>1. /\ UNCHANGED <<keys, table, opts, stage, result, pc, remaining, collected, attempts>>
      /\ UNCHANGED <<current, ordered, retrieved, skipped, callbacks, highest>>
  BY DEF G!vars
<1>2. GetTypes'
  BY <1>1 DEF GetInv, GetTypes
<1>3. GetOutcome'
  BY <1>1 DEF GetInv, GetOutcome, G!Returned, G!InFlight, G!Chunks
<1>4. Unplanned => Unplanned'
  BY <1>1 DEF Unplanned
<1>5. Planned => Planned'
  <2>. SUFFICES ASSUME Planned PROVE Planned'
    OBVIOUS
  <2>1. Cut' /\ InTurn'
    BY <1>1 DEF Planned, Cut, InTurn, G!ChunkCount
  <2>2. Slots' /\ Counting'
    BY <1>1 DEF Planned, Slots, Counting, Delivered, G!ChunkOf, G!Filled, CalledBack
  <2>3. \A c \in 1..MaxKeys : Collecting(c)'
    BY <1>1, CollectingSame DEF Planned
  <2>. QED
    BY <2>1, <2>2, <2>3 DEF Planned
<1>. QED
  BY <1>2, <1>3, <1>4, <1>5 DEF GetInv

\* Every step of a batch read preserves the invariant.
LEMMA GetNext ==
    ASSUME KeysProjected, GetInv, G!Next
    PROVE  GetInv'
BY GetChunk, GetCaller, GetSame DEF G!Next, G!Done

\* What the invariant says of a batch read.
LEMMA GetPromises ==
    ASSUME GetInv
    PROVE  /\ G!TypeOK
           /\ G!AlignedResult /\ G!QuietAfterReturn /\ G!StopsAtError
           /\ G!ProgressExact
<1>1. G!AlignedResult
  BY GetExpected DEF G!AlignedResult
<1>2. G!QuietAfterReturn
  BY DEF GetInv, GetOutcome, G!QuietAfterReturn
<1>3. G!StopsAtError
  <2>. SUFFICES ASSUME ~opts.parallel, NEW c \in G!Chunks, NEW d \in G!Chunks, c < d, pc[c] = "error"
                PROVE  pc[d] = "waiting"
    BY DEF G!StopsAtError
  <2>1. c \in 1..MaxKeys /\ d \in 1..MaxKeys /\ pc[d] # "none"
    BY DEF G!Chunks
  <2>2. Planned
    BY <2>1 DEF GetInv, Unplanned
  <2>. QED
    BY <2>1, <2>2 DEF Planned, InTurn
<1>4. Cardinality(G!Filled) \in 0..MaxKeys /\ retrieved = Cardinality(G!Filled)
  <2>1. CASE Unplanned
    <3>1. G!Filled = {} /\ retrieved = 0
      BY <2>1, EmptySeq DEF Unplanned, G!Filled
    <3>. QED
      BY <3>1, FS_EmptySet, BatchesAssumption
  <2>2. CASE Planned
    <3>1. G!Filled \subseteq 1..Len(keys) /\ Len(keys) \in 0..MaxKeys /\ Len(keys) \in Nat
      BY <2>2, LenProperties, BatchesAssumption DEF Planned, Slots, Cut, G!Filled, GetInv, GetTypes
    <3>2. IsFiniteSet(1..Len(keys)) /\ Cardinality(1..Len(keys)) = Len(keys)
      BY <3>1, FS_Interval
    <3>3. Cardinality(G!Filled) <= Len(keys) /\ Cardinality(G!Filled) \in Nat
      BY <3>1, <3>2, FS_Subset, FS_CardinalityType
    <3>4. Cardinality(G!Filled) \in 0..MaxKeys
      BY <3>1, <3>3, BatchesAssumption
    <3>5. retrieved = Cardinality(G!Filled)
      BY <2>2 DEF Planned, Counting
    <3>. QED
      BY <3>4, <3>5
  <2>. QED
    BY <2>1, <2>2 DEF GetInv
<1>5. highest <= retrieved /\ (\A c \in 1..MaxKeys : current[c] <= retrieved)
  <2>1. CASE Unplanned
    BY <2>1 DEF Unplanned
  <2>2. CASE Planned
    BY <2>2 DEF Planned, Counting
  <2>. QED
    BY <2>1, <2>2 DEF GetInv
<1>6. Cardinality(CalledBack) \in 0..MaxKeys /\ callbacks = Cardinality(CalledBack)
  <2>1. CalledBack \subseteq 1..MaxKeys /\ MaxKeys \in Nat
    BY BatchesAssumption DEF CalledBack
  <2>2. IsFiniteSet(1..MaxKeys) /\ Cardinality(1..MaxKeys) = MaxKeys
    BY <2>1, FS_Interval
  <2>3. Cardinality(CalledBack) <= MaxKeys /\ Cardinality(CalledBack) \in Nat
    BY <2>1, <2>2, FS_Subset, FS_CardinalityType
  <2>4. callbacks = Cardinality(CalledBack)
    <3>1. CASE Unplanned
      <4>1. CalledBack = {}
        BY <3>1 DEF Unplanned, CalledBack
      <4>. QED
        BY <3>1, <4>1, FS_EmptySet DEF Unplanned
    <3>2. CASE Planned
      BY <3>2 DEF Planned, Counting
    <3>. QED
      BY <3>1, <3>2 DEF GetInv
  <2>. QED
    BY <2>1, <2>3, <2>4
<1>7. G!TypeOK
  <2>1. \A c \in 1..MaxKeys : remaining[c] \subseteq Keys /\ G!Elements(collected[c]) \subseteq table
    <3>. SUFFICES ASSUME NEW c \in 1..MaxKeys
                  PROVE  remaining[c] \subseteq Keys /\ G!Elements(collected[c]) \subseteq table
      OBVIOUS
    <3>1. collected[c] \in Seq(table) /\ remaining[c] \in SUBSET Keys
      BY DEF GetInv, GetTypes
    <3>2. DOMAIN collected[c] = 1..Len(collected[c]) /\ \A i \in 1..Len(collected[c]) : collected[c][i] \in table
      BY <3>1, LenProperties, ElementOfSeq
    <3>. QED
      BY <3>1, <3>2 DEF G!Elements
  <2>2. current \in [1..MaxKeys -> 0..MaxKeys] /\ retrieved \in 0..MaxKeys /\ highest \in 0..MaxKeys
        /\ callbacks \in 0..MaxKeys
    <3>1. current \in [1..MaxKeys -> Nat] /\ highest \in Nat /\ MaxKeys \in Nat
      BY BatchesAssumption DEF GetInv, GetTypes
    <3>2. \A c \in 1..MaxKeys : current[c] \in 0..MaxKeys
      BY <1>4, <1>5, <3>1
    <3>. QED
      BY <1>4, <1>5, <1>6, <3>1, <3>2
  <2>3. G!Elements(ordered) \subseteq Keys \cup {Nil}
    <3>1. CASE Unplanned
      BY <3>1, EmptySeq DEF Unplanned, G!Elements
    <3>2. CASE Planned
      BY <3>2 DEF Planned, Slots, G!Elements
    <3>. QED
      BY <3>1, <3>2 DEF GetInv
  <2>. QED
    BY <2>1, <2>2, <2>3 DEF G!TypeOK, GetInv, GetTypes, GetPlaces
<1>8. G!ProgressExact
  <2>1. highest <= G!Cardinality(G!Filled)
    BY <1>4, <1>5, SameCardinality
  <2>2. ASSUME stage = "ok"
        PROVE  callbacks = G!Cardinality(G!Chunks \ skipped) /\ highest = G!Cardinality(G!Filled)
    <3>1. Planned /\ \A c \in 1..MaxKeys : pc[c] \in {"none", "done"}
      BY <2>2 DEF GetInv, GetOutcome, Unplanned
    <3>2. G!Chunks \ skipped = CalledBack
      BY <3>1 DEF G!Chunks, CalledBack
    <3>3. highest = retrieved
      BY <3>1 DEF Planned, Counting
    <3>. QED
      BY <1>4, <1>6, <3>2, <3>3, SameCardinality
  <2>. QED
    BY <2>1, <2>2 DEF G!ProgressExact
<1>. QED
  BY <1>1, <1>2, <1>3, <1>7, <1>8

------------------------------------------------------------------------------
(***************************************************************************)
(* BatchUpdate: the inductive invariant.                                   *)
(***************************************************************************)
UpdatePlaces == {"none", "waiting", "update", "backoff", "failed", "progress", "callback",
                 "done", "error"}

UpdateTypes ==
    /\ stage \in {"new", "running", "ok", "error"}
    /\ total \in 0..MaxItems /\ bad \in SUBSET (1..total) /\ encrypted \in BOOLEAN
    /\ opts \in [size : Int, parallel : BOOLEAN, concurrency : Int, retry : BOOLEAN,
                 handler : BOOLEAN]
    /\ pc \in [1..MaxItems -> UpdatePlaces]
    /\ item \in [1..MaxItems -> Nat]
    /\ attempts \in [1..MaxItems -> 0..MaxRetries]
    /\ current \in [1..MaxItems -> Nat]
    /\ processed \in Nat /\ highest \in Nat
    /\ updated \in SUBSET (1..total) /\ reported \in SUBSET (1..total)
    /\ layers \in [1..MaxItems -> 0..MaxRetries + 1] /\ stored \in [1..MaxItems -> Nat]

\* No batch is made yet, or none has to be.
NoBatches ==
    /\ stage = "new" \/ (stage = "ok" /\ total = 0)
    /\ \A b \in 1..MaxItems :
         pc[b] = "none" /\ attempts[b] = 0 /\ current[b] = 0 /\ layers[b] = 0
    /\ updated = {} /\ reported = {} /\ processed = 0 /\ highest = 0

Divided ==
    /\ stage # "new" /\ total > 0 /\ opts.size \in Nat \ {0}
    /\ \A b \in 1..MaxItems : pc[b] # "none" <=> b <= U!BatchCount(opts.size)

\* A batch has updated its items up to the one it is at, and none behind it;
\* what it has sent of that one is no more than its attempts.  A batch is over
\* when all its items are updated or reported.
UpTo(b) ==
    /\ pc[b] \notin {"none", "waiting"} => item[b] \in U!First(b)..U!Last(b)
    /\ pc[b] \in {"update", "backoff"} => layers[item[b]] <= attempts[b]
    /\ pc[b] = "waiting" => attempts[b] = 0
    /\ pc[b] # "none" => \A i \in U!First(b)..U!Last(b) :
         /\ pc[b] = "waiting" \/ i > item[b] => i \notin updated /\ layers[i] = 0
         /\ pc[b] # "waiting" /\ i < item[b] => i \in updated
         /\ pc[b] \in {"progress", "callback", "done"} => i \in updated \cup reported

\* The loop has finished the batches before the one it is at; without a handler
\* nothing is reported.
OneByOne ==
    /\ ~opts.parallel =>
         \A a, b \in 1..MaxItems : a < b /\ pc[b] \notin {"none", "waiting"} => pc[a] = "done"
    /\ ~opts.handler => reported = {}

\* The items of the batches that were counted.
Counted == {i \in 1..total : pc[U!BatchOf(i)] \in {"callback", "done"}}

Tallying ==
    /\ processed = Cardinality(Counted)
    /\ \A b \in 1..MaxItems : current[b] <= processed
    /\ highest <= processed
    /\ \/ highest = processed
       \/ \E b \in 1..MaxItems : pc[b] = "callback" /\ current[b] = processed

UpdateOutcome ==
    /\ U!QuietAfterReturn
    /\ stage = "ok" => \A b \in 1..MaxItems : pc[b] \in {"none", "done"}

UnderWay == Divided /\ (\A b \in 1..MaxItems : UpTo(b)) /\ OneByOne /\ Tallying

UpdateInv == UpdateTypes /\ (NoBatches \/ UnderWay) /\ UpdateOutcome

------------------------------------------------------------------------------
\* The items of a batch that is there.
LEMMA BatchFacts ==
    ASSUME UpdateTypes, Divided, NEW b \in 1..MaxItems, pc[b] # "none"
    PROVE  /\ U!First(b) \in Nat \ {0} /\ U!Last(b) \in 1..total /\ U!First(b) <= U!Last(b)
           /\ \A i \in 1..total : i \in U!First(b)..U!Last(b) <=> U!BatchOf(i) = b
<1>1. PICK n, s : n = total /\ s = opts.size
  OBVIOUS
<1>2. n \in Nat \ {0} /\ s \in Nat \ {0} /\ b \in Nat \ {0}
  BY <1>1, BatchesAssumption DEF Divided, UpdateTypes
<1>3. (b - 1) * s \in Nat /\ b * s = (b - 1) * s + s /\ (b - 1) * s + 1 <= n
  BY <1>1, <1>2, Pieces DEF Divided, U!BatchCount
<1>4. U!First(b) = (b - 1) * s + 1 /\ U!Last(b) = IF b * s > n THEN n ELSE b * s
  BY <1>1 DEF U!First, U!Last
<1>5. b * s \in Nat
  BY <1>2, <1>3
<1>6. U!First(b) \in Nat \ {0} /\ U!Last(b) \in 1..n /\ U!First(b) <= U!Last(b)
  BY <1>2, <1>3, <1>4, <1>5
<1>7. ASSUME NEW i \in 1..total
      PROVE  i \in U!First(b)..U!Last(b) <=> U!BatchOf(i) = b
  <2>1. U!BatchOf(i) = b <=> (b - 1) * s + 1 <= i /\ i <= b * s
    BY <1>1, <1>2, Cutting DEF U!BatchOf
  <2>. QED
    BY <1>1, <1>2, <1>3, <1>4, <1>5, <2>1
<1>. QED
  BY <1>1, <1>6, <1>7

\* Every item is in a batch that is there.
LEMMA ItemHasBatch ==
    ASSUME UpdateTypes, Divided, NEW i \in 1..total
    PROVE  U!BatchOf(i) \in 1..MaxItems /\ pc[U!BatchOf(i)] # "none"
<1>1. PICK n, s : n = total /\ s = opts.size
  OBVIOUS
<1>2. n \in 0..MaxItems /\ n \in Nat /\ s \in Nat \ {0}
  BY <1>1, BatchesAssumption DEF Divided, UpdateTypes
<1>3. U!BatchOf(i) \in 1..n /\ U!BatchOf(i) <= (n + s - 1) \div s
  BY <1>1, <1>2, Cutting DEF U!BatchOf
<1>4. U!BatchOf(i) \in 1..MaxItems
  BY <1>2, <1>3, BatchesAssumption
<1>. QED
  BY <1>1, <1>3, <1>4 DEF Divided, U!BatchCount

\* A batch whose items and locals are left alone.
LEMMA UpToSame ==
    ASSUME NEW b \in 1..MaxItems, UNCHANGED <<total, opts>>, UpTo(b),
           pc'[b] = pc[b], item'[b] = item[b], attempts'[b] = attempts[b],
           \A i \in U!First(b)..U!Last(b) :
             /\ i \in updated' <=> i \in updated
             /\ layers'[i] = layers[i]
             /\ i \in reported => i \in reported'
    PROVE  UpTo(b)'
<1>1. U!First(b)' = U!First(b) /\ U!Last(b)' = U!Last(b)
  BY DEF U!First, U!Last
<1>. QED
  BY <1>1 DEF UpTo

\* A step of a batch leaves the division, the turns and the other batches alone.
LEMMA BatchMoves ==
    ASSUME UpdateInv, UpdateTypes', NEW b \in 1..MaxItems,
           NEW l \in UpdatePlaces \ {"none", "waiting"},
           pc[b] \notin {"none", "done", "error"},
           pc[b] = "waiting" => /\ stage = "running"
                                /\ opts.parallel \/ \A a \in 1..b - 1 : pc[a] = "done",
           pc' = [pc EXCEPT ![b] = l], UNCHANGED <<total, opts, stage>>,
           \A a \in 1..MaxItems : a # b => item'[a] = item[a] /\ attempts'[a] = attempts[a],
           \A i \in 1..total : i \notin U!First(b)..U!Last(b) =>
             /\ i \in updated' <=> i \in updated
             /\ layers'[i] = layers[i]
             /\ i \in reported => i \in reported',
           ~opts.handler => UNCHANGED reported,
           UpTo(b)', Tallying'
    PROVE  UpdateInv'
<1>0. /\ pc \in [1..MaxItems -> UpdatePlaces]
      /\ \A a \in 1..MaxItems : pc'[a] = IF a = b THEN l ELSE pc[a]
  BY DEF UpdateInv, UpdateTypes
<1>1. UnderWay
  BY DEF UpdateInv, NoBatches
<1>2. stage = "running"
  <2>1. pc[b] # "waiting" => b \in U!Holders
    BY DEF U!Holders, U!Batches, U!Ended
  <2>2. stage \notin {"ok", "error"}
    BY <2>1 DEF UpdateInv, UpdateOutcome, U!QuietAfterReturn, U!Returned
  <2>. QED
    BY <1>1, <2>2 DEF UnderWay, Divided, UpdateInv, UpdateTypes
<1>3. Divided'
  BY <1>0, <1>1 DEF UnderWay, Divided, U!BatchCount
<1>4. ASSUME NEW a \in 1..MaxItems PROVE UpTo(a)'
  <2>1. CASE a = b
    BY <2>1
  <2>2. CASE a # b /\ pc[a] # "none"
    <3>1. pc'[a] = pc[a] /\ item'[a] = item[a] /\ attempts'[a] = attempts[a]
      BY <1>0, <2>2
    <3>2. \A i \in U!First(a)..U!Last(a) : i \in 1..total /\ i \notin U!First(b)..U!Last(b)
      <4>1. UpdateTypes /\ Divided
        BY <1>1 DEF UpdateInv, UnderWay
      <4>2. ASSUME NEW i \in U!First(a)..U!Last(a)
            PROVE  i \in 1..total /\ i \notin U!First(b)..U!Last(b)
        <5>1. U!First(a) \in Nat \ {0} /\ U!Last(a) \in 1..total
          BY <2>2, <4>1, BatchFacts
        <5>2. total \in Nat
          BY BatchesAssumption DEF UpdateInv, UpdateTypes
        <5>3. i \in 1..total
          BY <4>2, <5>1, <5>2
        <5>4. U!BatchOf(i) = a
          BY <2>2, <4>1, <4>2, <5>3, BatchFacts
        <5>. QED
          BY <2>2, <4>1, <5>3, <5>4, BatchFacts
      <4>. QED
        BY <4>2
    <3>3. UpTo(a)
      BY <1>1 DEF UnderWay
    <3>. QED
      BY <3>1, <3>2, <3>3, UpToSame
  <2>3. CASE a # b /\ pc[a] = "none"
    BY <1>0, <2>3 DEF UpTo
  <2>. QED
    BY <2>1, <2>2, <2>3
<1>5. OneByOne'
  <2>1. ASSUME ~opts.parallel, NEW a \in 1..MaxItems, NEW d \in 1..MaxItems, a < d,
               pc'[d] \notin {"none", "waiting"}
        PROVE  pc'[a] = "done"
    <3>1. CASE pc[d] \notin {"none", "waiting"}
      <4>1. pc[a] = "done"
        BY <1>1, <2>1, <3>1 DEF UnderWay, OneByOne
      <4>. QED
        BY <1>0, <4>1
    <3>2. CASE pc[d] \in {"none", "waiting"}
      <4>1. d = b /\ pc[b] = "waiting"
        BY <1>0, <2>1, <3>2
      <4>2. pc[a] = "done"
        BY <2>1, <4>1
      <4>. QED
        BY <1>0, <4>1, <4>2
    <3>. QED
      BY <3>1, <3>2
  <2>2. ~opts'.handler => reported' = {}
    BY <1>1 DEF UnderWay, OneByOne
  <2>. QED
    BY <2>1, <2>2 DEF OneByOne
<1>6. UpdateOutcome'
  BY <1>2 DEF UpdateOutcome, U!QuietAfterReturn, U!Returned
<1>. QED
  BY <1>3, <1>4, <1>5, <1>6 DEF UpdateInv, UnderWay

\* The counters stay as they are until a batch is counted.
LEMMA NotCounted ==
    ASSUME UpdateInv, NEW b \in 1..MaxItems, NEW l \in UpdatePlaces \ {"callback", "done"},
           pc[b] \notin {"none", "callback", "done"},
           pc' = [pc EXCEPT ![b] = l],
           UNCHANGED <<total, opts, current, processed, highest>>
    PROVE  Tallying'
<1>0. /\ pc \in [1..MaxItems -> UpdatePlaces]
      /\ \A a \in 1..MaxItems : pc'[a] = IF a = b THEN l ELSE pc[a]
  BY DEF UpdateInv, UpdateTypes
<1>1. UnderWay
  BY DEF UpdateInv, NoBatches
<1>2. \A i \in 1..total : U!BatchOf(i)' = U!BatchOf(i) /\ U!BatchOf(i) \in 1..MaxItems
  BY <1>1, ItemHasBatch DEF UpdateInv, UnderWay, U!BatchOf
<1>3. Counted' = Counted
  BY <1>0, <1>2 DEF Counted
<1>4. \A a \in 1..MaxItems : pc[a] = "callback" => pc'[a] = "callback"
  BY <1>0
<1>. QED
  BY <1>1, <1>3, <1>4 DEF UnderWay, Tallying

\* A batch under the lock of the counter.
LEMMA BatchCounts ==
    ASSUME UpdateInv, NEW b \in 1..MaxItems, U!CountBatch(b)
    PROVE  UpdateInv'
<1>0. /\ pc \in [1..MaxItems -> UpdatePlaces] /\ pc[b] = "progress"
      /\ pc' = [pc EXCEPT ![b] = "callback"]
      /\ \A a \in 1..MaxItems : pc'[a] = IF a = b THEN "callback" ELSE pc[a]
  BY DEF UpdateInv, UpdateTypes, U!CountBatch, U!Goto
<1>1. UnderWay /\ UpdateTypes
  BY <1>0 DEF UpdateInv, NoBatches
<1>2. /\ UNCHANGED <<total, bad, encrypted, opts, stage, item, attempts>>
      /\ UNCHANGED <<updated, layers, stored, reported, highest>>
      /\ processed' = processed + U!Last(b) - U!First(b) + 1
      /\ current' = [current EXCEPT ![b] = processed']
  BY DEF U!CountBatch, U!args, U!effects, U!nextProcessed
<1>3. PICK lo, hi : lo = U!First(b) /\ hi = U!Last(b)
  OBVIOUS
<1>4. /\ lo \in Nat \ {0} /\ hi \in 1..total /\ hi \in Nat /\ lo <= hi /\ total \in Nat
      /\ \A i \in 1..total : i \in lo..hi <=> U!BatchOf(i) = b
  <2>1. total \in Nat
    BY BatchesAssumption DEF UpdateInv, UpdateTypes
  <2>. QED
    BY <1>0, <1>1, <1>3, <2>1, BatchFacts DEF UnderWay
<1>5. \A i \in 1..total : U!BatchOf(i)' = U!BatchOf(i) /\ U!BatchOf(i) \in 1..MaxItems
  BY <1>1, <1>2, ItemHasBatch DEF UnderWay, U!BatchOf
<1>6. Counted' = Counted \cup lo..hi /\ Counted \cap lo..hi = {} /\ Counted \subseteq 1..total
  BY <1>0, <1>2, <1>4, <1>5 DEF Counted
<1>7. IsFiniteSet(Counted) /\ IsFiniteSet(lo..hi) /\ Cardinality(lo..hi) = hi - lo + 1
  <2>1. IsFiniteSet(1..total)
    BY <1>4, FS_Interval
  <2>2. IsFiniteSet(Counted)
    BY <1>6, <2>1, FS_Subset
  <2>. QED
    BY <1>4, <2>2, FS_Interval
<1>8. Cardinality(Counted') = Cardinality(Counted) + (hi - lo + 1) /\ Cardinality(Counted) \in Nat
  <2>1. Cardinality(Counted \cap lo..hi) = 0
    BY <1>6, FS_EmptySet
  <2>2. Cardinality(Counted) \in Nat
    BY <1>7, FS_CardinalityType
  <2>3. Cardinality(Counted \cup lo..hi) = Cardinality(Counted) + Cardinality(lo..hi) - 0
    BY <1>7, <2>1, FS_Union
  <2>. QED
    BY <1>4, <1>6, <1>7, <2>2, <2>3
<1>9. processed' = Cardinality(Counted') /\ processed' \in Nat /\ processed <= processed'
  BY <1>1, <1>2, <1>3, <1>4, <1>8 DEF UnderWay, Tallying
<1>10. current \in [1..MaxItems -> Nat] /\ highest \in Nat /\ processed \in Nat
  BY <1>1 DEF UpdateTypes
<1>11. \A a \in 1..MaxItems : current'[a] = IF a = b THEN processed' ELSE current[a]
  BY <1>2, <1>10
<1>12. Tallying'
  <2>1. \A a \in 1..MaxItems : current'[a] <= processed'
    BY <1>1, <1>9, <1>10, <1>11 DEF UnderWay, Tallying
  <2>2. highest' <= processed'
    BY <1>1, <1>2, <1>9, <1>10 DEF UnderWay, Tallying
  <2>3. \E a \in 1..MaxItems : pc'[a] = "callback" /\ current'[a] = processed'
    BY <1>0, <1>11
  <2>. QED
    BY <1>9, <2>1, <2>2, <2>3 DEF Tallying
<1>13. UpdateTypes'
  <2>1. pc' \in [1..MaxItems -> UpdatePlaces]
    BY <1>0 DEF UpdatePlaces
  <2>2. current' \in [1..MaxItems -> Nat]
    BY <1>2, <1>9, <1>10
  <2>. QED
    BY <1>1, <1>2, <1>9, <2>1, <2>2 DEF UpdateTypes
<1>14. UpTo(b)'
  <2>1. UpTo(b) /\ U!First(b)' = U!First(b) /\ U!Last(b)' = U!Last(b)
    BY <1>1, <1>2 DEF UnderWay, U!First, U!Last
  <2>. QED
    BY <1>0, <1>2, <2>1 DEF UpTo
<1>. QED
  BY <1>0, <1>2, <1>12, <1>13, <1>14, BatchMoves DEF UpdatePlaces

\* The progress callback of a batch.
LEMMA BatchCalledBack ==
    ASSUME UpdateInv, NEW b \in 1..MaxItems, U!ProgressCallback(b)
    PROVE  UpdateInv'
<1>0. /\ pc \in [1..MaxItems -> UpdatePlaces] /\ pc[b] = "callback"
      /\ pc' = [pc EXCEPT ![b] = "done"]
      /\ \A a \in 1..MaxItems : pc'[a] = IF a = b THEN "done" ELSE pc[a]
  BY DEF UpdateInv, UpdateTypes, U!ProgressCallback, U!Goto
<1>1. UnderWay /\ UpdateTypes
  BY <1>0 DEF UpdateInv, NoBatches
<1>2. /\ UNCHANGED <<total, bad, encrypted, opts, stage, item, attempts, current, processed>>
      /\ UNCHANGED <<updated, layers, stored, reported>>
      /\ highest' = IF current[b] > highest THEN current[b] ELSE highest
  BY DEF U!ProgressCallback, U!args, U!effects
<1>3. current \in [1..MaxItems -> Nat] /\ highest \in Nat /\ processed \in Nat
  BY <1>1 DEF UpdateTypes
<1>4. \A i \in 1..total : U!BatchOf(i)' = U!BatchOf(i) /\ U!BatchOf(i) \in 1..MaxItems
  BY <1>1, <1>2, ItemHasBatch DEF UnderWay, U!BatchOf
<1>5. Counted' = Counted
  BY <1>0, <1>2, <1>4 DEF Counted
<1>6. Tallying'
  <2>1. (\A a \in 1..MaxItems : current'[a] <= processed') /\ highest' <= processed'
    BY <1>1, <1>2, <1>3 DEF UnderWay, Tallying
  <2>2. processed' = Cardinality(Counted')
    BY <1>1, <1>2, <1>5 DEF UnderWay, Tallying
  <2>3. \/ highest' = processed'
        \/ \E a \in 1..MaxItems : pc'[a] = "callback" /\ current'[a] = processed'
    <3>1. CASE current[b] = processed
      BY <1>1, <1>2, <1>3, <3>1 DEF UnderWay, Tallying
    <3>2. CASE highest = processed
      BY <1>1, <1>2, <1>3, <3>2 DEF UnderWay, Tallying
    <3>3. CASE current[b] # processed /\ \E a \in 1..MaxItems : pc[a] = "callback" /\ current[a] = processed
      BY <1>0, <1>2, <3>3
    <3>. QED
      BY <1>1, <3>1, <3>2, <3>3 DEF UnderWay, Tallying
  <2>. QED
    BY <2>1, <2>2, <2>3 DEF Tallying
<1>7. UpdateTypes'
  <2>1. pc' \in [1..MaxItems -> UpdatePlaces]
    BY <1>0 DEF UpdatePlaces
  <2>2. highest' \in Nat
    BY <1>2, <1>3
  <2>. QED
    BY <1>1, <1>2, <2>1, <2>2 DEF UpdateTypes
<1>8. UpTo(b)'
  <2>1. UpTo(b) /\ U!First(b)' = U!First(b) /\ U!Last(b)' = U!Last(b)
    BY <1>1, <1>2 DEF UnderWay, U!First, U!Last
  <2>. QED
    BY <1>0, <1>2, <2>1 DEF UpTo
<1>. QED
  BY <1>0, <1>2, <1>6, <1>7, <1>8, BatchMoves DEF UpdatePlaces

\* A batch starts, waits, or is told of an error: it goes to l, at item k, and its
\* items stay as they are.
GoesOn(b, l, k) ==
    /\ l \in {"update", "failed", "progress", "error"}
    /\ pc[b] \in {"waiting", "update", "backoff", "failed"}
    /\ IF pc[b] = "waiting"
       THEN /\ stage = "running" /\ l = "update" /\ k = U!First(b)
            /\ opts.parallel \/ \A a \in 1..b - 1 : pc[a] = "done"
       ELSE k = item[b]
    /\ l = "update" => pc[b] \in {"waiting", "backoff"}
    /\ IF l = "progress" THEN opts.handler /\ reported' = reported \cup U!First(b)..U!Last(b)
       ELSE UNCHANGED reported
    /\ item' = [item EXCEPT ![b] = k] /\ pc' = [pc EXCEPT ![b] = l]
    /\ UNCHANGED <<total, bad, encrypted, opts, stage, attempts, current, processed>>
    /\ UNCHANGED <<updated, layers, stored, highest>>

\* Such a step preserves the invariant.
LEMMA BatchGoesOn ==
    ASSUME UpdateInv, NEW b \in 1..MaxItems, NEW l, NEW k, GoesOn(b, l, k)
    PROVE  UpdateInv'
<1>. USE DEF GoesOn
<1>0. /\ pc \in [1..MaxItems -> UpdatePlaces] /\ item \in [1..MaxItems -> Nat]
      /\ pc'[b] = l /\ item'[b] = k /\ total \in Nat
      /\ \A a \in 1..MaxItems : a # b => pc'[a] = pc[a] /\ item'[a] = item[a]
      /\ l \in UpdatePlaces \ {"none", "waiting", "callback", "done"}
  BY BatchesAssumption DEF UpdateInv, UpdateTypes, UpdatePlaces
<1>1. UnderWay /\ UpdateTypes /\ UpTo(b)
  BY <1>0 DEF UpdateInv, NoBatches, UnderWay
<1>2. U!First(b)' = U!First(b) /\ U!Last(b)' = U!Last(b)
  BY DEF U!First, U!Last
<1>3. U!First(b) \in Nat \ {0} /\ U!Last(b) \in 1..total /\ U!First(b) <= U!Last(b)
  BY <1>1, BatchFacts DEF UnderWay
<1>4. U!First(b) \in U!First(b)..U!Last(b) /\ U!First(b)..U!Last(b) \subseteq 1..total
  BY <1>0, <1>3
<1>5. k \in Nat
  BY <1>0, <1>3
<1>6. UpdateTypes'
  <2>1. pc' \in [1..MaxItems -> UpdatePlaces] /\ item' \in [1..MaxItems -> Nat]
    BY <1>0, <1>5
  <2>2. reported' \in SUBSET (1..total)
    BY <1>1, <1>4 DEF UpdateTypes
  <2>. QED
    BY <1>1, <2>1, <2>2 DEF UpdateTypes
<1>7. UpTo(b)'
  <2>1. CASE pc[b] = "waiting"
    <3>1. /\ attempts[b] = 0
          /\ \A i \in U!First(b)..U!Last(b) : i \notin updated /\ layers[i] = 0
      BY <1>1, <2>1 DEF UpTo
    <3>2. \A i \in U!First(b)..U!Last(b) : ~(i < U!First(b))
      BY <1>3
    <3>. QED
      BY <1>0, <1>2, <1>4, <2>1, <3>1, <3>2 DEF UpTo
  <2>2. CASE pc[b] # "waiting" /\ l # "progress"
    BY <1>0, <1>1, <1>2, <2>2 DEF UpTo
  <2>3. CASE l = "progress"
    BY <1>0, <1>1, <1>2, <2>3 DEF UpTo
  <2>. QED
    BY <2>1, <2>2, <2>3
<1>8. Tallying'
  BY <1>0, NotCounted
<1>. QED
  BY <1>0, <1>6, <1>7, <1>8, BatchMoves

\* An attempt at the item of a batch: it adds a layer at most to that item, and
\* touches no other.
LEMMA BatchSends ==
    ASSUME UpdateInv, NEW b \in 1..MaxItems, pc[b] = "update",
           U!UpdateItem(b) \/ U!UpdateFails(b)
    PROVE  UpdateInv'
<1>0. /\ pc \in [1..MaxItems -> UpdatePlaces] /\ item \in [1..MaxItems -> Nat]
      /\ attempts \in [1..MaxItems -> 0..MaxRetries]
      /\ layers \in [1..MaxItems -> 0..MaxRetries + 1]
      /\ stored \in [1..MaxItems -> Nat] /\ updated \in SUBSET (1..total)
      /\ total \in Nat /\ MaxRetries \in Nat /\ total \in 0..MaxItems /\ MaxItems \in Nat
  BY BatchesAssumption DEF UpdateInv, UpdateTypes
<1>1. UnderWay /\ UpdateTypes /\ UpTo(b)
  BY DEF UpdateInv, NoBatches, UnderWay
<1>2. UNCHANGED <<total, bad, encrypted, opts, stage, current, processed, reported, highest>>
  BY DEF U!UpdateItem, U!UpdateFails, U!args
<1>3. U!First(b)' = U!First(b) /\ U!Last(b)' = U!Last(b)
  BY <1>2 DEF U!First, U!Last
<1>4. PICK lo, hi : lo = U!First(b) /\ hi = U!Last(b)
  OBVIOUS
<1>5. lo \in Nat \ {0} /\ hi \in 1..total /\ hi \in Nat /\ lo <= hi
  BY <1>0, <1>1, <1>4, BatchFacts DEF UnderWay
<1>6. PICK m : m = item[b]
  OBVIOUS
<1>7. m \in lo..hi /\ m \in Nat /\ m \in 1..total /\ m \in 1..MaxItems
  <2>1. m \in lo..hi
    BY <1>1, <1>4, <1>6 DEF UpTo
  <2>. QED
    BY <1>0, <1>5, <2>1
<1>8. PICK n : n = IF encrypted THEN layers[m] + 1 ELSE layers[m]
  OBVIOUS
<1>9. layers[m] <= attempts[b] /\ layers[m] \in Nat /\ attempts[b] \in 0..MaxRetries
  BY <1>0, <1>1, <1>6, <1>7 DEF UpTo
<1>10. n \in 0..MaxRetries + 1 /\ n <= attempts[b] + 1
  <2>1. n = layers[m] + 1 \/ n = layers[m]
    BY <1>8
  <2>. QED
    BY <1>0, <1>9, <2>1
<1>11. layers' = [layers EXCEPT ![m] = n]
  BY <1>6, <1>8 DEF U!UpdateItem, U!UpdateFails, U!Encrypt
<1>12. layers' \in [1..MaxItems -> 0..MaxRetries + 1] /\ layers'[m] = n
       /\ \A i \in 1..MaxItems : i # m => layers'[i] = layers[i]
  BY <1>0, <1>7, <1>10, <1>11
<1>13. updated' \in {updated, updated \cup {m}} /\ stored' \in [1..MaxItems -> Nat]
  <2>1. \/ updated' = updated \cup {m} /\ stored' = [stored EXCEPT ![m] = layers'[m]]
        \/ UNCHANGED <<updated, stored>>
    BY <1>6 DEF U!UpdateItem, U!UpdateFails, U!Update
  <2>2. layers'[m] \in Nat
    BY <1>0, <1>10, <1>12
  <2>. QED
    BY <1>0, <2>1, <2>2
<1>14. updated' \in SUBSET (1..total) /\ \A i : i # m => (i \in updated' <=> i \in updated)
  BY <1>0, <1>7, <1>13
<1>15. /\ m \in lo..hi
       /\ \A i \in lo..hi : i > m => i \notin updated /\ layers[i] = 0
       /\ \A i \in lo..hi : i < m => i \in updated
  BY <1>1, <1>4, <1>6, <1>7 DEF UpTo
<1>16. \A i \in lo..hi : i \in 1..MaxItems
  BY <1>0, <1>5
<1>17. \A i \in 1..total : i \notin lo..hi =>
          /\ i \in updated' <=> i \in updated
          /\ layers'[i] = layers[i]
  <2>1. \A i \in 1..total : i \in 1..MaxItems
    BY <1>0
  <2>. QED
    BY <1>7, <1>12, <1>14, <2>1
<1>18. \A i \in lo..hi : i > m => i \notin updated' /\ layers'[i] = 0
  BY <1>7, <1>12, <1>14, <1>15, <1>16
<1>19. \A i \in lo..hi : i < m => i \in updated'
  BY <1>13, <1>15
<1>20. CASE U!UpdateItem(b) /\ m = hi
  <2>1. pc' = [pc EXCEPT ![b] = "progress"] /\ UNCHANGED item /\ attempts' = [attempts EXCEPT ![b] = 0]
        /\ m \in updated'
    BY <1>4, <1>6, <1>20 DEF U!UpdateItem, U!Goto, U!Update
  <2>2. pc'[b] = "progress" /\ \A a \in 1..MaxItems : a # b => attempts'[a] = attempts[a]
    BY <1>0, <2>1
  <2>3. UpdateTypes'
    <3>1. pc' \in [1..MaxItems -> UpdatePlaces] /\ attempts' \in [1..MaxItems -> 0..MaxRetries]
      BY <1>0, <2>1 DEF UpdatePlaces
    <3>. QED
      BY <1>1, <1>2, <1>12, <1>13, <1>14, <2>1, <3>1 DEF UpdateTypes
  <2>4. \A i \in lo..hi : i \in updated'
    <3>1. \A i \in lo..hi : i < m \/ i = m
      BY <1>5, <1>7, <1>20
    <3>. QED
      BY <1>19, <2>1, <3>1
  <2>5. UpTo(b)'
    BY <1>3, <1>4, <1>6, <1>15, <1>18, <2>1, <2>2, <2>4 DEF UpTo
  <2>6. Tallying'
    BY <1>2, <2>1, NotCounted DEF UpdatePlaces
  <2>. QED
    BY <1>2, <1>4, <1>17, <2>1, <2>2, <2>3, <2>5, <2>6, BatchMoves DEF UpdatePlaces
<1>21. CASE U!UpdateItem(b) /\ m # hi
  <2>1. pc' = [pc EXCEPT ![b] = "update"] /\ item' = [item EXCEPT ![b] = m + 1]
        /\ attempts' = [attempts EXCEPT ![b] = 0] /\ m \in updated'
    BY <1>0, <1>4, <1>6, <1>21 DEF U!UpdateItem, U!Update
  <2>2. /\ pc'[b] = "update" /\ item'[b] = m + 1 /\ attempts'[b] = 0
        /\ \A a \in 1..MaxItems : a # b => item'[a] = item[a] /\ attempts'[a] = attempts[a]
    BY <1>0, <2>1
  <2>3. UpdateTypes'
    <3>1. pc' \in [1..MaxItems -> UpdatePlaces] /\ attempts' \in [1..MaxItems -> 0..MaxRetries]
          /\ item' \in [1..MaxItems -> Nat]
      BY <1>0, <1>7, <2>1 DEF UpdatePlaces
    <3>. QED
      BY <1>1, <1>2, <1>12, <1>13, <1>14, <3>1 DEF UpdateTypes
  <2>4. m + 1 \in lo..hi /\ m + 1 > m
    BY <1>5, <1>7, <1>21
  <2>5. \A i \in lo..hi : /\ i > m + 1 => i > m
                          /\ i < m + 1 => i < m \/ i = m
    BY <1>5, <1>7
  <2>6. layers'[m + 1] = 0
    BY <1>18, <2>4
  <2>7. UpTo(b)'
    <3>1. \A i \in lo..hi : i > m + 1 => i \notin updated' /\ layers'[i] = 0
      BY <1>18, <2>5
    <3>2. \A i \in lo..hi : i < m + 1 => i \in updated'
      BY <1>19, <2>1, <2>5
    <3>3. layers'[m + 1] <= 0
      BY <2>6
    <3>. QED
      BY <1>3, <1>4, <2>2, <2>4, <3>1, <3>2, <3>3 DEF UpTo
  <2>8. Tallying'
    BY <1>2, <2>1, NotCounted DEF UpdatePlaces
  <2>. QED
    BY <1>2, <1>4, <1>17, <2>1, <2>2, <2>3, <2>7, <2>8, BatchMoves DEF UpdatePlaces
<1>22. CASE U!UpdateFails(b)
  <2>1. UNCHANGED item
    BY <1>22 DEF U!UpdateFails
  <2>2. PICK l \in {"backoff", "failed"} :
          /\ pc' = [pc EXCEPT ![b] = l]
          /\ IF l = "backoff" THEN /\ attempts[b] < MaxRetries
                                  /\ attempts' = [attempts EXCEPT ![b] = attempts[b] + 1]
             ELSE UNCHANGED attempts
    BY <1>22 DEF U!UpdateFails, U!Goto, U!nextAttempt
  <2>3. pc'[b] = l /\ \A a \in 1..MaxItems : a # b => attempts'[a] = attempts[a]
    BY <1>0, <2>2
  <2>4. l = "backoff" => attempts'[b] = attempts[b] + 1 /\ attempts[b] < MaxRetries
    BY <1>0, <2>2
  <2>5. attempts' \in [1..MaxItems -> 0..MaxRetries]
    <3>1. CASE l = "failed"
      BY <1>0, <2>2, <3>1
    <3>2. CASE l = "backoff"
      <4>1. attempts[b] + 1 \in 0..MaxRetries
        BY <1>0, <1>9, <2>4, <3>2
      <4>. QED
        BY <1>0, <2>2, <3>2, <4>1
    <3>. QED
      BY <3>1, <3>2
  <2>6. UpdateTypes'
    <3>1. pc' \in [1..MaxItems -> UpdatePlaces]
      BY <1>0, <2>2 DEF UpdatePlaces
    <3>. QED
      BY <1>1, <1>2, <1>12, <1>13, <1>14, <2>1, <2>5, <3>1 DEF UpdateTypes
  <2>7. UpTo(b)'
    <3>1. l = "backoff" => layers'[m] <= attempts'[b]
      BY <1>10, <1>12, <2>4
    <3>2. item'[b] = m /\ pc'[b] \in {"backoff", "failed"}
      BY <1>6, <2>1, <2>2, <2>3
    <3>. QED
      BY <1>3, <1>4, <1>15, <1>18, <1>19, <2>3, <3>1, <3>2 DEF UpTo
  <2>8. Tallying'
    BY <1>2, <2>2, NotCounted DEF UpdatePlaces
  <2>. QED
    BY <1>2, <1>4, <1>17, <2>1, <2>2, <2>3, <2>6, <2>7, <2>8, BatchMoves DEF UpdatePlaces
<1>. QED
  BY <1>20, <1>21, <1>22

\* All steps of a batch do.
LEMMA UpdateBatch ==
    ASSUME UpdateInv, NEW b \in 1..MaxItems, U!Batch(b)
    PROVE  UpdateInv'
<1>0. item \in [1..MaxItems -> Nat] /\ item = [item EXCEPT ![b] = item[b]]
  BY DEF UpdateInv, UpdateTypes
<1>1. CASE U!StartBatch(b)
  <2>1. /\ pc[b] = "waiting" /\ stage = "running" /\ (opts.parallel \/ \A a \in 1..b - 1 : pc[a] = "done") /\ pc' = [pc EXCEPT ![b] = "update"]
        /\ UNCHANGED reported
        /\ UNCHANGED <<total, bad, encrypted, opts, stage, attempts, current, processed>>
        /\ UNCHANGED <<updated, layers, stored, highest>>
    BY <1>1 DEF U!StartBatch, U!Goto, U!args, U!effects
  <2>2. item' = [item EXCEPT ![b] = U!First(b)]
    BY <1>0, <1>1 DEF U!StartBatch
  <2>3. GoesOn(b, "update", U!First(b))
    BY <2>1, <2>2 DEF GoesOn
  <2>. QED
    BY <2>3, BatchGoesOn
<1>2. CASE U!ExtractKeyFails(b)
  <2>1. /\ pc[b] = "update" /\ pc' = [pc EXCEPT ![b] = "failed"]
        /\ UNCHANGED reported
        /\ UNCHANGED <<total, bad, encrypted, opts, stage, attempts, current, processed>>
        /\ UNCHANGED <<updated, layers, stored, highest>>
    BY <1>2 DEF U!ExtractKeyFails, U!Goto, U!args, U!effects
  <2>2. item' = [item EXCEPT ![b] = item[b]]
    BY <1>0, <1>2 DEF U!ExtractKeyFails
  <2>3. GoesOn(b, "failed", item[b])
    BY <2>1, <2>2 DEF GoesOn
  <2>. QED
    BY <2>3, BatchGoesOn
<1>3. CASE U!UpdateItem(b) \/ U!UpdateFails(b)
  BY <1>3, BatchSends DEF U!UpdateItem, U!UpdateFails
<1>4. CASE U!Backoff(b)
  <2>1. /\ pc[b] = "backoff" /\ pc' = [pc EXCEPT ![b] = "update"]
        /\ UNCHANGED reported
        /\ UNCHANGED <<total, bad, encrypted, opts, stage, attempts, current, processed>>
        /\ UNCHANGED <<updated, layers, stored, highest>>
    BY <1>4 DEF U!Backoff, U!Goto, U!args, U!effects
  <2>2. item' = [item EXCEPT ![b] = item[b]]
    BY <1>0, <1>4 DEF U!Backoff
  <2>3. GoesOn(b, "update", item[b])
    BY <2>1, <2>2 DEF GoesOn
  <2>. QED
    BY <2>3, BatchGoesOn
<1>5. CASE U!HandlerTakes(b)
  <2>1. /\ pc[b] = "failed" /\ opts.handler /\ pc' = [pc EXCEPT ![b] = "progress"]
        /\ reported' = reported \cup U!First(b)..U!Last(b)
        /\ UNCHANGED <<total, bad, encrypted, opts, stage, attempts, current, processed>>
        /\ UNCHANGED <<updated, layers, stored, highest>>
    BY <1>5 DEF U!HandlerTakes, U!Goto, U!args, U!effects
  <2>2. item' = [item EXCEPT ![b] = item[b]]
    BY <1>0, <1>5 DEF U!HandlerTakes
  <2>3. GoesOn(b, "progress", item[b])
    BY <2>1, <2>2 DEF GoesOn
  <2>. QED
    BY <2>3, BatchGoesOn
<1>6. CASE U!BatchError(b)
  <2>1. /\ pc[b] = "failed" /\ pc' = [pc EXCEPT ![b] = "error"]
        /\ UNCHANGED reported
        /\ UNCHANGED <<total, bad, encrypted, opts, stage, attempts, current, processed>>
        /\ UNCHANGED <<updated, layers, stored, highest>>
    BY <1>6 DEF U!BatchError, U!Goto, U!args, U!effects
  <2>2. item' = [item EXCEPT ![b] = item[b]]
    BY <1>0, <1>6 DEF U!BatchError
  <2>3. GoesOn(b, "error", item[b])
    BY <2>1, <2>2 DEF GoesOn
  <2>. QED
    BY <2>3, BatchGoesOn
<1>7. CASE U!CountBatch(b)
  BY <1>7, BatchCounts
<1>8. CASE U!ProgressCallback(b)
  BY <1>8, BatchCalledBack
<1>. QED
  BY <1>1, <1>2, <1>3, <1>4, <1>5, <1>6, <1>7, <1>8 DEF U!Batch

\* The call begins without batches.
LEMMA UpdateInit == U!Init => UpdateInv
<1>. SUFFICES ASSUME U!Init PROVE UpdateInv
  OBVIOUS
<1>1. opts \in [size : Int, parallel : BOOLEAN, concurrency : Int, retry : BOOLEAN, handler : BOOLEAN]
  BY BatchesAssumption DEF U!Init, U!Options
<1>2. UpdateTypes
  <2>1. pc \in [1..MaxItems -> UpdatePlaces]
    BY DEF U!Init, UpdatePlaces
  <2>2. /\ item \in [1..MaxItems -> Nat] /\ attempts \in [1..MaxItems -> 0..MaxRetries]
        /\ current \in [1..MaxItems -> Nat] /\ stored \in [1..MaxItems -> Nat]
        /\ layers \in [1..MaxItems -> 0..MaxRetries + 1]
    BY BatchesAssumption DEF U!Init
  <2>. QED
    BY <1>1, <2>1, <2>2 DEF U!Init, UpdateTypes
<1>3. NoBatches
  BY DEF U!Init, NoBatches
<1>4. UpdateOutcome
  BY DEF U!Init, UpdateOutcome, U!QuietAfterReturn, U!Returned
<1>. QED
  BY <1>2, <1>3, <1>4 DEF UpdateInv

\* Options as the code uses them.
LEMMA Effective ==
    ASSUME NEW o \in [size : Int, parallel : BOOLEAN, concurrency : Int, retry : BOOLEAN,
                      handler : BOOLEAN]
    PROVE  /\ U!effective(o) \in
                [size : Int, parallel : BOOLEAN, concurrency : Int, retry : BOOLEAN, handler : BOOLEAN]
           /\ U!effective(o).size \in Nat \ {0}
<1>1. PICK s : s = IF o.size <= 0 \/ o.size > MaxBatch THEN MaxBatch ELSE o.size
  OBVIOUS
<1>2. s \in Nat \ {0}
  BY <1>1, BatchesAssumption
<1>3. PICK k : k = IF o.concurrency <= 0 THEN DefaultConcurrency ELSE o.concurrency
  OBVIOUS
<1>4. k \in Int
  BY <1>3, BatchesAssumption
<1>5. U!effective(o) =
        [size |-> s, concurrency |-> k, parallel |-> o.parallel, retry |-> o.retry, handler |-> o.handler]
  BY <1>1, <1>3 DEF U!effective
<1>. QED
  BY <1>2, <1>4, <1>5

\* The caller's own steps.
LEMMA UpdateCaller == UpdateInv /\ U!Caller => UpdateInv'
<1>. SUFFICES ASSUME UpdateInv, U!Caller PROVE UpdateInv'
  OBVIOUS
<1>1. CASE U!prepareBatches
  <2>1. NoBatches
    BY <1>1 DEF U!prepareBatches, UpdateInv, UnderWay, Divided
  <2>2. /\ stage' = "running" /\ total > 0 /\ opts' = U!effective(opts)
        /\ UNCHANGED <<total, bad, encrypted, item, attempts, current, processed>>
        /\ UNCHANGED <<updated, layers, stored, reported, highest>>
        /\ pc' = [b \in 1..MaxItems |->
                    IF b <= (total + opts'.size - 1) \div opts'.size THEN "waiting" ELSE "none"]
    BY <1>1 DEF U!prepareBatches, U!args, U!effects, U!BatchCount
  <2>3. opts' \in [size : Int, parallel : BOOLEAN, concurrency : Int, retry : BOOLEAN, handler : BOOLEAN]
        /\ opts'.size \in Nat \ {0}
    BY <2>2, Effective DEF UpdateInv, UpdateTypes
  <2>4. UpdateTypes'
    <3>1. pc' \in [1..MaxItems -> UpdatePlaces]
      BY <2>2 DEF UpdatePlaces
    <3>. QED
      BY <2>2, <2>3, <3>1 DEF UpdateInv, UpdateTypes
  <2>5. \A b \in 1..MaxItems :
          pc'[b] = IF b <= (total + opts'.size - 1) \div opts'.size THEN "waiting" ELSE "none"
    BY <2>2
  <2>6. Divided'
    BY <2>2, <2>3, <2>5 DEF Divided, U!BatchCount
  <2>7. ASSUME NEW b \in 1..MaxItems PROVE UpTo(b)'
    <3>1. PICK n, s : n = total /\ s = opts'.size
      OBVIOUS
    <3>2. n \in Nat \ {0} /\ s \in Nat \ {0} /\ b \in Nat \ {0} /\ n <= MaxItems /\ MaxItems \in Nat
      BY <2>2, <2>3, <3>1, BatchesAssumption DEF UpdateInv, UpdateTypes
    <3>3. (b - 1) * s \in Nat /\ b * s = (b - 1) * s + s
      BY <3>2, Pieces
    <3>4. U!First(b)' = (b - 1) * s + 1 /\ U!Last(b)' = IF b * s > n THEN n ELSE b * s
      BY <2>2, <3>1 DEF U!First, U!Last
    <3>5. ASSUME NEW i \in U!First(b)'..U!Last(b)' PROVE i \in 1..MaxItems
      <4>1. U!First(b)' \in Nat /\ U!First(b)' >= 1 /\ U!Last(b)' \in Nat /\ U!Last(b)' <= n
        BY <3>2, <3>3, <3>4
      <4>. QED
        BY <3>2, <3>5, <4>1
    <3>. QED
      BY <2>1, <2>2, <2>5, <3>5 DEF UpTo, NoBatches
  <2>8. OneByOne'
    BY <2>1, <2>2, <2>5 DEF OneByOne, NoBatches
  <2>9. Counted' = {}
    <3>1. ASSUME NEW i \in 1..total PROVE U!BatchOf(i)' \in 1..MaxItems
      <4>1. total \in Nat /\ total <= MaxItems /\ MaxItems \in Nat
        BY BatchesAssumption DEF UpdateInv, UpdateTypes
      <4>2. (i - 1) \div opts'.size + 1 \in 1..total
        BY <2>3, <4>1, Cutting
      <4>. QED
        BY <4>1, <4>2 DEF U!BatchOf
    <3>. QED
      BY <2>2, <2>5, <3>1 DEF Counted
  <2>10. Tallying'
    BY <2>1, <2>2, <2>9, FS_EmptySet DEF Tallying, NoBatches
  <2>11. UpdateOutcome'
    BY <2>2 DEF UpdateOutcome, U!QuietAfterReturn, U!Returned
  <2>. QED
    BY <2>4, <2>6, <2>7, <2>8, <2>10, <2>11 DEF UpdateInv, UnderWay
<1>2. CASE U!NothingToDo
  <2>1. NoBatches
    BY <1>2 DEF U!NothingToDo, UpdateInv, UnderWay, Divided
  <2>2. UpdateTypes' /\ NoBatches'
    BY <1>2, <2>1 DEF UpdateInv, UpdateTypes, NoBatches, U!NothingToDo, U!args, U!batch, U!effects
  <2>3. U!Holders' = {} /\ U!Batches' = {}
    BY <2>2 DEF NoBatches, U!Holders, U!Batches
  <2>4. UpdateOutcome'
    BY <2>2, <2>3 DEF UpdateOutcome, U!QuietAfterReturn, NoBatches
  <2>. QED
    BY <2>2, <2>4 DEF UpdateInv
<1>3. CASE U!Return
  <2>1. UnderWay
    BY <1>3 DEF U!Return, UpdateInv, NoBatches
  <2>2. /\ stage = "running" /\ U!Finished
        /\ stage' = IF \E b \in U!Batches : pc[b] = "error" THEN "error" ELSE "ok"
        /\ UNCHANGED <<total, bad, encrypted, opts, pc, item, attempts, current, processed>>
        /\ UNCHANGED <<updated, layers, stored, reported, highest>>
    BY <1>3 DEF U!Return, U!args, U!batch, U!effects
  <2>3. UpdateTypes'
    BY <2>2 DEF UpdateInv, UpdateTypes
  <2>4. UnderWay'
    <3>1. Divided' /\ OneByOne'
      BY <2>1, <2>2 DEF UnderWay, Divided, OneByOne, U!BatchCount
    <3>2. Tallying'
      BY <2>1, <2>2 DEF UnderWay, Tallying, Counted, U!BatchOf
    <3>3. \A b \in 1..MaxItems : UpTo(b)'
      BY <2>1, <2>2, UpToSame DEF UnderWay
    <3>. QED
      BY <3>1, <3>2, <3>3 DEF UnderWay
  <2>5. U!Holders = {} /\ (opts.parallel => \A b \in U!Batches : U!Ended(b))
    <3>1. CASE \A b \in U!Batches : U!Ended(b)
      BY <3>1 DEF U!Holders
    <3>2. CASE ~opts.parallel /\ \E b \in U!Batches : pc[b] = "error"
      <4>1. PICK e \in 1..MaxItems : pc[e] = "error"
        BY <3>2 DEF U!Batches
      <4>2. ASSUME NEW c \in U!Holders PROVE FALSE
        <5>1. c \in 1..MaxItems /\ pc[c] \notin {"none", "waiting", "done", "error"}
          BY <4>2 DEF U!Holders, U!Batches, U!Ended
        <5>2. c < e \/ e < c
          BY <4>1, <5>1
        <5>. QED
          BY <2>1, <3>2, <4>1, <5>1, <5>2 DEF UnderWay, OneByOne
      <4>. QED
        BY <3>2, <4>2
    <3>. QED
      BY <2>2, <3>1, <3>2 DEF U!Finished
  <2>6. U!QuietAfterReturn'
    BY <2>2, <2>5 DEF U!QuietAfterReturn, U!Holders, U!Batches, U!Ended
  <2>7. stage' = "ok" => \A b \in 1..MaxItems : pc[b] \in {"none", "done"}
    BY <2>2 DEF U!Finished, U!Batches, U!Ended
  <2>. QED
    BY <2>2, <2>3, <2>4, <2>6, <2>7 DEF UpdateInv, UpdateOutcome
<1>. QED
  BY <1>1, <1>2, <1>3 DEF U!Caller

\* A step that leaves the update alone.
LEMMA UpdateSame == UpdateInv /\ UNCHANGED U!vars => UpdateInv'
<1>. SUFFICES ASSUME UpdateInv, UNCHANGED U!vars PROVE UpdateInv'
  OBVIOUS
<1>1. /\ UNCHANGED <<total, bad, opts, encrypted, stage, pc, item, attempts, current>>
      /\ UNCHANGED <<processed, updated, layers, stored, reported, highest>>
  BY DEF U!vars
<1>2. UpdateTypes'
  BY <1>1 DEF UpdateInv, UpdateTypes
<1>3. UpdateOutcome'
  BY <1>1 DEF UpdateInv, UpdateOutcome, U!QuietAfterReturn, U!Returned, U!Holders, U!Batches, U!Ended
<1>4. NoBatches => NoBatches'
  BY <1>1 DEF NoBatches
<1>5. UnderWay => UnderWay'
  <2>. SUFFICES ASSUME UnderWay PROVE UnderWay'
    OBVIOUS
  <2>1. Divided' /\ OneByOne'
    BY <1>1 DEF UnderWay, Divided, OneByOne, U!BatchCount
  <2>2. Tallying'
    BY <1>1 DEF UnderWay, Tallying, Counted, U!BatchOf
  <2>3. \A b \in 1..MaxItems : UpTo(b)'
    BY <1>1, UpToSame DEF UnderWay
  <2>. QED
    BY <2>1, <2>2, <2>3 DEF UnderWay
<1>. QED
  BY <1>2, <1>3, <1>4, <1>5 DEF UpdateInv

\* Every step of a batch update preserves the invariant.
LEMMA UpdateNext == UpdateInv /\ U!Next => UpdateInv'
BY UpdateBatch, UpdateCaller, UpdateSame DEF U!Next, U!Done

\* Items are in batches in their order.
LEMMA BatchesInOrder ==
    ASSUME UpdateTypes, Divided, NEW i \in 1..total, NEW j \in 1..total, j < i
    PROVE  U!BatchOf(j) <= U!BatchOf(i)
<1>1. PICK s : s = opts.size
  OBVIOUS
<1>2. s \in Nat \ {0} /\ i \in Nat \ {0} /\ j \in Nat \ {0} /\ i - 1 \in Nat /\ j - 1 \in Nat
  BY <1>1, BatchesAssumption DEF Divided, UpdateTypes
<1>3. PICK q : q = (j - 1) \div s
  OBVIOUS
<1>4. q \in Nat /\ q * s <= j - 1 /\ q * s \in Nat
  BY <1>2, <1>3, Quotient
<1>5. q * s <= i - 1
  BY <1>2, <1>4
<1>6. q <= (i - 1) \div s /\ (i - 1) \div s \in Nat
  BY <1>2, <1>4, <1>5, Quotient
<1>. QED
  BY <1>1, <1>3, <1>4, <1>6 DEF U!BatchOf

\* What the invariant says of a batch update.
LEMMA UpdatePromises ==
    ASSUME UpdateInv
    PROVE  /\ U!TypeOK
           /\ U!UpdatedOrReported /\ U!PrefixUpdated /\ U!QuietAfterReturn
           /\ U!ProgressExact
<1>0. /\ UpdateTypes /\ total \in Nat /\ MaxItems \in Nat
      /\ processed \in Nat /\ highest \in Nat /\ current \in [1..MaxItems -> Nat]
  BY BatchesAssumption DEF UpdateInv, UpdateTypes
<1>1. ASSUME UnderWay, NEW i \in 1..total
      PROVE  /\ U!BatchOf(i) \in 1..MaxItems /\ pc[U!BatchOf(i)] # "none"
             /\ i \in U!First(U!BatchOf(i))..U!Last(U!BatchOf(i))
             /\ UpTo(U!BatchOf(i))
  <2>1. U!BatchOf(i) \in 1..MaxItems /\ pc[U!BatchOf(i)] # "none"
    BY <1>0, <1>1, ItemHasBatch DEF UnderWay
  <2>2. i \in U!First(U!BatchOf(i))..U!Last(U!BatchOf(i))
    BY <1>0, <1>1, <2>1, BatchFacts DEF UnderWay
  <2>. QED
    BY <1>1, <2>1, <2>2 DEF UnderWay
<1>2. U!UpdatedOrReported
  <2>. SUFFICES ASSUME stage = "ok", NEW i \in 1..total PROVE i \in updated \cup reported
    BY DEF U!UpdatedOrReported
  <2>1. UnderWay
    BY <1>0 DEF UpdateInv, NoBatches
  <2>2. PICK b : b = U!BatchOf(i)
    OBVIOUS
  <2>3. b \in 1..MaxItems /\ pc[b] # "none" /\ i \in U!First(b)..U!Last(b) /\ UpTo(b)
    BY <1>1, <2>1, <2>2
  <2>4. pc[b] = "done"
    BY <2>3 DEF UpdateInv, UpdateOutcome
  <2>. QED
    BY <2>3, <2>4 DEF UpTo
<1>3. U!PrefixUpdated
  <2>. SUFFICES ASSUME stage # "new", NEW i \in updated, NEW j \in 1..total, j < i,
                       U!BatchOf(j) = U!BatchOf(i) \/ ~(opts.parallel \/ opts.handler)
                PROVE  j \in updated
    BY DEF U!PrefixUpdated
  <2>1. UnderWay /\ i \in 1..total
    BY <1>0 DEF UpdateInv, NoBatches, UpdateTypes
  <2>2. PICK a, b : a = U!BatchOf(j) /\ b = U!BatchOf(i)
    OBVIOUS
  <2>3. /\ b \in 1..MaxItems /\ pc[b] # "none" /\ i \in U!First(b)..U!Last(b) /\ UpTo(b)
        /\ a \in 1..MaxItems /\ pc[a] # "none" /\ j \in U!First(a)..U!Last(a) /\ UpTo(a)
    BY <1>1, <2>1, <2>2
  <2>4. pc[b] # "waiting" /\ ~(i > item[b])
    BY <2>3 DEF UpTo
  <2>5. CASE a = b
    <3>1. item[b] \in Nat /\ i \in Nat /\ j \in Nat
      BY <1>0, <2>1, <2>3 DEF UpdateTypes
    <3>2. j < item[b]
      BY <2>4, <3>1
    <3>. QED
      BY <2>3, <2>4, <2>5, <3>2 DEF UpTo
  <2>6. CASE a # b
    <3>1. ~opts.parallel /\ ~opts.handler
      BY <2>2, <2>6
    <3>2. a < b
      <4>1. a <= b
        BY <1>0, <2>1, <2>2, BatchesInOrder DEF UnderWay
      <4>. QED
        BY <2>3, <2>6, <4>1
    <3>3. pc[a] = "done" /\ reported = {}
      BY <2>1, <2>3, <2>4, <3>1, <3>2 DEF UnderWay, OneByOne
    <3>. QED
      BY <2>3, <3>3 DEF UpTo
  <2>. QED
    BY <2>5, <2>6
<1>4. U!QuietAfterReturn
  BY DEF UpdateInv, UpdateOutcome
<1>5. /\ IsFiniteSet(1..total) /\ Cardinality(1..total) = total
      /\ updated \cup reported \subseteq 1..total /\ IsFiniteSet(updated \cup reported)
  <2>1. IsFiniteSet(1..total) /\ Cardinality(1..total) = total
    BY <1>0, FS_Interval
  <2>2. updated \cup reported \subseteq 1..total
    BY DEF UpdateInv, UpdateTypes
  <2>. QED
    BY <2>1, <2>2, FS_Subset
<1>6. ASSUME UnderWay PROVE Counted \subseteq updated \cup reported
  <2>. SUFFICES ASSUME NEW i \in Counted PROVE i \in updated \cup reported
    OBVIOUS
  <2>1. PICK b : b = U!BatchOf(i)
    OBVIOUS
  <2>2. i \in 1..total /\ pc[b] \in {"callback", "done"}
    BY <2>1 DEF Counted
  <2>3. b \in 1..MaxItems /\ pc[b] # "none" /\ i \in U!First(b)..U!Last(b) /\ UpTo(b)
    BY <1>1, <1>6, <2>1, <2>2
  <2>. QED
    BY <2>2, <2>3 DEF UpTo
<1>7. highest <= processed /\ processed <= Cardinality(updated \cup reported) /\ processed <= total
      /\ Cardinality(updated \cup reported) \in Nat /\ \A b \in 1..MaxItems : current[b] <= processed
  <2>1. Cardinality(updated \cup reported) \in Nat /\ Cardinality(updated \cup reported) <= total
    BY <1>5, FS_Subset, FS_CardinalityType
  <2>2. CASE NoBatches
    BY <1>0, <2>1, <2>2 DEF NoBatches
  <2>3. CASE UnderWay
    <3>1. processed <= Cardinality(updated \cup reported)
      <4>1. Cardinality(Counted) <= Cardinality(updated \cup reported)
        BY <1>5, <1>6, <2>3, FS_Subset
      <4>. QED
        BY <2>3, <4>1 DEF UnderWay, Tallying
    <3>2. highest <= processed /\ \A b \in 1..MaxItems : current[b] <= processed
      BY <2>3 DEF UnderWay, Tallying
    <3>3. processed <= total
      BY <1>0, <2>1, <3>1
    <3>. QED
      BY <2>1, <3>1, <3>2, <3>3
  <2>. QED
    BY <2>2, <2>3 DEF UpdateInv
<1>8. U!ProgressExact
  <2>1. highest <= U!Cardinality(updated \cup reported)
    BY <1>0, <1>7, SameCardinality
  <2>2. ASSUME stage = "ok" PROVE highest = total
    <3>1. CASE NoBatches
      BY <2>2, <3>1 DEF NoBatches
    <3>2. CASE UnderWay
      <4>1. \A b \in 1..MaxItems : pc[b] \in {"none", "done"}
        BY <2>2 DEF UpdateInv, UpdateOutcome
      <4>2. Counted = 1..total
        BY <1>1, <3>2, <4>1 DEF Counted
      <4>3. processed = total
        BY <1>5, <3>2, <4>2 DEF UnderWay, Tallying
      <4>4. highest = processed
        BY <3>2, <4>1 DEF UnderWay, Tallying
      <4>. QED
        BY <4>3, <4>4
    <3>. QED
      BY <3>1, <3>2 DEF UpdateInv
  <2>. QED
    BY <2>1, <2>2 DEF U!ProgressExact
<1>9. U!TypeOK
  <2>1. \A b \in U!Batches : pc[b] # "waiting" => item[b] \in U!First(b)..U!Last(b)
    <3>1. CASE NoBatches
      BY <3>1 DEF NoBatches, U!Batches
    <3>2. CASE UnderWay
      BY <3>2 DEF UnderWay, UpTo, U!Batches
    <3>. QED
      BY <3>1, <3>2 DEF UpdateInv
  <2>2. processed \in 0..total /\ highest \in 0..total /\ current \in [1..MaxItems -> 0..total]
    <3>1. \A b \in 1..MaxItems : current[b] \in 0..total
      BY <1>0, <1>7
    <3>. QED
      BY <1>0, <1>7, <3>1
  <2>. QED
    BY <1>0, <2>1, <2>2 DEF U!TypeOK, UpdateTypes, UpdatePlaces
<1>. QED
  BY <1>2, <1>3, <1>4, <1>8, <1>9

------------------------------------------------------------------------------
(***************************************************************************)
(* BatchWrite: the inductive invariant.                                    *)
(***************************************************************************)
WritePlaces == {"new", "build", "next", "send", "backoff", "failed", "ok", "error"}

Todo    == W!Elements(todo)
InBatch == W!Elements(batch)

WriteTypes ==
    /\ call \in {"create", "write", "delete"}
    /\ input \in Seq([op : {"put", "delete"}, key : Keys, ok : BOOLEAN])
    /\ size \in Int /\ pc \in WritePlaces /\ built \in 0..Len(input)
    /\ todo \in Seq(1..Len(input)) /\ batch \in Seq(1..Len(input))
    /\ remaining \in SUBSET InBatch /\ attempts \in 0..MaxAttempts
    /\ layers \in [1..Len(input) -> 0..MaxAttempts]
    /\ \A k \in Keys : store[k].id \in 1..Len(input) \cup {0, -1}
    /\ processed \in Nat /\ shown \in Nat
    /\ applied \in SUBSET (1..built) /\ reported \in SUBSET (1..built)

Ascending(s) == \A p, q \in DOMAIN s : p < q => s[p] < s[q]

\* Requests are sent in their order: what is applied is before what is in the
\* batch, and that before what is to do.
InOrder ==
    /\ Ascending(todo) /\ Ascending(batch)
    /\ \A j \in Todo : j <= built /\ j \notin reported /\ layers[j] = 0
    /\ \A i \in InBatch \cup applied, j \in Todo : i < j
    /\ \A i \in applied \ InBatch, j \in InBatch : i < j

Busy == pc \in {"send", "backoff", "failed"}

\* What is sent is new to the table, but for a batch's requests on other keys.
Sending ==
    pc \in {"send", "backoff"} =>
        /\ InBatch \ remaining \subseteq applied
        /\ \A i \in applied \cap InBatch, j \in remaining : input[i].key # input[j].key
        /\ attempts < MaxAttempts
        /\ \A i \in remaining : layers[i] <= attempts

\* The place in the call.
Stages ==
    /\ pc \in {"new", "build"} =>
         /\ batch = <<>> /\ applied = {} /\ processed = 0
         /\ \A i \in 1..Len(input) : layers[i] = 0
    /\ pc = "new" => built = 0 /\ todo = <<>>
    /\ pc = "build" => call = "write"
    /\ pc # "new" => size \in 1..MaxBatch
    /\ pc \notin {"new", "build", "error"} => built = Len(input)
    /\ Len(batch) <= MaxBatch
    /\ pc = "ok" => todo = <<>>

\* What was begun is done or reported, but for the batch under way.
Begun ==
    /\ \A i \in 1..built : i \notin Todo \cup InBatch => i \in applied \cup reported
    /\ pc \in {"next", "ok"} => InBatch \subseteq applied \cup reported

\* The last request on a key that took effect is what the store shows.
Latest(i) == i \in applied /\ \A j \in applied : j > i => input[j].key # input[i].key

Shows(i) == store[input[i].key].id = IF input[i].op = "put" THEN i ELSE -1

\* The requests that were built.
Built == {i \in 1..built : call # "write" \/ input[i].ok}

UnderWork == IF Busy THEN InBatch ELSE {}

Adding ==
    /\ IF pc = "error" THEN processed <= Cardinality(Built)
       ELSE processed + Len(todo) + (IF Busy THEN Len(batch) ELSE 0) = Cardinality(Built)
    /\ processed <= Cardinality((applied \cup reported) \ UnderWork)
    /\ shown <= Cardinality(applied \cup reported)

WriteInv ==
    /\ WriteTypes /\ InOrder /\ Sending /\ Stages /\ Begun /\ Adding
    /\ \A i \in 1..Len(input) : Latest(i) => Shows(i)

------------------------------------------------------------------------------
(***************************************************************************)
(* Ascending sequences of requests.                                        *)
(***************************************************************************)
LEMMA SeqElements ==
    ASSUME NEW n \in Nat, NEW s \in Seq(1..n)
    PROVE  /\ Len(s) \in Nat /\ DOMAIN s = 1..Len(s)
           /\ W!Elements(s) \subseteq 1..n
           /\ \A p \in 1..Len(s) : s[p] \in W!Elements(s) /\ s[p] \in 1..n
           /\ \A x \in W!Elements(s) : \E p \in 1..Len(s) : s[p] = x
           /\ s = <<>> <=> W!Elements(s) = {}
           /\ s = <<>> <=> Len(s) = 0
<1>1. Len(s) \in Nat /\ DOMAIN s = 1..Len(s) /\ \A p \in 1..Len(s) : s[p] \in 1..n
  BY LenProperties, ElementOfSeq
<1>2. s = <<>> <=> Len(s) = 0
  BY EmptySeq
<1>3. W!Elements(s) = {s[p] : p \in 1..Len(s)}
  BY <1>1 DEF W!Elements
<1>4. Len(s) # 0 => 1 \in 1..Len(s)
  BY <1>1
<1>5. Len(s) = 0 => 1..Len(s) = {}
  BY <1>1
<1>6. W!Elements(s) = {} <=> Len(s) = 0
  BY <1>3, <1>4, <1>5
<1>. QED
  BY <1>1, <1>2, <1>3, <1>6

\* An ascending sequence names as many requests as it is long.
LEMMA AscendingCount ==
    ASSUME NEW n \in Nat, NEW s \in Seq(1..n), Ascending(s)
    PROVE  IsFiniteSet(W!Elements(s)) /\ Cardinality(W!Elements(s)) = Len(s)
<1>1. /\ Len(s) \in Nat /\ DOMAIN s = 1..Len(s)
      /\ \A p \in 1..Len(s) : s[p] \in W!Elements(s) /\ s[p] \in 1..n
      /\ \A x \in W!Elements(s) : \E p \in 1..Len(s) : s[p] = x
  BY SeqElements
<1>2. s \in [1..Len(s) -> W!Elements(s)]
  BY <1>1, LenProperties
<1>3. s \in Surjection(1..Len(s), W!Elements(s))
  BY <1>1, <1>2 DEF Surjection
<1>4. \A p, q \in 1..Len(s) : s[p] = s[q] => p = q
  <2>. SUFFICES ASSUME NEW p \in 1..Len(s), NEW q \in 1..Len(s), s[p] = s[q], p # q PROVE FALSE
    OBVIOUS
  <2>1. p < q \/ q < p
    BY <1>1
  <2>2. s[p] < s[q] \/ s[q] < s[p]
    BY <1>1, <2>1 DEF Ascending
  <2>. QED
    BY <1>1, <2>2
<1>5. s \in Injection(1..Len(s), W!Elements(s))
  BY <1>1, <1>2, <1>4 DEF Injection, IsInjective
<1>6. IsFiniteSet(1..Len(s)) /\ Cardinality(1..Len(s)) = Len(s)
  <2>1. PICK k \in Nat : k = Len(s)
    BY <1>1
  <2>2. IsFiniteSet(1..k) /\ Cardinality(1..k) = k
    BY FS_Interval
  <2>. QED
    BY <2>1, <2>2
<1>. QED
  BY <1>3, <1>5, <1>6, FS_Surjection

\* A batch is cut from the front of what is to do.
Front(s, m) == SubSeq(s, 1, m)
Back(s, m)  == SubSeq(s, m + 1, Len(s))

\* Both parts ascend, and the front is before the back.
LEMMA CutFront ==
    ASSUME NEW n \in Nat, NEW s \in Seq(1..n), Ascending(s), NEW m \in 1..Len(s)
    PROVE  /\ Front(s, m) \in Seq(1..n) /\ Len(Front(s, m)) = m /\ Ascending(Front(s, m))
           /\ Back(s, m) \in Seq(1..n) /\ Len(Back(s, m)) = Len(s) - m /\ Ascending(Back(s, m))
           /\ W!Elements(s) = W!Elements(Front(s, m)) \cup W!Elements(Back(s, m))
           /\ \A i \in W!Elements(Front(s, m)), j \in W!Elements(Back(s, m)) : i < j
<1>0. PICK a, b : /\ a = Front(s, m) /\ b = Back(s, m)
                  /\ a = SubSeq(s, 1, m) /\ b = SubSeq(s, m + 1, Len(s))
  BY DEF Front, Back
<1>1. PICK k : k = Len(s)
  OBVIOUS
<1>2. k \in Nat /\ m \in Nat /\ 1 <= m /\ m <= k /\ DOMAIN s = 1..k /\ \A p \in 1..k : s[p] \in 1..n
  BY <1>1, SeqElements
<1>3. a \in Seq(1..n) /\ Len(a) = m /\ \A p \in 1..m : a[p] = s[p]
  <2>1. \A p \in 1..m : s[p] \in 1..n
    BY <1>2
  <2>2. a \in Seq(1..n) /\ Len(a) = m - 1 + 1 /\ \A p \in 1..m - 1 + 1 : a[p] = s[1 + p - 1]
    BY <1>0, <1>2, <2>1, SubSeqProperties
  <2>3. m - 1 + 1 = m /\ \A p \in 1..m : 1 + p - 1 = p
    BY <1>2
  <2>. QED
    BY <2>2, <2>3
<1>4. b \in Seq(1..n) /\ Len(b) = k - m /\ \A p \in 1..k - m : b[p] = s[m + p]
  <2>1. \A p \in (m + 1)..k : s[p] \in 1..n
    BY <1>2
  <2>2. /\ b \in Seq(1..n) /\ Len(b) = IF m + 1 <= k THEN k - (m + 1) + 1 ELSE 0
        /\ \A p \in 1..k - (m + 1) + 1 : b[p] = s[(m + 1) + p - 1]
    BY <1>0, <1>1, <1>2, <2>1, SubSeqProperties
  <2>3. k - (m + 1) + 1 = k - m /\ \A p \in 1..k - m : (m + 1) + p - 1 = m + p
    BY <1>2
  <2>4. m + 1 <= k \/ k - m = 0
    BY <1>2
  <2>. QED
    BY <1>2, <2>2, <2>3, <2>4
<1>5. \A p, q \in 1..k : p < q => s[p] < s[q]
  BY <1>2 DEF Ascending
<1>6. DOMAIN a = 1..m /\ DOMAIN b = 1..k - m
  BY <1>3, <1>4, LenProperties
<1>7. Ascending(a)
  BY <1>2, <1>3, <1>5, <1>6 DEF Ascending
<1>8. Ascending(b)
  <2>. SUFFICES ASSUME NEW p \in 1..k - m, NEW q \in 1..k - m, p < q PROVE b[p] < b[q]
    BY <1>6 DEF Ascending
  <2>1. m + p \in 1..k /\ m + q \in 1..k /\ m + p < m + q
    BY <1>2
  <2>. QED
    BY <1>4, <1>5, <2>1
<1>9. W!Elements(s) = W!Elements(a) \cup W!Elements(b)
  <2>1. ASSUME NEW x \in W!Elements(s) PROVE x \in W!Elements(a) \cup W!Elements(b)
    <3>1. PICK p \in 1..k : s[p] = x
      BY <1>1, SeqElements
    <3>2. CASE p <= m
      <4>1. p \in 1..m
        BY <1>2, <3>2
      <4>. QED
        BY <1>3, <1>6, <3>1, <4>1 DEF W!Elements
    <3>3. CASE ~(p <= m)
      <4>1. p - m \in 1..k - m /\ m + (p - m) = p
        BY <1>2, <3>3
      <4>2. b[p - m] = x
        BY <1>4, <3>1, <4>1
      <4>. QED
        BY <1>6, <4>1, <4>2 DEF W!Elements
    <3>. QED
      BY <3>2, <3>3
  <2>2. ASSUME NEW x \in W!Elements(a) PROVE x \in W!Elements(s)
    <3>1. PICK p \in 1..m : a[p] = x
      BY <1>6 DEF W!Elements
    <3>2. p \in 1..k /\ s[p] = x
      BY <1>2, <1>3, <3>1
    <3>. QED
      BY <1>2, <3>2 DEF W!Elements
  <2>3. ASSUME NEW x \in W!Elements(b) PROVE x \in W!Elements(s)
    <3>1. PICK p \in 1..k - m : b[p] = x
      BY <1>6 DEF W!Elements
    <3>2. m + p \in 1..k /\ s[m + p] = x
      BY <1>2, <1>4, <3>1
    <3>. QED
      BY <1>2, <3>2 DEF W!Elements
  <2>. QED
    BY <2>1, <2>2, <2>3
<1>10. ASSUME NEW i \in W!Elements(a), NEW j \in W!Elements(b) PROVE i < j
  <2>1. PICK p \in 1..m : a[p] = i
    BY <1>6 DEF W!Elements
  <2>2. PICK q \in 1..k - m : b[q] = j
    BY <1>6 DEF W!Elements
  <2>3. p \in 1..k /\ m + q \in 1..k /\ p < m + q
    BY <1>2
  <2>. QED
    BY <1>3, <1>4, <1>5, <2>1, <2>2, <2>3
<1>. QED
  BY <1>0, <1>1, <1>3, <1>4, <1>7, <1>8, <1>9, <1>10

\* A request behind all others.
LEMMA AppendLast ==
    ASSUME NEW n \in Nat, NEW s \in Seq(1..n), Ascending(s), NEW x \in 1..n,
           \A i \in W!Elements(s) : i < x
    PROVE  /\ Append(s, x) \in Seq(1..n) /\ Ascending(Append(s, x)) /\ Len(Append(s, x)) = Len(s) + 1
           /\ W!Elements(Append(s, x)) = W!Elements(s) \cup {x}
<1>0. PICK t : t = Append(s, x)
  OBVIOUS
<1>1. PICK k : k = Len(s)
  OBVIOUS
<1>2. k \in Nat /\ DOMAIN s = 1..k /\ \A p \in 1..k : s[p] \in W!Elements(s) /\ s[p] \in 1..n
  BY <1>1, SeqElements
<1>3. t \in Seq(1..n) /\ Len(t) = k + 1 /\ (\A p \in 1..k : t[p] = s[p]) /\ t[k + 1] = x
  BY <1>0, <1>1, AppendProperties
<1>4. DOMAIN t = 1..k + 1
  BY <1>3, LenProperties
<1>5. \A p \in 1..k + 1 : p \in 1..k \/ p = k + 1
  BY <1>2
<1>6. \A p \in 1..k : p \in 1..k + 1 /\ p < k + 1 /\ ~(k + 1 < p)
  BY <1>2
<1>7. k + 1 \in 1..k + 1 /\ ~(k + 1 < k + 1)
  BY <1>2
<1>8. Ascending(t)
  <2>. SUFFICES ASSUME NEW p \in 1..k + 1, NEW q \in 1..k + 1, p < q PROVE t[p] < t[q]
    BY <1>4 DEF Ascending
  <2>1. p \in 1..k
    BY <1>5, <1>6, <1>7
  <2>2. CASE q \in 1..k
    BY <1>2, <1>3, <2>1, <2>2 DEF Ascending
  <2>3. CASE q = k + 1
    BY <1>2, <1>3, <2>1, <2>3
  <2>. QED
    BY <1>5, <2>2, <2>3
<1>9. W!Elements(t) = W!Elements(s) \cup {x}
  BY <1>2, <1>3, <1>4, <1>5, <1>6, <1>7 DEF W!Elements
<1>. QED
  BY <1>0, <1>1, <1>3, <1>8, <1>9

\* All requests of a call.
LEMMA AllInOrder ==
    ASSUME NEW n \in Nat, NEW t, t = [i \in 1..n |-> i]
    PROVE  /\ t \in Seq(1..n) /\ Ascending(t) /\ Len(t) = n
           /\ W!Elements(t) = 1..n
<1>1. t \in Seq(1..n)
  BY IsASeq
<1>2. DOMAIN t = 1..n
  OBVIOUS
<1>3. Len(t) = n
  <2>1. DOMAIN t = 1..Len(t) /\ Len(t) \in Nat
    BY <1>1, LenProperties
  <2>. QED
    BY <1>2, <2>1
<1>4. Ascending(t)
  BY DEF Ascending
<1>5. W!Elements(t) = 1..n
  BY DEF W!Elements
<1>. QED
  BY <1>1, <1>3, <1>4, <1>5

------------------------------------------------------------------------------
\* The sets the invariant counts are finite and bounded by the input.
LEMMA WriteSizes ==
    ASSUME WriteTypes, Ascending(todo), Ascending(batch)
    PROVE  /\ Len(input) \in Nat /\ DOMAIN input = 1..Len(input)
           /\ built \in Nat /\ built <= Len(input) /\ 1..built \subseteq 1..Len(input)
           /\ Todo \subseteq 1..Len(input) /\ Len(todo) \in Nat
           /\ InBatch \subseteq 1..Len(input) /\ Len(batch) \in Nat
           /\ IsFiniteSet(InBatch) /\ Cardinality(InBatch) = Len(batch)
           /\ IsFiniteSet(applied \cup reported) /\ Cardinality(applied \cup reported) \in Nat
           /\ Cardinality(applied \cup reported) <= Len(input)
           /\ IsFiniteSet(Built) /\ Cardinality(Built) \in Nat /\ Cardinality(Built) <= Len(input)
<1>1. PICK n \in Nat : n = Len(input) /\ DOMAIN input = 1..n
  BY LenProperties DEF WriteTypes
<1>2. built \in Nat /\ built <= n /\ 1..built \subseteq 1..n
  BY <1>1 DEF WriteTypes
<1>3. todo \in Seq(1..n) /\ batch \in Seq(1..n)
  BY <1>1 DEF WriteTypes
<1>4. Todo \subseteq 1..n /\ Len(todo) \in Nat /\ InBatch \subseteq 1..n /\ Len(batch) \in Nat
  BY <1>3, SeqElements DEF Todo, InBatch
<1>5. IsFiniteSet(InBatch) /\ Cardinality(InBatch) = Len(batch)
  BY <1>3, AscendingCount DEF InBatch
<1>6. IsFiniteSet(1..n) /\ Cardinality(1..n) = n
  BY FS_Interval
<1>7. applied \cup reported \subseteq 1..n /\ Built \subseteq 1..n
  BY <1>2 DEF WriteTypes, Built
<1>8. /\ IsFiniteSet(applied \cup reported) /\ Cardinality(applied \cup reported) <= n
      /\ IsFiniteSet(Built) /\ Cardinality(Built) <= n
  <2>1. ASSUME NEW S, S \subseteq 1..n PROVE IsFiniteSet(S) /\ Cardinality(S) <= n
    BY <1>6, <2>1, FS_Subset
  <2>. QED
    BY <1>7, <2>1
<1>9. Cardinality(applied \cup reported) \in Nat /\ Cardinality(Built) \in Nat
  BY <1>8, FS_CardinalityType
<1>. QED
  BY <1>1, <1>2, <1>4, <1>5, <1>8, <1>9

\* The call begins with nothing built.
LEMMA WriteInit == W!Init => WriteInv
<1>. SUFFICES ASSUME W!Init PROVE WriteInv
  OBVIOUS
<1>1. PICK m \in 0..MaxItems : input \in [1..m -> [op : {"put", "delete"}, key : Keys, ok : BOOLEAN]]
  <2>1. \E m \in 0..MaxItems, ops \in SUBSET {"put", "delete"} : input \in [1..m -> W!Requests(ops)]
    BY DEF W!Init, W!Inputs, W!SeqUpTo
  <2>. QED
    BY <2>1 DEF W!Requests
<1>2. m \in Nat
  BY BatchesAssumption
<1>3. input \in Seq([op : {"put", "delete"}, key : Keys, ok : BOOLEAN]) /\ Len(input) = m
  <2>0. PICK R : R = [op : {"put", "delete"}, key : Keys, ok : BOOLEAN]
    OBVIOUS
  <2>1. input = [i \in 1..m |-> input[i]] /\ \A i \in 1..m : input[i] \in R
    BY <1>1, <2>0
  <2>2. input \in Seq(R)
    BY <1>2, <2>1, IsASeq
  <2>3. DOMAIN input = 1..m /\ DOMAIN input = 1..Len(input) /\ Len(input) \in Nat
    BY <1>1, <2>2, LenProperties
  <2>. QED
    BY <1>2, <2>0, <2>2, <2>3
<1>4. todo \in Seq(1..m) /\ batch \in Seq(1..m) /\ todo = <<>> /\ batch = <<>>
  BY EmptySeq DEF W!Init
<1>5. Todo = {} /\ InBatch = {} /\ Len(todo) = 0 /\ Len(batch) = 0 /\ Ascending(todo) /\ Ascending(batch)
  <2>1. Todo = {} /\ InBatch = {} /\ Len(todo) = 0 /\ Len(batch) = 0
    BY <1>2, <1>4, SeqElements DEF Todo, InBatch
  <2>2. DOMAIN todo = {} /\ DOMAIN batch = {}
    BY <1>2, <1>4, <2>1, SeqElements
  <2>. QED
    BY <2>1, <2>2 DEF Ascending
<1>6. layers \in [1..m -> 0..MaxAttempts] /\ \A i \in 1..m : layers[i] = 0
  <2>1. layers = [i \in 1..m |-> 0]
    BY <1>1 DEF W!Init
  <2>. QED
    BY <2>1, BatchesAssumption
<1>7. WriteTypes
  <2>1. \A k \in Keys : store[k].id = 0
    BY DEF W!Init, W!Old
  <2>2. built \in 0..Len(input) /\ size \in Int /\ attempts \in 0..MaxAttempts
    BY <1>2, <1>3, BatchesAssumption DEF W!Init
  <2>3. pc \in WritePlaces /\ remaining \in SUBSET InBatch
    BY DEF W!Init, WritePlaces
  <2>. QED
    BY <1>3, <1>4, <1>6, <2>1, <2>2, <2>3 DEF W!Init, WriteTypes
<1>8. InOrder
  BY <1>5 DEF InOrder, W!Init
<1>9. Sending /\ Begun
  <2>1. 1..built = {}
    BY DEF W!Init
  <2>. QED
    BY <1>5, <2>1 DEF Sending, Begun, W!Init
<1>10. Stages
  BY <1>3, <1>5, <1>6, BatchesAssumption DEF Stages, W!Init
<1>11. Adding
  <2>1. Built = {} /\ applied \cup reported = {}
    BY DEF Built, W!Init
  <2>2. pc = "new" /\ ~Busy /\ UnderWork = {} /\ processed = 0 /\ shown = 0
    BY DEF W!Init, Busy, UnderWork
  <2>3. Cardinality(Built) = 0 /\ Cardinality(applied \cup reported) = 0
        /\ Cardinality((applied \cup reported) \ UnderWork) = 0
    BY <2>1, <2>2, FS_EmptySet
  <2>. QED
    BY <1>5, <2>2, <2>3 DEF Adding
<1>12. \A i \in 1..Len(input) : ~Latest(i)
  BY DEF Latest, W!Init
<1>. QED
  BY <1>7, <1>8, <1>9, <1>10, <1>11, <1>12 DEF WriteInv

\* The call goes from one place to another, and does nothing else.
Moves(l) ==
    /\ \/ pc = "build" /\ l = "error"
       \/ pc = "build" /\ l = "next" /\ built = Len(input)
       \/ pc = "next" /\ l = "ok" /\ todo = <<>>
       \/ pc = "backoff" /\ l = "send"
       \/ pc = "failed" /\ l = "error"
    /\ pc' = l
    /\ UNCHANGED <<call, input, size, built, todo, batch, remaining, attempts>>
    /\ UNCHANGED <<layers, store, processed, shown, applied, reported>>

\* Such a step preserves the invariant.
LEMMA WriteMoves ==
    ASSUME WriteInv, NEW l, Moves(l)
    PROVE  WriteInv'
<1>1. /\ UNCHANGED <<call, input, size, built, todo, batch, remaining, attempts>>
      /\ UNCHANGED <<layers, store, processed, shown, applied, reported>> /\ pc' = l
  BY DEF Moves
<1>2. Todo' = Todo /\ InBatch' = InBatch
  BY <1>1 DEF Todo, InBatch
<1>3. WriteTypes'
  BY <1>1, <1>2 DEF WriteInv, WriteTypes, Moves, WritePlaces
<1>4. InOrder'
  BY <1>1, <1>2 DEF WriteInv, InOrder
<1>5. Sending'
  BY <1>1, <1>2 DEF WriteInv, Sending, Moves
<1>6. Stages'
  BY <1>1 DEF WriteInv, Stages, Moves
<1>7. Begun'
  <2>1. pc = "build" => InBatch = {}
    <3>1. batch \in Seq(1..Len(input)) /\ Len(input) \in Nat
      BY LenProperties DEF WriteInv, WriteTypes
    <3>. QED
      BY <3>1, SeqElements DEF WriteInv, Stages, InBatch
  <2>. QED
    BY <1>1, <1>2, <2>1 DEF WriteInv, Begun, Moves
<1>8. Adding'
  <2>1. Built' = Built
    BY <1>1 DEF Built
  <2>2. CASE pc = "failed"
    <3>1. IsFiniteSet(applied \cup reported) /\ Cardinality(applied \cup reported) \in Nat
          /\ Cardinality(Built) \in Nat /\ Len(todo) \in Nat /\ Len(batch) \in Nat /\ processed \in Nat
      BY WriteSizes DEF WriteInv, InOrder, WriteTypes
    <3>2. pc' = "error" /\ UnderWork' = {}
      BY <1>1, <2>2 DEF Moves, UnderWork, Busy
    <3>3. UnderWork = InBatch /\ Busy
      BY <2>2 DEF UnderWork, Busy
    <3>4. PICK X : X = (applied \cup reported) \ InBatch
      OBVIOUS
    <3>5. IsFiniteSet(X) /\ Cardinality(X) <= Cardinality(applied \cup reported)
      BY <3>1, <3>4, FS_Subset
    <3>6. processed <= Cardinality(X)
      BY <3>3, <3>4 DEF WriteInv, Adding
    <3>7. processed <= Cardinality(applied \cup reported)
      <4>1. Cardinality(X) \in Nat
        BY <3>5, FS_CardinalityType
      <4>. QED
        BY <3>1, <3>5, <3>6, <4>1
    <3>8. (applied \cup reported) \ {} = applied \cup reported
      OBVIOUS
    <3>9. processed <= Cardinality(Built)
      BY <2>2, <3>1, <3>3 DEF WriteInv, Adding
    <3>. QED
      BY <1>1, <2>1, <3>2, <3>7, <3>8, <3>9 DEF WriteInv, Adding
  <2>3. CASE pc # "failed"
    <3>1. (Busy' <=> Busy) /\ UnderWork' = UnderWork
      BY <1>1, <1>2, <2>3 DEF Moves, Busy, UnderWork
    <3>2. pc # "error" /\ (pc' = "error" => pc = "build")
      BY <2>3 DEF Moves
    <3>4. processed + Len(todo) + (IF Busy THEN Len(batch) ELSE 0) = Cardinality(Built)
      BY <3>2 DEF WriteInv, Adding
    <3>3. processed <= Cardinality(Built)
      <4>1. /\ Cardinality(Built) \in Nat /\ Len(todo) \in Nat /\ Len(batch) \in Nat /\ processed \in Nat
        BY WriteSizes DEF WriteInv, InOrder, WriteTypes
      <4>2. (IF Busy THEN Len(batch) ELSE 0) \in Nat
        BY <4>1
      <4>3. \A x, y, z \in Nat : x <= x + y + z
        OBVIOUS
      <4>4. processed <= processed + Len(todo) + (IF Busy THEN Len(batch) ELSE 0)
        BY <4>1, <4>2, <4>3
      <4>. QED
        BY <3>4, <4>4
    <3>5. (IF Busy' THEN Len(batch) ELSE 0) = (IF Busy THEN Len(batch) ELSE 0)
      BY <3>1
    <3>. QED
      BY <1>1, <2>1, <3>1, <3>3, <3>4, <3>5 DEF WriteInv, Adding
  <2>. QED
    BY <2>2, <2>3
<1>9. \A i \in 1..Len(input) : Latest(i)' => Shows(i)'
  BY <1>1 DEF WriteInv, Latest, Shows
<1>. QED
  BY <1>1, <1>3, <1>4, <1>5, <1>6, <1>7, <1>8, <1>9 DEF WriteInv

\* Sets that grow.
LEMMA Grows ==
    ASSUME NEW T, IsFiniteSet(T), NEW S, S \subseteq T
    PROVE  IsFiniteSet(S) /\ Cardinality(S) \in Nat /\ Cardinality(T) \in Nat
           /\ Cardinality(S) <= Cardinality(T)
<1>1. IsFiniteSet(S) /\ Cardinality(S) <= Cardinality(T)
  BY FS_Subset
<1>. QED
  BY <1>1, FS_CardinalityType

\* BatchCreate and BatchDelete have all to do at once, BatchWrite builds it first.
LEMMA WriteBegins ==
    ASSUME WriteInv, W!Begin
    PROVE  WriteInv'
<1>0. /\ pc = "new" /\ built = 0 /\ todo = <<>> /\ batch = <<>> /\ applied = {} /\ processed = 0
      /\ \A i \in 1..Len(input) : layers[i] = 0
  BY DEF W!Begin, WriteInv, Stages
<1>1. /\ UNCHANGED <<call, input, batch, remaining, attempts>>
      /\ UNCHANGED <<layers, store, processed, shown, applied, reported>>
      /\ size' = W!effectiveSize(size)
  BY DEF W!Begin, W!args, W!current, W!effects, W!report
<1>2. PICK n \in Nat : n = Len(input) /\ DOMAIN input = 1..n
  BY LenProperties DEF WriteInv, WriteTypes
<1>3. size' \in 1..MaxBatch /\ size' \in Int /\ Len(batch) <= MaxBatch
  BY <1>1, BatchesAssumption DEF WriteInv, WriteTypes, Stages, W!effectiveSize
<1>4. reported = {} /\ InBatch = {} /\ InBatch' = {} /\ Todo = {} /\ Len(todo) = 0
  <2>1. 1..built = {}
    BY <1>0
  <2>2. reported = {}
    BY <2>1 DEF WriteInv, WriteTypes
  <2>3. todo \in Seq(1..n) /\ batch \in Seq(1..n)
    BY <1>2 DEF WriteInv, WriteTypes
  <2>4. Todo = {} /\ Len(todo) = 0 /\ InBatch = {}
    BY <1>0, <2>3, SeqElements DEF Todo, InBatch
  <2>. QED
    BY <1>1, <2>2, <2>4 DEF InBatch
<1>5. PICK f, g : f = todo' /\ g = built'
  OBVIOUS
<1>6. /\ f \in Seq(1..n) /\ Ascending(f) /\ Len(f) = g /\ W!Elements(f) = 1..g /\ g \in 0..n /\ g \in Nat
      /\ IF call = "write" THEN pc' = "build" /\ g = 0 /\ f = <<>> ELSE pc' = "next" /\ g = n
  <2>1. CASE call = "write"
    <3>1. pc' = "build" /\ f = <<>> /\ g = 0
      BY <1>5, <2>1 DEF W!Begin
    <3>2. todo \in Seq(1..n) /\ Ascending(todo) /\ 1..0 = {} /\ f = todo
      BY <1>0, <1>2, <3>1 DEF WriteInv, WriteTypes, InOrder
    <3>. QED
      BY <1>2, <1>4, <2>1, <3>1, <3>2 DEF Todo
  <2>2. CASE call # "write"
    <3>1. pc' = "next" /\ f = [i \in 1..n |-> i] /\ g = n
      BY <1>2, <1>5, <2>2 DEF W!Begin
    <3>2. f \in Seq(1..n) /\ Ascending(f) /\ Len(f) = n /\ W!Elements(f) = 1..n
      BY <3>1, AllInOrder
    <3>. QED
      BY <1>2, <2>2, <3>1, <3>2
  <2>. QED
    BY <2>1, <2>2
<1>7. Todo' = 1..g
  BY <1>5, <1>6 DEF Todo
<1>8. WriteTypes'
  <2>1. pc' \in WritePlaces
    BY <1>6 DEF WritePlaces
  <2>2. applied' \in SUBSET (1..g) /\ reported' \in SUBSET (1..g)
    BY <1>0, <1>1, <1>4
  <2>3. remaining' \in SUBSET InBatch'
    BY <1>1, <1>4 DEF WriteInv, WriteTypes
  <2>. QED
    BY <1>1, <1>2, <1>3, <1>5, <1>6, <2>1, <2>2, <2>3 DEF WriteInv, WriteTypes
<1>9. InOrder'
  <2>1. Ascending(todo)' /\ Ascending(batch)'
    BY <1>1, <1>5, <1>6 DEF WriteInv, InOrder, Ascending
  <2>2. \A j \in Todo' : j <= built' /\ j \notin reported' /\ layers'[j] = 0
    BY <1>0, <1>1, <1>2, <1>4, <1>5, <1>6, <1>7
  <2>. QED
    BY <1>0, <1>1, <1>4, <2>1, <2>2 DEF InOrder
<1>10. Sending' /\ Begun'
  BY <1>1, <1>4, <1>5, <1>6, <1>7 DEF Sending, Begun
<1>11. Stages'
  BY <1>0, <1>1, <1>2, <1>3, <1>5, <1>6 DEF WriteInv, Stages
<1>12. Adding'
  <2>1. Built' = 1..g
    <3>1. CASE call = "write"
      BY <1>1, <1>5, <1>6, <3>1 DEF Built
    <3>2. CASE call # "write"
      BY <1>1, <1>5, <3>2 DEF Built
    <3>. QED
      BY <3>1, <3>2
  <2>2. Cardinality(1..g) = g
    BY <1>6, FS_Interval
  <2>3. ~Busy' /\ UnderWork' = {} /\ pc' # "error"
    BY <1>6 DEF Busy, UnderWork
  <2>4. processed' = 0 /\ (applied' \cup reported') \ {} = {} /\ applied' \cup reported' = {}
    BY <1>0, <1>1, <1>4
  <2>5. shown' = shown /\ applied \cup reported = {}
    BY <1>0, <1>1, <1>4
  <2>6. shown' <= Cardinality(applied' \cup reported')
    BY <2>4, <2>5 DEF WriteInv, Adding
  <2>7. processed' + Len(todo') + 0 = Cardinality(Built')
    BY <1>5, <1>6, <2>1, <2>2, <2>4
  <2>8. processed' <= Cardinality((applied' \cup reported') \ UnderWork')
    BY <2>3, <2>4, FS_EmptySet
  <2>. QED
    BY <2>3, <2>6, <2>7, <2>8 DEF Adding
<1>13. \A i \in 1..Len(input') : ~Latest(i)'
  BY <1>0, <1>1 DEF Latest
<1>. QED
  BY <1>8, <1>9, <1>10, <1>11, <1>12, <1>13 DEF WriteInv

\* One more request is looked at: it is built, or reported.
LEMMA WriteBuilds ==
    ASSUME WriteInv, W!BuildRequest \/ W!BuildSkips
    PROVE  WriteInv'
<1>0. /\ pc = "build" /\ built < Len(input) /\ batch = <<>> /\ applied = {} /\ processed = 0
      /\ call = "write" /\ \A i \in 1..Len(input) : layers[i] = 0
  BY DEF W!BuildRequest, W!BuildSkips, WriteInv, Stages
<1>1. /\ UNCHANGED <<call, input, size, pc, batch, remaining, attempts>>
      /\ UNCHANGED <<layers, store, processed, shown, applied>>
      /\ built' = built + 1
  BY DEF W!BuildRequest, W!BuildSkips, W!args, W!current, W!effects, W!report
<1>2. PICK n \in Nat : n = Len(input) /\ DOMAIN input = 1..n
  BY LenProperties DEF WriteInv, WriteTypes
<1>3. PICK x : x = built + 1
  OBVIOUS
<1>4. /\ built \in Nat /\ x \in 1..n /\ x \in Nat /\ x \notin 1..built /\ 1..x = 1..built \cup {x}
      /\ x \in 0..n
  BY <1>0, <1>2, <1>3 DEF WriteInv, WriteTypes
<1>5. InBatch = {} /\ InBatch' = {}
  <2>1. batch \in Seq(1..n)
    BY <1>2 DEF WriteInv, WriteTypes
  <2>. QED
    BY <1>0, <1>1, <2>1, SeqElements DEF InBatch
<1>6. todo \in Seq(1..n) /\ Ascending(todo) /\ \A i \in Todo : i <= built /\ i \in Nat
  <2>1. todo \in Seq(1..n) /\ Ascending(todo)
    BY <1>2 DEF WriteInv, WriteTypes, InOrder
  <2>2. Todo \subseteq 1..n
    BY <2>1, SeqElements DEF Todo
  <2>. QED
    BY <2>1, <2>2 DEF WriteInv, InOrder
<1>7. IsFiniteSet(applied \cup reported) /\ IsFiniteSet(Built) /\ Cardinality(Built) \in Nat
      /\ Len(todo) \in Nat
  BY WriteSizes DEF WriteInv, InOrder
<1>8. ~Busy /\ ~Busy' /\ UnderWork' = {} /\ pc' = "build"
  BY <1>0, <1>1 DEF Busy, UnderWork
<1>9. Len(todo) = Cardinality(Built)
  <2>1. 0 + Len(todo) + 0 = Cardinality(Built)
    BY <1>0, <1>8 DEF WriteInv, Adding
  <2>. QED
    BY <1>7, <2>1
<1>10. PICK f, r : f = todo' /\ r = reported'
  OBVIOUS
<1>11. /\ f \in Seq(1..n) /\ Ascending(f) /\ r \in SUBSET (1..x) /\ reported \subseteq r
       /\ \A j \in W!Elements(f) : j <= x /\ j \notin r
       /\ \A i \in 1..x : i \notin W!Elements(f) => i \in r
       /\ Len(f) = Cardinality(Built')
  <2>1. reported \in SUBSET (1..built) /\ \A j \in Todo : j \notin reported
    BY DEF WriteInv, WriteTypes, InOrder
  <2>2. \A i \in 1..built : i \notin Todo => i \in reported
    BY <1>0, <1>5 DEF WriteInv, Begun
  <2>3. CASE W!BuildRequest
    <3>1. f = Append(todo, x) /\ r = reported /\ input[x].ok
      BY <1>3, <1>10, <2>3 DEF W!BuildRequest, W!Convertible
    <3>2. \A i \in Todo : i < x
      BY <1>3, <1>4, <1>6
    <3>3. f \in Seq(1..n) /\ Ascending(f) /\ Len(f) = Len(todo) + 1 /\ W!Elements(f) = Todo \cup {x}
      <4>1. \A i \in W!Elements(todo) : i < x
        BY <3>2 DEF Todo
      <4>0. n \in Nat /\ todo \in Seq(1..n) /\ Ascending(todo) /\ x \in 1..n /\ f = Append(todo, x)
        BY <1>4, <1>6, <3>1
      <4>2. /\ f \in Seq(1..n) /\ Ascending(f) /\ Len(f) = Len(todo) + 1
            /\ W!Elements(f) = W!Elements(todo) \cup {x}
        BY <4>0, <4>1, AppendLast
      <4>. QED
        BY <4>2 DEF Todo
    <3>4. Built' = Built \cup {x} /\ x \notin Built
      BY <1>0, <1>1, <1>3, <1>4, <3>1 DEF Built
    <3>5. Cardinality(Built') = Cardinality(Built) + 1
      BY <1>7, <3>4, FS_AddElement
    <3>6. \A j \in Todo \cup {x} : j <= x /\ j \notin reported
      BY <1>3, <1>4, <1>6, <2>1
    <3>7. \A i \in 1..x : i \notin Todo \cup {x} => i \in reported
      BY <1>4, <2>2
    <3>. QED
      BY <1>4, <1>9, <2>1, <3>1, <3>3, <3>5, <3>6, <3>7
  <2>4. CASE W!BuildSkips
    <3>1. f = todo /\ r = reported \cup {x} /\ ~input[x].ok
      BY <1>3, <1>10, <2>4 DEF W!BuildSkips, W!Convertible
    <3>2. Built' = Built
      BY <1>0, <1>1, <1>3, <1>4, <3>1 DEF Built
    <3>3. \A j \in Todo : j <= x /\ j # x
      BY <1>3, <1>4, <1>6
    <3>4. \A i \in 1..x : i \notin Todo => i \in reported \cup {x}
      BY <1>4, <2>2
    <3>. QED
      BY <1>4, <1>6, <1>9, <2>1, <3>1, <3>2, <3>3, <3>4 DEF Todo
  <2>. QED
    BY <2>3, <2>4
<1>12. Todo' = W!Elements(f)
  BY <1>10 DEF Todo
<1>13. WriteTypes'
  <2>1. applied' \in SUBSET (1..x)
    BY <1>0, <1>1
  <2>2. remaining' \in SUBSET InBatch'
    BY <1>1, <1>5 DEF WriteInv, WriteTypes
  <2>. QED
    BY <1>1, <1>2, <1>3, <1>4, <1>10, <1>11, <2>1, <2>2 DEF WriteInv, WriteTypes
<1>14. InOrder'
  <2>1. Ascending(todo)' /\ Ascending(batch)'
    BY <1>1, <1>10, <1>11 DEF WriteInv, InOrder, Ascending
  <2>2. W!Elements(f) \subseteq 1..n
    BY <1>11, SeqElements
  <2>3. \A j \in Todo' : j <= built' /\ j \notin reported' /\ layers'[j] = 0
    BY <1>0, <1>1, <1>2, <1>3, <1>10, <1>11, <1>12, <2>2
  <2>. QED
    BY <1>0, <1>1, <1>5, <2>1, <2>3 DEF InOrder
<1>15. Sending' /\ Begun'
  BY <1>1, <1>3, <1>5, <1>8, <1>10, <1>11, <1>12 DEF Sending, Begun
<1>16. Stages'
  BY <1>0, <1>1, <1>8 DEF WriteInv, Stages
<1>17. Adding'
  <2>1. applied' \cup reported' = r /\ applied \cup reported \subseteq r
    BY <1>0, <1>1, <1>10, <1>11
  <2>2. IsFiniteSet(r)
    <3>1. IsFiniteSet(1..x)
      BY <1>4, FS_Interval
    <3>. QED
      BY <1>11, <3>1, FS_Subset
  <2>3. Cardinality(applied \cup reported) <= Cardinality(r) /\ Cardinality(r) \in Nat
        /\ Cardinality(applied \cup reported) \in Nat
    BY <2>1, <2>2, Grows
  <2>4. shown' <= Cardinality(applied' \cup reported')
    <3>1. shown <= Cardinality(applied \cup reported) /\ shown \in Nat /\ shown' = shown
      BY <1>1 DEF WriteInv, Adding, WriteTypes
    <3>2. shown <= Cardinality(r)
      BY <2>3, <3>1
    <3>. QED
      BY <2>1, <3>1, <3>2
  <2>5. processed' = 0 /\ processed' <= Cardinality((applied' \cup reported') \ UnderWork')
    <3>1. r \ {} = r
      OBVIOUS
    <3>. QED
      BY <1>0, <1>1, <1>8, <2>1, <2>3, <3>1
  <2>6. processed' + Len(todo') + 0 = Cardinality(Built')
    <3>1. Len(f) \in Nat
      BY <1>11, LenProperties
    <3>. QED
      BY <1>10, <1>11, <2>5, <3>1
  <2>. QED
    BY <1>8, <2>4, <2>5, <2>6 DEF Adding
<1>18. \A i \in 1..Len(input') : ~Latest(i)'
  BY <1>0, <1>1 DEF Latest
<1>. QED
  BY <1>13, <1>14, <1>15, <1>16, <1>17, <1>18 DEF WriteInv

\* The next batch is all new.
LEMMA WriteNextBatch ==
    ASSUME WriteInv, W!NextBatch
    PROVE  WriteInv'
<1>0. pc = "next" /\ todo # <<>> /\ built = Len(input) /\ size \in 1..MaxBatch
  BY DEF W!NextBatch, WriteInv, Stages
<1>1. /\ UNCHANGED <<call, input, size, built>>
      /\ UNCHANGED <<layers, store, processed, shown, applied, reported>>
      /\ attempts' = 0 /\ pc' \in {"send", "failed"}
  BY DEF W!NextBatch, W!args, W!effects, W!report
<1>2. PICK n \in Nat : n = Len(input) /\ DOMAIN input = 1..n
  BY LenProperties DEF WriteInv, WriteTypes
<1>3. todo \in Seq(1..n) /\ Ascending(todo) /\ batch \in Seq(1..n) /\ Ascending(batch)
  BY <1>2 DEF WriteInv, WriteTypes, InOrder
<1>4. Len(todo) \in Nat /\ Len(todo) # 0
  BY <1>0, <1>3, SeqElements
<1>5. PICK m, a, b : /\ m = W!Least(size, Len(todo))
                     /\ a = Front(todo, m) /\ b = Back(todo, m)
  OBVIOUS
<1>6. m \in 1..Len(todo) /\ m \in Nat /\ m <= MaxBatch
  BY <1>0, <1>4, <1>5, BatchesAssumption DEF W!Least
<1>7. batch' = a /\ todo' = b /\ remaining' = W!Elements(a)
  BY <1>5 DEF W!NextBatch, Front, Back
<1>8. /\ a \in Seq(1..n) /\ Len(a) = m /\ Ascending(a)
      /\ b \in Seq(1..n) /\ Len(b) = Len(todo) - m /\ Ascending(b)
      /\ W!Elements(todo) = W!Elements(a) \cup W!Elements(b)
      /\ \A i \in W!Elements(a), j \in W!Elements(b) : i < j
  BY <1>3, <1>5, <1>6, CutFront
<1>9. InBatch' = W!Elements(a) /\ Todo' = W!Elements(b) /\ Todo = InBatch' \cup Todo'
      /\ remaining' = InBatch' /\ InBatch' \subseteq 1..n /\ Todo' \subseteq 1..n
  <2>1. W!Elements(a) \subseteq 1..n /\ W!Elements(b) \subseteq 1..n
    BY <1>8, SeqElements
  <2>. QED
    BY <1>7, <1>8, <2>1 DEF InBatch, Todo
<1>10. \A i \in applied \cup reported : i \notin Todo
  <2>1. Todo \subseteq Nat
    BY <1>2, <1>9
  <2>2. \A i \in Todo : ~(i < i)
    BY <2>1
  <2>. QED
    BY <2>2 DEF WriteInv, InOrder
<1>11. WriteTypes'
  <2>1. pc' \in WritePlaces /\ attempts' \in 0..MaxAttempts
    BY <1>1, BatchesAssumption DEF WritePlaces
  <2>. QED
    BY <1>1, <1>2, <1>7, <1>8, <1>9, <2>1 DEF WriteInv, WriteTypes
<1>12. InOrder'
  <2>1. Ascending(todo)' /\ Ascending(batch)'
    BY <1>7, <1>8 DEF Ascending
  <2>2. \A j \in Todo' : j <= built' /\ j \notin reported' /\ layers'[j] = 0
    BY <1>1, <1>9 DEF WriteInv, InOrder
  <2>3. \A i \in InBatch' \cup applied', j \in Todo' : i < j
    BY <1>1, <1>8, <1>9 DEF WriteInv, InOrder
  <2>4. \A i \in applied' \ InBatch', j \in InBatch' : i < j
    BY <1>1, <1>9 DEF WriteInv, InOrder
  <2>. QED
    BY <2>1, <2>2, <2>3, <2>4 DEF InOrder
<1>13. Sending'
  <2>1. \A i \in remaining' : layers'[i] <= attempts'
    <3>1. \A i \in remaining' : layers'[i] = 0
      BY <1>1, <1>9 DEF WriteInv, InOrder
    <3>. QED
      BY <1>1, <3>1
  <2>2. attempts' < MaxAttempts
    BY <1>1, BatchesAssumption
  <2>3. applied' \cap InBatch' = {}
    BY <1>1, <1>9, <1>10
  <2>. QED
    BY <1>9, <2>1, <2>2, <2>3 DEF Sending
<1>14. Stages'
  BY <1>0, <1>1, <1>6, <1>7, <1>8 DEF WriteInv, Stages
<1>15. Begun'
  BY <1>0, <1>1, <1>9 DEF WriteInv, Begun
<1>16. Adding'
  <2>1. Built' = Built /\ Busy' /\ UnderWork' = InBatch' /\ ~Busy /\ UnderWork = {} /\ pc' # "error"
    BY <1>0, <1>1 DEF Built, Busy, UnderWork
  <2>2. processed + Len(todo) + 0 = Cardinality(Built) /\ processed \in Nat
    BY <1>0, <2>1 DEF WriteInv, Adding, WriteTypes
  <2>3. processed' + Len(todo') + Len(batch') = Cardinality(Built')
    <3>1. Len(b) = Len(todo) - m /\ Len(a) = m
      BY <1>8
    <3>2. processed + (Len(todo) - m) + m = Cardinality(Built)
      BY <1>4, <1>6, <2>2
    <3>. QED
      BY <1>1, <1>7, <2>1, <3>1, <3>2
  <2>4. (applied' \cup reported') \ UnderWork' = (applied \cup reported) \ UnderWork
    BY <1>1, <1>9, <1>10, <2>1
  <2>5. processed' <= Cardinality((applied' \cup reported') \ UnderWork')
    BY <1>1, <2>4 DEF WriteInv, Adding
  <2>6. shown' <= Cardinality(applied' \cup reported')
    BY <1>1 DEF WriteInv, Adding
  <2>. QED
    BY <2>1, <2>3, <2>5, <2>6 DEF Adding
<1>17. \A i \in 1..Len(input') : Latest(i)' => Shows(i)'
  BY <1>1 DEF WriteInv, Latest, Shows
<1>. QED
  BY <1>11, <1>12, <1>13, <1>14, <1>15, <1>16, <1>17 DEF WriteInv

\* What a batch under way adds, once all of it is written or reported.
LEMMA BatchAdds ==
    ASSUME WriteInv, Busy
    PROVE  /\ IsFiniteSet(applied \cup reported \cup InBatch)
           /\ processed + Len(batch) <= Cardinality(applied \cup reported \cup InBatch)
           /\ shown <= Cardinality(applied \cup reported \cup InBatch)
<1>1. /\ Len(batch) \in Nat /\ IsFiniteSet(InBatch) /\ Cardinality(InBatch) = Len(batch)
      /\ IsFiniteSet(applied \cup reported) /\ processed \in Nat /\ shown \in Nat
  BY WriteSizes DEF WriteInv, InOrder, WriteTypes
<1>2. PICK X, Y : X = (applied \cup reported) \ InBatch /\ Y = applied \cup reported \cup InBatch
  OBVIOUS
<1>3. IsFiniteSet(X) /\ Cardinality(X) \in Nat
  BY <1>1, <1>2, Grows
<1>4. Y = X \cup InBatch /\ X \cap InBatch = {}
  BY <1>2
<1>5. Cardinality(Y) = Cardinality(X) + Len(batch)
  <2>1. Cardinality(X \cap InBatch) = 0
    BY <1>4, FS_EmptySet
  <2>2. Cardinality(X \cup InBatch) = Cardinality(X) + Cardinality(InBatch) - 0
    BY <1>1, <1>3, <2>1, FS_Union
  <2>. QED
    BY <1>1, <1>3, <1>4, <2>2
<1>6. processed <= Cardinality(X)
  BY <1>2 DEF WriteInv, Adding, UnderWork
<1>7. processed + Len(batch) <= Cardinality(Y)
  BY <1>1, <1>3, <1>5, <1>6
<1>8. IsFiniteSet(Y)
  BY <1>1, <1>3, <1>4, FS_Union
<1>9. shown <= Cardinality(Y)
  <2>1. applied \cup reported \subseteq Y
    BY <1>2
  <2>2. Cardinality(applied \cup reported) <= Cardinality(Y) /\ Cardinality(Y) \in Nat
        /\ Cardinality(applied \cup reported) \in Nat
    BY <1>8, <2>1, Grows
  <2>3. shown <= Cardinality(applied \cup reported)
    BY DEF WriteInv, Adding
  <2>. QED
    BY <1>1, <2>2, <2>3
<1>. QED
  BY <1>2, <1>7, <1>8, <1>9

\* The handler takes the error of a batch.
LEMMA WriteTaken ==
    ASSUME WriteInv, W!HandlerTakes
    PROVE  WriteInv'
<1>0. pc = "failed" /\ built = Len(input)
  BY DEF W!HandlerTakes, WriteInv, Stages
<1>1. /\ UNCHANGED <<call, input, size, built, todo, batch, remaining, attempts>>
      /\ UNCHANGED <<layers, store, applied>> /\ pc' = "next"
      /\ reported' = reported \cup InBatch /\ processed' = processed + Len(batch)
      /\ shown' \in {processed + Len(batch), shown}
  BY DEF W!HandlerTakes, W!args, W!current, W!effects, W!BatchDone, InBatch
<1>2. Todo' = Todo /\ InBatch' = InBatch
  BY <1>1 DEF Todo, InBatch
<1>3. /\ Len(input) \in Nat /\ InBatch \subseteq 1..Len(input) /\ Len(batch) \in Nat /\ Len(todo) \in Nat
      /\ IsFiniteSet(InBatch) /\ Cardinality(InBatch) = Len(batch)
      /\ IsFiniteSet(applied \cup reported) /\ Cardinality(Built) \in Nat
      /\ processed \in Nat /\ shown \in Nat
  BY WriteSizes DEF WriteInv, InOrder, WriteTypes
<1>4. WriteTypes'
  <2>1. pc' \in WritePlaces /\ processed' \in Nat /\ shown' \in Nat
    BY <1>1, <1>3 DEF WritePlaces
  <2>2. reported' \in SUBSET (1..built)
    BY <1>0, <1>1, <1>3 DEF WriteInv, WriteTypes
  <2>. QED
    BY <1>1, <1>2, <2>1, <2>2 DEF WriteInv, WriteTypes
<1>5. InOrder'
  <2>1. Todo \subseteq Nat
    BY <1>3, WriteSizes DEF WriteInv, InOrder
  <2>2. \A j \in Todo : j \notin InBatch
    <3>1. \A j \in Todo : ~(j < j)
      BY <2>1
    <3>. QED
      BY <3>1 DEF WriteInv, InOrder
  <2>. QED
    BY <1>1, <1>2, <2>2 DEF WriteInv, InOrder
<1>6. Sending' /\ Begun'
  BY <1>1, <1>2 DEF WriteInv, Begun, Sending
<1>7. Stages'
  BY <1>0, <1>1 DEF WriteInv, Stages
<1>8. Adding'
  <2>1. Built' = Built /\ ~Busy' /\ UnderWork' = {} /\ Busy /\ UnderWork = InBatch /\ pc' # "error"
    BY <1>0, <1>1 DEF Built, Busy, UnderWork
  <2>2. PICK Y : Y = applied \cup reported \cup InBatch
    OBVIOUS
  <2>7. processed + Len(batch) <= Cardinality(Y) /\ shown <= Cardinality(Y)
    BY <2>1, <2>2, BatchAdds
  <2>10. applied' \cup reported' = Y /\ (applied' \cup reported') \ UnderWork' = Y
    BY <1>1, <2>1, <2>2
  <2>11. processed' + Len(todo') + 0 = Cardinality(Built')
    <3>1. processed + Len(todo) + Len(batch) = Cardinality(Built)
      BY <1>0, <2>1 DEF WriteInv, Adding
    <3>2. (processed + Len(batch)) + Len(todo) + 0 = Cardinality(Built)
      BY <1>3, <3>1
    <3>. QED
      BY <1>1, <2>1, <3>2
  <2>12. shown' <= Cardinality(Y) /\ processed' <= Cardinality(Y)
    BY <1>1, <2>7
  <2>. QED
    BY <2>1, <2>10, <2>11, <2>12 DEF Adding
<1>9. \A i \in 1..Len(input') : Latest(i)' => Shows(i)'
  BY <1>1 DEF WriteInv, Latest, Shows
<1>. QED
  BY <1>4, <1>5, <1>6, <1>7, <1>8, <1>9 DEF WriteInv

\* DynamoDB processes some of the requests sent: on each key the store shows the
\* last one that took effect, because those sent earlier came before it, or are on
\* other keys.
LEMMA WriteProcesses ==
    ASSUME WriteInv, pc = "send", NEW ids \in SUBSET remaining, ids # {} => W!Acceptable,
           W!Processes(ids), layers' = W!encryptItems,
           UNCHANGED <<input, built, todo, batch, reported>>
    PROVE  /\ applied' = applied \cup ids /\ applied' \in SUBSET (1..built)
           /\ \A k \in Keys : store'[k].id \in 1..Len(input) \cup {0, -1}
           /\ \A i \in 1..Len(input) : Latest(i)' => Shows(i)'
           /\ layers' \in [1..Len(input) -> 0..MaxAttempts]
           /\ \A i \in remaining : layers'[i] <= attempts + 1
           /\ InOrder'
<1>1. PICK n \in Nat : n = Len(input) /\ DOMAIN input = 1..n
  BY LenProperties DEF WriteInv, WriteTypes
<1>2. /\ InBatch \subseteq 1..n /\ Todo \subseteq 1..n /\ remaining \subseteq InBatch /\ built = n
      /\ ids \subseteq 1..n /\ applied \subseteq 1..n
  BY <1>1, WriteSizes DEF WriteInv, WriteTypes, InOrder, Stages
<1>3. Todo' = Todo /\ InBatch' = InBatch
  BY DEF Todo, InBatch
<1>4. applied' = applied \cup ids /\ applied' \in SUBSET (1..built)
  BY <1>2 DEF W!Processes
<1>5. \A i \in 1..n : input[i].key \in Keys
  <2>1. \A i \in 1..n : input[i] \in [op : {"put", "delete"}, key : Keys, ok : BOOLEAN]
    BY <1>1, ElementOfSeq DEF WriteInv, WriteTypes
  <2>. QED
    BY <2>1
<1>6. ASSUME NEW k \in Keys
      PROVE  \/ (\A i \in ids : input[i].key # k) /\ store'[k] = store[k]
             \/ \E x \in ids : input[x].key = k
                               /\ store'[k].id = IF input[x].op = "delete" THEN -1 ELSE x
  <2>1. CASE \A i \in ids : input[i].key # k
    BY <2>1 DEF W!Processes
  <2>2. CASE \E i \in ids : input[i].key = k
    <3>1. PICK x : x = CHOOSE i \in ids : input[i].key = k
      OBVIOUS
    <3>2. x \in ids /\ input[x].key = k
      BY <2>2, <3>1
    <3>3. store'[k] = IF input[x].op = "delete" THEN W!Absent ELSE [id |-> x, layers |-> W!encryptItems[x]]
      BY <2>2, <3>1 DEF W!Processes
    <3>4. store'[k].id = IF input[x].op = "delete" THEN -1 ELSE x
      BY <3>3 DEF W!Absent
    <3>. QED
      BY <3>2, <3>4
  <2>. QED
    BY <2>1, <2>2
<1>7. \A k \in Keys : store'[k].id \in 1..n \cup {0, -1}
  <2>1. \A k \in Keys : store[k].id \in 1..n \cup {0, -1}
    BY <1>1 DEF WriteInv, WriteTypes
  <2>. QED
    BY <1>2, <1>6, <2>1
<1>8. ASSUME NEW i \in 1..n, Latest(i)' PROVE Shows(i)'
  <2>1. i \in applied \cup ids /\ \A j \in applied \cup ids : j > i => input[j].key # input[i].key
    BY <1>4, <1>8 DEF Latest
  <2>2. PICK k : k = input[i].key
    OBVIOUS
  <2>3. k \in Keys
    BY <1>5, <2>2
  <2>4. CASE (\A x \in ids : input[x].key # k) /\ store'[k] = store[k]
    <3>1. Latest(i)
      BY <2>1, <2>2, <2>4 DEF Latest
    <3>. QED
      BY <1>1, <2>2, <2>4, <3>1 DEF WriteInv, Shows
  <2>5. CASE \E x \in ids : input[x].key = k
                           /\ store'[k].id = IF input[x].op = "delete" THEN -1 ELSE x
    <3>1. PICK x \in ids : input[x].key = k
                           /\ store'[k].id = IF input[x].op = "delete" THEN -1 ELSE x
      BY <2>5
    <3>2. x \in remaining /\ x \in InBatch /\ x \in 1..n /\ W!Acceptable
      BY <1>2
    <3>3. i = x
      <4>1. CASE i \in ids
        BY <2>2, <3>1, <3>2, <4>1 DEF W!Acceptable
      <4>2. CASE i \in applied /\ i \in InBatch
        BY <2>2, <3>1, <3>2, <4>2 DEF WriteInv, Sending
      <4>3. CASE i \in applied /\ i \notin InBatch
        <5>1. i < x
          BY <3>2, <4>3 DEF WriteInv, InOrder
        <5>2. x > i
          BY <3>2, <5>1
        <5>. QED
          BY <2>1, <2>2, <3>1, <5>2
      <4>. QED
        BY <2>1, <4>1, <4>2, <4>3
    <3>4. input[i].op \in {"put", "delete"}
      <4>1. input[i] \in [op : {"put", "delete"}, key : Keys, ok : BOOLEAN]
        BY <1>1, ElementOfSeq DEF WriteInv, WriteTypes
      <4>. QED
        BY <4>1
    <3>5. store'[input[i].key].id = IF input[i].op = "put" THEN i ELSE -1
      BY <2>2, <3>1, <3>3, <3>4
    <3>. QED
      BY <3>5 DEF Shows
  <2>. QED
    BY <1>6, <2>3, <2>4, <2>5
<1>9. /\ layers' \in [1..n -> 0..MaxAttempts] /\ \A i \in remaining : layers'[i] <= attempts + 1
      /\ \A i \in 1..n : i \notin remaining => layers'[i] = layers[i]
  <2>1. /\ layers \in [1..n -> 0..MaxAttempts] /\ attempts \in Nat /\ attempts < MaxAttempts
        /\ MaxAttempts \in Nat /\ \A i \in remaining : layers[i] <= attempts
    BY <1>1, BatchesAssumption DEF WriteInv, WriteTypes, Sending
  <2>2. layers' = [i \in 1..n |-> IF encrypted /\ i \in remaining /\ input[i].op = "put"
                                 THEN layers[i] + 1 ELSE layers[i]]
    BY <1>1 DEF W!encryptItems
  <2>3. ASSUME NEW i \in 1..n
        PROVE  /\ layers'[i] \in 0..MaxAttempts
               /\ i \in remaining => layers'[i] <= attempts + 1
               /\ i \notin remaining => layers'[i] = layers[i]
    <3>1. layers[i] \in 0..MaxAttempts
      BY <2>1
    <3>2. CASE encrypted /\ i \in remaining /\ input[i].op = "put"
      <4>1. layers'[i] = layers[i] + 1 /\ layers[i] <= attempts
        BY <2>1, <2>2, <3>2
      <4>. QED
        BY <2>1, <3>1, <3>2, <4>1
    <3>3. CASE ~(encrypted /\ i \in remaining /\ input[i].op = "put")
      <4>1. layers'[i] = layers[i]
        BY <2>2, <3>3
      <4>2. i \in remaining => layers[i] <= attempts
        BY <2>1
      <4>. QED
        BY <2>1, <3>1, <4>1, <4>2
    <3>. QED
      BY <3>2, <3>3
  <2>4. DOMAIN layers' = 1..n /\ layers' = [i \in 1..n |-> layers'[i]]
    BY <2>2
  <2>. QED
    BY <1>2, <2>3, <2>4
<1>10. InOrder'
  <2>1. Ascending(todo)' /\ Ascending(batch)'
    BY DEF WriteInv, InOrder, Ascending
  <2>2. \A j \in Todo : j \notin InBatch
    <3>1. \A j \in Todo : ~(j < j)
      BY <1>2
    <3>. QED
      BY <3>1 DEF WriteInv, InOrder
  <2>3. \A j \in Todo : j <= built /\ j \notin reported /\ layers'[j] = 0
    BY <1>2, <1>9, <2>2 DEF WriteInv, InOrder
  <2>4. \A i \in InBatch \cup applied \cup ids, j \in Todo : i < j
    BY <1>2 DEF WriteInv, InOrder
  <2>5. \A i \in (applied \cup ids) \ InBatch, j \in InBatch : i < j
    BY <1>2 DEF WriteInv, InOrder
  <2>. QED
    BY <1>3, <1>4, <2>1, <2>3, <2>4, <2>5 DEF InOrder
<1>. QED
  BY <1>1, <1>4, <1>7, <1>8, <1>9, <1>10

\* One round of executeBatchWriteWithRetries.
LEMMA WriteSends ==
    ASSUME WriteInv, W!BatchWriteItem
    PROVE  WriteInv'
<1>0. pc = "send" /\ W!Acceptable
  BY DEF W!BatchWriteItem
<1>1. /\ UNCHANGED <<call, input, size, built, todo, batch, reported>>
      /\ attempts' = attempts + 1 /\ layers' = W!encryptItems
  BY DEF W!BatchWriteItem, W!args
<1>2. PICK left \in SUBSET remaining :
        /\ W!Processes(remaining \ left) /\ remaining' = left
        /\ IF left = {} THEN pc' = "next" /\ W!BatchDone
           ELSE /\ pc' = IF W!exhausted(attempts') THEN W!outOfAttempts ELSE "backoff"
                /\ shown' = IF W!HasCallback THEN Len(batch) - W!Cardinality(left) ELSE shown
                /\ UNCHANGED processed
  BY DEF W!BatchWriteItem
<1>3. /\ applied' = applied \cup (remaining \ left) /\ applied' \in SUBSET (1..built)
      /\ \A k \in Keys : store'[k].id \in 1..Len(input) \cup {0, -1}
      /\ \A i \in 1..Len(input) : Latest(i)' => Shows(i)'
      /\ layers' \in [1..Len(input) -> 0..MaxAttempts]
      /\ \A i \in remaining : layers'[i] <= attempts + 1
      /\ InOrder'
  <2>1. remaining \ left \in SUBSET remaining
    OBVIOUS
  <2>. QED
    BY <1>0, <1>1, <1>2, <2>1, WriteProcesses
<1>4. Todo' = Todo /\ InBatch' = InBatch
  BY <1>1 DEF Todo, InBatch
<1>5. /\ Len(batch) \in Nat /\ Len(todo) \in Nat /\ IsFiniteSet(InBatch) /\ Cardinality(InBatch) = Len(batch)
      /\ IsFiniteSet(applied \cup reported) /\ Cardinality(Built) \in Nat
      /\ processed \in Nat /\ shown \in Nat /\ left \subseteq InBatch /\ remaining \subseteq InBatch
  BY WriteSizes DEF WriteInv, InOrder, WriteTypes
<1>6. attempts \in Nat /\ attempts < MaxAttempts /\ MaxAttempts \in Nat /\ InBatch \ remaining \subseteq applied
      /\ \A i \in applied \cap InBatch, j \in remaining : input[i].key # input[j].key
      /\ built = Len(input)
  BY <1>0, BatchesAssumption DEF WriteInv, WriteTypes, Sending, Stages
<1>7. InBatch \ left \subseteq applied'
  BY <1>3, <1>6
<1>8. Built' = Built /\ Busy /\ UnderWork = InBatch
  BY <1>0, <1>1 DEF Built, Busy, UnderWork
<1>9. processed + Len(todo) + Len(batch) = Cardinality(Built)
  BY <1>0, <1>8 DEF WriteInv, Adding
<1>10. PICK Y : Y = applied \cup reported \cup InBatch
  OBVIOUS
<1>11. IsFiniteSet(Y) /\ processed + Len(batch) <= Cardinality(Y)
  BY <1>8, <1>10, BatchAdds
<1>12. PICK Z : Z = applied' \cup reported'
  OBVIOUS
<1>13. Z \subseteq Y /\ InBatch \ left \subseteq Z /\ applied \cup reported \subseteq Z
  BY <1>1, <1>3, <1>5, <1>7, <1>10, <1>12
<1>14. IsFiniteSet(Z) /\ Cardinality(Z) \in Nat
  BY <1>11, <1>13, Grows
<1>15. shown <= Cardinality(Z)
  <2>1. Cardinality(applied \cup reported) <= Cardinality(Z) /\ Cardinality(applied \cup reported) \in Nat
    BY <1>13, <1>14, Grows
  <2>2. shown <= Cardinality(applied \cup reported)
    BY DEF WriteInv, Adding
  <2>. QED
    BY <1>5, <1>14, <2>1, <2>2
<1>16. ASSUME pc' \in WritePlaces, processed' \in Nat, shown' \in Nat
       PROVE  WriteTypes'
  <2>1. remaining' \in SUBSET InBatch' /\ attempts' \in 0..MaxAttempts
    BY <1>1, <1>2, <1>4, <1>5, <1>6
  <2>. QED
    BY <1>1, <1>3, <1>16, <2>1 DEF WriteInv, WriteTypes
<1>17. CASE left = {}
  <2>1. pc' = "next" /\ processed' = processed + Len(batch) /\ shown' \in {processed + Len(batch), shown}
    BY <1>2, <1>17 DEF W!BatchDone
  <2>2. WriteTypes'
    BY <1>5, <1>16, <2>1 DEF WritePlaces
  <2>3. Sending' /\ Begun'
    BY <1>1, <1>3, <1>4, <1>7, <1>17, <2>1 DEF WriteInv, Begun, Sending
  <2>4. Stages'
    BY <1>1, <1>6, <2>1, <1>0 DEF WriteInv, Stages
  <2>5. Z = Y
    BY <1>1, <1>3, <1>7, <1>10, <1>12, <1>13, <1>17
  <2>6. Adding'
    <3>1. ~Busy' /\ UnderWork' = {} /\ pc' # "error" /\ Z \ {} = Z
      BY <2>1 DEF Busy, UnderWork
    <3>2. processed' + Len(todo') + 0 = Cardinality(Built')
      <4>1. (processed + Len(batch)) + Len(todo) + 0 = Cardinality(Built)
        BY <1>5, <1>9
      <4>. QED
        BY <1>1, <1>8, <2>1, <4>1
    <3>3. processed' <= Cardinality(Z) /\ shown' <= Cardinality(Z)
      BY <1>11, <1>15, <2>1, <2>5
    <3>. QED
      BY <1>12, <3>1, <3>2, <3>3 DEF Adding
  <2>. QED
    BY <1>1, <1>3, <2>2, <2>3, <2>4, <2>6 DEF WriteInv
<1>18. CASE left # {}
  <2>1. /\ pc' \in {"failed", "backoff"} /\ (pc' = "backoff" => attempts' < MaxAttempts)
        /\ processed' = processed /\ shown' \in {Len(batch) - Cardinality(left), shown}
    <3>1. pc' = IF W!exhausted(attempts') THEN W!outOfAttempts ELSE "backoff"
      BY <1>2, <1>18
    <3>2. pc' \in {"failed", "backoff"} /\ (pc' = "backoff" => attempts' < MaxAttempts)
      BY <1>1, <1>6, <3>1 DEF W!exhausted, W!outOfAttempts
    <3>3. processed' = processed /\ shown' \in {Len(batch) - Cardinality(left), shown}
      BY <1>2, <1>18, SameCardinality
    <3>. QED
      BY <3>2, <3>3
  <2>2. Len(batch) - Cardinality(left) \in Nat /\ Len(batch) - Cardinality(left) <= Cardinality(Z)
    <3>1. PICK S : S = InBatch \ left
      OBVIOUS
    <3>2. IsFiniteSet(left) /\ Cardinality(left) \in Nat /\ IsFiniteSet(S) /\ Cardinality(S) \in Nat
      BY <1>5, <3>1, Grows
    <3>3. S \cup left = InBatch /\ S \cap left = {}
      BY <1>5, <3>1
    <3>4. Cardinality(S \cap left) = 0
      BY <3>3, FS_EmptySet
    <3>5. Cardinality(S \cup left) = Cardinality(S) + Cardinality(left) - 0
      BY <3>2, <3>4, FS_Union
    <3>6. Cardinality(S) <= Cardinality(Z)
      BY <1>13, <1>14, <3>1, Grows
    <3>7. Len(batch) = Cardinality(S) + Cardinality(left)
      <4>1. Cardinality(InBatch) = Cardinality(S) + Cardinality(left) - 0
        BY <3>3, <3>5
      <4>2. Cardinality(S) + Cardinality(left) - 0 = Cardinality(S) + Cardinality(left)
        BY <3>2
      <4>3. Cardinality(InBatch) = Len(batch)
        BY <1>5
      <4>. QED
        BY <4>1, <4>2, <4>3
    <3>8. Len(batch) - Cardinality(left) = Cardinality(S)
      BY <3>2, <3>7
    <3>. QED
      BY <3>2, <3>6, <3>8
  <2>3. WriteTypes'
    BY <1>5, <1>16, <2>1, <2>2 DEF WritePlaces
  <2>4. Sending'
    <3>1. ASSUME NEW i \in applied' \cap InBatch, NEW j \in left PROVE input[i].key # input[j].key
      <4>1. CASE i \in applied
        BY <1>6, <3>1, <4>1
      <4>2. CASE i \in remaining \ left
        BY <1>0, <3>1, <4>2 DEF W!Acceptable
      <4>. QED
        BY <1>3, <3>1, <4>1, <4>2
    <3>2. \A i \in left : layers'[i] <= attempts'
      BY <1>1, <1>3
    <3>. QED
      BY <1>1, <1>2, <1>4, <1>7, <2>1, <3>1, <3>2 DEF Sending
  <2>5. Stages'
    BY <1>0, <1>1, <1>6, <2>1 DEF WriteInv, Stages
  <2>6. Begun'
    BY <1>1, <1>3, <1>4, <2>1 DEF WriteInv, Begun
  <2>7. Adding'
    <3>1. Busy' /\ UnderWork' = InBatch /\ pc' # "error"
      BY <1>4, <2>1 DEF Busy, UnderWork
    <3>2. Z \ InBatch = (applied \cup reported) \ InBatch
      BY <1>1, <1>3, <1>5, <1>12
    <3>3. processed' <= Cardinality(Z \ InBatch)
      BY <1>8, <2>1, <3>2 DEF WriteInv, Adding
    <3>4. shown' <= Cardinality(Z)
      BY <1>15, <2>1, <2>2
    <3>5. processed' + Len(todo') + Len(batch') = Cardinality(Built')
      BY <1>1, <1>8, <1>9, <2>1
    <3>. QED
      BY <1>12, <3>1, <3>3, <3>4, <3>5 DEF Adding
  <2>. QED
    BY <1>1, <1>3, <2>3, <2>4, <2>5, <2>6, <2>7 DEF WriteInv
<1>. QED
  BY <1>17, <1>18

\* A request that fails, also one whose answer is lost.
LEMMA WriteFails ==
    ASSUME WriteInv, W!BatchWriteFails
    PROVE  WriteInv'
<1>1. /\ pc = "send" /\ pc' = "failed" /\ layers' = W!encryptItems
      /\ UNCHANGED <<call, input, size, built, todo, batch, remaining, attempts, reported>>
      /\ UNCHANGED <<processed, shown>>
  BY DEF W!BatchWriteFails, W!args, W!current, W!report
<1>2. PICK ids \in SUBSET remaining : (ids # {} => W!Acceptable) /\ W!Processes(ids)
  <2>1. CASE W!Acceptable
    BY <2>1 DEF W!BatchWriteFails
  <2>2. CASE ~W!Acceptable
    BY <2>2 DEF W!BatchWriteFails
  <2>. QED
    BY <2>1, <2>2
<1>3. /\ applied' = applied \cup ids /\ applied' \in SUBSET (1..built)
      /\ \A k \in Keys : store'[k].id \in 1..Len(input) \cup {0, -1}
      /\ \A i \in 1..Len(input) : Latest(i)' => Shows(i)'
      /\ layers' \in [1..Len(input) -> 0..MaxAttempts]
      /\ InOrder'
  BY <1>1, <1>2, WriteProcesses
<1>4. Todo' = Todo /\ InBatch' = InBatch
  BY <1>1 DEF Todo, InBatch
<1>5. WriteTypes'
  BY <1>1, <1>3, <1>4 DEF WriteInv, WriteTypes, WritePlaces
<1>6. Sending' /\ Begun'
  BY <1>1, <1>3, <1>4 DEF WriteInv, Begun, Sending
<1>7. Stages'
  BY <1>1 DEF WriteInv, Stages
<1>8. Adding'
  <2>1. Built' = Built /\ Busy /\ Busy' /\ UnderWork = InBatch /\ UnderWork' = InBatch /\ pc' # "error"
    BY <1>1, <1>4 DEF Built, Busy, UnderWork
  <2>2. ids \subseteq InBatch /\ processed \in Nat /\ shown \in Nat
    BY DEF WriteInv, WriteTypes
  <2>3. PICK Y, Z : Y = applied \cup reported \cup InBatch /\ Z = applied' \cup reported'
    OBVIOUS
  <2>4. IsFiniteSet(Y) /\ Z \subseteq Y /\ applied \cup reported \subseteq Z
    BY <1>1, <1>3, <2>1, <2>2, <2>3, BatchAdds
  <2>5. IsFiniteSet(Z) /\ Cardinality(Z) \in Nat
    BY <2>4, Grows
  <2>6. shown <= Cardinality(Z)
    <3>1. Cardinality(applied \cup reported) <= Cardinality(Z) /\ Cardinality(applied \cup reported) \in Nat
      BY <2>4, <2>5, Grows
    <3>2. shown <= Cardinality(applied \cup reported)
      BY DEF WriteInv, Adding
    <3>. QED
      BY <2>2, <2>5, <3>1, <3>2
  <2>7. Z \ InBatch = (applied \cup reported) \ InBatch
    BY <1>1, <1>3, <2>2, <2>3
  <2>8. processed <= Cardinality(Z \ InBatch)
    BY <2>1, <2>7 DEF WriteInv, Adding
  <2>9. processed + Len(todo) + Len(batch) = Cardinality(Built)
    BY <1>1, <2>1 DEF WriteInv, Adding
  <2>. QED
    BY <1>1, <2>1, <2>3, <2>6, <2>8, <2>9 DEF Adding
<1>. QED
  BY <1>1, <1>3, <1>5, <1>6, <1>7, <1>8 DEF WriteInv

\* A step that leaves the write alone.
LEMMA WriteSame == WriteInv /\ UNCHANGED W!vars => WriteInv'
<1>. SUFFICES ASSUME WriteInv, UNCHANGED W!vars PROVE WriteInv'
  OBVIOUS
<1>1. /\ UNCHANGED <<call, input, size, pc, built, todo, batch, remaining, attempts>>
      /\ UNCHANGED <<layers, store, processed, shown, applied, reported>>
  BY DEF W!vars
<1>2. Todo' = Todo /\ InBatch' = InBatch /\ Built' = Built /\ (Busy' <=> Busy) /\ UnderWork' = UnderWork
  BY <1>1 DEF Todo, InBatch, Built, Busy, UnderWork
<1>3. WriteTypes' /\ InOrder' /\ Sending'
  BY <1>1, <1>2 DEF WriteInv, WriteTypes, InOrder, Sending
<1>4. Stages' /\ Begun'
  BY <1>1, <1>2 DEF WriteInv, Stages, Begun
<1>5. Adding'
  <2>1. (IF Busy' THEN Len(batch) ELSE 0) = (IF Busy THEN Len(batch) ELSE 0)
    BY <1>2
  <2>. QED
    BY <1>1, <1>2, <2>1 DEF WriteInv, Adding
<1>6. \A i \in 1..Len(input') : Latest(i)' => Shows(i)'
  BY <1>1 DEF WriteInv, Latest, Shows
<1>. QED
  BY <1>3, <1>4, <1>5, <1>6 DEF WriteInv

\* Every step of a batch write preserves the invariant.
LEMMA WriteNext == WriteInv /\ W!Next => WriteInv'
<1>. SUFFICES ASSUME WriteInv, W!Next PROVE WriteInv'
  OBVIOUS
<1>1. CASE W!BuildFails
  <2>1. Moves("error")
    BY <1>1 DEF W!BuildFails, Moves, W!args, W!current, W!effects, W!report
  <2>. QED
    BY <2>1, WriteMoves
<1>2. CASE W!BuildDone
  <2>1. Moves("next")
    BY <1>2 DEF W!BuildDone, Moves, W!args, W!current, W!effects, W!report
  <2>. QED
    BY <2>1, WriteMoves
<1>3. CASE W!Finish
  <2>1. Moves("ok")
    BY <1>3 DEF W!Finish, Moves, W!args, W!current, W!effects, W!report
  <2>. QED
    BY <2>1, WriteMoves
<1>4. CASE W!Backoff
  <2>1. Moves("send")
    BY <1>4 DEF W!Backoff, Moves, W!args, W!current, W!effects, W!report
  <2>. QED
    BY <2>1, WriteMoves
<1>5. CASE W!BatchError
  <2>1. Moves("error")
    BY <1>5 DEF W!BatchError, Moves, W!args, W!current, W!effects, W!report
  <2>. QED
    BY <2>1, WriteMoves
<1>. QED
  BY <1>1, <1>2, <1>3, <1>4, <1>5, WriteBegins, WriteBuilds, WriteNextBatch, WriteSends,
     WriteFails, WriteTaken, WriteSame DEF W!Next, W!Step, W!Done

\* What the invariant says of a batch write.
LEMMA WritePromises ==
    ASSUME WriteInv
    PROVE  W!TypeOK /\ W!WrittenOrReported /\ W!OneBatchInDoubt /\ W!ProgressExact
<1>1. PICK n \in Nat : n = Len(input) /\ DOMAIN input = 1..n
  BY LenProperties DEF WriteInv, WriteTypes
<1>2. /\ Len(batch) \in Nat /\ Len(todo) \in Nat /\ Todo \subseteq 1..n /\ InBatch \subseteq 1..n
      /\ Cardinality(applied \cup reported) \in Nat /\ Cardinality(applied \cup reported) <= n
      /\ Cardinality(Built) \in Nat /\ Cardinality(Built) <= n
      /\ processed \in Nat /\ shown \in Nat /\ built \in Nat /\ built <= n
      /\ applied \subseteq 1..built /\ reported \subseteq 1..built
  BY <1>1, WriteSizes DEF WriteInv, InOrder, WriteTypes
<1>3. ASSUME pc = "ok"
      PROVE  Todo = {} /\ Len(todo) = 0 /\ built = n /\ \A i \in 1..n : i \in applied \cup reported
  <2>1. todo = <<>> /\ built = n /\ todo \in Seq(1..n)
    BY <1>1, <1>3 DEF WriteInv, Stages, WriteTypes
  <2>2. Todo = {} /\ Len(todo) = 0
    BY <2>1, SeqElements DEF Todo
  <2>. QED
    BY <1>3, <2>1, <2>2 DEF WriteInv, Begun
<1>4. W!WrittenOrReported
  <2>. SUFFICES ASSUME pc = "ok", NEW i \in 1..n, i \notin reported,
                       \A j \in 1..n : j > i => input[j].key # input[i].key
                PROVE  store[input[i].key].id = IF input[i].op = "put" THEN i ELSE -1
    BY <1>1 DEF W!WrittenOrReported
  <2>1. i \in applied
    BY <1>3
  <2>2. applied \subseteq 1..n
    BY <1>2
  <2>3. Latest(i)
    BY <2>1, <2>2 DEF Latest
  <2>. QED
    BY <1>1, <2>3 DEF WriteInv, Shows
<1>5. W!OneBatchInDoubt
  <2>1. W!Unbegun = Todo \cup {i \in 1..n : i > built}
    BY <1>1 DEF W!Unbegun, Todo
  <2>2. \A i \in 1..built : ~(i > built)
    BY <1>2
  <2>3. \A i \in Todo : ~(i < i)
    BY <1>2
  <2>4. applied \cap W!Unbegun = {}
    BY <1>2, <2>1, <2>2, <2>3 DEF WriteInv, InOrder
  <2>5. \A i \in 1..n : i > built \/ i \in 1..built
    BY <1>2
  <2>6. 1..n \ (W!Unbegun \cup InBatch) \subseteq applied \cup reported
    BY <2>1, <2>5 DEF WriteInv, Begun
  <2>. QED
    BY <1>1, <2>4, <2>6 DEF W!OneBatchInDoubt, InBatch
<1>6. shown <= Cardinality(applied \cup reported)
  BY DEF WriteInv, Adding
<1>7. processed <= Cardinality(Built)
  <2>1. CASE pc = "error"
    BY <2>1 DEF WriteInv, Adding
  <2>2. CASE pc # "error"
    <3>1. processed + Len(todo) + (IF Busy THEN Len(batch) ELSE 0) = Cardinality(Built)
      BY <2>2 DEF WriteInv, Adding
    <3>2. (IF Busy THEN Len(batch) ELSE 0) \in Nat
      BY <1>2
    <3>3. \A x, y, z \in Nat : x <= x + y + z
      OBVIOUS
    <3>4. processed <= processed + Len(todo) + (IF Busy THEN Len(batch) ELSE 0)
      BY <1>2, <3>2, <3>3
    <3>. QED
      BY <3>1, <3>4
  <2>. QED
    BY <2>1, <2>2
<1>8. W!ProgressExact
  <2>1. shown <= W!Cardinality(applied \cup reported)
    BY <1>6, SameCardinality
  <2>2. ASSUME pc = "ok"
        PROVE  processed = W!Cardinality({i \in DOMAIN input : call # "write" \/ input[i].ok})
    <3>1. Built = {i \in DOMAIN input : call # "write" \/ input[i].ok}
      BY <1>1, <1>3, <2>2 DEF Built
    <3>2. processed + 0 + 0 = Cardinality(Built)
      BY <1>3, <2>2 DEF WriteInv, Adding, Busy
    <3>3. processed = Cardinality(Built)
      BY <1>2, <3>2
    <3>. QED
      BY <3>1, <3>3, SameCardinality
  <2>. QED
    BY <2>1, <2>2 DEF W!ProgressExact
<1>9. W!TypeOK
  <2>1. processed \in 0..n /\ shown \in 0..n
    BY <1>2, <1>6, <1>7
  <2>2. applied \subseteq 1..n /\ reported \subseteq 1..n
    BY <1>2
  <2>3. Len(batch) <= MaxBatch
    BY DEF WriteInv, Stages
  <2>4. W!Elements(todo) \subseteq 1..n /\ remaining \subseteq W!Elements(batch)
    BY <1>2 DEF Todo, InBatch, WriteInv, WriteTypes
  <2>5. /\ built \in 0..n /\ attempts \in 0..MaxAttempts /\ layers \in [1..n -> 0..MaxAttempts]
        /\ \A k \in Keys : store[k].id \in 1..n \cup {0, -1}
        /\ pc \in WritePlaces
    BY <1>1 DEF WriteInv, WriteTypes
  <2>. QED
    BY <1>1, <2>1, <2>2, <2>3, <2>4, <2>5 DEF W!TypeOK, WritePlaces
<1>. QED
  BY <1>4, <1>5, <1>8, <1>9

------------------------------------------------------------------------------
(***************************************************************************)
(* The three operations together.                                          *)
(***************************************************************************)
BatchesInv ==
    /\ operation \in {"get", "write", "update"}
    /\ operation = "get" => GetInv
    /\ operation = "write" => WriteInv
    /\ operation = "update" => UpdateInv

\* Whichever operation is called, its invariant holds at first.
LEMMA BatchesInit == Init => BatchesInv
BY GetInit, WriteInit, UpdateInit DEF Init, InitGet, InitWrite, InitUpdate, BatchesInv

\* And every step preserves it.
LEMMA BatchesStep ==
    ASSUME KeysProjected, BatchesInv, [Next]_vars
    PROVE  BatchesInv'
<1>1. CASE Get(G!Next)
  BY <1>1, GetNext DEF Get, BatchesInv
<1>2. CASE Write(W!Next)
  BY <1>2, WriteNext DEF Write, BatchesInv
<1>3. CASE Update(U!Next)
  BY <1>3, UpdateNext DEF Update, BatchesInv
<1>4. CASE UNCHANGED vars
  <2>1. UNCHANGED operation /\ UNCHANGED G!vars /\ UNCHANGED notInGet
    BY <1>4 DEF vars
  <2>2. UNCHANGED W!vars /\ UNCHANGED U!vars
    BY <2>1 DEF G!vars, W!vars, U!vars, notInGet
  <2>. QED
    BY <2>1, <2>2, GetSame, WriteSame, UpdateSame DEF BatchesInv
<1>. QED
  BY <1>1, <1>2, <1>3, <1>4 DEF Next

\* For any number of keys and items, any sizes of chunks and batches, any retries
\* and any answers: BatchGet answers with every stored item asked for, in the
\* order of the keys, whatever the order in which its goroutines finish; when
\* BatchGet or BatchUpdate has returned none of its goroutines is at work; and
\* without parallelism BatchGet asks for nothing after a chunk that failed.  The
\* hypothesis is that the projection, if any, has the key attributes.
THEOREM ReadsAligned == ASSUME KeysProjected PROVE Spec => []AlignedAndQuiet
<1>1. BatchesInv => AlignedAndQuiet
  BY GetPromises, UpdatePromises DEF BatchesInv, AlignedAndQuiet
<1>2. Init => BatchesInv
  BY BatchesInit
<1>3. BatchesInv /\ [Next]_vars => BatchesInv'
  BY BatchesStep
<1>. QED
  BY <1>1, <1>2, <1>3, PTL DEF Spec

\* Under the same hypothesis: BatchCreate, BatchWrite, BatchDelete and BatchUpdate
\* do all they were asked to, in order, or tell; a failing write leaves one batch in
\* doubt, whatever answers were lost; an update touches nothing after the item that
\* failed in its batch; and progress neither runs ahead nor falls short.
THEOREM NothingLost == ASSUME KeysProjected PROVE Spec => []WrittenOrReported
<1>1. BatchesInv => WrittenOrReported
  BY GetPromises, WritePromises, UpdatePromises DEF BatchesInv, WrittenOrReported, TypeOK
<1>2. Init => BatchesInv
  BY BatchesInit
<1>3. BatchesInv /\ [Next]_vars => BatchesInv'
  BY BatchesStep
<1>. QED
  BY <1>1, <1>2, <1>3, PTL DEF Spec
==============================================================================
