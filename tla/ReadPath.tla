------------------------------ MODULE ReadPath ------------------------------
(***************************************************************************)
(* Reads that take several requests: First, All, Count, AllPaginated and   *)
(* ScanAllSegments of pkg/query, and the executors that collect pages for  *)
(* them, while the table changes under them.                               *)
(*                                                                         *)
(* The items a read walks over lie at positions in the order of their      *)
(* keys.  DynamoDB evaluates items from a position on, at most Limit of    *)
(* them and as many as fit a page, returns those that pass the filter, and *)
(* says where it stopped.  A write shows when a read may see it.           *)
(***************************************************************************)
EXTENDS Integers, Sequences, FiniteSets, Functions, Cursors

CONSTANTS
    LastPosition, \* positions are 1..LastPosition
    Segments,     \* of a parallel scan; the other reads have the one worker 0
    SegmentOf(_), \* position -> its segment
    KeyOf(_),     \* position -> the attributes of its key
    Limits,       \* limits of a query; 0 is none
    Retries,      \* values of MaxRetries; a query without WithRetry is one with 0
    MaxWrites, MaxFailures

Positions == 1..LastPosition

ASSUME ReadAssumption ==
    /\ LastPosition \in Nat /\ Limits \subseteq Nat /\ Retries \subseteq Int
    /\ 0 \in Segments
    /\ \A p \in Positions : IsKey(KeyOf(p)) /\ \A o \in Positions : KeyOf(o) = KeyOf(p) => o = p

VARIABLES
    table,    \* position -> "none", "hit" or "miss": does the item pass the filter?
    budget,   \* what is left of MaxWrites and MaxFailures
    call,     \* the read under way, and its answer once it is "done"
    worker,   \* segment -> the pages it has collected
    always, ever \* the positions that were hits all the time, or at some time, of the call

readVars == <<table, budget, call, worker, always, ever>>

Worker(pc, after, items) == [pc |-> pc, after |-> after, items |-> items]
Idle == [pc |-> "idle"]
Off == Worker("off", 0, <<>>)

Hits == {p \in Positions : table[p] = "hit"}

ReadInit ==
    /\ table \in [Positions -> {"none", "hit", "miss"}]
    /\ budget = [writes |-> MaxWrites, failures |-> MaxFailures]
    /\ call = Idle
    /\ worker = [w \in Segments |-> Off]
    /\ always = {}
    /\ ever = {}

(***************************************************************************)
(* The calls.  "main" is the executor of pkg/query, "db" the one of DB.    *)
(***************************************************************************)
New(op, exec, limit, retries) ==
    [pc |-> "running", op |-> op, exec |-> exec, limit |-> limit, retries |-> retries,
     attempt |-> 0, items |-> <<>>, received |-> {}, err |-> "none", cursor |-> NoCursor]

Start(c, started) ==
    /\ call = Idle
    /\ call' = c
    /\ worker' = [w \in Segments |-> IF w \in started THEN Worker("reading", 0, <<>>) ELSE Off]
    /\ always' = Hits
    /\ ever' = Hits
    /\ UNCHANGED <<table, budget>>

\* The loop of a negative WithRetry is never entered: First finds nothing, All
\* leaves its destination as it was.
First(exec, retries) ==
    IF retries < 0
    THEN Start([New("First", exec, 1, retries) EXCEPT !.pc = "done", !.err = "notfound"], {})
    ELSE Start(New("First", exec, 1, retries), {0})

All(exec, limit, retries) ==
    IF retries < 0
    THEN Start([New("All", exec, limit, retries) EXCEPT !.pc = "done"], {})
    ELSE Start(New("All", exec, limit, retries), {0})

\* A limit only cuts the pages of a count, which DynamoDB may cut anywhere.
Count == Start(New("Count", "db", 0, 0), {0})

AllPaginated(limit) == Start(New("AllPaginated", "db", limit, 0), {0})

ScanAllSegments(exec, limit) == Start(New("ScanAllSegments", exec, limit, 0), Segments)

(***************************************************************************)
(* One page.                                                               *)
(***************************************************************************)
span(w) ==
    IF call.op = "ScanAllSegments" THEN {p \in Positions : SegmentOf(p) = w} ELSE Positions

There(w, from, to) == {p \in span(w) : from < p /\ p <= to /\ table[p] # "none"}

\* Where DynamoDB may stop: at an item, or beyond the last one.
Stops(w) ==
    {e \in There(w, worker[w].after, LastPosition) \cup {LastPosition + 1} :
        call.limit = 0 \/ Cardinality(There(w, worker[w].after, e)) <= call.limit}

\* A sequence of positions in the order of the table.
Increasing(s) == \A i, j \in 1..Len(s) : i < j => s[i] < s[j]

inOrder(S) == CHOOSE s \in [1..Cardinality(S) -> S] : Range(s) = S /\ Increasing(s)

\* The items so far, with those of a page that ends at e.
collected(w, e) ==
    worker[w].items \o inOrder(There(w, worker[w].after, e) \cap Hits)

LastEvaluatedKey(e) == IF e > LastPosition THEN NoCursor ELSE KeyOf(e)

ExclusiveStartKey(key) ==
    IF key = NoCursor THEN 0 ELSE CHOOSE p \in Positions : KeyOf(p) = key

\* A page stands for Limit items, as if none were filtered (mutant).
enoughPages(items) == call.limit > 0

enough(items) == call.limit > 0 /\ Len(items) >= call.limit

nextPage(e, items) == Worker("reading", ExclusiveStartKey(LastEvaluatedKey(e)), items)

\* The last page, or enough.
lastPage(e, items) == LastEvaluatedKey(e) = NoCursor \/ enough(items)

trim(items) == IF call.limit \in 1..Len(items) THEN SubSeq(items, 1, call.limit) ELSE items

collectPaginatedItems(e, items) ==
    IF lastPage(e, items) THEN Worker("collected", 0, trim(items)) ELSE nextPage(e, items)

\* Selects COUNT: no limit ends it.
collectPaginatedCounts(e, items) ==
    IF LastEvaluatedKey(e) = NoCursor THEN Worker("collected", 0, items) ELSE nextPage(e, items)

\* The executor of pkg/query keeps what a page brought beyond the limit.
executePagedItems(e, items) ==
    IF lastPage(e, items) THEN Worker("collected", 0, items) ELSE nextPage(e, items)

executeRead(w, e) ==
    CASE call.exec = "main"                       -> executePagedItems(e, collected(w, e))
      [] call.exec = "db" /\ call.op = "Count"    -> collectPaginatedCounts(e, collected(w, e))
      [] call.exec = "db" /\ call.op # "Count"    -> collectPaginatedItems(e, collected(w, e))

NextPage(w) ==
    /\ worker[w].pc = "reading"
    /\ call.op # "AllPaginated"
    /\ \E e \in Stops(w) : worker' = [worker EXCEPT ![w] = executeRead(w, e)]
    /\ UNCHANGED <<table, budget, call, always, ever>>

\* A request fails for good: throttling, timeout, an item that cannot be decrypted.
PageFails(w) ==
    /\ worker[w].pc = "reading"
    /\ budget.failures > 0
    /\ budget' = [budget EXCEPT !.failures = @ - 1]
    /\ worker' = [worker EXCEPT ![w] = Worker("failed", 0, <<>>)]
    /\ UNCHANGED <<table, call, always, ever>>

(***************************************************************************)
(* AllPaginated is one page; the caller comes back with the cursor.        *)
(***************************************************************************)
encodeCursor(e) == EncodeCursor(LastEvaluatedKey(e), "", "")

ExecutePage ==
    /\ call.pc = "running"
    /\ call.op = "AllPaginated"
    /\ worker[0].pc = "reading"
    /\ \E e \in Stops(0) :
          LET items == collected(0, e)
          IN  /\ call' = [call EXCEPT !.cursor = encodeCursor(e), !.items = items,
                                      !.pc = IF encodeCursor(e) = NoCursor THEN "done" ELSE @]
              /\ worker' = [worker EXCEPT ![0] = Worker("off", 0, items)]
    /\ UNCHANGED <<table, budget, always, ever>>

SetCursor ==
    /\ call.pc = "running"
    /\ call.op = "AllPaginated"
    /\ worker[0].pc = "off"
    /\ worker' = [worker EXCEPT ![0] =
                     Worker("reading", ExclusiveStartKey(DecodeCursor(call.cursor)), call.items)]
    /\ UNCHANGED <<table, budget, call, always, ever>>

(***************************************************************************)
(* The answer of a read with one worker; WithRetry starts it again.        *)
(***************************************************************************)
again(items, failed) ==
    /\ call.attempt < call.retries
    /\ CASE call.op = "First" -> ~failed /\ items = <<>>
         [] call.op = "All"   -> failed \/ items = <<>>
         [] OTHER             -> FALSE

errorOf(items, failed) ==
    CASE failed                                             -> "failed"
      [] ~failed /\ call.op = "First" /\ items = <<>>       -> "notfound"
      [] ~failed /\ ~(call.op = "First" /\ items = <<>>)    -> "none"

Return ==
    /\ call.pc = "running"
    /\ call.op # "ScanAllSegments"
    /\ worker[0].pc \in {"collected", "failed"}
    /\ LET items == worker[0].items
           failed == worker[0].pc = "failed"
       IN  IF again(items, failed)
           THEN /\ call' = [call EXCEPT !.attempt = @ + 1]
                /\ worker' = [worker EXCEPT ![0] = Worker("reading", 0, <<>>)]
           ELSE /\ call' = [call EXCEPT !.pc = "done", !.items = items,
                                        !.err = errorOf(items, failed)]
                /\ worker' = [worker EXCEPT ![0] = Off]
    /\ UNCHANGED <<table, budget, always, ever>>

(***************************************************************************)
(* ScanAllSegments: a goroutine per segment sends what it collected to a   *)
(* channel with room for all of them; the caller receives until the first  *)
(* error.                                                                  *)
(***************************************************************************)
InChannel == {w \in Segments : worker[w].pc = "sent" /\ w \notin call.received}

\* Without a buffer somebody must be waiting (mutant).
roomUnbuffered(w) == call.pc = "running" /\ InChannel = {}

room(w) == Cardinality(InChannel) < Cardinality(Segments)

Outcome(w) == worker[w].pc \in {"collected", "failed"}

\* The goroutine ends with its send; what it sent stays in the channel.
Send(w) ==
    /\ Outcome(w)
    /\ call.op = "ScanAllSegments"
    /\ room(w)
    /\ worker' = [worker EXCEPT ![w] =
                     Worker("sent", IF worker[w].pc = "failed" THEN -1 ELSE 0, worker[w].items)]
    /\ UNCHANGED <<table, budget, call, always, ever>>

Receive(w) ==
    /\ call.pc = "running"
    /\ call.op = "ScanAllSegments"
    /\ w \in InChannel
    /\ LET all == call.received \cup {w} = Segments
       IN  call' = IF worker[w].after = -1
                   THEN [call EXCEPT !.pc = "done", !.err = "failed", !.items = <<>>]
                   ELSE [call EXCEPT !.received = @ \cup {w}, !.items = @ \o worker[w].items,
                                     !.pc = IF all THEN "done" ELSE @]
    /\ UNCHANGED <<table, budget, worker, always, ever>>

\* Another client puts, changes or deletes an item.
Write(p, x) ==
    /\ call.pc = "running"
    /\ budget.writes > 0
    /\ table[p] # x
    /\ table' = [table EXCEPT ![p] = x]
    /\ budget' = [budget EXCEPT !.writes = @ - 1]
    /\ always' = IF x = "hit" THEN always ELSE always \ {p}
    /\ ever' = IF x = "hit" THEN ever \cup {p} ELSE ever
    /\ UNCHANGED <<call, worker>>

Step(w) == NextPage(w) \/ Send(w) \/ Receive(w)

ReadNext ==
    \/ \E exec \in {"db", "main"} :
          \/ \E r \in Retries : First(exec, r) \/ \E l \in Limits : All(exec, l, r)
          \/ \E l \in Limits : ScanAllSegments(exec, l)
    \/ Count
    \/ \E l \in Limits \ {0} : AllPaginated(l)
    \/ \E w \in Segments : Step(w) \/ PageFails(w)
    \/ ExecutePage \/ SetCursor \/ Return
    \/ \E p \in Positions, x \in {"none", "hit", "miss"} : Write(p, x)

\* The SDK answers or fails every request, and goroutines are scheduled.
ReadFairness ==
    /\ \A w \in Segments : WF_readVars(Step(w))
    /\ WF_readVars(ExecutePage \/ SetCursor \/ Return)

ReadSpec == ReadInit /\ [][ReadNext]_readVars /\ ReadFairness

(***************************************************************************)
(* Properties.                                                             *)
(***************************************************************************)
\* Nothing that was there all the time is missing, unless as many as a limit
\* allows come before it.
Complete(items, limit, where) ==
    \A p \in always \cap where :
        \/ p \in Range(items)
        \/ limit > 0 /\ Cardinality({o \in Range(items) \cap where : o < p}) >= limit

\* A negative WithRetry: no request was sent at all.
NeverTried == call.retries < 0

\* The limit bounds what is returned.  The executor of pkg/query keeps the whole
\* page that reached it, and a parallel scan hands it to every segment.
LimitBounds == call.exec = "db" /\ call.op \in {"First", "All"} /\ call.limit > 0

\* Whatever is written meanwhile, wherever DynamoDB cuts its pages and
\* whatever the filter drops: a read returns each item once and only items that
\* passed the filter during the call, all of those that passed it throughout up
\* to its limit, and First says ErrItemNotFound only if there was none
\* (query.go:519, query_executor.go:1263).  A walk with cursors misses nothing and
\* repeats nothing (pagination.go:12); a count lies between the two
\* (query_executor.go:1245); in a parallel scan the limit is one per segment
\* (query.go:1111).  No more than the limit, "the maximum number of items to
\* return" (query.go:467), come back where LimitBounds: elsewhere the code does not
\* keep this (README).  A read that was NeverTried is left out.
ReadExact ==
    /\ (call.pc = "done" /\ call.err = "none" /\ ~NeverTried) =>
        /\ Range(call.items) \subseteq ever
        /\ IF call.op = "ScanAllSegments"
           THEN /\ IsInjective(call.items)
                /\ \A w \in Segments : Complete(call.items, call.limit, span(w))
           ELSE /\ Increasing(call.items)
                /\ Complete(call.items, IF call.op = "AllPaginated" THEN 0 ELSE call.limit, Positions)
        /\ LimitBounds => Len(call.items) <= call.limit
    /\ (call.pc = "done" /\ call.err = "notfound" /\ ~NeverTried) => always = {}

\* Every read returns, and no goroutine of a parallel scan stays behind when
\* another segment's error made the caller leave (query.go:1126).
ReadsReturn ==
    <>[](/\ call.pc # "running"
         /\ \A w \in Segments : worker[w].pc \in {"off", "sent"})
=============================================================================
