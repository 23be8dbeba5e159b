--------------------------- MODULE AdvertisementWalk ---------------------------
(***************************************************************************)
(* eachAdvertisement (typescript/src/methods/advertisements.ts): an async  *)
(* generator that reads the order book page by page while merchants        *)
(* publish and withdraw advertisements between, and during, its calls.     *)
(* The node orders the book by an order of its own, which the SDK does not *)
(* know, and the consumer of the generator may stop at any row.            *)
(***************************************************************************)
EXTENDS Integers, Sequences, FiniteSets, Functions

CONSTANTS
  Ads,        \* advertisement ids, numbers so that a client could order them
  MaxLimit,   \* the node's ceiling on the size of a page
  MaxChanges  \* bound: publications and withdrawals during one walk

ASSUME AdsAssumption == Ads \subseteq Nat \ {0} /\ IsFiniteSet(Ads)
ASSUME BoundsAssumption == MaxLimit \in Nat \ {0} /\ MaxChanges \in Nat

NoCursor == 0        \* JSON null, and the absent `after` of a first page
MissingCursor == -1  \* a reply without the key: undefined

VARIABLES
  rank,     \* the node's ordering of the book
  book,     \* the advertisements on offer now
  wanted,   \* the advertisements query.filter matches
  omits,    \* whether this node leaves next_cursor out
  changes,  \* publications and withdrawals so far
  start,    \* query.page.after
  generator, \* ready, asking, yielding, done, thrown, stopped
  after,    \* the generator's `after`
  request,  \* the request that is out
  page,     \* the page being yielded
  yielded,  \* the rows handed to the consumer
  steady    \* the rows that have been on offer since the walk began

queryVars == <<rank, wanted, omits, start>>
bookVars == <<book, changes, steady>>
generatorVars == <<generator, after, request, page, yielded>>
walkVars == <<queryVars, bookVars, generatorVars>>

-----------------------------------------------------------------------------
\* The place of a cursor in the node's order.
Place(cursor) == IF cursor \in Ads THEN rank[cursor] ELSE 0

Beyond(S, cursor) == {a \in S : rank[a] > Place(cursor)}

Ordered(s) == \A i, j \in DOMAIN s : i < j => rank[s[i]] < rank[s[j]]

\* The rows of S in the node's order.
InOrder(S) == {s \in [1..Cardinality(S) -> S] : Ordered(s) /\ Range(s) = S}

EmptyPage == [rows |-> <<>>, next |-> NoCursor]

WalkInit ==
  /\ rank \in {f \in [Ads -> 1..Cardinality(Ads)] :
                 \A a, b \in Ads : f[a] = f[b] => a = b}
  /\ book \in SUBSET Ads
  /\ wanted \in SUBSET Ads
  /\ omits \in BOOLEAN
  /\ changes = 0
  /\ start \in Ads \cup {NoCursor}
  /\ generator = "ready"
  /\ after = start
  /\ request = [filtered |-> TRUE, after |-> start]
  /\ page = EmptyPage
  /\ yielded = <<>>
  /\ steady = book

(* The generator.                                                          *)

\* getAdvertisements with the filter and the cursor of every page.
Ask ==
  /\ generator = "ready"
  /\ request' = [filtered |-> TRUE, after |-> after]
  /\ generator' = "asking"
  /\ UNCHANGED <<queryVars, bookVars, after, page, yielded>>

\* The call rejects, and the generator with it.
AskFails ==
  /\ generator = "asking"
  /\ generator' = "thrown"
  /\ UNCHANGED <<queryVars, bookVars, after, request, page, yielded>>

\* yield*: one row, when the consumer asks for it.
YieldRow ==
  /\ generator = "yielding"
  /\ page.rows # <<>>
  /\ yielded' = Append(yielded, Head(page.rows))
  /\ page' = [page EXCEPT !.rows = Tail(@)]
  /\ UNCHANGED <<queryVars, bookVars, generator, after, request>>

\* The consumer leaves its for-await loop at a row.
ConsumerStops ==
  /\ generator = "yielding"
  /\ yielded # <<>>
  /\ generator' = "stopped"
  /\ UNCHANGED <<queryVars, bookVars, after, request, page, yielded>>

EndsOnNullOnly(cursor) == cursor = NoCursor

\* `page.next_cursor === null || page.next_cursor === undefined`
Ends(cursor) == cursor \in {NoCursor, MissingCursor}

\* A client that orders the rows itself and resumes behind the greatest.
TurnPageByOwnOrder ==
  /\ generator = "yielding"
  /\ page.rows = <<>>
  /\ IF Ends(page.next)
     THEN generator' = "done" /\ after' = after
     ELSE /\ generator' = "ready"
          /\ after' = CHOOSE a \in Ads : \A b \in Range(yielded) \cup {page.next} :
                        a >= b /\ a \in Range(yielded) \cup {page.next}
  /\ UNCHANGED <<queryVars, bookVars, request, page, yielded>>

\* A client that takes an empty page for the last one.
TurnPageUnlessEmpty ==
  /\ generator = "yielding"
  /\ page.rows = <<>>
  /\ IF Ends(page.next) \/ yielded = <<>>
     THEN generator' = "done" /\ UNCHANGED after
     ELSE generator' = "ready" /\ after' = page.next
  /\ UNCHANGED <<queryVars, bookVars, request, page, yielded>>

\* The page is drained: the walk ends, or goes on from the node's cursor.
TurnPage ==
  /\ generator = "yielding"
  /\ page.rows = <<>>
  /\ IF Ends(page.next)
     THEN generator' = "done" /\ UNCHANGED after
     ELSE generator' = "ready" /\ after' = page.next
  /\ UNCHANGED <<queryVars, bookVars, request, page, yielded>>

(* The node.  It reads its book up to some advertisement, returns the      *)
(* rows that match among those, at most a page of them, and a cursor: null *)
(* only if nothing that matches is left, and possibly a cursor with        *)
(* nothing behind it.                                                      *)

Matching(S) == IF request.filtered THEN S \cap wanted ELSE S

Answer(rows, next) ==
  /\ \E s \in InOrder(rows) :
       page' = [rows |-> s, next |-> IF omits THEN MissingCursor ELSE next]
  /\ generator' = "yielding"
  /\ UNCHANGED <<queryVars, bookVars, after, request, yielded>>

AnswerPart ==
  /\ generator = "asking"
  /\ \E last \in Beyond(book, request.after) :
       LET rows == {a \in Matching(Beyond(book, request.after)) :
                      rank[a] <= rank[last]}
       IN  Cardinality(rows) <= MaxLimit /\ Answer(rows, last)

AnswerRest ==
  /\ generator = "asking"
  /\ LET rows == Matching(Beyond(book, request.after)) IN
     Cardinality(rows) <= MaxLimit /\ Answer(rows, NoCursor)

(* The merchants.                                                          *)

Publish(a) ==
  /\ a \notin book
  /\ changes < MaxChanges
  /\ book' = book \cup {a}
  /\ changes' = changes + 1
  /\ UNCHANGED <<queryVars, generatorVars, steady>>

Withdraw(a) ==
  /\ a \in book
  /\ changes < MaxChanges
  /\ book' = book \ {a}
  /\ steady' = steady \ {a}
  /\ changes' = changes + 1
  /\ UNCHANGED <<queryVars, generatorVars>>

-----------------------------------------------------------------------------
Walk == Ask \/ YieldRow \/ TurnPage

WalkNext ==
  \/ Walk \/ AskFails \/ ConsumerStops
  \/ AnswerPart \/ AnswerRest
  \/ \E a \in Ads : Publish(a) \/ Withdraw(a)

WalkSpec == WalkInit /\ [][WalkNext]_walkVars

\* The generator runs when it can, and a call that is out comes back: with
\* an answer, or with the error its timer raises (RpcClient).
FairWalkSpec ==
  WalkSpec /\ WF_walkVars(Walk) /\ WF_walkVars(AskFails \/ AnswerPart \/ AnswerRest)

-----------------------------------------------------------------------------
(* Type invariant.                                                         *)
WalkTypeOK ==
  /\ book \subseteq Ads /\ wanted \subseteq Ads /\ steady \subseteq book
  /\ changes \in 0..MaxChanges
  /\ generator \in {"ready", "asking", "yielding", "done", "thrown", "stopped"}
  /\ after \in Ads \cup {NoCursor}
  /\ request.after \in Ads \cup {NoCursor}
  /\ page.rows \in Seq(Ads) /\ Len(page.rows) <= MaxLimit
  /\ page.next \in Ads \cup {NoCursor, MissingCursor}
  /\ yielded \in Seq(Ads)

(* No row is handed over twice, and rows come in the node's order, however *)
(* the book changes between the pages.                                     *)
NoRowTwice == Ordered(yielded)

(* A walk that ends has handed over every matching row that was on offer   *)
(* all along: nothing is skipped at a page boundary, by an empty page or   *)
(* by a withdrawal between two pages.  (A node that leaves the cursor out  *)
(* serves one page only.)                                                  *)
NothingSkipped ==
  generator = "done" /\ ~omits =>
    Beyond(steady \cap wanted, start) \subseteq Range(yielded)

(* Liveness: a walk over a book that changes finitely often comes to an    *)
(* end, also on a node that leaves the cursor out.                         *)
WalkEnds == <>(generator \in {"done", "thrown", "stopped"})
=============================================================================
