----------------------------- MODULE Pagination -----------------------------
(***************************************************************************)
(* A client that reads a collection of the HTTP API page by page while     *)
(* others write to it: the repositories' queries, the cursors, and the     *)
(* routes that tell the cursor of the next page.  Collections of resources *)
(* are listed newest first, by (created_at DESC, id ASC); the histories of *)
(* one resource are listed by position.                                    *)
(*                                                                         *)
(* A timestamp or a position is the number `at` of a row, a filter is a    *)
(* value of its `tag`.  A cursor's encoding is abstracted to the fields    *)
(* that it carries: the checksum makes any other text refused.             *)
(***************************************************************************)
EXTENDS Naturals, FiniteSets, Sequences

CONSTANTS
  Collections, \* the collections a run lists
  MaxRows,     \* bound: rows of the collection
  MaxAt,       \* bound: the clock that stamps resources, which may step back
  MaxChanges,  \* bound: how often a resource's state changes
  Tags,        \* the states that a filter tells apart
  Limits,      \* the page sizes a client asks for
  None

\* The collections of resources, and those of them whose resources change state; and the
\* histories of one resource.
NewestFirst == {"accounts", "orders", "fills", "signals", "intents", "decisions", "runtimes"}
Changing    == {"accounts", "runtimes"}
Histories   == {"attempts", "audit", "work", "checkpoints", "ledger"}

Kinds       == NewestFirst \union Histories

Filters == Tags \union {None}

\* What a cursor may carry: where the last row stands, of which collection and query, and
\* the version that a listing of attempts began with.
Positions == 0..MaxRows + MaxAt
Cursors ==
  [at : Positions] \union [collection : Kinds, id : 1..MaxRows, at : Positions]
  \union [collection : Kinds, id : 1..MaxRows, at : Positions, query : Filters]
  \union [collection : Kinds, id : 1..MaxRows, at : Positions, query : Filters,
          anchor : 0..MaxRows \union {None}]

PaginationAssumption ==
  /\ Collections \subseteq Kinds
  /\ Limits \subseteq 1..200
  /\ None \notin Tags \union Cursors /\ Filters \intersect Kinds = {}
  /\ MaxRows \in Nat /\ MaxAt \in Nat /\ MaxChanges \in Nat

VARIABLES
  kind,     \* the collection that is listed
  rows,     \* its rows
  changes,
  cursor,   \* the cursor of the next page
  got,      \* the rows told so far
  asked,    \* the filters, and the other collections, of the requests so far
  existed,  \* the rows there were at the first page
  steady,   \* those of them that every page's filter has admitted
  status    \* reading, done, or refused

vars == <<kind, rows, changes, cursor, got, asked, existed, steady, status>>

Admitted(f) == {r \in rows : f = None \/ r.tag = f}
Ids(rs)     == {r.id : r \in rs}

Init ==
  /\ kind \in Collections
  /\ rows = {} /\ changes = 0
  /\ cursor = None /\ got = <<>> /\ asked = {}
  /\ existed = {} /\ steady = {}
  /\ status = "reading"

-----------------------------------------------------------------------------
(* The queries: one row more than the page tells whether there is a next.   *)

Newer(r, s)   == r.at > s.at \/ (r.at = s.at /\ r.id < s.id)
Earlier(r, s) == r.at < s.at

Beyond(rs, c)     == {r \in rs : c = None \/ Newer(c, r)}
After(rs, c)      == {r \in rs : c = None \/ Earlier(c, r)}

ByNewest(rs) ==
  CHOOSE s \in [1..Cardinality(rs) -> rs] : \A i, j \in DOMAIN s : i < j => Newer(s[i], s[j])
ByOldest(rs) ==
  CHOOSE s \in [1..Cardinality(rs) -> rs] : \A i, j \in DOMAIN s : i < j => Earlier(s[i], s[j])

Page(sorted, limit) ==
  LET size == IF Len(sorted) > limit THEN limit ELSE Len(sorted)
  IN  [items |-> SubSeq(sorted, 1, size), more |-> Len(sorted) > limit]

AccountsPage(f, c, n)  == Page(ByNewest(Beyond(Admitted(f), c)), n)
OrdersPage(f, c, n)    == Page(ByNewest(Beyond(Admitted(f), c)), n)
FillsPage(f, c, n)     == Page(ByNewest(Beyond(Admitted(f), c)), n)
SignalsPage(f, c, n)   == Page(ByNewest(Beyond(Admitted(f), c)), n)
IntentsPage(f, c, n)   == Page(ByNewest(Beyond(Admitted(f), c)), n)
DecisionsPage(f, c, n) == Page(ByNewest(Beyond(Admitted(f), c)), n)
RuntimesPage(f, c, n)  == Page(ByNewest(Beyond(Admitted(f), c)), n)
WorkPage(c, n)         == Page(ByOldest(After(rows, c)), n)
CheckpointsPage(c, n)  == Page(ByOldest(After(rows, c)), n)
EventsPage(c, n)       == Page(ByOldest(After(rows, c)), n)

\* The attempts of an order as of the version of the first page.
Version == Cardinality(rows)
\* Mutant: a later page shows the attempts made since the first.
CurrentAttempts(anchor, c, n) == Page(ByOldest(After(rows, c)), n)
AttemptsPage(anchor, c, n) ==
  Page(ByOldest({r \in After(rows, c) : r.at < anchor}), n)

\* An account's events after a sequence number, up to its head.
LedgerPage(c, n) ==
  IF c # None /\ c.at + 1 >= Cardinality(rows) THEN [items |-> <<>>, more |-> FALSE]
  ELSE Page(ByOldest(After(rows, c)), n)

Anchored(rs, c) == c # None => \E r \in rs : r.id = c.id /\ r.at = c.at

\* What an audit page is refused for as corrupt: it is not from the first event on, or has a gap.
Contiguous(items, c) ==
  /\ (items # <<>> /\ c = None) => items[1].at = 0
  /\ \A i \in 2..Len(items) : items[i].at = items[i - 1].at + 1

Last(items) == items[Len(items)]

-----------------------------------------------------------------------------
(* Cursors: what they carry of the last row, and which of them are taken.   *)

AccountCursor(r)         == [collection |-> "accounts", id |-> r.id, at |-> r.at]
DecisionCursor(k, r)     == [collection |-> k, id |-> r.id, at |-> r.at]
RuntimeCursor(k, r, f)   == [collection |-> k, id |-> r.id, at |-> r.at, query |-> f]
ExecutionCursor(k, r, f, anchor) ==
  [collection |-> k, id |-> r.id, at |-> r.at, query |-> f, anchor |-> anchor]

AccountDecodes(c)         == c # None => c.collection = "accounts"
DecisionDecodes(c, k)     == c # None => c.collection = k
RuntimeDecodes(c, k, f)   == c # None => c.collection = k /\ c.query = f
ExecutionDecodes(c, k, f) == c # None => c.collection = k /\ c.query = f

-----------------------------------------------------------------------------
(* The routes.  A cursor may be sent to another collection than its own.    *)

Sent(k) == status = "reading" /\ (kind = k \/ (kind # "ledger" /\ cursor # None))

Told(items, next, f) ==
  LET before == IF asked = {} THEN Ids(rows) ELSE existed
      still  == IF asked = {} THEN Ids(rows) ELSE steady
  IN  /\ got' = got \o items
      /\ cursor' = next
      /\ status' = IF next = None THEN "done" ELSE "reading"
      /\ asked' = asked \union {f}
      /\ existed' = before
      /\ steady' = still \intersect Ids(Admitted(f))
      /\ UNCHANGED <<kind, rows, changes>>

Refused(k, f) ==
  /\ status' = "refused"
  /\ asked' = asked \union {f} \union (IF k = kind THEN {} ELSE {k})
  /\ UNCHANGED <<kind, rows, changes, cursor, got, existed, steady>>

Corrupt ==
  /\ status' = "corrupt"
  /\ UNCHANGED <<kind, rows, changes, cursor, got, asked, existed, steady>>

ListAccounts(f, n) ==
  /\ Sent("accounts")
  /\ \/ /\ AccountDecodes(cursor)
        /\ LET page == AccountsPage(f, cursor, n)
           IN  Told(page.items, IF page.more THEN AccountCursor(Last(page.items)) ELSE None, f)
     \/ ~AccountDecodes(cursor) /\ Refused("accounts", f)

ListDecisions(k, f, n, page) ==
  /\ Sent(k)
  /\ \/ /\ DecisionDecodes(cursor, k)
        /\ Told(page.items, IF page.more THEN DecisionCursor(k, Last(page.items)) ELSE None, f)
     \/ ~DecisionDecodes(cursor, k) /\ Refused(k, f)

ListSignals(f, n)   == ListDecisions("signals", f, n, SignalsPage(f, cursor, n))
ListIntents(f, n)   == ListDecisions("intents", f, n, IntentsPage(f, cursor, n))
ListRiskDecisions(f, n) == ListDecisions("decisions", f, n, DecisionsPage(f, cursor, n))

ListExecution(k, f, anchor, page) ==
  /\ Sent(k)
  /\ \/ /\ ExecutionDecodes(cursor, k, f)
        /\ Told(page.items,
                IF page.more THEN ExecutionCursor(k, Last(page.items), f, anchor) ELSE None, f)
     \/ ~ExecutionDecodes(cursor, k, f) /\ Refused(k, f)

ListOrders(f, n) == ListExecution("orders", f, None, OrdersPage(f, cursor, n))
ListFills(f, n)  == ListExecution("fills", f, None, FillsPage(f, cursor, n))

Anchor == IF cursor = None \/ cursor.collection # "attempts" THEN Version ELSE cursor.anchor

ListAttempts(n) ==
  ListExecution("attempts", None, Anchor, AttemptsPage(Anchor, cursor, n))

ListEvidence(k, f, among, intact, page) ==
  /\ Sent(k)
  /\ \/ /\ RuntimeDecodes(cursor, k, f) /\ Anchored(among, cursor)
        /\ IF intact THEN Told(page.items, IF page.more THEN RuntimeCursor(k, Last(page.items), f)
                                           ELSE None, f)
           ELSE Corrupt
     \/ ~(RuntimeDecodes(cursor, k, f) /\ Anchored(among, cursor)) /\ Refused(k, f)

ListRuntimes(f, n) == ListEvidence("runtimes", f, Admitted(f), TRUE, RuntimesPage(f, cursor, n))
ListWork(n)        == ListEvidence("work", None, rows, TRUE, WorkPage(cursor, n))
ListCheckpoints(n) == ListEvidence("checkpoints", None, rows, TRUE, CheckpointsPage(cursor, n))
ListAudit(n) ==
  LET page == EventsPage(cursor, n)
  IN  ListEvidence("audit", None, rows, Contiguous(page.items, cursor), page)

\* The ledger's pages need no cursor: the client sends the last sequence number back.
ListLedger(n) ==
  /\ kind = "ledger" /\ status = "reading"
  /\ LET page == LedgerPage(cursor, n)
     IN  Told(page.items, IF page.more THEN [at |-> Last(page.items).at] ELSE None, None)

List ==
  \E n \in Limits :
    \/ \E f \in Filters : ListAccounts(f, n) \/ ListSignals(f, n) \/ ListIntents(f, n)
                          \/ ListRiskDecisions(f, n) \/ ListOrders(f, n) \/ ListFills(f, n)
                          \/ ListRuntimes(f, n)
    \/ ListAttempts(n) \/ ListWork(n) \/ ListCheckpoints(n) \/ ListAudit(n) \/ ListLedger(n)

-----------------------------------------------------------------------------
(* The others: a new resource under an id that sorts anywhere, the next     *)
(* entry of a history, and a change of an account's or a runtime's state;   *)
(* what they do when the listing has ended is no matter to it.              *)

Create ==
  /\ status = "reading" /\ kind \in NewestFirst /\ Cardinality(rows) < MaxRows
  /\ \E i \in 1..MaxRows \ Ids(rows), t \in 1..MaxAt, g \in Tags :
       rows' = rows \union {[id |-> i, at |-> t, tag |-> g]}
  /\ UNCHANGED <<kind, changes, cursor, got, asked, existed, steady, status>>

Extend ==
  /\ status = "reading" /\ kind \in Histories /\ Cardinality(rows) < MaxRows
  /\ \E i \in 1..MaxRows \ Ids(rows), g \in Tags :
       rows' = rows \union {[id |-> i, at |-> Cardinality(rows), tag |-> g]}
  /\ UNCHANGED <<kind, changes, cursor, got, asked, existed, steady, status>>

Change ==
  /\ status = "reading" /\ kind \in Changing /\ changes < MaxChanges
  /\ \E r \in rows : \E g \in Tags \ {r.tag} :
       rows' = (rows \ {r}) \union {[id |-> r.id, at |-> r.at, tag |-> g]}
  /\ changes' = changes + 1
  /\ UNCHANGED <<kind, cursor, got, asked, existed, steady, status>>

Next == List \/ Create \/ Extend \/ Change

Spec     == Init /\ [][Next]_vars

-----------------------------------------------------------------------------

TypeOK ==
  /\ kind \in Collections
  /\ rows \subseteq [id : 1..MaxRows, at : Positions, tag : Tags]
  /\ cursor \in Cursors \union {None}
  /\ \A i \in DOMAIN got : got[i].id \in Ids(rows)
  /\ existed \subseteq Ids(rows) /\ steady \subseteq existed
  /\ status \in {"reading", "done", "refused"}

\* A listing tells no row twice and keeps its order over the pages, whatever is created
\* or changed between them, with a filter that changes and a clock that steps back
\* (the keyset predicates of list_*_page).
InOrderOnce ==
  \A i, j \in DOMAIN got : i < j =>
    IF kind \in NewestFirst THEN Newer(got[i], got[j]) ELSE Earlier(got[i], got[j])

\* A listing that has come to its end has told every row that was there when it began
\* and that the filter of each page admitted at that page.
NothingSkipped ==
  status = "done" => steady \subseteq {got[i].id : i \in DOMAIN got}

\* A cursor that the client sends back with the query it came from is refused only in a
\* listing of runtimes by their state, whose anchor has changed state since
\* (paper_runtime_invalid_cursor), and never because of what others have created.
RefusedForCause ==
  (status = "refused" /\ Cardinality(asked) = 1) =>
    /\ kind = "runtimes"
    /\ \E r \in rows : r.id = cursor.id /\ \E i \in DOMAIN got : got[i].id = r.id /\ got[i].tag # r.tag

\* A listing of attempts tells the history as it was at its first page, although the order
\* is stepped while the client reads on (version_anchor).
AttemptsAreAsOf ==
  (kind = "attempts" /\ status = "done") =>
    {got[i].id : i \in DOMAIN got} = existed

\* A listing tells every row there was at its first page, none twice and in order; an
\* order's attempts as they were then; and refuses a cursor only for a cause.
ListingsAreWhole ==
  TypeOK /\ NothingSkipped /\ InOrderOnce /\ AttemptsAreAsOf /\ RefusedForCause
=============================================================================
