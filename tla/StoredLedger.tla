---------------------------- MODULE StoredLedger ----------------------------
(***************************************************************************)
(* The rows of one paper account (M31): its account row, its events and    *)
(* their two kinds of postings.  The program reads them in three ways: a   *)
(* full load applies every command again and then replays what comes of    *)
(* it, a page of the ledger checks its rows alone, and the cash ledger can *)
(* be replayed without positions.  Rows are lost, edited, or put back      *)
(* table by table from a copy of the file, on which the program may have   *)
(* gone on by itself.  A digest is its content, and a chain digest the     *)
(* sequence of the events it covers.                                       *)
(***************************************************************************)
EXTENDS PaperLedger, FiniteSets, SequencesExt

CONSTANTS
  Command,
  Absent,      \* no row
  Refused,     \* what a reader or a writer answers that raises an error
  MaxVersion,  \* bound: events of the account
  MaxHarm      \* bound: changes from outside, a copy included

VARIABLES
  tables,   \* [account, events by sequence number, cash and position postings by event]
  copy,     \* a copy of the tables
  written,  \* the histories that were committed
  harms     \* what has happened to the tables from outside

-----------------------------------------------------------------------------
(* The writers: a command in a state gives postings and the next state.    *)
(* Those that move no position see the state without its positions.        *)

CashState(s) == [status |-> s.status, cash |-> s.cash, links |-> s.links]
FullState(c, positions) ==
  [status |-> c.status, cash |-> c.cash, links |-> c.links, positions |-> positions]

Outcome(cash, position, state) == [cash |-> cash, position |-> position, state |-> state]

CashEntry(movement, amount) == [movement |-> movement, amount |-> amount]

CreateBundle(c) ==
  Outcome(CashEntry("initial_cash", c.cash), Absent,
          [status |-> "active", cash |-> c.cash, links |-> {}])

ApplyCash(s, c) ==
  IF s.status = "active" /\ s.cash + Signed(c) >= 0
  THEN Outcome(CashEntry(c.movement, Signed(c)), Absent, [s EXCEPT !.cash = @ + Signed(c)])
  ELSE Refused

ApplyLink(s, c) ==
  IF s.status = "active" /\ c.decision \notin s.links
  THEN Outcome(Absent, Absent, [s EXCEPT !.links = @ \union {c.decision}])
  ELSE Refused

Target == [freeze |-> "frozen", reactivate |-> "active", close |-> "closed"]

\* The caller says whether the account is empty: the cash state cannot tell.
ApplyLifecycle(s, c, eligible) ==
  IF <<s.status, c.type>> \in Transitions /\ (c.type = "close" => s.cash = 0 /\ eligible)
  THEN Outcome(Absent, Absent, [s EXCEPT !.status = Target[c.type]])
  ELSE Refused

PositionEntry(c, e) == [symbol |-> c.symbol, quantity |-> e.quantity, cost |-> e.cost]

\* These two see all of the state.
ApplyAdjustment(s, c) ==
  IF Applicable(s, c)
  THEN Outcome(Absent, PositionEntry(c, Effect(s, c)), Posted(s, c, Effect(s, c)))
  ELSE Refused

ApplyFill(s, c) ==
  IF Applicable(s, c)
  THEN Outcome(CashEntry("execution_settlement", FillEffect(s, c).cash),
               PositionEntry(c, FillEffect(s, c)), Posted(s, c, FillEffect(s, c)))
  ELSE Refused

Lifted(outcome, positions) ==
  IF outcome = Refused THEN Refused
  ELSE [outcome EXCEPT !.state = FullState(@, positions)]

\* Mutant: a close is applied without a look at the positions.
EligibleByCash(s) == s.cash = 0
Eligible(s) == s.cash = 0 /\ \A y \in Symbol : s.positions[y] = Flat

Apply(s, c) ==
  IF (s.status = "none") # (c.type = "create") THEN Refused
  ELSE CASE c.type = "position" -> ApplyAdjustment(s, c)
         [] c.type = "fill"   -> ApplyFill(s, c)
         [] c.type = "create" -> Lifted(CreateBundle(c), s.positions)
         [] c.type = "cash"   -> Lifted(ApplyCash(CashState(s), c), s.positions)
         [] c.type = "link"   -> Lifted(ApplyLink(CashState(s), c), s.positions)
         [] OTHER -> Lifted(ApplyLifecycle(CashState(s), c, Eligible(s)), s.positions)

-----------------------------------------------------------------------------
(* Rows.                                                                   *)

EventOf(id, c, cash, position) ==
  [id |-> id, command |-> c, cash |-> cash, position |-> position]

EventRow(event, prev) ==
  [id |-> event.id, command |-> event.command, prev |-> prev, digest |-> event,
   chain |-> Append(prev, event)]

\* The postings of an event, if it has any.
PostingOf(rows, id) == IF id \in DOMAIN rows THEN rows[id] ELSE Absent
WithPosting(rows, id, posting) ==
  IF posting = Absent THEN rows ELSE [i \in DOMAIN rows \union {id} |->
                                        IF i = id THEN posting ELSE rows[i]]

RowIds(rows) == {rows[n].id : n \in DOMAIN rows}

\* A row, read with its postings, is the event it says, and follows the chain.
RowIsEvent(row, event, chain) ==
  row.prev = chain /\ row.digest = event /\ row.chain = Append(chain, event)

-----------------------------------------------------------------------------
(* The full load.                                                          *)

Start == [state |-> Genesis, history |-> <<>>]

FollowedBy(s, event, made) ==
  IF made = Refused THEN Refused
  ELSE [state |-> made.state, history |-> Append(s.history, event)]

\* One row: its command is applied again, and gives the postings that are stored.
AsStored(t, s, row, made) ==
  LET event == EventOf(row.id, row.command, made.cash, made.position) IN
  IF /\ made # Refused
     /\ PostingOf(t.cash, row.id) = made.cash
     /\ PostingOf(t.positions, row.id) = made.position
     /\ RowIsEvent(row, event, s.history)
  THEN FollowedBy(s, event, made) ELSE Refused

NextOf(t, s, row) == AsStored(t, s, row, Apply(s.state, row.command))

EffectOf(event) ==
  [cash     |-> IF event.cash = Absent THEN 0 ELSE event.cash.amount,
   quantity |-> IF event.position = Absent THEN 0 ELSE event.position.quantity,
   cost     |-> IF event.position = Absent THEN 0 ELSE event.position.cost]

Replay(history) ==
  FoldLeft(LAMBDA s, event : Replayed(s, [command |-> event.command, effect |-> EffectOf(event)]),
           Genesis, history)

HeadOf(state, history) ==
  [status |-> state.status, version |-> Len(history), head |-> Last(history).id,
   chain |-> history]

NoOrphans(t) == DOMAIN t.cash \union DOMAIN t.positions \subseteq RowIds(t.events)

Verified(t, history, replayed) ==
  IF /\ NoOrphans(t)
     /\ Cardinality(RowIds(t.events)) = Len(history)
     /\ replayed # Corrupt
     /\ t.account = HeadOf(replayed, history)
  THEN history ELSE Refused

\* The rows, one after the other.
ReadRows(t) ==
  FoldLeft(LAMBDA s, row : IF s = Refused THEN Refused ELSE NextOf(t, s, row), Start, t.events)

\* The history, or Refused.
Load(t) ==
  IF t.account = Absent \/ t.events = <<>> \/ DOMAIN t.events # 1..Cardinality(DOMAIN t.events)
  THEN Refused
  ELSE LET Whole(read) ==
             IF read = Refused THEN Refused ELSE Verified(t, read.history, Replay(read.history))
       IN Whole(ReadRows(t))

-----------------------------------------------------------------------------
(* A page of the ledger.                                                   *)

\* What the row of each kind of event and its postings must look like.
CreationFits(c, cash, position, n) ==
  n = 1 /\ position = Absent /\ (cash # Absent => cash.amount = c.cash) /\ cash # Absent
MovementFits(c, cash, position) ==
  position = Absent /\ cash # Absent /\ (cash # Absent => cash.amount = Signed(c))
AdjustmentFits(c, cash, position) ==
  cash = Absent /\ position = PositionEntry(c, c)
LinkFits(cash, position) == cash = Absent /\ position = Absent
LifecycleFits(cash, position) == cash = Absent /\ position = Absent
\* A fill says less than it posts: only a full load can verify it.
FillFits(whole, row, cash, position) ==
  whole # Refused /\ EventOf(row.id, row.command, cash, position) \in Range(whole)

ItemFits(whole, n, row, cash, position) ==
  LET c == row.command IN
  CASE c.type = "create"   -> CreationFits(c, cash, position, n)
    [] c.type = "cash"     -> MovementFits(c, cash, position)
    [] c.type = "position" -> AdjustmentFits(c, cash, position)
    [] c.type = "fill"     -> FillFits(whole, row, cash, position)
    [] c.type = "link"     -> LinkFits(cash, position)
    [] OTHER               -> LifecycleFits(cash, position)

Selected(t, after, limit) ==
  LET later == {n \in DOMAIN t.events : n > after} IN
  {n \in later : Cardinality({m \in later : m < n}) < limit}

Anchor(t, after) ==
  IF after = 0 THEN <<>> ELSE IF after \in DOMAIN t.events THEN t.events[after].chain ELSE Refused

\* The events of a page, or Refused; whole is what a load gives.
Page(t, whole, after, limit) ==
  LET picked == Selected(t, after, limit)
      k      == Cardinality(picked)
      event(n) == EventOf(t.events[n].id, t.events[n].command,
                          PostingOf(t.cash, t.events[n].id), PostingOf(t.positions, t.events[n].id))
      page   == [i \in 1..k |-> event(after + i)]
      chain(i) == Anchor(t, after) \o SubSeq(page, 1, i - 1) IN
  IF after >= t.account.version THEN <<>>
  ELSE IF k = 0 \/ picked # (after + 1)..(after + k) \/ Anchor(t, after) = Refused THEN Refused
  ELSE IF /\ \A i \in 1..k :
               /\ ItemFits(whole, after + i, t.events[after + i], page[i].cash, page[i].position)
               /\ RowIsEvent(t.events[after + i], page[i], chain(i))
          /\ after + k = t.account.version =>
               t.account.head = page[k].id /\ t.account.chain = t.events[after + k].chain
       THEN page ELSE Refused

-----------------------------------------------------------------------------
(* The replay of a ledger that has no positions.                           *)

CreationReplayed(s, event, c) ==
  IF event.cash = CashEntry("initial_cash", c.cash) /\ c.cash >= 0
  THEN [s EXCEPT !.status = "active", !.cash = c.cash] ELSE Corrupt

MovementReplayed(s, event, c) ==
  IF s.status = "active" /\ event.cash = CashEntry(c.movement, Signed(c)) /\ s.cash + Signed(c) >= 0
  THEN [s EXCEPT !.cash = @ + Signed(c)] ELSE Corrupt

LinkReplayed(s, event, c) ==
  IF event.cash = Absent /\ s.status = "active" /\ c.decision \notin s.links
  THEN [s EXCEPT !.links = @ \union {c.decision}] ELSE Corrupt

LifecycleReplayed(s, event, c) ==
  IF event.cash = Absent /\ <<s.status, c.type>> \in Transitions /\ (c.type = "close" => s.cash = 0)
  THEN [s EXCEPT !.status = Target[c.type]] ELSE Corrupt

CashReplayed(s, event) ==
  LET c == event.command IN
  IF s = Corrupt THEN Corrupt
  ELSE IF s.status = "closed" \/ (s.status = "none") # (c.type = "create") THEN Corrupt
  ELSE CASE c.type = "create" -> CreationReplayed(s, event, c)
         [] c.type = "cash"   -> MovementReplayed(s, event, c)
         [] c.type = "link"   -> LinkReplayed(s, event, c)
         [] c.type \in DOMAIN Target -> LifecycleReplayed(s, event, c)
         [] OTHER -> Corrupt

CashReplay(history) == FoldLeft(CashReplayed, CashState(Genesis), history)

-----------------------------------------------------------------------------
(* What happens to the tables.                                             *)

NoRows == [account |-> Absent, events |-> <<>>, cash |-> <<>>, positions |-> <<>>]

StoredInit == tables = NoRows /\ copy = NoRows /\ written = {} /\ harms = 0

\* A command: the account is loaded, the command applied, its rows are added and the
\* account row moves, in one transaction.
Extended(t, c, history, made) ==
  LET id    == Cardinality(written) + 1
      event == EventOf(id, c, made.cash, made.position) IN
  IF made = Refused THEN Refused
  ELSE [account   |-> HeadOf(made.state, Append(history, event)),
        events    |-> Append(t.events, EventRow(event, history)),
        cash      |-> WithPosting(t.cash, id, made.cash),
        positions |-> WithPosting(t.positions, id, made.position)]

Appended(t, c, history) ==
  IF history = Refused THEN Refused ELSE Extended(t, c, history, Apply(Replay(history), c))

Committed(t, c) == Appended(t, c, IF t = NoRows THEN <<>> ELSE Load(t))

\* On what somebody has changed no command is sent.
Commit(t, c, t2) ==
  /\ harms = 0 /\ Len(t.events) < MaxVersion
  /\ t2 \in {Committed(t, c)} \ {Refused}
  /\ written' = written \union {t2.account.chain}

CommitHere(c) ==
  /\ Commit(tables, c, tables')
  /\ UNCHANGED <<copy, harms>>

\* The program runs on the copy.
CommitThere(c) ==
  /\ copy # NoRows
  /\ Commit(copy, c, copy')
  /\ UNCHANGED <<tables, harms>>

\* Somebody copies the file.
CopyOut ==
  /\ harms = 0 /\ tables # NoRows /\ copy = NoRows
  /\ copy' = tables
  /\ UNCHANGED <<tables, written, harms>>

Harm ==
  /\ harms + (IF copy = NoRows THEN 0 ELSE 1) < MaxHarm
  /\ harms' = harms + 1 /\ UNCHANGED <<copy, written>>

\* Some of the tables are put back from the copy.
PutBack ==
  /\ Harm /\ copy # NoRows
  /\ \E names \in SUBSET DOMAIN tables :
       tables' = [name \in DOMAIN tables |-> IF name \in names THEN copy[name] ELSE tables[name]]

\* One event is put back from the copy, with its postings.
PutBackEvent ==
  /\ Harm /\ copy # NoRows
  /\ \E n \in DOMAIN tables.events \intersect DOMAIN copy.events :
       LET id == copy.events[n].id IN
       tables' = [tables EXCEPT
         !.events[n] = copy.events[n],
         !.cash = WithPosting(@, id, PostingOf(copy.cash, id)),
         !.positions = WithPosting(@, id, PostingOf(copy.positions, id))]

Without(rows, k) == [i \in DOMAIN rows \ {k} |-> rows[i]]

\* A row is deleted.
Lose ==
  /\ Harm
  /\ \E name \in {"events", "cash", "positions"} : \E k \in DOMAIN tables[name] :
       tables' = [tables EXCEPT ![name] = Without(@, k)]

\* A value is edited: the command of an event, or the amount of a posting.
Edit ==
  /\ Harm
  /\ \/ \E n \in DOMAIN tables.events, c \in Command :
          /\ c.type = tables.events[n].command.type /\ c # tables.events[n].command
          /\ tables' = [tables EXCEPT !.events[n].command = c]
     \/ \E k \in DOMAIN tables.cash : tables' = [tables EXCEPT !.cash[k].amount = @ + 1]
     \/ \E k \in DOMAIN tables.positions : tables' = [tables EXCEPT !.positions[k].cost = @ + 1]

StoredNext == (\E c \in Command : CommitHere(c) \/ CommitThere(c)) \/ CopyOut \/ PutBack \/ PutBackEvent \/ Lose \/ Edit

-----------------------------------------------------------------------------
(* Properties.                                                             *)

\* What the program has written loads again as it was written, as long as nobody else
\* has touched it: the writers, of which some never see the positions, the mapping that
\* applies every command again and the replay, which states their rules anew, agree.
WrittenLoads ==
  harms = 0 /\ tables # NoRows =>
    \E h \in {Load(tables)} \intersect written : Len(h) = tables.account.version

\* Nothing loads that was not written in one piece: rows that are lost or edited, and
\* tables of two moments or of two histories put together, are refused.
OnlyWrittenLoads ==
  \A h \in {Load(tables)} \ {Refused} :
    /\ h \in written
    /\ DOMAIN tables.cash = {h[i].id : i \in {j \in DOMAIN h : h[j].cash # Absent}}
    /\ DOMAIN tables.positions = {h[i].id : i \in {j \in DOMAIN h : h[j].position # Absent}}

\* Of an account that loads, every page shows just its part of the history, however the
\* pages are cut; and of one that does not load, what two pages show that follow each
\* other is still a part of one history that was written.
PagesAreOfHistory ==
  tables.account # Absent =>
    \A whole \in {Load(tables)}, after \in 0..(MaxVersion - 1), limit \in 1..2 :
      \A page \in {Page(tables, whole, after, limit)} :
        /\ whole # Refused =>
             page = SubSeq(whole, after + 1, Min({after + limit, Len(whole)}))
        /\ page \notin {Refused, <<>>} =>
             \A next \in {Page(tables, whole, after + Len(page), limit)} :
               LET seen == IF next = Refused THEN page ELSE page \o next IN
               \E h \in written :
                 Len(h) >= after + Len(seen) /\ seen = SubSeq(h, after + 1, after + Len(seen))

\* As long as no position has moved, the replay of the cash ledger gives what the replay
\* of the whole ledger gives, and it refuses a ledger with positions.
CashReplayAgrees ==
  harms = 0 =>
    \A h \in {Load(tables)} \ {Refused} :
      CashReplay(h) = IF \E i \in DOMAIN h : h[i].position # Absent THEN Corrupt
                      ELSE CashState(Replay(h))

\* A closed account holds nothing, although the function that closes it cannot see what
\* it holds.
ClosedIsEmpty == tables.account # Absent /\ tables.account.status = "closed" /\ harms = 0 =>
  Empty(Replay(tables.account.chain))
=============================================================================
