----------------------------- MODULE OrderHistory -----------------------------
(***************************************************************************)
(* GET /accounts/{account}/orders: a client walks an account's orders page *)
(* by page, newest first, while orders are inserted and filled.  A page is *)
(* three queries with an await after each, and created_at is the start of  *)
(* the inserting transaction, so orders may commit out of that order.      *)
(***************************************************************************)
EXTENDS Naturals, Sequences, FiniteSets, TLC, Vocabulary

CONSTANTS HistoryCid,               \* numbers: client_order_id is compared
          HistoryLimit,             \* the client's limit
          MaxClock, MaxFills        \* bounds

ASSUME HistoryAssumption ==
  HistoryCid \subseteq Nat /\ HistoryLimit \in Nat \ {0} /\ MaxClock \in Nat /\ MaxFills \in Nat

VARIABLES now,      \* the database's clock
          stored,   \* [HistoryCid -> NULL or [created_at, mine, committed]]
          filled,   \* [HistoryCid -> rows of execution.fills, one unit each]
          walk      \* the client's walk and the page now being read
historyVars == <<now, stored, filled, walk>>

Committed == {c \in HistoryCid : stored[c] # NULL /\ stored[c].committed}

HistoryInit ==
  /\ now = 0
  /\ stored = [c \in HistoryCid |-> NULL] /\ filled = [c \in HistoryCid |-> 0]
  /\ walk = [at |-> "idle", query |-> NULL, window |-> NULL, before |-> NULL, rows |-> <<>>,
             fills |-> NULL, seen |-> <<>>, expected |-> NULL, since |-> NULL]
-----------------------------------------------------------------------------
(* INSERT INTO execution.orders, and its commit; orders of others too. *)
inserting(c) ==
  /\ stored[c] = NULL
  /\ \E mine \in BOOLEAN :
       stored' = [stored EXCEPT ![c] = [created_at |-> now, mine |-> mine, committed |-> FALSE]]
  /\ UNCHANGED <<now, filled, walk>>

committing(c) ==
  /\ stored[c] # NULL /\ c \notin Committed
  /\ stored' = [stored EXCEPT ![c].committed = TRUE]
  /\ UNCHANGED <<now, filled, walk>>

filling(c) ==
  /\ c \in Committed /\ filled[c] < MaxFills
  /\ filled' = [filled EXCEPT ![c] = @ + 1]
  /\ UNCHANGED <<now, stored, walk>>

passing == now < MaxClock /\ now' = now + 1 /\ UNCHANGED <<stored, filled, walk>>
-----------------------------------------------------------------------------
(* The order of the two columns, as PostgreSQL compares rows. *)
Before(a, b) ==
  a.created_at < b.created_at \/ (a.created_at = b.created_at /\ a.cid < b.cid)

(* _aware: a timestamp without an offset is refused, a missing one has a default. *)
_aware(query) == [since |-> Given(query.since, 0), until |-> Given(query.until, now)]

(* The route: the window and the cursor are read, then the rows are asked for. *)
asking(query, cursor) ==
  walk' = IF query.zoned
          THEN [walk EXCEPT !.at = "rows", !.query = query, !.window = _aware(query),
                            !.before = cursor]
          ELSE [walk EXCEPT !.at = "refused"]

(* Variant: a page starts below the cursor's timestamp. *)
Matching_ts(w, before) ==
  {c \in Committed :
     /\ stored[c].mine
     /\ stored[c].created_at >= w.since /\ stored[c].created_at < w.until
     /\ before # NULL => stored[c].created_at < before.created_at}

(* The WHERE of _SELECT_ACCOUNT_ORDERS. *)
Matching(w, before) ==
  {c \in Committed :
     /\ stored[c].mine
     /\ stored[c].created_at >= w.since /\ stored[c].created_at < w.until
     /\ before # NULL => Before([created_at |-> stored[c].created_at, cid |-> c], before)}

(* Its ORDER BY and LIMIT: the newest n of a set, each with its filled_qty. *)
Newest(cids, n) ==
  LET Row(c) == [created_at |-> stored[c].created_at, cid |-> c, filled_qty |-> filled[c]]
      Above(c) == {d \in cids : Before(Row(c), Row(d))}
      size == IF Cardinality(cids) < n THEN Cardinality(cids) ELSE n
  IN [i \in 1..size |-> Row(CHOOSE c \in cids : Cardinality(Above(c)) = i - 1)]

fetch_account_orders ==
  /\ walk.at = "rows"
  /\ walk' = [walk EXCEPT !.at = "fills",
                !.rows = Newest(Matching(walk.window, walk.before), HistoryLimit + 1),
                !.expected = IF @ = NULL THEN Matching(walk.window, NULL) ELSE @]
  /\ UNCHANGED <<now, stored, filled>>

fetch_fills_for_orders ==
  /\ walk.at = "fills"
  /\ walk' = [walk EXCEPT !.at = "first",
                !.fills = [c \in {walk.rows[i].cid : i \in DOMAIN walk.rows} |-> filled[c]]]
  /\ UNCHANGED <<now, stored, filled>>

(* The last query, then the answer: the page, and a cursor if a row is left over. *)
fetch_first_order_at ==
  LET size == IF Len(walk.rows) < HistoryLimit THEN Len(walk.rows) ELSE HistoryLimit
      page == [i \in 1..size |->
                 walk.rows[i] @@ [fills |-> walk.fills[walk.rows[i].cid]]]
      more == Len(walk.rows) > HistoryLimit
  IN /\ walk.at = "first"
     /\ walk' = [walk EXCEPT
          !.at = IF more THEN "paged" ELSE "done", !.rows = <<>>, !.fills = NULL,
          !.before = IF more THEN [created_at |-> page[size].created_at, cid |-> page[size].cid]
                     ELSE NULL,
          !.seen = @ \o page,
          !.since = IF Committed = {} THEN NULL
                    ELSE CHOOSE t \in {stored[c].created_at : c \in Committed} :
                           \A c \in Committed : t <= stored[c].created_at]
     /\ UNCHANGED <<now, stored, filled>>

(* The client: a first page, the next one by its cursor, or a cursor no page gave. *)
walking ==
  /\ \/ /\ walk.at = "idle"
        /\ \E since, until \in (0..MaxClock) \cup {NULL}, zoned \in BOOLEAN :
             asking([since |-> since, until |-> until, zoned |-> zoned], NULL)
     \/ walk.at = "paged" /\ asking(walk.query, walk.before)
     \/ walk.at = "paged" /\ walk' = [walk EXCEPT !.at = "refused"]
  /\ UNCHANGED <<now, stored, filled>>

HistoryNext ==
  \/ passing \/ walking
  \/ fetch_account_orders \/ fetch_fills_for_orders \/ fetch_first_order_at
  \/ \E c \in HistoryCid : inserting(c) \/ committing(c) \/ filling(c)
HistorySpec == HistoryInit /\ [][HistoryNext]_historyVars
-----------------------------------------------------------------------------
(* A walk shows the account as it is, though orders share timestamps, and are *)
(* inserted and filled during the walk: it lists no order twice, newest       *)
(* first, and when it is done every order of the window that was committed    *)
(* when it began (db/repositories.py, _SELECT_ACCOUNT_ORDERS).  Whatever      *)
(* happens between the three queries of a page, a listed order shows at least *)
(* the fills its filled_qty counts, and complete_since is no later than any   *)
(* order listed (core/router.py, get_order_history).                          *)
WalkIsComplete ==
  /\ \A i, j \in DOMAIN walk.seen : i < j => Before(walk.seen[j], walk.seen[i])
  /\ walk.at = "done" =>
       \A c \in walk.expected : \E i \in DOMAIN walk.seen : walk.seen[i].cid = c
  /\ \A i \in DOMAIN walk.seen :
       /\ walk.seen[i].filled_qty <= walk.seen[i].fills
       /\ walk.since <= walk.seen[i].created_at
=============================================================================
