------------------------------- MODULE OrderBook -------------------------------
(***************************************************************************)
(* The order-book feed: the reference-counted subscriptions and the cache  *)
(* of order_book/service.py, the one provider the router can route to, and *)
(* that provider's reader task (order_book/providers/liberator.py).        *)
(*                                                                         *)
(* A connection is one SSE stream.  What a coroutine does between two      *)
(* awaits is one step; ws.send is written at once.  The id the venue gives *)
(* the order book of a symbol is the symbol itself.  A _Subscription is    *)
(* known by the connection that created it.                                *)
(***************************************************************************)
EXTENDS Naturals, Sequences, FiniteSets, SequencesExt, Vocabulary

CONSTANTS
  Sym, BookMarket, Conn,
  Target,       \* [Conn -> Sym \X BookMarket]: the stream each connection asks for
  Task,         \* the reader tasks that may be created
  BookQueueSize, \* of a subscriber's queue
  MaxSymbols,   \* of the cache
  MaxBooks,     \* [Sym -> Nat]: frames the venue sends for a symbol
  MaxOutages,   \* connections that fail or drop
  BookFaults    \* which overlaps and failures may happen: see the actions

ASSUME OrderBookAssumption ==
  /\ Target \in [Conn -> Sym \X BookMarket]
  /\ BookQueueSize \in Nat \ {0} /\ MaxSymbols \in Nat \ {0}
  /\ MaxBooks \in [Sym -> Nat] /\ MaxOutages \in Nat

VARIABLES
  cache,        \* the keys held, least recently used first
  subscribers,  \* [BookKey -> SUBSET Conn]: whose queues are fed
  refcounts,    \* [BookKey -> Nat]
  conn,         \* [Conn -> BookConnection]
  queue,        \* [Conn -> Seq of books]
  books,        \* [Sym -> Nat]: frames sent so far; a book is its number
  subs,         \* [Sym -> Subscription]: _subs
  resolved,     \* the subscriptions whose order_book_id is known
  by_room,      \* [Sym -> BookMarket]: the subscription a room's frames belong to
  ws,           \* _ws: the session of the live connection
  reader,       \* _reader
  task,         \* [Task -> Reader]
  sessions,     \* connections opened so far
  outages

serviceVars == <<cache, subscribers, refcounts, conn, queue>>
providerVars == <<subs, resolved, by_room, ws, reader, task>>
bookVars == <<serviceVars, providerVars, books, sessions, outages>>

BookKey == Sym \X BookMarket
symbol(c) == Target[c][1]
market(c) == Target[c][2]

Subscription == [symbol : Sym, market : BookMarket, owner : Conn]
BookConnection == [pc : {"start", "subscribe", "streaming", "unsubscribe", "closed"},
               sub : Subscription \cup {NULL}, ws : Nat, task : Task \cup {NULL}]
Reader == [pc : {"none", "connect", "join", "recv", "closing", "done"}, cancelled : BOOLEAN,
           session : Nat, todo : SUBSET Subscription, ids : SUBSET Sym, rooms : SUBSET Sym]

NoSubs == [s \in Sym |-> NULL]
NoTask == [pc |-> "none", cancelled |-> FALSE, session |-> 0,
           todo |-> {}, ids |-> {}, rooms |-> {}]
At(label) == [pc |-> label, sub |-> NULL, ws |-> 0, task |-> NULL]

BookInit ==
  /\ cache = <<>>
  /\ subscribers = [k \in BookKey |-> {}]
  /\ refcounts = [k \in BookKey |-> 0]
  /\ conn = [c \in Conn |-> At("start")]
  /\ queue = [c \in Conn |-> <<>>]
  /\ books = [s \in Sym |-> 0]
  /\ subs = NoSubs
  /\ resolved = {}
  /\ by_room = [s \in Sym |-> NULL]
  /\ ws = 0
  /\ reader = NULL
  /\ task = [t \in Task |-> NoTask]
  /\ sessions = 0
  /\ outages = 0

(* A session is open from the handshake to the end of its recv loop. *)
InSession(t) == task[t].pc \in {"join", "recv"}
Opened(n, t) == InSession(t) /\ task[t].session = n

NoReader == IF reader = NULL THEN TRUE ELSE task[reader].pc = "done"

-----------------------------------------------------------------------------
(* The cache and the fan-out. *)

Touched(k) == Append(SelectSeq(cache, LAMBDA x : x # k), k)

_evict(held) ==
  IF Len(held) > MaxSymbols
  THEN SubSeq(held, Len(held) - MaxSymbols + 1, Len(held)) ELSE held

(* A read moves a fresh book to the end; a stale one reads as absent. *)
book_get(k, fresh) ==
  cache' = IF k \in Range(cache) /\ fresh THEN Touched(k) ELSE cache

(* Variant: a full queue keeps what it has. *)
put_drop_newest(q, book) == IF Len(q) = BookQueueSize THEN q ELSE Append(q, book)

put(q, book) == Append(IF Len(q) = BookQueueSize THEN Tail(q) ELSE q, book)

book_publish(k, book) ==
  /\ cache' = _evict(Touched(k))
  /\ queue' = [c \in Conn |-> IF c \in subscribers[k] THEN put(queue[c], book) ELSE queue[c]]

(* GET /order-book/{symbol} *)
order_book_snapshot ==
  /\ \E k \in Range(cache), fresh \in BOOLEAN : book_get(k, fresh)
  /\ UNCHANGED <<subscribers, refcounts, conn, queue, providerVars, books, sessions, outages>>

-----------------------------------------------------------------------------
(* provider.subscribe, for the connection c that is the first of its key. *)

join_room(sub, n) ==
  /\ by_room' = [by_room EXCEPT ![sub.symbol] = sub.market]
  /\ task' = [t \in Task |-> IF Opened(n, t)
                             THEN [task[t] EXCEPT !.rooms = @ \cup {sub.symbol}] ELSE task[t]]

(* The end of _acquire: the stream begins with what the cache holds. *)
Stream(c) ==
  /\ conn' = [conn EXCEPT ![c] = At("streaming")]
  /\ \E fresh \in BOOLEAN : book_get(Target[c], fresh)

(* Variant: rooms are joined when a session starts, and only then. *)
subscribe_lazily(c) ==
  LET s == symbol(c)
      sub == IF subs[s] = NULL THEN [symbol |-> s, market |-> market(c), owner |-> c] ELSE subs[s]
  IN
  /\ subs' = [subs EXCEPT ![s] = sub]
  /\ UNCHANGED <<ws, resolved, by_room>>
  /\ IF NoReader
     THEN \E t \in Task : /\ task[t].pc = "none" /\ reader' = t
                          /\ task' = [task EXCEPT ![t].pc = "connect"]
     ELSE UNCHANGED <<reader, task>>
  /\ Stream(c)

book_subscribe(c) ==
  LET s == symbol(c)
      sub == IF subs[s] = NULL THEN [symbol |-> s, market |-> market(c), owner |-> c] ELSE subs[s]
  IN
  /\ subs' = [subs EXCEPT ![s] = sub]
  /\ UNCHANGED <<ws, resolved>>
  /\ \/ /\ NoReader
        /\ \E t \in Task : /\ task[t].pc = "none" /\ reader' = t
                           /\ task' = [task EXCEPT ![t].pc = "connect"]
        /\ Stream(c)
        /\ UNCHANGED by_room
     \/ /\ ~NoReader /\ UNCHANGED reader
        /\ \/ ws = 0 /\ Stream(c) /\ UNCHANGED <<by_room, task>>
           \/ ws # 0 /\ sub.owner \in resolved /\ join_room(sub, ws) /\ Stream(c)
           \/ /\ ws # 0 /\ sub.owner \notin resolved
              /\ conn' = [conn EXCEPT ![c] = [At("subscribe") EXCEPT !.sub = sub, !.ws = ws]]
              /\ UNCHANGED <<by_room, task, cache>>

(* Entering the subscription.  With the fault "overlap" a stream may be     *)
(* opened while another one is taking the reader down.                      *)
_acquire(c) ==
  /\ conn[c].pc = "start"
  /\ "overlap" \in BookFaults \/ \A d \in Conn : conn[d].pc # "unsubscribe"
  /\ subscribers' = [subscribers EXCEPT ![Target[c]] = @ \cup {c}]
  /\ refcounts' = [refcounts EXCEPT ![Target[c]] = @ + 1]
  /\ IF refcounts[Target[c]] = 0 THEN book_subscribe(c)
     ELSE Stream(c) /\ UNCHANGED providerVars
  /\ UNCHANGED <<queue, books, sessions, outages>>

(* _resolve_order_book_id answers; the room is joined on the socket the     *)
(* call began with.  With the fault "resolve" the id may not be found.      *)
BookAnswers == IF "resolve" \in BookFaults THEN BOOLEAN ELSE {TRUE}

live_join(c) ==
  /\ conn[c].pc = "subscribe"
  /\ \E found \in BookAnswers :
       /\ resolved' = IF found THEN resolved \cup {conn[c].sub.owner} ELSE resolved
       /\ IF found THEN join_room(conn[c].sub, conn[c].ws) ELSE UNCHANGED <<by_room, task>>
  /\ Stream(c)
  /\ UNCHANGED <<subscribers, refcounts, queue, subs, ws, reader, books, sessions, outages>>

(* provider.unsubscribe: leave the room, and take the reader down with the  *)
(* last subscription.                                                       *)
book_unsubscribe(c) ==
  LET s == symbol(c)
      known == subs[s] # NULL /\ subs[s].owner \in resolved
      left == IF known THEN [t \in Task |-> IF Opened(ws, t)
                               THEN [task[t] EXCEPT !.rooms = @ \ {s}] ELSE task[t]]
              ELSE task
      last == [subs EXCEPT ![s] = NULL] = NoSubs
  IN
  /\ subs' = [subs EXCEPT ![s] = NULL]
  /\ by_room' = IF known THEN [by_room EXCEPT ![s] = NULL] ELSE by_room
  /\ UNCHANGED <<resolved, ws>>
  /\ IF last /\ reader # NULL
     THEN IF task[reader].pc = "done"
          THEN task' = left /\ reader' = NULL /\ conn' = [conn EXCEPT ![c] = At("closed")]
          ELSE /\ task' = [left EXCEPT ![reader].cancelled = TRUE]
               /\ conn' = [conn EXCEPT ![c] = [At("unsubscribe") EXCEPT !.task = reader]]
               /\ UNCHANGED reader
     ELSE task' = left /\ conn' = [conn EXCEPT ![c] = At("closed")] /\ UNCHANGED reader


_release(c) ==
  LET k == Target[c] IN
  \/ /\ refcounts[k] <= 1
     /\ subscribers' = [subscribers EXCEPT ![k] = {}]
     /\ refcounts' = [refcounts EXCEPT ![k] = 0]
     /\ book_unsubscribe(c)
  \/ /\ refcounts[k] > 1
     /\ subscribers' = [subscribers EXCEPT ![k] = @ \ {c}]
     /\ refcounts' = [refcounts EXCEPT ![k] = @ - 1]
     /\ conn' = [conn EXCEPT ![c] = At("closed")]
     /\ UNCHANGED providerVars

(* The client goes away.  With the fault "early" it may do so while its     *)
(* subscription is being acquired, which releases nothing.                  *)
book_disconnect(c) ==
  /\ conn[c].pc \in {"streaming"} \cup (IF "early" \in BookFaults THEN {"subscribe"} ELSE {})
  /\ queue' = [queue EXCEPT ![c] = <<>>]
  /\ IF conn[c].pc = "streaming" THEN _release(c)
     ELSE conn' = [conn EXCEPT ![c] = At("closed")]
          /\ UNCHANGED <<subscribers, refcounts, providerVars>>
  /\ UNCHANGED <<cache, books, sessions, outages>>

(* await self._reader returns. *)
unsubscribed(c) ==
  /\ conn[c].pc = "unsubscribe" /\ task[conn[c].task].pc = "done"
  /\ reader' = NULL
  /\ conn' = [conn EXCEPT ![c] = At("closed")]
  /\ UNCHANGED <<cache, subscribers, refcounts, queue, subs, resolved, by_room, ws, task,
                 books, sessions, outages>>

(* The stream sends a queued book. *)
_order_book_events(c) ==
  /\ conn[c].pc = "streaming" /\ queue[c] # <<>>
  /\ queue' = [queue EXCEPT ![c] = Tail(@)]
  /\ UNCHANGED <<cache, subscribers, refcounts, conn, providerVars, books, sessions, outages>>

-----------------------------------------------------------------------------
(* The reader task. *)

(* The loop condition, read when a session ends; a backoff follows. *)
Again == IF subs = NoSubs THEN "done" ELSE "connect"

ReaderOnly == UNCHANGED <<serviceVars, subs, reader, books>>

(* Ticket, connection and handshake, as far as _by_room.clear(). *)
_connect_once(t) ==
  /\ task[t].pc = "connect" /\ ~task[t].cancelled
  /\ \/ /\ sessions' = sessions + 1
        /\ ws' = sessions'
        /\ by_room' = [s \in Sym |-> NULL]
        /\ task' = [task EXCEPT ![t] = [NoTask EXCEPT !.pc = "join", !.session = sessions',
                                          !.todo = {subs[s] : s \in Sym} \ {NULL}]]
        /\ UNCHANGED outages
     \/ /\ outages < MaxOutages
        /\ outages' = outages + 1
        /\ task' = [task EXCEPT ![t].pc = Again]
        /\ UNCHANGED <<ws, by_room, sessions>>
  /\ UNCHANGED resolved
  /\ ReaderOnly

_join_all_rooms(t) ==
  /\ task[t].pc = "join"
  /\ \/ \E sub \in task[t].todo, found \in BookAnswers \cup {TRUE} :
          /\ sub.owner \in resolved => found
          /\ resolved' = IF found THEN resolved \cup {sub.owner} ELSE resolved
          /\ by_room' = IF found THEN [by_room EXCEPT ![sub.symbol] = sub.market] ELSE by_room
          /\ task' = [task EXCEPT ![t].todo = @ \ {sub},
                        ![t].ids = IF found THEN @ \cup {sub.symbol} ELSE @]
     \/ /\ task[t].todo = {}
        /\ task' = [task EXCEPT ![t].pc = "recv", ![t].rooms = @ \cup task[t].ids]
        /\ UNCHANGED <<resolved, by_room>>
  /\ UNCHANGED <<ws, sessions, outages>>
  /\ ReaderOnly

(* An update of a joined room whose subscription is known is published; any *)
(* other frame changes nothing.                                             *)
_handle_frame(t) ==
  /\ task[t].pc = "recv"
  /\ \E s \in task[t].rooms :
       /\ by_room[s] # NULL /\ books[s] < MaxBooks[s]
       /\ books' = [books EXCEPT ![s] = @ + 1]
       /\ book_publish(<<s, by_room[s]>>, books'[s])
  /\ UNCHANGED <<subscribers, refcounts, conn, providerVars, sessions, outages>>

(* The connection is lost; the finally clears _ws. *)
drops(t) ==
  /\ InSession(t) /\ outages < MaxOutages
  /\ outages' = outages + 1
  /\ ws' = 0
  /\ task' = [task EXCEPT ![t] = [NoTask EXCEPT !.pc = Again, !.cancelled = task[t].cancelled]]
  /\ UNCHANGED <<resolved, by_room, sessions>>
  /\ ReaderOnly

(* The cancellation reaches the task; closing a session takes a handshake.  *)
cancelled(t) ==
  /\ \/ /\ task[t].cancelled /\ InSession(t)
        /\ ws' = 0
        /\ task' = [task EXCEPT ![t] = [NoTask EXCEPT !.pc = "closing", !.cancelled = TRUE]]
     \/ /\ task[t].pc = "closing" \/ (task[t].cancelled /\ task[t].pc = "connect")
        /\ task' = [task EXCEPT ![t] = [NoTask EXCEPT !.pc = "done"]]
        /\ UNCHANGED ws
  /\ UNCHANGED <<resolved, by_room, sessions, outages>>
  /\ ReaderOnly

ReaderStep(t) == _connect_once(t) \/ _join_all_rooms(t) \/ cancelled(t)

BookNext ==
  \/ \E c \in Conn : \/ _acquire(c) \/ live_join(c) \/ book_disconnect(c) \/ unsubscribed(c)
                     \/ _order_book_events(c)
  \/ \E t \in Task : ReaderStep(t) \/ _handle_frame(t) \/ drops(t)
  \/ order_book_snapshot

BookSpec == BookInit /\ [][BookNext]_bookVars

(* The event loop runs every task that can go on and the venue answers. *)
BookFairness ==
  /\ \A t \in Task : WF_bookVars(ReaderStep(t))
  /\ \A c \in Conn : WF_bookVars(live_join(c)) /\ WF_bookVars(unsubscribed(c))
BookFairSpec == BookSpec /\ BookFairness

-----------------------------------------------------------------------------


(* A client that lags loses the oldest books, and only those: its queue is  *)
(* the end of what was published, without a hole and within its bound.      *)
QueueIsSuffix ==
  \A c \in Conn :
    /\ Len(queue[c]) <= BookQueueSize
    /\ \A i \in DOMAIN queue[c] : queue[c][i] = books[symbol(c)] - Len(queue[c]) + i

(* Frames of the stream of c reach it. *)
Fed(c) == /\ by_room[symbol(c)] = market(c)
          /\ \E t \in Task : task[t].pc = "recv" /\ symbol(c) \in task[t].rooms

(* Every stream that stays open is fed, also when it was opened in the      *)
(* middle of a session, of the joining of its rooms or of a reconnect       *)
(* (providers/liberator.py, subscribe and _join_all_rooms).                 *)
StreamIsFed ==
  \A c \in Conn : conn[c].pc = "streaming" ~> Fed(c) \/ conn[c].pc # "streaming"

=============================================================================
