------------------------------- MODULE EventHub -------------------------------
(***************************************************************************)
(* events/hub.py and the order stream of api/streams.py: the in-process    *)
(* fan-out of order events to SSE subscribers, with its ring buffer,       *)
(* bounded queues, gap markers, reconnect cursors and strategy filter.     *)
(*                                                                         *)
(* publish is synchronous and so one step.  A stream is a generator that   *)
(* is suspended at every frame it yields and at every queue read; on       *)
(* Python 3.11 wait_for takes the item off the queue in a task of its own, *)
(* so that publishes run between the read (get) and what is done with the  *)
(* item (deliver).                                                         *)
(***************************************************************************)
EXTENDS Integers, SequencesExt, Vocabulary

CONSTANTS
  Cid,            \* orders
  Sub,            \* stream clients
  Strategy,       \* X-Strategy-Id values
  StrategyOf,     \* [Cid -> Strategy \cup {NULL}]: the durable column
  WantStrategy,   \* [Sub -> Strategy \cup {NULL}]: the strategy_id filter
  WantCid,        \* [Sub -> Cid \cup {NULL}]: the client_order_id filter
  RingSize, QueueSize, StrategyMapCap,
  Faults,         \* "disconnect", "restart"
  MaxSeq,         \* events one process publishes
  MaxConnects     \* connections one client opens

ASSUME HubAssumption ==
  /\ RingSize \in Nat \ {0} /\ QueueSize \in Nat \ {0} /\ StrategyMapCap \in Nat \ {0}
  /\ StrategyOf \in [Cid -> Strategy \cup {NULL}]
  /\ WantStrategy \in [Sub -> Strategy \cup {NULL}]
  /\ WantCid \in [Sub -> Cid \cup {NULL}]
  /\ MaxSeq \in Nat /\ MaxConnects \in Nat
  /\ NULL \notin Cid \cup Strategy

VARIABLES
  seq,               \* the next sequence number
  ring,              \* the retained events
  strategy_by_cid,   \* the orders of the attribution map, oldest first
  born,              \* orders whose row is committed
  unpublished,       \* of these, the ones whose birth event is still to come
  sub,               \* [Sub -> Connection]
  cursor,            \* [Sub -> Nat]: the last id the client saw
  connects,          \* [Sub -> 0 .. MaxConnects]
  restarts,          \* how often the process restarted
  owed,              \* history: wanted events a client was neither sent nor told it lost
  lost               \* history: events lost from a queue since its last gap frame

hubVars == <<seq, ring, strategy_by_cid, born, unpublished>>
vars == <<hubVars, sub, cursor, connects, restarts, owed, lost>>

Event == [seq : Nat, cid : Cid, strategy : Strategy \cup {NULL}]
GapMarker == [seq |-> 0, cid |-> NULL, strategy |-> NULL]
Item == Event \cup {GapMarker}

Connection ==
  [state : {"off", "seeded", "resync", "replay", "live"}, queue : Seq(Item),
   dropped : Nat, gap_pending : BOOLEAN, replay : Seq(Event), max_replayed : Nat,
   hand : Item \cup {NULL}, seeded : SUBSET Cid]

Off == [state |-> "off", queue |-> <<>>, dropped |-> 0, gap_pending |-> FALSE,
        replay |-> <<>>, max_replayed |-> 0, hand |-> NULL, seeded |-> {}]

Subscribed(s) == sub[s].state \in {"resync", "replay", "live"}

Init ==
  /\ seq = 1
  /\ ring = <<>>
  /\ strategy_by_cid = <<>>
  /\ born = {}
  /\ unpublished = {}
  /\ sub = [s \in Sub |-> Off]
  /\ cursor = [s \in Sub |-> 0]
  /\ connects = [s \in Sub |-> 0]
  /\ restarts = 0
  /\ owed = [s \in Sub |-> {}]
  /\ lost = [s \in Sub |-> 0]

-----------------------------------------------------------------------------
(* Subscription.offer.  A full queue loses its oldest item; when no marker *)
(* is pending one takes the free place, and the event itself then finds    *)
(* the queue full again.                                                   *)

Push(q, item) == IF Len(q) < QueueSize THEN Append(q, item) ELSE q

(* Variant: overflow leaves no marker. *)
offer_unmarked(n, event) ==
  IF Len(n.queue) < QueueSize
  THEN [n EXCEPT !.queue = Append(@, event)]
  ELSE [n EXCEPT !.queue = Append(Tail(@), event), !.dropped = @ + 1]


offer(n, event) ==
  IF Len(n.queue) < QueueSize
  THEN [n EXCEPT !.queue = Append(@, event)]
  ELSE LET rest == Tail(n.queue)
           pending == n.gap_pending /\ Head(n.queue) # GapMarker
           marked == IF pending THEN rest ELSE Push(rest, GapMarker)
       IN [n EXCEPT !.queue = Push(marked, event), !.dropped = @ + 1,
                    !.gap_pending = TRUE]

(* Events in the queue before and the one offered, less those in it after. *)
Losses(n, event) ==
  LET events(q) == Len(SelectSeq(q, LAMBDA i : i # GapMarker))
  IN events(n.queue) + 1 - events(offer(n, event).queue)

-----------------------------------------------------------------------------
(* The filter of a stream.  A match seeds the order, so that its later     *)
(* events match without attribution.                                       *)

_matches(s, seeded, event) ==
  /\ WantCid[s] # NULL => event.cid = WantCid[s]
  /\ WantStrategy[s] # NULL => event.strategy = WantStrategy[s] \/ event.cid \in seeded

Reseed(s, seeded, event) ==
  IF WantStrategy[s] # NULL /\ _matches(s, seeded, event)
  THEN seeded \cup {event.cid} ELSE seeded

(* What the client asked for, by the durable attribution of the order. *)
Wants(s, c) ==
  /\ WantCid[s] # NULL => c = WantCid[s]
  /\ WantStrategy[s] # NULL => StrategyOf[c] = WantStrategy[s]

-----------------------------------------------------------------------------
(* register_strategy: a bounded least-recently-registered map. *)
Registered(c) ==
  LET fresh == Append(SelectSeq(strategy_by_cid, LAMBDA d : d # c), c)
  IN IF Len(fresh) > StrategyMapCap THEN Tail(fresh) ELSE fresh

_resolve_strategy(c) == IF Contains(strategy_by_cid, c) THEN StrategyOf[c] ELSE NULL

(* publish: stamp, append to the ring, fan out. *)
publish(c, strategy) ==
  LET event == [seq |-> seq, cid |-> c, strategy |-> strategy] IN
  /\ seq <= MaxSeq
  /\ seq' = seq + 1
  /\ ring' = IF Len(ring) < RingSize THEN Append(ring, event) ELSE Append(Tail(ring), event)
  /\ sub' = [s \in Sub |-> IF Subscribed(s) THEN offer(sub[s], event) ELSE sub[s]]
  /\ lost' = [s \in Sub |-> IF Subscribed(s) THEN lost[s] + Losses(sub[s], event) ELSE lost[s]]
  /\ owed' = [s \in Sub |-> IF Wants(s, c) THEN owed[s] \cup {<<restarts, seq>>} ELSE owed[s]]
  /\ UNCHANGED <<cursor, connects, restarts>>

(* insert_order commits the row; its coroutine publishes when it resumes. *)
insert_order(c) ==
  /\ c \notin born
  /\ born' = born \cup {c}
  /\ unpublished' = unpublished \cup {c}
  /\ UNCHANGED <<seq, ring, strategy_by_cid, sub, cursor, connects, restarts, owed, lost>>

insert_publish(c) ==
  /\ c \in unpublished
  /\ unpublished' = unpublished \ {c}
  /\ strategy_by_cid' = IF StrategyOf[c] = NULL THEN strategy_by_cid ELSE Registered(c)
  /\ publish(c, StrategyOf[c])
  /\ UNCHANGED born

(* update_status publishes with the strategy of the row it read; ack_order, *)
(* replace_order and apply_fill publish without one.                       *)
status_publish(c) ==
  /\ c \in born \ unpublished
  /\ publish(c, StrategyOf[c])
  /\ UNCHANGED <<strategy_by_cid, born, unpublished>>

fill_publish(c) ==
  /\ c \in born \ unpublished
  /\ publish(c, _resolve_strategy(c))
  /\ UNCHANGED <<strategy_by_cid, born, unpublished>>

-----------------------------------------------------------------------------
(* order_stream reads the orders of the strategy from the store; the       *)
(* generator starts later, subscribes and replays without suspending.      *)

(* Variant: the orders of the strategy are not read from the store. *)
order_stream_unseeded(s) ==
  /\ sub[s].state = "off"
  /\ connects[s] < MaxConnects
  /\ connects' = [connects EXCEPT ![s] = @ + 1]
  /\ sub' = [sub EXCEPT ![s] = [Off EXCEPT !.state = "seeded"]]
  /\ UNCHANGED <<hubVars, cursor, restarts, owed, lost>>

order_stream(s) ==
  /\ sub[s].state = "off"
  /\ connects[s] < MaxConnects
  /\ connects' = [connects EXCEPT ![s] = @ + 1]
  /\ sub' = [sub EXCEPT ![s] = [Off EXCEPT !.state = "seeded", !.seeded =
       IF WantStrategy[s] = NULL THEN {} ELSE {c \in born : StrategyOf[c] = WantStrategy[s]}]]
  /\ UNCHANGED <<hubVars, cursor, restarts, owed, lost>>

replay(after_seq) ==
  IF after_seq = 0 THEN <<>> ELSE SelectSeq(ring, LAMBDA e : e.seq > after_seq)


fell_off(after_seq) == after_seq > 0 /\ ring # <<>> /\ after_seq < ring[1].seq - 1

subscribe(s) ==
  /\ sub[s].state = "seeded"
  /\ sub' = [sub EXCEPT ![s].state = IF fell_off(cursor[s]) THEN "resync" ELSE "replay",
                        ![s].replay = replay(cursor[s])]
  /\ owed' = IF cursor[s] = 0 THEN [owed EXCEPT ![s] = {}] ELSE owed
  /\ lost' = [lost EXCEPT ![s] = 0]
  /\ UNCHANGED <<hubVars, cursor, connects, restarts>>

(* The events a stream still holds for its client. *)
ToCome(n) ==
  {<<restarts, e.seq>> : e \in ToSet(n.replay) \cup ((ToSet(n.queue) \cup {n.hand}) \ {GapMarker, NULL})}

(* The frame that tells the client to re-read the store settles what was   *)
(* lost before it.                                                         *)
Told(s) == owed' = [owed EXCEPT ![s] = @ \cap ToCome(sub'[s])]

send_resync(s) ==
  /\ sub[s].state = "resync"
  /\ sub' = [sub EXCEPT ![s].state = "replay"]
  /\ Told(s)
  /\ UNCHANGED <<hubVars, cursor, connects, restarts, lost>>

(* The frame of one event, when it passes the filter. *)
Frame(s, event) ==
  IF _matches(s, sub[s].seeded, event)
  THEN /\ cursor' = [cursor EXCEPT ![s] = event.seq]
       /\ owed' = [owed EXCEPT ![s] = @ \ {<<restarts, event.seq>>}]
  ELSE UNCHANGED <<cursor, owed>>

send_replay(s) ==
  /\ sub[s].state = "replay"
  /\ IF sub[s].replay = <<>>
     THEN /\ sub' = [sub EXCEPT ![s].state = "live"]
          /\ UNCHANGED <<cursor, owed>>
     ELSE LET event == Head(sub[s].replay) IN
          /\ sub' = [sub EXCEPT ![s].replay = Tail(@), ![s].max_replayed = event.seq,
                                ![s].seeded = Reseed(s, @, event)]
          /\ Frame(s, event)
  /\ UNCHANGED <<hubVars, connects, restarts, lost>>

(* Variant: the reader wakes only when two items are queued. *)
get_late(s) ==
  /\ sub[s].state = "live" /\ sub[s].hand = NULL /\ Len(sub[s].queue) > 1
  /\ sub' = [sub EXCEPT ![s].hand = Head(sub[s].queue), ![s].queue = Tail(@)]
  /\ UNCHANGED <<hubVars, cursor, connects, restarts, owed, lost>>

get(s) ==
  /\ sub[s].state = "live" /\ sub[s].hand = NULL /\ sub[s].queue # <<>>
  /\ sub' = [sub EXCEPT ![s].hand = Head(sub[s].queue), ![s].queue = Tail(@)]
  /\ UNCHANGED <<hubVars, cursor, connects, restarts, owed, lost>>

(* Subscribing and replaying are one step, so that the queue never holds   *)
(* an event of the replay; the code skips one all the same.                *)
deliver(s) ==
  /\ sub[s].hand # NULL
  /\ LET item == sub[s].hand IN
     \/ /\ item = GapMarker
        /\ sub' = [sub EXCEPT ![s].hand = NULL, ![s].dropped = 0, ![s].gap_pending = FALSE]
        /\ lost' = [lost EXCEPT ![s] = 0]
        /\ Told(s)
        /\ UNCHANGED cursor
     \/ /\ item # GapMarker
        /\ IF item.seq <= sub[s].max_replayed
           THEN /\ sub' = [sub EXCEPT ![s].hand = NULL]
                /\ UNCHANGED <<cursor, owed>>
           ELSE /\ sub' = [sub EXCEPT ![s].hand = NULL, ![s].seeded = Reseed(s, @, item)]
                /\ Frame(s, item)
        /\ UNCHANGED lost
  /\ UNCHANGED <<hubVars, connects, restarts>>

(* The client goes away: the generator is closed and unsubscribes. *)
disconnect(s) ==
  /\ "disconnect" \in Faults
  /\ sub[s].state # "off"
  /\ sub' = [sub EXCEPT ![s] = Off]
  /\ UNCHANGED <<hubVars, cursor, connects, restarts, owed, lost>>

(* The process restarts: hub and streams are gone, rows and the clients'   *)
(* cursors are not.                                                        *)
restart ==
  /\ "restart" \in Faults /\ restarts = 0
  /\ restarts' = 1
  /\ seq' = 1 /\ ring' = <<>> /\ strategy_by_cid' = <<>> /\ unpublished' = {}
  /\ sub' = [s \in Sub |-> Off]
  /\ UNCHANGED <<born, cursor, connects, owed, lost>>

Publishing ==
  \E c \in Cid : insert_order(c) \/ insert_publish(c) \/ status_publish(c) \/ fill_publish(c)
StreamStep(s) == subscribe(s) \/ send_resync(s) \/ send_replay(s) \/ get(s) \/ deliver(s)

Next ==
  \/ Publishing
  \/ \E s \in Sub : order_stream(s) \/ StreamStep(s) \/ disconnect(s)
  \/ restart

Spec == Init /\ [][Next]_vars

(* A generator whose client reads runs on. *)
HubFairness == \A s \in Sub : WF_vars(StreamStep(s))
FairSpec == Spec /\ HubFairness

-----------------------------------------------------------------------------

(***************************************************************************)
(* No silent loss: an event a connected client wants is still to come, or  *)
(* a frame that tells it of a loss is.                                     *)
(***************************************************************************)
GapPending(s) ==
  sub[s].state = "resync" \/ Contains(sub[s].queue, GapMarker) \/ sub[s].hand = GapMarker

StreamComplete ==
  \A s \in Sub : Subscribed(s) => GapPending(s) \/ owed[s] \subseteq ToCome(sub[s])


(* The filter, which works from event fields and an in-memory map, agrees   *)
(* with the durable strategy of the order for every event a stream holds:   *)
(* also after a restart emptied the map, and for an order born while the    *)
(* stream was being opened.                                                 *)
FilterIsDurable ==
  \A s \in Sub : Subscribed(s) =>
    \A e \in (ToSet(sub[s].replay) \cup ToSet(sub[s].queue)) \ {GapMarker} :
      _matches(s, sub[s].seeded, e) <=> Wants(s, e.cid)

(* Every event a connected client wants reaches it, or the news of its      *)
(* loss does.                                                               *)
EventuallyTold == \A s \in Sub : Subscribed(s) /\ owed[s] # {} ~> owed[s] = {}


=============================================================================
