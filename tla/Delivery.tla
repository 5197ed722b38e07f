------------------------------ MODULE Delivery ------------------------------
(***************************************************************************)
(* How a thread's log reaches the open views of a client.  The server side *)
(* of a subscription is Engine.ts (subscribeThread) and LiveBuffer.ts, the *)
(* client side the loops of packages/client-runtime (atoms.ts,             *)
(* connection.ts).  Every subscription here follows one thread; events of  *)
(* other threads only leave gaps in the sequence.                          *)
(***************************************************************************)
EXTENDS Naturals, Sequences

CONSTANTS
  Subs,          \* the client's open views, each with its own loop
  Rows,          \* keys of replaceable events: a row, a turn's usage, the context
  Boundary,      \* the key of every other event
  MaxLog,        \* events committed
  MaxItems,      \* STREAM_BUDGET_ITEMS
  MaxDrops       \* sockets dropped, restarts of the server included

ASSUME DeliveryAssumption ==
  /\ Boundary \notin Rows /\ Subs # {}
  /\ MaxLog \in Nat /\ MaxItems \in Nat /\ MaxDrops \in Nat

VARIABLES
  log,           \* the keys of the thread's events; the sequence is the place
  published,     \* how many of them the PubSub has given to its subscribers
  server,        \* the instance that runs: its id, and whether it speaks our protocol
  socket,        \* [up, drops]
  state,         \* ConnectionState: status and the known instance id (0 for null)
  views,         \* subscription -> the client's side
  feeds          \* subscription -> the server's side

dvars == <<log, published, server, socket, state, views, feeds>>

\* As in Replica.tla.
NoCopy == [held |-> FALSE, seq |-> 0, taken |-> {}]

\* `stale` is set when the socket the view's call went out on is gone.
NewView == [pc |-> "idle", hello |-> [id |-> 0, speaks |-> TRUE], stale |-> FALSE,
            fresh |-> TRUE, copy |-> NoCopy]

NoFeed == [mailbox |-> <<>>, cutoff |-> 0, baseline |-> <<>>, pending |-> <<>>, output |-> <<>>,
           timer |-> "none", ended |-> FALSE]

\* Items carry the sequence they bring the client to.
Snapshot(n)  == [kind |-> "snapshot", seq |-> n]
Event(n)     == [kind |-> "event", seq |-> n]
Synchronized == [kind |-> "synchronized", seq |-> 0]
Overflow     == [kind |-> "resnapshot-required", seq |-> 0]

----------------------------------------------------------------------------
(* LiveBuffer.                                                             *)

MergeKey(n) == log[n]

Retained(feed) == Len(feed.output) + Len(feed.pending)

Flushed(feed) == [feed EXCEPT !.output = @ \o feed.pending, !.pending = <<>>]

\* The window is let go, not delivered: the next snapshot covers it.
Closed(feed) == [feed EXCEPT !.pending = <<>>, !.ended = TRUE, !.timer = "none",
                             !.output = Append(@, Overflow)]

\* Mutant: the newest version of a key takes the place of its first.
MergedInPlace(pending, n) ==
  [k \in DOMAIN pending |-> IF MergeKey(pending[k].seq) = MergeKey(n) THEN Event(n) ELSE pending[k]]

\* The places of the window that hold this event's key.
Slots(pending, n) == {k \in DOMAIN pending : MergeKey(pending[k].seq) = MergeKey(n)}

\* The key is deleted and set again: its newest version goes to the end.
Merged(pending, n) ==
  LET slot == CHOOSE k \in Slots(pending, n) : TRUE
      rest == [k \in 1..(Len(pending) - 1) |-> IF k < slot THEN pending[k] ELSE pending[k + 1]]
  IN  Append(rest, Event(n))

InWindow(feed, n) == Slots(feed.pending, n) # {}

\* offer: the budget is looked at first, whatever the item.
Offered(feed, n) ==
  IF feed.ended THEN feed
  ELSE IF Retained(feed) + 1 > MaxItems THEN Closed(feed)
  ELSE IF MergeKey(n) = Boundary
       THEN LET flushed == Flushed(feed)
            IN  [flushed EXCEPT !.output = Append(@, Event(n))]
  ELSE IF InWindow(feed, n) THEN [feed EXCEPT !.pending = Merged(@, n)]
  ELSE [feed EXCEPT !.pending = Append(@, Event(n)),
                    !.timer = IF @ = "none" THEN "armed" ELSE @]

\* Mutant: the slot is not cleared, so no later item arms a timer.
FiredOnce(feed) == [Flushed(feed) EXCEPT !.timer = "spent"]
Fired(feed) == [Flushed(feed) EXCEPT !.timer = "none"]

SetFeed(s, feed) == feeds' = [feeds EXCEPT ![s] = feed]
SetView(s, view) == views' = [views EXCEPT ![s] = view]

\* The server's side of a subscription runs while its socket does.
Subscribed(s) == views[s].pc \in {"reading", "live"}

\* The window's timer: 50 milliseconds after it was armed.
Fire(s) ==
  /\ feeds[s].timer = "armed"
  /\ SetFeed(s, Fired(feeds[s]))
  /\ UNCHANGED <<log, published, server, socket, state, views>>

----------------------------------------------------------------------------
(* Engine.ts: commit, publication, subscribeThread.                        *)

\* The write mutex is held until the commit is published.
CommitEvent(key) ==
  /\ Len(log) < MaxLog /\ published = Len(log)
  /\ log' = Append(log, key)
  /\ UNCHANGED <<published, server, socket, state, views, feeds>>

PublishEvent ==
  /\ published < Len(log)
  /\ published' = published + 1
  /\ feeds' = [s \in Subs |-> IF Subscribed(s) THEN [feeds[s] EXCEPT !.mailbox = Append(@, published + 1)]
                                               ELSE feeds[s]]
  /\ UNCHANGED <<log, server, socket, state, views>>

\* The subscription is taken out before the baseline is read.
Subscribe(s) ==
  /\ views[s].pc = "asked"
  /\ SetView(s, [views[s] EXCEPT !.pc = "reading"])
  /\ SetFeed(s, NoFeed)
  /\ UNCHANGED <<log, published, server, socket, state>>

ReadBaseline(s) ==
  LET view == views[s]
      first == IF view.fresh THEN <<Snapshot(Len(log))>>
               ELSE [k \in 1..(Len(log) - view.copy.seq) |-> Event(view.copy.seq + k)]
  IN  /\ view.pc = "reading"
      /\ SetView(s, [view EXCEPT !.pc = "live"])
      /\ SetFeed(s, [feeds[s] EXCEPT !.cutoff = Len(log), !.baseline = Append(first, Synchronized)])
      /\ UNCHANGED <<log, published, server, socket, state>>

\* The pump, filtering what the baseline holds.
Pump(s) ==
  LET feed == [feeds[s] EXCEPT !.mailbox = Tail(@)]
      n == Head(feeds[s].mailbox)
  IN  /\ views[s].pc = "live" /\ feeds[s].mailbox # <<>>
      /\ SetFeed(s, IF n > feed.cutoff THEN Offered(feed, n) ELSE feed)
      /\ UNCHANGED <<log, published, server, socket, state, views>>

----------------------------------------------------------------------------
(* The client: atoms.ts, clientState.ts (applyThreadStreamItem).           *)

Applied(copy, item) ==
  CASE item.kind = "snapshot" ->
         [held |-> TRUE, seq |-> item.seq, taken |-> 1..item.seq]
    [] item.kind = "event" ->
         IF ~copy.held \/ item.seq <= copy.seq THEN copy
         ELSE [copy EXCEPT !.seq = item.seq, !.taken = @ \cup {item.seq}]
    [] item.kind = "resnapshot-required" -> NoCopy
    [] item.kind = "synchronized" -> copy

\* The baseline first, then the buffer's output.
Waiting(feed) == feed.baseline \o feed.output
Pulled(feed) == IF feed.baseline # <<>> THEN [feed EXCEPT !.baseline = Tail(@)]
                ELSE [feed EXCEPT !.output = Tail(@)]

\* The stream ends behind its terminal item, and the loop subscribes again.
Pull(s) ==
  LET item == Head(Waiting(feeds[s]))
  IN  /\ views[s].pc = "live" /\ Waiting(feeds[s]) # <<>>
      /\ SetView(s, [views[s] EXCEPT !.copy = Applied(@, item),
                                     !.pc = IF item.kind = "resnapshot-required" THEN "idle" ELSE @])
      /\ SetFeed(s, IF item.kind = "resnapshot-required" THEN NoFeed ELSE Pulled(feeds[s]))
      /\ UNCHANGED <<log, published, server, socket, state>>

\* server.hello, answered; the answer is yet to be looked at.
Greet(s) ==
  /\ views[s].pc = "idle" /\ socket.up
  /\ SetView(s, [views[s] EXCEPT !.pc = "greeted", !.hello = server, !.stale = FALSE])
  /\ UNCHANGED <<log, published, server, socket, state, feeds>>

\* Mutant: an ordinary status change moves off `incompatible`.
StatusAlways(new) == new
\* setConnectionStatus and markConnected: `incompatible` is for good.
Status(new) == IF state.status = "incompatible" THEN state.status ELSE new

\* The copy is resumed if it is there and the server is the one last known.
Resumes(view) == view.copy.held /\ state.known = view.hello.id

AskedWith(view, resumes) == IF resumes THEN view.copy ELSE NoCopy

\* threadStream's body between the hello and the subscribe, in one go; the
\* call itself fails if its socket has died.
Ask(s) ==
  LET view == views[s]
      speaks == view.hello.speaks
      resumes == Resumes(view)
  IN  /\ view.pc = "greeted"
      /\ \/ /\ ~speaks
            /\ SetView(s, [view EXCEPT !.pc = "parked"])
            /\ state' = [state EXCEPT !.status = "incompatible"]
         \/ /\ speaks
            /\ SetView(s, [view EXCEPT !.pc = IF view.stale THEN "idle" ELSE "asked",
                                       !.fresh = ~resumes, !.copy = AskedWith(view, resumes)])
            /\ state' = IF state.status = "incompatible" THEN state
                        ELSE [status |-> "connected", known |-> view.hello.id]
      /\ UNCHANGED <<log, published, server, socket, feeds>>

----------------------------------------------------------------------------
(* connection.ts: the socket goes, and comes back.                         *)

\* Every call in flight fails, and each loop starts again from its hello.
Cut(view) ==
  CASE view.pc \in {"idle", "parked"} -> view
    [] view.pc = "greeted" -> [view EXCEPT !.stale = TRUE]
    [] OTHER -> [view EXCEPT !.pc = "idle"]

Drop ==
  /\ socket.up /\ socket.drops < MaxDrops
  /\ socket' = [up |-> FALSE, drops |-> socket.drops + 1]
  /\ state' = [state EXCEPT !.status = Status("reconnecting")]
  /\ views' = [s \in Subs |-> Cut(views[s])]
  /\ feeds' = [s \in Subs |-> NoFeed]

Lost == Drop /\ UNCHANGED <<log, published, server>>

\* A server that restarts keeps its log and forgets its subscribers.
Restart ==
  /\ Drop
  /\ published' = Len(log)
  /\ \E speaks \in BOOLEAN : server' = [id |-> server.id + 1, speaks |-> speaks]
  /\ UNCHANGED log

\* retainedInstanceId: 0 where the channel does not know the id.
RetainedInstance(resolved) ==
  IF resolved = 0 \/ state.known = 0 \/ state.known = resolved THEN state.known ELSE 0

Connect ==
  /\ ~socket.up
  /\ socket' = [socket EXCEPT !.up = TRUE]
  /\ \E resolved \in {0, server.id} :
       state' = [status |-> Status("connected"), known |-> RetainedInstance(resolved)]
  /\ UNCHANGED <<log, published, server, views, feeds>>

----------------------------------------------------------------------------
DeliveryInit ==
  /\ log = <<Boundary>> /\ published = 1
  /\ server \in [id : {1}, speaks : BOOLEAN]
  /\ socket = [up |-> FALSE, drops |-> 0]
  /\ state = [status |-> "connecting", known |-> 0]
  /\ views = [s \in Subs |-> NewView]
  /\ feeds = [s \in Subs |-> NoFeed]

ServerSide(s) == Subscribe(s) \/ ReadBaseline(s) \/ Pump(s) \/ Fire(s)
ClientSide(s) == Greet(s) \/ Ask(s) \/ Pull(s)

DeliveryNext ==
  \/ \E key \in Rows \cup {Boundary} : CommitEvent(key)
  \/ PublishEvent
  \/ \E s \in Subs : ServerSide(s) \/ ClientSide(s)
  \/ Connect \/ Lost \/ Restart

DeliverySafe == DeliveryInit /\ [][DeliveryNext]_dvars

\* Each loop, pump and timer is a fiber of its own; the reconnect loop retries
\* for ever; what is committed is published before the mutex is released.
DeliveryFair ==
  /\ DeliverySafe
  /\ WF_dvars(PublishEvent) /\ WF_dvars(Connect)
  /\ \A s \in Subs : /\ WF_dvars(Subscribe(s) \/ ReadBaseline(s))
                     /\ WF_dvars(Pump(s)) /\ WF_dvars(Fire(s)) /\ WF_dvars(ClientSide(s))
=============================================================================
