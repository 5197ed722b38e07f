--------------------------- MODULE DeliveryProofs ---------------------------
(***************************************************************************)
(* Proofs about Delivery.tla, for any number of views, keys, events and    *)
(* drops and for every budget: a view implements Replica.tla.  The         *)
(* invariant says what the server still holds for a live view: its queues  *)
(* rise, and an event of the log that the pump has seen is in the copy, in *)
(* a queue, or replaced by a later event of its key.                       *)
(***************************************************************************)
EXTENDS DeliveryProps, SequenceTheorems, TLAPS

Keys == Rows \cup {Boundary}
Item == [kind : {"snapshot", "event", "synchronized", "resnapshot-required"}, seq : Nat]
Copies == [held : BOOLEAN, seq : Nat, taken : SUBSET Nat]
ViewType == [pc : {"idle", "greeted", "asked", "reading", "live", "parked"},
             hello : [id : Nat, speaks : BOOLEAN], stale : BOOLEAN, fresh : BOOLEAN,
             copy : Copies]
FeedType == [mailbox : Seq(Nat), cutoff : Nat, baseline : Seq(Item), pending : Seq(Item),
             output : Seq(Item), timer : {"none", "armed"}, ended : BOOLEAN]
Statuses == {"connecting", "connected", "reconnecting", "incompatible"}

Types ==
  /\ log \in Seq(Keys) /\ published \in 0..Len(log)
  /\ server \in [id : Nat, speaks : BOOLEAN]
  /\ socket \in [up : BOOLEAN, drops : Nat]
  /\ state \in [status : Statuses, known : Nat]
  /\ views \in [Subs -> ViewType] /\ feeds \in [Subs -> FeedType]

Replaced(n) == Abstract!Replaced(n)

\* A copy names events of the log, and misses none that nothing replaces.
CopyFits(c) ==
  /\ c.seq <= Len(log) /\ c.taken \subseteq 1..c.seq /\ Abstract!Sound(c)
  /\ ~c.held => c = NoCopy

\* The mailbox is the end of what was published; the pump has taken the rest.
MailboxFits(f) ==
  /\ Len(f.mailbox) <= published
  /\ \A k \in DOMAIN f.mailbox : f.mailbox[k] = published - Len(f.mailbox) + k
Pumped(f) == published - Len(f.mailbox)

\* The baseline brings the copy to the cutoff.
BaselineFits(f, c) ==
  \/ f.baseline = <<Snapshot(f.cutoff), Synchronized>> /\ c = NoCopy
  \/ /\ c.held /\ c.seq <= f.cutoff /\ Len(f.baseline) = f.cutoff - c.seq + 1
     /\ \A k \in 1..(f.cutoff - c.seq) : f.baseline[k] = Event(c.seq + k)
     /\ f.baseline[Len(f.baseline)] = Synchronized
  \/ /\ f.baseline = <<>> /\ c.held
     /\ c.seq = f.cutoff \/ (f.cutoff < c.seq /\ c.seq <= Pumped(f))

Among(q, n) == \E k \in DOMAIN q : q[k] = Event(n)

\* An item of the queue `q`: an event behind the cutoff and ahead of the copy.
Behind(f, c, item) ==
  item = Event(item.seq) /\ f.cutoff < item.seq /\ c.seq < item.seq /\ item.seq <= Pumped(f)

QueuesFit(f, c) ==
  /\ \A k \in DOMAIN f.output :
       Behind(f, c, f.output[k]) \/ (f.ended /\ k = Len(f.output) /\ f.output[k] = Overflow)
  /\ \A k \in DOMAIN f.pending : Behind(f, c, f.pending[k])
  /\ f.ended => f.pending = <<>> /\ f.timer = "none"

Rising(q) ==
  \A j, k \in DOMAIN q : j < k /\ q[k].kind = "event" => q[j].seq < q[k].seq

QueuesRise(f) ==
  /\ Rising(f.output) /\ Rising(f.pending)
  /\ \A j \in DOMAIN f.output, k \in DOMAIN f.pending : f.output[j].seq < f.pending[k].seq

\* No event the pump has passed on is lost, up to the last one that will be
\* delivered: up to the pump's place, unless the stream has ended.
Covered(f, c, n) == n \in c.taken \/ Replaced(n) \/ Among(f.output, n)
NothingLost(f, c) ==
  /\ \A k \in DOMAIN f.output : \A n \in (f.cutoff + 1)..f.output[k].seq : Covered(f, c, n)
  /\ ~f.ended => \A n \in (f.cutoff + 1)..Pumped(f) : Covered(f, c, n) \/ Among(f.pending, n)

LiveFits(f, c) ==
  /\ f.cutoff <= Len(log) /\ BaselineFits(f, c) /\ QueuesFit(f, c) /\ QueuesRise(f)
  /\ NothingLost(f, c)

\* One subscription: the client's side and the server's.
Fits(v, f) ==
  /\ CopyFits(v.copy) /\ MailboxFits(f)
  /\ v.pc \in {"asked", "reading"} => IF v.fresh THEN v.copy = NoCopy ELSE v.copy.held
  /\ v.pc \notin {"reading", "live"} => f = NoFeed
  /\ v.pc = "reading" => f = [NoFeed EXCEPT !.mailbox = f.mailbox]
  /\ v.pc = "live" => LiveFits(f, v.copy)

DeliveryInv == Types /\ ParkedIsShown /\ \A s \in Subs : Fits(views[s], feeds[s])

-----------------------------------------------------------------------------
(* The queues.                                                             *)

\* Joining two queues: what is in either is in the whole, in the same order.
LEMMA Joined ==
  ASSUME NEW q \in Seq(Item), NEW r \in Seq(Item)
  PROVE  /\ q \o r \in Seq(Item)
         /\ \A k \in DOMAIN (q \o r) :
              \/ k \in DOMAIN q /\ (q \o r)[k] = q[k]
              \/ k - Len(q) \in DOMAIN r /\ (q \o r)[k] = r[k - Len(q)]
         /\ \A n : Among(q, n) \/ Among(r, n) => Among(q \o r, n)
         /\ Rising(q) /\ Rising(r) /\ (\A j \in DOMAIN q, k \in DOMAIN r : q[j].seq < r[k].seq)
              => Rising(q \o r)
<1>1. /\ q \o r \in Seq(Item) /\ Len(q \o r) = Len(q) + Len(r)
      /\ \A k \in 1..(Len(q) + Len(r)) :
           (q \o r)[k] = IF k <= Len(q) THEN q[k] ELSE r[k - Len(q)]
  BY ConcatProperties
<1>2. \A k \in DOMAIN (q \o r) :
        \/ k \in DOMAIN q /\ (q \o r)[k] = q[k]
        \/ k - Len(q) \in DOMAIN r /\ (q \o r)[k] = r[k - Len(q)]
  BY <1>1
<1>3. ASSUME NEW n, Among(q, n) \/ Among(r, n) PROVE Among(q \o r, n)
  <2>1. ASSUME NEW k \in DOMAIN q, q[k] = Event(n) PROVE Among(q \o r, n)
    BY <1>1, <2>1 DEF Among
  <2>2. ASSUME NEW k \in DOMAIN r, r[k] = Event(n) PROVE Among(q \o r, n)
    <3>1. k + Len(q) \in 1..(Len(q) + Len(r)) /\ (q \o r)[k + Len(q)] = r[k]
      BY <1>1, k \in 1..Len(r)
    <3> QED
      BY <1>1, <2>2, <3>1 DEF Among
  <2> QED
    BY <1>3, <2>1, <2>2 DEF Among
<1>4. ASSUME Rising(q), Rising(r), \A j \in DOMAIN q, k \in DOMAIN r : q[j].seq < r[k].seq
      PROVE  Rising(q \o r)
  BY <1>1, <1>4 DEF Rising
<1> QED
  BY <1>1, <1>2, <1>3, <1>4

\* The same of one event put at the end.
LEMMA Pushed ==
  ASSUME NEW q \in Seq(Item), NEW n \in Nat
  PROVE  /\ Append(q, Event(n)) \in Seq(Item)
         /\ \A k \in DOMAIN Append(q, Event(n)) :
              \/ k \in DOMAIN q /\ Append(q, Event(n))[k] = q[k]
              \/ Append(q, Event(n))[k] = Event(n)
         /\ \A m : Among(q, m) \/ m = n => Among(Append(q, Event(n)), m)
         /\ Rising(q) /\ (\A j \in DOMAIN q : q[j].seq < n) => Rising(Append(q, Event(n)))
<1>1. Event(n) \in Item /\ Event(n).seq = n
  BY DEF Event, Item
<1>2. /\ Append(q, Event(n)) \in Seq(Item)
      /\ Len(Append(q, Event(n))) = Len(q) + 1
      /\ \A k \in 1..Len(q) : Append(q, Event(n))[k] = q[k]
      /\ Append(q, Event(n))[Len(q) + 1] = Event(n)
  BY <1>1, AppendProperties
<1>3. \A m : Among(q, m) \/ m = n => Among(Append(q, Event(n)), m)
  BY <1>2 DEF Among
<1>4. Rising(q) /\ (\A j \in DOMAIN q : q[j].seq < n) => Rising(Append(q, Event(n)))
  BY <1>1, <1>2 DEF Rising
<1> QED
  BY <1>2, <1>3, <1>4

\* A merge keeps the order, and drops only an event of the same key.
LEMMA MergeKeeps ==
  ASSUME NEW q \in Seq(Item), NEW n \in Nat, Slots(q, n) # {}
  PROVE  /\ Merged(q, n) \in Seq(Item)
         /\ \A k \in DOMAIN Merged(q, n) :
              \/ \E j \in DOMAIN q : Merged(q, n)[k] = q[j]
              \/ Merged(q, n)[k] = Event(n)
         /\ Among(Merged(q, n), n)
         /\ \A m : Among(q, m) => Among(Merged(q, n), m) \/ log[m] = log[n]
         /\ Rising(q) /\ (\A j \in DOMAIN q : q[j].seq < n) => Rising(Merged(q, n))
<1> DEFINE slot == CHOOSE k \in Slots(q, n) : TRUE
           rest == [k \in 1..(Len(q) - 1) |-> IF k < slot THEN q[k] ELSE q[k + 1]]
<1>1. slot \in 1..Len(q) /\ log[q[slot].seq] = log[n]
  BY DEF Slots, MergeKey
<1>2. rest \in Seq(Item) /\ Len(rest) = Len(q) - 1 /\ DOMAIN rest = 1..(Len(q) - 1)
  <2>1. Len(q) - 1 \in Nat
    BY <1>1
  <2>2. \A k \in 1..(Len(q) - 1) : rest[k] \in Item
    BY <1>1
  <2> QED
    BY <2>1, <2>2
<1>3. Merged(q, n) = Append(rest, Event(n))
  BY DEF Merged
<1>4. \A k \in DOMAIN rest : rest[k] = IF k < slot THEN q[k] ELSE q[k + 1]
  OBVIOUS
<1> HIDE DEF slot, rest
<1>5. \A k \in DOMAIN rest : \E j \in DOMAIN q : rest[k] = q[j]
  BY <1>1, <1>2, <1>4
<1>6. ASSUME NEW m, Among(q, m) PROVE Among(rest, m) \/ log[m] = log[n]
  <2>1. PICK k \in DOMAIN q : q[k] = Event(m)
    BY <1>6 DEF Among
  <2>2. CASE k < slot
    BY <1>1, <1>2, <1>4, <2>1, <2>2 DEF Among
  <2>3. CASE k > slot
    <3>1. k - 1 \in DOMAIN rest /\ rest[k - 1] = q[k]
      BY <1>1, <1>2, <1>4, <2>3
    <3> QED
      BY <2>1, <3>1 DEF Among
  <2>4. CASE k = slot
    BY <1>1, <2>1, <2>4 DEF Event
  <2> QED
    BY <1>1, <2>2, <2>3, <2>4
<1>7. ASSUME Rising(q), \A j \in DOMAIN q : q[j].seq < n
      PROVE  Rising(rest) /\ \A j \in DOMAIN rest : rest[j].seq < n
  <2>1. \A j \in DOMAIN rest : rest[j].seq < n
    BY <1>5, <1>7
  <2>2. ASSUME NEW j \in DOMAIN rest, NEW k \in DOMAIN rest, j < k, rest[k].kind = "event"
        PROVE  rest[j].seq < rest[k].seq
    <3>1. j \in 1..(Len(q) - 1) /\ k \in 1..(Len(q) - 1)
      BY <1>2
    <3> DEFINE a == IF j < slot THEN j ELSE j + 1
               b == IF k < slot THEN k ELSE k + 1
    <3>2. rest[j] = q[a] /\ rest[k] = q[b]
      BY <1>2, <1>4, <3>1
    <3>3. a \in DOMAIN q /\ b \in DOMAIN q /\ a < b
      BY <1>1, <2>2, <3>1
    <3> HIDE DEF a, b
    <3> QED
      BY <1>7, <2>2, <3>2, <3>3 DEF Rising
  <2> QED
    BY <2>1, <2>2 DEF Rising
<1> QED
  BY <1>2, <1>3, <1>5, <1>6, <1>7, Pushed

-----------------------------------------------------------------------------
(* The server's side of a live view.                                       *)

\* What an offer finds: everything in the queues came before the event.
Offering(g, c, n) ==
  /\ n \in 1..Len(log) /\ n = Pumped(g) /\ g.cutoff < n /\ c.seq < n
  /\ QueuesFit(g, c) /\ QueuesRise(g) /\ ~g.ended
  /\ \A k \in DOMAIN g.output : g.output[k].seq < n
  /\ \A k \in DOMAIN g.pending : g.pending[k].seq < n
  /\ \A k \in DOMAIN g.output : \A m \in (g.cutoff + 1)..g.output[k].seq : Covered(g, c, m)
  /\ \A m \in (g.cutoff + 1)..(n - 1) : Covered(g, c, m) \/ Among(g.pending, m)

Same(h, g) == h.mailbox = g.mailbox /\ h.cutoff = g.cutoff /\ h.baseline = g.baseline

Queued(h, c) == h \in FeedType /\ QueuesFit(h, c) /\ QueuesRise(h) /\ NothingLost(h, c)

\* The budget is spent: the window is let go, and no more is promised.
LEMMA CloseFits ==
  ASSUME log \in Seq(Keys), published \in Nat, NEW g \in FeedType, NEW c \in Copies, NEW n,
         Offering(g, c, n)
  PROVE  Same(Closed(g), g) /\ Queued(Closed(g), c)
<1> DEFINE h == Closed(g)
<1>1. /\ h.mailbox = g.mailbox /\ h.cutoff = g.cutoff /\ h.baseline = g.baseline
      /\ h.output = Append(g.output, Overflow) /\ h.pending = <<>> /\ h.ended /\ h.timer = "none"
      /\ h \in FeedType
  <2>1. Overflow \in Item
    BY DEF Overflow, Item
  <2>2. Append(g.output, Overflow) \in Seq(Item) /\ <<>> \in Seq(Item)
    BY <2>1 DEF FeedType
  <2> QED
    BY <2>2 DEF Closed, FeedType
<1>2. /\ Len(h.output) = Len(g.output) + 1 /\ DOMAIN h.output = 1..(Len(g.output) + 1)
      /\ DOMAIN g.output = 1..Len(g.output)
      /\ \A k \in 1..Len(g.output) : h.output[k] = g.output[k]
      /\ h.output[Len(g.output) + 1] = Overflow
  <2>1. Overflow \in Item /\ g.output \in Seq(Item)
    BY DEF Overflow, Item, FeedType
  <2> QED
    BY <1>1, <2>1, AppendProperties
<1>3. Pumped(h) = Pumped(g)
  BY <1>1 DEF Pumped
<1> HIDE DEF h
<1>4. QueuesFit(h, c)
  BY <1>1, <1>2, <1>3 DEF QueuesFit, Behind, Offering
<1>5. QueuesRise(h)
  BY <1>1, <1>2 DEF QueuesRise, Rising, Offering, Overflow
<1>6. NothingLost(h, c)
  <2>1. \A m : Among(g.output, m) => Among(h.output, m)
    BY <1>2 DEF Among
  <2>2. ASSUME NEW k \in DOMAIN h.output, NEW m \in (h.cutoff + 1)..h.output[k].seq
        PROVE  Covered(h, c, m)
    <3>1. k # Len(g.output) + 1
      BY <1>1, <1>2, <2>2 DEF Overflow, FeedType
    <3>2. k \in DOMAIN g.output /\ h.output[k] = g.output[k]
      BY <1>2, <3>1
    <3> QED
      BY <1>1, <2>1, <2>2, <3>2 DEF Offering, Covered
  <2> QED
    BY <1>1, <2>2 DEF NothingLost
<1> QED
  BY <1>1, <1>4, <1>5, <1>6 DEF h, Same, Queued

Released(h, g, n) ==
  /\ h \in FeedType /\ Same(h, g) /\ h.ended = g.ended
  /\ h.pending = <<>> /\ h.output = Append(g.output \o g.pending, Event(n))

\* A boundary: the window is released and the event goes behind it.
LEMMA BoundaryFits ==
  ASSUME log \in Seq(Keys), published \in Nat, NEW g \in FeedType, NEW c \in Copies, NEW n,
         Offering(g, c, n),
         NEW h, Released(h, g, n)
  PROVE  Queued(h, c)
<1>0. h \in FeedType /\ Same(h, g) /\ ~h.ended /\ h.pending = <<>> /\ DOMAIN h.pending = {}
  BY DEF Released, Offering
<1> DEFINE q == g.output \o g.pending
<1>1. /\ q \in Seq(Item)
      /\ \A k \in DOMAIN q :
           \/ k \in DOMAIN g.output /\ q[k] = g.output[k]
           \/ \E j \in DOMAIN g.pending : q[k] = g.pending[j]
      /\ \A m : Among(g.output, m) \/ Among(g.pending, m) => Among(q, m)
      /\ Rising(q)
  <2>1. g.output \in Seq(Item) /\ g.pending \in Seq(Item)
    BY DEF FeedType
  <2>2. /\ Rising(g.output) /\ Rising(g.pending)
        /\ \A j \in DOMAIN g.output, k \in DOMAIN g.pending : g.output[j].seq < g.pending[k].seq
    BY DEF Offering, QueuesRise
  <2> QED
    BY <2>1, <2>2, Joined
<1>2. n \in Nat
  BY DEF Offering
<1>3. h.output = Append(q, Event(n))
  BY DEF Released
<1> HIDE DEF q
<1>4. \A k \in DOMAIN q : q[k].seq < n
  BY <1>1 DEF Offering
<1>5. /\ h.output \in Seq(Item)
      /\ \A k \in DOMAIN h.output :
           \/ k \in DOMAIN q /\ h.output[k] = q[k]
           \/ h.output[k] = Event(n)
      /\ \A m : Among(q, m) \/ m = n => Among(h.output, m)
      /\ Rising(h.output)
  BY <1>1, <1>2, <1>3, <1>4, Pushed
<1>7. Pumped(h) = n /\ h.cutoff = g.cutoff /\ h.cutoff \in Nat
  BY <1>0 DEF FeedType,  Pumped, Same, Offering
<1>8. \A k \in DOMAIN h.output : Behind(h, c, h.output[k])
  <2>1. \A k \in DOMAIN q : Behind(h, c, q[k])
    BY <1>1, <1>7 DEF Behind, Offering, QueuesFit
  <2>2. Behind(h, c, Event(n))
    BY <1>2, <1>7 DEF Behind, Event, Offering
  <2> QED
    BY <1>5, <2>1, <2>2
<1>9. QueuesFit(h, c) /\ QueuesRise(h)
  <2>1. QueuesFit(h, c)
    BY <1>0, <1>8 DEF QueuesFit
  <2>2. QueuesRise(h)
    BY <1>0, <1>5 DEF QueuesRise, Rising
  <2> QED
    BY <2>1, <2>2
<1>10. \A m \in (h.cutoff + 1)..n : Covered(h, c, m)
  <2>1. ASSUME NEW m \in (g.cutoff + 1)..(n - 1) PROVE Covered(h, c, m)
    <3>1. m \in c.taken \/ Replaced(m) \/ Among(q, m)
      BY <1>1 DEF Offering, Covered
    <3> QED
      BY <1>5, <3>1 DEF Covered
  <2>2. Covered(h, c, n)
    BY <1>5 DEF Covered
  <2> QED
    BY <1>2, <1>7, <2>1, <2>2
<1>11. NothingLost(h, c)
  <2>1. ASSUME NEW k \in DOMAIN h.output, NEW m \in (h.cutoff + 1)..h.output[k].seq
        PROVE  Covered(h, c, m)
    <3>1. h.output[k].seq <= n
      BY <1>7, <1>8 DEF Behind
    <3>2. h.output[k].seq \in Nat
      <4>1. h.output[k] \in Item
        BY <1>5, ElementOfSeq
      <4> QED
        BY <4>1 DEF Item
    <3>3. m \in (h.cutoff + 1)..n
      BY <1>2, <1>7, <2>1, <3>1, <3>2
    <3> QED
      BY <1>10, <3>3
  <2> QED
    BY <1>7, <1>10, <2>1 DEF NothingLost
<1> QED
  BY <1>0, <1>9, <1>11 DEF Queued

\* The window takes the event, at its end, and lets go of the one it replaces.
Windowed(h, g, n) ==
  /\ h \in FeedType /\ Same(h, g) /\ h.ended = g.ended /\ h.output = g.output
  /\ h.pending = Append(g.pending, Event(n))
     \/ (Slots(g.pending, n) # {} /\ h.pending = Merged(g.pending, n) /\ log[n] # Boundary)

LEMMA WindowFits ==
  ASSUME log \in Seq(Keys), published \in Nat, NEW g \in FeedType, NEW c \in Copies, NEW n,
         Offering(g, c, n),
         NEW h, Windowed(h, g, n)
  PROVE  Queued(h, c)
<1>1. h \in FeedType /\ Same(h, g) /\ ~h.ended /\ h.output = g.output
  BY DEF Windowed, Offering
<1>2. n \in Nat /\ n \in 1..Len(log) /\ n = Pumped(g) /\ g.cutoff < n /\ c.seq < n
  BY DEF Offering
<1>3. g.pending \in Seq(Item) /\ Rising(g.pending) /\ \A k \in DOMAIN g.pending : g.pending[k].seq < n
  BY DEF FeedType, Offering, QueuesRise
<1>4. /\ \A k \in DOMAIN h.pending :
           \/ \E j \in DOMAIN g.pending : h.pending[k] = g.pending[j]
           \/ h.pending[k] = Event(n)
      /\ Among(h.pending, n)
      /\ \A m : Among(g.pending, m) =>
           Among(h.pending, m) \/ (log[m] = log[n] /\ log[n] # Boundary)
      /\ Rising(h.pending)
  <2>1. CASE h.pending = Append(g.pending, Event(n))
    BY <1>2, <1>3, <2>1, Pushed
  <2>2. CASE Slots(g.pending, n) # {} /\ h.pending = Merged(g.pending, n) /\ log[n] # Boundary
    BY <1>2, <1>3, <2>2, MergeKeeps
  <2> QED
    BY <2>1, <2>2 DEF Windowed
<1>5. Pumped(h) = n /\ h.cutoff = g.cutoff /\ h.cutoff \in Nat
  BY <1>1, <1>2 DEF FeedType, Pumped, Same
<1>6. QueuesFit(h, c)
  <2>1. Behind(h, c, Event(n))
    BY <1>2, <1>5 DEF Behind, Event
  <2>2. \A item : Behind(g, c, item) => Behind(h, c, item)
    BY <1>2, <1>5 DEF Behind
  <2>3. /\ \A k \in DOMAIN g.output : Behind(g, c, g.output[k])
        /\ \A k \in DOMAIN g.pending : Behind(g, c, g.pending[k])
    BY DEF Offering, QueuesFit
  <2> QED
    BY <1>1, <1>4, <2>1, <2>2, <2>3 DEF QueuesFit
<1>7. QueuesRise(h)
  <2>1. /\ Rising(g.output) /\ \A k \in DOMAIN g.output : g.output[k].seq < n
        /\ \A j \in DOMAIN g.output, k \in DOMAIN g.pending : g.output[j].seq < g.pending[k].seq
    BY DEF Offering, QueuesRise
  <2>2. Event(n).seq = n
    BY DEF Event
  <2> QED
    BY <1>1, <1>4, <2>1, <2>2 DEF QueuesRise
<1>8. \A m : Covered(h, c, m) <=> Covered(g, c, m)
  BY <1>1 DEF Covered
<1>9. ASSUME NEW m \in (h.cutoff + 1)..n PROVE Covered(h, c, m) \/ Among(h.pending, m)
  <2>1. CASE m = n
    BY <1>4, <2>1
  <2>2. CASE m # n
    <3>1. m \in (g.cutoff + 1)..(n - 1)
      BY <1>2, <1>5, <1>9, <2>2
    <3>2. Covered(g, c, m) \/ Among(g.pending, m)
      BY <3>1 DEF Offering
    <3>3. ASSUME log[m] = log[n], log[n] # Boundary PROVE Replaced(m)
      <4>1. n \in (m + 1)..Len(log)
        BY <1>2, <1>5, <3>1
      <4> QED
        BY <3>3, <4>1 DEF Replaced, Abstract!Replaced
    <3> QED
      BY <1>4, <1>8, <3>2, <3>3 DEF Covered
  <2> QED
    BY <2>1, <2>2
<1>10. NothingLost(h, c)
  <2>1. \A k \in DOMAIN h.output : \A m \in (h.cutoff + 1)..h.output[k].seq : Covered(h, c, m)
    BY <1>1, <1>5, <1>8 DEF Offering
  <2> QED
    BY <1>5, <1>9, <2>1 DEF NothingLost
<1> QED
  BY <1>1, <1>6, <1>7, <1>10 DEF Queued

\* LiveBuffer's offer, whatever it decides.
LEMMA OfferFits ==
  ASSUME log \in Seq(Keys), published \in Nat, NEW g \in FeedType, NEW c \in Copies, NEW n,
         Offering(g, c, n)
  PROVE  Same(Offered(g, n), g) /\ Queued(Offered(g, n), c)
<1>1. ~g.ended /\ n \in Nat
  BY DEF Offering
<1>2. g.output \in Seq(Item) /\ g.pending \in Seq(Item)
  BY DEF FeedType
<1>3. CASE Retained(g) + 1 > MaxItems
  BY <1>1, <1>3, CloseFits DEF Offered
<1>4. CASE ~(Retained(g) + 1 > MaxItems) /\ log[n] = Boundary
  <2> DEFINE h == Offered(g, n)
  <2>1. g.output \o g.pending \in Seq(Item)
    BY <1>2, Joined
  <2>2. Append(g.output \o g.pending, Event(n)) \in Seq(Item)
    BY <1>1, <2>1, Pushed
  <2>3. h = [g EXCEPT !.output = Append(g.output \o g.pending, Event(n)), !.pending = <<>>]
    BY <1>1, <1>4 DEF Offered, MergeKey, Flushed, FeedType
  <2> HIDE DEF h
  <2>4. /\ h.output = Append(g.output \o g.pending, Event(n)) /\ h.pending = <<>>
        /\ Same(h, g) /\ h.ended = g.ended
    BY <2>3 DEF Same, FeedType
  <2>5. h \in FeedType
    <3>1. \A q, r \in Seq(Item) : [g EXCEPT !.output = q, !.pending = r] \in FeedType
      BY DEF FeedType
    <3> QED
      BY <2>2, <2>3, <3>1, EmptySeq
  <2>6. Released(h, g, n)
    BY <2>4, <2>5 DEF Released
  <2> QED
    BY <2>4, <2>6, BoundaryFits DEF h
<1>5. CASE ~(Retained(g) + 1 > MaxItems) /\ log[n] # Boundary /\ Slots(g.pending, n) # {}
  <2> DEFINE h == Offered(g, n)
  <2>1. Merged(g.pending, n) \in Seq(Item)
    BY <1>1, <1>2, <1>5, MergeKeeps
  <2>2. h = [g EXCEPT !.pending = Merged(g.pending, n)]
    BY <1>1, <1>5 DEF Offered, MergeKey, InWindow
  <2>3. Windowed(h, g, n)
    BY <1>5, <2>1, <2>2 DEF Windowed, Same, FeedType
  <2> QED
    BY <2>3, WindowFits DEF Windowed
<1>6. CASE ~(Retained(g) + 1 > MaxItems) /\ log[n] # Boundary /\ Slots(g.pending, n) = {}
  <2> DEFINE h == Offered(g, n)
  <2>1. Append(g.pending, Event(n)) \in Seq(Item)
    BY <1>1, <1>2, Pushed
  <2>2. h = [g EXCEPT !.pending = Append(g.pending, Event(n)),
                      !.timer = IF g.timer = "none" THEN "armed" ELSE g.timer]
    BY <1>1, <1>6 DEF Offered, MergeKey, InWindow
  <2>3. Windowed(h, g, n)
    BY <2>1, <2>2 DEF Windowed, Same, FeedType
  <2> QED
    BY <2>3, WindowFits DEF Windowed
<1> QED
  BY <1>3, <1>4, <1>5, <1>6

\* What is left in a mailbox whose first message is taken.
LEMMA MailboxTail ==
  ASSUME NEW m \in Seq(Nat), NEW p \in Nat, m # <<>>, Len(m) <= p,
         \A k \in DOMAIN m : m[k] = p - Len(m) + k
  PROVE  /\ Tail(m) \in Seq(Nat) /\ Len(m) \in Nat /\ Len(m) > 0 /\ Len(Tail(m)) = Len(m) - 1
         /\ Head(m) = p - Len(m) + 1 /\ Head(m) \in Nat /\ 1 <= Head(m) /\ Head(m) <= p
         /\ \A k \in DOMAIN Tail(m) : Tail(m)[k] = p - Len(Tail(m)) + k
<1>1. Len(m) \in Nat /\ Len(m) > 0 /\ DOMAIN m = 1..Len(m)
  BY EmptySeq
<1>2. Tail(m) \in Seq(Nat) /\ Len(Tail(m)) = Len(m) - 1
  BY HeadTailProperties
<1>3. Head(m) = m[1]
  BY <1>1
<1>4. Head(m) = p - Len(m) + 1
  BY <1>1, <1>3
<1>5. ASSUME NEW k \in DOMAIN Tail(m) PROVE Tail(m)[k] = p - Len(Tail(m)) + k
  <2>1. k \in 1..Len(Tail(m)) /\ k \in Nat
    BY <1>2
  <2>2. k + 1 \in 1..Len(m)
    BY <1>1, <1>2, <2>1
  <2>3. Tail(m)[k] = m[k + 1]
    BY <2>1, HeadTailProperties
  <2>4. m[k + 1] = p - Len(m) + (k + 1)
    BY <1>1, <2>2
  <2> QED
    BY <1>1, <1>2, <2>1, <2>3, <2>4
<1> QED
  BY <1>1, <1>2, <1>4, <1>5

\* What an operation on the buffer leaves of the rest.
LEMMA RestFits ==
  ASSUME NEW g, NEW h, NEW c, Same(h, g), Queued(h, c), BaselineFits(g, c), MailboxFits(g),
         g.cutoff <= Len(log)
  PROVE  h \in FeedType /\ MailboxFits(h) /\ LiveFits(h, c)
<1>1. Pumped(h) = Pumped(g)
  BY DEF Same, Pumped
<1>2. BaselineFits(h, c)
  BY <1>1 DEF Same, BaselineFits
<1> QED
  BY <1>2 DEF Same, Queued, LiveFits, MailboxFits

Pumps(f, c) == MailboxFits(f) /\ LiveFits(f, c) /\ f.mailbox # <<>>
AfterPump(f) ==
  LET g == [f EXCEPT !.mailbox = Tail(f.mailbox)]
      n == Head(f.mailbox)
  IN  IF n > g.cutoff THEN Offered(g, n) ELSE g

\* The pump takes the next of what was published.
LEMMA PumpFits ==
  ASSUME log \in Seq(Keys), published \in 0..Len(log), NEW f \in FeedType, NEW c \in Copies,
         Pumps(f, c)
  PROVE  /\ AfterPump(f) \in FeedType /\ MailboxFits(AfterPump(f))
         /\ LiveFits(AfterPump(f), c)
<1> DEFINE g == [f EXCEPT !.mailbox = Tail(f.mailbox)]
           n == Head(f.mailbox)
           h == AfterPump(f)
<1>0. h = IF n > g.cutoff THEN Offered(g, n) ELSE g
  BY DEF AfterPump
<1>n. published \in Nat /\ Len(log) \in Nat /\ published <= Len(log)
  BY LenProperties
<1>p. MailboxFits(f) /\ LiveFits(f, c)
  BY DEF Pumps
<1>2. /\ Tail(f.mailbox) \in Seq(Nat) /\ Len(f.mailbox) \in Nat
      /\ Len(f.mailbox) <= published /\ Len(Tail(f.mailbox)) = Len(f.mailbox) - 1
      /\ n = published - Len(f.mailbox) + 1 /\ n \in Nat /\ 1 <= n /\ n <= published
      /\ \A k \in DOMAIN Tail(f.mailbox) :
           Tail(f.mailbox)[k] = published - Len(Tail(f.mailbox)) + k
  <2>1. f.mailbox \in Seq(Nat) /\ f.mailbox # <<>>
    BY DEF FeedType, Pumps
  <2> QED
    BY <1>n, <1>p, <2>1, MailboxTail DEF MailboxFits
<1>1. /\ g \in FeedType /\ g.cutoff = f.cutoff /\ g.baseline = f.baseline /\ g.output = f.output
      /\ g.pending = f.pending /\ g.ended = f.ended /\ g.timer = f.timer
      /\ g.mailbox = Tail(f.mailbox)
  BY <1>2 DEF FeedType
<1> SUFFICES h \in FeedType /\ MailboxFits(h) /\ LiveFits(h, c)
  OBVIOUS
<1> HIDE DEF g, n, h
<1>6. MailboxFits(g)
  BY <1>1, <1>2, <1>n DEF MailboxFits
<1>5. Pumped(g) = n /\ Pumped(f) = n - 1
  <2>1. Len(g.mailbox) = Len(f.mailbox) - 1
    BY <1>1, <1>2
  <2> QED
    BY <1>2, <1>n, <2>1 DEF Pumped
<1>4. n \in Nat /\ 1 <= n /\ n <= Len(log) /\ n \in 1..Len(log)
  BY <1>2, <1>n
<1>7. c.seq \in Nat /\ f.cutoff \in Nat /\ f.cutoff <= Len(log)
  BY <1>p DEF Copies, FeedType, LiveFits
<1>8. BaselineFits(g, c)
  BY <1>p, <1>1, <1>n, <1>4, <1>5, <1>7 DEF LiveFits, BaselineFits
<1>9. QueuesFit(g, c) /\ QueuesRise(g)
  <2>1. \A item \in Item : Behind(f, c, item) => Behind(g, c, item) /\ item.seq < n
    BY <1>1, <1>4, <1>5 DEF Behind, Item
  <2>2. f.output \in Seq(Item) /\ f.pending \in Seq(Item)
    BY DEF FeedType
  <2>3. QueuesFit(g, c)
    BY <1>p, <1>1, <2>1, <2>2, ElementOfSeq DEF LiveFits, QueuesFit
  <2> QED
    BY <1>p, <1>1, <2>3 DEF LiveFits, QueuesRise
<1>10. \A m : Covered(g, c, m) <=> Covered(f, c, m)
  BY <1>1 DEF Covered
<1>11. CASE n <= f.cutoff
  <2>1. h = g
    BY <1>0, <1>1, <1>4, <1>7, <1>11
  <2>2. NothingLost(g, c)
    <3>1. (g.cutoff + 1)..Pumped(g) = {}
      BY <1>1, <1>4, <1>5, <1>7, <1>11
    <3> QED
      BY <1>p, <1>1, <1>10, <3>1 DEF LiveFits, NothingLost
  <2> QED
    BY <1>p, <1>1, <1>6, <1>7, <1>8, <1>9, <2>1, <2>2 DEF LiveFits
<1>12. CASE n > f.cutoff /\ f.ended
  <2>1. h = g
    BY <1>0, <1>1, <1>12 DEF Offered
  <2>2. NothingLost(g, c)
    BY <1>p, <1>1, <1>10, <1>12 DEF LiveFits, NothingLost
  <2> QED
    BY <1>p, <1>1, <1>6, <1>7, <1>8, <1>9, <2>1, <2>2 DEF LiveFits
<1>13. CASE n > f.cutoff /\ ~f.ended
  <2>1. h = Offered(g, n)
    BY <1>0, <1>1, <1>13
  <2>2. c.seq < n
    BY <1>p, <1>4, <1>5, <1>7, <1>13 DEF LiveFits, BaselineFits, NoCopy
  <2>3. /\ \A k \in DOMAIN g.output : g.output[k].seq < n
        /\ \A k \in DOMAIN g.pending : g.pending[k].seq < n
    <3>1. \A item \in Item : Behind(f, c, item) => item.seq < n
      BY <1>4, <1>5 DEF Behind, Item
    <3>2. f.output \in Seq(Item) /\ f.pending \in Seq(Item)
      BY DEF FeedType
    <3> QED
      BY <1>p, <1>1, <1>13, <3>1, <3>2, ElementOfSeq DEF LiveFits, QueuesFit
  <2>4. /\ \A k \in DOMAIN g.output : \A m \in (g.cutoff + 1)..g.output[k].seq : Covered(g, c, m)
        /\ \A m \in (g.cutoff + 1)..(n - 1) : Covered(g, c, m) \/ Among(g.pending, m)
    BY <1>p, <1>1, <1>5, <1>10, <1>13 DEF LiveFits, NothingLost
  <2>5. Offering(g, c, n)
    BY <1>1, <1>4, <1>5, <1>9, <1>13, <2>2, <2>3, <2>4 DEF Offering
  <2>6. Same(h, g) /\ Queued(h, c)
    BY <1>1, <2>1, <2>5, OfferFits
  <2> QED
    BY <1>1, <1>6, <1>7, <1>8, <2>6, RestFits
<1> QED
  BY <1>4, <1>7, <1>11, <1>12, <1>13

\* The window's timer releases the window.
LEMMA FireFits ==
  ASSUME log \in Seq(Keys), published \in 0..Len(log), NEW f \in FeedType, NEW c \in Copies,
         MailboxFits(f), LiveFits(f, c), f.timer = "armed"
  PROVE  Fired(f) \in FeedType /\ MailboxFits(Fired(f)) /\ LiveFits(Fired(f), c)
<1> DEFINE h == Fired(f)
           q == f.output \o f.pending
<1>1. f.output \in Seq(Item) /\ f.pending \in Seq(Item) /\ ~f.ended
  BY DEF FeedType, LiveFits, QueuesFit
<1>2. /\ q \in Seq(Item)
      /\ \A k \in DOMAIN q :
           \/ k \in DOMAIN f.output /\ q[k] = f.output[k]
           \/ \E j \in DOMAIN f.pending : q[k] = f.pending[j]
      /\ \A m : Among(f.output, m) \/ Among(f.pending, m) => Among(q, m)
      /\ Rising(q)
  <2>1. /\ Rising(f.output) /\ Rising(f.pending)
        /\ \A j \in DOMAIN f.output, k \in DOMAIN f.pending : f.output[j].seq < f.pending[k].seq
    BY DEF LiveFits, QueuesRise
  <2> QED
    BY <1>1, <2>1, Joined
<1>3. /\ h \in FeedType /\ Same(h, f) /\ h.ended = f.ended /\ h.pending = <<>> /\ h.output = q
      /\ DOMAIN h.pending = {}
  <2>1. \A r, e \in Seq(Item) :
          [f EXCEPT !.output = r, !.pending = e, !.timer = "none"] \in FeedType
    BY DEF FeedType
  <2>2. h = [f EXCEPT !.output = q, !.pending = <<>>, !.timer = "none"]
    BY DEF Fired, Flushed, FeedType
  <2> HIDE DEF h, q
  <2>3. <<>> \in Seq(Item) /\ q \in Seq(Item)
    BY <1>2, EmptySeq
  <2>4. h \in FeedType
    BY <2>1, <2>2, <2>3
  <2>5. Same(h, f) /\ h.ended = f.ended /\ h.pending = <<>> /\ h.output = q
    BY <2>2 DEF FeedType, Same
  <2> QED
    BY <2>4, <2>5
<1> HIDE DEF h, q
<1>4. Pumped(h) = Pumped(f) /\ h.cutoff = f.cutoff /\ h.cutoff \in Nat
  BY <1>3 DEF Pumped, Same, FeedType
<1>5. \A k \in DOMAIN q : Behind(h, c, q[k])
  <2>1. \A item : Behind(f, c, item) => Behind(h, c, item)
    BY <1>4 DEF Behind
  <2> QED
    BY <1>1, <1>2, <2>1 DEF LiveFits, QueuesFit
<1>6. QueuesFit(h, c) /\ QueuesRise(h)
  <2>1. QueuesFit(h, c)
    BY <1>1, <1>3, <1>5 DEF QueuesFit
  <2>2. QueuesRise(h)
    BY <1>2, <1>3 DEF QueuesRise, Rising
  <2> QED
    BY <2>1, <2>2
<1>7. ASSUME NEW m \in (h.cutoff + 1)..Pumped(h) PROVE Covered(h, c, m)
  <2>1. Covered(f, c, m) \/ Among(f.pending, m)
    BY <1>1, <1>4 DEF LiveFits, NothingLost
  <2> QED
    BY <1>2, <1>3, <2>1 DEF Covered
<1>8. NothingLost(h, c)
  <2>1. ASSUME NEW k \in DOMAIN h.output, NEW m \in (h.cutoff + 1)..h.output[k].seq
        PROVE  Covered(h, c, m)
    <3>1. h.output[k] \in Item
      BY <1>2, <1>3, ElementOfSeq
    <3>2. h.output[k].seq \in Nat /\ h.output[k].seq <= Pumped(h)
      BY <1>3, <1>5, <3>1 DEF Behind, Item
    <3>3. Pumped(h) \in Int
      BY <1>3 DEF Pumped, FeedType
    <3>4. m \in (h.cutoff + 1)..Pumped(h)
      BY <1>4, <3>2, <3>3
    <3> QED
      BY <1>7, <3>4
  <2> QED
    BY <1>7, <2>1 DEF NothingLost
<1> QED
  BY <1>3, <1>6, <1>8, RestFits DEF Queued, LiveFits, h

-----------------------------------------------------------------------------
(* The client's side.                                                      *)

\* Taking the first item of a queue leaves the rest in order.
LEMMA Popped ==
  ASSUME NEW q \in Seq(Item), q # <<>>
  PROVE  /\ Head(q) \in Item /\ 1 \in DOMAIN q /\ Head(q) = q[1]
         /\ Tail(q) \in Seq(Item) /\ Len(q) \in Nat /\ Len(q) > 0 /\ Len(Tail(q)) = Len(q) - 1
         /\ \A k \in DOMAIN Tail(q) : k + 1 \in DOMAIN q /\ Tail(q)[k] = q[k + 1] /\ k \in Nat
         /\ \A m : Among(q, m) => Head(q) = Event(m) \/ Among(Tail(q), m)
         /\ Rising(q) => /\ Rising(Tail(q))
                         /\ \A k \in DOMAIN Tail(q) :
                              Tail(q)[k].kind = "event" => Head(q).seq < Tail(q)[k].seq
<1>1. Len(q) \in Nat /\ Len(q) > 0 /\ DOMAIN q = 1..Len(q)
  BY EmptySeq
<1>2. /\ Head(q) \in Item /\ Tail(q) \in Seq(Item) /\ Len(Tail(q)) = Len(q) - 1
      /\ DOMAIN Tail(q) = 1..(Len(q) - 1)
  <2>1. Tail(q) \in Seq(Item) /\ Len(Tail(q)) = Len(q) - 1 /\ Head(q) \in Item
    BY HeadTailProperties
  <2> QED
    BY <2>1, LenProperties
<1>3. 1 \in DOMAIN q /\ Head(q) = q[1]
  BY <1>1
<1>4. ASSUME NEW k \in DOMAIN Tail(q)
      PROVE  k + 1 \in DOMAIN q /\ Tail(q)[k] = q[k + 1] /\ k \in Nat
  <2>1. k \in 1..Len(Tail(q)) /\ k \in Nat
    BY <1>1, <1>2
  <2>2. k + 1 \in 1..Len(q)
    BY <1>1, <1>2, <2>1
  <2>3. Tail(q)[k] = q[k + 1]
    BY <2>1, HeadTailProperties
  <2> QED
    BY <1>1, <2>1, <2>2, <2>3
<1>5. ASSUME NEW m, Among(q, m) PROVE Head(q) = Event(m) \/ Among(Tail(q), m)
  <2>1. PICK k \in DOMAIN q : q[k] = Event(m)
    BY <1>5 DEF Among
  <2>2. CASE k = 1
    BY <1>3, <2>1, <2>2
  <2>3. CASE k # 1
    <3>1. k - 1 \in 1..(Len(q) - 1)
      BY <1>1, <2>1, <2>3
    <3>2. k - 1 \in DOMAIN Tail(q) /\ Tail(q)[k - 1] = q[(k - 1) + 1]
      BY <1>2, <1>4, <3>1
    <3>3. (k - 1) + 1 = k
      BY <1>1
    <3> QED
      BY <2>1, <3>2, <3>3 DEF Among
  <2> QED
    BY <2>2, <2>3
<1>6. ASSUME Rising(q)
      PROVE  /\ Rising(Tail(q))
             /\ \A k \in DOMAIN Tail(q) : Tail(q)[k].kind = "event" => Head(q).seq < Tail(q)[k].seq
  <2>1. ASSUME NEW k \in DOMAIN Tail(q), Tail(q)[k].kind = "event"
        PROVE  Head(q).seq < Tail(q)[k].seq
    <3>1. k + 1 \in DOMAIN q /\ Tail(q)[k] = q[k + 1] /\ 1 < k + 1
      BY <1>2, <1>4, <2>1
    <3> QED
      BY <1>3, <1>6, <2>1, <3>1 DEF Rising
  <2>2. ASSUME NEW j \in DOMAIN Tail(q), NEW k \in DOMAIN Tail(q), j < k,
               Tail(q)[k].kind = "event"
        PROVE  Tail(q)[j].seq < Tail(q)[k].seq
    <3>1. /\ j + 1 \in DOMAIN q /\ k + 1 \in DOMAIN q /\ j + 1 < k + 1
          /\ Tail(q)[j] = q[j + 1] /\ Tail(q)[k] = q[k + 1]
      BY <1>4, <2>2
    <3> QED
      BY <1>6, <2>2, <3>1 DEF Rising
  <2> QED
    BY <2>1, <2>2 DEF Rising
<1> QED
  BY <1>1, <1>2, <1>3, <1>4, <1>5, <1>6

\* A copy that has moved on: the only way Replica lets it, unless it is given up.
Moved(c, d) ==
  /\ d \in Copies /\ d.held /\ c.seq <= d.seq /\ d.seq <= Len(log)
  /\ c.taken \subseteq d.taken /\ CopyFits(d)

\* An item of the baseline is taken: nothing behind the cutoff is touched.
LEMMA BaselinePulled ==
  ASSUME NEW f \in FeedType, NEW c \in Copies, NEW d, NEW h, MailboxFits(f), LiveFits(f, c),
         Moved(c, d), d.seq <= f.cutoff,
         h = [f EXCEPT !.baseline = Tail(f.baseline)],
         Tail(f.baseline) \in Seq(Item), BaselineFits(h, d)
  PROVE  h \in FeedType /\ MailboxFits(h) /\ LiveFits(h, d)
<1>1. /\ h \in FeedType /\ h.mailbox = f.mailbox /\ h.cutoff = f.cutoff /\ h.output = f.output
      /\ h.pending = f.pending /\ h.ended = f.ended /\ h.timer = f.timer
  BY DEF FeedType
<1>2. Pumped(h) = Pumped(f)
  BY <1>1 DEF Pumped
<1>3. d.seq \in Nat /\ f.cutoff \in Nat /\ c.taken \subseteq d.taken
  BY DEF Moved, Copies, FeedType
<1>4. QueuesFit(h, d)
  <2>1. \A item \in Item : Behind(f, c, item) => Behind(h, d, item)
    BY <1>1, <1>2, <1>3 DEF Behind, Item
  <2>2. f.output \in Seq(Item) /\ f.pending \in Seq(Item)
    BY DEF FeedType
  <2>3. \A k \in DOMAIN f.output : f.output[k] \in Item
    BY <2>2, ElementOfSeq
  <2>4. \A k \in DOMAIN f.pending : f.pending[k] \in Item
    BY <2>2, ElementOfSeq
  <2> QED
    BY <1>1, <2>1, <2>3, <2>4 DEF LiveFits, QueuesFit
<1>5. \A m : Covered(f, c, m) => Covered(h, d, m)
  BY <1>1, <1>3 DEF Covered
<1>6. NothingLost(h, d) /\ QueuesRise(h)
  BY <1>1, <1>2, <1>5 DEF LiveFits, NothingLost, QueuesRise
<1> QED
  BY <1>1, <1>4, <1>6 DEF MailboxFits, LiveFits

\* What a pull from the buffer's output finds.
Ahead(f, c) ==
  /\ f \in FeedType /\ c \in Copies /\ CopyFits(c) /\ MailboxFits(f) /\ LiveFits(f, c)
  /\ f.baseline = <<>> /\ f.output # <<>>

\* The first event of the output is the next the copy can take: what lies
\* between is replaced by an event still to come.
LEMMA OutputSound ==
  ASSUME NEW f, NEW c, Ahead(f, c), log \in Seq(Keys), published \in 0..Len(log),
         NEW n, Head(f.output) = Event(n),
         NEW d, d = Applied(c, Event(n))
  PROVE  n \in Nat /\ f.cutoff < n /\ n <= Pumped(f) /\ c.seq < n /\ d.seq = n /\ n \in d.taken
         /\ Moved(c, d)
<1>1. /\ c.held /\ c.seq \in Nat /\ f.cutoff \in Nat /\ f.cutoff <= c.seq
      /\ c.taken \subseteq 1..c.seq /\ Abstract!Sound(c) /\ QueuesFit(f, c) /\ QueuesRise(f)
      /\ NothingLost(f, c) /\ f.output \in Seq(Item) /\ f.output # <<>>
  BY DEF Ahead, LiveFits, BaselineFits, Snapshot, Synchronized, Copies, FeedType, CopyFits
<1>2. /\ 1 \in DOMAIN f.output /\ Head(f.output) = f.output[1] /\ f.output[1] \in Item
      /\ Len(f.output) \in Nat
  BY <1>1, Popped
<1>3. Event(n).seq = n /\ Event(n).kind = "event" /\ Event(n) # Overflow
  BY DEF Event, Overflow
<1>4. n \in Nat /\ Behind(f, c, Event(n))
  BY <1>1, <1>2, <1>3 DEF QueuesFit, Item
<1>5. c.seq < n /\ f.cutoff < n /\ n <= Pumped(f)
  BY <1>3, <1>4 DEF Behind
<1>6. d = [c EXCEPT !.seq = n, !.taken = c.taken \cup {n}]
  BY <1>1, <1>3, <1>4, <1>5 DEF Applied
<1>7. d \in Copies /\ d.held /\ d.seq = n /\ d.taken = c.taken \cup {n}
  BY <1>1, <1>4, <1>6 DEF Ahead, Copies
<1>8. d.taken \subseteq 1..d.seq
  BY <1>1, <1>4, <1>5, <1>7
<1>9. ASSUME NEW m \in 1..d.seq PROVE m \in d.taken \/ Abstract!Replaced(m)
  <2>1. CASE m <= c.seq
    BY <1>1, <1>4, <1>7, <1>9, <2>1 DEF Abstract!Sound
  <2>2. CASE m > c.seq
    <3>1. m \in (f.cutoff + 1)..f.output[1].seq
      BY <1>1, <1>2, <1>3, <1>4, <1>7, <1>9, <2>2
    <3>2. Covered(f, c, m)
      BY <1>1, <1>2, <3>1 DEF NothingLost
    <3>3. ASSUME Among(f.output, m) PROVE m = n
      <4>1. PICK k \in DOMAIN f.output : f.output[k] = Event(m)
        BY <3>3 DEF Among
      <4>2. k = 1 \/ 1 < k
        BY <1>1, <4>1
      <4>3. Event(m).seq = m /\ Event(m).kind = "event"
        BY DEF Event
      <4>4. CASE 1 < k
        <5>1. f.output[1].seq < f.output[k].seq
          BY <1>1, <1>2, <4>1, <4>3, <4>4 DEF QueuesRise, Rising
        <5>2. n < m
          BY <1>2, <1>3, <4>1, <4>3, <5>1
        <5> QED
          BY <1>4, <1>7, <1>9, <5>2
      <4> QED
        BY <1>2, <1>3, <4>1, <4>2, <4>3, <4>4
    <3> QED
      BY <1>7, <3>2, <3>3 DEF Covered, Replaced
  <2> QED
    BY <1>1, <1>4, <1>7, <1>9, <2>1, <2>2
<1>10. Abstract!Sound(d)
  BY <1>9 DEF Abstract!Sound
<1>11. d.seq <= Len(log)
  <2>1. published \in Nat /\ Len(log) \in Nat /\ published <= Len(log)
    BY LenProperties
  <2>2. Len(f.mailbox) \in Nat /\ Pumped(f) = published - Len(f.mailbox)
    BY LenProperties DEF Pumped, Ahead, FeedType
  <2> QED
    BY <1>4, <1>5, <1>7, <2>1, <2>2
<1> QED
  BY <1>1, <1>4, <1>5, <1>7, <1>8, <1>10, <1>11 DEF Moved, CopyFits

\* An event of the output is taken.
LEMMA OutputPulled ==
  ASSUME NEW f, NEW c, Ahead(f, c), log \in Seq(Keys), published \in 0..Len(log),
         NEW n, Head(f.output) = Event(n),
         NEW d, d = Applied(c, Event(n)), NEW h, h = [f EXCEPT !.output = Tail(f.output)]
  PROVE  Moved(c, d) /\ h \in FeedType /\ MailboxFits(h) /\ LiveFits(h, d)
<1>1. n \in Nat /\ f.cutoff < n /\ n <= Pumped(f) /\ c.seq < n /\ d.seq = n /\ n \in d.taken
      /\ Moved(c, d)
  BY OutputSound
<1>2. f.output \in Seq(Item) /\ f.output # <<>>
  BY DEF Ahead, FeedType
<1>3. QueuesFit(f, c) /\ QueuesRise(f) /\ NothingLost(f, c) /\ f.cutoff <= Len(log)
      /\ MailboxFits(f)
  BY DEF Ahead, LiveFits
<1>4. /\ h \in FeedType /\ h.mailbox = f.mailbox /\ h.cutoff = f.cutoff /\ h.baseline = <<>>
      /\ h.output = Tail(f.output) /\ h.pending = f.pending /\ h.ended = f.ended
      /\ h.timer = f.timer
  <2>1. Tail(f.output) \in Seq(Item)
    BY <1>2, Popped
  <2> QED
    BY <2>1 DEF Ahead, FeedType
<1>5. Pumped(h) = Pumped(f)
  BY <1>4 DEF Pumped
<1>6. Event(n).seq = n /\ Event(n).kind = "event"
  BY DEF Event
<1>7. \A item : Behind(f, c, item) /\ n < item.seq => Behind(h, d, item)
  BY <1>1, <1>4, <1>5 DEF Behind
<1> DEFINE t == Tail(f.output)
<1>8. /\ Head(f.output) = f.output[1] /\ 1 \in DOMAIN f.output
      /\ Len(t) = Len(f.output) - 1 /\ Len(f.output) \in Nat
      /\ \A k \in DOMAIN t : k + 1 \in DOMAIN f.output /\ t[k] = f.output[k + 1] /\ k \in Nat
      /\ \A m : Among(f.output, m) => Event(n) = Event(m) \/ Among(t, m)
      /\ Rising(t)
      /\ \A k \in DOMAIN t : t[k].kind = "event" => n < t[k].seq
  <2>1. Rising(f.output)
    BY <1>3 DEF QueuesRise
  <2> QED
    BY <1>2, <1>6, <2>1, Popped
<1> HIDE DEF t
<1>9. h.output = t
  BY <1>4 DEF t
<1>10. QueuesFit(h, d)
  <2>1. ASSUME NEW k \in DOMAIN t
        PROVE  Behind(h, d, t[k]) \/ (f.ended /\ k = Len(t) /\ t[k] = Overflow)
    <3>1. \/ Behind(f, c, t[k])
          \/ f.ended /\ k + 1 = Len(f.output) /\ t[k] = Overflow
      BY <1>3, <1>8 DEF QueuesFit
    <3>2. ASSUME Behind(f, c, t[k]) PROVE Behind(h, d, t[k])
      <4>1. t[k].kind = "event"
        BY <3>2 DEF Behind, Event
      <4> QED
        BY <1>7, <1>8, <3>2, <4>1
    <3>3. ASSUME k + 1 = Len(f.output) PROVE k = Len(t)
      BY <1>8, <3>3
    <3> QED
      BY <3>1, <3>2, <3>3
  <2>2. ASSUME NEW k \in DOMAIN f.pending PROVE Behind(h, d, f.pending[k])
    <3>1. f.output[1].seq < f.pending[k].seq
      BY <1>3, <1>8 DEF QueuesRise
    <3>2. Behind(f, c, f.pending[k])
      BY <1>3 DEF QueuesFit
    <3> QED
      BY <1>6, <1>7, <1>8, <3>1, <3>2
  <2> QED
    BY <1>3, <1>4, <1>9, <2>1, <2>2 DEF QueuesFit
<1>11. QueuesRise(h)
  <2>1. \A j \in DOMAIN t, k \in DOMAIN f.pending : t[j].seq < f.pending[k].seq
    BY <1>3, <1>8 DEF QueuesRise
  <2> QED
    BY <1>3, <1>4, <1>8, <1>9, <2>1 DEF QueuesRise
<1>12. ASSUME NEW m, Covered(f, c, m) PROVE Covered(h, d, m)
  <2>1. Event(n) = Event(m) => m \in d.taken
    BY <1>1 DEF Event
  <2> QED
    BY <1>1, <1>8, <1>9, <1>12, <2>1 DEF Covered, Moved
<1>13. NothingLost(h, d)
  <2>1. ASSUME NEW k \in DOMAIN t, NEW m \in (f.cutoff + 1)..t[k].seq PROVE Covered(f, c, m)
    BY <1>3, <1>8 DEF NothingLost
  <2> QED
    BY <1>3, <1>4, <1>5, <1>9, <1>12, <2>1 DEF NothingLost
<1>14. BaselineFits(h, d)
  BY <1>1, <1>4, <1>5 DEF BaselineFits, Moved
<1> QED
  BY <1>1, <1>3, <1>4, <1>10, <1>11, <1>13, <1>14 DEF LiveFits, MailboxFits

\* What an item of the baseline does: the snapshot, an event, or the marker.
FromBaseline(f, c) ==
  f \in FeedType /\ c \in Copies /\ CopyFits(c) /\ LiveFits(f, c) /\ f.baseline # <<>>

TakesBaseline(f, c, item, d, h) ==
  /\ item \in Item /\ item.kind # "resnapshot-required" /\ Moved(c, d) /\ d.seq <= f.cutoff
  /\ h.baseline \in Seq(Item) /\ BaselineFits(h, d)

\* A baseline `b` whose head is `item` and whose tail is `t`.
LEMMA BaselineSplit ==
  ASSUME NEW b \in Seq(Item), b # <<>>
  PROVE  /\ Head(b) \in Item /\ Head(b) = b[1] /\ Tail(b) \in Seq(Item)
         /\ Len(b) \in Nat /\ Len(b) > 0 /\ Len(Tail(b)) = Len(b) - 1
         /\ DOMAIN Tail(b) = 1..Len(Tail(b)) /\ Len(Tail(b)) \in Nat
         /\ \A k \in DOMAIN Tail(b) : Tail(b)[k] = b[k + 1] /\ k \in Nat
BY Popped, LenProperties

LEMMA BaselineFirst ==
  ASSUME NEW f, NEW c, FromBaseline(f, c), log \in Seq(Keys)
  PROVE  TakesBaseline(f, c, Head(f.baseline), Applied(c, Head(f.baseline)),
                       [f EXCEPT !.baseline = Tail(f.baseline)])
<1> DEFINE b == f.baseline
           t == Tail(f.baseline)
           item == Head(f.baseline)
           d == Applied(c, Head(f.baseline))
           h == [f EXCEPT !.baseline = Tail(f.baseline)]
<1>0. d = Applied(c, item) /\ f.baseline = b
  OBVIOUS
<1>1. /\ item \in Item /\ item = b[1] /\ t \in Seq(Item) /\ Len(b) \in Nat /\ Len(b) > 0
      /\ Len(t) = Len(b) - 1 /\ Len(t) \in Nat
      /\ \A k \in DOMAIN t : t[k] = b[k + 1] /\ k \in Nat
      /\ DOMAIN t = 1..Len(t)
  <2>1. b \in Seq(Item) /\ b # <<>>
    BY DEF FromBaseline, FeedType
  <2> QED
    BY <2>1, BaselineSplit
<1>2. /\ c.seq \in Nat /\ f.cutoff \in Nat /\ f.cutoff <= Len(log) /\ Len(log) \in Nat
      /\ c.taken \subseteq 1..c.seq /\ Abstract!Sound(c) /\ BaselineFits(f, c) /\ c \in Copies
      /\ CopyFits(c) /\ b # <<>>
  BY LenProperties DEF FromBaseline, Copies, FeedType, LiveFits, CopyFits
<1>3. h.cutoff = f.cutoff /\ h.baseline = t
  BY DEF FromBaseline, FeedType
<1> SUFFICES TakesBaseline(f, c, item, d, h)
  OBVIOUS
<1>4. CASE b = <<Snapshot(f.cutoff), Synchronized>> /\ c = NoCopy
  <2>1. item = Snapshot(f.cutoff) /\ t = <<Synchronized>>
    BY <1>4
  <2> HIDE DEF b, t, item, d, h
  <2>2. Snapshot(f.cutoff).kind = "snapshot" /\ Snapshot(f.cutoff).seq = f.cutoff
    BY DEF Snapshot
  <2>3. d = [held |-> TRUE, seq |-> f.cutoff, taken |-> 1..f.cutoff]
    BY <1>0, <2>1, <2>2 DEF Applied
  <2>4. d \in Copies /\ d.held /\ d.seq = f.cutoff /\ d.taken = 1..f.cutoff
    BY <1>2, <2>3 DEF Copies
  <2>5. c.seq = 0 /\ c.taken = {}
    BY <1>4 DEF NoCopy
  <2>6. Moved(c, d)
    BY <1>2, <2>4, <2>5 DEF Moved, CopyFits, Abstract!Sound
  <2>7. BaselineFits(h, d)
    <3>1. Len(t) = 1 /\ t[1] = Synchronized
      BY <2>1
    <3>2. f.cutoff - d.seq = 0 /\ Len(h.baseline) = h.cutoff - d.seq + 1 /\ d.seq <= h.cutoff
      BY <1>2, <1>3, <2>4, <3>1
    <3> QED
      BY <1>3, <2>4, <3>1, <3>2 DEF BaselineFits
  <2> QED
    BY <1>1, <1>2, <1>3, <2>1, <2>2, <2>4, <2>6, <2>7 DEF TakesBaseline
<1> HIDE DEF b, t, item, d, h
<1>5. CASE c.held /\ c.seq = f.cutoff /\ Len(b) = 1 /\ b[1] = Synchronized
  <2>1. item = Synchronized /\ d = c /\ item.kind = "synchronized"
    BY <1>0, <1>1, <1>5 DEF Applied, Synchronized
  <2>2. Moved(c, d)
    BY <1>2, <1>5, <2>1 DEF Moved
  <2>3. t = <<>>
    BY <1>1, <1>5, EmptySeq
  <2>4. BaselineFits(h, d)
    BY <1>3, <1>5, <2>1, <2>3 DEF BaselineFits
  <2> QED
    BY <1>1, <1>2, <1>3, <1>5, <2>1, <2>2, <2>4 DEF TakesBaseline
<1>6. CASE /\ c.held /\ c.seq < f.cutoff /\ Len(b) = f.cutoff - c.seq + 1
           /\ \A k \in 1..(f.cutoff - c.seq) : b[k] = Event(c.seq + k)
           /\ b[Len(b)] = Synchronized
  <2>1. item = Event(c.seq + 1) /\ item.kind = "event" /\ item.seq = c.seq + 1
    <3>1. 1 \in 1..(f.cutoff - c.seq)
      BY <1>2, <1>6
    <3> QED
      BY <1>1, <1>6, <3>1 DEF Event
  <2>2. d = [c EXCEPT !.seq = item.seq, !.taken = c.taken \cup {item.seq}]
    BY <1>0, <1>2, <1>6, <2>1 DEF Applied
  <2>3. /\ d \in Copies /\ d.held /\ d.seq = c.seq + 1
        /\ d.taken = c.taken \cup {c.seq + 1}
    <3>1. item.seq \in Nat /\ c.held \in BOOLEAN /\ c.taken \in SUBSET Nat
      BY <1>1, <1>2 DEF Copies, Item
    <3>2. /\ d \in Copies /\ d.held = c.held /\ d.seq = item.seq
          /\ d.taken = c.taken \cup {item.seq}
      BY <1>2, <2>2, <3>1 DEF Copies
    <3> QED
      BY <1>6, <2>1, <3>2
  <2>4. \A m \in 1..d.seq : m \in d.taken \/ Abstract!Replaced(m)
    <3>1. \A m \in 1..d.seq : m \in 1..c.seq \/ m = c.seq + 1
      BY <1>2, <2>3
    <3> QED
      BY <1>2, <2>3, <3>1 DEF Abstract!Sound
  <2>5. c.seq <= d.seq /\ d.seq <= f.cutoff /\ d.seq <= Len(log) /\ d.taken \subseteq 1..d.seq
    BY <1>2, <1>6, <2>3
  <2>6. Moved(c, d)
    BY <2>3, <2>4, <2>5 DEF Moved, CopyFits, Abstract!Sound
  <2>7. BaselineFits(h, d)
    <3>1. Len(t) = f.cutoff - d.seq + 1
      BY <1>1, <1>2, <1>6, <2>3
    <3>2. ASSUME NEW k \in 1..(f.cutoff - d.seq) PROVE t[k] = Event(d.seq + k)
      <4>1. k \in 1..Len(t) /\ k + 1 \in 1..(f.cutoff - c.seq)
        BY <1>1, <1>2, <2>3, <3>1
      <4>2. b[k + 1] = Event(c.seq + (k + 1))
        BY <1>6, <4>1
      <4>3. c.seq + (k + 1) = d.seq + k
        BY <1>2, <2>3
      <4> QED
        BY <1>1, <4>1, <4>2, <4>3
    <3>3. t[Len(t)] = Synchronized
      <4>1. Len(t) >= 1 /\ Len(t) + 1 = Len(b)
        BY <1>1, <1>2, <1>6, <2>3, <2>5, <3>1
      <4>2. Len(t) \in DOMAIN t
        BY <1>1, <4>1
      <4> QED
        BY <1>1, <1>6, <4>1, <4>2
    <3> QED
      BY <1>3, <2>3, <2>5, <3>1, <3>2, <3>3 DEF BaselineFits
  <2> QED
    BY <1>1, <1>3, <2>1, <2>5, <2>6, <2>7 DEF TakesBaseline
<1> QED
  <2>1. CASE c.held /\ c.seq = f.cutoff /\ Len(b) = f.cutoff - c.seq + 1
             /\ b[Len(b)] = Synchronized
    <3>1. Len(b) = 1
      BY <1>2, <2>1
    <3> QED
      BY <1>5, <2>1, <3>1
  <2>2. c.seq < f.cutoff \/ c.seq = f.cutoff \/ c.seq > f.cutoff
    BY <1>2
  <2> QED
    BY <1>0, <1>2, <1>4, <1>6, <2>1, <2>2 DEF BaselineFits

\* What a pull does, whichever item it takes.
Pulls(f, c) ==
  /\ f \in FeedType /\ c \in Copies /\ CopyFits(c) /\ MailboxFits(f) /\ LiveFits(f, c)
  /\ Waiting(f) # <<>>

LEMMA PullFits ==
  ASSUME NEW f, NEW c, Pulls(f, c), log \in Seq(Keys), published \in 0..Len(log),
         NEW item, item = Head(Waiting(f))
  PROVE  /\ item.kind = "resnapshot-required" => Applied(c, item) = NoCopy
         /\ item.kind # "resnapshot-required" =>
              /\ Moved(c, Applied(c, item)) /\ Pulled(f) \in FeedType /\ MailboxFits(Pulled(f))
              /\ LiveFits(Pulled(f), Applied(c, item))
<1>1. /\ f.baseline \in Seq(Item) /\ f.output \in Seq(Item) /\ f \in FeedType /\ c \in Copies
      /\ CopyFits(c) /\ MailboxFits(f) /\ LiveFits(f, c)
  BY DEF Pulls, FeedType
<1>2. item.kind = "resnapshot-required" => Applied(c, item) = NoCopy
  BY DEF Applied
<1>3. CASE f.baseline # <<>>
  <2>1. item = Head(f.baseline)
    <3>0. Len(f.baseline) \in Nat /\ Len(f.baseline) > 0 /\ Len(f.output) \in Nat
      BY <1>1, <1>3, BaselineSplit, LenProperties
    <3>1. 1 \in 1..(Len(f.baseline) + Len(f.output)) /\ 1 <= Len(f.baseline)
      <4>1. \A x, y \in Nat : x > 0 => 1 \in 1..(x + y) /\ 1 <= x
        OBVIOUS
      <4> QED
        BY <3>0, <4>1
    <3>2. Waiting(f) \in Seq(Item) /\ Waiting(f)[1] = f.baseline[1] /\ Waiting(f) # <<>>
      BY <1>1, <3>1, ConcatProperties DEF Waiting, Pulls
    <3> QED
      BY <1>1, <1>3, <3>2, BaselineSplit
  <2> DEFINE d == Applied(c, Head(f.baseline))
             h == [f EXCEPT !.baseline = Tail(f.baseline)]
  <2>2. Pulled(f) = h
    BY <1>3 DEF Pulled
  <2>3. h.baseline = Tail(f.baseline) /\ TakesBaseline(f, c, Head(f.baseline), d, h)
    <3>1. FromBaseline(f, c)
      BY <1>1, <1>3 DEF FromBaseline
    <3> QED
      BY <1>1, <3>1, BaselineFirst DEF FeedType
  <2> HIDE DEF d
  <2>4. Moved(c, d) /\ h \in FeedType /\ MailboxFits(h) /\ LiveFits(h, d)
    BY <1>1, <2>3, BaselinePulled DEF TakesBaseline
  <2> QED
    BY <1>2, <2>1, <2>2, <2>4 DEF d
<1>4. CASE f.baseline = <<>>
  <2>1. Waiting(f) = f.output /\ f.output # <<>> /\ item = Head(f.output)
    BY <1>1, <1>4, ConcatEmptySeq DEF Waiting, Pulls
  <2>2. Ahead(f, c)
    BY <1>1, <1>4, <2>1 DEF Ahead
  <2>3. Pulled(f) = [f EXCEPT !.output = Tail(f.output)]
    BY <1>4 DEF Pulled
  <2>4. item = f.output[1] /\ 1 \in DOMAIN f.output
    BY <1>1, <2>1, Popped
  <2>5. item = Event(item.seq) \/ item = Overflow
    BY <1>1, <2>4 DEF LiveFits, QueuesFit, Behind
  <2>6. CASE item = Overflow
    BY <1>2, <2>6 DEF Overflow
  <2>7. CASE item = Event(item.seq)
    BY <1>2, <2>1, <2>2, <2>3, <2>7, OutputPulled
  <2> QED
    BY <2>5, <2>6, <2>7
<1> QED
  BY <1>3, <1>4

-----------------------------------------------------------------------------
(* The steps.                                                              *)

\* A longer log replaces what it replaced, and keeps the keys it had.
LEMMA LogGrows ==
  ASSUME log \in Seq(Keys), NEW key \in Keys, log' = Append(log, key)
  PROVE  /\ log' \in Seq(Keys) /\ Len(log') = Len(log) + 1
         /\ \A n \in 1..Len(log) : Abstract!Replaced(n) => Abstract!Replaced(n)'
<1>1. /\ log' \in Seq(Keys) /\ Len(log') = Len(log) + 1 /\ Len(log) \in Nat
      /\ \A n \in 1..Len(log) : log'[n] = log[n]
  BY AppendProperties, LenProperties
<1>2. ASSUME NEW n \in 1..Len(log), Abstract!Replaced(n) PROVE Abstract!Replaced(n)'
  <2>1. PICK later \in (n + 1)..Len(log) : log[later] = log[n] /\ log[n] # Boundary
    BY <1>2 DEF Abstract!Replaced
  <2>2. later \in (n + 1)..Len(log') /\ later \in 1..Len(log)
    BY <1>1, <2>1
  <2> QED
    BY <1>1, <2>1, <2>2 DEF Abstract!Replaced
<1> QED
  BY <1>1, <1>2

LEMMA CommitKeeps ==
  ASSUME log \in Seq(Keys), NEW key \in Keys, log' = Append(log, key),
         published \in 0..Len(log), published' = published,
         NEW v \in ViewType, NEW f \in FeedType, Fits(v, f)
  PROVE  Fits(v, f)'
<1> DEFINE c == v.copy
<1>1. /\ Len(log') = Len(log) + 1 /\ Len(log) \in Nat
      /\ \A n \in 1..Len(log) : Abstract!Replaced(n) => Abstract!Replaced(n)'
  BY LogGrows, LenProperties
<1>2. c \in Copies /\ c.seq \in Nat /\ f.cutoff \in Nat
  BY DEF ViewType, Copies, FeedType
<1>3. CopyFits(c)'
  <2>1. c.seq <= Len(log) /\ c.taken \subseteq 1..c.seq /\ Abstract!Sound(c) /\ (~c.held => c = NoCopy)
    BY DEF Fits, CopyFits
  <2>2. ASSUME NEW n \in 1..c.seq PROVE n \in c.taken \/ Abstract!Replaced(n)'
    <3>1. n \in 1..Len(log)
      BY <1>1, <1>2, <2>1
    <3> QED
      BY <1>1, <2>1, <3>1 DEF Abstract!Sound
  <2>3. Abstract!Sound(c)'
    BY <2>2 DEF Abstract!Sound
  <2> QED
    BY <1>1, <1>2, <2>1, <2>3 DEF CopyFits
<1>4. MailboxFits(f)'
  BY DEF Fits, MailboxFits
<1>5. ASSUME LiveFits(f, c) PROVE LiveFits(f, c)'
  <2>1. Pumped(f)' = Pumped(f) /\ Pumped(f) \in Int /\ Pumped(f) <= Len(log)
    <3>1. published \in Nat /\ Len(f.mailbox) \in Nat
      BY <1>1, LenProperties DEF FeedType
    <3> QED
      BY <1>1, <3>1 DEF Pumped
  <2>2. BaselineFits(f, c)' /\ QueuesFit(f, c)' /\ QueuesRise(f)' /\ f.cutoff <= Len(log')
    <3>1. \A item : Behind(f, c, item)' <=> Behind(f, c, item)
      BY <2>1 DEF Behind
    <3>2. QueuesFit(f, c)'
      BY <1>5, <3>1 DEF LiveFits, QueuesFit
    <3>3. BaselineFits(f, c)'
      BY <1>5, <2>1 DEF LiveFits, BaselineFits
    <3>4. QueuesRise(f)'
      BY <1>5 DEF LiveFits, QueuesRise, Rising
    <3>5. f.cutoff <= Len(log')
      BY <1>1, <1>2, <1>5 DEF LiveFits
    <3> QED
      BY <3>2, <3>3, <3>4, <3>5
  <2>3. ASSUME NEW m \in 1..Len(log), Covered(f, c, m) PROVE Covered(f, c, m)'
    BY <1>1, <2>3 DEF Covered, Replaced, Among
  <2>4. ASSUME NEW k \in DOMAIN f.output, NEW m \in (f.cutoff + 1)..f.output[k].seq
        PROVE  Covered(f, c, m)'
    <3>1. Covered(f, c, m)
      BY <1>5 DEF LiveFits, NothingLost
    <3>2. f.output[k] \in Item
      BY ElementOfSeq DEF FeedType
    <3>3. f.output[k].seq \in Nat /\ (f.output[k].seq <= Pumped(f) \/ f.output[k].seq = 0)
      BY <1>5, <3>2 DEF LiveFits, QueuesFit, Behind, Overflow, Item
    <3>4. m \in 1..Len(log)
      BY <1>1, <1>2, <2>1, <3>3
    <3> QED
      BY <2>3, <3>1, <3>4
  <2>5. ASSUME ~f.ended, NEW m \in (f.cutoff + 1)..Pumped(f)
        PROVE  Covered(f, c, m)' \/ Among(f.pending, m)'
    <3>1. Covered(f, c, m) \/ Among(f.pending, m)
      BY <1>5, <2>5 DEF LiveFits, NothingLost
    <3>2. m \in 1..Len(log)
      BY <1>1, <1>2, <2>1
    <3> QED
      BY <2>3, <3>1, <3>2 DEF Among
  <2>6. NothingLost(f, c)'
    BY <2>1, <2>4, <2>5 DEF NothingLost
  <2> QED
    BY <2>2, <2>6 DEF LiveFits
<1> QED
  BY <1>3, <1>4, <1>5 DEF Fits

\* What Fits says depends on the log and on what is published only.
LEMMA SameLog ==
  ASSUME log' = log, published' = published, NEW v, NEW f
  PROVE  Fits(v, f)' <=> Fits(v, f)
BY DEF Fits, CopyFits, Abstract!Sound, Abstract!Replaced, MailboxFits, LiveFits, BaselineFits,
   QueuesFit, Behind, QueuesRise, Rising, NothingLost, Covered, Replaced, Among, Pumped

LEMMA Refits ==
  ASSUME log' = log, published' = published, NEW s \in Subs, Fits(views'[s], feeds'[s])
  PROVE  Fits(views[s], feeds[s])'
BY DEF Fits, CopyFits, Abstract!Sound, Abstract!Replaced, MailboxFits, LiveFits, BaselineFits,
   QueuesFit, Behind, QueuesRise, Rising, NothingLost, Covered, Replaced, Among, Pumped

\* A published event waits in the mailbox of each subscription.
LEMMA PublishKeeps ==
  ASSUME log' = log, published \in Nat, published' = published + 1,
         NEW v \in ViewType, NEW f \in FeedType, Fits(v, f), v.pc \in {"reading", "live"},
         NEW g, g = [f EXCEPT !.mailbox = Append(f.mailbox, published + 1)]
  PROVE  g \in FeedType /\ Fits(v, g)'
<1> DEFINE m == Append(f.mailbox, published + 1)
<1>1. /\ m \in Seq(Nat) /\ Len(m) = Len(f.mailbox) + 1 /\ Len(f.mailbox) \in Nat
      /\ \A k \in 1..Len(f.mailbox) : m[k] = f.mailbox[k]
      /\ m[Len(f.mailbox) + 1] = published + 1
      /\ DOMAIN m = 1..(Len(f.mailbox) + 1) /\ DOMAIN f.mailbox = 1..Len(f.mailbox)
  <2>1. f.mailbox \in Seq(Nat) /\ published + 1 \in Nat
    BY DEF FeedType
  <2> QED
    BY <2>1, AppendProperties, LenProperties
<1> HIDE DEF m
<1>2. g = [f EXCEPT !.mailbox = m]
  BY DEF m
<1>3. /\ g \in FeedType /\ g.mailbox = m /\ g.cutoff = f.cutoff /\ g.baseline = f.baseline
      /\ g.output = f.output /\ g.pending = f.pending /\ g.ended = f.ended /\ g.timer = f.timer
  BY <1>1, <1>2 DEF FeedType
<1>4. MailboxFits(g)'
  <2>1. Len(f.mailbox) <= published
        /\ \A k \in 1..Len(f.mailbox) : f.mailbox[k] = published - Len(f.mailbox) + k
    BY <1>1 DEF Fits, MailboxFits
  <2>2. ASSUME NEW k \in 1..(Len(f.mailbox) + 1) PROVE m[k] = (published + 1) - Len(m) + k
    <3>1. CASE k \in 1..Len(f.mailbox)
      BY <1>1, <2>1, <3>1
    <3>2. CASE k = Len(f.mailbox) + 1
      BY <1>1, <3>2
    <3>3. Len(f.mailbox) \in Nat
      BY <1>1
    <3>4. k \in 1..Len(f.mailbox) \/ k = Len(f.mailbox) + 1
      BY <2>2, <3>3
    <3> QED
      BY <3>1, <3>2, <3>4, Zenon
  <2> QED
    BY <1>1, <1>3, <2>1, <2>2 DEF MailboxFits
<1>5. Pumped(g)' = Pumped(f)
  BY <1>1, <1>3 DEF Pumped
<1>6. ASSUME v.pc = "reading" PROVE g = [NoFeed EXCEPT !.mailbox = g.mailbox]
  <2>1. f = [NoFeed EXCEPT !.mailbox = f.mailbox]
    BY <1>6 DEF Fits
  <2> QED
    BY <1>2, <1>3, <2>1 DEF NoFeed
<1>7. ASSUME LiveFits(f, v.copy) PROVE LiveFits(g, v.copy)'
  <2> DEFINE c == v.copy
  <2>1. \A item : Behind(g, c, item)' <=> Behind(f, c, item)
    BY <1>3, <1>5 DEF Behind
  <2>2. QueuesFit(g, c)'
    BY <1>3, <1>7, <2>1 DEF LiveFits, QueuesFit
  <2>3. BaselineFits(g, c)'
    BY <1>3, <1>5, <1>7 DEF LiveFits, BaselineFits
  <2>4. QueuesRise(g)'
    BY <1>3, <1>7 DEF LiveFits, QueuesRise, Rising
  <2>5. \A n : Covered(g, c, n)' <=> Covered(f, c, n)
    BY <1>3 DEF Covered, Replaced, Abstract!Replaced, Among
  <2>6. NothingLost(g, c)'
    BY <1>3, <1>5, <1>7, <2>5 DEF LiveFits, NothingLost, Among
  <2> QED
    BY <1>3, <1>7, <2>2, <2>3, <2>4, <2>6 DEF LiveFits
<1>8. CopyFits(v.copy)'
  BY DEF Fits, CopyFits, Abstract!Sound, Abstract!Replaced
<1> QED
  BY <1>3, <1>4, <1>6, <1>7, <1>8 DEF Fits

\* A view without a subscription has no feed.
LEMMA IdleFits ==
  ASSUME published \in Nat, NEW v, CopyFits(v.copy), v.pc \in {"idle", "greeted", "parked"}
  PROVE  Fits(v, NoFeed) /\ NoFeed \in FeedType
<1>1. NoFeed.mailbox = <<>> /\ DOMAIN NoFeed.mailbox = {} /\ Len(NoFeed.mailbox) = 0
  BY DEF NoFeed
<1>2. MailboxFits(NoFeed)
  BY <1>1 DEF MailboxFits
<1>3. NoFeed \in FeedType
  <2>1. <<>> \in Seq(Nat) /\ <<>> \in Seq(Item)
    BY EmptySeq
  <2> QED
    BY <2>1 DEF NoFeed, FeedType
<1> QED
  BY <1>2, <1>3 DEF Fits

\* What a subscription's own step does: its view and its feed, and the status.
Copied(c, d) == d = c \/ d = NoCopy \/ Moved(c, d)

StatusKept ==
  /\ state' \in [status : Statuses, known : Nat]
  /\ state.status = "incompatible" => state'.status = "incompatible"

Local(s, v, f) ==
  /\ v \in ViewType /\ f \in FeedType /\ Fits(v, f) /\ Copied(views[s].copy, v.copy)
  /\ v.pc = "parked" => state'.status = "incompatible"
  /\ views' = [views EXCEPT ![s] = v] /\ feeds' = [feeds EXCEPT ![s] = f]
  /\ StatusKept /\ UNCHANGED <<log, published, server, socket>>

LEMMA AppendToOne ==
  ASSUME NEW S, NEW x \in S, NEW y \in S
  PROVE  Append(<<x>>, y) = <<x, y>>
<1>1. Append(<<x>>, y) \in Seq(S) /\ <<x, y>> \in Seq(S)
  OBVIOUS
<1>2. Len(Append(<<x>>, y)) = 2 /\ Append(<<x>>, y)[1] = x /\ Append(<<x>>, y)[2] = y
  OBVIOUS
<1>3. Len(<<x, y>>) = 2 /\ <<x, y>>[1] = x /\ <<x, y>>[2] = y
  OBVIOUS
<1>4. \A i \in 1..2 : i = 1 \/ i = 2
  OBVIOUS
<1> QED
  BY <1>1, <1>2, <1>3, <1>4, SeqEqual

LEMMA ServerSteps ==
  ASSUME DeliveryInv, NEW s \in Subs, ServerSide(s)
  PROVE  Local(s, views[s], feeds'[s]) \/ Local(s, [views[s] EXCEPT !.pc = "reading"], NoFeed)
         \/ Local(s, [views[s] EXCEPT !.pc = "live"], feeds'[s])
<1> DEFINE v == views[s]
           f == feeds[s]
<1>1. /\ v \in ViewType /\ f \in FeedType /\ v.copy \in Copies /\ Fits(v, f)
      /\ log \in Seq(Keys) /\ published \in 0..Len(log) /\ published \in Nat /\ Len(log) \in Nat
      /\ state \in [status : Statuses, known : Nat]
      /\ v.pc = "parked" => state.status = "incompatible"
      /\ views \in [Subs -> ViewType] /\ feeds \in [Subs -> FeedType]
  BY LenProperties DEF DeliveryInv, Types, ParkedIsShown, ViewType
<1>2. ASSUME Subscribe(s) PROVE Local(s, [v EXCEPT !.pc = "reading"], NoFeed)
  <2> DEFINE w == [v EXCEPT !.pc = "reading"]
  <2>1. w \in ViewType /\ w.copy = v.copy /\ w.pc = "reading" /\ w.fresh = v.fresh
    BY <1>1 DEF ViewType
  <2>2. v.pc = "asked"
    BY <1>2 DEF Subscribe
  <2>3. NoFeed \in FeedType /\ MailboxFits(NoFeed)
    <3>1. [v EXCEPT !.pc = "idle"].copy = v.copy /\ [v EXCEPT !.pc = "idle"].pc = "idle"
      BY <1>1 DEF ViewType
    <3>2. CopyFits(v.copy)
      BY <1>1 DEF Fits
    <3> QED
      BY <1>1, <3>1, <3>2, IdleFits DEF Fits
  <2>4. NoFeed = [NoFeed EXCEPT !.mailbox = NoFeed.mailbox]
    BY DEF NoFeed
  <2>5. Fits(w, NoFeed)
    BY <1>1, <2>1, <2>2, <2>3, <2>4 DEF Fits
  <2>6. views' = [views EXCEPT ![s] = w] /\ feeds' = [feeds EXCEPT ![s] = NoFeed]
    BY <1>2 DEF Subscribe, SetView, SetFeed
  <2> QED
    BY <1>1, <1>2, <2>1, <2>3, <2>5, <2>6 DEF Local, StatusKept, Copied, Subscribe
<1>3. ASSUME Pump(s) PROVE Local(s, v, feeds'[s])
  <2>1. v.pc = "live" /\ f.mailbox # <<>>
    BY <1>3 DEF Pump
  <2>2. feeds' = [feeds EXCEPT ![s] = AfterPump(f)]
    BY <1>3 DEF Pump, SetFeed, AfterPump
  <2>3. Pumps(f, v.copy)
    BY <1>1, <2>1 DEF Pumps, Fits
  <2>4. /\ AfterPump(f) \in FeedType /\ MailboxFits(AfterPump(f))
        /\ LiveFits(AfterPump(f), v.copy)
    BY <1>1, <2>3, PumpFits
  <2>5. Fits(v, AfterPump(f))
    BY <1>1, <2>1, <2>4 DEF Fits
  <2>6. feeds'[s] = AfterPump(f) /\ views' = [views EXCEPT ![s] = v]
    BY <1>1, <1>3, <2>2 DEF Pump
  <2> QED
    BY <1>1, <1>3, <2>1, <2>2, <2>4, <2>5, <2>6 DEF Local, StatusKept, Copied, Pump
<1>4. ASSUME Fire(s) PROVE Local(s, v, feeds'[s])
  <2>1. f.timer = "armed" /\ feeds' = [feeds EXCEPT ![s] = Fired(f)]
    BY <1>4 DEF Fire, SetFeed
  <2>2. v.pc = "live"
    BY <1>1, <2>1 DEF Fits, NoFeed
  <2>3. Fired(f) \in FeedType /\ MailboxFits(Fired(f)) /\ LiveFits(Fired(f), v.copy)
    BY <1>1, <2>1, <2>2, FireFits DEF Fits
  <2>4. Fits(v, Fired(f))
    BY <1>1, <2>2, <2>3 DEF Fits
  <2>5. feeds'[s] = Fired(f) /\ views' = [views EXCEPT ![s] = v]
    BY <1>1, <1>4, <2>1 DEF Fire
  <2> QED
    BY <1>1, <1>4, <2>1, <2>2, <2>3, <2>4, <2>5 DEF Local, StatusKept, Copied, Fire
<1>5. ASSUME ReadBaseline(s) PROVE Local(s, [v EXCEPT !.pc = "live"], feeds'[s])
  <2> DEFINE w == [v EXCEPT !.pc = "live"]
             n == Len(log) - v.copy.seq
             first == IF v.fresh THEN <<Snapshot(Len(log))>>
                      ELSE [k \in 1..n |-> Event(v.copy.seq + k)]
             base == Append(first, Synchronized)
             g == [f EXCEPT !.cutoff = Len(log), !.baseline = base]
  <2>1. v.pc = "reading" /\ views' = [views EXCEPT ![s] = w] /\ feeds' = [feeds EXCEPT ![s] = g]
    BY <1>5 DEF ReadBaseline, SetView, SetFeed
  <2>2. w \in ViewType /\ w.copy = v.copy /\ w.pc = "live"
    BY <1>1 DEF ViewType
  <2>3. /\ CopyFits(v.copy) /\ MailboxFits(f) /\ f = [NoFeed EXCEPT !.mailbox = f.mailbox]
        /\ IF v.fresh THEN v.copy = NoCopy ELSE v.copy.held
    BY <1>1, <2>1 DEF Fits
  <2>4. v.copy.seq \in Nat /\ v.copy.seq <= Len(log) /\ n \in Nat
    BY <1>1, <2>3 DEF CopyFits, Copies
  <2>5. Synchronized \in Item /\ \A m \in Nat : Event(m) \in Item /\ Snapshot(m) \in Item
    BY DEF Synchronized, Event, Snapshot, Item
  <2>6. first \in Seq(Item) /\ (~v.fresh => Len(first) = n /\ \A k \in 1..n : first[k] = Event(v.copy.seq + k))
    <3>1. CASE v.fresh
      BY <1>1, <2>5, <3>1
    <3>2. CASE ~v.fresh
      <4>1. \A k \in 1..n : Event(v.copy.seq + k) \in Item
        BY <2>4, <2>5
      <4> QED
        BY <2>4, <3>2, <4>1
    <3> QED
      BY <3>1, <3>2
  <2>7. v.fresh => base = <<Snapshot(Len(log)), Synchronized>>
    <3>1. Append(<<Snapshot(Len(log))>>, Synchronized) = <<Snapshot(Len(log)), Synchronized>>
      BY <1>1, <2>5, AppendToOne
    <3>2. v.fresh => first = <<Snapshot(Len(log))>>
      OBVIOUS
    <3> HIDE DEF first
    <3> QED
      BY <3>1, <3>2
  <2> HIDE DEF n, first
  <2>8. /\ base \in Seq(Item) /\ Len(base) = Len(first) + 1
        /\ \A k \in 1..Len(first) : base[k] = first[k]
        /\ base[Len(first) + 1] = Synchronized
    BY <2>5, <2>6, AppendProperties
  <2> HIDE DEF base
  <2>9. /\ g \in FeedType /\ g.mailbox = f.mailbox /\ g.cutoff = Len(log) /\ g.baseline = base
        /\ g.output = <<>> /\ g.pending = <<>> /\ ~g.ended /\ DOMAIN g.output = {}
        /\ DOMAIN g.pending = {}
    <3>1. g \in FeedType /\ g.mailbox = f.mailbox /\ g.cutoff = Len(log) /\ g.baseline = base
      BY <1>1, <2>8 DEF FeedType
    <3>2. g.output = f.output /\ g.pending = f.pending /\ g.ended = f.ended
      BY <1>1 DEF FeedType
    <3>3. f.output = <<>> /\ f.pending = <<>> /\ ~f.ended
      BY <2>3 DEF NoFeed
    <3> QED
      BY <3>1, <3>2, <3>3
  <2> HIDE DEF g
  <2>10. BaselineFits(g, v.copy)
    <3>1. CASE v.fresh
      BY <2>3, <2>7, <2>9, <3>1 DEF BaselineFits
    <3>2. CASE ~v.fresh
      <4>1. Len(base) = Len(log) - v.copy.seq + 1 /\ base[Len(base)] = Synchronized
        BY <1>1, <2>4, <2>6, <2>8, <3>2 DEF n
      <4>2. \A k \in 1..(Len(log) - v.copy.seq) : base[k] = Event(v.copy.seq + k)
        BY <1>1, <2>4, <2>6, <2>8, <3>2 DEF n
      <4> QED
        BY <2>3, <2>4, <2>9, <3>2, <4>1, <4>2 DEF BaselineFits
    <3> QED
      BY <3>1, <3>2
  <2>11. NothingLost(g, v.copy)
    <3>1. Len(g.mailbox) \in Nat
      BY <2>9, LenProperties DEF FeedType
    <3>2. Pumped(g) \in Int /\ Pumped(g) <= Len(log)
      BY <1>1, <3>1 DEF Pumped
    <3>3. (g.cutoff + 1)..Pumped(g) = {}
      BY <1>1, <2>9, <3>2
    <3> QED
      BY <2>9, <3>3 DEF NothingLost
  <2>12. LiveFits(g, v.copy)
    BY <1>1, <2>9, <2>10, <2>11 DEF LiveFits, QueuesFit, QueuesRise, Rising
  <2>13. Fits(w, g)
    BY <2>2, <2>3, <2>9, <2>12 DEF Fits, MailboxFits
  <2>14. feeds'[s] = g
    BY <1>1, <2>1
  <2> QED
    BY <1>1, <1>5, <2>1, <2>2, <2>9, <2>13, <2>14 DEF Local, StatusKept, Copied, ReadBaseline
<1> QED
  BY <1>2, <1>3, <1>4, <1>5 DEF ServerSide

LEMMA ClientSteps ==
  ASSUME DeliveryInv, NEW s \in Subs, ClientSide(s)
  PROVE  Local(s, views'[s], feeds'[s])
<1> DEFINE v == views[s]
           f == feeds[s]
<1>1. /\ v \in ViewType /\ f \in FeedType /\ v.copy \in Copies /\ Fits(v, f)
      /\ log \in Seq(Keys) /\ published \in 0..Len(log) /\ published \in Nat /\ Len(log) \in Nat
      /\ state \in [status : Statuses, known : Nat] /\ server \in [id : Nat, speaks : BOOLEAN]
      /\ v.pc = "parked" => state.status = "incompatible"
      /\ views \in [Subs -> ViewType] /\ feeds \in [Subs -> FeedType] /\ CopyFits(v.copy)
  BY LenProperties DEF DeliveryInv, Types, ParkedIsShown, ViewType, Fits
<1>2. CopyFits(NoCopy) /\ NoCopy \in Copies
  BY <1>1 DEF CopyFits, NoCopy, Copies, Abstract!Sound
<1>3. ASSUME Greet(s) PROVE Local(s, views'[s], feeds'[s])
  <2> DEFINE w == [v EXCEPT !.pc = "greeted", !.hello = server, !.stale = FALSE]
  <2>1. v.pc = "idle" /\ views' = [views EXCEPT ![s] = w] /\ feeds' = feeds
    BY <1>3 DEF Greet, SetView
  <2>2. w \in ViewType /\ w.pc = "greeted" /\ w.copy = v.copy
    BY <1>1 DEF ViewType
  <2>3. f = NoFeed
    BY <1>1, <2>1 DEF Fits
  <2>4. Fits(w, f)
    BY <1>1, <2>2, <2>3, IdleFits
  <2>5. views'[s] = w /\ feeds'[s] = f /\ feeds' = [feeds EXCEPT ![s] = f]
    BY <1>1, <2>1
  <2> HIDE DEF w
  <2> QED
    BY <1>1, <1>3, <2>1, <2>2, <2>4, <2>5 DEF Local, StatusKept, Copied, Greet
<1>4. ASSUME Ask(s), ~v.hello.speaks PROVE Local(s, views'[s], feeds'[s])
  <2> DEFINE w == [v EXCEPT !.pc = "parked"]
  <2>1. /\ v.pc = "greeted" /\ views' = [views EXCEPT ![s] = w] /\ feeds' = feeds
        /\ state' = [state EXCEPT !.status = "incompatible"]
        /\ UNCHANGED <<log, published, server, socket>>
    BY <1>4 DEF Ask, SetView
  <2>2. w \in ViewType /\ w.pc = "parked" /\ w.copy = v.copy
    BY <1>1 DEF ViewType
  <2>3. f = NoFeed
    BY <1>1, <2>1 DEF Fits
  <2>4. Fits(w, f)
    BY <1>1, <2>2, <2>3, IdleFits
  <2>5. views'[s] = w /\ feeds'[s] = f /\ feeds' = [feeds EXCEPT ![s] = f]
    BY <1>1, <2>1
  <2>6. state' \in [status : Statuses, known : Nat] /\ state'.status = "incompatible"
    BY <1>1, <2>1 DEF Statuses
  <2> HIDE DEF w
  <2> QED
    BY <1>1, <2>1, <2>2, <2>4, <2>5, <2>6 DEF Local, StatusKept, Copied
<1>5. ASSUME Ask(s), v.hello.speaks PROVE Local(s, views'[s], feeds'[s])
  <2> DEFINE resumes == Resumes(v)
             d == AskedWith(v, resumes)
             pc == IF v.stale THEN "idle" ELSE "asked"
             w == [v EXCEPT !.pc = pc, !.fresh = ~resumes, !.copy = d]
  <2>1. /\ v.pc = "greeted" /\ views' = [views EXCEPT ![s] = w] /\ feeds' = feeds
        /\ state' = IF state.status = "incompatible" THEN state
                    ELSE [status |-> "connected", known |-> v.hello.id]
        /\ UNCHANGED <<log, published, server, socket>>
    BY <1>5 DEF Ask, SetView
  <2>2. /\ resumes \in BOOLEAN /\ d \in Copies /\ CopyFits(d) /\ Copied(v.copy, d)
        /\ IF resumes THEN d.held ELSE d = NoCopy
    BY <1>1, <1>2 DEF Resumes, AskedWith, Copied
  <2>3. pc \in {"idle", "asked"}
    OBVIOUS
  <2> HIDE DEF resumes, d, pc
  <2>4. w \in ViewType /\ w.pc = pc /\ w.copy = d /\ w.fresh = ~resumes
    BY <1>1, <2>2, <2>3 DEF ViewType
  <2>5. f = NoFeed /\ MailboxFits(f)
    BY <1>1, <2>1 DEF Fits
  <2> HIDE DEF w
  <2>6. Fits(w, f)
    BY <2>2, <2>3, <2>4, <2>5 DEF Fits
  <2>7. views'[s] = w /\ feeds'[s] = f /\ feeds' = [feeds EXCEPT ![s] = f]
    BY <1>1, <2>1
  <2>8. StatusKept
    BY <1>1, <2>1 DEF StatusKept, ViewType, Statuses
  <2> QED
    BY <1>1, <2>1, <2>2, <2>3, <2>4, <2>6, <2>7, <2>8 DEF Local
<1>6. ASSUME Pull(s) PROVE Local(s, views'[s], feeds'[s])
  <2> DEFINE item == Head(Waiting(f))
             over == item.kind = "resnapshot-required"
             d == Applied(v.copy, item)
             w == [v EXCEPT !.copy = d, !.pc = IF over THEN "idle" ELSE v.pc]
             g == IF over THEN NoFeed ELSE Pulled(f)
  <2>1. /\ v.pc = "live" /\ Waiting(f) # <<>> /\ views' = [views EXCEPT ![s] = w]
        /\ feeds' = [feeds EXCEPT ![s] = g] /\ UNCHANGED <<log, published, server, socket, state>>
    BY <1>6 DEF Pull, SetView, SetFeed
  <2>2. Pulls(f, v.copy)
    BY <1>1, <2>1 DEF Pulls, Fits
  <2>3. /\ over => d = NoCopy
        /\ ~over => /\ Moved(v.copy, d) /\ Pulled(f) \in FeedType /\ MailboxFits(Pulled(f))
                    /\ LiveFits(Pulled(f), d)
    BY <1>1, <2>2, PullFits
  <2>4. over \in BOOLEAN
    OBVIOUS
  <2>5. views'[s] = w /\ feeds'[s] = g
    BY <1>1, <2>1
  <2> HIDE DEF item, over, d
  <2>6. CASE over
    <3>1. w \in ViewType /\ w.pc = "idle" /\ w.copy = NoCopy
      BY <1>1, <1>2, <2>3, <2>6 DEF ViewType
    <3>2. g = NoFeed
      BY <2>6
    <3> HIDE DEF w, g
    <3>3. Fits(w, g) /\ g \in FeedType
      BY <1>1, <1>2, <3>1, <3>2, IdleFits
    <3> QED
      BY <1>1, <2>1, <2>5, <3>1, <3>3 DEF Local, StatusKept, Copied
  <2>7. CASE ~over
    <3>1. w \in ViewType /\ w.pc = "live" /\ w.copy = d /\ Moved(v.copy, d)
      BY <1>1, <2>1, <2>3, <2>7 DEF ViewType, Moved
    <3>2. g \in FeedType /\ MailboxFits(g) /\ LiveFits(g, d) /\ CopyFits(d)
      BY <2>3, <2>7 DEF Moved
    <3> HIDE DEF w, g
    <3>3. Fits(w, g)
      BY <3>1, <3>2 DEF Fits
    <3> QED
      BY <1>1, <2>1, <2>5, <3>1, <3>2, <3>3 DEF Local, StatusKept, Copied
  <2> QED
    BY <2>6, <2>7
<1> QED
  BY <1>3, <1>4, <1>5, <1>6 DEF ClientSide

\* A subscription's own step keeps the invariant.
LEMMA LocalKeeps ==
  ASSUME DeliveryInv, NEW s \in Subs, NEW v, NEW f, Local(s, v, f)
  PROVE  DeliveryInv'
<1>1. Types'
  BY DEF DeliveryInv, Types, Local, StatusKept
<1>2. ParkedIsShown'
  BY DEF DeliveryInv, Types, ParkedIsShown, Local, StatusKept
<1>3. ASSUME NEW t \in Subs PROVE Fits(views[t], feeds[t])'
  <2>1. log' = log /\ published' = published
    BY DEF Local
  <2>2. CASE t = s
    <3>1. views'[t] = v /\ feeds'[t] = f /\ Fits(v, f)
      BY <2>2 DEF DeliveryInv, Types, Local
    <3>2. Fits(views'[t], feeds'[t])
      BY <3>1
    <3> QED
      BY <2>1, <3>2, Refits
  <2>3. CASE t # s
    <3>1. views'[t] = views[t] /\ feeds'[t] = feeds[t]
      BY <2>3 DEF DeliveryInv, Types, Local
    <3>2. Fits(views'[t], feeds'[t])
      BY <3>1 DEF DeliveryInv
    <3> QED
      BY <2>1, <3>2, Refits
  <2> QED
    BY <2>2, <2>3
<1> QED
  BY <1>1, <1>2, <1>3 DEF DeliveryInv

\* The socket goes: every feed with it.
LEMMA DropKeeps ==
  ASSUME DeliveryInv, Drop, log' = log, published' \in 0..Len(log), server' \in [id : Nat, speaks : BOOLEAN]
  PROVE  DeliveryInv' /\ \A s \in Subs : views'[s].copy = views[s].copy
<1>1. \A s \in Subs :
        /\ views[s] \in ViewType /\ CopyFits(views[s].copy) /\ Fits(views[s], feeds[s])
  BY DEF DeliveryInv, Types, Fits
<1>2. \A s \in Subs : views'[s] = Cut(views[s]) /\ feeds'[s] = NoFeed
  BY DEF Drop
<1>3. \A v \in ViewType :
        /\ Cut(v) \in ViewType /\ Cut(v).copy = v.copy
        /\ Cut(v).pc \in {"idle", "greeted", "parked"}
        /\ Cut(v).pc = "parked" => v.pc = "parked"
  BY DEF Cut, ViewType
<1>4. NoFeed \in FeedType
  <2>1. <<>> \in Seq(Nat) /\ <<>> \in Seq(Item)
    BY EmptySeq
  <2> QED
    BY <2>1 DEF NoFeed, FeedType
<1>5. /\ state' \in [status : Statuses, known : Nat]
      /\ state.status = "incompatible" => state'.status = "incompatible"
  BY DEF DeliveryInv, Types, Drop, Status, Statuses
<1>6. /\ views' \in [Subs -> ViewType] /\ feeds' \in [Subs -> FeedType]
      /\ socket' \in [up : BOOLEAN, drops : Nat]
  <2>1. views' \in [Subs -> ViewType]
    BY <1>1, <1>3 DEF Drop
  <2>2. feeds' \in [Subs -> FeedType]
    BY <1>4 DEF Drop
  <2>3. socket' \in [up : BOOLEAN, drops : Nat]
    BY DEF Drop, DeliveryInv, Types
  <2> QED
    BY <2>1, <2>2, <2>3
<1>7. Types'
  BY <1>5, <1>6 DEF DeliveryInv, Types
<1>8. ParkedIsShown'
  BY <1>1, <1>2, <1>3, <1>5 DEF DeliveryInv, ParkedIsShown
<1>9. ASSUME NEW s \in Subs PROVE Fits(views[s], feeds[s])'
  <2>1. views'[s].copy = views[s].copy /\ views'[s].pc \in {"idle", "greeted", "parked"}
        /\ feeds'[s] = NoFeed
    BY <1>1, <1>2, <1>3
  <2>2. CopyFits(views[s].copy)'
    BY <1>1, <2>1 DEF CopyFits, Abstract!Sound, Abstract!Replaced
  <2>3. MailboxFits(NoFeed)'
    <3>1. NoFeed.mailbox = <<>> /\ DOMAIN NoFeed.mailbox = {} /\ Len(NoFeed.mailbox) = 0
      BY DEF NoFeed
    <3>2. published' \in Nat
      BY <1>7 DEF Types
    <3> QED
      BY <3>1, <3>2 DEF MailboxFits
  <2> QED
    BY <2>1, <2>2, <2>3 DEF Fits
<1> QED
  BY <1>1, <1>2, <1>3, <1>7, <1>8, <1>9 DEF DeliveryInv

LEMMA InvInductive ==
  ASSUME DeliveryInv, [DeliveryNext]_dvars
  PROVE  /\ DeliveryInv'
         /\ [Abstract!ReplicaNext]_<<log, views[View].copy>>
<1> View \in Subs
  BY DeliveryAssumption DEF DeliveryAssumption, View
<1> DEFINE copy == views[View].copy
<1>1. /\ Types /\ ParkedIsShown /\ views \in [Subs -> ViewType] /\ feeds \in [Subs -> FeedType]
      /\ log \in Seq(Keys) /\ published \in 0..Len(log) /\ published \in Nat /\ Len(log) \in Nat
      /\ \A s \in Subs : Fits(views[s], feeds[s])
  BY LenProperties DEF DeliveryInv, Types
<1>2. CASE UNCHANGED dvars
  <2>1. \A s \in Subs : Fits(views'[s], feeds'[s])
    BY <1>1, <1>2 DEF dvars
  <2>2. \A s \in Subs : Fits(views[s], feeds[s])'
    BY <1>2, <2>1, Refits DEF dvars
  <2> QED
    BY <1>1, <1>2, <2>2 DEF dvars, DeliveryInv, Types, ParkedIsShown
<1>3. ASSUME NEW key \in Keys, CommitEvent(key)
      PROVE  DeliveryInv' /\ [Abstract!ReplicaNext]_<<log, copy>>
  <2>1. log' = Append(log, key) /\ UNCHANGED <<published, server, socket, state, views, feeds>>
    BY <1>3 DEF CommitEvent
  <2>2. log' \in Seq(Keys) /\ Len(log') = Len(log) + 1
    BY <1>1, <2>1, LogGrows
  <2>3. Types' /\ ParkedIsShown'
    BY <1>1, <2>1, <2>2 DEF Types, ParkedIsShown
  <2>4. \A s \in Subs : Fits(views[s], feeds[s])'
    <3>1. ASSUME NEW v \in ViewType, NEW f \in FeedType, Fits(v, f) PROVE Fits(v, f)'
      BY <1>1, <2>1, <3>1, CommitKeeps
    <3>2. ASSUME NEW s \in Subs PROVE Fits(views[s], feeds[s])'
      <4>1. views[s] \in ViewType /\ feeds[s] \in FeedType /\ Fits(views[s], feeds[s])
        BY <1>1
      <4>2. views'[s] = views[s] /\ feeds'[s] = feeds[s]
        BY <2>1
      <4> QED
        BY <3>1, <4>1, <4>2 DEF Fits
    <3> QED
      BY <3>2
  <2>5. Abstract!Commit(key)
    BY <2>1 DEF Abstract!Commit
  <2> QED
    BY <2>3, <2>4, <2>5 DEF DeliveryInv, Abstract!ReplicaNext, Keys
<1>4. ASSUME PublishEvent PROVE DeliveryInv' /\ [Abstract!ReplicaNext]_<<log, copy>>
  <2>1. /\ published < Len(log) /\ published' = published + 1
        /\ UNCHANGED <<log, server, socket, state, views>>
        /\ feeds' = [s \in Subs |-> IF Subscribed(s)
                                   THEN [feeds[s] EXCEPT !.mailbox = Append(feeds[s].mailbox, published + 1)]
                                   ELSE feeds[s]]
    BY <1>4 DEF PublishEvent
  <2>2. ASSUME NEW s \in Subs
        PROVE  feeds'[s] \in FeedType /\ Fits(views[s], feeds[s])'
    <3>1. views[s] \in ViewType /\ feeds[s] \in FeedType /\ Fits(views[s], feeds[s])
      BY <1>1
    <3>2. views'[s] = views[s]
      BY <2>1
    <3>3. CASE Subscribed(s)
      <4> DEFINE g == [feeds[s] EXCEPT !.mailbox = Append(feeds[s].mailbox, published + 1)]
      <4>1. feeds'[s] = g
        BY <2>1, <3>3
      <4>2. views[s].pc \in {"reading", "live"}
        BY <3>3 DEF Subscribed
      <4>3. ASSUME NEW v \in ViewType, NEW f \in FeedType, Fits(v, f), v.pc \in {"reading", "live"},
                   NEW h, h = [f EXCEPT !.mailbox = Append(f.mailbox, published + 1)]
            PROVE  h \in FeedType /\ Fits(v, h)'
        BY <1>1, <2>1, <4>3, PublishKeeps
      <4> QED
        BY <3>1, <3>2, <4>1, <4>2, <4>3 DEF Fits
    <3>4. CASE ~Subscribed(s)
      <4>1. feeds'[s] = feeds[s] /\ feeds[s] = NoFeed
        BY <2>1, <3>1, <3>4 DEF Fits, Subscribed
      <4>2. CopyFits(views[s].copy)'
        BY <2>1, <3>1, <3>2 DEF Fits, CopyFits, Abstract!Sound, Abstract!Replaced
      <4>3. MailboxFits(NoFeed)'
        <5>1. NoFeed.mailbox = <<>> /\ DOMAIN NoFeed.mailbox = {} /\ Len(NoFeed.mailbox) = 0
          BY DEF NoFeed
        <5> QED
          BY <1>1, <2>1, <5>1 DEF MailboxFits
      <4>4. views'[s].pc \notin {"reading", "live"}
        BY <3>2, <3>4 DEF Subscribed
      <4> QED
        BY <3>1, <3>2, <4>1, <4>2, <4>3, <4>4 DEF Fits
    <3> QED
      BY <3>3, <3>4
  <2>3. feeds' \in [Subs -> FeedType]
    BY <2>1, <2>2
  <2>4. Types' /\ ParkedIsShown'
    <3>1. published' \in 0..Len(log)
      BY <1>1, <2>1
    <3>2. Types'
      BY <1>1, <2>1, <2>3, <3>1 DEF Types
    <3>3. ParkedIsShown'
      BY <1>1, <2>1 DEF ParkedIsShown
    <3> QED
      BY <3>2, <3>3
  <2>5. UNCHANGED <<log, copy>>
    BY <2>1
  <2> QED
    BY <2>2, <2>4, <2>5 DEF DeliveryInv
<1>5. ASSUME NEW s \in Subs, ServerSide(s) \/ ClientSide(s)
      PROVE  DeliveryInv' /\ [Abstract!ReplicaNext]_<<log, copy>>
  <2>1. PICK v, f : Local(s, v, f)
    BY <1>5, ServerSteps, ClientSteps
  <2>2. DeliveryInv'
    BY <2>1, LocalKeeps
  <2>3. CASE s = View
    <3>1. copy' = v.copy /\ Copied(copy, v.copy) /\ log' = log
      BY <1>1, <2>1, <2>3 DEF Local
    <3>2. ASSUME copy' = NoCopy PROVE Abstract!GiveUp
      BY <3>1, <3>2 DEF Abstract!GiveUp, Abstract!NoCopy, NoCopy
    <3>3. ASSUME Moved(copy, copy') PROVE Abstract!Give
      <4>1. copy \in Copies
        BY <1>1 DEF ViewType
      <4>2. /\ copy'.held /\ copy'.seq \in Nat /\ copy.seq \in Nat /\ copy.seq <= copy'.seq
            /\ copy'.seq <= Len(log) /\ copy.taken \subseteq copy'.taken
            /\ copy'.taken \subseteq 1..copy'.seq /\ Abstract!Sound(copy')
        BY <3>3, <4>1 DEF Moved, CopyFits, Copies
      <4> QED
        BY <1>1, <3>1, <4>2 DEF Abstract!Give
    <3> QED
      BY <2>2, <3>1, <3>2, <3>3 DEF Copied, Abstract!ReplicaNext
  <2>4. CASE s # View
    <3>1. copy' = copy /\ log' = log
      BY <1>1, <2>1, <2>4 DEF Local
    <3> QED
      BY <2>2, <3>1
  <2> QED
    BY <2>2, <2>3, <2>4
<1>6. ASSUME Connect PROVE DeliveryInv' /\ [Abstract!ReplicaNext]_<<log, copy>>
  <2>1. /\ UNCHANGED <<log, published, server, views, feeds>>
        /\ socket' \in [up : BOOLEAN, drops : Nat]
        /\ state' \in [status : Statuses, known : Nat]
        /\ state.status = "incompatible" => state'.status = "incompatible"
    <3>1. socket \in [up : BOOLEAN, drops : Nat] /\ server.id \in Nat /\ state.known \in Nat
          /\ state \in [status : Statuses, known : Nat] /\ state.status \in Statuses
      BY <1>1 DEF Types
    <3>2. \A r \in Nat : RetainedInstance(r) \in Nat
      BY <3>1 DEF RetainedInstance
    <3>3. Status("connected") \in Statuses
          /\ (state.status = "incompatible" => Status("connected") = "incompatible")
      BY <3>1 DEF Status, Statuses
    <3>4. PICK r \in {0, server.id} :
            state' = [status |-> Status("connected"), known |-> RetainedInstance(r)]
      BY <1>6 DEF Connect
    <3>5. socket' = [socket EXCEPT !.up = TRUE]
          /\ UNCHANGED <<log, published, server, views, feeds>>
      BY <1>6 DEF Connect
    <3> QED
      BY <3>1, <3>2, <3>3, <3>4, <3>5
  <2>2. \A s \in Subs : Fits(views[s], feeds[s])'
    <3>1. \A s \in Subs : Fits(views'[s], feeds'[s])
      BY <1>1, <2>1
    <3> QED
      BY <2>1, <3>1, Refits
  <2> QED
    BY <1>1, <2>1, <2>2 DEF DeliveryInv, Types, ParkedIsShown
<1>7. ASSUME Lost \/ Restart PROVE DeliveryInv' /\ [Abstract!ReplicaNext]_<<log, copy>>
  <2>1. Drop /\ log' = log /\ published' \in 0..Len(log) /\ server' \in [id : Nat, speaks : BOOLEAN]
    BY <1>1, <1>7 DEF Lost, Restart, Types
  <2>2. DeliveryInv' /\ copy' = copy
    BY <2>1, DropKeeps
  <2> QED
    BY <2>1, <2>2
<1> QED
  BY <1>2, <1>3, <1>4, <1>5, <1>6, <1>7 DEF DeliveryNext, Keys, dvars

LEMMA InitInv == DeliveryInit => DeliveryInv /\ Abstract!ReplicaInit
<1> SUFFICES ASSUME DeliveryInit PROVE DeliveryInv /\ Abstract!ReplicaInit
  OBVIOUS
<1> View \in Subs
  BY DeliveryAssumption DEF DeliveryAssumption, View
<1>1. log \in Seq(Keys) /\ Len(log) = 1 /\ published = 1
  BY DEF DeliveryInit, Keys
<1>2. NewView \in ViewType /\ NewView.pc = "idle" /\ NewView.copy = NoCopy
  BY DEF NewView, ViewType, NoCopy, Copies
<1>3. CopyFits(NoCopy)
  BY <1>1 DEF CopyFits, NoCopy, Abstract!Sound
<1>4. Fits(NewView, NoFeed) /\ NoFeed \in FeedType
  BY <1>1, <1>2, <1>3, IdleFits
<1>5. Types
  BY <1>1, <1>2, <1>4 DEF DeliveryInit, Types, Statuses
<1>6. \A s \in Subs : Fits(views[s], feeds[s])
  BY <1>4 DEF DeliveryInit
<1>7. ParkedIsShown
  BY <1>2 DEF DeliveryInit, ParkedIsShown
<1>8. Abstract!ReplicaInit
  BY <1>2 DEF DeliveryInit, Abstract!ReplicaInit, Abstract!NoCopy, NoCopy
<1> QED
  BY <1>5, <1>6, <1>7, <1>8 DEF DeliveryInv

\* What the server still holds for a view fits the view's copy, always.
THEOREM DeliveryInvariant == DeliverySafe => []DeliveryInv
<1>1. DeliveryInit => DeliveryInv
  BY InitInv
<1>2. DeliveryInv /\ [DeliveryNext]_dvars => DeliveryInv'
  BY InvInductive
<1> QED
  BY <1>1, <1>2, PTL DEF DeliverySafe

\* A view parked on a server of another protocol is never behind a banner that
\* says all is well.
THEOREM ParkedShown == DeliverySafe => []ParkedIsShown
<1>1. DeliveryInv => ParkedIsShown
  BY DEF DeliveryInv
<1> QED
  BY <1>1, DeliveryInvariant, PTL

\* A view implements Replica: every step of a subscription, of the buffer
\* behind it, of the socket and of the server is a step of Replica or none.
THEOREM ViewsImplementReplica == DeliverySafe => ViewsAreReplicas
<1>1. DeliveryInit => Abstract!ReplicaInit
  BY InitInv
<1>2. DeliveryInv /\ [DeliveryNext]_dvars
        => [Abstract!ReplicaNext]_<<log, views[View].copy>>
  BY InvInductive
<1> QED
  BY <1>1, <1>2, DeliveryInvariant, PTL DEF DeliverySafe, ViewsAreReplicas, Abstract!ReplicaSpec
=============================================================================
