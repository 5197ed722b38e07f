------------------------- MODULE OrchestrationProofs ------------------------
(***************************************************************************)
(* Proofs about Orchestration.tla, for every value of its constants.  The  *)
(* invariant has three parts, one per kind of state: the events waiting    *)
(* for the reactor (MailFits), each session and its handle (SessionFits),  *)
(* and what the reactor is in the middle of (ReactorFits).  It rests on    *)
(* the engine's own: the fibers' steps are steps of Engine (StepIsEngine), *)
(* so the contents of the document are what EngineProofs says they are.    *)
(***************************************************************************)
EXTENDS OrchestrationProps, EngineProofs

----------------------------------------------------------------------------
(* The invariant.  `m` and `q` are the turn and message ids minted so far. *)

\* What the reactor may be handed.
Mail(m) ==
  {TurnRequested(k) : k \in 1..m} \cup {TurnInterrupted(k) : k \in 1..m} \cup
  {TurnSteered(k) : k \in 0..m} \cup {TurnCompleted(k) : k \in 1..m} \cup
  {SessionBound(Instance, "yes"), Archived, Deleted}

IsRequest(e) == e.type = "thread.turn.requested"

\* Requests wait in the order in which their turns were minted.
MailFits(mail, m) ==
  /\ mail \in Seq(Mail(m))
  /\ \A j, k \in DOMAIN mail :
       IsRequest(mail[j]) /\ IsRequest(mail[k]) /\ j < k => mail[j].turn < mail[k].turn

HarnessEvents == {"session.started", "turn.started", "turn.completed", "runtime.error",
                  "session.ended", "end"}

HandedOn(m) == [type : HarnessEvents, turn : 0..m]

Session(m) ==
  [up : BOOLEAN, open : BOOLEAN, alive : BOOLEAN, handle : [active : 0..m, finished : BOOLEAN],
   out : Seq(HarnessEvents), pending : Seq(HandedOn(m)), got : 0..m,
   busy : BOOLEAN, why : {"crashed", "stopped"}]

\* Nothing unread settles the turn.
Quiet(x) == \A k \in DOMAIN x.out : x.out[k] \notin Settling

\* Of a session whose process runs: the stream is not over, at most one unread
\* event settles a turn, and then the handle still tracks one.  While the
\* harness works on a turn, that turn is the handle's and nothing settles it.
Tracked(x) ==
  /\ x.up => /\ ~x.handle.finished
             /\ \A k \in DOMAIN x.out : x.out[k] \notin {"session.ended", "end"}
             /\ \A j, k \in DOMAIN x.out : x.out[j] \in Settling /\ x.out[k] \in Settling => j = k
  /\ x.busy => x.up /\ Quiet(x) /\ x.got # 0 /\ x.handle.active = x.got
  /\ x.up /\ ~Quiet(x) => x.handle.active # 0

SessionsFit(sess, m) == sess \in [Slots -> Session(m)] /\ \A s \in Slots : Tracked(sess[s])

Pcs == {"idle", "ensure", "attach", "send", "sending", "fail", "resend", "resending", "await",
        "settle", "drain", "dispatch", "requeue", "requeueSteer", "close", "closing"}

Requesting == {"ensure", "attach", "send", "sending"}
Resending == {"resend", "resending"}

\* The turn the reactor is delivering is tracked by the handle it is delivered
\* through, stands before all requests that wait, and a re-send behind no turn
\* already sent.  The message it holds is not on the queue.
ReactorFits(x, sess, mail, queue, m, q) ==
  /\ x \in [pc : Pcs, turn : 0..m, seen : 0..m, session : Slots \cup {0}, message : 0..q]
  /\ x.pc \in {"send", "sending", "await", "closing"} \cup Resending => x.session \in Slots
  /\ x.pc \in Requesting \cup Resending \cup {"await", "settle"} => x.turn # 0
  /\ x.pc \in {"sending", "resending"} /\ sess[x.session].up
       => /\ Quiet(sess[x.session]) /\ ~sess[x.session].busy
          /\ sess[x.session].handle.active = x.turn
  /\ x.pc \in Requesting => \A k \in DOMAIN mail : IsRequest(mail[k]) => x.turn < mail[k].turn
  /\ x.pc \in Resending => \A s \in Slots : sess[s].got <= x.turn
  /\ x.pc \in {"dispatch", "requeue"} /\ x.message # 0 => ~Holds(queue, x.message)
  /\ x.pc = "requeueSteer" => x.message = 0

DriverFits == driver \in Slots \cup {0}

OInv ==
  /\ ContentsInv
  /\ MailFits(mailbox, turns[Thread])
  /\ SessionsFit(sessions, turns[Thread])
  /\ DriverFits
  /\ ReactorFits(reactor, sessions, mailbox, doc.queue, turns[Thread], messages[Thread])

\* A step whose events the reactor is published keeps what it holds: the new
\* requests are of turns minted later, and no message it holds is queued.
Later(mail, mail1, m) ==
  \A k \in DOMAIN mail1 :
    IsRequest(mail1[k]) => mail1[k].turn > m \/ \E j \in DOMAIN mail : mail[j] = mail1[k]

QueueMoves(queue, queue1, q) == \A id \in 1..q : ~Holds(queue, id) => ~Holds(queue1, id)

----------------------------------------------------------------------------
(* The mailbox.                                                            *)

LEMMA SeqOf ==
  ASSUME NEW S, NEW T, NEW s \in Seq(T), \A i \in DOMAIN s : s[i] \in S
  PROVE  s \in Seq(S)
<1>1. DOMAIN s = 1..Len(s) /\ Len(s) \in Nat /\ s = [i \in 1..Len(s) |-> s[i]]
  OBVIOUS
<1>2. s \in [1..Len(s) -> S]
  BY <1>1
<1> QED BY <1>1, <1>2

LEMMA MailTurns ==
  ASSUME NEW m \in Nat, NEW e \in Mail(m)
  PROVE  IsRequest(e) \/ e.type = "thread.turn.interrupted" => e.turn \in 1..m
BY DEF Mail, IsRequest, TurnRequested, TurnInterrupted, TurnSteered, TurnCompleted, SessionBound,
       Archived, Deleted

LEMMA MailLater ==
  ASSUME NEW m \in Nat, NEW m1 \in Nat, m <= m1
  PROVE  Mail(m) \subseteq Mail(m1)
<1>1. 1..m \subseteq 1..m1 /\ 0..m \subseteq 0..m1
  OBVIOUS
<1> QED BY <1>1, Zenon DEF Mail

\* What the reactor does nothing about.
Unreacted(events) == \A k \in DOMAIN events : events[k].type \notin Reacted

\* Publishing keeps the mailbox in order.
LEMMA Publishes ==
  ASSUME NEW T, NEW events \in Seq(T), Distinct(events), NEW mail, NEW m \in Nat, NEW m1 \in Nat, m <= m1,
         MailFits(mail, m),
         \A k \in DOMAIN events : events[k].type \in Reacted => events[k] \in Mail(m1),
         \A k \in DOMAIN events : IsRequest(events[k]) => events[k].turn > m,
         \A j, k \in DOMAIN events : IsRequest(events[j]) /\ IsRequest(events[k]) => j = k
  PROVE  MailFits(mail \o ReactedOf(events), m1) /\ Later(mail, mail \o ReactedOf(events), m)
<1> DEFINE places == {k \in DOMAIN events : events[k].type \in Reacted}
           new == ReactedOf(events)
           all == mail \o new
<1>1. /\ new \in Seq(T) /\ Distinct(new)
      /\ \A i \in DOMAIN new : \E k \in places : new[i] = events[k]
  <2>1. places \in SUBSET (DOMAIN events) /\ new = Keeping(events, places)
    BY DEF ReactedOf
  <2> HIDE DEF places, new
  <2> QED BY <2>1, KeepingHolds
<1> HIDE DEF new
<1>2. \A i \in DOMAIN new : new[i] \in Mail(m1)
  BY <1>1
<1>3. new \in Seq(Mail(m1))
  BY <1>1, <1>2, SeqOf
<1>4. \A i \in DOMAIN new : IsRequest(new[i]) => new[i].turn > m
  BY <1>1
<1>5. \A i, j \in DOMAIN new : IsRequest(new[i]) /\ IsRequest(new[j]) => i = j
  BY <1>1 DEF Distinct
<1>6. mail \in Seq(Mail(m1)) /\ \A i \in DOMAIN mail : mail[i] \in Mail(m) /\ mail[i] \in Mail(m1)
  <2>1. mail \in Seq(Mail(m)) /\ Mail(m) \subseteq Mail(m1)
    BY MailLater DEF MailFits
  <2>2. \A i \in DOMAIN mail : mail[i] \in Mail(m)
    BY <2>1
  <2> QED BY <2>1, <2>2, SeqOf
<1>7. /\ all \in Seq(Mail(m1)) /\ Len(all) = Len(mail) + Len(new)
      /\ \A i \in 1..Len(mail) + Len(new) : all[i] = IF i <= Len(mail) THEN mail[i] ELSE new[i - Len(mail)]
  BY <1>3, <1>6, ConcatProperties
<1> HIDE DEF all
<1>8. /\ Len(mail) \in Nat /\ Len(new) \in Nat /\ DOMAIN mail = 1..Len(mail) /\ DOMAIN new = 1..Len(new)
      /\ DOMAIN all = 1..Len(mail) + Len(new)
  BY <1>3, <1>6, <1>7
<1>9. \A i \in DOMAIN all :
        \/ i \in DOMAIN mail /\ i <= Len(mail) /\ all[i] = mail[i]
        \/ i - Len(mail) \in DOMAIN new /\ i > Len(mail) /\ all[i] = new[i - Len(mail)]
  <2> TAKE i \in DOMAIN all
  <2>1. i \in 1..Len(mail) + Len(new)
    BY <1>8
  <2>2. (i <= Len(mail) => all[i] = mail[i]) /\ (~(i <= Len(mail)) => all[i] = new[i - Len(mail)])
    BY <1>7, <2>1, Zenon
  <2>3. (i <= Len(mail) => i \in 1..Len(mail)) /\ (~(i <= Len(mail)) => i - Len(mail) \in 1..Len(new) /\ i > Len(mail))
    BY <1>8, <2>1
  <2> QED BY <1>8, <2>2, <2>3
<1>10. \A i \in DOMAIN mail : IsRequest(mail[i]) => mail[i].turn \in 1..m
  BY <1>6, MailTurns
<1>11. \A i \in DOMAIN new : IsRequest(new[i]) => new[i].turn \in Int
  BY <1>2, MailTurns
<1>12. ASSUME NEW i \in DOMAIN all, NEW j \in DOMAIN all, IsRequest(all[i]), IsRequest(all[j]), i < j
       PROVE  all[i].turn < all[j].turn
  <2>0. i \in Int /\ j \in Int /\ Len(mail) \in Int
    BY <1>8
  <2>1. CASE i \in DOMAIN mail /\ all[i] = mail[i] /\ j \in DOMAIN mail /\ all[j] = mail[j]
    BY <1>12, <2>1 DEF MailFits
  <2>2. CASE /\ i \in DOMAIN mail /\ all[i] = mail[i]
             /\ j - Len(mail) \in DOMAIN new /\ all[j] = new[j - Len(mail)]
    <3>1. all[i].turn \in 1..m /\ all[j].turn > m /\ all[j].turn \in Int
      BY <1>4, <1>10, <1>11, <1>12, <2>2
    <3> QED BY <3>1
  <2>3. CASE /\ i - Len(mail) \in DOMAIN new /\ all[i] = new[i - Len(mail)] /\ i > Len(mail)
             /\ j - Len(mail) \in DOMAIN new /\ all[j] = new[j - Len(mail)]
    <3>1. i - Len(mail) = j - Len(mail)
      BY <1>5, <1>12, <2>3
    <3> QED BY <1>12, <2>0, <3>1
  <2>4. CASE i > Len(mail) /\ j <= Len(mail)
    BY <1>12, <2>0, <2>4
  <2> QED BY <1>9, <2>1, <2>2, <2>3, <2>4
<1>13. MailFits(all, m1)
  BY <1>7, <1>12 DEF MailFits
<1>14. Later(mail, all, m)
  BY <1>4, <1>9 DEF Later
<1> QED BY <1>13, <1>14 DEF all, new

\* Events the reactor does nothing about, or that ask for no turn.
LEMMA PublishesQuietly ==
  ASSUME NEW T, NEW events \in Seq(T), Distinct(events), NEW mail, NEW m \in Nat, NEW m1 \in Nat, m <= m1,
         MailFits(mail, m),
         \A k \in DOMAIN events : ~IsRequest(events[k]) /\ (events[k].type \in Reacted => events[k] \in Mail(m1))
  PROVE  MailFits(mail \o ReactedOf(events), m1) /\ Later(mail, mail \o ReactedOf(events), m)
BY Publishes

\* The reactor takes the oldest event.
LEMMA TakesOldest ==
  ASSUME NEW mail, NEW m \in Nat, MailFits(mail, m), mail # <<>>
  PROVE  /\ Head(mail) \in Mail(m) /\ MailFits(Tail(mail), m) /\ Later(mail, Tail(mail), m)
         /\ \A k \in DOMAIN Tail(mail) :
              IsRequest(Head(mail)) /\ IsRequest(Tail(mail)[k]) => Head(mail).turn < Tail(mail)[k].turn
<1> DEFINE rest == Tail(mail)
           head == Head(mail)
<1>1. mail \in Seq(Mail(m)) /\ mail # <<>>
  BY DEF MailFits
<1>2. /\ head \in Mail(m) /\ rest \in Seq(Mail(m)) /\ Len(rest) = Len(mail) - 1
      /\ \A i \in 1..Len(rest) : rest[i] = mail[i + 1]
  BY <1>1, HeadTailProperties
<1>3. head = mail[1] /\ Len(mail) \in Nat /\ Len(mail) # 0 /\ DOMAIN mail = 1..Len(mail)
  BY <1>1
<1> HIDE DEF rest, head
<1>4. DOMAIN rest = 1..Len(mail) - 1 /\ 1 \in DOMAIN mail
  BY <1>2, <1>3
<1>5. \A i \in DOMAIN rest : i + 1 \in DOMAIN mail /\ rest[i] = mail[i + 1] /\ 1 < i + 1 /\ i \in Int
  BY <1>2, <1>3, <1>4
<1>6. ASSUME NEW j \in DOMAIN rest, NEW k \in DOMAIN rest, IsRequest(rest[j]), IsRequest(rest[k]), j < k
      PROVE  rest[j].turn < rest[k].turn
  <2>1. j + 1 < k + 1
    BY <1>5, <1>6
  <2> QED BY <1>5, <1>6, <2>1 DEF MailFits
<1>7. MailFits(rest, m)
  BY <1>2, <1>6 DEF MailFits
<1>8. Later(mail, rest, m)
  BY <1>5 DEF Later
<1>9. \A k \in DOMAIN rest : IsRequest(head) /\ IsRequest(rest[k]) => head.turn < rest[k].turn
  BY <1>3, <1>4, <1>5 DEF MailFits
<1> QED BY <1>2, <1>7, <1>8, <1>9 DEF rest, head

----------------------------------------------------------------------------
(* What stays as ids are minted.                                           *)

LEMMA SessionLater ==
  ASSUME NEW m \in Nat, NEW m1 \in Nat, m <= m1, NEW sess, SessionsFit(sess, m)
  PROVE  SessionsFit(sess, m1)
<1>1. 0..m \subseteq 0..m1
  OBVIOUS
<1>2. HandedOn(m) \subseteq HandedOn(m1)
  BY <1>1 DEF HandedOn
<1>3. \A S, T, s : S \subseteq T /\ s \in Seq(S) => s \in Seq(T)
  OBVIOUS
<1>4. [active : 0..m, finished : BOOLEAN] \subseteq [active : 0..m1, finished : BOOLEAN]
  BY <1>1
<1>5. Session(m) \subseteq Session(m1)
  <2> SUFFICES ASSUME NEW x \in Session(m) PROVE x \in Session(m1)
    OBVIOUS
  <2>1. /\ x = [up |-> x.up, open |-> x.open, alive |-> x.alive, handle |-> x.handle, out |-> x.out,
                pending |-> x.pending, got |-> x.got, busy |-> x.busy, why |-> x.why]
        /\ x.up \in BOOLEAN /\ x.open \in BOOLEAN /\ x.alive \in BOOLEAN /\ x.busy \in BOOLEAN
        /\ x.handle \in [active : 0..m, finished : BOOLEAN] /\ x.out \in Seq(HarnessEvents)
        /\ x.pending \in Seq(HandedOn(m)) /\ x.got \in 0..m
        /\ x.why \in {"crashed", "stopped"}
    BY DEF Session
  <2>2. /\ x.handle \in [active : 0..m1, finished : BOOLEAN] /\ x.got \in 0..m1
        /\ x.pending \in Seq(HandedOn(m1))
    <3>1. x.handle \in [active : 0..m1, finished : BOOLEAN]
      BY <1>4, <2>1, Zenon
    <3>2. x.got \in 0..m1
      BY <1>1, <2>1, Zenon
    <3>3. x.pending \in Seq(HandedOn(m1))
      BY <1>2, <1>3, <2>1, Zenon
    <3> QED BY <3>1, <3>2, <3>3
  <2> QED BY <2>1, <2>2 DEF Session
<1> QED BY <1>5 DEF SessionsFit

LEMMA ReactorLater ==
  ASSUME NEW x, NEW sess, NEW mail, NEW mail1, NEW queue, NEW queue1,
         NEW m \in Nat, NEW m1 \in Nat, NEW q \in Nat, NEW q1 \in Nat, m <= m1, q <= q1,
         ReactorFits(x, sess, mail, queue, m, q), Later(mail, mail1, m),
         x.pc \in {"dispatch", "requeue"} => QueueMoves(queue, queue1, q), MailFits(mail1, m1)
  PROVE  ReactorFits(x, sess, mail1, queue1, m1, q1)
<1>1. x \in [pc : Pcs, turn : 0..m, seen : 0..m, session : Slots \cup {0}, message : 0..q]
  BY DEF ReactorFits
<1>2. x \in [pc : Pcs, turn : 0..m1, seen : 0..m1, session : Slots \cup {0}, message : 0..q1]
  BY <1>1
<1>3. ASSUME x.pc \in Requesting, NEW k \in DOMAIN mail1, IsRequest(mail1[k])
      PROVE  x.turn < mail1[k].turn
  <2>1. mail1[k].turn \in Int
    <3>1. mail1[k] \in Mail(m1)
      BY DEF MailFits
    <3> QED BY <1>3, <3>1, MailTurns
  <2>2. CASE mail1[k].turn > m
    BY <1>1, <2>1, <2>2
  <2>3. CASE \E j \in DOMAIN mail : mail[j] = mail1[k]
    BY <1>3, <2>3 DEF ReactorFits
  <2> QED BY <1>3, <2>2, <2>3 DEF Later
<1>4. x.pc \in {"dispatch", "requeue"} /\ x.message # 0 => ~Holds(queue1, x.message)
  BY <1>1 DEF ReactorFits, QueueMoves
<1> QED BY <1>2, <1>3, <1>4 DEF ReactorFits

----------------------------------------------------------------------------
(* What the fibers append, as steps of the engine.                         *)

\* A step of the engine, with what it means for the reactor.
EngineMoves ==
  /\ [Next]_vars
  /\ MailFits(mailbox', turns'[Thread])
  /\ Later(mailbox, mailbox', turns[Thread])
  /\ QueueMoves(doc.queue, doc'.queue, messages[Thread])

\* Events that leave the queue as it is.
LEMMA QueueKept ==
  ASSUME NEW d, NEW e, Shaped(d),
         e.type \in LifeEvents \cup SessionEvents \cup TurnEvents \cup {"thread.item.upserted"}
  PROVE  Apply(d, e).queue = d.queue /\ Shaped(Apply(d, e))
<1>1. Apply(d, e) = d \/ Apply(d, e) = ApplyExisting(d, e)
  BY DEF Apply, LifeEvents, SessionEvents, TurnEvents
<1>2. CASE e.type \in LifeEvents
  <2>1. ApplyExisting(d, e) = ApplyLife(d, e)
    BY <1>2 DEF ApplyExisting, LifeEvents, SessionEvents, TurnEvents, QueueEvents, CardEvents, RestoreEvents
  <2>2. ApplyLife(d, e).queue = d.queue /\ Shaped(ApplyLife(d, e))
    BY <1>2 DEF ApplyLife, LifeEvents, Abandoned, Shaped, DocFields
  <2> QED BY <1>1, <2>1, <2>2
<1>3. CASE e.type \in SessionEvents
  <2>1. ApplyExisting(d, e) = ApplySession(d, e)
    BY <1>3 DEF ApplyExisting, LifeEvents, SessionEvents, TurnEvents, QueueEvents, CardEvents, RestoreEvents
  <2>2. ApplySession(d, e).queue = d.queue /\ Shaped(ApplySession(d, e))
    BY <1>3 DEF ApplySession, SessionEvents, Abandoned, Shaped, DocFields
  <2> QED BY <1>1, <2>1, <2>2
<1>4. CASE e.type \in TurnEvents
  <2>1. ApplyExisting(d, e) = ApplyTurn(d, e)
    BY <1>4 DEF ApplyExisting, LifeEvents, SessionEvents, TurnEvents, QueueEvents, CardEvents, RestoreEvents
  <2>2. ApplyTurn(d, e).queue = d.queue /\ Shaped(ApplyTurn(d, e))
    BY <1>4 DEF ApplyTurn, TurnEvents, Settled, Shaped, DocFields
  <2> QED BY <1>1, <2>1, <2>2
<1>5. CASE e.type = "thread.item.upserted"
  <2>1. ApplyExisting(d, e) = [d EXCEPT !.spoke = TRUE]
    BY <1>5 DEF ApplyExisting, LifeEvents, SessionEvents, TurnEvents, QueueEvents, CardEvents, RestoreEvents
  <2> QED BY <1>1, <2>1 DEF Shaped, DocFields
<1> QED BY <1>2, <1>3, <1>4, <1>5

LEMMA OneEvent ==
  ASSUME NEW e
  PROVE  <<e>> \in Seq({e}) /\ Distinct(<<e>>) /\ \A k \in DOMAIN <<e>> : k = 1 /\ <<e>>[k] = e
BY DEF Distinct

LEMMA TwoEvents ==
  ASSUME NEW e, NEW f, e # f
  PROVE  /\ <<e, f>> \in Seq({e, f}) /\ Distinct(<<e, f>>)
         /\ \A k \in DOMAIN <<e, f>> : (k = 1 /\ <<e, f>>[k] = e) \/ (k = 2 /\ <<e, f>>[k] = f)
<1>1. /\ <<e, f>> \in Seq({e, f}) /\ DOMAIN <<e, f>> = {1, 2} /\ 1 # 2
      /\ <<e, f>>[1] = e /\ <<e, f>>[2] = f
  OBVIOUS
<1> QED BY <1>1, Zenon DEF Distinct

\* The events a fiber of the server appends one at a time.
ServerEvents(m) ==
  {SessionBound(Instance, "yes"), ThreadError(TRUE), SessionLost} \cup
  {TurnStarted(k) : k \in 1..m} \cup {TurnCompleted(k) : k \in 1..m}

LEMMA ServerEventTypes ==
  ASSUME NEW m \in Nat, NEW e \in ServerEvents(m)
  PROVE  /\ e.type \in SessionEvents \cup TurnEvents /\ ~IsRequest(e)
         /\ e.type \in Reacted => e \in Mail(m)
BY DEF ServerEvents, SessionBound, ThreadError, SessionLost, TurnStarted, TurnCompleted, SessionEvents,
       TurnEvents, IsRequest, Reacted, Mail

\* The facts every such step starts from.
LEMMA DocFacts ==
  ASSUME ContentsInv
  PROVE  /\ Thread \in Threads /\ Threads = {Thread} /\ Instance \in Instances
         /\ turns[Thread] \in Nat /\ messages[Thread] \in Nat
         /\ Shaped(doc) /\ doc.turn \in {0, turns[Thread]} /\ QueueFits(doc.queue, messages[Thread])
         /\ DocFits(doc, turns[Thread], messages[Thread], requests[Thread])
         /\ \A c : docs' = [docs EXCEPT ![Thread] = c] => doc' = c
<1>1. Thread \in Threads /\ Threads = {Thread} /\ Instance \in Instances
  BY OrchestrationAssumption DEF OrchestrationAssumption
<1>2. /\ turns[Thread] \in Nat /\ messages[Thread] \in Nat
      /\ DocFits(doc, turns[Thread], messages[Thread], requests[Thread])
  BY <1>1, Counters DEF doc
<1>3. \A c : docs' = [docs EXCEPT ![Thread] = c] => doc' = c
  BY <1>1 DEF ContentsInv, doc
<1> QED BY <1>1, <1>2, <1>3 DEF DocFits, PlainFits

\* A step that leaves the log alone.
LEMMA NoEventMoves ==
  ASSUME ContentsInv, MailFits(mailbox, turns[Thread]), UNCHANGED <<vars, mailbox>>
  PROVE  EngineMoves
<1>1. turns' = turns /\ doc' = doc /\ mailbox' = mailbox
  BY DEF vars, doc
<1> QED BY <1>1 DEF EngineMoves, Later, QueueMoves

\* One event of a fiber of the server.
LEMMA AppendMoves ==
  ASSUME ContentsInv, MailFits(mailbox, turns[Thread]), NEW e \in ServerEvents(turns[Thread]),
         AppendEvents(<<e>>)
  PROVE  EngineMoves
<1> DEFINE m == turns[Thread]
<1>1. CASE ~Live(doc)
  <2>1. UNCHANGED <<vars, mailbox>>
    BY <1>1 DEF AppendEvents
  <2> QED BY <2>1, NoEventMoves
<1>2. CASE Live(doc)
  <2>1. AppendThreadEvents(Thread, <<e>>) /\ requests' = requests /\ mailbox' = mailbox \o ReactedOf(<<e>>)
    BY <1>2 DEF AppendEvents, Publish
  <2>2. m \in Nat /\ Thread \in Threads /\ turns' = turns
    BY <2>1, DocFacts DEF AppendThreadEvents
  <2>3. [Next]_vars
    <3>1. SessionEvent(Thread) \/ ReactorEvent(Thread)
      BY <2>1, DocFacts DEF ServerEvents, SessionEvent, ReactorEvent, Steering
    <3> QED BY <2>2, <3>1 DEF Next, ServerStep
  <2>4. MailFits(mailbox', m) /\ Later(mailbox, mailbox', m)
    <3>1. ~IsRequest(e) /\ (e.type \in Reacted => e \in Mail(m))
      BY <2>2, ServerEventTypes
    <3> DEFINE events == <<e>>
    <3>2. events \in Seq({e}) /\ Distinct(events) /\ \A k \in DOMAIN events : events[k] = e
      BY OneEvent
    <3> HIDE DEF events
    <3>3. MailFits(mailbox \o ReactedOf(events), m) /\ Later(mailbox, mailbox \o ReactedOf(events), m)
      BY <2>2, <3>1, <3>2, PublishesQuietly
    <3> QED BY <2>1, <3>3 DEF events
  <2>5. doc'.queue = doc.queue
    <3>1. docs' = [docs EXCEPT ![Thread] = ApplyAll(doc, <<e>>)]
      BY <2>1 DEF AppendThreadEvents, Commit, doc
    <3>2. doc' = Apply(doc, e)
      BY <3>1, DocFacts, ApplyOne
    <3> QED BY <2>2, <3>2, DocFacts, ServerEventTypes, QueueKept
  <2> QED BY <2>2, <2>3, <2>4, <2>5 DEF EngineMoves, QueueMoves
<1> QED BY <1>1, <1>2

\* A failure, and the turn it settles.
LEMMA FailureMoves ==
  ASSUME ContentsInv, MailFits(mailbox, turns[Thread]), NEW k \in 1..turns[Thread],
         AppendEvents(<<ThreadError(TRUE), TurnCompleted(k)>>)
  PROVE  EngineMoves
<1> DEFINE m == turns[Thread]
           e == ThreadError(TRUE)
           f == TurnCompleted(k)
           events == <<e, f>>
<1>1. CASE ~Live(doc)
  <2>1. UNCHANGED <<vars, mailbox>>
    BY <1>1 DEF AppendEvents
  <2> QED BY <2>1, NoEventMoves
<1>2. CASE Live(doc)
  <2>1. AppendThreadEvents(Thread, events) /\ requests' = requests /\ mailbox' = mailbox \o ReactedOf(events)
    BY <1>2 DEF AppendEvents, Publish
  <2>2. m \in Nat /\ Thread \in Threads /\ turns' = turns
    BY <2>1, DocFacts DEF AppendThreadEvents
  <2>3. [Next]_vars
    <3>1. ReactorEvent(Thread)
      BY <2>1 DEF ReactorEvent
    <3> QED BY <2>2, <3>1 DEF Next, ServerStep
  <2>4. e \in ServerEvents(m) /\ f \in ServerEvents(m) /\ e.type = "thread.error" /\ f.type = "thread.turn.completed"
    BY DEF ServerEvents, ThreadError, TurnCompleted
  <2>5. docs' = [docs EXCEPT ![Thread] = ApplyAll(doc, <<e, f>>)]
    BY <2>1 DEF AppendThreadEvents, Commit, doc
  <2> HIDE DEF e, f
  <2>6. MailFits(mailbox', m) /\ Later(mailbox, mailbox', m)
    <3>1. /\ ~IsRequest(e) /\ (e.type \in Reacted => e \in Mail(m))
          /\ ~IsRequest(f) /\ (f.type \in Reacted => f \in Mail(m))
      BY <2>2, <2>4, ServerEventTypes
    <3>2. events \in Seq({e, f}) /\ Distinct(events) /\ \A j \in DOMAIN events : events[j] = e \/ events[j] = f
      BY <2>4, TwoEvents
    <3> HIDE DEF events
    <3>3. MailFits(mailbox \o ReactedOf(events), m) /\ Later(mailbox, mailbox \o ReactedOf(events), m)
      BY <2>2, <3>1, <3>2, PublishesQuietly
    <3> QED BY <2>1, <3>3
  <2>7. doc'.queue = doc.queue
    <3>1. doc' = Apply(Apply(doc, e), f)
      <4>1. ApplyAll(doc, <<e, f>>) = Apply(Apply(doc, e), f)
        BY ApplyTwo
      <4> QED BY <2>5, <4>1, DocFacts
    <3>2. e.type \in TurnEvents /\ f.type \in TurnEvents
      BY <2>4 DEF TurnEvents
    <3> QED BY <3>1, <3>2, DocFacts, QueueKept
  <2> QED BY <2>2, <2>3, <2>6, <2>7 DEF EngineMoves, QueueMoves
<1> QED BY <1>1, <1>2

----------------------------------------------------------------------------
(* What the commands append.                                               *)

\* The commands the clients and the reactor dispatch.
Asked ==
  {[type |-> "thread.create", instance |-> Instance]} \cup
  {[type |-> "thread.turn.start", queued |-> b] : b \in BOOLEAN} \cup
  {[type |-> "thread.queue.remove", message |-> id] : id \in 1..messages[Thread]} \cup
  {[type |-> k] : k \in {"thread.turn.steer", "thread.turn.interrupt", "thread.archive",
                         "thread.unarchive", "thread.delete"}}

SingleEvents(m) == {Archived, Unarchived, Deleted} \cup {TurnInterrupted(k) : k \in 1..m}

\* What the decider makes of them.
AskedEvents(events) ==
  \/ events = NewTurn(Env(Thread))
  \/ events = <<TurnSteered(doc.turn), UserRow(doc.turn)>>
  \/ events = <<Queued(messages[Thread] + 1)>>
  \/ events = <<Created(Instance)>>
  \/ \E id : events = <<Dequeued(id)>>
  \/ \E e \in SingleEvents(turns[Thread]) : events = <<e>>

LEMMA AskedIsClient ==
  ASSUME NEW cmd \in Asked, Dispatch(Thread, cmd), Instance \in Instances
  PROVE  ClientStep(Thread)
BY DEF Asked, ClientStep, CreateThread, StartTurn, RemoveQueued, SteerTurn, InterruptTurn, ArchiveThread,
       UnarchiveThread, DeleteThread

LEMMA AskedDecides ==
  ASSUME ContentsInv, NEW cmd \in Asked, Decided(cmd).accepted
  PROVE  AskedEvents(Decided(cmd).events)
<1> DEFINE res == Decided(cmd)
           env == Env(Thread)
           ctx == Context(Thread)
<1>0. \A ok, events : When(ok, events).accepted => ok /\ When(ok, events).events = events
  BY DEF When, Accepted, Rejected
<1>1. env.message = messages[Thread] + 1
  BY DEF Env
<1>2. CASE cmd.type = "thread.create"
  <2>1. cmd.instance = Instance
    BY <1>2 DEF Asked
  <2>2. res = When(ctx.projectExists /\ ~Live(doc), <<Created(Instance)>>)
    BY <1>2, <2>1 DEF Decided, Decide, DecideCreate
  <2> QED BY <1>0, <2>2 DEF AskedEvents
<1>3. ASSUME cmd.type # "thread.create"
      PROVE  res = DecideLive(cmd, doc, ctx, env)
  BY <1>3 DEF Decided, Decide, Rejected
<1>4. ASSUME NEW e, NEW ok, res = When(ok, <<e>>), ok => e \in SingleEvents(turns[Thread])
      PROVE  AskedEvents(res.events)
  BY <1>0, <1>4 DEF AskedEvents
<1>5. CASE cmd.type = "thread.archive"
  <2>1. res = When(doc.status # "archived", <<Archived>>)
    BY <1>3, <1>5 DEF DecideLive
  <2> QED BY <1>4, <2>1 DEF SingleEvents
<1>6. CASE cmd.type = "thread.unarchive"
  <2>1. res = When(doc.status = "archived", <<Unarchived>>)
    BY <1>3, <1>6 DEF DecideLive
  <2> QED BY <1>4, <2>1 DEF SingleEvents
<1>7. CASE cmd.type = "thread.delete"
  <2>1. res = When(TRUE, <<Deleted>>)
    BY <1>3, <1>7 DEF DecideLive, When
  <2> QED BY <1>4, <2>1 DEF SingleEvents
<1>8. CASE cmd.type = "thread.turn.interrupt"
  <2>1. res = When(doc.turn # 0 /\ ~doc.interrupting, <<TurnInterrupted(doc.turn)>>)
    BY <1>3, <1>8 DEF DecideLive
  <2>2. doc.turn # 0 => doc.turn \in 1..turns[Thread]
    BY DocFacts
  <2>3. doc.turn # 0 => TurnInterrupted(doc.turn) \in SingleEvents(turns[Thread])
    BY <2>2 DEF SingleEvents
  <2> QED BY <1>4, <2>1, <2>3
<1>9. CASE cmd.type = "thread.queue.remove"
  <2>1. res = When(Holds(doc.queue, cmd.message), <<Dequeued(cmd.message)>>)
    BY <1>3, <1>9 DEF DecideLive
  <2> QED BY <1>0, <2>1 DEF AskedEvents
<1>10. CASE cmd.type = "thread.turn.start"
  <2>1. res = DecideTurnStart(cmd, doc, ctx, env)
    BY <1>3, <1>10 DEF DecideLive
  <2>2. res.events = <<Queued(env.message)>> \/ res.events = NewTurn(env)
    BY <2>1 DEF DecideTurnStart, When, Accepted, Rejected
  <2> QED BY <1>1, <2>2 DEF AskedEvents
<1>11. CASE cmd.type = "thread.turn.steer"
  <2>1. res = DecideSteer(doc, ctx, env)
    BY <1>3, <1>11 DEF DecideLive
  <2>2. doc.session.steering \in Steering
    BY DocFacts DEF DocFits, PlainFits
  <2>3. res \in {Accepted(NewTurn(env)), Rejected, Accepted(<<Queued(env.message)>>),
                 Accepted(<<TurnSteered(doc.turn), UserRow(doc.turn)>>)}
    BY <2>1, <2>2 DEF DecideSteer, Steering
  <2> QED BY <1>1, <2>3 DEF AskedEvents, Accepted, Rejected
<1> QED BY <1>2, <1>5, <1>6, <1>7, <1>8, <1>9, <1>10, <1>11 DEF Asked

\* A queue whose messages were all there, but for one of a fresh id.
LEMMA Requeues ==
  ASSUME NEW queue, NEW q \in Nat, QueueFits(queue, q), NEW x
  PROVE  /\ QueueMoves(queue, Without(queue, x), q)
         /\ x = q + 1 => QueueMoves(queue, Append(queue, x), q)
         /\ QueueMoves(queue, <<>>, q)
<1>1. queue \in Seq(1..q)
  BY DEF QueueFits
<1>2. QueueMoves(queue, Without(queue, x), q)
  <2> DEFINE places == {k \in DOMAIN queue : queue[k] # x}
             T == 1..q
  <2>1. places \in SUBSET (DOMAIN queue) /\ Without(queue, x) = Keeping(queue, places) /\ queue \in Seq(T)
    BY <1>1 DEF Without
  <2> HIDE DEF places, T
  <2>2. \A i \in DOMAIN Keeping(queue, places) : \E k \in places : Keeping(queue, places)[i] = queue[k]
    BY <2>1, KeepingHolds
  <2> QED BY <2>1, <2>2 DEF QueueMoves, Holds
<1>3. ASSUME x = q + 1 PROVE QueueMoves(queue, Append(queue, x), q)
  <2>1. /\ DOMAIN queue = 1..Len(queue) /\ DOMAIN Append(queue, x) = 1..Len(queue) + 1 /\ Len(queue) \in Nat
        /\ \A i \in 1..Len(queue) : Append(queue, x)[i] = queue[i]
        /\ Append(queue, x)[Len(queue) + 1] = x
    BY <1>1
  <2>2. \A i \in DOMAIN Append(queue, x) : Append(queue, x)[i] = x \/ i \in DOMAIN queue
    BY <2>1
  <2>3. \A id \in 1..q : id # x
    BY <1>3
  <2> QED BY <2>1, <2>2, <2>3 DEF QueueMoves, Holds
<1>4. QueueMoves(queue, <<>>, q)
  BY DEF QueueMoves, Holds
<1> QED BY <1>2, <1>3, <1>4

\* What the queue becomes when a message joins or leaves it.
LEMMA QueueChanges ==
  ASSUME NEW d, NEW id, Shaped(d), d.life # "none"
  PROVE  /\ Apply(d, Queued(id)).queue = Append(d.queue, id)
         /\ Apply(d, Dequeued(id)).queue = Without(d.queue, id)
<1>1. ASSUME NEW e, e.type \in QueueEvents
      PROVE  Apply(d, e) = ApplyQueue(d, e)
  <2>1. Apply(d, e) = ApplyExisting(d, e)
    BY <1>1 DEF Apply, QueueEvents
  <2> QED BY <1>1, <2>1 DEF ApplyExisting, LifeEvents, SessionEvents, TurnEvents, QueueEvents, CardEvents, RestoreEvents
<1>2. Apply(d, Queued(id)) = [d EXCEPT !.queue = Append(@, id)]
  <2>1. Apply(d, Queued(id)) = ApplyQueue(d, Queued(id))
    BY <1>1 DEF Queued, QueueEvents
  <2> QED BY <2>1 DEF ApplyQueue, Queued
<1>3. Apply(d, Dequeued(id)) = [d EXCEPT !.queue = Without(@, id)]
  <2>1. Apply(d, Dequeued(id)) = ApplyQueue(d, Dequeued(id))
    BY <1>1 DEF Dequeued, QueueEvents
  <2> QED BY <2>1 DEF ApplyQueue, Dequeued
<1> QED BY <1>2, <1>3 DEF Shaped, DocFields

\* A step whose events fit the mailbox, and whose queue takes back no message.
LEMMA PublishingMoves ==
  ASSUME ContentsInv, MailFits(mailbox, turns[Thread]), [Next]_vars,
         NEW T, NEW events \in Seq(T), Distinct(events), Publish(events),
         \A k \in DOMAIN events : events[k].type \in Reacted => events[k] \in Mail(turns'[Thread]),
         \A k \in DOMAIN events : IsRequest(events[k]) => events[k].turn > turns[Thread],
         \A j, k \in DOMAIN events : IsRequest(events[j]) /\ IsRequest(events[k]) => j = k,
         QueueMoves(doc.queue, doc'.queue, messages[Thread])
  PROVE  EngineMoves
<1> DEFINE m == turns[Thread]
           m1 == turns'[Thread]
<1>1. Thread \in Threads
  BY DocFacts
<1>2. ContentsInv'
  BY NextKeepsContents
<1>3. m1 \in Nat
  BY <1>1, <1>2 DEF ContentsInv
<1>4. m \in Nat /\ m <= m1
  BY <1>1, NextMints, DocFacts
<1> HIDE DEF m, m1
<1>5. MailFits(mailbox \o ReactedOf(events), m1) /\ Later(mailbox, mailbox \o ReactedOf(events), m)
  BY <1>3, <1>4, Publishes DEF m, m1
<1> QED BY <1>5 DEF EngineMoves, Publish, m, m1

\* Whatever a command appends.
LEMMA AskedMoves ==
  ASSUME ContentsInv, MailFits(mailbox, turns[Thread]), [Next]_vars, NEW events, AskedEvents(events),
         doc.life # "none" \/ events = <<Created(Instance)>>,
         Commit(Thread, events), Minted(Thread, events), Publish(events)
  PROVE  EngineMoves
<1> DEFINE m == turns[Thread]
           q == messages[Thread]
<1>1. /\ m \in Nat /\ q \in Nat /\ Thread \in Threads /\ Shaped(doc) /\ QueueFits(doc.queue, q)
      /\ doc.turn \in {0, m}
  BY DocFacts
<1>2. doc' = ApplyAll(doc, events)
  BY DocFacts DEF Commit, doc
<1>3. turns'[Thread] = IF \E k \in DOMAIN events : events[k].type = "thread.turn.requested" THEN m + 1 ELSE m
  BY <1>1 DEF Minted, Spent, ContentsInv
<1>4. ASSUME NEW e, events = <<e>>, ~IsRequest(e), e.type \in Reacted => e \in Mail(m),
             QueueMoves(doc.queue, Apply(doc, e).queue, q)
      PROVE  EngineMoves
  <2>1. /\ events \in Seq({e}) /\ Distinct(events) /\ \A k \in DOMAIN events : events[k] = e
    BY <1>4, OneEvent
  <2>2. doc' = Apply(doc, e)
    BY <1>2, <1>4, ApplyOne
  <2>3. turns'[Thread] = m
    BY <1>3, <1>4, <2>1 DEF IsRequest
  <2>4. QueueMoves(doc.queue, doc'.queue, q)
    BY <1>4, <2>2
  <2> HIDE DEF m
  <2>5. /\ \A k \in DOMAIN events : events[k].type \in Reacted => events[k] \in Mail(turns'[Thread])
        /\ \A k \in DOMAIN events : ~IsRequest(events[k])
    BY <1>4, <2>1, <2>3
  <2> QED BY <2>1, <2>4, <2>5, PublishingMoves
<1>5. ASSUME NEW e, NEW f, events = <<e, f>>, e # f, f.type = "thread.item.upserted",
             e.type \in TurnEvents, IsRequest(e) => e.turn = m + 1,
             e \in Mail(turns'[Thread])
      PROVE  EngineMoves
  <2>1. /\ events \in Seq({e, f}) /\ Distinct(events)
        /\ \A k \in DOMAIN events : (k = 1 /\ events[k] = e) \/ (k = 2 /\ events[k] = f)
    BY <1>5, TwoEvents
  <2>2. doc' = Apply(Apply(doc, e), f)
    BY <1>2, <1>5, ApplyTwo
  <2>3. doc'.queue = doc.queue
    BY <1>1, <1>5, <2>2, QueueKept
  <2>4. QueueMoves(doc.queue, doc'.queue, q)
    BY <2>3 DEF QueueMoves
  <2>5. ~IsRequest(f) /\ f.type \notin Reacted
    BY <1>5 DEF IsRequest, Reacted
  <2>6. m + 1 > m
    BY <1>1
  <2>7. /\ \A k \in DOMAIN events : events[k].type \in Reacted => events[k] \in Mail(turns'[Thread])
        /\ \A k \in DOMAIN events : IsRequest(events[k]) => events[k].turn > turns[Thread]
        /\ \A j, k \in DOMAIN events : IsRequest(events[j]) /\ IsRequest(events[k]) => j = k
    BY <1>5, <2>1, <2>5, <2>6
  <2> QED BY <2>1, <2>4, <2>7, PublishingMoves
<1>6. CASE events = NewTurn(Env(Thread))
  <2> DEFINE e == TurnRequested(m + 1)
             f == UserRow(m + 1)
  <2>1. /\ events = <<e, f>> /\ e.type = "thread.turn.requested" /\ f.type = "thread.item.upserted"
        /\ e.turn = m + 1
    BY <1>6 DEF NewTurn, Env, TurnRequested, UserRow
  <2>2. e \in Mail(m + 1)
    BY <1>1 DEF Mail
  <2> HIDE DEF e, f
  <2>3. e # f /\ e.type \in TurnEvents
    BY <2>1 DEF TurnEvents
  <2>4. turns'[Thread] = m + 1
    <3>1. 1 \in DOMAIN events /\ events[1] = e
      BY <2>1
    <3> QED BY <1>3, <2>1, <3>1
  <2>5. e \in Mail(turns'[Thread])
    BY <2>2, <2>4
  <2> QED BY <1>5, <2>1, <2>3, <2>5
<1>7. CASE events = <<TurnSteered(doc.turn), UserRow(doc.turn)>>
  <2> DEFINE e == TurnSteered(doc.turn)
             f == UserRow(doc.turn)
  <2>1. events = <<e, f>> /\ e.type = "thread.turn.steered" /\ f.type = "thread.item.upserted"
    BY <1>7 DEF TurnSteered, UserRow
  <2>2. e \in Mail(m)
    BY <1>1 DEF Mail
  <2> HIDE DEF e, f
  <2>3. e # f /\ e.type \in TurnEvents /\ ~IsRequest(e)
    BY <2>1 DEF TurnEvents, IsRequest
  <2>4. turns'[Thread] = m
    <3>1. \A k \in DOMAIN events : events[k] = e \/ events[k] = f
      BY <2>1, <2>3, TwoEvents
    <3> QED BY <1>3, <2>1, <3>1
  <2>5. e \in Mail(turns'[Thread])
    BY <2>2, <2>4
  <2> QED BY <1>5, <2>1, <2>3, <2>5
<1>8. CASE events = <<Queued(q + 1)>>
  <2>1. Queued(q + 1).type \notin Reacted /\ ~IsRequest(Queued(q + 1))
    BY DEF Queued, Reacted, IsRequest
  <2>2. CASE doc.life # "none"
    <3>1. Apply(doc, Queued(q + 1)).queue = Append(doc.queue, q + 1)
      BY <1>1, <2>2, QueueChanges
    <3>2. QueueMoves(doc.queue, Append(doc.queue, q + 1), q)
      BY <1>1, Requeues
    <3> QED BY <1>4, <1>8, <2>1, <3>1, <3>2
  <2>3. CASE events = <<Created(Instance)>>
    BY <1>8, <2>3 DEF Queued, Created
  <2> QED BY <2>2, <2>3
<1>9. CASE events = <<Created(Instance)>>
  <2>1. Created(Instance).type \notin Reacted /\ ~IsRequest(Created(Instance))
    BY DEF Created, Reacted, IsRequest
  <2>2. Apply(doc, Created(Instance)).queue = <<>>
    BY DEF Apply, Created, NoDoc
  <2>3. QueueMoves(doc.queue, <<>>, q)
    BY <1>1, Requeues
  <2> QED BY <1>4, <1>9, <2>1, <2>2, <2>3
<1>10. ASSUME NEW id, events = <<Dequeued(id)>>
       PROVE  EngineMoves
  <2>1. Dequeued(id).type \notin Reacted /\ ~IsRequest(Dequeued(id))
    BY DEF Dequeued, Reacted, IsRequest
  <2>2. doc.life # "none"
    BY <1>10 DEF Dequeued, Created
  <2>3. Apply(doc, Dequeued(id)).queue = Without(doc.queue, id)
    BY <1>1, <2>2, QueueChanges
  <2>4. QueueMoves(doc.queue, Without(doc.queue, id), q)
    BY <1>1, Requeues
  <2> QED BY <1>4, <1>10, <2>1, <2>3, <2>4
<1>11. ASSUME NEW e \in SingleEvents(m), events = <<e>>
       PROVE  EngineMoves
  <2>1. e.type \in LifeEvents \cup TurnEvents /\ ~IsRequest(e) /\ (e.type \in Reacted => e \in Mail(m))
    BY DEF SingleEvents, Archived, Unarchived, Deleted, TurnInterrupted, LifeEvents, TurnEvents,
           IsRequest, Reacted, Mail
  <2>2. Apply(doc, e).queue = doc.queue
    BY <1>1, <2>1, QueueKept
  <2>3. QueueMoves(doc.queue, Apply(doc, e).queue, q)
    BY <2>2 DEF QueueMoves
  <2> QED BY <1>4, <1>11, <2>1, <2>3
<1> QED BY <1>6, <1>7, <1>8, <1>9, <1>10, <1>11 DEF AskedEvents

\* A command decided and published.
LEMMA CommandMoves ==
  ASSUME ContentsInv, MailFits(mailbox, turns[Thread]), NEW cmd \in Asked,
         Dispatch(Thread, cmd), Publish(Decided(cmd).events)
  PROVE  EngineMoves
<1> DEFINE events == Decided(cmd).events
<1>1. Decided(cmd).accepted /\ Commit(Thread, events) /\ Minted(Thread, events)
  BY DEF Dispatch, Decided, doc
<1>2. AskedEvents(events)
  BY <1>1, AskedDecides
<1>3. doc.life # "none" \/ events = <<Created(Instance)>>
  <2>1. CASE cmd.type = "thread.create"
    <3>1. cmd.instance = Instance
      BY <2>1 DEF Asked
    <3>2. Decided(cmd) = When(Context(Thread).projectExists /\ ~Live(doc), <<Created(Instance)>>)
      BY <2>1, <3>1 DEF Decided, Decide, DecideCreate
    <3> QED BY <1>1, <3>2 DEF When, Accepted, Rejected
  <2>2. CASE cmd.type # "thread.create"
    BY <1>1, <2>2 DEF Decided, Decide, Rejected, Live
  <2> QED BY <2>1, <2>2
<1>4. [Next]_vars
  <2>1. ClientStep(Thread) /\ Thread \in Threads
    BY AskedIsClient, DocFacts
  <2> QED BY <2>1 DEF Next
<1> HIDE DEF events
<1> QED BY <1>1, <1>2, <1>3, <1>4, AskedMoves DEF events

\* What a handed-on event writes.
LEMMA TranslatedMoves ==
  ASSUME ContentsInv, MailFits(mailbox, turns[Thread]), NEW e \in HandedOn(turns[Thread]),
         AppendEvents(Translated(e))
  PROVE  EngineMoves
<1> DEFINE m == turns[Thread]
<1>1. e.turn # 0 => e.turn \in 1..m
  BY DocFacts DEF HandedOn
<1>2. Translated(e) \in {<<>>} \cup {<<x>> : x \in ServerEvents(m)}
  BY <1>1 DEF Translated, ServerEvents
<1>3. CASE Translated(e) = <<>>
  <2>1. CASE ~Live(doc)
    <3>1. UNCHANGED <<vars, mailbox>>
      BY <2>1 DEF AppendEvents
    <3> QED BY <3>1, NoEventMoves
  <2>2. CASE Live(doc)
    <3>1. AppendThreadEvents(Thread, <<>>) /\ requests' = requests /\ Publish(<<>>)
      BY <1>3, <2>2 DEF AppendEvents
    <3>2. docs' = [docs EXCEPT ![Thread] = ApplyAll(doc, <<>>)] /\ UNCHANGED <<projects, turns, messages>>
      BY <3>1 DEF AppendThreadEvents, Commit, doc
    <3>3. docs' = docs
      BY <3>2, ApplyNone, DocFacts DEF ContentsInv, doc
    <3>4. UNCHANGED vars /\ doc' = doc /\ turns' = turns
      BY <3>1, <3>2, <3>3 DEF vars, doc
    <3> DEFINE events == <<>>
    <3>5. events \in Seq({}) /\ Distinct(events) /\ DOMAIN events = {}
      BY DEF Distinct
    <3>6. QueueMoves(doc.queue, doc'.queue, messages[Thread])
      BY <3>4 DEF QueueMoves
    <3> HIDE DEF events
    <3> QED BY <3>1, <3>4, <3>5, <3>6, PublishingMoves DEF events
  <2> QED BY <2>1, <2>2
<1>4. ASSUME NEW x \in ServerEvents(m), Translated(e) = <<x>>
      PROVE  EngineMoves
  BY <1>4, AppendMoves
<1> QED BY <1>2, <1>3, <1>4

LEMMA Pairs == \A a, b : <<a>> \o <<b>> = <<a, b>>
<1> SUFFICES ASSUME NEW a, NEW b PROVE <<a>> \o <<b>> = <<a, b>>
  OBVIOUS
<1> DEFINE r == <<a>>
           s == <<b>>
           t == <<a, b>>
           S == {a, b}
<1>1. r \in Seq(S) /\ s \in Seq(S) /\ t \in Seq(S) /\ Len(r) = 1 /\ Len(s) = 1 /\ Len(t) = 2
      /\ r[1] = a /\ s[1] = b /\ t[1] = a /\ t[2] = b
  OBVIOUS
<1> HIDE DEF r, s, t, S
<1>2. /\ r \o s \in Seq(S) /\ Len(r \o s) = 2
      /\ \A i \in 1..2 : (r \o s)[i] = IF i <= 1 THEN r[i] ELSE s[i - 1]
  BY <1>1, ConcatProperties
<1> DEFINE rs == r \o s
<1>3. rs \in Seq(S) /\ Len(rs) = 2 /\ rs[1] = r[1] /\ rs[2] = s[1]
  BY <1>2
<1> HIDE DEF rs
<1>4. \A i \in 1..Len(rs) : rs[i] = t[i]
  BY <1>1, <1>3
<1>5. rs = t
  BY <1>1, <1>3, <1>4, SeqEqual
<1> QED BY <1>5 DEF r, s, t, rs

\* Whatever failThread appends.
LEMMA FailThreadMoves ==
  ASSUME ContentsInv, MailFits(mailbox, turns[Thread]), NEW k \in 0..turns[Thread],
         AppendEvents(<<ThreadError(TRUE)>> \o (IF k = 0 THEN <<>> ELSE <<TurnCompleted(k)>>))
  PROVE  EngineMoves
<1>1. CASE k = 0
  <2>1. <<ThreadError(TRUE)>> \o (IF k = 0 THEN <<>> ELSE <<TurnCompleted(k)>>) = <<ThreadError(TRUE)>>
    BY <1>1
  <2>2. ThreadError(TRUE) \in ServerEvents(turns[Thread])
    BY DEF ServerEvents
  <2> QED BY <2>1, <2>2, AppendMoves
<1>2. CASE k # 0
  <2>1. <<ThreadError(TRUE)>> \o (IF k = 0 THEN <<>> ELSE <<TurnCompleted(k)>>)
          = <<ThreadError(TRUE), TurnCompleted(k)>>
    <3>1. (IF k = 0 THEN <<>> ELSE <<TurnCompleted(k)>>) = <<TurnCompleted(k)>>
      BY <1>2
    <3> QED BY <3>1, Pairs, Zenon
  <2>2. k \in 1..turns[Thread]
    BY <1>2, DocFacts
  <2> QED BY <2>1, <2>2, FailureMoves
<1> QED BY <1>1, <1>2

\* A queue event leaves the mailbox alone.
LEMMA QueueEventMails ==
  ASSUME ContentsInv, MailFits(mailbox, turns[Thread]), NEW e, e.type \in QueueEvents, Publish(<<e>>)
  PROVE  MailFits(mailbox', turns[Thread]) /\ Later(mailbox, mailbox', turns[Thread])
<1> DEFINE events == <<e>>
           m == turns[Thread]
<1>1. events \in Seq({e}) /\ Distinct(events) /\ \A k \in DOMAIN events : events[k] = e
  BY OneEvent
<1>2. m \in Nat /\ m <= m
  BY DocFacts
<1>3. ~IsRequest(e) /\ e.type \notin Reacted
  BY DEF IsRequest, Reacted, QueueEvents
<1> HIDE DEF events, m
<1>4. MailFits(mailbox \o ReactedOf(events), m) /\ Later(mailbox, mailbox \o ReactedOf(events), m)
  BY <1>1, <1>2, <1>3, PublishesQuietly DEF m
<1> QED BY <1>4 DEF Publish, events, m

\* The head of the queue is taken off it.
LEMMA DrainMoves ==
  ASSUME ContentsInv, MailFits(mailbox, turns[Thread]), Live(doc), doc.status # "archived", doc.turn = 0,
         doc.queue # <<>>, AppendEvents(<<Dequeued(Head(doc.queue))>>)
  PROVE  /\ EngineMoves /\ Head(doc.queue) \in 1..messages[Thread]
         /\ ~Holds(doc'.queue, Head(doc.queue)) /\ turns' = turns /\ messages' = messages
<1> DEFINE head == Head(doc.queue)
           q == messages[Thread]
           e == Dequeued(head)
<1>1. AppendThreadEvents(Thread, <<e>>) /\ requests' = requests /\ Publish(<<e>>)
  BY DEF AppendEvents
<1>2. /\ turns' = turns /\ messages' = messages
      /\ docs' = [docs EXCEPT ![Thread] = ApplyAll(doc, <<e>>)]
  BY <1>1 DEF AppendThreadEvents, Commit, doc
<1>3. doc.queue \in Seq(1..q) /\ Distinct(doc.queue) /\ Shaped(doc) /\ Thread \in Threads /\ q \in Nat
  BY DocFacts DEF QueueFits
<1>4. [Next]_vars
  <2>1. DrainHead(Thread)
    BY <1>1 DEF DrainHead, doc
  <2> QED BY <1>3, <2>1 DEF Next, ServerStep
<1>5. head \in 1..q /\ Holds(doc.queue, head)
  <2>1. Len(doc.queue) \in Nat /\ Len(doc.queue) # 0 /\ DOMAIN doc.queue = 1..Len(doc.queue)
        /\ head = doc.queue[1]
    BY <1>3
  <2>2. 1 \in DOMAIN doc.queue
    BY <2>1
  <2>3. \A T, s, k : s \in Seq(T) /\ k \in DOMAIN s => s[k] \in T
    OBVIOUS
  <2> HIDE DEF head, q
  <2>4. head \in 1..q
    BY <1>3, <2>1, <2>2, <2>3
  <2> QED BY <2>1, <2>2, <2>4 DEF Holds
<1>6. doc'.queue = Without(doc.queue, head)
  <2>1. doc' = Apply(doc, e)
    <3>1. ApplyAll(doc, <<e>>) = Apply(doc, e)
      BY ApplyOne
    <3> QED BY <1>2, <3>1, DocFacts
  <2>2. doc.life # "none"
    BY DEF Live
  <2> QED BY <1>3, <2>1, <2>2, QueueChanges
<1> HIDE DEF head
<1>7. ~Holds(Without(doc.queue, head), head)
  BY <1>3, <1>5, WithoutIsShorter
<1>8. QueueMoves(doc.queue, Without(doc.queue, head), q)
  BY Requeues, DocFacts
<1>9. MailFits(mailbox', turns[Thread]) /\ Later(mailbox, mailbox', turns[Thread])
  <2>1. e.type \in QueueEvents
    BY DEF Dequeued, QueueEvents
  <2> HIDE DEF e
  <2> QED BY <1>1, <2>1, QueueEventMails
<1> QED BY <1>2, <1>4, <1>5, <1>6, <1>7, <1>8, <1>9 DEF EngineMoves, head

\* A message not on the queue joins it at its end.
LEMMA Joins ==
  ASSUME ContentsInv, NEW id, Live(doc), docs' = [docs EXCEPT ![Thread] = ApplyAll(doc, <<Queued(id)>>)]
  PROVE  Len(doc'.queue) = Len(doc.queue) + 1
<1>1. doc' = Apply(doc, Queued(id))
  <2>1. ApplyAll(doc, <<Queued(id)>>) = Apply(doc, Queued(id))
    BY ApplyOne
  <2> QED BY <2>1, DocFacts
<1>2. doc'.queue = Append(doc.queue, id)
  BY <1>1, DocFacts, QueueChanges DEF Live
<1>3. doc.queue \in Seq(1..messages[Thread])
  BY DocFacts DEF QueueFits
<1> QED BY <1>2, <1>3

----------------------------------------------------------------------------
(* Sessions.                                                               *)

LEMMA OutGrows ==
  ASSUME NEW out \in Seq(HarnessEvents), NEW e \in HarnessEvents
  PROVE  /\ Append(out, e) \in Seq(HarnessEvents)
         /\ \A k \in DOMAIN out : k \in DOMAIN Append(out, e) /\ Append(out, e)[k] = out[k]
         /\ \E last \in DOMAIN Append(out, e) :
              /\ last \notin DOMAIN out /\ Append(out, e)[last] = e
              /\ \A k \in DOMAIN Append(out, e) : k = last \/ (k \in DOMAIN out /\ Append(out, e)[k] = out[k])
<1> DEFINE new == Append(out, e)
<1>1. /\ new \in Seq(HarnessEvents) /\ Len(new) = Len(out) + 1 /\ Len(out) \in Nat
      /\ \A i \in 1..Len(out) : new[i] = out[i]
      /\ new[Len(out) + 1] = e
  BY AppendProperties
<1>2. DOMAIN out = 1..Len(out) /\ DOMAIN new = 1..Len(new)
  BY <1>1
<1> HIDE DEF new
<1>3. \A k \in DOMAIN out : k \in DOMAIN new /\ new[k] = out[k]
  BY <1>1, <1>2
<1>4. Len(out) + 1 \in DOMAIN new /\ Len(out) + 1 \notin DOMAIN out
  BY <1>1, <1>2
<1>5. \A k \in DOMAIN new : k = Len(out) + 1 \/ (k \in DOMAIN out /\ new[k] = out[k])
  BY <1>1, <1>2
<1> QED BY <1>1, <1>3, <1>4, <1>5 DEF new

LEMMA OutShrinks ==
  ASSUME NEW out \in Seq(HarnessEvents), out # <<>>
  PROVE  /\ Head(out) \in HarnessEvents /\ Tail(out) \in Seq(HarnessEvents)
         /\ \E one \in DOMAIN out :
              /\ out[one] = Head(out)
              /\ \A k \in DOMAIN Tail(out) : k + 1 \in DOMAIN out /\ k + 1 # one /\ Tail(out)[k] = out[k + 1]
         /\ \A j, k \in DOMAIN Tail(out) : j + 1 = k + 1 => j = k
<1> DEFINE rest == Tail(out)
<1>1. /\ rest \in Seq(HarnessEvents) /\ Len(rest) = Len(out) - 1 /\ Len(out) \in Nat /\ Len(out) # 0
      /\ \A i \in 1..Len(rest) : rest[i] = out[i + 1]
      /\ Head(out) \in HarnessEvents /\ Head(out) = out[1]
  BY HeadTailProperties
<1>2. DOMAIN out = 1..Len(out) /\ DOMAIN rest = 1..Len(rest)
  BY <1>1
<1> HIDE DEF rest
<1>3. \A k \in DOMAIN rest : k + 1 \in DOMAIN out /\ k + 1 # 1 /\ rest[k] = out[k + 1]
  BY <1>1, <1>2
<1>4. 1 \in DOMAIN out
  BY <1>1, <1>2
<1>5. \A j, k \in DOMAIN rest : j + 1 = k + 1 => j = k
  BY <1>1, <1>2
<1> QED BY <1>1, <1>3, <1>4, <1>5 DEF rest

\* What the reactor, delivering a turn through a session, may still rely on.
Undisturbed(x, y) ==
  y.up => x.up /\ (Quiet(x) /\ ~x.busy => Quiet(y) /\ ~y.busy /\ y.handle.active = x.handle.active)

\* One session moves on, and the reactor stays where it is.
SessionMoves(x, y, m) == y \in Session(m) /\ Tracked(y) /\ y.got \in {0, x.got}

LEMMA SessionMoved ==
  ASSUME NEW sess, NEW m \in Nat, SessionsFit(sess, m), NEW s \in Slots, NEW y \in Session(m), Tracked(y)
  PROVE  SessionsFit([sess EXCEPT ![s] = y], m)
BY DEF SessionsFit

LEMMA ReactorSees ==
  ASSUME NEW r, NEW sess, NEW mail, NEW queue, NEW m \in Nat, NEW q,
         ReactorFits(r, sess, mail, queue, m, q), SessionsFit(sess, m), NEW s \in Slots, NEW y,
         SessionMoves(sess[s], y, m), r.session = s => Undisturbed(sess[s], y)
  PROVE  ReactorFits(r, [sess EXCEPT ![s] = y], mail, queue, m, q)
<1> DEFINE sess1 == [sess EXCEPT ![s] = y]
<1>1. r \in [pc : Pcs, turn : 0..m, seen : 0..m, session : Slots \cup {0}, message : 0..q]
  BY DEF ReactorFits
<1>2. /\ sess1[s] = y /\ \A t \in Slots : t # s => sess1[t] = sess[t]
      /\ \A t \in Slots : sess[t].got \in 0..m
  BY DEF SessionsFit, Session
<1> HIDE DEF sess1
<1>3. ASSUME r.pc \in {"sending", "resending"}, sess1[r.session].up
      PROVE  Quiet(sess1[r.session]) /\ ~sess1[r.session].busy /\ sess1[r.session].handle.active = r.turn
  <2>1. r.session \in Slots
    BY <1>3 DEF ReactorFits, Resending
  <2> QED BY <1>2, <1>3, <2>1 DEF ReactorFits, Undisturbed
<1>4. ASSUME r.pc \in Resending, NEW t \in Slots
      PROVE  sess1[t].got <= r.turn
  <2>1. sess[t].got <= r.turn /\ sess[s].got <= r.turn /\ 0 <= r.turn
    BY <1>1, <1>4 DEF ReactorFits
  <2> QED BY <1>2, <2>1 DEF SessionMoves
<1> QED BY <1>1, <1>3, <1>4 DEF ReactorFits, sess1

\* The harness finishes, fails or exits.
LEMMA HarnessMoves ==
  ASSUME NEW m \in Nat, NEW x \in Session(m), Tracked(x), NEW y,
         \/ x.up /\ x.busy /\ y = [x EXCEPT !.out = Append(@, "turn.completed"), !.busy = FALSE]
         \/ x.up /\ x.busy /\ y = [x EXCEPT !.out = Append(@, "runtime.error"), !.busy = FALSE]
         \/ \E last \in {<<"end">>, <<"runtime.error", "end">>} :
              y = [x EXCEPT !.out = @ \o last, !.busy = FALSE, !.up = FALSE]
  PROVE  SessionMoves(x, y, m) /\ Undisturbed(x, y)
<1>0. x.out \in Seq(HarnessEvents)
  BY DEF Session
<1>1. ASSUME NEW e \in {"turn.completed", "runtime.error"}, x.up, x.busy,
             y = [x EXCEPT !.out = Append(@, e), !.busy = FALSE]
      PROVE  SessionMoves(x, y, m) /\ Undisturbed(x, y)
  <2> DEFINE out == Append(x.out, e)
  <2>1. e \in HarnessEvents /\ e \in Settling /\ e \notin {"session.ended", "end"}
    BY DEF HarnessEvents, Settling
  <2>2. out \in Seq(HarnessEvents)
    BY <1>0, <2>1, OutGrows
  <2>3. PICK last \in DOMAIN out :
          out[last] = e /\ \A k \in DOMAIN out : k = last \/ (k \in DOMAIN x.out /\ out[k] = x.out[k])
    BY <1>0, <2>1, OutGrows
  <2>4. y = [x EXCEPT !.out = out, !.busy = FALSE]
    BY <1>1
  <2> HIDE DEF out
  <2>5. /\ y.out = out /\ ~y.busy /\ y.up = x.up /\ y.handle = x.handle /\ y.got = x.got /\ y \in Session(m)
    BY <2>2, <2>4 DEF Session
  <2>6. Quiet(x) /\ x.handle.active # 0 /\ ~x.handle.finished
    BY <1>1 DEF Tracked
  <2>7. \A k \in DOMAIN out : out[k] \in Settling => k = last
    BY <2>3, <2>6 DEF Quiet
  <2>8. \A k \in DOMAIN out : out[k] \notin {"session.ended", "end"}
    BY <1>1, <2>1, <2>3 DEF Tracked
  <2>9. Tracked(y)
    BY <2>5, <2>6, <2>7, <2>8 DEF Tracked
  <2> QED BY <1>1, <2>5, <2>9 DEF SessionMoves, Undisturbed
<1>2. ASSUME NEW last \in {<<"end">>, <<"runtime.error", "end">>},
             y = [x EXCEPT !.out = @ \o last, !.busy = FALSE, !.up = FALSE]
      PROVE  SessionMoves(x, y, m) /\ Undisturbed(x, y)
  <2>1. last \in Seq(HarnessEvents)
    <3>1. \A a, b \in HarnessEvents : <<a>> \in Seq(HarnessEvents) /\ <<a, b>> \in Seq(HarnessEvents)
      OBVIOUS
    <3>2. "end" \in HarnessEvents /\ "runtime.error" \in HarnessEvents
      BY DEF HarnessEvents
    <3> QED BY <3>1, <3>2, Zenon
  <2>2. x.out \o last \in Seq(HarnessEvents)
    BY <1>0, <2>1, ConcatProperties
  <2> DEFINE out == x.out \o last
  <2>3. y = [x EXCEPT !.out = out, !.busy = FALSE, !.up = FALSE] /\ out \in Seq(HarnessEvents)
    BY <1>2, <2>2
  <2> HIDE DEF out
  <2>4. y \in Session(m) /\ ~y.busy /\ ~y.up /\ y.got = x.got
    BY <2>3 DEF Session
  <2> QED BY <2>4 DEF SessionMoves, Undisturbed, Tracked
<1> QED BY <1>1, <1>2

\* What the handle hands on for one harness event, and what of it is logged.
LEMMA LoggedTurns ==
  ASSUME NEW m \in Nat, NEW h \in [active : 0..m, finished : BOOLEAN], NEW e \in HarnessEvents
  PROVE  /\ Logged(FinalEmissions(h)) \in Seq(HandedOn(m)) /\ Logged(Emissions(h, e)) \in Seq(HandedOn(m))
<1> DEFINE S == HandedOn(m)
<1>1. h.active \in 0..m /\ 0 \in 0..m /\ "turn.completed" \in HarnessEvents
  BY DEF HarnessEvents
<1>2. Stamped(e, 0) \in S /\ Stamped(e, h.active) \in S /\ Stamped("turn.completed", h.active) \in S
  BY <1>1 DEF Stamped, HandedOn
<1>3. \A a, b \in S : <<a>> \in Seq(S) /\ <<a, b>> \in Seq(S)
  OBVIOUS
<1>4. <<>> \in Seq(S)
  OBVIOUS
<1> HIDE DEF S
<1>5. FinalEmissions(h) \in Seq(S)
  BY <1>2, <1>3, <1>4, Zenon DEF FinalEmissions
<1>6. Emissions(h, e) \in Seq(S)
  <2>1. Emissions(h, e) \in {<<Stamped(e, 0)>>, <<Stamped(e, h.active), Stamped("turn.completed", h.active)>>,
                             <<Stamped("turn.completed", h.active), Stamped(e, 0)>>, <<Stamped(e, h.active)>>}
    BY DEF Emissions
  <2> QED BY <1>2, <1>3, <2>1, Zenon
<1>7. ASSUME NEW s \in Seq(S) PROVE Logged(s) \in Seq(S)
  <2> DEFINE places == {k \in DOMAIN s : Translated(s[k]) # <<>>}
  <2>1. places \in SUBSET (DOMAIN s) /\ Logged(s) = Keeping(s, places)
    BY DEF Logged
  <2> HIDE DEF places
  <2> QED BY <2>1, KeepingHolds
<1> QED BY <1>5, <1>6, <1>7 DEF S

\* The ingestion reads one event.
LEMMA IngestMoves ==
  ASSUME NEW m \in Nat, NEW x \in Session(m), Tracked(x), x.out # <<>>, NEW y,
         y = [x EXCEPT !.out = Tail(@),
                       !.pending = Logged(IF Head(x.out) = "end" THEN FinalEmissions(x.handle)
                                          ELSE Emissions(x.handle, Head(x.out))),
                       !.handle = IF Head(x.out) = "end" THEN Finalized(x.handle)
                                  ELSE Normalized(x.handle, Head(x.out)),
                       !.why = IF Head(x.out) = "session.ended" THEN "stopped" ELSE @]
  PROVE  SessionMoves(x, y, m) /\ Undisturbed(x, y)
<1> DEFINE e == Head(x.out)
           rest == Tail(x.out)
           h1 == IF e = "end" THEN Finalized(x.handle) ELSE Normalized(x.handle, e)
           pending1 == Logged(IF e = "end" THEN FinalEmissions(x.handle) ELSE Emissions(x.handle, e))
           why1 == IF e = "session.ended" THEN "stopped" ELSE x.why
<1>0. x.out \in Seq(HarnessEvents) /\ x.handle \in [active : 0..m, finished : BOOLEAN]
      /\ x.why \in {"crashed", "stopped"}
  BY DEF Session
<1>1. e \in HarnessEvents /\ rest \in Seq(HarnessEvents)
  BY <1>0, OutShrinks
<1>2. PICK one \in DOMAIN x.out :
        /\ x.out[one] = e
        /\ \A k \in DOMAIN rest : k + 1 \in DOMAIN x.out /\ k + 1 # one /\ rest[k] = x.out[k + 1]
  BY <1>0, OutShrinks
<1>3. \A j, k \in DOMAIN rest : j + 1 = k + 1 => j = k
  BY <1>0, OutShrinks
<1>4. y = [x EXCEPT !.out = rest, !.pending = pending1, !.handle = h1, !.why = why1]
  OBVIOUS
<1>5. pending1 \in Seq(HandedOn(m))
  BY <1>0, <1>1, LoggedTurns
<1>6. h1 \in [active : 0..m, finished : BOOLEAN]
  BY <1>0 DEF Finalized, Normalized
<1>7. why1 \in {"crashed", "stopped"}
  BY <1>0
<1>8. /\ e \notin Settling \cup {"end"} => h1 = x.handle
      /\ e # "end" => h1.finished = x.handle.finished
  BY <1>0 DEF Normalized
<1> HIDE DEF e, rest, h1, pending1, why1
<1>9. /\ y \in Session(m) /\ y.out = rest /\ y.handle = h1 /\ y.up = x.up /\ y.busy = x.busy /\ y.got = x.got
  BY <1>1, <1>4, <1>5, <1>6, <1>7 DEF Session
<1>10. CASE ~x.up
  BY <1>9, <1>10 DEF SessionMoves, Undisturbed, Tracked
<1>11. CASE x.up
  <2>1. e \notin {"session.ended", "end"} /\ ~h1.finished
    BY <1>2, <1>8, <1>11 DEF Tracked
  <2>2. \A k \in DOMAIN rest : rest[k] \notin {"session.ended", "end"}
    BY <1>2, <1>11 DEF Tracked
  <2>3. \A j, k \in DOMAIN rest : rest[j] \in Settling /\ rest[k] \in Settling => j = k
    BY <1>2, <1>3, <1>11 DEF Tracked
  <2>4. Quiet(x) => Quiet(y) /\ h1 = x.handle
    BY <1>2, <1>8, <1>9, <2>1 DEF Quiet
  <2>5. ASSUME ~Quiet(y) PROVE h1.active # 0
    <3>1. PICK k \in DOMAIN rest : rest[k] \in Settling
      BY <1>9, <2>5 DEF Quiet
    <3>2. e \notin Settling
      BY <1>2, <1>11, <3>1 DEF Tracked
    <3>3. x.handle.active # 0
      BY <1>2, <1>11, <3>1 DEF Tracked, Quiet
    <3> QED BY <1>8, <2>1, <3>2, <3>3
  <2>6. Tracked(y)
    BY <1>9, <1>11, <2>1, <2>2, <2>3, <2>4, <2>5 DEF Tracked
  <2> QED BY <1>9, <2>4, <2>6 DEF SessionMoves, Undisturbed
<1> QED BY <1>10, <1>11

LEMMA FreeFits ==
  ASSUME NEW m \in Nat
  PROVE  /\ Free \in Session(m) /\ ~Free.up /\ ~Free.busy /\ Free.got = 0
         /\ Free.handle = NewHandle /\ NewHandle.active = 0 /\ ~NewHandle.finished
<1>1. <<>> \in Seq(HandedOn(m)) /\ <<>> \in Seq(HarnessEvents) /\ 0 \in 0..m
  OBVIOUS
<1>2. NewHandle \in [active : 0..m, finished : BOOLEAN] /\ NewHandle.active = 0 /\ ~NewHandle.finished
  BY <1>1 DEF NewHandle
<1>3. Free \in Session(m)
  BY <1>1, <1>2 DEF Free, Session
<1> QED BY <1>2, <1>3 DEF Free

\* The ingestion has appended what it read, or has ended.
LEMMA AppendedMoves ==
  ASSUME NEW m \in Nat, NEW x \in Session(m), Tracked(x), NEW y,
         \/ x.pending # <<>> /\ y = [x EXCEPT !.pending = Tail(@)]
         \/ y = [Free EXCEPT !.handle = x.handle]
         \/ y = Free
  PROVE  SessionMoves(x, y, m) /\ Undisturbed(x, y)
<1>0. x.pending \in Seq(HandedOn(m)) /\ x.handle \in [active : 0..m, finished : BOOLEAN] /\ x.got \in 0..m
  BY DEF Session
<1>1. CASE x.pending # <<>> /\ y = [x EXCEPT !.pending = Tail(@)]
  <2>1. Tail(x.pending) \in Seq(HandedOn(m))
    BY <1>0, <1>1, HeadTailProperties
  <2>2. /\ y \in Session(m) /\ y.out = x.out /\ y.handle = x.handle /\ y.up = x.up /\ y.busy = x.busy
        /\ y.got = x.got
    BY <1>1, <2>1 DEF Session
  <2>3. Tracked(y) /\ (Quiet(x) => Quiet(y))
    BY <2>2 DEF Tracked, Quiet
  <2> QED BY <2>2, <2>3 DEF SessionMoves, Undisturbed
<1>2. ASSUME NEW h \in [active : 0..m, finished : BOOLEAN], y = [Free EXCEPT !.handle = h]
      PROVE  SessionMoves(x, y, m) /\ Undisturbed(x, y)
  <2>1. <<>> \in Seq(HandedOn(m)) /\ <<>> \in Seq(HarnessEvents) /\ 0 \in 0..m
    OBVIOUS
  <2>2. y \in Session(m) /\ ~y.up /\ ~y.busy /\ y.got = 0
    BY <1>2, <2>1 DEF Free, Session
  <2> QED BY <2>2 DEF SessionMoves, Undisturbed, Tracked
<1>3. CASE y = Free
  BY <1>3, FreeFits DEF SessionMoves, Undisturbed, Tracked
<1> QED BY <1>0, <1>1, <1>2, <1>3

\* A session is started.
LEMMA StartedMoves ==
  ASSUME NEW m \in Nat, NEW x
  PROVE  SessionMoves(x, Started, m)
<1> DEFINE out == <<"session.started">>
<1>1. out \in Seq(HarnessEvents) /\ \A k \in DOMAIN out : out[k] = "session.started"
  <2>1. \A a \in HarnessEvents : <<a>> \in Seq(HarnessEvents)
    OBVIOUS
  <2>2. "session.started" \in HarnessEvents
    BY DEF HarnessEvents
  <2> QED BY <2>1, <2>2, OneEvent
<1>2. "session.started" \notin Settling \cup {"session.ended", "end"}
  BY DEF Settling
<1>3. Started = [Free EXCEPT !.up = TRUE, !.open = TRUE, !.alive = TRUE, !.out = out]
  BY DEF Started
<1> HIDE DEF out
<1>4. /\ Started \in Session(m) /\ Started.out = out /\ Started.up /\ ~Started.busy /\ Started.got = 0
      /\ Started.handle = Free.handle
  BY <1>1, <1>3, FreeFits DEF Session
<1>5. Tracked(Started)
  BY <1>1, <1>2, <1>4, FreeFits DEF Tracked, Quiet
<1> QED BY <1>4, <1>5 DEF SessionMoves

\* The session the reactor delivers turn k to expects it.
Ready(y, k) == y.up => Quiet(y) /\ ~y.busy /\ y.handle.active = k

\* The handle takes a turn to send.
LEMMA HandleTakes ==
  ASSUME NEW m \in Nat, NEW x \in Session(m), Tracked(x), NEW k \in 1..m, NEW y,
         x.handle.active = 0, ~x.handle.finished, y = [x EXCEPT !.handle = Activated(@, k)]
  PROVE  SessionMoves(x, y, m) /\ Ready(y, k)
<1> DEFINE h == Activated(x.handle, k)
<1>1. x.handle \in [active : 0..m, finished : BOOLEAN] /\ k \in 0..m
  BY DEF Session
<1>2. h \in [active : 0..m, finished : BOOLEAN] /\ h.finished = x.handle.finished /\ h.active = k
  BY <1>1 DEF Activated
<1>3. y = [x EXCEPT !.handle = h]
  OBVIOUS
<1> HIDE DEF h
<1>4. /\ y \in Session(m) /\ y.handle = h /\ y.out = x.out /\ y.up = x.up /\ y.busy = x.busy
      /\ y.got = x.got /\ (Quiet(x) => Quiet(y))
  BY <1>2, <1>3 DEF Session, Quiet
<1>5. ~x.busy /\ (x.up => Quiet(x))
  BY DEF Tracked
<1>6. Tracked(y)
  BY <1>2, <1>4, <1>5 DEF Tracked
<1> QED BY <1>2, <1>4, <1>5, <1>6 DEF SessionMoves, Ready

\* It gives up a turn the harness refused.
LEMMA HandleAbandons ==
  ASSUME NEW m \in Nat, NEW x \in Session(m), Tracked(x), NEW k \in 1..m, NEW y,
         x.up => Quiet(x) /\ ~x.busy, y = [x EXCEPT !.handle = AbandonTurn(@, k)]
  PROVE  SessionMoves(x, y, m)
<1> DEFINE h == AbandonTurn(x.handle, k)
<1>1. x.handle \in [active : 0..m, finished : BOOLEAN] /\ 0 \in 0..m
  BY DEF Session
<1>2. h \in [active : 0..m, finished : BOOLEAN] /\ h.finished = x.handle.finished
  BY <1>1 DEF AbandonTurn
<1>3. y = [x EXCEPT !.handle = h]
  OBVIOUS
<1> HIDE DEF h
<1>4. /\ y \in Session(m) /\ y.handle = h /\ y.out = x.out /\ y.up = x.up /\ y.busy = x.busy
      /\ y.got = x.got /\ (Quiet(x) => Quiet(y))
  BY <1>2, <1>3 DEF Session, Quiet
<1>5. ~x.busy
  BY DEF Tracked
<1>6. Tracked(y)
  BY <1>2, <1>4, <1>5 DEF Tracked
<1> QED BY <1>4, <1>6 DEF SessionMoves

\* The harness is given the turn its handle tracks, and works on it.
LEMMA DeliveryMoves ==
  ASSUME NEW m \in Nat, NEW x \in Session(m), Tracked(x), NEW k \in 1..m, NEW y,
         x.up, Quiet(x), ~x.busy, x.handle.active = k,
         y = [x EXCEPT !.got = k, !.busy = TRUE, !.out = Append(@, "turn.started")]
  PROVE  y \in Session(m) /\ Tracked(y) /\ y.got = k
<1> DEFINE e == "turn.started"
           out == Append(x.out, e)
<1>0. x.out \in Seq(HarnessEvents) /\ k \in 0..m /\ k # 0
  BY DEF Session
<1>1. e \in HarnessEvents /\ e \notin Settling /\ e \notin {"session.ended", "end"}
  BY DEF HarnessEvents, Settling
<1>2. out \in Seq(HarnessEvents)
  BY <1>0, <1>1, OutGrows
<1>3. \A i \in DOMAIN out : out[i] = e \/ (i \in DOMAIN x.out /\ out[i] = x.out[i])
  BY <1>0, <1>1, OutGrows
<1>4. y = [x EXCEPT !.got = k, !.busy = TRUE, !.out = out]
  OBVIOUS
<1> HIDE DEF out, e
<1>5. /\ y.out = out /\ y.busy /\ y.up = x.up /\ y.handle = x.handle /\ y.got = k /\ y \in Session(m)
  BY <1>0, <1>2, <1>4 DEF Session
<1>6. Quiet(y) /\ \A i \in DOMAIN out : out[i] \notin {"session.ended", "end"}
  BY <1>1, <1>3, <1>5 DEF Quiet, Tracked
<1>7. Tracked(y)
  BY <1>0, <1>5, <1>6 DEF Tracked, Quiet
<1> QED BY <1>5, <1>7

\* A session is told to close.
LEMMA ClosingMoves ==
  ASSUME NEW m \in Nat, NEW x \in Session(m), NEW y,
         y = [x EXCEPT !.alive = FALSE, !.up = FALSE, !.busy = FALSE,
                       !.out = IF x.up THEN @ \o <<"session.ended", "end">> ELSE @]
  PROVE  SessionMoves(x, y, m)
<1> DEFINE out == IF x.up THEN x.out \o <<"session.ended", "end">> ELSE x.out
<1>1. out \in Seq(HarnessEvents)
  <2>1. \A a, b \in HarnessEvents : <<a, b>> \in Seq(HarnessEvents)
    OBVIOUS
  <2>2. "end" \in HarnessEvents /\ "session.ended" \in HarnessEvents
    BY DEF HarnessEvents
  <2>3. <<"session.ended", "end">> \in Seq(HarnessEvents)
    BY <2>1, <2>2, Zenon
  <2>4. x.out \in Seq(HarnessEvents)
    BY DEF Session
  <2>5. x.out \o <<"session.ended", "end">> \in Seq(HarnessEvents)
    BY <2>3, <2>4, ConcatProperties
  <2> QED BY <2>4, <2>5, Zenon
<1>2. y = [x EXCEPT !.alive = FALSE, !.up = FALSE, !.busy = FALSE, !.out = out]
  OBVIOUS
<1> HIDE DEF out
<1>3. y \in Session(m) /\ ~y.up /\ ~y.busy /\ y.got = x.got
  BY <1>1, <1>2 DEF Session
<1> QED BY <1>3 DEF SessionMoves, Tracked

----------------------------------------------------------------------------
(* Each step keeps the invariant, and is a step of the engine.             *)

StepFits == OInv' /\ [Next]_vars

LEMMA Facts ==
  ASSUME OInv
  PROVE  /\ ContentsInv /\ turns[Thread] \in Nat /\ messages[Thread] \in Nat /\ 0 \notin Slots
         /\ MailFits(mailbox, turns[Thread]) /\ SessionsFit(sessions, turns[Thread])
         /\ driver \in Slots \cup {0}
         /\ ReactorFits(reactor, sessions, mailbox, doc.queue, turns[Thread], messages[Thread])
         /\ reactor \in [pc : Pcs, turn : 0..turns[Thread], seen : 0..turns[Thread],
                         session : Slots \cup {0}, message : 0..messages[Thread]]
         /\ \A s \in Slots : sessions[s] \in Session(turns[Thread]) /\ Tracked(sessions[s])
BY DocFacts, OrchestrationAssumption DEF OInv, DriverFits, SessionsFit, ReactorFits, OrchestrationAssumption

\* A step that appends.
LEMMA MovesKeep ==
  ASSUME OInv, EngineMoves, SessionsFit(sessions', turns[Thread]), driver' \in Slots \cup {0},
         ReactorFits(reactor', sessions', mailbox, doc.queue, turns[Thread], messages[Thread])
  PROVE  StepFits
<1> DEFINE m == turns[Thread]
           m1 == turns'[Thread]
           q == messages[Thread]
           q1 == messages'[Thread]
<1>1. ContentsInv' /\ Thread \in Threads /\ m \in Nat /\ q \in Nat
  BY Facts, DocFacts, NextKeepsContents DEF EngineMoves
<1>2. m1 \in Nat /\ q1 \in Nat
  BY <1>1 DEF ContentsInv
<1>3. m <= m1 /\ q <= q1
  BY <1>1, Facts, NextMints DEF EngineMoves
<1> HIDE DEF m, m1, q, q1
<1>4. SessionsFit(sessions', m1)
  BY <1>1, <1>2, <1>3, SessionLater DEF m
<1>5. ReactorFits(reactor', sessions', mailbox', doc'.queue, m1, q1)
  BY <1>1, <1>2, <1>3, ReactorLater DEF EngineMoves, m, m1, q
<1> QED BY <1>1, <1>4, <1>5 DEF StepFits, OInv, DriverFits, EngineMoves, m1, q1

\* A step that appends nothing, and may take an event of the mailbox.
LEMMA StillKeeps ==
  ASSUME OInv, UNCHANGED vars, MailFits(mailbox', turns[Thread]), SessionsFit(sessions', turns[Thread]),
         driver' \in Slots \cup {0},
         ReactorFits(reactor', sessions', mailbox', doc.queue, turns[Thread], messages[Thread])
  PROVE  StepFits
<1>1. turns' = turns /\ messages' = messages /\ doc' = doc /\ ContentsInv'
  BY NextKeepsContents DEF OInv, vars, doc
<1> QED BY <1>1 DEF StepFits, OInv, DriverFits

\* Where the reactor has nothing to keep, and where it has a turn to see settled.
LEMMA Plainly ==
  ASSUME NEW sess, NEW mail, NEW queue, NEW m \in Nat, NEW q \in Nat,
         NEW r \in [pc : Pcs, turn : 0..m, seen : 0..m, session : Slots \cup {0}, message : 0..q],
         \/ r.pc \in {"idle", "fail", "drain", "close"}
         \/ r.pc = "requeueSteer" /\ r.message = 0
         \/ r.pc = "settle" /\ r.turn # 0
         \/ r.pc = "await" /\ r.turn # 0 /\ r.session \in Slots
         \/ r.pc = "closing" /\ r.session \in Slots
         \/ r.pc \in {"dispatch", "requeue"} /\ (r.message # 0 => ~Holds(queue, r.message))
  PROVE  ReactorFits(r, sess, mail, queue, m, q)
BY DEF ReactorFits, Requesting, Resending

LEMMA Rests ==
  ASSUME NEW sess, NEW mail, NEW queue, NEW m \in Nat, NEW q \in Nat
  PROVE  ReactorFits(Resting, sess, mail, queue, m, q)
<1>1. 0 \in 0..m /\ 0 \in 0..q /\ "idle" \in Pcs
  BY DEF Pcs
<1>2. Resting \in [pc : Pcs, turn : 0..m, seen : 0..m, session : Slots \cup {0}, message : 0..q]
  BY <1>1 DEF Resting
<1>3. Resting.pc = "idle"
  BY DEF Resting
<1> QED BY <1>2, <1>3, Plainly

----------------------------------------------------------------------------
(* The reactor takes an event.                                             *)

LEMMA Reading ==
  ASSUME OInv, NEW type, NEW next, Becomes(type, next),
         ReactorFits(next, sessions, Tail(mailbox), doc.queue, turns[Thread], messages[Thread])
  PROVE  StepFits
<1>1. /\ mailbox # <<>> /\ mailbox' = Tail(mailbox) /\ reactor' = next
      /\ UNCHANGED vars /\ sessions' = sessions /\ driver' = driver
  BY DEF Becomes, Takes
<1>2. MailFits(Tail(mailbox), turns[Thread])
  BY <1>1, Facts, TakesOldest
<1> QED BY <1>1, <1>2, Facts, StillKeeps

LEMMA RequestFits == ASSUME OInv, ReactToRequest PROVE StepFits
<1> DEFINE m == turns[Thread]
           q == messages[Thread]
           head == Head(mailbox)
           rest == Tail(mailbox)
           next == IF Live(doc) THEN [Resting EXCEPT !.pc = "ensure", !.turn = head.turn, !.seen = doc.turn]
                                ELSE Resting
<1>1. Becomes("thread.turn.requested", next) /\ mailbox # <<>> /\ IsRequest(head)
  BY DEF ReactToRequest, Reacts, Becomes, Takes, IsRequest
<1>2. m \in Nat /\ q \in Nat /\ doc.turn \in {0, m}
  BY Facts, DocFacts
<1>3. /\ head \in Mail(m)
      /\ \A k \in DOMAIN rest : IsRequest(head) /\ IsRequest(rest[k]) => head.turn < rest[k].turn
  BY <1>1, Facts, TakesOldest
<1>4. head.turn \in 1..m
  BY <1>1, <1>2, <1>3, MailTurns
<1> HIDE DEF head, rest, m, q
<1>5. ReactorFits(next, sessions, rest, doc.queue, m, q)
  <2>1. CASE ~Live(doc)
    BY <1>2, <2>1, Rests
  <2>2. CASE Live(doc)
    <3>1. 0 \in 0..q /\ doc.turn \in 0..m /\ head.turn \in 0..m /\ head.turn # 0 /\ "ensure" \in Pcs
      BY <1>2, <1>4 DEF Pcs
    <3>2. next \in [pc : Pcs, turn : 0..m, seen : 0..m, session : Slots \cup {0}, message : 0..q]
      BY <2>2, <3>1 DEF Resting
    <3>3. next.pc = "ensure" /\ next.turn = head.turn
      BY <2>2 DEF Resting
    <3> HIDE DEF next
    <3> QED BY <1>1, <1>3, <3>1, <3>2, <3>3 DEF ReactorFits, Requesting, Resending
  <2> QED BY <2>1, <2>2
<1> QED BY <1>1, <1>5, Reading DEF m, q, rest

LEMMA BoundFits == ASSUME OInv, ReactToBound PROVE StepFits
<1> DEFINE m == turns[Thread]
           q == messages[Thread]
           rest == Tail(mailbox)
           resend == [Resting EXCEPT !.pc = "resend", !.turn = doc.turn, !.session = HandleFor]
           next == IF Live(doc) /\ HandleFor # 0 /\ doc.turn # 0 THEN resend ELSE Resting
<1>1. Becomes("thread.session.bound", next)
  BY DEF ReactToBound, Reacts
<1>2. m \in Nat /\ q \in Nat /\ doc.turn \in {0, m} /\ HandleFor \in Slots \cup {0}
      /\ \A s \in Slots : sessions[s].got \in 0..m
  BY Facts, DocFacts DEF HandleFor, Session
<1> HIDE DEF m, q, rest
<1>3. ASSUME HandleFor # 0, doc.turn # 0
      PROVE  ReactorFits(resend, sessions, rest, doc.queue, m, q)
  <2>1. doc.turn = m /\ doc.turn \in 0..m /\ HandleFor \in Slots /\ "resend" \in Pcs
    BY <1>2, <1>3 DEF Pcs
  <2>2. resend \in [pc : Pcs, turn : 0..m, seen : 0..m, session : Slots \cup {0}, message : 0..q]
    <3>1. 0 \in 0..m /\ 0 \in 0..q
      BY <1>2
    <3> QED BY <1>2, <2>1, <3>1 DEF Resting
  <2>3. resend.pc = "resend" /\ resend.turn = m /\ resend.session = HandleFor
    BY <2>1 DEF Resting
  <2> HIDE DEF resend
  <2>4. \A s \in Slots : sessions[s].got <= resend.turn
    BY <1>2, <2>3
  <2> QED BY <1>3, <2>1, <2>2, <2>3, <2>4 DEF ReactorFits, Requesting, Resending
<1>4. ReactorFits(next, sessions, rest, doc.queue, m, q)
  <2>1. ReactorFits(Resting, sessions, rest, doc.queue, m, q)
    BY <1>2, Rests
  <2> QED BY <1>3, <2>1
<1> HIDE DEF next
<1> QED BY <1>1, <1>4, Reading DEF m, q, rest

LEMMA SteerFits == ASSUME OInv, ReactToSteer PROVE StepFits
<1> DEFINE queue == [Resting EXCEPT !.pc = "requeueSteer"]
<1>1. PICK next \in {Resting, queue} : Becomes("thread.turn.steered", next)
  BY DEF ReactToSteer, Reacts
<1>2. /\ ReactorFits(Resting, sessions, Tail(mailbox), doc.queue, turns[Thread], messages[Thread])
      /\ ReactorFits(queue, sessions, Tail(mailbox), doc.queue, turns[Thread], messages[Thread])
  <2>1. "requeueSteer" \in Pcs /\ turns[Thread] \in Nat /\ messages[Thread] \in Nat
    BY Facts DEF Pcs
  <2>2. /\ queue \in [pc : Pcs, turn : 0..turns[Thread], seen : 0..turns[Thread], session : Slots \cup {0},
                      message : 0..messages[Thread]]
        /\ queue.pc = "requeueSteer" /\ queue.message = 0
    BY <2>1 DEF Resting
  <2> HIDE DEF queue
  <2>3. ReactorFits(queue, sessions, Tail(mailbox), doc.queue, turns[Thread], messages[Thread])
    BY <2>1, <2>2, Plainly
  <2> QED BY <2>1, <2>3, Rests
<1> QED BY <1>1, <1>2, Reading

LEMMA InterruptFits == ASSUME OInv, ReactToInterrupt PROVE StepFits
<1> DEFINE m == turns[Thread]
           q == messages[Thread]
           k == Head(mailbox).turn
           settle == [Resting EXCEPT !.pc = "settle", !.turn = k]
           await == [Resting EXCEPT !.pc = "await", !.turn = k, !.session = HandleFor]
<1>1. PICK next : /\ Becomes("thread.turn.interrupted", next)
                  /\ next \in {Resting, settle} \/ (next = await /\ HandleFor # 0)
  BY Zenon DEF ReactToInterrupt, Reacts
<1>2. m \in Nat /\ q \in Nat /\ HandleFor \in Slots \cup {0}
  BY Facts DEF HandleFor
<1>3. k \in 1..m
  <2>1. mailbox # <<>> /\ Head(mailbox).type = "thread.turn.interrupted"
    BY <1>1 DEF Becomes, Takes
  <2>2. Head(mailbox) \in Mail(m)
    BY <2>1, Facts, TakesOldest
  <2> QED BY <1>2, <2>1, <2>2, MailTurns
<1> HIDE DEF m, q, k
<1>4. k \in 0..m /\ k # 0 /\ 0 \in 0..m /\ 0 \in 0..q /\ "settle" \in Pcs /\ "await" \in Pcs
  BY <1>2, <1>3 DEF Pcs
<1>5. ReactorFits(Resting, sessions, Tail(mailbox), doc.queue, m, q)
  BY <1>2, Rests
<1>6. ReactorFits(settle, sessions, Tail(mailbox), doc.queue, m, q)
  <2>1. settle \in [pc : Pcs, turn : 0..m, seen : 0..m, session : Slots \cup {0}, message : 0..q]
    BY <1>2, <1>4 DEF Resting
  <2>2. settle.pc = "settle" /\ settle.turn = k
    BY DEF Resting
  <2> HIDE DEF settle
  <2> QED BY <1>2, <1>4, <2>1, <2>2, Plainly
<1>7. ASSUME HandleFor # 0
      PROVE  ReactorFits(await, sessions, Tail(mailbox), doc.queue, m, q)
  <2>1. await \in [pc : Pcs, turn : 0..m, seen : 0..m, session : Slots \cup {0}, message : 0..q]
    BY <1>2, <1>4 DEF Resting
  <2>2. await.pc = "await" /\ await.turn = k /\ await.session = HandleFor
    BY DEF Resting
  <2> HIDE DEF await
  <2> QED BY <1>2, <1>4, <1>7, <2>1, <2>2, Plainly
<1> HIDE DEF settle, await
<1> QED BY <1>1, <1>5, <1>6, <1>7, Reading DEF m, q

LEMMA OtherEventsFit == ASSUME OInv, ReactToCompletion \/ ReactToClose PROVE StepFits
<1>1. ASSUME NEW type, NEW pc \in {"drain", "close"}, Becomes(type, [Resting EXCEPT !.pc = pc])
      PROVE  StepFits
  <2> DEFINE next == [Resting EXCEPT !.pc = pc]
  <2>1. pc \in Pcs /\ turns[Thread] \in Nat /\ messages[Thread] \in Nat
    BY Facts DEF Pcs
  <2>2. /\ next \in [pc : Pcs, turn : 0..turns[Thread], seen : 0..turns[Thread], session : Slots \cup {0},
                     message : 0..messages[Thread]]
        /\ next.pc = pc
    BY <2>1 DEF Resting
  <2>3. Becomes(type, next)
    BY <1>1
  <2> HIDE DEF next
  <2>4. ReactorFits(next, sessions, Tail(mailbox), doc.queue, turns[Thread], messages[Thread])
    BY <2>1, <2>2, Plainly
  <2> QED BY <2>3, <2>4, Reading
<1> QED BY <1>1 DEF ReactToCompletion, ReactToClose, Reacts

----------------------------------------------------------------------------
(* Steps that leave the log and the mailbox alone.                         *)

\* A step of the reactor, or of another fiber, that changes no session.
LEMMA Turning ==
  ASSUME OInv, UNCHANGED <<vars, mailbox, sessions>>, driver' = driver,
         ReactorFits(reactor', sessions, mailbox, doc.queue, turns[Thread], messages[Thread])
  PROVE  StepFits
<1>1. UNCHANGED vars /\ mailbox' = mailbox /\ sessions' = sessions
  OBVIOUS
<1> QED BY <1>1, Facts, StillKeeps

\* One session moves on, and the reactor's turn with it or not at all.
LEMMA Working ==
  ASSUME OInv, UNCHANGED <<vars, mailbox>>, driver' \in Slots \cup {0}, NEW s \in Slots, NEW y,
         y \in Session(turns[Thread]) /\ Tracked(y), sessions' = [sessions EXCEPT ![s] = y],
         ReactorFits(reactor', [sessions EXCEPT ![s] = y], mailbox, doc.queue, turns[Thread], messages[Thread])
  PROVE  StepFits
<1>1. UNCHANGED vars /\ mailbox' = mailbox
  OBVIOUS
<1>2. SessionsFit([sessions EXCEPT ![s] = y], turns[Thread])
  BY Facts, SessionMoved
<1> QED BY <1>1, <1>2, Facts, StillKeeps

LEMMA WaitingFits ==
  ASSUME OInv, \/ TakeCrash \/ \E f \in Loops : CheckResume(f)
               \/ SendDuplicate \/ SendBarred \/ Released \/ Closed
  PROVE  StepFits
<1> DEFINE m == turns[Thread]
           q == messages[Thread]
           failed == [reactor EXCEPT !.pc = "fail"]
<1>1. UNCHANGED <<vars, mailbox, sessions>> /\ driver' = driver /\ reactor' \in {reactor, Resting, failed}
  <2>1. CASE TakeCrash \/ \E f \in Loops : CheckResume(f)
    BY <2>1, Zenon DEF TakeCrash, CheckResume
  <2>2. CASE SendDuplicate \/ SendBarred
    <3>1. Failing \in {Resting, failed}
      BY DEF Failing
    <3> QED BY <2>2, <3>1, Zenon DEF SendDuplicate, SendBarred, Deciding
  <2>3. CASE Released \/ Closed
    BY <2>3, Zenon DEF Released, Closed
  <2> QED BY <2>1, <2>2, <2>3
<1>2. ReactorFits(Resting, sessions, mailbox, doc.queue, m, q)
  BY Facts, Rests
<1>3. ReactorFits(failed, sessions, mailbox, doc.queue, m, q)
  <2>1. "fail" \in Pcs
    BY DEF Pcs
  <2>2. failed \in [pc : Pcs, turn : 0..m, seen : 0..m, session : Slots \cup {0}, message : 0..q]
        /\ failed.pc = "fail"
    BY <2>1, Facts
  <2> HIDE DEF failed
  <2> QED BY <2>2, Facts, Plainly
<1> HIDE DEF failed
<1> QED BY <1>1, <1>2, <1>3, Facts, Turning

\* The reactor has its session.
LEMMA Sends ==
  ASSUME NEW r, NEW sess, NEW mail, NEW queue, NEW m \in Nat, NEW q \in Nat, ReactorFits(r, sess, mail, queue, m, q),
         r.pc \in {"ensure", "attach"}, NEW x,
         x = [r EXCEPT !.pc = "attach"] \/ \E s \in Slots : x = [r EXCEPT !.pc = "send", !.session = s]
  PROVE  ReactorFits(x, sess, mail, queue, m, q)
<1>1. r \in [pc : Pcs, turn : 0..m, seen : 0..m, session : Slots \cup {0}, message : 0..q]
      /\ "attach" \in Pcs /\ "send" \in Pcs
  BY DEF ReactorFits, Pcs
<1>2. /\ x \in [pc : Pcs, turn : 0..m, seen : 0..m, session : Slots \cup {0}, message : 0..q]
      /\ x.pc \in {"attach", "send"} /\ (x.pc = "send" => x.session \in Slots) /\ x.turn = r.turn
  BY <1>1
<1>3. r.pc \in Requesting /\ x.pc \in Requesting
  BY <1>2 DEF Requesting
<1> QED BY <1>2, <1>3 DEF ReactorFits, Resending

LEMMA EnsureFits == ASSUME OInv, NEW f, Ensure(f) PROVE StepFits
<1>1. UNCHANGED <<vars, mailbox, sessions>> /\ driver' = driver
  BY DEF Ensure
<1>2. CASE reactor' = reactor
  BY <1>1, <1>2, Facts, Turning
<1>3. CASE reactor' # reactor
  <2>1. /\ reactor.pc = "ensure"
        /\ \/ reactor' = [reactor EXCEPT !.pc = "attach"]
           \/ HandleFor # 0 /\ reactor' = [reactor EXCEPT !.pc = "send", !.session = HandleFor]
    BY <1>3 DEF Ensure, Attached, Phase
  <2>2. HandleFor # 0 => HandleFor \in Slots
    BY Facts DEF HandleFor
  <2>3. reactor' = [reactor EXCEPT !.pc = "attach"] \/ \E s \in Slots : reactor' = [reactor EXCEPT !.pc = "send", !.session = s]
    BY <2>1, <2>2
  <2>4. ReactorFits(reactor', sessions, mailbox, doc.queue, turns[Thread], messages[Thread])
    BY <2>1, <2>3, Facts, Sends
  <2> QED BY <1>1, <2>4, Turning
<1> QED BY <1>2, <1>3

LEMMA AttachFits == ASSUME OInv, NEW f, Attach(f) PROVE StepFits
<1> DEFINE s == CHOOSE free \in FreeSlots : TRUE
<1>1. /\ UNCHANGED <<vars, mailbox>> /\ driver' = s /\ sessions' = [sessions EXCEPT ![s] = Started]
      /\ Attached(f, s) /\ Phase(f) = "attach" /\ s \in FreeSlots
  BY DEF Attach
<1>2. s \in Slots /\ s # reactor.session
  BY <1>1 DEF FreeSlots
<1> HIDE DEF s
<1>3. SessionMoves(sessions[s], Started, turns[Thread])
  BY Facts, StartedMoves
<1>4. ReactorFits(reactor, [sessions EXCEPT ![s] = Started], mailbox, doc.queue, turns[Thread], messages[Thread])
  BY <1>2, <1>3, Facts, ReactorSees
<1>5. reactor' = reactor \/ (reactor.pc = "attach" /\ reactor' = [reactor EXCEPT !.pc = "send", !.session = s])
  BY <1>1 DEF Attached, Phase
<1>6. ReactorFits(reactor', [sessions EXCEPT ![s] = Started], mailbox, doc.queue, turns[Thread], messages[Thread])
  <2>1. CASE reactor' = reactor
    BY <1>4, <2>1
  <2>2. CASE reactor.pc = "attach" /\ reactor' = [reactor EXCEPT !.pc = "send", !.session = s]
    BY <1>2, <1>4, <2>2, Facts, Sends
  <2> QED BY <1>5, <2>1, <2>2
<1> QED BY <1>1, <1>2, <1>3, <1>6, Working DEF SessionMoves

LEMMA AttachFailedFits == ASSUME OInv, NEW f, AttachFailed(f) PROVE StepFits
<1> DEFINE m == turns[Thread]
           q == messages[Thread]
           failed == [reactor EXCEPT !.pc = "fail"]
<1>1. UNCHANGED <<vars, mailbox, sessions>> /\ driver' = driver /\ reactor' \in {reactor, failed}
  BY Zenon DEF AttachFailed
<1>2. ReactorFits(failed, sessions, mailbox, doc.queue, m, q)
  <2>1. "fail" \in Pcs
    BY DEF Pcs
  <2>2. failed \in [pc : Pcs, turn : 0..m, seen : 0..m, session : Slots \cup {0}, message : 0..q]
        /\ failed.pc = "fail"
    BY <2>1, Facts
  <2> HIDE DEF failed
  <2> QED BY <2>2, Facts, Plainly
<1> HIDE DEF failed
<1> QED BY <1>1, <1>2, Facts, Turning

LEMMA HarnessFits == ASSUME OInv, NEW s \in Slots, HarnessActs(s) PROVE StepFits
<1> DEFINE x == sessions[s]
           m == turns[Thread]
<1>1. UNCHANGED <<vars, mailbox>> /\ driver' = driver /\ reactor' = reactor
  BY Zenon DEF HarnessActs, HarnessCompletes, HarnessFails
<1>2. ASSUME NEW y, sessions' = [sessions EXCEPT ![s] = y],
             \/ x.up /\ x.busy /\ y = [x EXCEPT !.out = Append(@, "turn.completed"), !.busy = FALSE]
             \/ x.up /\ x.busy /\ y = [x EXCEPT !.out = Append(@, "runtime.error"), !.busy = FALSE]
             \/ \E last \in {<<"end">>, <<"runtime.error", "end">>} :
                  y = [x EXCEPT !.out = @ \o last, !.busy = FALSE, !.up = FALSE]
      PROVE  StepFits
  <2>1. SessionMoves(x, y, m) /\ Undisturbed(x, y)
    BY <1>2, Facts, HarnessMoves
  <2>2. ReactorFits(reactor, [sessions EXCEPT ![s] = y], mailbox, doc.queue, m, messages[Thread])
    BY <2>1, Facts, ReactorSees
  <2> QED BY <1>1, <1>2, <2>1, <2>2, Facts, Working DEF SessionMoves
<1>3. CASE HarnessCompletes(s)
  BY <1>2, <1>3 DEF HarnessCompletes
<1>4. CASE HarnessFails(s)
  <2>1. CASE sessions[s].busy /\ sessions' = [sessions EXCEPT ![s].out = Append(@, "runtime.error"), ![s].busy = FALSE]
    <3> DEFINE y == [x EXCEPT !.out = Append(@, "runtime.error"), !.busy = FALSE]
    <3>1. sessions' = [sessions EXCEPT ![s] = y] /\ x.up /\ x.busy
      BY <1>4, <2>1 DEF HarnessFails
    <3>2. y = [x EXCEPT !.out = Append(@, "runtime.error"), !.busy = FALSE]
      OBVIOUS
    <3> HIDE DEF x, y
    <3> QED BY <1>2, <3>1, <3>2
  <2>2. ASSUME NEW last \in {<<"end">>, <<"runtime.error", "end">>},
               sessions' = [sessions EXCEPT ![s].out = @ \o last, ![s].busy = FALSE, ![s].up = FALSE]
        PROVE  StepFits
    BY <1>2, <2>2
  <2> QED BY <1>4, <2>1, <2>2 DEF HarnessFails
<1> QED BY <1>3, <1>4 DEF HarnessActs

LEMMA IngestFits == ASSUME OInv, NEW s \in Slots, Ingest(s) PROVE StepFits
<1> DEFINE x == sessions[s]
           m == turns[Thread]
           y == [x EXCEPT !.out = Tail(@),
                          !.pending = Logged(IF Head(x.out) = "end" THEN FinalEmissions(x.handle)
                                             ELSE Emissions(x.handle, Head(x.out))),
                          !.handle = IF Head(x.out) = "end" THEN Finalized(x.handle)
                                     ELSE Normalized(x.handle, Head(x.out)),
                          !.why = IF Head(x.out) = "session.ended" THEN "stopped" ELSE @]
<1>1. sessions' = [sessions EXCEPT ![s] = y] /\ x.out # <<>>
  BY DEF Ingest
<1>2. UNCHANGED <<vars, mailbox>> /\ driver' = driver /\ reactor' = reactor
  BY DEF Ingest
<1>3. SessionMoves(x, y, m) /\ Undisturbed(x, y)
  BY <1>1, Facts, IngestMoves
<1> HIDE DEF y
<1>4. ReactorFits(reactor, [sessions EXCEPT ![s] = y], mailbox, doc.queue, m, messages[Thread])
  BY <1>3, Facts, ReactorSees
<1> QED BY <1>1, <1>2, <1>3, <1>4, Facts, Working DEF SessionMoves

\* A session's ingestion ends, by itself or interrupted.
LEMMA EndedFits ==
  ASSUME OInv, NEW s \in Slots, Ended(s), UNCHANGED <<vars, mailbox>>, reactor' \in {reactor, Resting}
  PROVE  StepFits
<1> DEFINE x == sessions[s]
           m == turns[Thread]
           y == IF reactor.session = s THEN [Free EXCEPT !.handle = x.handle] ELSE Free
<1>1. sessions' = [sessions EXCEPT ![s] = y] /\ driver' = 0
  BY DEF Ended
<1>2. SessionMoves(x, y, m) /\ Undisturbed(x, y)
  BY Facts, AppendedMoves
<1> HIDE DEF y
<1>3. ReactorFits(reactor, [sessions EXCEPT ![s] = y], mailbox, doc.queue, m, messages[Thread])
  BY <1>2, Facts, ReactorSees
<1>4. ReactorFits(Resting, [sessions EXCEPT ![s] = y], mailbox, doc.queue, m, messages[Thread])
  BY Facts, Rests
<1> QED BY <1>1, <1>2, <1>3, <1>4, Working DEF SessionMoves

LEMMA EndsFit ==
  ASSUME OInv, (\E s \in Slots : IngestEnds(s)) \/ CloseTimesOut
  PROVE  StepFits
<1>1. ASSUME NEW s \in Slots, IngestEnds(s) PROVE StepFits
  BY <1>1, EndedFits DEF IngestEnds
<1>2. CASE CloseTimesOut
  <2>1. reactor.session \in Slots
    BY <1>2, Facts DEF CloseTimesOut, ReactorFits
  <2> QED BY <1>2, <2>1, EndedFits DEF CloseTimesOut
<1> QED BY <1>1, <1>2

\* handle.send has taken the turn: the harness is being given it.
LEMMA SendTakenFits == ASSUME OInv, SendTaken PROVE StepFits
<1> DEFINE s == reactor.session
           k == reactor.turn
           x == sessions[s]
           y == [x EXCEPT !.handle = Activated(@, k)]
           m == turns[Thread]
           q == messages[Thread]
           next == [reactor EXCEPT !.pc = IF @ = "send" THEN "sending" ELSE "resending"]
<1>1. /\ UNCHANGED <<vars, mailbox>> /\ driver' = driver
      /\ sessions' = [sessions EXCEPT ![s] = y] /\ reactor' = next
      /\ reactor.pc \in {"send", "resend"} /\ SendOutcome(x.handle, k) = "send"
  BY DEF SendTaken, Deciding
<1>2. s \in Slots /\ k \in 1..m /\ m \in Nat /\ q \in Nat
  BY <1>1, Facts DEF ReactorFits, Requesting, Resending
<1>3. x.handle.active = 0 /\ ~x.handle.finished
  <2>1. x.handle.finished \in BOOLEAN /\ x.handle.active \in 0..m
    BY <1>2, Facts DEF Session
  <2> QED BY <1>1, <2>1 DEF SendOutcome
<1>4. SessionMoves(x, y, m) /\ Ready(y, k)
  <2>1. x \in Session(m) /\ Tracked(x)
    BY <1>2, Facts
  <2>2. y = [x EXCEPT !.handle = Activated(@, k)]
    OBVIOUS
  <2> HIDE DEF x, k, m, y
  <2> QED BY <1>2, <1>3, <2>1, <2>2, HandleTakes
<1> HIDE DEF y
<1>5. ReactorFits(next, [sessions EXCEPT ![s] = y], mailbox, doc.queue, m, q)
  <2> DEFINE sess == [sessions EXCEPT ![s] = y]
  <2>1. /\ next \in [pc : Pcs, turn : 0..m, seen : 0..m, session : Slots \cup {0}, message : 0..q]
        /\ next.pc = (IF reactor.pc = "send" THEN "sending" ELSE "resending")
        /\ next.turn = k /\ next.session = s
    <3>1. "sending" \in Pcs /\ "resending" \in Pcs
      BY DEF Pcs
    <3> QED BY <3>1, Facts
  <2>2. sess[s] = y /\ \A t \in Slots : sess[t].got \in {0, sessions[t].got}
    BY <1>2, <1>4, Facts DEF SessionsFit, SessionMoves
  <2>3. \A t \in Slots : sessions[t].got \in 0..m
    BY Facts DEF Session
  <2> HIDE DEF next, sess, x, s, k
  <2>4. next.pc = "sending" => \A i \in DOMAIN mailbox : IsRequest(mailbox[i]) => k < mailbox[i].turn
    BY <1>1, <2>1, Facts DEF ReactorFits, Requesting, k
  <2>5. next.pc = "resending" => \A t \in Slots : sess[t].got <= k
    <3>1. next.pc = "resending" => \A t \in Slots : sessions[t].got <= k
      BY <1>1, <2>1, Facts DEF ReactorFits, Resending, k
    <3> QED BY <1>2, <2>2, <2>3, <3>1
  <2>6. next.pc \in {"sending", "resending"}
    BY <2>1
  <2>7. ReactorFits(next, sess, mailbox, doc.queue, m, q)
    BY <1>2, <1>4, <2>1, <2>2, <2>4, <2>5, <2>6 DEF ReactorFits, Requesting, Resending, Ready
  <2> QED BY <2>7 DEF sess
<1> QED BY <1>1, <1>2, <1>4, <1>5, Facts, Working DEF SessionMoves

\* What the reactor knows of the session it delivers to.
LEMMA Delivering ==
  ASSUME OInv, reactor.pc \in {"sending", "resending"}
  PROVE  /\ reactor.session \in Slots /\ reactor.turn \in 1..turns[Thread]
         /\ sessions[reactor.session].up
              => /\ Quiet(sessions[reactor.session]) /\ ~sessions[reactor.session].busy
                 /\ sessions[reactor.session].handle.active = reactor.turn
BY Facts DEF ReactorFits, Requesting, Resending

LEMMA DeliversFits == ASSUME OInv, Delivers PROVE StepFits
<1> DEFINE s == reactor.session
           k == reactor.turn
           x == sessions[s]
           y == [x EXCEPT !.got = k, !.busy = TRUE, !.out = Append(@, "turn.started")]
           m == turns[Thread]
<1>1. /\ UNCHANGED <<vars, mailbox>> /\ driver' = driver /\ reactor' = Resting
      /\ sessions' = IF ~x.up THEN sessions ELSE [sessions EXCEPT ![s] = y]
      /\ reactor.pc \in {"sending", "resending"}
  BY DEF Delivers
<1>2. s \in Slots /\ k \in 1..m /\ (x.up => Quiet(x) /\ ~x.busy /\ x.handle.active = k)
  BY <1>1, Delivering
<1>3. CASE ~x.up
  BY <1>1, <1>3, Facts, Rests, Turning
<1>4. CASE x.up
  <2>1. y \in Session(m) /\ Tracked(y)
    <3>1. x \in Session(m) /\ Tracked(x) /\ m \in Nat
      BY <1>2, Facts
    <3>2. y = [x EXCEPT !.got = k, !.busy = TRUE, !.out = Append(@, "turn.started")]
      OBVIOUS
    <3> HIDE DEF x, y, k, m
    <3> QED BY <1>2, <1>4, <3>1, <3>2, DeliveryMoves
  <2> HIDE DEF y
  <2>2. ReactorFits(Resting, [sessions EXCEPT ![s] = y], mailbox, doc.queue, m, messages[Thread])
    BY Facts, Rests
  <2> QED BY <1>1, <1>2, <1>4, <2>1, <2>2, Facts, Working
<1> QED BY <1>3, <1>4

LEMMA RefusesFits == ASSUME OInv, Refuses PROVE StepFits
<1> DEFINE s == reactor.session
           k == reactor.turn
           x == sessions[s]
           y == [x EXCEPT !.handle = AbandonTurn(@, k)]
           m == turns[Thread]
           q == messages[Thread]
           failed == [reactor EXCEPT !.pc = "fail"]
           sess == [sessions EXCEPT ![s] = y]
<1>1. /\ UNCHANGED <<vars, mailbox>> /\ driver' = driver /\ reactor' \in {Resting, failed}
      /\ sessions' = [sessions EXCEPT ![s] = y]
      /\ reactor.pc \in {"sending", "resending"}
  BY DEF Refuses, Failing
<1>2. s \in Slots /\ k \in 1..m /\ (x.up => Quiet(x) /\ ~x.busy)
  BY <1>1, Delivering
<1>3. SessionMoves(x, y, m)
  BY <1>2, Facts, HandleAbandons
<1> HIDE DEF y
<1>4. ReactorFits(failed, sess, mailbox, doc.queue, m, q)
  <2>1. "fail" \in Pcs
    BY DEF Pcs
  <2>2. failed \in [pc : Pcs, turn : 0..m, seen : 0..m, session : Slots \cup {0}, message : 0..q]
        /\ failed.pc = "fail"
    BY <2>1, Facts
  <2> HIDE DEF failed, sess
  <2> QED BY <2>2, Facts, Plainly
<1>5. ReactorFits(Resting, sess, mailbox, doc.queue, m, q)
  <2> HIDE DEF sess
  <2> QED BY Facts, Rests
<1> HIDE DEF failed
<1> QED BY <1>1, <1>2, <1>3, <1>4, <1>5, Facts, Working DEF SessionMoves

LEMMA CloseFits == ASSUME OInv, CloseSession PROVE StepFits
<1> DEFINE s == driver
           x == sessions[s]
           y == [x EXCEPT !.alive = FALSE, !.up = FALSE, !.busy = FALSE,
                          !.out = IF x.up THEN @ \o <<"session.ended", "end">> ELSE @]
           m == turns[Thread]
           q == messages[Thread]
           closing == [Resting EXCEPT !.pc = "closing", !.session = s]
<1>1. UNCHANGED <<vars, mailbox>> /\ driver' = 0
  BY DEF CloseSession
<1>2. CASE driver = 0
  <2>1. reactor' = Resting /\ sessions' = sessions /\ mailbox' = mailbox /\ UNCHANGED vars
    BY <1>2 DEF CloseSession
  <2> QED BY <1>1, <2>1, Facts, Rests, StillKeeps
<1>3. CASE driver # 0
  <2>1. reactor' = closing /\ sessions' = [sessions EXCEPT ![s] = y] /\ s \in Slots
    BY <1>3, Facts DEF CloseSession
  <2>2. SessionMoves(x, y, m)
    BY <2>1, Facts, ClosingMoves
  <2> HIDE DEF y
  <2> DEFINE sess == [sessions EXCEPT ![s] = y]
  <2> HIDE DEF sess
  <2>3. ReactorFits(closing, sess, mailbox, doc.queue, m, q)
    <3>1. "closing" \in Pcs /\ 0 \in 0..m /\ 0 \in 0..q /\ m \in Nat /\ q \in Nat
      BY Facts DEF Pcs
    <3>2. closing \in [pc : Pcs, turn : 0..m, seen : 0..m, session : Slots \cup {0}, message : 0..q]
          /\ closing.pc = "closing" /\ closing.session = s
      BY <2>1, <3>1 DEF Resting
    <3> HIDE DEF closing
    <3> QED BY <2>1, <3>1, <3>2, Plainly
  <2> QED BY <1>1, <2>1, <2>2, <2>3, Facts, Working DEF SessionMoves, sess
<1> QED BY <1>2, <1>3
----------------------------------------------------------------------------
(* Steps that append, and leave the sessions alone.                        *)

LEMMA Appending ==
  ASSUME OInv, EngineMoves, sessions' = sessions, driver' = driver, reactor' = reactor \/ reactor' = Resting
  PROVE  StepFits
<1>1. ReactorFits(Resting, sessions, mailbox, doc.queue, turns[Thread], messages[Thread])
  BY Facts, Rests
<1> QED BY <1>1, Facts, MovesKeep

\* The supervisor gives a session up, the reactor settles a turn.
LEMMA ReportsFit ==
  ASSUME OInv, (\E f \in Loops : GiveUp(f)) \/ FailThread \/ SettleInterrupted
  PROVE  StepFits
<1> DEFINE m == turns[Thread]
<1>1. CASE \E f \in Loops : GiveUp(f)
  <2>1. /\ AppendEvents(<<SessionLost>>)
        /\ sessions' = sessions /\ driver' = driver /\ reactor' = reactor
    BY <1>1 DEF GiveUp
  <2>2. SessionLost \in ServerEvents(m)
    BY DEF ServerEvents
  <2>3. EngineMoves
    BY <2>1, <2>2, Facts, AppendMoves
  <2> QED BY <2>1, <2>3, Appending
<1>2. CASE FailThread
  <2>1. /\ AppendEvents(<<ThreadError(TRUE)>> \o (IF reactor.seen = 0 THEN <<>> ELSE <<TurnCompleted(reactor.seen)>>))
        /\ sessions' = sessions /\ driver' = driver /\ reactor' = Resting
    BY <1>2 DEF FailThread
  <2>2. reactor.seen \in 0..m
    BY Facts
  <2>3. EngineMoves
    BY <2>1, <2>2, Facts, FailThreadMoves
  <2> QED BY <2>1, <2>3, Appending
<1>3. CASE SettleInterrupted
  <2>1. /\ AppendEvents(<<TurnCompleted(reactor.turn)>>) /\ reactor.pc = "settle"
        /\ sessions' = sessions /\ driver' = driver /\ reactor' = Resting
    BY <1>3 DEF SettleInterrupted
  <2>2. reactor.turn \in 1..m
    BY <2>1, Facts DEF ReactorFits
  <2>3. TurnCompleted(reactor.turn) \in ServerEvents(m)
    BY <2>2 DEF ServerEvents
  <2>4. EngineMoves
    BY <2>1, <2>3, Facts, AppendMoves
  <2> QED BY <2>1, <2>4, Appending
<1> QED BY <1>1, <1>2, <1>3

\* The clients' commands.
LEMMA ClientsFit == ASSUME OInv, ClientActs PROVE StepFits
<1>1. ASSUME NEW cmd \in Asked, Command(cmd)
      PROVE  StepFits
  <2>1. /\ Dispatch(Thread, cmd) /\ Publish(Decided(cmd).events)
        /\ sessions' = sessions /\ driver' = driver /\ reactor' = reactor
    BY <1>1 DEF Command, others
  <2>2. EngineMoves
    BY <2>1, Facts, CommandMoves
  <2> QED BY <2>1, <2>2, Appending
<1>2. CASE OpenProject
  <2>1. /\ CreateProject(ProjectOf[Thread]) /\ mailbox' = mailbox
        /\ sessions' = sessions /\ driver' = driver /\ reactor' = reactor
    BY <1>2 DEF OpenProject, serverVars
  <2>2. UNCHANGED <<docs, turns, messages>> /\ doc' = doc
    BY <2>1 DEF CreateProject, doc
  <2>3. [Next]_vars
    <3>1. ProjectOf[Thread] \in Projects
      BY Facts, DocFacts, EngineAssumption DEF EngineAssumption
    <3> QED BY <2>1, <3>1 DEF Next
  <2>4. EngineMoves
    BY <2>1, <2>2, <2>3, Facts DEF EngineMoves, Later, QueueMoves
  <2> QED BY <2>1, <2>4, Appending
<1>3. CASE OpenThread
  <2>1. [type |-> "thread.create", instance |-> Instance] \in Asked
    BY DEF Asked
  <2> QED BY <1>1, <1>3, <2>1 DEF OpenThread
<1>4. CASE Prompted \/ Steer
  <2>1. [type |-> "thread.turn.steer"] \in Asked /\ \A b \in BOOLEAN : [type |-> "thread.turn.start", queued |-> b] \in Asked
    BY DEF Asked
  <2> QED BY <1>1, <1>4, <2>1 DEF Prompted, Steer, Prompt
<1>5. CASE Unqueue
  <2>1. PICK id \in 1..messages[Thread] : Command([type |-> "thread.queue.remove", message |-> id])
    BY <1>5 DEF Unqueue
  <2>2. [type |-> "thread.queue.remove", message |-> id] \in Asked
    BY DEF Asked
  <2> QED BY <1>1, <2>1, <2>2
<1>6. CASE Interrupt \/ Archive \/ Unarchive \/ Delete
  <2>1. /\ [type |-> "thread.turn.interrupt"] \in Asked /\ [type |-> "thread.archive"] \in Asked
        /\ [type |-> "thread.unarchive"] \in Asked /\ [type |-> "thread.delete"] \in Asked
    BY DEF Asked
  <2> QED BY <1>1, <1>6, <2>1 DEF Interrupt, Archive, Unarchive, Delete
<1> QED BY <1>2, <1>3, <1>4, <1>5, <1>6 DEF ClientActs
\* The ingestion appends the first event it has read.
LEMMA IngestAppendFits == ASSUME OInv, NEW s \in Slots, IngestAppend(s) PROVE StepFits
<1> DEFINE x == sessions[s]
           m == turns[Thread]
           y == [x EXCEPT !.pending = Tail(@)]
<1>1. /\ AppendEvents(Translated(Head(x.pending))) /\ x.pending # <<>>
      /\ sessions' = [sessions EXCEPT ![s] = y] /\ driver' = driver /\ reactor' = reactor
  BY DEF IngestAppend
<1>2. x \in Session(m) /\ Tracked(x)
  BY Facts
<1>3. Head(x.pending) \in HandedOn(m)
  <2>1. x.pending \in Seq(HandedOn(m))
    BY <1>2 DEF Session
  <2> QED BY <1>1, <2>1, HeadTailProperties
<1>4. EngineMoves
  BY <1>1, <1>3, Facts, TranslatedMoves
<1>5. SessionMoves(x, y, m) /\ Undisturbed(x, y)
  BY <1>1, Facts, AppendedMoves
<1> HIDE DEF y
<1>6. ReactorFits(reactor, [sessions EXCEPT ![s] = y], mailbox, doc.queue, m, messages[Thread])
  BY <1>5, Facts, ReactorSees
<1>7. SessionsFit([sessions EXCEPT ![s] = y], m)
  BY <1>5, Facts, SessionMoved DEF SessionMoves
<1> QED BY <1>1, <1>4, <1>6, <1>7, Facts, MovesKeep

----------------------------------------------------------------------------
(* The message the reactor holds.                                          *)

LEMMA DrainFits == ASSUME OInv, Drain PROVE StepFits
<1> DEFINE m == turns[Thread]
           q == messages[Thread]
           head == Head(doc.queue)
           next == [Resting EXCEPT !.pc = "dispatch", !.message = head]
<1>1. sessions' = sessions /\ driver' = driver
  BY DEF Drain
<1>2. CASE UNCHANGED <<vars, mailbox>> /\ reactor' = Resting
  BY <1>1, <1>2, Facts, Rests, Turning
<1>3. ASSUME Live(doc), doc.status # "archived", doc.turn = 0, doc.queue # <<>>,
             AppendEvents(<<Dequeued(head)>>), reactor' = next
      PROVE  StepFits
  <2>1. /\ EngineMoves /\ head \in 1..q /\ ~Holds(doc'.queue, head) /\ turns' = turns /\ messages' = messages
    BY <1>3, Facts, DrainMoves
  <2>2. "dispatch" \in Pcs /\ 0 \in 0..m /\ head \in 0..q /\ m \in Nat /\ q \in Nat
    BY <2>1, Facts DEF Pcs
  <2>3. /\ next \in [pc : Pcs, turn : 0..m, seen : 0..m, session : Slots \cup {0}, message : 0..q]
        /\ next.pc = "dispatch" /\ next.message = head
    BY <2>2 DEF Resting
  <2> HIDE DEF next, head
  <2>4. ReactorFits(reactor', sessions', mailbox', doc'.queue, m, q)
    BY <1>3, <2>1, <2>2, <2>3, Plainly
  <2>5. ContentsInv' /\ SessionsFit(sessions', m)
    BY <1>1, <2>1, Facts, NextKeepsContents DEF EngineMoves
  <2> QED BY <1>1, <2>1, <2>4, <2>5, Facts DEF StepFits, OInv, DriverFits, EngineMoves
<1> QED BY <1>2, <1>3 DEF Drain

\* The held message is dispatched, and refused it is still held.
LEMMA DispatchHeldFits == ASSUME OInv, DispatchHeld PROVE StepFits
<1> DEFINE m == turns[Thread]
           q == messages[Thread]
           next == [reactor EXCEPT !.pc = "requeue"]
<1>1. sessions' = sessions /\ driver' = driver /\ reactor.pc \in {"dispatch", "requeueSteer"}
  BY DEF DispatchHeld
<1>2. CASE Dispatch(Thread, QueuedStart) /\ Publish(Decided(QueuedStart).events) /\ reactor' = Resting
  <2>1. QueuedStart \in Asked
    BY DEF QueuedStart, Asked
  <2>2. EngineMoves
    BY <1>2, <2>1, Facts, CommandMoves
  <2> QED BY <1>1, <1>2, <2>2, Appending
<1>3. CASE reactor' = next /\ UNCHANGED <<vars, mailbox>>
  <2>1. "requeue" \in Pcs
    BY DEF Pcs
  <2>2. /\ next \in [pc : Pcs, turn : 0..m, seen : 0..m, session : Slots \cup {0}, message : 0..q]
        /\ next.pc = "requeue" /\ next.message = reactor.message
    BY <2>1, Facts
  <2>3. reactor.message # 0 => ~Holds(doc.queue, reactor.message)
    BY <1>1, Facts DEF ReactorFits
  <2> HIDE DEF next
  <2>4. ReactorFits(next, sessions, mailbox, doc.queue, m, q)
    BY <2>2, <2>3, Facts, Plainly
  <2> QED BY <1>1, <1>3, <2>4, Turning
<1> QED BY <1>2, <1>3 DEF DispatchHeld

\* It is put back, or queued under a fresh id, and the thread's queue grows.
LEMMA RequeueHeldFits ==
  ASSUME OInv, RequeueHeld
  PROVE  StepFits /\ (Live(doc) => Len(doc'.queue) = Len(doc.queue) + 1)
<1> DEFINE m == turns[Thread]
           id == reactor.message
<1>1. /\ sessions' = sessions /\ driver' = driver /\ reactor.pc = "requeue" /\ reactor' = Resting
  BY DEF RequeueHeld
<1>2. ASSUME [Next]_vars, turns' = turns, MailFits(mailbox', m)
      PROVE  StepFits
  <2>1. ContentsInv' /\ Thread \in Threads
    BY <1>2, Facts, DocFacts, NextKeepsContents
  <2>2. messages'[Thread] \in Nat /\ m \in Nat
    BY <2>1, Facts DEF ContentsInv
  <2> DEFINE queue == doc'.queue
             q == messages'[Thread]
  <2> HIDE DEF queue, q
  <2>3. ReactorFits(Resting, sessions, mailbox', queue, m, q)
    BY <2>2, Rests DEF q
  <2> QED BY <1>1, <1>2, <2>1, <2>3, Facts DEF StepFits, OInv, DriverFits, queue, q
<1>3. CASE ~Live(doc)
  <2>1. UNCHANGED <<vars, mailbox>>
    BY <1>3 DEF RequeueHeld, AppendEvents
  <2>2. turns' = turns /\ mailbox' = mailbox /\ [Next]_vars
    BY <2>1 DEF vars
  <2> QED BY <1>2, <1>3, <2>2, Facts
<1>4. CASE Live(doc) /\ id # 0
  <2>1. /\ AppendThreadEvents(Thread, <<Queued(id)>>) /\ requests' = requests /\ Publish(<<Queued(id)>>)
    BY <1>4 DEF RequeueHeld, AppendEvents
  <2>2. id \in 1..messages[Thread] /\ ~Holds(doc.queue, id)
    BY <1>1, <1>4, Facts DEF ReactorFits
  <2>3. Requeue(Thread)
    BY <2>1, <2>2 DEF Requeue, Holds, doc
  <2>4. [Next]_vars
    BY <2>3, Facts, DocFacts DEF Next, ServerStep
  <2>5. docs' = [docs EXCEPT ![Thread] = ApplyAll(doc, <<Queued(id)>>)] /\ turns' = turns
    BY <2>1 DEF AppendThreadEvents, Commit, doc
  <2>6. MailFits(mailbox', m)
    <3> DEFINE e == Queued(id)
    <3>1. e.type \in QueueEvents /\ Publish(<<e>>)
      BY <2>1 DEF Queued, QueueEvents
    <3> HIDE DEF e
    <3> QED BY <3>1, Facts, QueueEventMails
  <2> QED BY <1>2, <1>4, <2>4, <2>5, <2>6, Facts, Joins
<1>5. CASE Live(doc) /\ id = 0
  <2>1. QueueSteered(Thread) /\ mailbox' = mailbox
    BY <1>5 DEF RequeueHeld
  <2>2. [Next]_vars
    BY <2>1, Facts, DocFacts DEF Next, ServerStep
  <2>3. docs' = [docs EXCEPT ![Thread] = ApplyAll(doc, <<Queued(messages[Thread] + 1)>>)] /\ turns' = turns
    BY <2>1 DEF QueueSteered, Commit, doc
  <2> QED BY <1>2, <1>5, <2>1, <2>2, <2>3, Facts, Joins
<1> QED BY <1>3, <1>4, <1>5
\* The server is killed: the log survives, and whatever the scan adds to it.
LEMMA RestartFits == ASSUME OInv, Restart PROVE StepFits
<1> DEFINE m == turns[Thread]
           fresh == [s \in Slots |-> Free]
<1>1. mailbox' = <<>> /\ reactor' = Resting /\ sessions' = fresh /\ driver' = 0
  BY DEF Restart
<1>2. [Next]_vars /\ turns' = turns
  <2>1. CASE UNCHANGED vars
    BY <2>1 DEF vars
  <2>2. CASE AppendThreadEvents(Thread, <<SessionLost>>) /\ requests' = requests
    <3>1. ReactorEvent(Thread)
      BY <2>2 DEF ReactorEvent
    <3> QED BY <2>2, <3>1, Facts, DocFacts DEF Next, ServerStep, AppendThreadEvents
  <2> QED BY <2>1, <2>2 DEF Restart, BootScan
<1>3. ContentsInv' /\ Thread \in Threads
  BY <1>2, Facts, DocFacts, NextKeepsContents
<1>4. MailFits(<<>>, m)
  <2> DEFINE mail == <<>>
  <2>1. mail \in Seq(Mail(m)) /\ DOMAIN mail = {}
    OBVIOUS
  <2> HIDE DEF mail
  <2>2. MailFits(mail, m)
    BY <2>1 DEF MailFits
  <2> QED BY <2>2 DEF mail
<1>5. SessionsFit(fresh, m)
  <2>1. Free \in Session(m) /\ Tracked(Free)
    BY Facts, FreeFits DEF Tracked
  <2> QED BY <2>1 DEF SessionsFit
<1> HIDE DEF fresh
<1>6. ReactorFits(Resting, fresh, <<>>, doc'.queue, m, messages'[Thread])
  <2> DEFINE mail == <<>>
             queue == doc'.queue
             q == messages'[Thread]
  <2>1. q \in Nat /\ m \in Nat
    BY <1>3, Facts DEF ContentsInv
  <2> HIDE DEF mail, queue, q, m
  <2>2. ReactorFits(Resting, fresh, mail, queue, m, q)
    BY <2>1, Rests
  <2> QED BY <2>2 DEF mail, queue, q, m
<1> QED BY <1>1, <1>2, <1>3, <1>4, <1>5, <1>6 DEF StepFits, OInv, DriverFits

----------------------------------------------------------------------------
(* All of them.                                                            *)

LEMMA InitFits == ASSUME OrchestrationInit PROVE OInv /\ Init
<1> DEFINE fresh == [s \in Slots |-> Free]
           mail == <<>>
           queue == doc.queue
           m == turns[Thread]
           q == messages[Thread]
<1>1. Init /\ mailbox = mail /\ reactor = Resting /\ sessions = fresh /\ driver = 0
  BY DEF OrchestrationInit, InitServer
<1>2. ContentsInv
  BY <1>1, InitialContents
<1>3. m \in Nat /\ q \in Nat
  BY <1>2, DocFacts
<1>4. mail \in Seq(Mail(m)) /\ DOMAIN mail = {}
  OBVIOUS
<1>5. SessionsFit(fresh, m)
  <2>1. Free \in Session(m) /\ Tracked(Free)
    BY <1>3, FreeFits DEF Tracked
  <2> QED BY <2>1 DEF SessionsFit
<1> HIDE DEF fresh, mail, queue, m, q
<1>6. MailFits(mail, m) /\ ReactorFits(Resting, fresh, mail, queue, m, q)
  BY <1>3, <1>4, Rests DEF MailFits
<1> QED BY <1>1, <1>2, <1>5, <1>6 DEF OInv, DriverFits, queue, m, q

LEMMA ReactorStepFits == ASSUME OInv, ReactorStep PROVE StepFits
<1>1. CASE ReactToRequest \/ ReactToBound \/ ReactToSteer \/ ReactToInterrupt \/ ReactToCompletion \/ ReactToClose
  BY <1>1, RequestFits, BoundFits, SteerFits, InterruptFits, OtherEventsFit
<1>2. CASE Ensure("reactor") \/ Attach("reactor") \/ AttachFailed("reactor")
  BY <1>2, EnsureFits, AttachFits, AttachFailedFits
<1>3. CASE SendTaken \/ SendDuplicate \/ SendBarred \/ Delivers \/ Refuses \/ FailThread \/ Released \/ SettleInterrupted
  BY <1>3, SendTakenFits, WaitingFits, DeliversFits, RefusesFits, ReportsFit
<1>4. CASE Drain \/ DispatchHeld \/ RequeueHeld
  BY <1>4, DrainFits, DispatchHeldFits, RequeueHeldFits
<1>5. CASE CloseSession \/ Closed \/ CloseTimesOut
  BY <1>5, CloseFits, WaitingFits, EndsFit
<1> QED BY <1>1, <1>2, <1>3, <1>4, <1>5 DEF ReactorStep

LEMMA NextFits == ASSUME OInv, [OrchestrationNext]_allVars PROVE StepFits
<1>1. CASE UNCHANGED allVars
  <2>1. UNCHANGED <<vars, mailbox, sessions>> /\ driver' = driver /\ reactor' = reactor
    BY <1>1 DEF allVars, serverVars
  <2> QED BY <2>1, Facts, Turning
<1>2. CASE ClientActs
  BY <1>2, ClientsFit
<1>3. ASSUME NEW s \in Slots, HarnessActs(s) \/ IngestionStep(s)
      PROVE  StepFits
  BY <1>3, HarnessFits, IngestFits, IngestAppendFits, EndsFit DEF IngestionStep
<1>4. CASE ReactorStep
  BY <1>4, ReactorStepFits
<1>5. CASE TakeCrash
  BY <1>5, WaitingFits
<1>6. ASSUME NEW f \in Loops, LoopStep(f)
      PROVE  StepFits
  BY <1>6, WaitingFits, EnsureFits, AttachFits, AttachFailedFits, ReportsFit DEF LoopStep
<1>7. CASE Restart
  BY <1>7, RestartFits
<1> QED BY <1>1, <1>2, <1>3, <1>4, <1>5, <1>6, <1>7 DEF OrchestrationNext

\* Where every fiber stands at every moment: the mail in order, the sessions
\* tracked, the reactor's turn the one its session's handle expects.
THEOREM FibersStayInStep == OrchestrationSafe => []OInv
<1>1. OrchestrationInit => OInv
  BY InitFits
<1>2. OInv /\ [OrchestrationNext]_allVars => OInv'
  BY NextFits DEF StepFits
<1> QED BY <1>1, <1>2, PTL DEF OrchestrationSafe

\* The fibers use the engine as its specification allows its callers, so every
\* theorem about Engine holds of the whole.
THEOREM FibersUseTheEngine == OrchestrationSafe => EngineImplemented
<1>1. OrchestrationInit => Init
  BY InitFits
<1>2. OInv /\ [OrchestrationNext]_allVars => [Next]_vars
  BY NextFits DEF StepFits
<1> QED BY <1>1, <1>2, FibersStayInStep, PTL DEF OrchestrationSafe, EngineImplemented, Spec

\* A harness works only on the turn its handle tracks, in every interleaving
\* of exits, closes, refusals and restarts.
THEOREM HarnessWorkIsTracked == OrchestrationSafe => []WorkIsTracked
<1>1. OInv => WorkIsTracked
  BY Facts DEF WorkIsTracked, Tracked
<1> QED BY <1>1, FibersStayInStep, PTL

----------------------------------------------------------------------------
(* What a step may never do.                                               *)

\* Only these two let go of a held message.
LEMMA LetsGo ==
  ASSUME [OrchestrationNext]_allVars, Holding, reactor'.pc = "idle", ~Restart
  PROVE  DispatchHeld \/ RequeueHeld
<1>1. reactor.pc # "idle" /\ reactor' # reactor /\ reactor.pc \in {"dispatch", "requeueSteer", "requeue"}
  BY DEF Holding
<1>2. ~UNCHANGED allVars /\ ~ClientActs
  BY <1>1 DEF allVars, serverVars, others, ClientActs, OpenProject, OpenThread, Prompted, Prompt, Steer,
              Interrupt, Unqueue, Archive, Unarchive, Delete, Command
<1>3. ASSUME NEW s \in Slots, HarnessActs(s) \/ IngestionStep(s)
      PROVE  FALSE
  BY <1>1, <1>3, Zenon DEF HarnessActs, HarnessCompletes, HarnessFails, IngestionStep, Ingest, IngestAppend, IngestEnds
<1>4. ASSUME NEW f, Ensure(f) \/ Attach(f) \/ AttachFailed(f)
      PROVE  FALSE
  BY <1>1, <1>4 DEF Ensure, Attach, AttachFailed, Phase, Attached
<1>5. ~TakeCrash /\ \A f \in Loops : ~CheckResume(f) /\ ~GiveUp(f)
  BY <1>1, Zenon DEF TakeCrash, CheckResume, GiveUp
<1>6. /\ ~ReactToRequest /\ ~ReactToBound /\ ~ReactToSteer /\ ~ReactToInterrupt
      /\ ~ReactToCompletion /\ ~ReactToClose
  BY <1>1 DEF ReactToRequest, ReactToBound, ReactToSteer, ReactToInterrupt, ReactToCompletion, ReactToClose,
              Reacts, Becomes, Takes
<1>7. /\ ~SendTaken /\ ~SendDuplicate /\ ~SendBarred /\ ~Delivers /\ ~Refuses /\ ~FailThread
      /\ ~Released /\ ~SettleInterrupted /\ ~Drain /\ ~CloseSession /\ ~Closed /\ ~CloseTimesOut
  BY <1>1 DEF SendTaken, SendDuplicate, SendBarred, Deciding, Delivers, Refuses, FailThread, Released,
              SettleInterrupted, Drain, CloseSession, Closed, CloseTimesOut
<1> QED BY <1>2, <1>3, <1>4, <1>5, <1>6, <1>7 DEF OrchestrationNext, ReactorStep, LoopStep

\* A queued send that is accepted starts a turn or joins the queue.
LEMMA HeldStarts ==
  ASSUME ContentsInv, Dispatch(Thread, QueuedStart)
  PROVE  turns'[Thread] = turns[Thread] + 1 \/ Len(doc'.queue) = Len(doc.queue) + 1
<1> DEFINE env == Env(Thread)
           res == Decided(QueuedStart)
<1>1. /\ res.accepted /\ Minted(Thread, res.events) /\ Live(doc)
      /\ docs' = [docs EXCEPT ![Thread] = ApplyAll(doc, res.events)]
  BY DEF Dispatch, Commit, Decided, doc, QueuedStart, Decide, Rejected
<1>2. res.events = NewTurn(env) \/ res.events = <<Queued(env.message)>>
  BY <1>1 DEF Decided, Decide, DecideLive, QueuedStart, DecideTurnStart, Accepted, Rejected, When
<1>3. CASE res.events = NewTurn(env)
  <2>1. 1 \in DOMAIN NewTurn(env) /\ NewTurn(env)[1].type = "thread.turn.requested"
    BY DEF NewTurn, TurnRequested
  <2> QED BY <1>1, <1>3, <2>1, DocFacts DEF Minted, Spent, ContentsInv
<1>4. CASE res.events = <<Queued(env.message)>>
  BY <1>1, <1>4, Joins
<1> QED BY <1>2, <1>3, <1>4

\* A message the reactor holds is let go of only as a turn requested or a
\* message queued: dispatch, refusal and requeue lose none.
THEOREM HeldMessagesAreKept == OrchestrationSafe => HeldIsNeverDropped
<1>1. ASSUME OInv, [OrchestrationNext]_allVars, Holding, reactor'.pc = "idle", Live(doc), ~Restart
      PROVE  turns'[Thread] = turns[Thread] + 1 \/ Len(doc'.queue) = Len(doc.queue) + 1
  <2>1. CASE RequeueHeld
    BY <1>1, <2>1, RequeueHeldFits
  <2>2. CASE DispatchHeld
    <3>1. [reactor EXCEPT !.pc = "requeue"].pc = "requeue"
      BY <1>1, Facts
    <3>2. Dispatch(Thread, QueuedStart)
      BY <1>1, <2>2, <3>1 DEF DispatchHeld
    <3> QED BY <1>1, <3>2, Facts, HeldStarts
  <2> QED BY <1>1, <2>1, <2>2, LetsGo
<1>2. OInv /\ [OrchestrationNext]_allVars
        => [Holding /\ reactor'.pc = "idle" /\ Live(doc) /\ ~Restart
              => turns'[Thread] = turns[Thread] + 1 \/ Len(doc'.queue) = Len(doc.queue) + 1]_allVars
  BY <1>1
<1> QED BY <1>2, FibersStayInStep, PTL DEF OrchestrationSafe, HeldIsNeverDropped
\* A session is set to work by a delivery, and by nothing else.
LEMMA SetsToWork ==
  ASSUME OInv, [OrchestrationNext]_allVars, NEW s \in Slots, ~sessions[s].busy, sessions'[s].busy
  PROVE  Delivers
<1>1. sessions' # sessions /\ \A t \in Slots : \A y : y.busy = FALSE => sessions' # [sessions EXCEPT ![t] = y]
  BY Facts DEF SessionsFit
<1>2. \A t \in Slots : \A y : y.busy = sessions[t].busy => sessions' # [sessions EXCEPT ![t] = y]
  BY Facts DEF SessionsFit
<1>3. \A t \in Slots : sessions[t] \in Session(turns[Thread])
  BY Facts
<1>4. ~Free.busy /\ ~Started.busy
  BY Facts, FreeFits, StartedMoves DEF Started, Free
<1>5. ~UNCHANGED allVars /\ ~ClientActs
  BY <1>1 DEF allVars, serverVars, others, ClientActs, OpenProject, OpenThread, Prompted, Prompt, Steer,
              Interrupt, Unqueue, Archive, Unarchive, Delete, Command
<1>6. ~TakeCrash /\ \A f : ~CheckResume(f) /\ ~GiveUp(f) /\ ~Ensure(f) /\ ~AttachFailed(f)
  BY <1>1, Zenon DEF TakeCrash, CheckResume, GiveUp, Ensure, AttachFailed
<1>7. /\ ~ReactToRequest /\ ~ReactToBound /\ ~ReactToSteer /\ ~ReactToInterrupt
      /\ ~ReactToCompletion /\ ~ReactToClose
  BY <1>1 DEF ReactToRequest, ReactToBound, ReactToSteer, ReactToInterrupt, ReactToCompletion, ReactToClose,
              Reacts, Becomes
<1>8. /\ ~SendDuplicate /\ ~SendBarred /\ ~FailThread /\ ~Released /\ ~SettleInterrupted
      /\ ~Drain /\ ~DispatchHeld /\ ~RequeueHeld /\ ~Closed
  BY <1>1 DEF SendDuplicate, SendBarred, FailThread, Released, SettleInterrupted, Drain, DispatchHeld,
              RequeueHeld, Closed
<1>9. \A f : ~Attach(f)
  <2> SUFFICES ASSUME NEW f, Attach(f) PROVE FALSE
    OBVIOUS
  <2> DEFINE t == CHOOSE free \in FreeSlots : TRUE
  <2>1. t \in FreeSlots /\ sessions' = [sessions EXCEPT ![t] = Started]
    BY DEF Attach
  <2>2. t \in Slots
    BY <2>1 DEF FreeSlots
  <2> HIDE DEF t
  <2> QED BY <1>1, <1>4, <2>1, <2>2
<1>10. ASSUME NEW t \in Slots, Ended(t)
       PROVE  FALSE
  <2> DEFINE y == IF reactor.session = t THEN [Free EXCEPT !.handle = sessions[t].handle] ELSE Free
  <2>1. sessions' = [sessions EXCEPT ![t] = y]
    BY <1>10 DEF Ended
  <2>2. ~y.busy
    BY Facts, AppendedMoves DEF Free
  <2> HIDE DEF y
  <2> QED BY <1>1, <1>10, <2>1, <2>2
<1>11. ~(\E t \in Slots : IngestEnds(t)) /\ ~CloseTimesOut
  <2>1. CloseTimesOut => reactor.session \in Slots
    BY Facts DEF CloseTimesOut, ReactorFits
  <2> QED BY <1>10, <2>1 DEF IngestEnds, CloseTimesOut
<1>12. ASSUME NEW t \in Slots
       PROVE  ~HarnessActs(t) /\ ~Ingest(t) /\ ~IngestAppend(t)
  <2>1. ~HarnessCompletes(t)
    <3> DEFINE y == [sessions[t] EXCEPT !.out = Append(@, "turn.completed"), !.busy = FALSE]
    <3>1. HarnessCompletes(t) => sessions' = [sessions EXCEPT ![t] = y]
      BY DEF HarnessCompletes
    <3>2. y.busy = FALSE
      BY <1>3 DEF Session
    <3> HIDE DEF y
    <3> QED BY <1>1, <3>1, <3>2
  <2>2. ~HarnessFails(t)
    <3>1. ASSUME NEW out, sessions' = [sessions EXCEPT ![t].out = out, ![t].busy = FALSE] PROVE FALSE
      <4> DEFINE y == [sessions[t] EXCEPT !.out = out, !.busy = FALSE]
      <4>1. sessions' = [sessions EXCEPT ![t] = y] /\ y.busy = FALSE
        BY <1>3, <3>1 DEF Session
      <4> HIDE DEF y
      <4> QED BY <1>1, <4>1
    <3>2. ASSUME NEW out, sessions' = [sessions EXCEPT ![t].out = out, ![t].busy = FALSE, ![t].up = FALSE] PROVE FALSE
      <4> DEFINE y == [sessions[t] EXCEPT !.out = out, !.busy = FALSE, !.up = FALSE]
      <4>1. sessions' = [sessions EXCEPT ![t] = y] /\ y.busy = FALSE
        BY <1>3, <3>2 DEF Session
      <4> HIDE DEF y
      <4> QED BY <1>1, <4>1
    <3> QED BY <3>1, <3>2 DEF HarnessFails
  <2>3. ~Ingest(t)
    <3> DEFINE x == sessions[t]
               h == IF Head(x.out) = "end" THEN Finalized(x.handle) ELSE Normalized(x.handle, Head(x.out))
               read == Logged(IF Head(x.out) = "end" THEN FinalEmissions(x.handle)
                              ELSE Emissions(x.handle, Head(x.out)))
               why == IF Head(x.out) = "session.ended" THEN "stopped" ELSE x.why
               y == [x EXCEPT !.out = Tail(@), !.pending = read, !.handle = h, !.why = why]
    <3>1. Ingest(t) => sessions' = [sessions EXCEPT ![t] = y]
      BY DEF Ingest
    <3> HIDE DEF h, read, why
    <3>2. y.busy = x.busy
      BY <1>3 DEF Session
    <3> HIDE DEF y
    <3> QED BY <1>2, <3>1, <3>2
  <2>4. ~IngestAppend(t)
    <3> DEFINE y == [sessions[t] EXCEPT !.pending = Tail(@)]
    <3>1. IngestAppend(t) => sessions' = [sessions EXCEPT ![t] = y]
      BY DEF IngestAppend
    <3>2. y.busy = sessions[t].busy
      BY <1>3 DEF Session
    <3> HIDE DEF y
    <3> QED BY <1>2, <3>1, <3>2
  <2> QED BY <2>1, <2>2, <2>3, <2>4 DEF HarnessActs
<1>13. ~SendTaken /\ ~Refuses
  <2>1. ASSUME NEW h, sessions' = [sessions EXCEPT ![reactor.session].handle = h], reactor.session \in Slots
        PROVE  FALSE
    <3> DEFINE t == reactor.session
               y == [sessions[t] EXCEPT !.handle = h]
    <3>1. sessions' = [sessions EXCEPT ![t] = y] /\ y.busy = sessions[t].busy /\ t \in Slots
      BY <1>3, <2>1 DEF Session
    <3> HIDE DEF y, t
    <3> QED BY <1>2, <3>1
  <2>2. SendTaken \/ Refuses => reactor.session \in Slots
    BY Facts DEF SendTaken, Deciding, Refuses, ReactorFits, Resending
  <2>3. SendTaken \/ Refuses => \E h : sessions' = [sessions EXCEPT ![reactor.session].handle = h]
    BY DEF SendTaken, Refuses
  <2> QED BY <2>1, <2>2, <2>3
<1>14. ~CloseSession
  <2> DEFINE y == [sessions[driver] EXCEPT !.alive = FALSE, !.up = FALSE, !.busy = FALSE,
                     !.out = IF sessions[driver].up THEN @ \o <<"session.ended", "end">> ELSE @]
  <2>1. CloseSession => sessions' = sessions \/ (driver \in Slots /\ sessions' = [sessions EXCEPT ![driver] = y])
    BY Facts DEF CloseSession
  <2>2. driver \in Slots => y.busy = FALSE
    BY <1>3 DEF Session
  <2> HIDE DEF y
  <2> QED BY <1>1, <2>1, <2>2
<1>15. ~Restart
  BY <1>4 DEF Restart
<1> QED BY <1>5, <1>6, <1>7, <1>8, <1>9, <1>11, <1>12, <1>13, <1>14, <1>15
        DEF OrchestrationNext, ReactorStep, LoopStep, IngestionStep

\* Turns reach the harness in the order they were asked for, through crashes,
\* resumed sessions and re-sends.
THEOREM TurnsReachTheHarnessInOrder == OrchestrationSafe => TurnsSentInOrder
<1> DEFINE InOrderOnce ==
      \A s \in Slots : ~sessions[s].busy /\ sessions'[s].busy
        => IF reactor.pc = "resending"
           THEN \A r \in Slots : sessions[r].got <= sessions'[s].got
           ELSE \A k \in DOMAIN mailbox : mailbox[k].type = "thread.turn.requested"
                                           => mailbox[k].turn > sessions'[s].got
<1>1. ASSUME OInv, [OrchestrationNext]_allVars
      PROVE  InOrderOnce
  <2> SUFFICES ASSUME NEW s \in Slots, ~sessions[s].busy, sessions'[s].busy
               PROVE  IF reactor.pc = "resending"
                      THEN \A r \in Slots : sessions[r].got <= sessions'[s].got
                      ELSE \A k \in DOMAIN mailbox : mailbox[k].type = "thread.turn.requested"
                                                      => mailbox[k].turn > sessions'[s].got
    OBVIOUS
  <2> DEFINE t == reactor.session
             y == [sessions[t] EXCEPT !.got = reactor.turn, !.busy = TRUE, !.out = Append(@, "turn.started")]
  <2>1. Delivers
    BY <1>1, SetsToWork
  <2>2. /\ reactor.pc \in {"sending", "resending"}
        /\ sessions' = IF ~sessions[t].up THEN sessions ELSE [sessions EXCEPT ![t] = y]
    BY <2>1 DEF Delivers
  <2>3. t \in Slots /\ sessions[t] \in Session(turns[Thread])
    BY <1>1, <2>2, Delivering, Facts
  <2>4. y.got = reactor.turn
    BY <2>3 DEF Session
  <2> HIDE DEF y
  <2>5. sessions'[s].got = reactor.turn
    <3>1. sessions' = [sessions EXCEPT ![t] = y]
      BY <2>2
    <3>2. s = t
      BY <3>1, <1>1, Facts DEF SessionsFit
    <3> QED BY <2>3, <2>4, <3>1, <3>2, <1>1, Facts DEF SessionsFit
  <2>6. CASE reactor.pc = "resending"
    BY <1>1, <2>5, <2>6, Facts DEF ReactorFits, Resending
  <2>7. CASE reactor.pc = "sending"
    <3>1. ASSUME NEW k \in DOMAIN mailbox, mailbox[k].type = "thread.turn.requested"
          PROVE  mailbox[k].turn > reactor.turn
      <4>1. reactor.turn < mailbox[k].turn
        BY <1>1, <2>7, <3>1, Facts DEF ReactorFits, Requesting, IsRequest
      <4> QED BY <4>1
    <3> QED BY <2>5, <2>7, <3>1
  <2> QED BY <2>2, <2>6, <2>7
<1>2. OInv /\ [OrchestrationNext]_allVars => [InOrderOnce]_allVars
  BY <1>1
<1> HIDE DEF InOrderOnce
<1>3. OrchestrationSafe => [][InOrderOnce]_allVars
  BY <1>2, FibersStayInStep, PTL DEF OrchestrationSafe
<1> QED BY <1>3 DEF InOrderOnce, TurnsSentInOrder

=============================================================================
