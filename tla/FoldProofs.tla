------------------------------ MODULE FoldProofs -----------------------------
(***************************************************************************)
(* Proofs about TwoFolds.tla, for any number of turns, messages and        *)
(* requests.  The invariant (Pair) ties the two folds of one log: what the *)
(* view copies is equal, a card it shows is open in the document, and a    *)
(* request is open or listed, never both, on either side.  It is shown of  *)
(* one event (EventPair), of what the decider may hand the folds           *)
(* (DecisionKeeps) and of what everybody else appends.  The turn in flight *)
(* may differ, and has lemmas of its own.                                  *)
(***************************************************************************)
EXTENDS TwoFolds, SequenceTheorems, FiniteSetTheorems, TLAPS

ViewFields == {"status", "session", "turn", "queue", "approval", "userInput", "plan", "decisions",
               "checkpoints", "restoring"}

\* Both are records, whatever their fields hold.
Framed(d, v) == d = [f \in DocFields |-> d[f]] /\ v = [f \in ViewFields |-> v[f]]

\* What the view copies as it is.  (A session says whether it can be steered.)
Copied(d, v) ==
  /\ d.session.steering \in Steering
  /\ v.queue = d.queue /\ v.session = d.session /\ v.plan = d.plan
  /\ v.checkpoints = d.checkpoints /\ v.restoring = d.restoring

Lines(r) == [id : 1..r, outcome : {"answered", "unanswered"}]
Listed(log, id) == \E k \in DOMAIN log : log[k].id = id
Single(log) == \A j, k \in DOMAIN log : log[j].id = log[k].id => j = k

\* The document's log of decisions and the lines the view shows of it.
LogsFit(log, shown, r) ==
  /\ log \in Seq(Lines(r)) /\ shown \in Seq(Lines(r))
  /\ Single(log) /\ Single(shown)
  /\ \A k \in DOMAIN log : \E j \in DOMAIN shown : shown[j] = log[k]

\* The requests of a kind that were ever made.
Made(cards, kind) == {r \in DOMAIN cards : cards[r] = kind}

\* The open requests of a kind, and the card that the view shows of them.
KindFits(open, card, made, shown) ==
  /\ open \subseteq made
  /\ card # 0 => card \in open
  /\ \A id \in open : ~Listed(shown, id)

CardsFit(d, v, cards) ==
  /\ LogsFit(d.decisions, v.decisions, Len(cards))
  /\ KindFits(d.approvals, v.approval, Made(cards, "approval"), v.decisions)
  /\ KindFits(d.userInputs, v.userInput, Made(cards, "question"), v.decisions)

Pair(d, v, cards) ==
  /\ Framed(d, v) /\ Copied(d, v)
  /\ CardsFit(d, v, cards)

Mints ==
  /\ minted = [f \in {"turns", "messages", "cards"} |-> minted[f]]
  /\ minted.turns \in Nat /\ minted.cards \in Seq({"approval", "question"})

FoldsInv == Mints /\ Pair(doc, view, minted.cards)

\* What the writer of an event owes the two folds.
Owed(d, v, e, cards) ==
  /\ e.type \in LifeEvents \cup SessionEvents \cup TurnEvents \cup QueueEvents \cup CardEvents
                \cup RestoreEvents \cup {"thread.item.upserted"}
  /\ e.type = "thread.session.bound" => e.steering \in Steering
  /\ e.type = "thread.plan.responded" => e.turn = d.plan
  /\ e.type = "thread.approval.opened" =>
       e.request \in Made(cards, "approval") /\ ~Listed(v.decisions, e.request)
  /\ e.type = "thread.userInput.requested" =>
       e.request \in Made(cards, "question") /\ ~Listed(v.decisions, e.request)
  /\ e.type = "thread.approval.resolved" => e.request \in Made(cards, "approval")
  /\ e.type = "thread.userInput.resolved" => e.request \in Made(cards, "question")

----------------------------------------------------------------------------
(* One event on both sides.                                                *)

\* Events that leave decisions and cards alone need only agree on the rest.
LEMMA Beside ==
  ASSUME NEW d, NEW v, NEW cards, CardsFit(d, v, cards), NEW c, NEW w,
         c.approvals = d.approvals, c.userInputs = d.userInputs, c.decisions = d.decisions,
         w.approval = v.approval, w.userInput = v.userInput, w.decisions = v.decisions
  PROVE  CardsFit(c, w, cards)
BY DEF CardsFit

\* When a session is gone so are its cards, on both sides.
LEMMA Dropped ==
  ASSUME NEW d, NEW v, NEW cards, CardsFit(d, v, cards), NEW c, NEW w,
         c.approvals = {}, c.userInputs = {}, c.decisions = d.decisions,
         w.approval = 0, w.userInput = 0, w.decisions = v.decisions
  PROVE  CardsFit(c, w, cards)
BY DEF CardsFit, KindFits

\* An event that is not about a card or a decision.
LEMMA Aside ==
  ASSUME NEW d, NEW v, NEW cards, Pair(d, v, cards), NEW c, NEW w, Framed(c, w), Copied(c, w),
         c.approvals = d.approvals, c.userInputs = d.userInputs, c.decisions = d.decisions,
         w.approval = v.approval, w.userInput = v.userInput, w.decisions = v.decisions
  PROVE  Pair(c, w, cards)
<1>1. CardsFit(c, w, cards)
  BY Beside DEF Pair
<1> QED BY <1>1 DEF Pair

\* The turn, its stop and the status are nobody else's concern.
OnlyTurn(d, c) ==
  /\ c = [f \in DocFields |-> c[f]]
  /\ \A f \in DocFields \ {"turn", "interrupting", "status"} : c[f] = d[f]
OnlyTurnShown(v, w) ==
  /\ w = [f \in ViewFields |-> w[f]]
  /\ \A f \in ViewFields \ {"turn", "status"} : w[f] = v[f]

LEMMA TurnAside ==
  ASSUME NEW d, NEW v, NEW cards, Pair(d, v, cards), NEW c, OnlyTurn(d, c),
         NEW w, OnlyTurnShown(v, w)
  PROVE  Pair(c, w, cards)
<1>1. /\ c.queue = d.queue /\ c.session = d.session /\ c.plan = d.plan
      /\ c.checkpoints = d.checkpoints /\ c.restoring = d.restoring
      /\ c.approvals = d.approvals /\ c.userInputs = d.userInputs /\ c.decisions = d.decisions
  BY DEF OnlyTurn, DocFields
<1>2. /\ w.queue = v.queue /\ w.session = v.session /\ w.plan = v.plan
      /\ w.checkpoints = v.checkpoints /\ w.restoring = v.restoring
      /\ w.approval = v.approval /\ w.userInput = v.userInput /\ w.decisions = v.decisions
  BY DEF OnlyTurnShown, ViewFields
<1>3. Framed(c, w)
  BY DEF OnlyTurn, OnlyTurnShown, Framed
<1>4. Copied(c, w)
  BY <1>1, <1>2 DEF Pair, Copied
<1> QED BY <1>1, <1>2, <1>3, <1>4, Aside

\* Both have dropped the cards of a process that is gone.
LEMMA Gone ==
  ASSUME NEW d, NEW v, NEW cards, Pair(d, v, cards), NEW c, NEW w, Framed(c, w), Copied(c, w),
         c.approvals = {}, c.userInputs = {}, c.decisions = d.decisions,
         w.approval = 0, w.userInput = 0, w.decisions = v.decisions
  PROVE  Pair(c, w, cards)
<1>1. CardsFit(c, w, cards)
  BY Dropped DEF Pair
<1> QED BY <1>1 DEF Pair

LEMMA LifePair ==
  ASSUME NEW d, NEW v, NEW e, NEW cards, Pair(d, v, cards), e.type \in LifeEvents
  PROVE  Pair(ApplyLife(d, e), ViewLife(v, e), cards)
<1> DEFINE c == ApplyLife(d, e)
           w == ViewLife(v, e)
<1>1. CASE e.type = "thread.archived"
  <2>1. c = [d EXCEPT !.status = "archived"] /\ w = [v EXCEPT !.status = "archived"]
    BY <1>1 DEF ApplyLife, ViewLife
  <2> HIDE DEF c, w
  <2>2. Framed(c, w) /\ Copied(c, w)
    BY <2>1 DEF Pair, Framed, DocFields, ViewFields, Copied
  <2>3. /\ c.approvals = d.approvals /\ c.userInputs = d.userInputs /\ c.decisions = d.decisions
        /\ w.approval = v.approval /\ w.userInput = v.userInput /\ w.decisions = v.decisions
    BY <2>1 DEF Pair, Framed, DocFields, ViewFields
  <2>4. Pair(c, w, cards)
    BY <2>2, <2>3, Aside
  <2> QED BY <2>4 DEF c, w
<1>2. CASE e.type = "thread.unarchived"
  <2>1. PICK s, z :
          /\ c = [d EXCEPT !.approvals = {}, !.userInputs = {}, !.turn = 0,
                           !.interrupting = FALSE, !.status = s]
          /\ w = [v EXCEPT !.turn = 0, !.approval = 0, !.userInput = 0, !.status = z]
    BY <1>2 DEF ApplyLife, ViewLife, Abandoned, ViewAbandoned
  <2> HIDE DEF c, w
  <2>2. Framed(c, w) /\ Copied(c, w)
    BY <2>1 DEF Pair, Framed, DocFields, ViewFields, Copied
  <2>3. /\ c.approvals = {} /\ c.userInputs = {} /\ c.decisions = d.decisions
        /\ w.approval = 0 /\ w.userInput = 0 /\ w.decisions = v.decisions
    BY <2>1 DEF Pair, Framed, DocFields, ViewFields
  <2>4. Pair(c, w, cards)
    BY <2>2, <2>3, Gone
  <2> QED BY <2>4 DEF c, w
<1>3. CASE e.type = "thread.deleted"
  <2>1. c = [d EXCEPT !.life = "deleted"] /\ w = [v EXCEPT !.status = "deleted", !.turn = 0]
    BY <1>3 DEF ApplyLife, ViewLife
  <2> HIDE DEF c, w
  <2>2. Framed(c, w) /\ Copied(c, w)
    BY <2>1 DEF Pair, Framed, DocFields, ViewFields, Copied
  <2>3. /\ c.approvals = d.approvals /\ c.userInputs = d.userInputs /\ c.decisions = d.decisions
        /\ w.approval = v.approval /\ w.userInput = v.userInput /\ w.decisions = v.decisions
    BY <2>1 DEF Pair, Framed, DocFields, ViewFields
  <2>4. Pair(c, w, cards)
    BY <2>2, <2>3, Aside
  <2> QED BY <2>4 DEF c, w
<1> QED BY <1>1, <1>2, <1>3 DEF LifeEvents

LEMMA SessionPair ==
  ASSUME NEW d, NEW v, NEW e, NEW cards, Pair(d, v, cards), e.type \in SessionEvents,
         Owed(d, v, e, cards)
  PROVE  Pair(ApplySession(d, e), ViewSession(v, e), cards)
<1> DEFINE c == ApplySession(d, e)
           w == ViewSession(v, e)
<1>1. CASE e.type = "thread.session.bound"
  <2> DEFINE s == [instance |-> e.instance, steering |-> e.steering]
  <2>1. c = [d EXCEPT !.session = s] /\ w = [v EXCEPT !.session = s]
    BY <1>1 DEF ApplySession, ViewSession
  <2>2. s.steering \in Steering
    BY <1>1 DEF Owed
  <2> HIDE DEF c, w, s
  <2>3. Framed(c, w) /\ Copied(c, w)
    BY <2>1, <2>2 DEF Pair, Framed, DocFields, ViewFields, Copied
  <2>4. /\ c.approvals = d.approvals /\ c.userInputs = d.userInputs /\ c.decisions = d.decisions
        /\ w.approval = v.approval /\ w.userInput = v.userInput /\ w.decisions = v.decisions
    BY <2>1 DEF Pair, Framed, DocFields, ViewFields
  <2>5. Pair(c, w, cards)
    BY <2>3, <2>4, Aside
  <2> QED BY <2>5 DEF c, w
<1>2. CASE e.type = "thread.session.lost"
  <2>1. /\ c = [d EXCEPT !.approvals = {}, !.userInputs = {}, !.turn = 0,
                         !.interrupting = FALSE, !.session = NoSession, !.status = "error"]
        /\ w = [v EXCEPT !.turn = 0, !.approval = 0, !.userInput = 0, !.session = NoSession,
                         !.status = "error"]
    BY <1>2 DEF ApplySession, ViewSession, Abandoned, ViewAbandoned
  <2> HIDE DEF c, w
  <2>2. Framed(c, w) /\ Copied(c, w)
    BY <2>1 DEF NoSession, Steering, Pair, Framed, DocFields, ViewFields, Copied
  <2>3. /\ c.approvals = {} /\ c.userInputs = {} /\ c.decisions = d.decisions
        /\ w.approval = 0 /\ w.userInput = 0 /\ w.decisions = v.decisions
    BY <2>1 DEF Pair, Framed, DocFields, ViewFields
  <2>4. Pair(c, w, cards)
    BY <2>2, <2>3, Gone
  <2> QED BY <2>4 DEF c, w
<1> QED BY <1>1, <1>2 DEF SessionEvents

\* An event of a turn touches nothing else, on either side.
LEMMA TurnEffect ==
  ASSUME NEW d, NEW v, NEW e, Framed(d, v), e.type \in TurnEvents
  PROVE  OnlyTurn(d, ApplyTurn(d, e)) /\ OnlyTurnShown(v, ViewTurn(v, e))
<1>1. OnlyTurn(d, d) /\ OnlyTurnShown(v, v)
  BY DEF Framed, OnlyTurn, OnlyTurnShown
<1>2. \A m, s : OnlyTurn(d, [d EXCEPT !.turn = m, !.status = s])
  BY DEF Framed, OnlyTurn, DocFields
<1>3. \A s : OnlyTurn(d, [d EXCEPT !.status = s])
  BY DEF Framed, OnlyTurn, DocFields
<1>4. \A s : OnlyTurn(d, [d EXCEPT !.interrupting = TRUE, !.status = s])
  BY DEF Framed, OnlyTurn, DocFields
<1>5. \A s : OnlyTurn(d, [d EXCEPT !.turn = 0, !.interrupting = FALSE, !.status = s])
  BY DEF Framed, OnlyTurn, DocFields
<1>6. \A s : OnlyTurn(d, [d EXCEPT !.status = s, !.turn = 0, !.interrupting = FALSE])
  BY DEF Framed, OnlyTurn, DocFields
<1>7. \A m, s : OnlyTurnShown(v, [v EXCEPT !.turn = m, !.status = s])
  BY DEF Framed, OnlyTurnShown, ViewFields
<1>8. \A s : OnlyTurnShown(v, [v EXCEPT !.status = s, !.turn = 0])
  BY DEF Framed, OnlyTurnShown, ViewFields
<1>9. OnlyTurn(d, Settled(d, e.turn))
  BY <1>1, <1>5 DEF Settled
<1>10. OnlyTurnShown(v, ViewSettled(v, e.turn))
  BY <1>1, <1>7 DEF ViewSettled
<1>11. OnlyTurn(d, ApplyTurn(d, e))
  BY <1>1, <1>2, <1>3, <1>4, <1>6, <1>9 DEF ApplyTurn, TurnEvents
<1>12. OnlyTurnShown(v, ViewTurn(v, e))
  BY <1>1, <1>7, <1>8, <1>10 DEF ViewTurn, TurnEvents
<1> QED BY <1>11, <1>12

LEMMA TurnPair ==
  ASSUME NEW d, NEW v, NEW e, NEW cards, Pair(d, v, cards), e.type \in TurnEvents
  PROVE  Pair(ApplyTurn(d, e), ViewTurn(v, e), cards)
BY TurnEffect, TurnAside DEF Pair

LEMMA QueuePair ==
  ASSUME NEW d, NEW v, NEW e, NEW cards, Pair(d, v, cards), e.type \in QueueEvents
  PROVE  Pair(ApplyQueue(d, e), ViewQueue(v, e), cards)
<1> DEFINE c == ApplyQueue(d, e)
           w == ViewQueue(v, e)
<1>1. v.queue = d.queue
  BY DEF Pair, Copied
<1>2. PICK q : c = [d EXCEPT !.queue = q] /\ w = [v EXCEPT !.queue = q]
  BY <1>1 DEF ApplyQueue, ViewQueue, QueueEvents
<1> HIDE DEF c, w
<1>3. Framed(c, w) /\ Copied(c, w)
  BY <1>2 DEF Pair, Framed, DocFields, ViewFields, Copied
<1>4. Pair(c, w, cards)
  BY <1>2, <1>3, Aside DEF Pair, Framed, DocFields, ViewFields
<1> QED BY <1>4 DEF c, w

LEMMA RestorePair ==
  ASSUME NEW d, NEW v, NEW e, NEW cards, Pair(d, v, cards), e.type \in RestoreEvents
  PROVE  Pair(ApplyRestore(d, e), ViewRestore(v, e), cards)
<1> DEFINE c == ApplyRestore(d, e)
           w == ViewRestore(v, e)
<1>1. v.checkpoints = d.checkpoints
  BY DEF Pair, Copied
<1>2. CASE e.type = "thread.checkpoint.created"
  <2>1. PICK s : c = [d EXCEPT !.checkpoints = s] /\ w = [v EXCEPT !.checkpoints = s]
    BY <1>1, <1>2 DEF ApplyRestore, ViewRestore
  <2> HIDE DEF c, w
  <2>2. Framed(c, w) /\ Copied(c, w)
    BY <2>1 DEF Pair, Framed, DocFields, ViewFields, Copied
  <2>3. /\ c.approvals = d.approvals /\ c.userInputs = d.userInputs /\ c.decisions = d.decisions
        /\ w.approval = v.approval /\ w.userInput = v.userInput /\ w.decisions = v.decisions
    BY <2>1 DEF Pair, Framed, DocFields, ViewFields
  <2>4. Pair(c, w, cards)
    BY <2>2, <2>3, Aside
  <2> QED BY <2>4 DEF c, w
<1>3. CASE e.type # "thread.checkpoint.created"
  <2>1. PICK m : c = [d EXCEPT !.restoring = m] /\ w = [v EXCEPT !.restoring = m]
    BY <1>3 DEF ApplyRestore, ViewRestore, RestoreEvents
  <2> HIDE DEF c, w
  <2>2. Framed(c, w) /\ Copied(c, w)
    BY <2>1 DEF Pair, Framed, DocFields, ViewFields, Copied
  <2>3. /\ c.approvals = d.approvals /\ c.userInputs = d.userInputs /\ c.decisions = d.decisions
        /\ w.approval = v.approval /\ w.userInput = v.userInput /\ w.decisions = v.decisions
    BY <2>1 DEF Pair, Framed, DocFields, ViewFields
  <2>4. Pair(c, w, cards)
    BY <2>2, <2>3, Aside
  <2> QED BY <2>4 DEF c, w
<1> QED BY <1>2, <1>3

----------------------------------------------------------------------------
(* Cards.                                                                  *)

\* A request that nothing lists is added to what is shown of it, and to the
\* document's log as well or not.
LEMMA Listing ==
  ASSUME NEW r \in Nat, NEW log, NEW shown, LogsFit(log, shown, r), NEW id \in 1..r,
         ~Listed(shown, id), NEW outcome \in {"answered", "unanswered"},
         NEW line, line = [id |-> id, outcome |-> outcome]
  PROVE  /\ LogsFit(log, Append(shown, line), r)
         /\ LogsFit(Append(log, line), Append(shown, line), r)
         /\ \A other : Listed(Append(shown, line), other) => Listed(shown, other) \/ other = id
<1> DEFINE T == Lines(r)
           new == Append(shown, line)
           next == Append(log, line)
<1>1. line \in T /\ line.id = id
  BY DEF Lines
<1>2. log \in Seq(T) /\ shown \in Seq(T)
  BY DEF LogsFit
<1> HIDE DEF T
<1>3. /\ new \in Seq(T) /\ Len(new) = Len(shown) + 1 /\ new[Len(shown) + 1] = line
      /\ \A i \in 1..Len(shown) : new[i] = shown[i]
  BY <1>1, <1>2, AppendProperties
<1>4. /\ next \in Seq(T) /\ Len(next) = Len(log) + 1 /\ next[Len(log) + 1] = line
      /\ \A i \in 1..Len(log) : next[i] = log[i]
  BY <1>1, <1>2, AppendProperties
<1> HIDE DEF new, next
<1>5. /\ Len(log) \in Nat /\ DOMAIN log = 1..Len(log) /\ DOMAIN next = 1..Len(log) + 1
      /\ Len(shown) \in Nat /\ DOMAIN shown = 1..Len(shown) /\ DOMAIN new = 1..Len(shown) + 1
  BY <1>2, <1>3, <1>4
<1>6. \A i \in DOMAIN new : i = Len(shown) + 1 \/ (i \in DOMAIN shown /\ new[i] = shown[i])
  BY <1>3, <1>5
<1>7. \A i \in DOMAIN next : i = Len(log) + 1 \/ (i \in DOMAIN log /\ next[i] = log[i])
  BY <1>4, <1>5
<1>8. \A i \in DOMAIN shown : shown[i].id # id
  BY DEF Listed
<1>9. \A i \in DOMAIN log : log[i].id # id
  BY <1>8 DEF LogsFit
<1>10. Single(new)
  BY <1>1, <1>3, <1>6, <1>8 DEF LogsFit, Single
<1>11. Single(next)
  BY <1>1, <1>4, <1>7, <1>9 DEF LogsFit, Single
<1>12. \A k \in DOMAIN log : \E j \in DOMAIN new : new[j] = log[k]
  <2>1. DOMAIN shown \subseteq DOMAIN new /\ \A j \in DOMAIN shown : new[j] = shown[j]
    BY <1>3, <1>5
  <2> QED BY <2>1 DEF LogsFit
<1>13. \A k \in DOMAIN next : \E j \in DOMAIN new : new[j] = next[k]
  <2>1. Len(shown) + 1 \in DOMAIN new
    BY <1>5
  <2> QED BY <1>3, <1>4, <1>7, <1>12, <2>1
<1>14. LogsFit(log, new, r)
  BY <1>2, <1>3, <1>10, <1>12 DEF LogsFit, T
<1>15. LogsFit(next, new, r)
  BY <1>3, <1>4, <1>10, <1>11, <1>13 DEF LogsFit, T
<1>16. \A other : Listed(new, other) => Listed(shown, other) \/ other = id
  BY <1>1, <1>3, <1>6 DEF Listed
<1> QED BY <1>14, <1>15, <1>16 DEF new, next

\* What answering request `id` of one kind makes of that kind's cards and of
\* the logs; the other kind is left as it is.
Resolving(open, card, log, shown, id, outcome, open1, card1, log1, shown1) ==
  LET line == [id |-> id, outcome |-> outcome]
  IN  /\ open1 = open \ {id}
      /\ card1 = IF card = id THEN 0 ELSE card
      /\ log1 = IF id \in open THEN Append(log, line) ELSE log
      /\ shown1 = IF card # id /\ Listed(shown, id) THEN shown ELSE Append(shown, line)

LEMMA ResolvingFits ==
  ASSUME NEW r \in Nat, NEW made \in SUBSET (1..r), NEW others, made \cap others = {},
         NEW log, NEW shown, LogsFit(log, shown, r),
         NEW open, NEW card, KindFits(open, card, made, shown),
         NEW set, NEW top, KindFits(set, top, others, shown),
         NEW id \in made, NEW outcome \in {"answered", "unanswered"},
         NEW open1, NEW card1, NEW log1, NEW shown1,
         Resolving(open, card, log, shown, id, outcome, open1, card1, log1, shown1)
  PROVE  /\ LogsFit(log1, shown1, r)
         /\ KindFits(open1, card1, made, shown1) /\ KindFits(set, top, others, shown1)
<1> DEFINE line == [id |-> id, outcome |-> outcome]
<1>1. id # 0 /\ id \in 1..r
  OBVIOUS
<1>2. id \notin set
  BY DEF KindFits
<1>3. card = id => id \in open
  BY <1>1 DEF KindFits
<1>4. id \in open => ~Listed(shown, id)
  BY DEF KindFits
<1>5. CASE Listed(shown, id)
  <2>1. log1 = log /\ shown1 = shown /\ open1 = open /\ card1 = card
    BY <1>3, <1>4, <1>5 DEF Resolving
  <2> QED BY <2>1
<1>6. CASE ~Listed(shown, id)
  <2>1. shown1 = Append(shown, line) /\ log1 \in {log, Append(log, line)}
    BY <1>6 DEF Resolving
  <2>2. line = [id |-> id, outcome |-> outcome]
    OBVIOUS
  <2> HIDE DEF line
  <2>3. /\ LogsFit(log, Append(shown, line), r)
        /\ LogsFit(Append(log, line), Append(shown, line), r)
        /\ \A other : Listed(Append(shown, line), other) => Listed(shown, other) \/ other = id
    BY <1>1, <1>6, <2>2, Listing
  <2>4. /\ LogsFit(log1, shown1, r)
        /\ \A other : Listed(shown1, other) => Listed(shown, other) \/ other = id
    BY <2>1, <2>3
  <2>5. open1 = open \ {id} /\ card1 = IF card = id THEN 0 ELSE card
    BY DEF Resolving
  <2>6. KindFits(open1, card1, made, shown1)
    BY <1>1, <2>4, <2>5 DEF KindFits
  <2>7. KindFits(set, top, others, shown1)
    BY <1>2, <2>4 DEF KindFits
  <2> QED BY <2>4, <2>6, <2>7
<1> QED BY <1>5, <1>6


\* Everything but the cards of the view stays, but for the status.
Untouched(v, w) ==
  /\ w = [f \in ViewFields |-> w[f]]
  /\ w.turn = v.turn /\ w.queue = v.queue /\ w.session = v.session /\ w.plan = v.plan
  /\ w.checkpoints = v.checkpoints /\ w.restoring = v.restoring

LEMMA ViewResolves ==
  ASSUME NEW d, NEW v, Framed(d, v), NEW e, NEW field \in {"approval", "userInput"}
  PROVE  LET w == ViewResolved(v, e, field)
             line == [id |-> e.request, outcome |-> Outcome(e.actor)]
         IN  /\ Untouched(v, w)
             /\ \A f \in {"approval", "userInput"} \ {field} : w[f] = v[f]
             /\ w[field] = IF v[field] = e.request THEN 0 ELSE v[field]
             /\ w.decisions = IF v[field] # e.request /\ Listed(v.decisions, e.request)
                              THEN v.decisions ELSE Append(v.decisions, line)
<1> DEFINE w == ViewResolved(v, e, field)
           line == [id |-> e.request, outcome |-> Outcome(e.actor)]
           more == Append(v.decisions, line)
<1>1. CASE v[field] = e.request
  <2>1. PICK s : w = [[[v EXCEPT !.decisions = more] EXCEPT ![field] = 0] EXCEPT !.status = s]
    BY <1>1 DEF ViewResolved, ViewAnswered, ViewDecided
  <2> HIDE DEF w, more
  <2> DEFINE x == [v EXCEPT !.decisions = more]
             y == [x EXCEPT ![field] = 0]
  <2>2. /\ x = [f \in ViewFields |-> x[f]] /\ x.decisions = more
        /\ \A f \in ViewFields \ {"decisions"} : x[f] = v[f]
    BY DEF Framed, ViewFields
  <2> HIDE DEF x
  <2>3. /\ y = [f \in ViewFields |-> y[f]] /\ y[field] = 0
        /\ \A f \in ViewFields \ {field} : y[f] = x[f]
    BY <2>2 DEF ViewFields
  <2>4. w = [y EXCEPT !.status = s]
    BY <2>1 DEF x
  <2> HIDE DEF y
  <2>5. /\ w = [f \in ViewFields |-> w[f]] /\ \A f \in ViewFields \ {"status"} : w[f] = y[f]
    BY <2>3, <2>4 DEF ViewFields
  <2>6. Untouched(v, w)
    BY <2>2, <2>3, <2>5 DEF Untouched, ViewFields
  <2>7. w[field] = 0 /\ w.decisions = more
    BY <2>2, <2>3, <2>5 DEF ViewFields
  <2>8. \A f \in {"approval", "userInput"} \ {field} : w[f] = v[f]
    BY <2>2, <2>3, <2>5 DEF ViewFields
  <2> QED BY <1>1, <2>6, <2>7, <2>8 DEF w, more
<1>2. CASE v[field] # e.request /\ Listed(v.decisions, e.request)
  <2>1. w = v
    BY <1>2 DEF ViewResolved, Recorded, Listed
  <2>2. Untouched(v, v)
    BY DEF Framed, Untouched
  <2> QED BY <1>2, <2>1, <2>2
<1>3. CASE v[field] # e.request /\ ~Listed(v.decisions, e.request)
  <2>1. w = [v EXCEPT !.decisions = more]
    BY <1>3 DEF ViewResolved, Recorded, Listed, ViewDecided
  <2> HIDE DEF w, more
  <2>2. /\ w = [f \in ViewFields |-> w[f]] /\ w.decisions = more
        /\ \A f \in ViewFields \ {"decisions"} : w[f] = v[f]
    BY <2>1 DEF Framed, ViewFields
  <2>3. Untouched(v, w) /\ w.approval = v.approval /\ w.userInput = v.userInput
    BY <2>2 DEF Untouched, ViewFields
  <2> QED BY <1>3, <2>2, <2>3 DEF w, more
<1> QED BY <1>1, <1>2, <1>3


\* The two kinds of request are never confused.
LEMMA MadeApart ==
  ASSUME NEW cards \in Seq({"approval", "question"})
  PROVE  /\ Made(cards, "approval") \cap Made(cards, "question") = {}
         /\ \A kind : Made(cards, kind) \in SUBSET (1..Len(cards))
         /\ Len(cards) \in Nat
BY DEF Made

\* An approval answered, on both sides.
LEMMA ApprovalPair ==
  ASSUME NEW d, NEW v, NEW e, NEW cards \in Seq({"approval", "question"}), Live(d), Pair(d, v, cards),
         e.type = "thread.approval.resolved", Owed(d, v, e, cards)
  PROVE  Pair(ApplyCards(d, e), ViewCards(v, e), cards)
<1> DEFINE id == e.request
           outcome == Outcome(e.actor)
           line == [id |-> id, outcome |-> outcome]
           open1 == d.approvals \ {id}
           log1 == WithDecision(d, id \in d.approvals, id, outcome)
           c == ApplyCards(d, e)
           w == ViewCards(v, e)
<1>1. PICK s : c = [d EXCEPT !.approvals = open1, !.decisions = log1, !.status = s]
  BY DEF ApplyCards, Answered
<1>2. w = ViewResolved(v, e, "approval")
  BY DEF ViewCards
<1>3. Framed(d, v) /\ Copied(d, v) /\ CardsFit(d, v, cards)
  BY DEF Pair
<1>4. /\ Untouched(v, w) /\ w.userInput = v.userInput
      /\ w.approval = IF v.approval = id THEN 0 ELSE v.approval
      /\ w.decisions = IF v.approval # id /\ Listed(v.decisions, id)
                       THEN v.decisions ELSE Append(v.decisions, line)
  BY <1>2, <1>3, ViewResolves
<1>5. id \in Made(cards, "approval") /\ outcome \in {"answered", "unanswered"}
  BY DEF Owed, Outcome
<1>6. log1 = IF id \in d.approvals THEN Append(d.decisions, line) ELSE d.decisions
  BY DEF WithDecision
<1>7. Resolving(d.approvals, v.approval, d.decisions, v.decisions, id, outcome,
                open1, w.approval, log1, w.decisions)
  BY <1>4, <1>6 DEF Resolving
<1> HIDE DEF id, outcome, line, open1, log1, c, w
<1>8. /\ LogsFit(log1, w.decisions, Len(cards))
      /\ KindFits(open1, w.approval, Made(cards, "approval"), w.decisions)
      /\ KindFits(d.userInputs, v.userInput, Made(cards, "question"), w.decisions)
  <2> DEFINE made == Made(cards, "approval")
             others == Made(cards, "question")
  <2>1. made \in SUBSET (1..Len(cards)) /\ made \cap others = {} /\ Len(cards) \in Nat
    BY MadeApart
  <2>2. /\ LogsFit(d.decisions, v.decisions, Len(cards))
        /\ KindFits(d.approvals, v.approval, made, v.decisions)
        /\ KindFits(d.userInputs, v.userInput, others, v.decisions)
    BY <1>3 DEF CardsFit
  <2>3. id \in made
    BY <1>5
  <2> HIDE DEF made, others
  <2>4. /\ LogsFit(log1, w.decisions, Len(cards))
        /\ KindFits(open1, w.approval, made, w.decisions)
        /\ KindFits(d.userInputs, v.userInput, others, w.decisions)
    BY <1>5, <1>7, <2>1, <2>2, <2>3, ResolvingFits
  <2> QED BY <2>4 DEF made, others
<1>9. /\ c = [f \in DocFields |-> c[f]] /\ c.approvals = open1 /\ c.decisions = log1
      /\ \A f \in DocFields \ {"approvals", "decisions", "status"} : c[f] = d[f]
  BY <1>1, <1>3 DEF Framed, DocFields
<1>10. CardsFit(c, w, cards)
  BY <1>4, <1>8, <1>9 DEF CardsFit, DocFields
<1>11. Framed(c, w) /\ Copied(c, w)
  BY <1>3, <1>4, <1>9 DEF Framed, Copied, Untouched, DocFields
<1>12. Pair(c, w, cards)
  BY <1>10, <1>11 DEF Pair
<1> QED BY <1>12 DEF c, w

\* A question answered, on both sides.
LEMMA QuestionPair ==
  ASSUME NEW d, NEW v, NEW e, NEW cards \in Seq({"approval", "question"}), Live(d), Pair(d, v, cards),
         e.type = "thread.userInput.resolved", Owed(d, v, e, cards)
  PROVE  Pair(ApplyCards(d, e), ViewCards(v, e), cards)
<1> DEFINE id == e.request
           outcome == Outcome(e.actor)
           line == [id |-> id, outcome |-> outcome]
           open1 == d.userInputs \ {id}
           log1 == WithDecision(d, id \in d.userInputs, id, outcome)
           c == ApplyCards(d, e)
           w == ViewCards(v, e)
<1>1. PICK s : c = [d EXCEPT !.userInputs = open1, !.decisions = log1, !.status = s]
  BY DEF ApplyCards, Answered
<1>2. w = ViewResolved(v, e, "userInput")
  BY DEF ViewCards
<1>3. Framed(d, v) /\ Copied(d, v) /\ CardsFit(d, v, cards)
  BY DEF Pair
<1>4. /\ Untouched(v, w) /\ w.approval = v.approval
      /\ w.userInput = IF v.userInput = id THEN 0 ELSE v.userInput
      /\ w.decisions = IF v.userInput # id /\ Listed(v.decisions, id)
                       THEN v.decisions ELSE Append(v.decisions, line)
  BY <1>2, <1>3, ViewResolves
<1>5. id \in Made(cards, "question") /\ outcome \in {"answered", "unanswered"}
  BY DEF Owed, Outcome
<1>6. log1 = IF id \in d.userInputs THEN Append(d.decisions, line) ELSE d.decisions
  BY DEF WithDecision
<1>7. Resolving(d.userInputs, v.userInput, d.decisions, v.decisions, id, outcome,
                open1, w.userInput, log1, w.decisions)
  BY <1>4, <1>6 DEF Resolving
<1> HIDE DEF id, outcome, line, open1, log1, c, w
<1>8. /\ LogsFit(log1, w.decisions, Len(cards))
      /\ KindFits(open1, w.userInput, Made(cards, "question"), w.decisions)
      /\ KindFits(d.approvals, v.approval, Made(cards, "approval"), w.decisions)
  <2> DEFINE made == Made(cards, "question")
             others == Made(cards, "approval")
  <2>1. made \in SUBSET (1..Len(cards)) /\ made \cap others = {} /\ Len(cards) \in Nat
    BY MadeApart
  <2>2. /\ LogsFit(d.decisions, v.decisions, Len(cards))
        /\ KindFits(d.userInputs, v.userInput, made, v.decisions)
        /\ KindFits(d.approvals, v.approval, others, v.decisions)
    BY <1>3 DEF CardsFit
  <2>3. id \in made
    BY <1>5
  <2> HIDE DEF made, others
  <2>4. /\ LogsFit(log1, w.decisions, Len(cards))
        /\ KindFits(open1, w.userInput, made, w.decisions)
        /\ KindFits(d.approvals, v.approval, others, w.decisions)
    BY <1>5, <1>7, <2>1, <2>2, <2>3, ResolvingFits
  <2> QED BY <2>4 DEF made, others
<1>9. /\ c = [f \in DocFields |-> c[f]] /\ c.userInputs = open1 /\ c.decisions = log1
      /\ \A f \in DocFields \ {"userInputs", "decisions", "status"} : c[f] = d[f]
  BY <1>1, <1>3 DEF Framed, DocFields
<1>10. CardsFit(c, w, cards)
  BY <1>4, <1>8, <1>9 DEF CardsFit, DocFields
<1>11. Framed(c, w) /\ Copied(c, w)
  BY <1>3, <1>4, <1>9 DEF Framed, Copied, Untouched, DocFields
<1>12. Pair(c, w, cards)
  BY <1>10, <1>11 DEF Pair
<1> QED BY <1>12 DEF c, w

\* Opening, proposing and answering, on both sides.
LEMMA CardPair ==
  ASSUME NEW d, NEW v, NEW e, NEW cards \in Seq({"approval", "question"}), Live(d), Pair(d, v, cards),
         e.type \in CardEvents, Owed(d, v, e, cards)
  PROVE  Pair(ApplyCards(d, e), ViewCards(v, e), cards)
<1> DEFINE id == e.request
           c == ApplyCards(d, e)
           w == ViewCards(v, e)
<1>0. Framed(d, v) /\ Copied(d, v) /\ CardsFit(d, v, cards)
  BY DEF Pair
<1>1. CASE e.type = "thread.approval.opened"
  <2>1. /\ c = [d EXCEPT !.approvals = d.approvals \cup {id}, !.status = "waiting"]
        /\ w = [v EXCEPT !.approval = id, !.status = "waiting"]
    BY <1>1 DEF ApplyCards, ViewCards
  <2>2. id \in Made(cards, "approval") /\ ~Listed(v.decisions, id)
    BY <1>1 DEF Owed
  <2> HIDE DEF id, c, w
  <2>3. /\ c.approvals = d.approvals \cup {id} /\ w.approval = id /\ c.userInputs = d.userInputs
        /\ c.decisions = d.decisions /\ w.decisions = v.decisions /\ w.userInput = v.userInput
    BY <1>0, <2>1 DEF Framed, DocFields, ViewFields
  <2>4. CardsFit(c, w, cards)
    BY <1>0, <2>2, <2>3 DEF CardsFit, KindFits
  <2>5. Framed(c, w) /\ Copied(c, w)
    BY <1>0, <2>1 DEF Framed, Copied, DocFields, ViewFields
  <2>6. Pair(c, w, cards)
    BY <2>4, <2>5 DEF Pair
  <2> QED BY <2>6 DEF c, w
<1>2. CASE e.type = "thread.userInput.requested"
  <2>1. /\ c = [d EXCEPT !.userInputs = d.userInputs \cup {id}, !.status = "waiting"]
        /\ w = [v EXCEPT !.userInput = id, !.status = "waiting"]
    BY <1>2 DEF ApplyCards, ViewCards
  <2>2. id \in Made(cards, "question") /\ ~Listed(v.decisions, id)
    BY <1>2 DEF Owed
  <2> HIDE DEF id, c, w
  <2>3. /\ c.userInputs = d.userInputs \cup {id} /\ w.userInput = id /\ c.approvals = d.approvals
        /\ c.decisions = d.decisions /\ w.decisions = v.decisions /\ w.approval = v.approval
    BY <1>0, <2>1 DEF Framed, DocFields, ViewFields
  <2>4. CardsFit(c, w, cards)
    BY <1>0, <2>2, <2>3 DEF CardsFit, KindFits
  <2>5. Framed(c, w) /\ Copied(c, w)
    BY <1>0, <2>1 DEF Framed, Copied, DocFields, ViewFields
  <2>6. Pair(c, w, cards)
    BY <2>4, <2>5 DEF Pair
  <2> QED BY <2>6 DEF c, w
<1>3. CASE e.type = "thread.plan.proposed"
  <2>1. /\ c = [d EXCEPT !.plan = e.turn, !.status = "waiting"]
        /\ w = [v EXCEPT !.plan = e.turn, !.status = "waiting"]
    BY <1>3 DEF ApplyCards, ViewCards
  <2> HIDE DEF c, w
  <2>2. CardsFit(c, w, cards)
    BY <1>0, <2>1, Beside DEF Framed, DocFields, ViewFields
  <2>3. Framed(c, w) /\ Copied(c, w)
    BY <1>0, <2>1 DEF Framed, Copied, DocFields, ViewFields
  <2>4. Pair(c, w, cards)
    BY <2>2, <2>3 DEF Pair
  <2> QED BY <2>4 DEF c, w
<1>4. CASE e.type = "thread.plan.responded"
  <2>1. PICK s : c = [d EXCEPT !.plan = 0, !.status = s]
    BY <1>4 DEF ApplyCards, Answered
  <2>2. v.plan = e.turn
    BY <1>0, <1>4 DEF Owed, Copied
  <2>3. PICK z : w = [v EXCEPT !.plan = 0, !.status = z]
    BY <1>4, <2>2 DEF ViewCards, ViewAnswered
  <2> HIDE DEF c, w
  <2>4. CardsFit(c, w, cards)
    BY <1>0, <2>1, <2>3, Beside DEF Framed, DocFields, ViewFields
  <2>5. Framed(c, w) /\ Copied(c, w)
    BY <1>0, <2>1, <2>3 DEF Framed, Copied, DocFields, ViewFields
  <2>6. Pair(c, w, cards)
    BY <2>4, <2>5 DEF Pair
  <2> QED BY <2>6 DEF c, w
<1> QED BY <1>1, <1>2, <1>3, <1>4, ApprovalPair, QuestionPair DEF CardEvents


----------------------------------------------------------------------------
(* One event, and what a transaction hands both folds.                     *)

\* Which part of each fold an event goes to.
LEMMA Dispatch ==
  ASSUME NEW d, NEW e, Live(d)
  PROVE  /\ e.type \in LifeEvents => Apply(d, e) = ApplyLife(d, e)
         /\ e.type \in SessionEvents => Apply(d, e) = ApplySession(d, e)
         /\ e.type \in TurnEvents => Apply(d, e) = ApplyTurn(d, e)
         /\ e.type \in QueueEvents => Apply(d, e) = ApplyQueue(d, e)
         /\ e.type \in CardEvents => Apply(d, e) = ApplyCards(d, e)
         /\ e.type \in RestoreEvents => Apply(d, e) = ApplyRestore(d, e)
         /\ e.type = "thread.item.upserted" => Apply(d, e) = [d EXCEPT !.spoke = TRUE]
<1>1. CASE e.type \in LifeEvents
  BY <1>1 DEF Apply, Live, ApplyExisting, LifeEvents, SessionEvents, TurnEvents, QueueEvents,
              CardEvents, RestoreEvents
<1>2. CASE e.type \in SessionEvents
  BY <1>2 DEF Apply, Live, ApplyExisting, LifeEvents, SessionEvents, TurnEvents, QueueEvents,
              CardEvents, RestoreEvents
<1>3. CASE e.type \in TurnEvents
  BY <1>3 DEF Apply, Live, ApplyExisting, LifeEvents, SessionEvents, TurnEvents, QueueEvents,
              CardEvents, RestoreEvents
<1>4. CASE e.type \in QueueEvents
  BY <1>4 DEF Apply, Live, ApplyExisting, LifeEvents, SessionEvents, TurnEvents, QueueEvents,
              CardEvents, RestoreEvents
<1>5. CASE e.type \in CardEvents
  BY <1>5 DEF Apply, Live, ApplyExisting, LifeEvents, SessionEvents, TurnEvents, QueueEvents,
              CardEvents, RestoreEvents
<1>6. CASE e.type \in RestoreEvents
  BY <1>6 DEF Apply, Live, ApplyExisting, LifeEvents, SessionEvents, TurnEvents, QueueEvents,
              CardEvents, RestoreEvents
<1>7. CASE e.type = "thread.item.upserted"
  BY <1>7 DEF Apply, Live, ApplyExisting, LifeEvents, SessionEvents, TurnEvents, QueueEvents,
              CardEvents, RestoreEvents
<1>8. CASE e.type \notin LifeEvents \cup SessionEvents \cup TurnEvents \cup QueueEvents \cup CardEvents
                      \cup RestoreEvents \cup {"thread.item.upserted"}
  BY <1>8
<1> QED BY <1>1, <1>2, <1>3, <1>4, <1>5, <1>6, <1>7, <1>8

LEMMA ViewDispatch ==
  ASSUME NEW v, NEW e
  PROVE  /\ e.type \in LifeEvents => ViewApply(v, e) = ViewLife(v, e)
         /\ e.type \in SessionEvents => ViewApply(v, e) = ViewSession(v, e)
         /\ e.type \in TurnEvents => ViewApply(v, e) = ViewTurn(v, e)
         /\ e.type \in QueueEvents => ViewApply(v, e) = ViewQueue(v, e)
         /\ e.type \in CardEvents => ViewApply(v, e) = ViewCards(v, e)
         /\ e.type \in RestoreEvents => ViewApply(v, e) = ViewRestore(v, e)
         /\ e.type = "thread.item.upserted" => ViewApply(v, e) = v
<1>1. CASE e.type \in LifeEvents
  BY <1>1 DEF ViewApply, LifeEvents, SessionEvents, TurnEvents, QueueEvents,
              CardEvents, RestoreEvents
<1>2. CASE e.type \in SessionEvents
  BY <1>2 DEF ViewApply, LifeEvents, SessionEvents, TurnEvents, QueueEvents,
              CardEvents, RestoreEvents
<1>3. CASE e.type \in TurnEvents
  BY <1>3 DEF ViewApply, LifeEvents, SessionEvents, TurnEvents, QueueEvents,
              CardEvents, RestoreEvents
<1>4. CASE e.type \in QueueEvents
  BY <1>4 DEF ViewApply, LifeEvents, SessionEvents, TurnEvents, QueueEvents,
              CardEvents, RestoreEvents
<1>5. CASE e.type \in CardEvents
  BY <1>5 DEF ViewApply, LifeEvents, SessionEvents, TurnEvents, QueueEvents,
              CardEvents, RestoreEvents
<1>6. CASE e.type \in RestoreEvents
  BY <1>6 DEF ViewApply, LifeEvents, SessionEvents, TurnEvents, QueueEvents,
              CardEvents, RestoreEvents
<1>7. CASE e.type = "thread.item.upserted"
  BY <1>7 DEF ViewApply, LifeEvents, SessionEvents, TurnEvents, QueueEvents,
              CardEvents, RestoreEvents
<1>8. CASE e.type \notin LifeEvents \cup SessionEvents \cup TurnEvents \cup QueueEvents \cup CardEvents
                      \cup RestoreEvents \cup {"thread.item.upserted"}
  BY <1>8
<1> QED BY <1>1, <1>2, <1>3, <1>4, <1>5, <1>6, <1>7, <1>8

\* An event its writer may append keeps the two folds together.
LEMMA EventPair ==
  ASSUME NEW d, NEW v, NEW e, NEW cards \in Seq({"approval", "question"}), Live(d), Pair(d, v, cards),
         Owed(d, v, e, cards)
  PROVE  Pair(Apply(d, e), ViewApply(v, e), cards)
<1>1. CASE e.type \in LifeEvents
  BY <1>1, Dispatch, ViewDispatch, LifePair
<1>2. CASE e.type \in SessionEvents
  BY <1>2, Dispatch, ViewDispatch, SessionPair
<1>3. CASE e.type \in TurnEvents
  BY <1>3, Dispatch, ViewDispatch, TurnPair
<1>4. CASE e.type \in QueueEvents
  BY <1>4, Dispatch, ViewDispatch, QueuePair
<1>5. CASE e.type \in CardEvents
  BY <1>5, Dispatch, ViewDispatch, CardPair
<1>6. CASE e.type \in RestoreEvents
  BY <1>6, Dispatch, ViewDispatch, RestorePair
<1>7. CASE e.type = "thread.item.upserted"
  <2> DEFINE c == [d EXCEPT !.spoke = TRUE]
  <2>1. Framed(c, v) /\ Copied(c, v)
    BY DEF Pair, Framed, DocFields, Copied
  <2>2. c.approvals = d.approvals /\ c.userInputs = d.userInputs /\ c.decisions = d.decisions
    BY DEF Pair, Framed, DocFields
  <2> HIDE DEF c
  <2>3. Pair(c, v, cards)
    BY <2>1, <2>2, Aside
  <2> QED BY <1>7, <2>3, Dispatch, ViewDispatch DEF c
<1> QED BY <1>1, <1>2, <1>3, <1>4, <1>5, <1>6, <1>7 DEF Owed

\* Only a deletion ends the thread.
LEMMA StaysLive ==
  ASSUME NEW d, NEW v, NEW e, Framed(d, v), Live(d),
         e.type \in {"thread.turn.requested", "thread.turn.steered", "thread.error"}
  PROVE  Live(Apply(d, e))
<1>1. Apply(d, e) = ApplyTurn(d, e)
  BY Dispatch DEF TurnEvents
<1>2. CASE e.type = "thread.turn.requested"
  BY <1>1, <1>2 DEF ApplyTurn, Live, Framed, DocFields
<1>3. CASE e.type = "thread.turn.steered"
  BY <1>1, <1>3 DEF ApplyTurn
<1>4. CASE e.type = "thread.error"
  BY <1>1, <1>4 DEF ApplyTurn, Live, Framed, DocFields
<1> QED BY <1>2, <1>3, <1>4

\* What a transaction may append, the start of a turn apart: one event that is owed
\* nothing more, or a turn's event followed by its row or its completion.
Transaction(d, v, events, cards) ==
  \/ events = <<>>
  \/ \E e : events = <<e>> /\ Owed(d, v, e, cards) /\ e.type # "thread.turn.started"
  \/ \E e, f : /\ events = <<e, f>> /\ Owed(d, v, e, cards)
               /\ e.type \in {"thread.turn.requested", "thread.turn.steered", "thread.error"}
               /\ f.type \in {"thread.item.upserted", "thread.turn.completed"}

LEMMA NoEvent == ASSUME NEW d, NEW v PROVE ApplyAll(d, <<>>) = d /\ ViewApplyAll(v, <<>>) = v
<1>1. Len(<<>>) = 0 /\ 0 # 1 /\ 0 # 2
  OBVIOUS
<1> QED BY <1>1, Zenon DEF ApplyAll, ViewApplyAll

LEMMA OneEvent ==
  ASSUME NEW d, NEW v, NEW e
  PROVE  ApplyAll(d, <<e>>) = Apply(d, e) /\ ViewApplyAll(v, <<e>>) = ViewApply(v, e)
<1>1. Len(<<e>>) = 1 /\ <<e>>[1] = e /\ 1 # 0 /\ 1 # 2
  OBVIOUS
<1> QED BY <1>1, Zenon DEF ApplyAll, ViewApplyAll

LEMMA TwoEvents ==
  ASSUME NEW d, NEW v, NEW e, NEW f
  PROVE  /\ ApplyAll(d, <<e, f>>) = Apply(Apply(d, e), f)
         /\ ViewApplyAll(v, <<e, f>>) = ViewApply(ViewApply(v, e), f)
<1>1. Len(<<e, f>>) = 2 /\ <<e, f>>[1] = e /\ <<e, f>>[2] = f /\ 0 # 2 /\ 1 # 2
  OBVIOUS
<1> QED BY <1>1, Zenon DEF ApplyAll, ViewApplyAll

\* A transaction keeps the two folds together.
LEMMA TransactionPair ==
  ASSUME NEW d, NEW v, NEW events, NEW cards \in Seq({"approval", "question"}), Live(d),
         Pair(d, v, cards), Transaction(d, v, events, cards)
  PROVE  Pair(ApplyAll(d, events), ViewApplyAll(v, events), cards)
<1>1. CASE events = <<>>
  BY <1>1, NoEvent
<1>2. CASE \E e : events = <<e>> /\ Owed(d, v, e, cards)
  BY <1>2, OneEvent, EventPair
<1>3. ASSUME NEW e, NEW f, events = <<e, f>>, Owed(d, v, e, cards),
             e.type \in {"thread.turn.requested", "thread.turn.steered", "thread.error"},
             f.type \in {"thread.item.upserted", "thread.turn.completed"}
      PROVE  Pair(ApplyAll(d, events), ViewApplyAll(v, events), cards)
  <2> DEFINE c == Apply(d, e)
             w == ViewApply(v, e)
  <2>1. Pair(c, w, cards)
    BY <1>3, EventPair
  <2>2. Live(c)
    BY <1>3, StaysLive DEF Pair
  <2> HIDE DEF c, w
  <2>3. Owed(c, w, f, cards)
    BY <1>3 DEF Owed, TurnEvents
  <2>4. Pair(Apply(c, f), ViewApply(w, f), cards)
    BY <2>1, <2>2, <2>3, EventPair
  <2> QED BY <1>3, <2>4, TwoEvents DEF c, w
<1> QED BY <1>1, <1>2, <1>3 DEF Transaction


----------------------------------------------------------------------------
(* What the decider hands the folds.                                       *)

\* Events that owe nothing to the state they meet.
Plain == {"thread.archived", "thread.unarchived", "thread.deleted", "thread.session.lost",
          "thread.turn.requested", "thread.turn.completed",
          "thread.turn.steered", "thread.turn.interrupted", "thread.error",
          "thread.message.queued", "thread.message.dequeued", "thread.queue.reordered",
          "thread.plan.proposed", "thread.checkpoint.created",
          "thread.checkpoint.restore.requested", "thread.checkpoint.restored",
          "thread.checkpoint.restore.failed"}

LEMMA PlainOwed ==
  ASSUME NEW d, NEW v, NEW e, NEW cards, e.type \in Plain
  PROVE  Owed(d, v, e, cards) /\ e.type # "thread.turn.started"
BY DEF Plain, Owed, LifeEvents, SessionEvents, TurnEvents, QueueEvents, CardEvents, RestoreEvents

LEMMA PlainTransaction ==
  ASSUME NEW d, NEW v, NEW e, NEW cards, e.type \in Plain
  PROVE  Transaction(d, v, <<e>>, cards)
BY PlainOwed DEF Transaction

LEMMA NewTurnOwed ==
  ASSUME NEW d, NEW v, NEW env, NEW m, NEW cards
  PROVE  /\ Transaction(d, v, NewTurn(env), cards)
         /\ Transaction(d, v, <<TurnSteered(m), UserRow(m)>>, cards)
<1>1. Owed(d, v, TurnRequested(env.turn), cards)
  BY PlainOwed DEF TurnRequested, Plain
<1>2. Owed(d, v, TurnSteered(m), cards)
  BY PlainOwed DEF TurnSteered, Plain
<1>3. /\ TurnRequested(env.turn).type = "thread.turn.requested"
      /\ TurnSteered(m).type = "thread.turn.steered"
      /\ \A k : UserRow(k).type = "thread.item.upserted"
  BY DEF TurnRequested, TurnSteered, UserRow
<1> QED BY <1>3, <1>1, <1>2 DEF Transaction, NewTurn

FoldCommands ==
  {"thread.archive", "thread.unarchive", "thread.delete", "thread.turn.start",
   "thread.turn.steer", "thread.turn.interrupt",
   "thread.approval.respond", "thread.userInput.respond", "thread.plan.respond",
   "thread.queue.remove", "thread.queue.reorder", "thread.checkpoint.restore"}

\* Whatever a command decides is a transaction the folds agree on.
LEMMA DecisionKeeps ==
  ASSUME NEW cmd, NEW d, NEW v, NEW ctx, NEW env, NEW cards, Live(d), Pair(d, v, cards),
         cmd.type \in FoldCommands, Decide(cmd, d, ctx, env).accepted
  PROVE  Transaction(d, v, Decide(cmd, d, ctx, env).events, cards)
<1> DEFINE r == Decide(cmd, d, ctx, env)
           OK(events) == Transaction(d, v, events, cards)
<1>live. r = DecideLive(cmd, d, ctx, env)
  BY DEF Decide, FoldCommands
<1>accepted. r.accepted
  OBVIOUS
<1> SUFFICES OK(r.events)
  OBVIOUS
<1> HIDE DEF r
<1>when. ASSUME NEW ok, NEW events, r = When(ok, events), ok => OK(events) PROVE OK(r.events)
  BY <1>when, <1>accepted DEF When, Accepted, Rejected
<1>given. ASSUME NEW events, r = Accepted(events), OK(events) PROVE OK(r.events)
  BY <1>given DEF Accepted
<1>notRejected. r # Rejected
  BY <1>accepted DEF Rejected
<1>queue. OK(<<>>) /\ \A q : OK(<<Queued(q)>>) /\ OK(<<Dequeued(q)>>) /\ OK(<<Reordered(q)>>)
  <2>1. OK(<<>>)
    BY DEF Transaction
  <2>2. \A q : OK(<<Queued(q)>>)
    BY PlainTransaction DEF Queued, Plain
  <2>3. \A q : OK(<<Dequeued(q)>>)
    BY PlainTransaction DEF Dequeued, Plain
  <2>4. \A q : OK(<<Reordered(q)>>)
    BY PlainTransaction DEF Reordered, Plain
  <2> QED BY <2>1, <2>2, <2>3, <2>4
<1>turn. OK(NewTurn(env)) /\ OK(<<TurnSteered(d.turn), UserRow(d.turn)>>)
  BY NewTurnOwed
<1>1. CASE cmd.type = "thread.archive"
  <2>1. r = When(d.status # "archived", <<Archived>>)
    BY <1>live, <1>1 DEF DecideLive
  <2>2. OK(<<Archived>>)
    BY PlainTransaction DEF Archived, Plain
  <2> HIDE DEF OK
  <2> QED BY <1>when, <1>accepted, <2>1, <2>2
<1>2. CASE cmd.type = "thread.unarchive"
  <2>1. r = When(d.status = "archived", <<Unarchived>>)
    BY <1>live, <1>2 DEF DecideLive
  <2>2. OK(<<Unarchived>>)
    BY PlainTransaction DEF Unarchived, Plain
  <2> HIDE DEF OK
  <2> QED BY <1>when, <1>accepted, <2>1, <2>2
<1>3. CASE cmd.type = "thread.delete"
  <2>1. r = Accepted(<<Deleted>>)
    BY <1>live, <1>3 DEF DecideLive
  <2>2. OK(<<Deleted>>)
    BY PlainTransaction DEF Deleted, Plain
  <2> HIDE DEF OK
  <2> QED BY <1>given, <2>1, <2>2
<1>4. CASE cmd.type = "thread.turn.start"
  <2>1. r = DecideTurnStart(cmd, d, ctx, env)
    BY <1>live, <1>4 DEF DecideLive
  <2>2. \/ r = Rejected \/ r = Accepted(NewTurn(env)) \/ r = Accepted(<<Queued(env.message)>>)
    BY <2>1 DEF DecideTurnStart, When
  <2> HIDE DEF OK
  <2> QED BY <1>given, <1>notRejected, <1>queue, <1>turn, <2>2
<1>5. CASE cmd.type = "thread.turn.steer"
  <2>1. r = DecideSteer(d, ctx, env)
    BY <1>live, <1>5 DEF DecideLive
  <2>2. d.session.steering \in Steering
    BY DEF Pair, Copied
  <2>3. \/ r = Rejected \/ r = Accepted(NewTurn(env)) \/ r = Accepted(<<Queued(env.message)>>)
        \/ r = Accepted(<<TurnSteered(d.turn), UserRow(d.turn)>>)
    BY <2>1, <2>2 DEF DecideSteer, Steering
  <2> HIDE DEF OK
  <2> QED BY <1>given, <1>notRejected, <1>queue, <1>turn, <2>3
<1>6. CASE cmd.type = "thread.turn.interrupt"
  <2>1. r = When(d.turn # 0 /\ ~d.interrupting, <<TurnInterrupted(d.turn)>>)
    BY <1>live, <1>6 DEF DecideLive
  <2>2. OK(<<TurnInterrupted(d.turn)>>)
    BY PlainTransaction DEF TurnInterrupted, Plain
  <2> HIDE DEF OK
  <2> QED BY <1>when, <1>accepted, <2>1, <2>2
<1>7. CASE cmd.type = "thread.approval.respond"
  <2> DEFINE e == ApprovalResolved(cmd.request, "user")
  <2>1. r = When(cmd.request \in d.approvals, <<e>>)
    BY <1>live, <1>7 DEF DecideLive
  <2>2. e.type = "thread.approval.resolved" /\ e.request = cmd.request
    BY DEF ApprovalResolved
  <2> HIDE DEF e
  <2>3. cmd.request \in d.approvals => cmd.request \in Made(cards, "approval")
    BY DEF Pair, CardsFit, KindFits
  <2>4. cmd.request \in d.approvals => Owed(d, v, e, cards)
    BY <2>2, <2>3 DEF Owed, CardEvents
  <2>5. cmd.request \in d.approvals => OK(<<e>>)
    BY <2>2, <2>4 DEF Transaction
  <2> HIDE DEF OK
  <2> QED BY <1>when, <1>accepted, <2>1, <2>5
<1>8. CASE cmd.type = "thread.userInput.respond"
  <2> DEFINE e == InputResolved(cmd.request, "user")
  <2>1. r = When(cmd.request \in d.userInputs, <<e>>)
    BY <1>live, <1>8 DEF DecideLive
  <2>2. e.type = "thread.userInput.resolved" /\ e.request = cmd.request
    BY DEF InputResolved
  <2> HIDE DEF e
  <2>3. cmd.request \in d.userInputs => cmd.request \in Made(cards, "question")
    BY DEF Pair, CardsFit, KindFits
  <2>4. cmd.request \in d.userInputs => Owed(d, v, e, cards)
    BY <2>2, <2>3 DEF Owed, CardEvents
  <2>5. cmd.request \in d.userInputs => OK(<<e>>)
    BY <2>2, <2>4 DEF Transaction
  <2> HIDE DEF OK
  <2> QED BY <1>when, <1>accepted, <2>1, <2>5
<1>9. CASE cmd.type = "thread.plan.respond"
  <2> DEFINE e == PlanResponded(cmd.turn)
  <2>1. r = When(d.plan # 0 /\ d.plan = cmd.turn, <<e>>)
    BY <1>live, <1>9 DEF DecideLive
  <2>2. e.type = "thread.plan.responded" /\ e.turn = cmd.turn
    BY DEF PlanResponded
  <2> HIDE DEF e
  <2>3. d.plan = cmd.turn => Owed(d, v, e, cards)
    BY <2>2 DEF Owed, CardEvents
  <2>4. d.plan = cmd.turn => OK(<<e>>)
    BY <2>2, <2>3 DEF Transaction
  <2> HIDE DEF OK
  <2> QED BY <1>when, <1>accepted, <2>1, <2>4
<1>10. CASE cmd.type = "thread.queue.remove"
  <2>1. r = When(Holds(d.queue, cmd.message), <<Dequeued(cmd.message)>>)
    BY <1>live, <1>10 DEF DecideLive
  <2> HIDE DEF OK
  <2> QED BY <1>when, <1>accepted, <1>queue, <2>1
<1>11. CASE cmd.type = "thread.queue.reorder"
  <2>1. r = DecideReorder(cmd, d)
    BY <1>live, <1>11 DEF DecideLive
  <2>2. r = Rejected \/ r = Accepted(<<>>) \/ \E o : r = Accepted(<<Reordered(o)>>)
    BY <2>1 DEF DecideReorder
  <2> HIDE DEF OK
  <2> QED BY <1>given, <1>notRejected, <1>queue, <2>2
<1>12. CASE cmd.type = "thread.checkpoint.restore"
  <2>1. PICK ok : r = When(ok, <<RestoreRequested(cmd.turn)>>)
    BY <1>live, <1>12 DEF DecideLive
  <2>2. OK(<<RestoreRequested(cmd.turn)>>)
    BY PlainTransaction DEF RestoreRequested, Plain
  <2> HIDE DEF OK
  <2> QED BY <1>when, <1>accepted, <2>1, <2>2
<1> QED
  BY <1>1, <1>2, <1>3, <1>4, <1>5, <1>6, <1>7, <1>8, <1>9, <1>10, <1>11, <1>12 DEF FoldCommands


----------------------------------------------------------------------------
(* Snapshots, and the steps of the two folds.                              *)

\* The card a snapshot shows is an open one.
LEMMA HeadIsOpen ==
  ASSUME NEW open \in SUBSET Nat, HeadCard(open) # 0
  PROVE  HeadCard(open) \in open
<1> DEFINE Upto(k) == 1..k
           prefixes == {Upto(k) : k \in open}
<1>1. open # {}
  BY DEF HeadCard
<1>2. \A k \in open : Upto(k) \in FiniteSubsetsOf(Nat)
  <2> TAKE k \in open
  <2>1. 1 \in Int /\ k \in Int /\ Upto(k) \subseteq Nat
    OBVIOUS
  <2> QED BY <2>1, FS_Interval DEF FiniteSubsetsOf
<1>3. \A j, k \in open : j < k => Upto(j) \subseteq Upto(k) /\ Upto(j) # Upto(k)
  <2> TAKE j, k \in open
  <2>1. j \in Nat /\ k \in Nat
    OBVIOUS
  <2>2. j < k => k \in Upto(k) /\ k \notin Upto(j)
    BY <2>1
  <2> QED BY <2>1, <2>2
<1> HIDE DEF Upto
<1>4. prefixes \subseteq FiniteSubsetsOf(Nat) /\ prefixes # {}
  BY <1>1, <1>2
<1> HIDE DEF prefixes
<1>5. PICK least \in prefixes : \A other \in prefixes : <<other, least>> \notin StrictSubsetOrdering(Nat)
  BY <1>4, FS_StrictSubsetOrderingWellFounded, WFMin
<1>6. PICK r \in open : least = Upto(r)
  BY DEF prefixes
<1>7. \A other \in open : ~(other < r)
  <2> TAKE other \in open
  <2>1. <<Upto(other), Upto(r)>> \notin StrictSubsetOrdering(Nat)
    BY <1>5, <1>6 DEF prefixes
  <2> QED BY <1>2, <1>3, <2>1 DEF StrictSubsetOrdering, FiniteSubsetsOf
<1>8. \A other \in open : r <= other
  BY <1>7
<1> QED BY <1>1, <1>8 DEF HeadCard

\* A resnapshot is a view of the document like any other.
LEMMA SnapshotPair ==
  ASSUME NEW d, NEW v, NEW cards \in Seq({"approval", "question"}), Pair(d, v, cards)
  PROVE  Pair(d, SnapshotOf(d), cards)
<1> DEFINE w == SnapshotOf(d)
           log == d.decisions
           r == Len(cards)
<1>1. /\ Framed(d, w) /\ w.decisions = log
      /\ w.approval = HeadCard(d.approvals) /\ w.userInput = HeadCard(d.userInputs)
      /\ Copied(d, w)
  BY DEF SnapshotOf, Pair, Framed, ViewFields, Copied
<1> HIDE DEF w
<1>2. LogsFit(log, log, r)
  BY DEF Pair, CardsFit, LogsFit
<1>3. \A id : Listed(log, id) => Listed(v.decisions, id)
  BY DEF Pair, CardsFit, LogsFit, Listed
<1>4. ASSUME NEW open, NEW card, NEW made \in SUBSET (1..r), KindFits(open, card, made, v.decisions)
      PROVE  KindFits(open, HeadCard(open), made, log)
  <2>1. open \in SUBSET Nat
    BY <1>4, MadeApart DEF KindFits
  <2> QED BY <1>3, <1>4, <2>1, HeadIsOpen DEF KindFits
<1>5. KindFits(d.approvals, w.approval, Made(cards, "approval"), log)
  BY <1>1, <1>4, MadeApart DEF Pair, CardsFit
<1>6. KindFits(d.userInputs, w.userInput, Made(cards, "question"), log)
  BY <1>1, <1>4, MadeApart DEF Pair, CardsFit
<1>7. CardsFit(d, w, cards)
  BY <1>1, <1>2, <1>5, <1>6 DEF CardsFit
<1>8. Pair(d, w, cards)
  BY <1>1, <1>7 DEF Pair
<1> QED BY <1>8 DEF w

\* More requests made: what fitted still does, and the new one is unheard of.
LEMMA MoreCards ==
  ASSUME NEW d, NEW v, NEW cards \in Seq({"approval", "question"}), Pair(d, v, cards),
         NEW kind \in {"approval", "question"}
  PROVE  LET more == Append(cards, kind)
             id == Len(cards) + 1
         IN  /\ more \in Seq({"approval", "question"})
             /\ Pair(d, v, more)
             /\ id \in Made(more, kind) /\ ~Listed(v.decisions, id)
<1> DEFINE more == Append(cards, kind)
           r == Len(cards)
<1>1. /\ more \in Seq({"approval", "question"}) /\ Len(more) = r + 1 /\ more[r + 1] = kind
      /\ \A i \in 1..r : more[i] = cards[i]
  BY AppendProperties
<1> HIDE DEF more
<1>2. r \in Nat /\ DOMAIN cards = 1..r /\ DOMAIN more = 1..r + 1
  BY <1>1
<1>3. r + 1 \in Made(more, kind) /\ \A any : Made(cards, any) \subseteq Made(more, any)
  BY <1>1, <1>2 DEF Made
<1>4. Lines(r) \subseteq Lines(r + 1)
  BY <1>2 DEF Lines
<1>5. \A S, T, s : S \subseteq T /\ s \in Seq(S) => s \in Seq(T)
  OBVIOUS
<1>6. LogsFit(d.decisions, v.decisions, r)
  BY DEF Pair, CardsFit
<1>7. LogsFit(d.decisions, v.decisions, r + 1)
  BY <1>4, <1>5, <1>6, Zenon DEF LogsFit
<1>8. ~Listed(v.decisions, r + 1)
  <2>1. ASSUME NEW k \in DOMAIN v.decisions PROVE v.decisions[k].id \in 1..r
    <3>1. v.decisions \in Seq(Lines(r))
      BY <1>6 DEF LogsFit
    <3>2. v.decisions[k] \in Lines(r)
      BY <3>1
    <3> QED BY <3>2 DEF Lines
  <2> QED BY <1>2, <2>1 DEF Listed
<1>9. CardsFit(d, v, more)
  BY <1>1, <1>3, <1>7 DEF Pair, CardsFit, KindFits
<1>10. Pair(d, v, more)
  BY <1>9 DEF Pair
<1> QED BY <1>1, <1>3, <1>8, <1>10 DEF more

----------------------------------------------------------------------------
(* The turn in flight.                                                     *)

\* What either fold makes of its turn, but for a start and a deletion.
TurnAfter(m, e) ==
  CASE e.type = "thread.turn.requested" -> e.turn
    [] e.type = "thread.turn.completed" -> IF m = e.turn THEN 0 ELSE m
    [] e.type \in {"thread.session.lost", "thread.unarchived"} -> 0
    [] e.type = "thread.error" -> IF e.fatal THEN 0 ELSE m
    [] OTHER -> m

\* The server's fold leaves its turn alone when one starts.
LEMMA DocTurn ==
  ASSUME NEW d, NEW v, NEW e, NEW cards, Framed(d, v), Live(d), Owed(d, v, e, cards)
  PROVE  Apply(d, e).turn = TurnAfter(d.turn, e)
<1> DEFINE c == Apply(d, e)
<1>1. CASE e.type \in LifeEvents
  <2>1. c = ApplyLife(d, e)
    BY <1>1, Dispatch
  <2>2. c.turn = IF e.type = "thread.unarchived" THEN 0 ELSE d.turn
    BY <1>1, <2>1 DEF ApplyLife, Abandoned, LifeEvents, Framed, DocFields
  <2> QED BY <1>1, <2>2 DEF TurnAfter, LifeEvents
<1>2. CASE e.type \in SessionEvents
  <2>1. c = ApplySession(d, e)
    BY <1>2, Dispatch
  <2>2. c.turn = IF e.type = "thread.session.lost" THEN 0 ELSE d.turn
    BY <1>2, <2>1 DEF ApplySession, Abandoned, SessionEvents, Framed, DocFields
  <2> QED BY <1>2, <2>2 DEF TurnAfter, SessionEvents
<1>3. CASE e.type \in TurnEvents
  <2>1. c = ApplyTurn(d, e)
    BY <1>3, Dispatch
  <2>2. Settled(d, e.turn).turn = IF d.turn = e.turn THEN 0 ELSE d.turn
    BY DEF Settled, Framed, DocFields
  <2> QED BY <1>3, <2>1, <2>2 DEF ApplyTurn, TurnAfter, TurnEvents, Framed, DocFields
<1>4. CASE e.type \in QueueEvents
  <2>1. c = ApplyQueue(d, e)
    BY <1>4, Dispatch
  <2>2. PICK q : c = [d EXCEPT !.queue = q]
    BY <1>4, <2>1 DEF ApplyQueue, QueueEvents
  <2> QED BY <1>4, <2>2 DEF TurnAfter, QueueEvents, Framed, DocFields
<1>5. CASE e.type \in CardEvents
  <2>1. c = ApplyCards(d, e)
    BY <1>5, Dispatch
  <2>2. c.turn = d.turn
    BY <1>5, <2>1 DEF ApplyCards, Answered, CardEvents, Framed, DocFields
  <2> QED BY <1>5, <2>2 DEF TurnAfter, CardEvents
<1>6. CASE e.type \in RestoreEvents
  <2>1. c = ApplyRestore(d, e)
    BY <1>6, Dispatch
  <2>2. c.turn = d.turn
    BY <1>6, <2>1 DEF ApplyRestore, RestoreEvents, Framed, DocFields
  <2> QED BY <1>6, <2>2 DEF TurnAfter, RestoreEvents
<1>7. CASE e.type = "thread.item.upserted"
  <2>1. c = [d EXCEPT !.spoke = TRUE]
    BY <1>7, Dispatch
  <2> QED BY <1>7, <2>1 DEF TurnAfter, Framed, DocFields
<1> QED BY <1>1, <1>2, <1>3, <1>4, <1>5, <1>6, <1>7 DEF Owed

\* The client's fold takes the turn that starts, and none after a deletion.
LEMMA ViewTurnAfter ==
  ASSUME NEW d, NEW v, NEW e, NEW cards, Framed(d, v), Live(d),
         Owed(d, v, e, cards), e.type # "thread.deleted"
  PROVE  ViewApply(v, e).turn = IF e.type = "thread.turn.started" THEN e.turn
                                ELSE TurnAfter(v.turn, e)
<1> DEFINE w == ViewApply(v, e)
<1>1. CASE e.type \in LifeEvents
  <2>1. w = ViewLife(v, e)
    BY <1>1, ViewDispatch
  <2>2. w.turn = IF e.type = "thread.unarchived" THEN 0 ELSE v.turn
    BY <1>1, <2>1 DEF ViewLife, ViewAbandoned, LifeEvents, Framed, ViewFields
  <2> QED BY <1>1, <2>2 DEF TurnAfter, LifeEvents
<1>2. CASE e.type \in SessionEvents
  <2>1. w = ViewSession(v, e)
    BY <1>2, ViewDispatch
  <2>2. w.turn = IF e.type = "thread.session.lost" THEN 0 ELSE v.turn
    BY <1>2, <2>1 DEF ViewSession, ViewAbandoned, SessionEvents, Framed, ViewFields
  <2> QED BY <1>2, <2>2 DEF TurnAfter, SessionEvents
<1>3. CASE e.type \in TurnEvents
  <2>1. w = ViewTurn(v, e)
    BY <1>3, ViewDispatch
  <2>2. ViewSettled(v, e.turn).turn = IF v.turn = e.turn THEN 0 ELSE v.turn
    BY DEF ViewSettled, Framed, ViewFields
  <2> QED BY <1>3, <2>1, <2>2 DEF ViewTurn, TurnAfter, TurnEvents, Framed, ViewFields
<1>4. CASE e.type \in QueueEvents
  <2>1. w = ViewQueue(v, e)
    BY <1>4, ViewDispatch
  <2>2. PICK q : w = [v EXCEPT !.queue = q]
    BY <1>4, <2>1 DEF ViewQueue, QueueEvents
  <2> QED BY <1>4, <2>2 DEF TurnAfter, QueueEvents, Framed, ViewFields
<1>5. CASE e.type \in CardEvents
  <2>1. w = ViewCards(v, e)
    BY <1>5, ViewDispatch
  <2>2. ViewResolved(v, e, "approval").turn = v.turn /\ ViewResolved(v, e, "userInput").turn = v.turn
    BY ViewResolves DEF Untouched
  <2>3. w.turn = v.turn
    BY <1>5, <2>1, <2>2 DEF ViewCards, ViewAnswered, CardEvents, Framed, ViewFields
  <2> QED BY <1>5, <2>3 DEF TurnAfter, CardEvents
<1>6. CASE e.type \in RestoreEvents
  <2>1. w = ViewRestore(v, e)
    BY <1>6, ViewDispatch
  <2>2. w.turn = v.turn
    BY <1>6, <2>1 DEF ViewRestore, RestoreEvents, Framed, ViewFields
  <2> QED BY <1>6, <2>2 DEF TurnAfter, RestoreEvents
<1>7. CASE e.type = "thread.item.upserted"
  BY <1>7, ViewDispatch DEF TurnAfter
<1> QED BY <1>1, <1>2, <1>3, <1>4, <1>5, <1>6, <1>7 DEF Owed

\* One event: two folds that have one turn keep it so, and a new turn is both's.
LEMMA EventTurn ==
  ASSUME NEW d, NEW v, NEW e, NEW cards, Framed(d, v), Live(d), Owed(d, v, e, cards),
         e.type # "thread.turn.started", v.turn = d.turn \/ e.type = "thread.turn.requested"
  PROVE  Live(Apply(d, e)) => ViewApply(v, e).turn = Apply(d, e).turn
<1>1. CASE e.type = "thread.deleted"
  <2>1. Apply(d, e) = [d EXCEPT !.life = "deleted"]
    BY <1>1, Dispatch DEF ApplyLife, LifeEvents
  <2> QED BY <2>1 DEF Live, Framed, DocFields
<1>2. CASE e.type # "thread.deleted"
  <2>1. Apply(d, e).turn = TurnAfter(d.turn, e)
    BY DocTurn
  <2>2. ViewApply(v, e).turn = TurnAfter(v.turn, e)
    BY <1>2, ViewTurnAfter
  <2> QED BY <2>1, <2>2 DEF TurnAfter
<1> QED BY <1>1, <1>2

\* A transaction: the same.
LEMMA TransactionTurn ==
  ASSUME NEW d, NEW v, NEW events, NEW cards \in Seq({"approval", "question"}), Live(d),
         Pair(d, v, cards), Transaction(d, v, events, cards),
         v.turn = d.turn \/ Names(events, "thread.turn.requested")
  PROVE  Live(ApplyAll(d, events)) => ViewApplyAll(v, events).turn = ApplyAll(d, events).turn
<1> DEFINE Same(es) == Live(ApplyAll(d, es)) => ViewApplyAll(v, es).turn = ApplyAll(d, es).turn
<1>0. Framed(d, v)
  BY DEF Pair
<1>1. CASE events = <<>>
  <2>1. ~Names(<<>>, "thread.turn.requested")
    BY DEF Names
  <2> QED BY <1>1, <2>1, NoEvent
<1>2. ASSUME NEW e, events = <<e>>, Owed(d, v, e, cards), e.type # "thread.turn.started"
      PROVE  Same(events)
  <2>1. Names(<<e>>, "thread.turn.requested") => e.type = "thread.turn.requested"
    BY DEF Names
  <2>2. Live(Apply(d, e)) => ViewApply(v, e).turn = Apply(d, e).turn
    BY <1>0, <1>2, <2>1, EventTurn
  <2> QED BY <1>2, <2>2, OneEvent
<1>3. ASSUME NEW e, NEW f, events = <<e, f>>, Owed(d, v, e, cards),
             e.type \in {"thread.turn.requested", "thread.turn.steered", "thread.error"},
             f.type \in {"thread.item.upserted", "thread.turn.completed"}
      PROVE  Same(events)
  <2> DEFINE c == Apply(d, e)
             w == ViewApply(v, e)
  <2>1. Names(<<e, f>>, "thread.turn.requested") => e.type = "thread.turn.requested"
    <3>1. DOMAIN <<e, f>> = {1, 2} /\ <<e, f>>[1] = e /\ <<e, f>>[2] = f
      OBVIOUS
    <3> QED BY <1>3, <3>1 DEF Names
  <2>2. Pair(c, w, cards)
    BY <1>3, EventPair
  <2>3. Live(c)
    BY <1>0, <1>3, StaysLive
  <2>4. w.turn = c.turn
    BY <1>0, <1>3, <2>1, <2>3, EventTurn
  <2> HIDE DEF c, w
  <2>5. Owed(c, w, f, cards)
    BY <1>3 DEF Owed, TurnEvents
  <2>6. Live(Apply(c, f)) => ViewApply(w, f).turn = Apply(c, f).turn
    BY <1>3, <2>2, <2>3, <2>4, <2>5, EventTurn DEF Pair
  <2> QED BY <1>3, <2>6, TwoEvents DEF c, w
<1> QED BY <1>1, <1>2, <1>3 DEF Transaction

----------------------------------------------------------------------------
(* The steps.                                                              *)

\* What every writer's step amounts to, the start of a turn apart: a transaction,
\* and the ids it takes.
Stepped(events) ==
  /\ Folded(events) /\ Mints' /\ Pair(doc, view, minted'.cards)
  /\ Transaction(doc, view, events, minted'.cards)
  /\ minted'.turns # minted.turns => Names(events, "thread.turn.requested")

Stepping == \E events : Stepped(events)

LEMMA SteppingKeeps == ASSUME Stepping PROVE FoldsInv'
BY TransactionPair DEF Stepping, Stepped, Folded, FoldsInv, Mints

LEMMA SteppingTurn ==
  ASSUME Stepping, view.turn = doc.turn \/ minted'.turns # minted.turns
  PROVE  Live(doc') => view'.turn = doc'.turn
<1>1. PICK events : Stepped(events)
  BY DEF Stepping
<1>2. Transaction(doc, view, events, minted'.cards) /\ Pair(doc, view, minted'.cards) /\ Live(doc)
  BY <1>1 DEF Stepped, Folded
<1>3. minted'.cards \in Seq({"approval", "question"})
  BY <1>1 DEF Stepped, Mints
<1>4. view.turn = doc.turn \/ Names(events, "thread.turn.requested")
  BY <1>1 DEF Stepped
<1>5. Live(ApplyAll(doc, events)) => ViewApplyAll(view, events).turn = ApplyAll(doc, events).turn
  BY <1>2, <1>3, <1>4, TransactionTurn
<1> QED BY <1>1, <1>5 DEF Stepped, Folded

\* No request is made, and a turn only where the transaction requests one.
LEMMA Steps ==
  ASSUME FoldsInv, NEW events, Folded(events), Transaction(doc, view, events, minted.cards),
         NEW t \in Nat, NEW m, minted' = [minted EXCEPT !.turns = t, !.messages = m],
         t # minted.turns => Names(events, "thread.turn.requested")
  PROVE  Stepping
<1>1. /\ minted'.cards = minted.cards /\ minted'.turns = t
      /\ minted' = [f \in {"turns", "messages", "cards"} |-> minted'[f]]
  BY DEF FoldsInv, Mints
<1>2. Mints' /\ Pair(doc, view, minted'.cards)
  BY <1>1 DEF FoldsInv, Mints
<1>3. Transaction(doc, view, events, minted'.cards)
  BY <1>1
<1> QED BY <1>1, <1>2, <1>3 DEF Stepping, Stepped

LEMMA CommandSteps ==
  ASSUME FoldsInv, NEW cmd, cmd.type \in FoldCommands, Command(cmd)
  PROVE  Stepping
<1> DEFINE env == [turn |-> minted.turns + 1, message |-> minted.messages + 1]
           Result(barred) == Decide(cmd, doc, [projectExists |-> TRUE, restoreInFlight |-> barred], env)
           Turn(barred) == IF Names(Result(barred).events, "thread.turn.requested") THEN 1 ELSE 0
           Message(barred) == IF Names(Result(barred).events, "thread.message.queued") THEN 1 ELSE 0
<1>1. PICK barred \in BOOLEAN :
        /\ Result(barred).accepted /\ Folded(Result(barred).events)
        /\ minted' = [minted EXCEPT !.turns = @ + Turn(barred), !.messages = @ + Message(barred)]
  BY DEF Command
<1>2. Live(doc) /\ Pair(doc, view, minted.cards) /\ minted.turns \in Nat
  BY <1>1 DEF Folded, FoldsInv, Mints
<1>3. Transaction(doc, view, Result(barred).events, minted.cards)
  BY <1>1, <1>2, DecisionKeeps
<1> DEFINE t == minted.turns + Turn(barred)
           m == minted.messages + Message(barred)
<1>4. t \in Nat /\ (t # minted.turns => Names(Result(barred).events, "thread.turn.requested"))
  BY <1>2
<1>5. minted' = [minted EXCEPT !.turns = t, !.messages = m]
  BY <1>1
<1>6. Folded(Result(barred).events)
  BY <1>1
<1> HIDE DEF env, Result, Turn, Message, t, m
<1> QED BY <1>3, <1>4, <1>5, <1>6, Steps

LEMMA UserSteps == ASSUME FoldsInv, UserCommand PROVE Stepping
<1> DEFINE OK(cmd) == cmd.type \in FoldCommands => (Command(cmd) => Stepping)
<1>1. ASSUME NEW cmd PROVE OK(cmd)
  BY CommandSteps
<1> HIDE DEF OK
<1>2. \A type : OK([type |-> type]) /\ \A q : OK([type |-> type, queued |-> q])
  BY <1>1
<1>3. \A type, r : OK([type |-> type, request |-> r]) /\ OK([type |-> type, turn |-> r])
                 /\ OK([type |-> type, message |-> r])
                 /\ \A to : OK([type |-> type, message |-> r, to |-> to])
  BY <1>1
<1>4. CASE \E type \in {"thread.archive", "thread.unarchive", "thread.delete", "thread.turn.steer",
                        "thread.turn.interrupt"} : Command([type |-> type])
  BY <1>2, <1>4 DEF OK, FoldCommands
<1>5. CASE \E queued \in BOOLEAN : Command([type |-> "thread.turn.start", queued |-> queued])
  <2>1. PICK queued \in BOOLEAN : Command([type |-> "thread.turn.start", queued |-> queued])
    BY <1>5
  <2>2. OK([type |-> "thread.turn.start", queued |-> queued])
    BY <1>2
  <2> QED BY <2>1, <2>2 DEF OK, FoldCommands
<1>6. CASE \E r \in 1..Len(minted.cards), type \in {"thread.approval.respond", "thread.userInput.respond"} :
             Command([type |-> type, request |-> r])
  BY <1>3, <1>6 DEF OK, FoldCommands
<1>7. CASE \E m \in 1..minted.turns, type \in {"thread.plan.respond", "thread.checkpoint.restore"} :
             Command([type |-> type, turn |-> m])
  BY <1>3, <1>7 DEF OK, FoldCommands
<1>8. CASE \E q \in 1..minted.messages : Command([type |-> "thread.queue.remove", message |-> q])
  BY <1>3, <1>8 DEF OK, FoldCommands
<1>9. CASE \E q, to \in 1..minted.messages :
             Command([type |-> "thread.queue.reorder", message |-> q, to |-> to])
  <2>1. PICK q, to \in 1..minted.messages :
          Command([type |-> "thread.queue.reorder", message |-> q, to |-> to])
    BY <1>9
  <2>2. OK([type |-> "thread.queue.reorder", message |-> q, to |-> to])
    BY <1>3
  <2> QED BY <2>1, <2>2 DEF OK, FoldCommands
<1> QED BY <1>4, <1>5, <1>6, <1>7, <1>8, <1>9 DEF UserCommand

\* An append that takes no id.
LEMMA WriteSteps ==
  ASSUME FoldsInv, NEW events, Writes(events), Transaction(doc, view, events, minted.cards)
  PROVE  Stepping
<1>1. Folded(events) /\ minted.turns \in Nat
  BY DEF Writes, FoldsInv, Mints
<1>2. minted' = [minted EXCEPT !.turns = minted.turns, !.messages = minted.messages]
  BY DEF Writes, FoldsInv, Mints
<1> QED BY <1>1, <1>2, Steps

\* And owes nothing.
LEMMA PlainSteps ==
  ASSUME FoldsInv, NEW e, e.type \in Plain, Writes(<<e>>)
  PROVE  Stepping
BY PlainTransaction, WriteSteps

\* The session's start of a turn, of any age, is the one append that may set the
\* turns apart; it ties the rest like every other event.
Starting == \E m \in 1..minted.turns : Writes(<<TurnStarted(m)>>)

LEMMA StartingKeeps == ASSUME FoldsInv, Starting PROVE FoldsInv'
<1>1. PICK m \in 1..minted.turns : Writes(<<TurnStarted(m)>>)
  BY DEF Starting
<1> DEFINE e == TurnStarted(m)
<1>2. minted' = minted /\ Live(doc) /\ doc' = Apply(doc, e) /\ view' = ViewApply(view, e)
  BY <1>1, OneEvent DEF Writes, Folded
<1>3. Owed(doc, view, e, minted.cards)
  BY DEF Owed, TurnStarted, TurnEvents
<1> HIDE DEF e
<1>4. Pair(doc', view', minted.cards)
  BY <1>2, <1>3, EventPair DEF FoldsInv, Mints
<1> QED BY <1>2, <1>4 DEF FoldsInv, Mints

LEMMA SessionSteps == ASSUME FoldsInv, SessionWrites PROVE Stepping \/ Starting
<1>1. ASSUME NEW i \in Instances, NEW s \in Steering \ {"unknown"}, Writes(<<SessionBound(i, s)>>)
      PROVE  Stepping
  <2>1. Owed(doc, view, SessionBound(i, s), minted.cards)
    BY DEF Owed, SessionBound, SessionEvents
  <2>2. Transaction(doc, view, <<SessionBound(i, s)>>, minted.cards)
    BY <2>1 DEF Transaction, SessionBound
  <2> QED BY <1>1, <2>2, WriteSteps
<1>2. ASSUME NEW m, Writes(<<TurnCompleted(m)>>) PROVE Stepping
  <2>1. TurnCompleted(m).type \in Plain
    BY DEF TurnCompleted, Plain
  <2> QED BY <1>2, <2>1, PlainSteps
<1>3. ASSUME NEW m, Writes(<<PlanProposed(m)>>) PROVE Stepping
  <2>1. PlanProposed(m).type \in Plain
    BY DEF PlanProposed, Plain
  <2> QED BY <1>3, <2>1, PlainSteps
<1>4. ASSUME NEW fatal \in BOOLEAN, Writes(<<ThreadError(fatal)>>) PROVE Stepping
  <2>1. ThreadError(fatal).type \in Plain
    BY DEF ThreadError, Plain
  <2> QED BY <1>4, <2>1, PlainSteps
<1> QED BY <1>1, <1>2, <1>3, <1>4 DEF SessionWrites, Starting

LEMMA ReactorSteps == ASSUME FoldsInv, ReactorWrites PROVE Stepping
<1>1. ASSUME NEW m, Writes(<<ThreadError(TRUE), TurnCompleted(m)>>) PROVE Stepping
  <2> DEFINE e == ThreadError(TRUE)
             f == TurnCompleted(m)
  <2>1. e.type = "thread.error" /\ f.type = "thread.turn.completed"
    BY DEF ThreadError, TurnCompleted
  <2>2. Writes(<<e, f>>)
    BY <1>1
  <2> HIDE DEF e, f
  <2>3. Owed(doc, view, e, minted.cards)
    BY <2>1, PlainOwed DEF Plain
  <2>4. Transaction(doc, view, <<e, f>>, minted.cards)
    BY <2>1, <2>3 DEF Transaction
  <2> QED BY <2>2, <2>4, WriteSteps
<1>2. ASSUME Drain PROVE Stepping
  <2>1. Writes(<<Dequeued(Head(doc.queue))>>) /\ Dequeued(Head(doc.queue)).type \in Plain
    BY <1>2 DEF Drain, Dequeued, Plain
  <2> QED BY <2>1, PlainSteps
<1>3. ASSUME Requeue PROVE Stepping
  <2>1. PICK q : Writes(<<Queued(q)>>)
    BY <1>3 DEF Requeue
  <2>2. Queued(q).type \in Plain
    BY DEF Queued, Plain
  <2> QED BY <2>1, <2>2, PlainSteps
<1>4. ASSUME QueueSteered PROVE Stepping
  <2> DEFINE e == Queued(minted.messages + 1)
             m == minted.messages + 1
  <2>1. e.type \in Plain
    BY DEF Queued, Plain
  <2>2. Folded(<<e>>) /\ minted' = [minted EXCEPT !.turns = minted.turns, !.messages = m]
    BY <1>4 DEF QueueSteered, FoldsInv, Mints
  <2> HIDE DEF e, m
  <2>3. Transaction(doc, view, <<e>>, minted.cards) /\ minted.turns \in Nat
    BY <2>1, PlainTransaction DEF FoldsInv, Mints
  <2> QED BY <2>2, <2>3, Steps
<1>5. ASSUME GiveUp PROVE Stepping
  <2>1. Writes(<<SessionLost>>) /\ SessionLost.type \in Plain
    BY <1>5 DEF GiveUp, SessionLost, Plain
  <2> QED BY <2>1, PlainSteps
<1>6. ASSUME NEW m, Writes(<<CheckpointCreated(m)>>) PROVE Stepping
  <2>1. CheckpointCreated(m).type \in Plain
    BY DEF CheckpointCreated, Plain
  <2> QED BY <1>6, <2>1, PlainSteps
<1>7. ASSUME NEW ok \in BOOLEAN, Writes(<<RestoreSettled(ok)>>) PROVE Stepping
  <2>1. RestoreSettled(ok).type \in Plain
    BY DEF RestoreSettled, Plain
  <2> QED BY <1>7, <2>1, PlainSteps
<1>8. ASSUME Writes(<<ThreadError(TRUE)>>) PROVE Stepping
  <2>1. ThreadError(TRUE).type \in Plain
    BY DEF ThreadError, Plain
  <2> QED BY <1>8, <2>1, PlainSteps
<1> QED BY <1>1, <1>2, <1>3, <1>4, <1>5, <1>6, <1>7, <1>8
           DEF ReactorWrites, FailThread, CheckpointTaken, RestoreEnds

\* A request opens under a fresh id.
LEMMA OpenSteps == ASSUME FoldsInv, CardOpens PROVE Stepping
<1> DEFINE cards == minted.cards
           id == Len(cards) + 1
           Event(kind) == IF kind = "approval" THEN ApprovalOpened(id) ELSE InputRequested(id)
<1>1. PICK kind \in {"approval", "question"} :
        Folded(<<Event(kind)>>) /\ minted' = [minted EXCEPT !.cards = Append(@, kind)]
  BY DEF CardOpens
<1> DEFINE more == Append(cards, kind)
           e == Event(kind)
<1>2. /\ minted'.cards = more /\ minted'.turns = minted.turns
      /\ minted' = [f \in {"turns", "messages", "cards"} |-> minted'[f]]
  BY <1>1 DEF FoldsInv, Mints
<1>3. /\ more \in Seq({"approval", "question"}) /\ Pair(doc, view, more)
      /\ id \in Made(more, kind) /\ ~Listed(view.decisions, id)
  BY MoreCards DEF FoldsInv, Mints
<1>4. e.type = IF kind = "approval" THEN "thread.approval.opened" ELSE "thread.userInput.requested"
  BY DEF ApprovalOpened, InputRequested
<1>5. e.request = id
  BY DEF ApprovalOpened, InputRequested
<1>6. Folded(<<e>>)
  BY <1>1
<1> HIDE DEF cards, id, Event, more, e
<1>7. Owed(doc, view, e, more) /\ e.type # "thread.turn.started"
  BY <1>1, <1>3, <1>4, <1>5 DEF Owed, CardEvents
<1>8. Transaction(doc, view, <<e>>, more)
  BY <1>7 DEF Transaction
<1>9. Mints'
  BY <1>2, <1>3 DEF FoldsInv, Mints
<1>10. Stepped(<<e>>)
  BY <1>2, <1>3, <1>6, <1>8, <1>9 DEF Stepped
<1> QED BY <1>10 DEF Stepping

LEMMA ReleaseSteps == ASSUME FoldsInv, CardReleased PROVE Stepping
<1> DEFINE Event(r) == IF minted.cards[r] = "approval" THEN ApprovalResolved(r, "connector")
                                                      ELSE InputResolved(r, "connector")
<1>1. PICK r \in DOMAIN minted.cards : Writes(<<Event(r)>>)
  BY DEF CardReleased
<1> DEFINE e == Event(r)
<1>2. Writes(<<e>>)
  BY <1>1
<1>3. minted.cards[r] \in {"approval", "question"}
  BY DEF FoldsInv, Mints
<1>4. /\ e.request = r
      /\ e.type = IF minted.cards[r] = "approval" THEN "thread.approval.resolved"
                                                  ELSE "thread.userInput.resolved"
  BY DEF ApprovalResolved, InputResolved
<1> HIDE DEF e, Event
<1>5. Owed(doc, view, e, minted.cards) /\ e.type # "thread.turn.started"
  BY <1>3, <1>4 DEF Owed, CardEvents, Made
<1>6. Transaction(doc, view, <<e>>, minted.cards)
  BY <1>5 DEF Transaction
<1> QED BY <1>2, <1>6, WriteSteps

LEMMA NextSteps == ASSUME FoldsInv, FoldsNext PROVE Stepping \/ Starting \/ Resnapshot
BY UserSteps, SessionSteps, OpenSteps, ReleaseSteps, ReactorSteps DEF FoldsNext

LEMMA NextKeeps == ASSUME FoldsInv, [FoldsNext]_fvars PROVE FoldsInv'
<1>1. CASE UNCHANGED fvars
  BY <1>1 DEF fvars, FoldsInv, Mints
<1>2. CASE Resnapshot
  <2>1. doc' = doc /\ minted' = minted /\ view' = SnapshotOf(doc)
    BY <1>2 DEF Resnapshot
  <2> QED BY <2>1, SnapshotPair DEF FoldsInv, Mints
<1> QED BY <1>1, <1>2, NextSteps, SteppingKeeps, StartingKeeps

\* An event that leaves either fold with no turn, or with the one in flight.
LEMMA WriteRejoins ==
  ASSUME FoldsInv, NEW e, Writes(<<e>>), Owed(doc, view, e, minted.cards),
         e.type # "thread.deleted",
         \/ e.type \in {"thread.session.lost", "thread.unarchived"}
         \/ e.type = "thread.error" /\ e.fatal
         \/ e.type = "thread.turn.started" /\ e.turn = doc.turn
  PROVE  view'.turn = doc'.turn
<1>0. Framed(doc, view)
  BY DEF FoldsInv, Pair
<1>1. Live(doc) /\ doc' = Apply(doc, e) /\ view' = ViewApply(view, e)
  BY OneEvent DEF Writes, Folded
<1>2. Apply(doc, e).turn = TurnAfter(doc.turn, e)
  BY <1>0, <1>1, DocTurn
<1>3. ViewApply(view, e).turn = IF e.type = "thread.turn.started" THEN e.turn
                                ELSE TurnAfter(view.turn, e)
  BY <1>0, <1>1, ViewTurnAfter
<1> QED BY <1>1, <1>2, <1>3 DEF TurnAfter

\* Apart or not, each of these leaves the two with one turn.
LEMMA RejoinsTurn ==
  ASSUME FoldsInv, FoldsNext, Rejoins
  PROVE  Live(doc') => view'.turn = doc'.turn
<1>0. Framed(doc, view)
  BY DEF FoldsInv, Pair
<1>1. CASE minted'.turns # minted.turns
  <2>1. ~Starting /\ ~Resnapshot
    BY <1>1 DEF Starting, Writes, Resnapshot
  <2> QED BY <1>1, <2>1, NextSteps, SteppingTurn
<1>2. CASE Writes(<<TurnStarted(doc.turn)>>)
  <2> DEFINE e == TurnStarted(doc.turn)
  <2>1. e.type = "thread.turn.started" /\ e.turn = doc.turn
    BY DEF TurnStarted
  <2>2. Owed(doc, view, e, minted.cards)
    BY DEF Owed, TurnStarted, TurnEvents
  <2>3. Writes(<<e>>)
    BY <1>2
  <2> HIDE DEF e
  <2> QED BY <2>1, <2>2, <2>3, WriteRejoins
<1>3. CASE Command([type |-> "thread.unarchive"])
  <2>1. Folded(<<Unarchived>>)
    <3>1. PICK ctx, env : LET result == Decide([type |-> "thread.unarchive"], doc, ctx, env)
                          IN  result.accepted /\ Folded(result.events)
      BY <1>3 DEF Command
    <3>2. Decide([type |-> "thread.unarchive"], doc, ctx, env) =
            When(doc.status = "archived", <<Unarchived>>)
      BY <3>1 DEF Decide, DecideLive, Folded, Rejected
    <3> QED BY <3>1, <3>2 DEF When, Accepted, Rejected
  <2>2. doc' = Apply(doc, Unarchived) /\ view' = ViewApply(view, Unarchived) /\ Live(doc)
    BY <2>1, OneEvent DEF Folded
  <2>3. Owed(doc, view, Unarchived, minted.cards) /\ Unarchived.type = "thread.unarchived"
    BY PlainOwed DEF Plain, Unarchived
  <2>4. doc'.turn = 0 /\ view'.turn = 0
    BY <1>0, <2>2, <2>3, DocTurn, ViewTurnAfter DEF TurnAfter
  <2> QED BY <2>4
<1>4. CASE GiveUp
  <2>1. Writes(<<SessionLost>>) /\ SessionLost.type = "thread.session.lost"
    BY <1>4 DEF GiveUp, SessionLost
  <2>2. Owed(doc, view, SessionLost, minted.cards)
    BY <2>1, PlainOwed DEF Plain
  <2> QED BY <2>1, <2>2, WriteRejoins
<1>5. CASE Writes(<<ThreadError(TRUE)>>)
  <2> DEFINE e == ThreadError(TRUE)
  <2>1. e.type = "thread.error" /\ e.fatal /\ Writes(<<e>>)
    BY <1>5 DEF ThreadError
  <2> HIDE DEF e
  <2>2. Owed(doc, view, e, minted.cards)
    BY <2>1, PlainOwed DEF Plain
  <2> QED BY <2>1, <2>2, WriteRejoins
<1>6. CASE Resnapshot
  BY <1>6 DEF Resnapshot, SnapshotOf
<1> QED BY <1>1, <1>2, <1>3, <1>4, <1>5, <1>6 DEF Rejoins

\* Together, and no late start: together after the step.
LEMMA StaysTogether ==
  ASSUME FoldsInv, [FoldsNext]_fvars, view.turn = doc.turn, ~StartsLate
  PROVE  Live(doc') => view'.turn = doc'.turn
<1>1. CASE UNCHANGED fvars
  BY <1>1 DEF fvars
<1>2. CASE Stepping
  BY <1>2, SteppingTurn
<1>3. CASE Starting
  <2>1. PICK m \in 1..minted.turns : Writes(<<TurnStarted(m)>>)
    BY <1>3 DEF Starting
  <2>2. m = doc.turn
    BY <2>1 DEF StartsLate
  <2> DEFINE e == TurnStarted(m)
  <2>3. /\ Owed(doc, view, e, minted.cards) /\ e.type = "thread.turn.started" /\ e.turn = m
        /\ Framed(doc, view)
    BY DEF Owed, TurnStarted, TurnEvents, FoldsInv, Pair
  <2>4. Live(doc) /\ doc' = Apply(doc, e) /\ view' = ViewApply(view, e)
    BY <2>1, OneEvent DEF Writes, Folded
  <2> HIDE DEF e
  <2>5. doc'.turn = doc.turn /\ view'.turn = m
    BY <2>3, <2>4, DocTurn, ViewTurnAfter DEF TurnAfter
  <2> QED BY <2>2, <2>5
<1>4. CASE Resnapshot
  BY <1>4 DEF Resnapshot, SnapshotOf
<1> QED BY <1>1, <1>2, <1>3, <1>4, NextSteps

\* The invariant holds of a fresh thread and its first snapshot.
LEMMA InitialPair == ASSUME FoldsInit PROVE FoldsInv
<1> DEFINE d == [NoDoc EXCEPT !.life = "live", !.chosen = NoInstance]
<1>1. doc = d /\ view = SnapshotOf(doc) /\ minted.cards = <<>>
  BY DEF FoldsInit, Apply, Created
<1>mints. Mints
  BY DEF FoldsInit, Mints
<1>2. \A T : <<>> \in Seq(T) /\ DOMAIN <<>> = {} /\ Len(<<>>) = 0
  OBVIOUS
<1>3. /\ d = [f \in DocFields |-> d[f]] /\ d.decisions = <<>> /\ d.approvals = {}
      /\ d.userInputs = {} /\ d.session = NoSession /\ NoSession.steering \in Steering
  BY DEF NoDoc, DocFields, NoSession, Steering
<1> HIDE DEF d
<1>4. HeadCard({}) = 0
  BY DEF HeadCard
<1>5. /\ Framed(doc, view) /\ Copied(doc, view)
      /\ view.approval = 0 /\ view.userInput = 0 /\ view.decisions = <<>>
  BY <1>1, <1>3, <1>4 DEF SnapshotOf, Framed, ViewFields, Copied
<1>6. LogsFit(doc.decisions, view.decisions, Len(minted.cards))
  BY <1>1, <1>2, <1>3, <1>5 DEF LogsFit, Single
<1>7. CardsFit(doc, view, minted.cards)
  BY <1>1, <1>3, <1>5, <1>6 DEF CardsFit, KindFits
<1> QED BY <1>mints, <1>5, <1>7 DEF FoldsInv, Pair

----------------------------------------------------------------------------
\* The two folds stay tied, whoever writes, however late, and whenever the client
\* asks for a new snapshot.
THEOREM FoldsInvariant == FoldsSpec => []FoldsInv
<1>1. FoldsInit => FoldsInv
  BY InitialPair
<1>2. FoldsInv /\ [FoldsNext]_fvars => FoldsInv'
  BY NextKeeps
<1> QED BY <1>1, <1>2, PTL DEF FoldsSpec

\* The client's fold and the server's agree on the queue, the session, the plan,
\* the checkpoints and the restore (clientState.ts, state.ts), and a card on show in
\* the client is one that the decider still accepts an answer to.
THEOREM TheFoldsAgree == FoldsSpec => []FoldsAgree
<1>1. FoldsInv => FoldsAgree
  BY DEF FoldsInv, Pair, Copied, CardsFit, KindFits, FoldsAgree
<1> QED BY <1>1, FoldsInvariant, PTL

\* They part on the turn only over a late turn.started, which clientState.ts takes
\* and state.ts does not, and a new turn, the start of the one in flight, an
\* unarchive, a lost session, a fatal error and a snapshot each mend it.
THEOREM TurnsPartOnLateStarts == FoldsSpec => TurnsStayTogether
<1> DEFINE Kept == \/ view'.turn = doc'.turn
                   \/ view.turn = doc.turn /\ StartsLate
                   \/ view.turn # doc.turn /\ ~Rejoins
<1>1. FoldsInv /\ [FoldsNext]_fvars => [Live(doc') => Kept]_fvars
  <2> SUFFICES ASSUME FoldsInv, [FoldsNext]_fvars, ~UNCHANGED fvars, Live(doc') PROVE Kept
    OBVIOUS
  <2>1. CASE view.turn = doc.turn
    BY <2>1, StaysTogether
  <2>2. CASE view.turn # doc.turn
    BY <2>2, RejoinsTurn
  <2> QED BY <2>1, <2>2
<1> QED BY <1>1, FoldsInvariant, PTL DEF FoldsSpec, TurnsStayTogether

\* Every decision of the log is listed by the client with its outcome, and no
\* request twice, echoes and resnapshots included.
THEOREM DecisionsAreShown == FoldsSpec => []DecisionsShown
<1>1. FoldsInv => DecisionsShown
  BY DEF FoldsInv, Pair, CardsFit, LogsFit, Single, DecisionsShown
<1> QED BY <1>1, FoldsInvariant, PTL
=============================================================================
