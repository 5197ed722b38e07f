---------------------------- MODULE ApprovalGate ----------------------------
(***************************************************************************)
(* How one Command Code session answers the harness's PreToolUse posts:    *)
(* the SDK's approval gate (connector-sdk/approvalGate.ts), the hook       *)
(* answerer around it (connector-cmd/hookAnswers.ts) and the hook bridge's *)
(* ceiling (server HookBridge.ts).                                         *)
(*                                                                         *)
(* Each post mints one request id.  A post is decided by the permission    *)
(* ladder, which reads the database and so suspends, or opens a card and   *)
(* parks on that request's Deferred, whose first answer stands.  The posts *)
(* are concurrent fibers; the session releases all of them at once when    *)
(* the process that asked is gone.                                         *)
(***************************************************************************)
EXTENDS Naturals, Sequences

CONSTANTS Approvals,   \* request ids of tool calls that need a decision
          Questions    \* request ids of ask_user_question posts

ASSUME KindsAssumption == Approvals \cap Questions = {}

Requests == Approvals \cup Questions

VARIABLES
  posts,     \* request -> where its post is, and what the harness was told
  pending,   \* requests in the gate's map or in pendingUserInputs
  answer,    \* request -> its Deferred: "none", or the answer that stands
  cards,     \* request -> what the event stream carried about it, in order
  over       \* the session's event queue has ended: further offers are dropped

gateVars == <<posts, pending, answer, cards, over>>

Decisions == {"allow", "deny"}

GateInit ==
  /\ posts = [r \in Requests |-> [pc |-> "none", told |-> "nothing"]]
  /\ pending = {}
  /\ answer = [r \in Requests |-> "none"]
  /\ cards = [r \in Requests |-> <<>>]
  /\ over = FALSE

\* The cards after each request of R has had what its `said` says offered.
Announced(R, said) ==
  IF over THEN cards
  ELSE [r \in Requests |-> IF r \in R THEN Append(cards[r], said[r]) ELSE cards[r]]

Answered(r, d) == [answer EXCEPT ![r] = IF @ = "none" THEN d ELSE @]

Told(r, d) == [posts EXCEPT ![r] = [pc |-> "done", told |-> d]]

\* A PreToolUse post arrives.  A question is registered and announced with no
\* await between; an approval goes to the permission ladder first.
Post(r) ==
  /\ posts[r].pc = "none"
  /\ IF r \in Questions
     THEN /\ posts' = [posts EXCEPT ![r].pc = "parked"]
          /\ pending' = pending \cup {r}
          /\ cards' = Announced({r}, [q \in {r} |-> "opened"])
     ELSE /\ posts' = [posts EXCEPT ![r].pc = "deciding"]
          /\ UNCHANGED <<pending, cards>>
  /\ UNCHANGED <<answer, over>>

\* The ladder allows or denies: answered at once, and nothing is announced.
DecidedByRules(r, d) ==
  /\ posts[r].pc = "deciding"
  /\ posts' = Told(r, d)
  /\ UNCHANGED <<pending, answer, cards, over>>

\* The ladder prompts, or dies of a defect: the request is opened and parks.
Ask(r) ==
  /\ posts[r].pc = "deciding"
  /\ posts' = [posts EXCEPT ![r].pc = "parked"]
  /\ pending' = pending \cup {r}
  /\ cards' = Announced({r}, [q \in {r} |-> "opened"])
  /\ UNCHANGED <<answer, over>>

\* The user answers a card; an id that is not pending is ignored.
Respond(r, d) ==
  /\ r \in pending
  /\ answer' = Answered(r, d)
  /\ UNCHANGED <<posts, pending, cards, over>>

\* Mutant: the parked fiber announces whether or not it was still pending.
WakeUnchecked(r) ==
  /\ posts[r].pc = "parked" /\ answer[r] # "none"
  /\ posts' = Told(r, IF r \in Questions THEN "deny" ELSE answer[r])
  /\ pending' = pending \ {r}
  /\ cards' = Announced({r}, answer)
  /\ UNCHANGED <<answer, over>>

\* The parked fiber resumes.  An approval announces its resolution only when it
\* takes its request out of the map; a question always does, and its tool is
\* denied with the answers as the reason.
Wake(r) ==
  /\ posts[r].pc = "parked" /\ answer[r] # "none"
  /\ posts' = Told(r, IF r \in Questions THEN "deny" ELSE answer[r])
  /\ pending' = pending \ {r}
  /\ cards' = Announced({r} \cap (Questions \cup pending), answer)
  /\ UNCHANGED <<answer, over>>

\* Mutant: a post that is cut takes its request with it and says nothing.
CutForgetting(r) ==
  /\ posts[r].pc \in {"deciding", "parked"}
  /\ posts' = [posts EXCEPT ![r] = [pc |-> "cut", told |-> "deny"]]
  /\ pending' = pending \ {r}
  /\ UNCHANGED <<answer, cards, over>>

\* The bridge's ceiling passes, or the hook script is gone: the fiber is
\* interrupted where it waits, and its request stays in the map.
Cut(r) ==
  /\ posts[r].pc \in {"deciding", "parked"}
  /\ posts' = [posts EXCEPT ![r] = [pc |-> "cut", told |-> "deny"]]
  /\ UNCHANGED <<pending, answer, cards, over>>

\* Mutant: a release announces its own decision, not the one that stands.
ReleaseAnnouncingDeny ==
  /\ answer' = [r \in Requests |-> IF r \in pending /\ answer[r] = "none" THEN "deny" ELSE answer[r]]
  /\ cards' = Announced(pending, [r \in Requests |-> "deny"])
  /\ pending' = {}

\* releasePending: every open request is answered "deny" unless an answer
\* landed first, and whichever stands is announced.
Release ==
  /\ answer' = [r \in Requests |-> IF r \in pending /\ answer[r] = "none" THEN "deny" ELSE answer[r]]
  /\ cards' = Announced(pending, answer')
  /\ pending' = {}

\* The steps of the posts' own fibers and of the user.
GateNext ==
  \E r \in Requests :
    \/ \E d \in Decisions : DecidedByRules(r, d) \/ Respond(r, d)
    \/ Ask(r) \/ Wake(r) \/ Cut(r)
=============================================================================
