---------------------------- MODULE DeliveryProps ----------------------------
(***************************************************************************)
(* What a subscription promises the view behind it.                        *)
(***************************************************************************)
EXTENDS Delivery

\* Any one of the views: they only share what the specification lets change freely.
View == CHOOSE s \in Subs : TRUE

Abstract == INSTANCE Replica WITH copy <- views[View].copy

\* A view implements Replica: the window, its merges and its budget, lost
\* sockets, restarts, resumed and fresh subscriptions never leave a hole in a
\* copy that is shown, unless a later event of the log fills it.
ViewsAreReplicas == Abstract!ReplicaSpec

\* A view parked on a server of another protocol is never left behind a banner
\* that says all is well (`incompatible` is "absorbing everywhere").
ParkedIsShown ==
  \A s \in Subs : views[s].pc = "parked" => state.status = "incompatible"

\* Every committed event reaches every view, by itself or in a snapshot, once
\* the socket stays up, however far the view had fallen behind.
ViewsCatchUp ==
  \A s \in Subs : \A n \in 1..MaxLog :
    (Len(log) >= n) ~> (views[s].copy.seq >= n \/ views[s].pc = "parked")
=============================================================================
