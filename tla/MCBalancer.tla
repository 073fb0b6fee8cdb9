----------------------------- MODULE MCBalancer -----------------------------
(* The instance of Balancer that TLC checks.                                *)
EXTENDS Balancer, TLC

CONSTANTS p1, p2, p3

\* Two peers and a spare one, a peer with a backup, a single peer, and one next to a
\* peer that is down.
MCUpstreams ==
  {[primary |-> <<p3, p1>>, backup |-> <<>>],
   [primary |-> <<p1, p2>>, backup |-> <<>>],
   [primary |-> <<p1>>, backup |-> <<p2>>],
   [primary |-> <<p1>>, backup |-> <<>>]}
=============================================================================
