------------------------------ MODULE MCShmTree ------------------------------
(* Keys for the runs of ShmTree.                                            *)
EXTENDS ShmTree

\* Two sets of keys that collide, of words of one and two letters.  In the first "2" is
\* in conflict with "11" and "12", which sort before it and are longer; "1" is shorter
\* and sorts before both, and the keys of the second set have no conflicts.
MCKeys == {<<1>>, <<2>>, <<1, 1>>, <<1, 2>>, <<3>>, <<3, 1>>}
MCHash(k) == IF k[1] < 3 THEN 1 ELSE 2

\* Both kinds of keys are among them.
ASSUME MCBothKinds ==
  /\ \E k, t \in MCKeys : InConflict(k, t)
  /\ \E k, t \in MCKeys : k # t /\ MCHash(k) = MCHash(t) /\ Peaceful(k) /\ Peaceful(t)
=============================================================================
