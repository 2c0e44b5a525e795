--------------------------- MODULE MCOnlineWindow ---------------------------
(* Samples for a bucket and for the overflow, larger than the budget, and one  *)
(* that is too long; the sums of either kind are tracked.                      *)
EXTENDS OnlineWindow, TLC

CONSTANTS i1, i2

Sample(id, length, difficulty, reward, success) ==
  [id |-> id, length |-> length, difficulty |-> difficulty, reward |-> reward,
   success |-> success, priority |-> 1]

FiveSamples ==
  {Sample("a", 1, 1, None, TRUE), Sample("b", 1, None, 1, FALSE),
   Sample("c", 2, 1, 1, None),    Sample("d", 3, None, None, FALSE),
   Sample("e", 4, 1, 1, TRUE)}

OneEdge == <<1>>
Either == {[difficulty |-> TRUE, success |-> FALSE], [difficulty |-> FALSE, success |-> TRUE]}
TwoIterators == {i1, i2}
IteratorSymmetry == Permutations(Iterators)
=============================================================================
