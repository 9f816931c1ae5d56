---------------------------- MODULE MCSendQueue ----------------------------
(* SendQueue for TLC, whose leads and job slots are interchangeable.         *)
EXTENDS SendQueueImplements, TLC

Symmetry == Permutations(Leads) \cup Permutations(Slots)

\* Branchings of two steps: no condition; a condition on the first, with a branch to
\* the second; and one with no branch.
Straight == {Linear}
Skips    == {<<2, 2>>}
Drops    == {<<0, 2>>}

\* Branchings of three: no condition; every step with one, and the branches in a
\* circle, so that a walk also leads back and runs out of hops; a branch from the
\* first step over an unconditional second one to a third that has none to go to.
Winding  == {Linear, <<2, 3, 1>>, <<3, 2, 0>>}

=============================================================================
