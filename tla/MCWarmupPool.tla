---------------------------- MODULE MCWarmupPool ----------------------------
EXTENDS WarmupPoolImplements, TLC

\* The mailboxes, the rows and the dispatch workers are interchangeable.
Symmetry == Permutations(Mailboxes) \cup Permutations(Exchanges) \cup Permutations(Dispatchers)

\* What a run without ramp workers depends on: only they read touched and advanced.
View == <<member, consent, exchanges, mail, workers, events>>

=============================================================================
