-------------------------- MODULE SequenceDelivery --------------------------
(***************************************************************************)
(* What the sending pipeline promises the recipients of a campaign: each   *)
(* gets a step of the sequence once, and only after every step before it   *)
(* but those a condition of the sequence led it past, for as long as the   *)
(* sequence may write to them; whoever leaves it never comes back, and     *)
(* gets at most the one email that was already under way.                  *)
(***************************************************************************)
EXTENDS Naturals

CONSTANTS
  Leads, NumSteps,
  Jumps        \* <<s, t>>: a lead whose next step is s may be sent t instead

VARIABLES
  delivered,   \* how often each (lead, step) has been delivered
  passed,      \* the (lead, step)s a lead was led past
  live,        \* the leads the sequence may still write to
  spared       \* those that have not had a late email

vars == <<delivered, passed, live, spared>>

Init ==
  /\ delivered = [m \in Leads \X (1..NumSteps) |-> 0]
  /\ passed = {}
  /\ live = Leads
  /\ spared = Leads

\* Every step of the lead before s has been delivered or passed.
Reached(l, s) == \A k \in 1..(s - 1) : delivered[<<l, k>>] = 1 \/ <<l, k>> \in passed

\* A condition fails, and a branch leads the lead on to a later step.  (One that it
\* was led past may still come: a branch may lead back.)
Pass(l) ==
  /\ \E s, t \in 1..NumSteps :
       /\ <<s, t>> \in Jumps /\ Reached(l, s)
       /\ passed' = passed \cup {<<l, k>> : k \in s..(t - 1)}
  /\ UNCHANGED <<delivered, live, spared>>

Deliver(l) ==
  /\ \E s \in 1..NumSteps :
       /\ delivered[<<l, s>>] = 0 /\ Reached(l, s)
       /\ delivered' = [delivered EXCEPT ![<<l, s>>] = 1]
  /\ \/ l \in live /\ UNCHANGED spared
     \/ l \notin live /\ l \in spared /\ spared' = spared \ {l}
  /\ UNCHANGED <<passed, live>>

\* A reply, an opt-out, a bounce, a pause or the end of the sequence.
Leave == /\ live' \in SUBSET live
         /\ UNCHANGED <<delivered, passed, spared>>

Next == Leave \/ \E l \in Leads : Deliver(l) \/ Pass(l)

Spec == Init /\ [][Next]_vars

=============================================================================
