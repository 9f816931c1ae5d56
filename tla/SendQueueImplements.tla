------------------------ MODULE SendQueueImplements ------------------------
(* SendQueue implements SequenceDelivery: the live leads are those the       *)
(* sequence may still write to, read off three tables, and those not yet     *)
(* enrolled; a delivery is the SMTP call, before anything is recorded.       *)
EXTENDS SendQueue

\* The jumps the branching allows; without a condition there are none ahead.
BranchJumps ==
  {jump \in Steps \X Steps :
     \E seq \in Sequence : jump[2] \in Deliverable(seq, jump[1])}

Promise == INSTANCE SequenceDelivery
  WITH Jumps  <- BranchJumps,
       live   <- {l \in Leads : Mailable(l) \/ status[l] = "absent"},
       spared <- {l \in Leads : late[l] = 0}

\* However replies, opt-outs, bounces, lost mailboxes and deferrals interleave
\* with the dispatcher and the workers, recipients see the promised behaviour.
KeepsPromise == Promise!Spec

=============================================================================
