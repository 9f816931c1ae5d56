------------------------------ MODULE Billing ------------------------------
(***************************************************************************)
(* The subscription of one organization: the Organization row              *)
(* (subscription_status, subscription_tier, polar_subscription_id,         *)
(* trial_ends_at) and everything that writes it: the Polar webhook         *)
(* handlers of billingService.ts, the hourly polarReconciler.ts and the    *)
(* trialWorker.ts, with the customer's checkout and cancel requests.       *)
(* Handlers are asynchronous functions of one Node process, so any of them *)
(* may be interrupted at an await: a step below is the code between two    *)
(* awaits that matter.  Polar is external: it keeps the subscriptions,     *)
(* delivers events in any order, maybe twice, maybe never.                 *)
(***************************************************************************)
EXTENDS Integers, FiniteSets

CONSTANTS
  MaxSubs,     \* bound: subscriptions Polar may create for the organization
  Tiers,       \* tiers a checkout accepts (createCheckout, changePlan)
  Listed,      \* those of handleSubscriptionCreated's validTiers
  Handlers,    \* webhook requests served at the same time
  MaxMail,     \* bound: events in flight when Polar raises another
  MaxFaults    \* bound: crashes, failed calls, lost and repeated deliveries

ASSUME SubsAssumption == MaxSubs \in Nat
ASSUME ListedAssumption == Listed \subseteq Tiers
ASSUME BoundsAssumption == MaxMail \in Nat /\ MaxFaults \in Nat

Subs == 1..MaxSubs
NoSub == 0     \* polar_subscription_id null

Kinds == {"created", "active", "updated", "canceled", "failed"}
Events == [kind : Kinds, sub : Subs]

VARIABLES
  org,         \* the Organization row
  polar,       \* Polar's subscriptions; ends: cancel_at_period_end and why
  sent,        \* events Polar has raised
  mail,        \* those still to be delivered
  seen,        \* SubscriptionEvent rows, by their unique polar_event_id
  job,         \* the webhook handlers
  sessions,    \* open checkout sessions, by their tier
  trial,       \* the trial worker holds the organization it will expire
  rec,         \* the reconciler's pass
  faults

vars == <<org, polar, sent, mail, seen, job, sessions, trial, rec,
          faults>>

Statuses == {"trialing", "active", "past_due", "canceled", "expired"}
OrgTiers == Tiers \cup {"trial", "starter", "free"}
Idle == [at |-> "idle"]

Init ==
  /\ org \in [status : {"trialing"}, tier : Tiers \cup {"trial"},
              sub : {NoSub}]
  /\ polar = [s \in Subs |-> [state |-> "none", ends |-> "no", tier |-> "trial"]]
  /\ sent = {} /\ mail = {} /\ seen = {}
  /\ job = [h \in Handlers |-> Idle]
  /\ sessions = {}
  /\ trial = FALSE
  /\ rec = Idle
  /\ faults = 0

-----------------------------------------------------------------------------
(* Polar (external).  Each kind of event is raised once per subscription:   *)
(* the bound under which the key type:id:timestamp is <<kind, sub>>.        *)
(* invoice.paid and order.* write no field kept here and are left out.      *)

Raise(kinds, s) ==
  LET new == [kind : kinds, sub : {s}] \ sent
  IN  /\ sent' = sent \cup new
      /\ mail' = mail \cup new

Local == UNCHANGED <<org, seen, job, trial, rec, faults>>

\* Subscriptions are numbered in the order they are created.
Fresh(s) == polar[s].state = "none" /\ \A r \in 1..(s - 1) : polar[r].state # "none"

\* The customer pays in an open checkout session.
Pay(t, s) ==
  /\ t \in sessions
  /\ Fresh(s)
  /\ polar' = [polar EXCEPT ![s] = [state |-> "active", ends |-> "no", tier |-> t]]
  /\ sessions' = sessions \ {t}
  /\ Raise({"created", "active"}, s)
  /\ Local

\* A renewal fails; later it is collected, or Polar gives the subscription up.
RenewalFails(s) ==
  /\ polar[s].state = "active" /\ polar[s].ends = "no"
  /\ [kind |-> "failed", sub |-> s] \notin sent
  /\ polar' = [polar EXCEPT ![s].state = "past_due"]
  /\ Raise({"failed"}, s)
  /\ UNCHANGED sessions /\ Local

Collected(s) ==
  /\ polar[s].state = "past_due"
  /\ polar' = [polar EXCEPT ![s].state = "active"]
  /\ Raise({"updated"}, s)
  /\ UNCHANGED sessions /\ Local

\* The period of a subscription told to end is over.
Ends(s) ==
  /\ \/ polar[s].state = "active" /\ polar[s].ends # "no"
     \/ polar[s].state = "past_due"
  /\ polar' = [polar EXCEPT ![s].state = "canceled"]
  /\ Raise({"canceled"}, s)
  /\ UNCHANGED sessions /\ Local

\* PATCH /subscriptions/s with cancel_at_period_end.
Patch(s, why) ==
  IF polar[s].state \in {"active", "past_due"}
  THEN /\ polar' = [polar EXCEPT ![s].ends = why]
       /\ Raise({"updated"}, s)
  ELSE UNCHANGED <<polar, sent, mail>>

Polar ==
  /\ Cardinality(mail) < MaxMail
  /\ \E s \in Subs : \/ \E t \in Tiers : Pay(t, s)
                     \/ RenewalFails(s) \/ Collected(s) \/ Ends(s)

-----------------------------------------------------------------------------
(* The webhook endpoint.  processWebhook inserts the SubscriptionEvent row  *)
(* first; a unique-key conflict ends a repeated delivery.                   *)

\* validTiers: the send-volume variants of pro are not in it.
TierOf(s) == IF polar[s].tier \in Listed THEN polar[s].tier ELSE "starter"

Started(e) == IF e.kind \in {"created", "active"}
              THEN [at |-> "read", event |-> e]
              ELSE [at |-> "write", event |-> e, prev |-> NoSub]

Receive(h, e, again) ==
  /\ job[h] = Idle
  /\ e \in mail
  /\ again => faults < MaxFaults
  /\ mail' = IF again THEN mail ELSE mail \ {e}
  /\ faults' = IF again THEN faults + 1 ELSE faults
  /\ seen' = seen \cup {e}
  /\ job' = IF e \in seen THEN job ELSE [job EXCEPT ![h] = Started(e)]
  /\ UNCHANGED <<org, polar, sent, sessions, trial, rec>>

\* handleSubscriptionCreated reads the subscription it is about to replace.
ReadPrevious(h) ==
  /\ job[h].at = "read"
  /\ job' = [job EXCEPT ![h] = [at |-> "write", event |-> job[h].event, prev |-> org.sub]]
  /\ UNCHANGED <<org, polar, sent, mail, seen, sessions, trial, rec, faults>>

\* Mutant: the subscription just activated counts as replaced.
ReplacesAny(prev, s) == prev # NoSub

\* isPlanChange
Replaces(prev, s) == prev # NoSub /\ prev # s

\* What each handler writes to the Organization row.
Written(e) ==
  CASE e.kind \in {"created", "active"} ->
         [status |-> "active", tier |-> TierOf(e.sub), sub |-> e.sub]
    [] e.kind = "updated" -> [org EXCEPT !.tier = polar[e.sub].tier]
    [] e.kind = "canceled" -> [org EXCEPT !.status = "canceled", !.sub = NoSub]
    [] OTHER -> [org EXCEPT !.status = "past_due"]

WriteOrg(h) ==
  /\ job[h].at = "write"
  /\ org' = Written(job[h].event)
  /\ job' = [job EXCEPT ![h] = IF Replaces(job[h].prev, job[h].event.sub)
                               THEN [at |-> "patch", sub |-> job[h].prev]
                               ELSE Idle]
  /\ UNCHANGED <<polar, sent, mail, seen, sessions, trial, rec, faults>>

\* The replaced subscription is told to end.
CancelPrevious(h) ==
  /\ job[h].at = "patch"
  /\ Patch(job[h].sub, "replaced")
  /\ job' = [job EXCEPT ![h] = Idle]
  /\ UNCHANGED <<org, seen, sessions, trial, rec, faults>>

Handle(h) ==
  \/ \E e \in Events, again \in BOOLEAN : Receive(h, e, again)
  \/ ReadPrevious(h) \/ WriteOrg(h) \/ CancelPrevious(h)

-----------------------------------------------------------------------------
(* The customer.                                                            *)

OpenCheckout(t) ==
  /\ \E s \in Subs : Fresh(s)
  /\ sessions' = sessions \cup {t}
  /\ UNCHANGED <<org, polar, sent, mail, seen, job, trial, rec, faults>>

\* createCheckout refuses only the plan the organization is active on.
CreateCheckout(t) ==
  /\ ~(org.status = "active" /\ org.tier = t)
  /\ OpenCheckout(t)

\* changePlan needs an active subscription, and is a checkout as well.
ChangePlan(t) ==
  /\ org.status = "active" /\ org.tier # t
  /\ OpenCheckout(t)

\* cancelSubscription: the read of the id is folded into the call to Polar.
CancelSubscription ==
  /\ org.sub # NoSub
  /\ Patch(org.sub, "asked")
  /\ UNCHANGED <<org, seen, job, sessions, trial, rec, faults>>

Customer ==
  \/ \E t \in Tiers : CreateCheckout(t) \/ ChangePlan(t)
  \/ CancelSubscription

-----------------------------------------------------------------------------
(* The trial worker: expireTrials selects, then updates by id.  A trial may *)
(* be over at any moment: trial_ends_at is left out.                        *)

SelectExpired ==
  /\ ~trial
  /\ org.status = "trialing"
  /\ trial' = TRUE
  /\ UNCHANGED <<org, polar, sent, mail, seen, job, sessions, rec, faults>>

ExpireTrial ==
  /\ trial
  /\ org' = [org EXCEPT !.status = "expired", !.tier = "free"]
  /\ trial' = FALSE
  /\ UNCHANGED <<polar, sent, mail, seen, job, sessions, rec, faults>>

-----------------------------------------------------------------------------
(* The reconciler: snapshot, fetch, write what differs from the snapshot.   *)
(* The hour between two visits is left out: a pass may start at any time.   *)

\* Mutant: only organizations in good standing are visited.
ReconcilableActive == org.sub # NoSub /\ org.status = "active"

Reconcilable == org.sub # NoSub

Scan ==
  /\ rec = Idle
  /\ Reconcilable
  /\ rec' = [at |-> "fetch", was |-> [sub |-> org.sub, status |-> org.status, tier |-> org.tier]]
  /\ UNCHANGED <<org, polar, sent, mail, seen, job, sessions, trial, faults>>

\* Mutants: Polar's own words are written; a subscription told to end is over.
PolarStatusRaw(s) == IF polar[s].ends = "no" THEN polar[s].state ELSE "ending"
PolarStatusEarly(s) == IF polar[s].ends = "no" THEN polar[s].state ELSE "canceled"

\* mapPolarStatus: until its period ends a subscription told to end is active.
PolarStatus(s) == polar[s].state

\* Only a field that differs from the snapshot is written; "same" marks the others.
Drift(was, remote) == IF remote = was THEN "same" ELSE remote

Fetch ==
  /\ rec.at = "fetch"
  /\ rec' = [at |-> "write", status |-> Drift(rec.was.status, PolarStatus(rec.was.sub)),
             tier |-> Drift(rec.was.tier, polar[rec.was.sub].tier)]
  /\ UNCHANGED <<org, polar, sent, mail, seen, job, sessions, trial, faults>>

Corrected(now, drift) == IF drift = "same" THEN now ELSE drift

Correct ==
  /\ rec.at = "write"
  /\ org' = [org EXCEPT !.status = Corrected(@, rec.status), !.tier = Corrected(@, rec.tier)]
  /\ rec' = Idle
  /\ UNCHANGED <<polar, sent, mail, seen, job, sessions, trial, faults>>

-----------------------------------------------------------------------------
(* Faults.                                                                  *)

Fault == faults < MaxFaults /\ faults' = faults + 1

\* A crash, or a throw that the controller answers with 200: the event's row
\* is written, so no later delivery applies it.  A failed PATCH ends here too.
HandlerFails(h) ==
  /\ job[h] # Idle
  /\ Fault
  /\ job' = [job EXCEPT ![h] = Idle]
  /\ UNCHANGED <<org, polar, sent, mail, seen, sessions, trial, rec>>

Lost(e) ==
  /\ e \in mail
  /\ Fault
  /\ mail' = mail \ {e}
  /\ UNCHANGED <<org, polar, sent, seen, job, sessions, trial, rec>>

\* Polar cannot be reached: the pass leaves the organization as it is.
FetchFails ==
  /\ rec.at = "fetch"
  /\ Fault
  /\ rec' = Idle
  /\ UNCHANGED <<org, polar, sent, mail, seen, job, sessions, trial>>

\* The process stops: what its functions held in memory is gone.
Restart ==
  /\ Fault
  /\ job' = [h \in Handlers |-> Idle]
  /\ trial' = FALSE
  /\ rec' = Idle
  /\ UNCHANGED <<org, polar, sent, mail, seen, sessions>>

Faulty ==
  \/ \E h \in Handlers : HandlerFails(h)
  \/ \E e \in Events : Lost(e)
  \/ FetchFails \/ Restart

-----------------------------------------------------------------------------
Next ==
  \/ Polar \/ Customer \/ Faulty
  \/ \E h \in Handlers : Handle(h)
  \/ SelectExpired \/ ExpireTrial
  \/ Scan \/ Fetch \/ Correct

Spec == Init /\ [][Next]_vars

(* Polar retries until it has an answer, handlers run to their end, and the *)
(* two workers are timers (setInterval) that keep firing.                   *)
Fairness ==
  /\ WF_vars(\E h \in Handlers, e \in Events : Receive(h, e, FALSE))
  /\ \A h \in Handlers : WF_vars(ReadPrevious(h) \/ WriteOrg(h) \/ CancelPrevious(h))
  /\ WF_vars(SelectExpired) /\ WF_vars(ExpireTrial)
  /\ WF_vars(Scan) /\ WF_vars(Fetch) /\ WF_vars(Correct)

FairSpec == Spec /\ Fairness

-----------------------------------------------------------------------------
(* Properties.                                                              *)

OrgTypes == org \in [status : Statuses, tier : OrgTiers, sub : Subs \cup {NoSub}]

PolarTypes ==
  /\ polar \in [Subs -> [state : {"none", "active", "past_due", "canceled"},
                          ends : {"no", "asked", "replaced"}, tier : Tiers \cup {"trial"}]]
  /\ sent \subseteq Events /\ mail \subseteq sent /\ seen \subseteq sent
  /\ sessions \subseteq Tiers

Jobs == {Idle} \cup [at : {"read"}, event : Events]
               \cup [at : {"write"}, event : Events, prev : Subs \cup {NoSub}]
               \cup [at : {"patch"}, sub : Subs]

Passes == {Idle} \cup [at : {"fetch"}, was : [sub : Subs, status : Statuses, tier : OrgTiers]]
                 \cup [at : {"write"}, status : Statuses \cup {"same"}, tier : OrgTiers \cup {"same"}]

TypeOK ==
  /\ OrgTypes /\ PolarTypes
  /\ job \in [Handlers -> Jobs]
  /\ rec \in Passes
  /\ trial \in BOOLEAN
  /\ faults \in 0..MaxFaults

\* A subscription is told to end only when the customer asked for it or when
\* another subscription exists that replaces it: the .active that follows a
\* .created of the same subscription never ends the plan it activates.
EndsForAReason ==
  \A s \in Subs : polar[s].ends = "replaced" => \E r \in Subs \ {s} : polar[r].state # "none"

\* The organization is blocked as canceled or past due only if Polar did
\* cancel one of its subscriptions or fail to charge it: neither an error nor
\* a stale snapshot invents such a state (polarReconciler.ts:17).
BlockedForAReason ==
  /\ org.status = "canceled" => \E s \in Subs : polar[s].state = "canceled"
  /\ org.status = "past_due" => \E s \in Subs : [kind |-> "failed", sub |-> s] \in sent

\* The reconciler repairs whatever deliveries were lost, dropped by a crash or
\* overwritten by the trial worker: a subscription the organization keeps on
\* record ends up mirrored, status and tier.
RecordMirrorsPolar ==
  \A s \in Subs :
    <>[](org.sub = s) => <>[](org.status = polar[s].state /\ org.tier = polar[s].tier)

\* "A lost or delayed delivery leaves a paying customer stuck on the wrong
\* tier/status indefinitely. This worker [...] corrects local drift"
\* (polarReconciler.ts:4): a customer who keeps paying ends up active.
PayingIsActive ==
  \A s \in Subs :
    <>[](polar[s].state = "active" /\ polar[s].ends = "no") => <>[](org.status = "active")
=============================================================================
