--------------------------- MODULE BillingProofs ---------------------------
(* Proofs about Billing, for any number of subscriptions, tiers, concurrent  *)
(* webhook handlers, events in flight and faults.                            *)
EXTENDS Billing, TLAPS

Bought(s) == polar[s].state # "none"

(* What the types need: every subscription named anywhere was bought, so     *)
(* Polar answers for it with a status the organization can take.             *)
Named ==
  /\ \A e \in sent : Bought(e.sub)
  /\ org.sub # NoSub => Bought(org.sub)
  /\ rec.at = "fetch" => Bought(rec.was.sub)
Source(h) ==
  /\ job[h].at \in {"read", "write"} => job[h].event \in sent
  /\ job[h].at = "write" => job[h].prev = NoSub \/ Bought(job[h].prev)
Sourced == \A h \in Handlers : Source(h)
TypeInv == TypeOK /\ Named /\ Sourced

(* A replaced subscription has a replacement.                                *)
Other(s) == \E r \in Subs \ {s} : Bought(r)
Replaced ==
  /\ EndsForAReason
  /\ \A h \in Handlers : job[h].at = "patch" => Other(job[h].sub)

(* Each bad status has its cause at Polar, the one about to be written too.  *)
SomeCanceled == \E s \in Subs : polar[s].state = "canceled"
SomeFailed == \E s \in Subs : [kind |-> "failed", sub |-> s] \in sent
Truthful ==
  /\ \A e \in sent : e.kind = "canceled" => polar[e.sub].state = "canceled"
  /\ \A s \in Subs : polar[s].state = "past_due" => [kind |-> "failed", sub |-> s] \in sent
Caused ==
  /\ BlockedForAReason /\ Truthful
  /\ rec.at = "write" /\ rec.status = "canceled" => SomeCanceled
  /\ rec.at = "write" /\ rec.status = "past_due" => SomeFailed

-----------------------------------------------------------------------------
(* Shapes of the handlers' and the reconciler's records.                     *)
LEMMA JobShapes ==
  ASSUME NEW j \in Jobs
  PROVE  /\ j.at \in {"idle", "read", "write", "patch"}
         /\ j.at = "idle" => j = Idle
         /\ j.at \in {"read", "write"} => j.event \in Events
         /\ j.at = "write" => j.prev \in Subs \cup {NoSub}
         /\ j.at = "patch" => j.sub \in Subs
BY DEF Jobs, Idle

LEMMA PassShapes ==
  ASSUME NEW p \in Passes
  PROVE  /\ p.at \in {"idle", "fetch", "write"}
         /\ p.at = "fetch" => p.was \in [sub : Subs, status : Statuses, tier : OrgTiers]
         /\ p.at = "write" => p.status \in Statuses \cup {"same"} /\ p.tier \in OrgTiers \cup {"same"}
BY DEF Passes, Idle

LEMMA JobTypes ==
  ASSUME TypeOK, NEW h \in Handlers
  PROVE  /\ job[h] \in Jobs
         /\ job[h].at \in {"read", "write"} => job[h].event \in Events
         /\ job[h].at = "write" => job[h].prev \in Subs \cup {NoSub}
         /\ job[h].at = "patch" => job[h].sub \in Subs
<1>1. job[h] \in Jobs BY DEF TypeOK
<1>. QED BY <1>1, JobShapes

LEMMA RecTypes ==
  ASSUME TypeOK
  PROVE  /\ rec.at = "fetch" => rec.was \in [sub : Subs, status : Statuses, tier : OrgTiers]
         /\ rec.at = "write" => rec.status \in Statuses \cup {"same"} /\ rec.tier \in OrgTiers \cup {"same"}
BY PassShapes DEF TypeOK

LEMMA EventFields == ASSUME NEW e \in Events PROVE e.kind \in Kinds /\ e.sub \in Subs /\ e = [kind |-> e.kind, sub |-> e.sub]
BY DEF Events

LEMMA NoSubIsNone == NoSub \notin Subs
BY SubsAssumption DEF NoSub, Subs

(* Raising an event for a bought subscription keeps the mail typed.          *)
LEMMA Raising ==
  ASSUME PolarTypes, NEW kinds \in SUBSET Kinds, NEW s \in Subs, Raise(kinds, s)
  PROVE  /\ sent' \subseteq Events /\ mail' \subseteq sent' /\ seen \subseteq sent'
         /\ sent \subseteq sent'
         /\ \A e \in sent' : e \in sent \/ (e.sub = s /\ e.kind \in kinds)
         /\ \A k \in kinds : [kind |-> k, sub |-> s] \in sent'
BY DEF Raise, PolarTypes, Events

-----------------------------------------------------------------------------
(* What a step at Polar, its own or a PATCH, means for everyone else: the    *)
(* bought subscriptions stay, the events speak of them.                      *)
Grows ==
  /\ PolarTypes'
  /\ \A r \in Subs : Bought(r) => Bought(r)'
  /\ sent \subseteq sent'
  /\ \A e \in sent' : Bought(e.sub)'

(* A cancellation is final.                                                  *)
Final == \A s \in Subs : polar[s].state = "canceled" => polar'[s].state = "canceled"

(* One subscription moves and raises its events.                             *)
LEMMA OneMoves ==
  ASSUME PolarTypes, Named, NEW s \in Subs, NEW kinds \in SUBSET Kinds, Raise(kinds, s),
         polar' = [polar EXCEPT ![s] = polar'[s]], Bought(s)',
         polar'[s] \in [state : {"none", "active", "past_due", "canceled"},
                        ends : {"no", "asked", "replaced"}, tier : Tiers \cup {"trial"}],
         sessions' \subseteq Tiers, seen' = seen
  PROVE  Grows
<1>1. PolarTypes' BY Raising DEF PolarTypes
<1>2. \A r \in Subs : Bought(r) => Bought(r)' BY DEF Bought, PolarTypes
<1>3. ASSUME NEW e \in sent' PROVE Bought(e.sub)'
  <2>1. e \in Events /\ e.sub \in Subs BY <1>1, EventFields DEF PolarTypes
  <2>2. e \in sent \/ e.sub = s BY DEF Raise
  <2>. QED BY <1>2, <2>1, <2>2 DEF Named
<1>. QED BY <1>1, <1>2, <1>3, Raising DEF Grows

LEMMA PolarSteps ==
  ASSUME PolarTypes, Named, NEW s \in Subs,
         \/ \E t \in Tiers : Pay(t, s)
         \/ RenewalFails(s) \/ Collected(s) \/ Ends(s)
  PROVE  Grows /\ UNCHANGED <<org, seen, job, trial, rec, faults>>
<1>1. ASSUME NEW t \in Tiers, Pay(t, s) PROVE Grows
  <2>1. {"created", "active"} \in SUBSET Kinds BY DEF Kinds
  <2>. QED BY <1>1, <2>1, OneMoves DEF Pay, Local, Bought, PolarTypes
<1>2. CASE RenewalFails(s)
  <2>1. {"failed"} \in SUBSET Kinds BY DEF Kinds
  <2>2. Grows BY <1>2, <2>1, OneMoves DEF RenewalFails, Local, Bought, PolarTypes
  <2>. QED BY <1>2, <2>2 DEF RenewalFails, Local
<1>3. CASE Collected(s)
  <2>1. {"updated"} \in SUBSET Kinds BY DEF Kinds
  <2>2. Grows BY <1>3, <2>1, OneMoves DEF Collected, Local, Bought, PolarTypes
  <2>. QED BY <1>3, <2>2 DEF Collected, Local
<1>4. CASE Ends(s)
  <2>1. {"canceled"} \in SUBSET Kinds BY DEF Kinds
  <2>2. Grows BY <1>4, <2>1, OneMoves DEF Ends, Local, Bought, PolarTypes
  <2>. QED BY <1>4, <2>2 DEF Ends, Local
<1>. QED BY <1>1, <1>2, <1>3, <1>4 DEF Pay, Local

LEMMA Patching ==
  ASSUME PolarTypes, Named, NEW s \in Subs, NEW why \in {"asked", "replaced"}, Patch(s, why),
         UNCHANGED <<sessions, seen>>
  PROVE  Grows
<1>1. CASE polar[s].state \in {"active", "past_due"}
  <2>1. {"updated"} \in SUBSET Kinds BY DEF Kinds
  <2>. QED BY <1>1, <2>1, OneMoves DEF Patch, Bought, PolarTypes
<1>2. CASE UNCHANGED <<polar, sent, mail>>
  BY <1>2 DEF Grows, PolarTypes, Bought, Named
<1>. QED BY <1>1, <1>2 DEF Patch

(* The rest does not notice.                                                 *)
LEMMA Unnoticed ==
  ASSUME TypeInv, Grows, UNCHANGED <<org, job, trial, rec, faults>>
  PROVE  TypeInv'
<1>1. TypeOK' BY DEF TypeInv, TypeOK, OrgTypes, Grows
<1>2. Named'
  <2>1. rec.at = "fetch" => rec.was.sub \in Subs BY RecTypes DEF TypeInv
  <2>2. org.sub # NoSub => org.sub \in Subs BY DEF TypeInv, TypeOK, OrgTypes
  <2>. QED BY <2>1, <2>2 DEF TypeInv, Named, Grows
<1>3. ASSUME NEW h \in Handlers PROVE Source(h)'
  <2>1. job[h].at = "write" => job[h].prev \in Subs \cup {NoSub} BY JobTypes DEF TypeInv
  <2>. QED BY <2>1 DEF TypeInv, Sourced, Source, Grows
<1>. QED BY <1>1, <1>2, <1>3 DEF TypeInv, Sourced, Source

-----------------------------------------------------------------------------
(* A handler's steps.                                                        *)
LEMMA IdleJob == Idle \in Jobs /\ Idle.at = "idle" /\ Idle \in Passes
BY DEF Jobs, Passes, Idle

LEMMA StartedTypes ==
  ASSUME NEW e \in Events
  PROVE  /\ Started(e) \in Jobs /\ Started(e).at \in {"read", "write"} /\ Started(e).event = e
         /\ Started(e).at = "write" => Started(e).prev = NoSub
BY DEF Started, Jobs

LEMMA WrittenTypes ==
  ASSUME TypeInv, NEW e \in sent
  PROVE  /\ Written(e) \in [status : Statuses, tier : OrgTiers, sub : Subs \cup {NoSub}]
         /\ Written(e).sub # NoSub => Bought(Written(e).sub)
<1>1. e \in Events /\ e.sub \in Subs /\ Bought(e.sub) BY EventFields DEF TypeInv, TypeOK, PolarTypes, Named
<1>2. polar[e.sub].tier \in OrgTiers /\ TierOf(e.sub) \in OrgTiers
  BY <1>1 DEF TypeInv, TypeOK, PolarTypes, TierOf, OrgTiers
<1>. QED BY <1>1, <1>2 DEF Written, TypeInv, TypeOK, OrgTypes, Named, Statuses

LEMMA HandlerSteps == ASSUME TypeInv, NEW h \in Handlers, Handle(h) PROVE TypeInv'
<1>1. PolarTypes /\ Named /\ TypeOK BY DEF TypeInv, TypeOK
<1>2. ASSUME NEW e \in Events, NEW again \in BOOLEAN, Receive(h, e, again) PROVE TypeInv'
  <2>1. UNCHANGED <<org, polar, sent, sessions, trial, rec>> /\ e \in sent
    BY <1>1, <1>2 DEF Receive, PolarTypes
  <2>2. PolarTypes' BY <1>1, <1>2, <2>1 DEF Receive, PolarTypes
  <2>3. faults' \in 0..MaxFaults BY <1>1, <1>2, BoundsAssumption DEF Receive, TypeOK
  <2>4. job' \in [Handlers -> Jobs] BY <1>1, <1>2, StartedTypes DEF Receive, TypeOK
  <2>5. Sourced'
    BY <1>1, <1>2, <2>1, StartedTypes DEF Receive, TypeOK, TypeInv, Sourced, Source, Bought
  <2>. QED BY <2>1, <2>2, <2>3, <2>4, <2>5 DEF TypeInv, TypeOK, OrgTypes, Named, Bought
<1>3. CASE ReadPrevious(h)
  <2>1. job[h].event \in Events /\ job[h].event \in sent
    BY <1>1, <1>3, JobTypes DEF ReadPrevious, TypeInv, Sourced, Source
  <2>2. org.sub \in Subs \cup {NoSub} BY <1>1 DEF TypeOK, OrgTypes
  <2>3. [at |-> "write", event |-> job[h].event, prev |-> org.sub] \in Jobs BY <2>1, <2>2 DEF Jobs
  <2>4. job' \in [Handlers -> Jobs] BY <1>1, <1>3, <2>3 DEF ReadPrevious, TypeOK
  <2>5. Sourced' BY <1>1, <1>3, <2>1 DEF ReadPrevious, TypeOK, TypeInv, Sourced, Source, Named, Bought
  <2>. QED BY <1>3, <2>4, <2>5 DEF ReadPrevious, TypeInv, TypeOK, OrgTypes, PolarTypes, Named, Bought
<1>4. CASE WriteOrg(h)
  <2>1. job[h].event \in sent BY <1>4 DEF WriteOrg, TypeInv, Sourced, Source
  <2>2. OrgTypes' /\ (org'.sub # NoSub => Bought(org'.sub))
    BY <1>4, <2>1, WrittenTypes DEF WriteOrg, OrgTypes
  <2>3. job[h].prev \in Subs \cup {NoSub} BY <1>1, <1>4, JobTypes DEF WriteOrg
  <2>4. Replaces(job[h].prev, job[h].event.sub) => [at |-> "patch", sub |-> job[h].prev] \in Jobs
    BY <2>3 DEF Replaces, Jobs
  <2>5. job' \in [Handlers -> Jobs] BY <1>1, <1>4, <2>4, IdleJob DEF WriteOrg, TypeOK
  <2>6. Sourced' BY <1>1, <1>4, IdleJob DEF WriteOrg, TypeOK, TypeInv, Sourced, Source, Bought
  <2>. QED BY <1>4, <2>2, <2>5, <2>6 DEF WriteOrg, TypeInv, TypeOK, PolarTypes, Named, Bought
<1>5. CASE CancelPrevious(h)
  <2>1. job[h].sub \in Subs BY <1>1, <1>5, JobTypes DEF CancelPrevious
  <2>2. Grows BY <1>1, <1>5, <2>1, Patching DEF CancelPrevious
  <2>3. job' \in [Handlers -> Jobs] BY <1>1, <1>5, IdleJob DEF CancelPrevious, TypeOK
  <2>4. TypeOK' BY <1>1, <1>5, <2>2, <2>3 DEF CancelPrevious, TypeOK, OrgTypes, Grows
  <2>5. Named'
    <3>1. rec.at = "fetch" => rec.was.sub \in Subs BY <1>1, RecTypes
    <3>2. org.sub # NoSub => org.sub \in Subs BY <1>1 DEF TypeOK, OrgTypes
    <3>. QED BY <1>1, <1>5, <2>2, <3>1, <3>2 DEF CancelPrevious, Named, Grows
  <2>6. ASSUME NEW g \in Handlers PROVE Source(g)'
    <3>1. job[g].at = "write" => job[g].prev \in Subs \cup {NoSub} BY <1>1, JobTypes
    <3>2. job'[g] = job[g] \/ job'[g] = Idle BY <1>1, <1>5 DEF CancelPrevious, TypeOK
    <3>. QED BY <1>1, <2>2, <3>1, <3>2, IdleJob DEF TypeInv, Sourced, Source, Grows
  <2>. QED BY <2>4, <2>5, <2>6 DEF TypeInv, Sourced, Source
<1>. QED BY <1>2, <1>3, <1>4, <1>5 DEF Handle

LEMMA CustomerSteps == ASSUME TypeInv, Customer PROVE TypeInv'
<1>1. ASSUME NEW t \in Tiers, CreateCheckout(t) \/ ChangePlan(t) PROVE TypeInv'
  BY <1>1 DEF CreateCheckout, ChangePlan, OpenCheckout, TypeInv, TypeOK, OrgTypes, PolarTypes, Named, Sourced, Source, Bought
<1>2. CASE CancelSubscription
  <2>1. org.sub \in Subs BY <1>2 DEF CancelSubscription, TypeInv, TypeOK, OrgTypes
  <2>2. Grows BY <1>2, <2>1, Patching DEF CancelSubscription, TypeInv, TypeOK
  <2>. QED BY <1>2, <2>2, Unnoticed DEF CancelSubscription
<1>. QED BY <1>1, <1>2 DEF Customer

LEMMA WorkerSteps ==
  ASSUME TypeInv, SelectExpired \/ ExpireTrial \/ Scan \/ Fetch \/ Correct
  PROVE  TypeInv'
<1>1. TypeOK BY DEF TypeInv
<1>2. CASE SelectExpired
  BY <1>2 DEF SelectExpired, TypeInv, TypeOK, OrgTypes, PolarTypes, Named, Sourced, Source, Bought
<1>3. CASE ExpireTrial
  <2>1. OrgTypes' /\ org'.sub = org.sub BY <1>1, <1>3 DEF ExpireTrial, TypeOK, OrgTypes, Statuses, OrgTiers
  <2>. QED BY <1>3, <2>1 DEF ExpireTrial, TypeInv, TypeOK, PolarTypes, Named, Sourced, Source, Bought
<1>4. CASE Scan
  <2>1. rec' \in Passes /\ rec'.at = "fetch" /\ rec'.was.sub = org.sub
    BY <1>1, <1>4 DEF Scan, Reconcilable, TypeOK, OrgTypes, Passes
  <2>. QED BY <1>4, <2>1 DEF Scan, Reconcilable, TypeInv, TypeOK, OrgTypes, PolarTypes, Named, Sourced, Source, Bought
<1>5. CASE Fetch
  <2>1. rec.was.sub \in Subs /\ Bought(rec.was.sub)
    BY <1>1, <1>5, RecTypes DEF Fetch, TypeInv, Named
  <2>2. polar[rec.was.sub].tier \in OrgTiers /\ polar[rec.was.sub].state \in Statuses
    BY <1>1, <2>1 DEF TypeOK, PolarTypes, OrgTiers, Statuses, Bought
  <2>3. rec' \in Passes /\ rec'.at = "write"
    BY <1>5, <2>2 DEF Fetch, Drift, PolarStatus, Passes
  <2>. QED BY <1>5, <2>3 DEF Fetch, TypeInv, TypeOK, OrgTypes, PolarTypes, Named, Sourced, Source, Bought
<1>6. CASE Correct
  <2>1. rec.status \in Statuses \cup {"same"} /\ rec.tier \in OrgTiers \cup {"same"}
    BY <1>1, <1>6, RecTypes DEF Correct
  <2>2. OrgTypes' /\ org'.sub = org.sub
    BY <1>1, <1>6, <2>1 DEF Correct, Corrected, TypeOK, OrgTypes
  <2>. QED BY <1>6, <2>2, IdleJob DEF Correct, TypeInv, TypeOK, PolarTypes, Named, Sourced, Source, Bought
<1>. QED BY <1>2, <1>3, <1>4, <1>5, <1>6

LEMMA FaultSteps == ASSUME TypeInv, Faulty PROVE TypeInv'
<1>. USE BoundsAssumption, IdleJob DEF TypeInv, TypeOK, OrgTypes, PolarTypes, Named, Sourced, Source, Bought, Fault
<1>1. ASSUME NEW h \in Handlers, HandlerFails(h) PROVE TypeInv'
  BY <1>1 DEF HandlerFails
<1>2. ASSUME NEW e \in Events, Lost(e) PROVE TypeInv'
  BY <1>2 DEF Lost
<1>3. CASE FetchFails BY <1>3 DEF FetchFails
<1>4. CASE Restart
  <2>1. job' \in [Handlers -> Jobs] /\ \A h \in Handlers : job'[h].at = "idle" BY <1>4 DEF Restart
  <2>2. rec' \in Passes /\ rec'.at = "idle" /\ trial' \in BOOLEAN BY <1>4 DEF Restart
  <2>3. faults' \in 0..MaxFaults BY <1>4 DEF Restart
  <2>. QED BY <1>4, <2>1, <2>2, <2>3 DEF Restart
<1>. QED BY <1>1, <1>2, <1>3, <1>4 DEF Faulty

LEMMA InitTypes == Init => TypeInv
<1> SUFFICES ASSUME Init PROVE TypeInv
  OBVIOUS
<1>1. OrgTypes BY DEF Init, OrgTypes, Statuses, OrgTiers
<1>2. PolarTypes BY DEF Init, PolarTypes
<1>3. job \in [Handlers -> Jobs] /\ \A h \in Handlers : job[h].at = "idle" BY IdleJob DEF Init
<1>4. rec \in Passes /\ rec.at = "idle" BY IdleJob DEF Init
<1>5. trial \in BOOLEAN BY DEF Init
<1>8. faults \in 0..MaxFaults
  <2>1. faults = 0 BY DEF Init
  <2>. QED BY <2>1, BoundsAssumption
<1>6. Named BY <1>4 DEF Init, Named
<1>7. Sourced BY <1>3 DEF Sourced, Source
<1>. QED BY <1>1, <1>2, <1>3, <1>4, <1>5, <1>6, <1>7, <1>8 DEF TypeInv, TypeOK

LEMMA NextTypes == ASSUME TypeInv, [Next]_vars PROVE TypeInv'
<1>1. CASE Polar
  <2>1. PICK s \in Subs : \/ \E t \in Tiers : Pay(t, s)
                          \/ RenewalFails(s) \/ Collected(s) \/ Ends(s)
    BY <1>1 DEF Polar
  <2>2. Grows /\ UNCHANGED <<org, seen, job, trial, rec, faults>>
    BY <2>1, PolarSteps DEF TypeInv, TypeOK
  <2>. QED BY <2>2, Unnoticed
<1>2. CASE UNCHANGED vars
  BY <1>2 DEF vars, TypeInv, TypeOK, OrgTypes, PolarTypes, Named, Sourced, Source, Bought
<1>. QED BY <1>1, <1>2, HandlerSteps, CustomerSteps, WorkerSteps, FaultSteps DEF Next

LEMMA AlwaysTypes == Spec => []TypeInv
BY InitTypes, NextTypes, PTL DEF Spec

(* Every value stays in its domain, whatever Polar delivers and whenever the *)
(* handlers, the trial worker and the reconciler are interrupted.            *)
THEOREM TypeCorrect == Spec => []TypeOK
<1>1. TypeInv => TypeOK BY DEF TypeInv
<1>. QED BY <1>1, AlwaysTypes, PTL

-----------------------------------------------------------------------------
(* A subscription is replaced by another one.                                *)
LEMMA OtherStays ==
  ASSUME NEW s \in Subs, Other(s), \A r \in Subs : Bought(r) => Bought(r)'
  PROVE  Other(s)'
BY DEF Other

LEMMA ReplacedAtPolar ==
  ASSUME TypeInv, Replaced, Polar PROVE Replaced'
<1>1. PICK s \in Subs : \/ \E t \in Tiers : Pay(t, s)
                        \/ RenewalFails(s) \/ Collected(s) \/ Ends(s)
  BY DEF Polar
<1>2. Grows /\ job' = job BY <1>1, PolarSteps DEF TypeInv, TypeOK
<1>3. \A r \in Subs : polar'[r].ends = "replaced" => polar[r].ends = "replaced"
  BY <1>1 DEF Pay, RenewalFails, Collected, Ends, TypeInv, TypeOK, PolarTypes
<1>4. \A r \in Subs : polar[r].ends = "replaced" => Other(r)
  BY DEF Replaced, EndsForAReason, Other, Bought
<1>5. EndsForAReason'
  <2>1. \A r \in Subs : polar'[r].ends = "replaced" => Other(r)' BY <1>2, <1>3, <1>4, OtherStays DEF Grows
  <2>. QED BY <2>1 DEF EndsForAReason, Other, Bought
<1>6. ASSUME NEW h \in Handlers, job'[h].at = "patch" PROVE Other(job[h].sub)'
  <2>1. job[h].sub \in Subs /\ Other(job[h].sub) BY <1>2, <1>6, JobTypes DEF TypeInv, Replaced
  <2>2. PICK r \in Subs : r = job[h].sub BY <2>1
  <2>3. Other(r)' BY <1>2, <2>1, <2>2, OtherStays DEF Grows
  <2>. QED BY <1>2, <2>2, <2>3 DEF Other, Bought
<1>. QED BY <1>5, <1>6 DEF Replaced

(* A PATCH marks as replaced only what has a replacement.                    *)
LEMMA ReplacedByPatch ==
  ASSUME TypeInv, Replaced, NEW s \in Subs, NEW why \in {"asked", "replaced"}, Patch(s, why),
         why = "replaced" => Other(s), UNCHANGED <<sessions, seen>>,
         \A h \in Handlers : job'[h] = job[h] \/ job'[h] = Idle
  PROVE  Replaced'
<1>1. Grows BY Patching DEF TypeInv, TypeOK
<1>2. \A r \in Subs : polar'[r].ends = "replaced" => polar[r].ends = "replaced" \/ Other(r)
  BY DEF Patch, TypeInv, TypeOK, PolarTypes
<1>3. \A r \in Subs : polar[r].ends = "replaced" => Other(r)
  BY DEF Replaced, EndsForAReason, Other, Bought
<1>4. EndsForAReason'
  <2>1. \A r \in Subs : polar'[r].ends = "replaced" => Other(r)' BY <1>1, <1>2, <1>3, OtherStays DEF Grows
  <2>. QED BY <2>1 DEF EndsForAReason, Other, Bought
<1>5. ASSUME NEW h \in Handlers, job'[h].at = "patch" PROVE Other(job[h].sub)'
  <2>1. job'[h] = job[h] BY <1>5, IdleJob
  <2>2. job[h].sub \in Subs /\ Other(job[h].sub) BY <1>5, <2>1, JobTypes DEF TypeInv, Replaced
  <2>3. PICK r \in Subs : r = job[h].sub BY <2>2
  <2>4. Other(r)' BY <1>1, <2>2, <2>3, OtherStays DEF Grows
  <2>. QED BY <2>1, <2>3, <2>4 DEF Other, Bought
<1>. QED BY <1>4, <1>5 DEF Replaced

LEMMA ReplacedByHandler == ASSUME TypeInv, Replaced, NEW h \in Handlers, Handle(h) PROVE Replaced'
<1>1. TypeOK BY DEF TypeInv
<1>2. ASSUME NEW e \in Events, NEW again \in BOOLEAN, Receive(h, e, again) PROVE Replaced'
  <2>1. \A g \in Handlers : job'[g] = job[g] \/ job'[g].at \in {"read", "write"}
    BY <1>1, <1>2, StartedTypes DEF Receive, TypeOK
  <2>. QED BY <1>2, <2>1 DEF Receive, Replaced, EndsForAReason, Other, Bought
<1>3. CASE ReadPrevious(h)
  <2>1. \A g \in Handlers : job'[g] = job[g] \/ job'[g].at = "write"
    BY <1>1, <1>3 DEF ReadPrevious, TypeOK
  <2>. QED BY <1>3, <2>1 DEF ReadPrevious, Replaced, EndsForAReason, Other, Bought
<1>4. CASE WriteOrg(h)
  <2>1. job[h].event.sub \in Subs /\ Bought(job[h].event.sub)
    BY <1>1, <1>4, JobTypes, EventFields DEF WriteOrg, TypeInv, Named, Sourced, Source
  <2>2. job[h].prev \in Subs \cup {NoSub} BY <1>1, <1>4, JobTypes DEF WriteOrg
  <2>3. Replaces(job[h].prev, job[h].event.sub) => Other(job[h].prev)
    BY <2>1, <2>2 DEF Replaces, Other
  <2>4. \A g \in Handlers : \/ job'[g] = job[g] \/ job'[g].at = "idle"
                            \/ job'[g].sub = job[h].prev /\ Replaces(job[h].prev, job[h].event.sub)
    BY <1>1, <1>4, IdleJob DEF WriteOrg, TypeOK
  <2>. QED BY <1>4, <2>3, <2>4 DEF WriteOrg, Replaced, EndsForAReason, Other, Bought
<1>5. CASE CancelPrevious(h)
  <2>1. job[h].sub \in Subs /\ Other(job[h].sub)
    BY <1>1, <1>5, JobTypes DEF CancelPrevious, Replaced
  <2>2. \A g \in Handlers : job'[g] = job[g] \/ job'[g] = Idle BY <1>1, <1>5 DEF CancelPrevious, TypeOK
  <2>. QED BY <1>5, <2>1, <2>2, ReplacedByPatch DEF CancelPrevious
<1>. QED BY <1>2, <1>3, <1>4, <1>5 DEF Handle

LEMMA ReplacedByRest ==
  ASSUME TypeInv, Replaced, \/ Customer \/ Faulty \/ UNCHANGED vars
                            \/ SelectExpired \/ ExpireTrial \/ Scan \/ Fetch \/ Correct
  PROVE  Replaced'
<1>1. CASE CancelSubscription
  <2>1. org.sub \in Subs BY <1>1 DEF CancelSubscription, TypeInv, TypeOK, OrgTypes
  <2>. QED BY <1>1, <2>1, ReplacedByPatch DEF CancelSubscription
<1>2. ASSUME \/ \E t \in Tiers : CreateCheckout(t) \/ ChangePlan(t)
             \/ Faulty \/ UNCHANGED vars
             \/ SelectExpired \/ ExpireTrial \/ Scan \/ Fetch \/ Correct
      PROVE  Replaced'
  <2>1. polar' = polar
    BY <1>2 DEF CreateCheckout, ChangePlan, OpenCheckout, Faulty, HandlerFails, Lost, FetchFails, Restart,
                vars, SelectExpired, ExpireTrial, Scan, Fetch, Correct
  <2>2. \A h \in Handlers : job'[h] = job[h] \/ job'[h] = Idle
    BY <1>2 DEF CreateCheckout, ChangePlan, OpenCheckout, Faulty, HandlerFails, Lost, FetchFails, Restart,
                vars, SelectExpired, ExpireTrial, Scan, Fetch, Correct, TypeInv, TypeOK
  <2>. QED BY <2>1, <2>2, IdleJob DEF Replaced, EndsForAReason, Other, Bought
<1>. QED BY <1>1, <1>2 DEF Customer

LEMMA InitReplaced == Init => Replaced
BY IdleJob DEF Init, Replaced, EndsForAReason

LEMMA NextReplaced == ASSUME TypeInv, Replaced, [Next]_vars PROVE Replaced'
BY ReplacedAtPolar, ReplacedByHandler, ReplacedByRest DEF Next

(* No activation ends the plan it activates: a subscription is marked as     *)
(* replaced only while another one was bought, with any interleaving of the  *)
(* .created and .active deliveries of any number of subscriptions.           *)
THEOREM ReplacedByAnother == Spec => []EndsForAReason
<1>1. Init /\ [][Next]_vars /\ []TypeInv => []Replaced
  BY InitReplaced, NextReplaced, PTL
<1>2. Replaced => EndsForAReason BY DEF Replaced
<1>. QED BY <1>1, <1>2, AlwaysTypes, PTL DEF Spec

-----------------------------------------------------------------------------
(* A bad status has its cause at Polar.                                      *)
LEMMA TruthAtPolar ==
  ASSUME TypeInv, Truthful, NEW s \in Subs,
         \/ \E t \in Tiers : Pay(t, s)
         \/ RenewalFails(s) \/ Collected(s) \/ Ends(s)
  PROVE  Truthful' /\ Final
<1>1. PolarTypes /\ Named BY DEF TypeInv, TypeOK
<1>2. Grows BY <1>1, PolarSteps
<1>3. Final BY <1>1 DEF Pay, Fresh, RenewalFails, Collected, Ends, PolarTypes, Final
<1>4. ASSUME NEW e \in sent', e.kind = "canceled" PROVE polar'[e.sub].state = "canceled"
  <2>1. e \in Events /\ e.sub \in Subs BY <1>2, EventFields DEF Grows, PolarTypes
  <2>2. CASE e \in sent BY <1>3, <1>4, <2>1, <2>2 DEF Truthful, Final
  <2>3. CASE e \notin sent
    BY <1>1, <1>4, <2>1, <2>3 DEF Pay, RenewalFails, Collected, Ends, Raise, PolarTypes
  <2>. QED BY <2>2, <2>3
<1>5. ASSUME NEW r \in Subs, polar'[r].state = "past_due" PROVE [kind |-> "failed", sub |-> r] \in sent'
  <2>1. polar[r].state = "past_due" \/ (r = s /\ RenewalFails(s))
    BY <1>1, <1>5 DEF Pay, RenewalFails, Collected, Ends, PolarTypes
  <2>2. CASE polar[r].state = "past_due" BY <1>2, <2>2 DEF Truthful, Grows
  <2>3. CASE r = s /\ RenewalFails(s)
    BY <2>3 DEF RenewalFails, Raise
  <2>. QED BY <2>1, <2>2, <2>3
<1>. QED BY <1>3, <1>4, <1>5 DEF Truthful

LEMMA TruthByPatch ==
  ASSUME TypeInv, Truthful, NEW s \in Subs, NEW why \in {"asked", "replaced"}, Patch(s, why),
         UNCHANGED <<sessions, seen>>
  PROVE  Truthful' /\ Final /\ sent \subseteq sent'
<1>1. PolarTypes /\ Named BY DEF TypeInv, TypeOK
<1>2. Grows BY <1>1, Patching
<1>3. \A r \in Subs : polar'[r].state = polar[r].state BY <1>1 DEF Patch, PolarTypes
<1>4. \A e \in sent' : e \in sent \/ e.kind = "updated" BY DEF Patch, Raise
<1>5. \A e \in sent' : e.sub \in Subs BY <1>2, EventFields DEF Grows, PolarTypes
<1>. QED BY <1>2, <1>3, <1>4, <1>5 DEF Truthful, Final, Grows

(* Causes stay, so the steps that write no status keep the invariant.        *)
LEMMA CausesStay ==
  ASSUME TypeInv, Caused, Truthful', Final, sent \subseteq sent',
         org'.status = org.status, rec' = rec \/ rec' = Idle
  PROVE  Caused'
<1>1. SomeCanceled => SomeCanceled' BY DEF SomeCanceled, Final
<1>2. SomeFailed => SomeFailed' BY DEF SomeFailed
<1>. QED BY <1>1, <1>2, IdleJob DEF Caused, BlockedForAReason, SomeCanceled, SomeFailed

LEMMA SameTruth ==
  ASSUME Truthful, UNCHANGED <<polar, sent>> PROVE Truthful' /\ Final /\ sent \subseteq sent'
BY DEF Truthful, Final

LEMMA WrittenStatus ==
  ASSUME TypeInv, Caused, NEW e \in sent
  PROVE  /\ Written(e).status = "canceled" => SomeCanceled
         /\ Written(e).status = "past_due" => SomeFailed
<1>1. e.sub \in Subs /\ e.kind \in Kinds /\ e = [kind |-> e.kind, sub |-> e.sub]
  BY EventFields DEF TypeInv, TypeOK, PolarTypes
<1>2. org.status = "canceled" => SomeCanceled BY DEF Caused, BlockedForAReason, SomeCanceled
<1>3. org.status = "past_due" => SomeFailed BY DEF Caused, BlockedForAReason, SomeFailed
<1>4. CASE e.kind \in {"created", "active"} BY <1>4 DEF Written
<1>5. CASE e.kind = "updated"
  BY <1>2, <1>3, <1>5 DEF Written, TypeInv, TypeOK, OrgTypes
<1>6. CASE e.kind = "canceled"
  <2>1. SomeCanceled BY <1>1, <1>6 DEF Caused, Truthful, SomeCanceled
  <2>2. Written(e).status = "canceled" BY <1>6 DEF Written, TypeInv, TypeOK, OrgTypes
  <2>. QED BY <2>1, <2>2
<1>7. CASE e.kind = "failed"
  <2>1. SomeFailed BY <1>1, <1>7 DEF SomeFailed
  <2>2. Written(e).status = "past_due" BY <1>7 DEF Written, TypeInv, TypeOK, OrgTypes
  <2>. QED BY <2>1, <2>2
<1>. QED BY <1>1, <1>4, <1>5, <1>6, <1>7 DEF Kinds

LEMMA CausedByHandler == ASSUME TypeInv, Caused, NEW h \in Handlers, Handle(h) PROVE Caused'
<1>1. TypeOK /\ Truthful BY DEF TypeInv, Caused
<1>2. ASSUME NEW e \in Events, NEW again \in BOOLEAN, Receive(h, e, again) PROVE Caused'
  BY <1>1, <1>2, SameTruth, CausesStay DEF Receive
<1>3. CASE ReadPrevious(h) BY <1>1, <1>3, SameTruth, CausesStay DEF ReadPrevious
<1>4. CASE WriteOrg(h)
  <2>1. job[h].event \in sent BY <1>4 DEF WriteOrg, TypeInv, Sourced, Source
  <2>2. Truthful' /\ UNCHANGED <<polar, sent, rec>> BY <1>1, <1>4, SameTruth DEF WriteOrg
  <2>3. /\ org'.status = "canceled" => SomeCanceled
        /\ org'.status = "past_due" => SomeFailed
    BY <1>4, <2>1, WrittenStatus DEF WriteOrg
  <2>. QED BY <2>2, <2>3 DEF Caused, BlockedForAReason, SomeCanceled, SomeFailed
<1>5. CASE CancelPrevious(h)
  <2>1. job[h].sub \in Subs BY <1>1, <1>5, JobTypes DEF CancelPrevious
  <2>2. Truthful' /\ Final /\ sent \subseteq sent' BY <1>1, <1>5, <2>1, TruthByPatch DEF CancelPrevious
  <2>. QED BY <1>5, <2>2, CausesStay DEF CancelPrevious
<1>. QED BY <1>2, <1>3, <1>4, <1>5 DEF Handle

LEMMA CausedByRest ==
  ASSUME TypeInv, Caused, \/ Customer \/ Faulty \/ UNCHANGED vars
                          \/ SelectExpired \/ ExpireTrial \/ Scan \/ Fetch \/ Correct
  PROVE  Caused'
<1>1. TypeOK /\ Truthful BY DEF TypeInv, Caused
<1>2. CASE CancelSubscription
  <2>1. org.sub \in Subs BY <1>2 DEF CancelSubscription, TypeInv, TypeOK, OrgTypes
  <2>2. Truthful' /\ Final /\ sent \subseteq sent' BY <1>1, <1>2, <2>1, TruthByPatch DEF CancelSubscription
  <2>. QED BY <1>2, <2>2, CausesStay DEF CancelSubscription
<1>3. ASSUME \/ \E t \in Tiers : CreateCheckout(t) \/ ChangePlan(t)
             \/ Faulty \/ UNCHANGED vars \/ SelectExpired
      PROVE  Caused'
  <2>1. UNCHANGED <<polar, sent, org>> /\ (rec' = rec \/ rec' = Idle)
    BY <1>3 DEF CreateCheckout, ChangePlan, OpenCheckout, Faulty, HandlerFails, Lost, FetchFails, Restart,
                vars, SelectExpired
  <2>. QED BY <1>1, <2>1, SameTruth, CausesStay
<1>4. CASE ExpireTrial
  <2>1. UNCHANGED <<polar, sent, rec>> /\ org'.status = "expired"
    BY <1>1, <1>4 DEF ExpireTrial, TypeOK, OrgTypes
  <2>2. Truthful' BY <1>1, <2>1, SameTruth
  <2>. QED BY <2>1, <2>2 DEF Caused, BlockedForAReason, SomeCanceled, SomeFailed
<1>5. CASE Scan
  <2>1. UNCHANGED <<polar, sent, org>> /\ rec'.at = "fetch" BY <1>5 DEF Scan
  <2>2. Truthful' BY <1>1, <2>1, SameTruth
  <2>. QED BY <2>1, <2>2 DEF Caused, BlockedForAReason
<1>6. CASE Fetch
  <2>1. rec.was.sub \in Subs BY <1>1, <1>6, RecTypes DEF Fetch
  <2>2. UNCHANGED <<polar, sent, org>> BY <1>6 DEF Fetch
  <2>3. Truthful' BY <1>1, <2>2, SameTruth
  <2>4. rec'.status \in {"same", polar[rec.was.sub].state} BY <1>6 DEF Fetch, Drift, PolarStatus
  <2>5. rec'.status = "canceled" => SomeCanceled BY <2>1, <2>4 DEF SomeCanceled
  <2>6. rec'.status = "past_due" => SomeFailed BY <1>1, <2>1, <2>4 DEF SomeFailed, Truthful
  <2>. QED BY <2>2, <2>3, <2>5, <2>6 DEF Caused, BlockedForAReason, SomeCanceled, SomeFailed
<1>7. CASE Correct
  <2>1. UNCHANGED <<polar, sent>> /\ rec' = Idle /\ org'.status \in {org.status, rec.status} /\ rec.at = "write"
    BY <1>1, <1>7 DEF Correct, Corrected, TypeOK, OrgTypes
  <2>2. Truthful' BY <1>1, <2>1, SameTruth
  <2>. QED BY <2>1, <2>2, IdleJob DEF Caused, BlockedForAReason, SomeCanceled, SomeFailed
<1>. QED BY <1>2, <1>3, <1>4, <1>5, <1>6, <1>7 DEF Customer

LEMMA InitCaused == Init => Caused
BY IdleJob DEF Init, Caused, Truthful, BlockedForAReason

LEMMA NextCaused == ASSUME TypeInv, Caused, [Next]_vars PROVE Caused'
<1>1. CASE Polar
  <2>1. PICK s \in Subs : \/ \E t \in Tiers : Pay(t, s)
                          \/ RenewalFails(s) \/ Collected(s) \/ Ends(s)
    BY <1>1 DEF Polar
  <2>2. Grows /\ UNCHANGED <<org, rec>> BY <2>1, PolarSteps DEF TypeInv, TypeOK
  <2>3. Truthful' /\ Final BY <2>1, TruthAtPolar DEF Caused
  <2>. QED BY <2>2, <2>3, CausesStay DEF Grows
<1>. QED BY <1>1, CausedByHandler, CausedByRest DEF Next

(* Neither a failed fetch, a stale snapshot, a repeated delivery nor the     *)
(* trial worker invents a canceled or a past-due organization.               *)
THEOREM NeverBlockedForNothing == Spec => []BlockedForAReason
<1>1. Init /\ [][Next]_vars /\ []TypeInv => []Caused
  BY InitCaused, NextCaused, PTL
<1>2. Caused => BlockedForAReason BY DEF Caused
<1>. QED BY <1>1, <1>2, AlwaysTypes, PTL DEF Spec
=============================================================================
