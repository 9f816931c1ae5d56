--------------------------- MODULE AccountErasure ---------------------------
(***************************************************************************)
(* The erasure of personal data in one organization: users ask for the     *)
(* account's deletion and may think better of it within 30 days            *)
(* (dataRightsController, billingController), accountDeletionWorker sweeps *)
(* the requests every six hours and runs eraseOrganization, contacts are   *)
(* erased one by one on demand (contactController.deleteContacts), and     *)
(* meanwhile the sending pipeline goes on recording mail and bounces.      *)
(* Every await of eraseLeadPII and of the worker is a step of its own.     *)
(***************************************************************************)
EXTENDS Integers, FiniteSets

CONSTANTS
  Users,         \* members of the organization
  Leads,         \* recipients
  InitialLeads,  \* those the organization starts with
  Ownership,     \* may an Account name a member as its owner?  subset of BOOLEAN
  Handlers,      \* requests that may erase contacts at the same time
  MaxRequests,   \* bound: deletion requests ever recorded
  MaxFaults      \* bound: crashes and failing database calls

ASSUME UsersAssumption == Users # {}
ASSUME RequestsAssumption == MaxRequests \in Nat
ASSUME FaultsAssumption == MaxFaults \in Nat
ASSUME OwnershipAssumption == Ownership \subseteq BOOLEAN
ASSUME LeadsAssumption == InitialLeads \subseteq Leads

Worker == "worker"
ASSUME HandlersAssumption == Worker \notin Handlers

Erasers == Handlers \cup {Worker}
Requests == 1..MaxRequests
NoRequest == 0
NoLead == "nobody"
ASSUME NobodyAssumption == NoLead \notin Leads

\* The tables that hold a recipient's address beside Lead; the first and the last
\* hang on the organization, the other two have no foreign key to it.
Tables == {"CampaignLead", "BounceEvent", "SendEvent", "EmailMessage"}
Cascading == {"CampaignLead", "EmailMessage"}

\* What a deletion request is made with: only the first kind carries a
\* cancellation token.
Doors == {"dashboard", "billing"}

VARIABLES
  org,        \* the Organization row: "alive" or "gone"
  owned,      \* does an Account name a member as its owner (foreign key, RESTRICT)?
  request,    \* AuditLog rows deletion_requested, in the order of their timestamps
  executed,   \* users with a deletion_executed row
  confirmed,  \* users who were told that the account is deleted
  asking,     \* requests between the duplicate check and the insert
  lead,       \* the Lead row of a recipient: "absent", "live" or "erased"
  rows,       \* what each table holds of a recipient
  mail,       \* how far the recipient's email is recorded
  wpc, list, wreq,           \* the worker: its place, the rows read, the current one
  todo, cur, stage, found,   \* each eraser: addresses left, current one, await, lead?
  faults,     \* faults still to come
  excused,    \* history: recipients whose data may have been left behind
  overtaken   \* history: requests cancelled after the worker had looked

reqVars == <<request, executed, confirmed, asking, overtaken>>
dataVars == <<org, owned, lead, rows, mail, excused>>
workVars == <<wpc, list, wreq>>
eraseVars == <<todo, cur, stage, found>>
vars == <<reqVars, dataVars, workVars, eraseVars, faults>>

Row == [state : {"unused", "open", "cancelled", "removed"},
        user : Users, door : Doors, due : BOOLEAN]
Exists(r) == request[r].state \in {"open", "cancelled"}
RowsOf(u) == {r \in Requests : Exists(r) /\ request[r].user = u}
Holds(p) == {t \in Tables : rows[p][t] \in {"pii", "embedded"}}

Init ==
  /\ org = "alive" /\ owned \in Ownership
  /\ request = [r \in Requests |-> [state |-> "unused", user |-> CHOOSE u \in Users : TRUE,
                                    door |-> "billing", due |-> FALSE]]
  /\ executed = {} /\ confirmed = {} /\ asking = {} /\ overtaken = {}
  /\ lead = [p \in Leads |-> IF p \in InitialLeads THEN "live" ELSE "absent"]
  /\ rows = [p \in Leads |-> [t \in Tables |->
               IF p \in InitialLeads /\ t = "CampaignLead" THEN "pii" ELSE "none"]]
  /\ mail = [p \in Leads |-> IF p \in InitialLeads THEN "queued" ELSE "none"]
  /\ wpc = "idle" /\ list = {} /\ wreq = NoRequest
  /\ todo = [e \in Erasers |-> {}] /\ cur = [e \in Erasers |-> NoLead]
  /\ stage = [e \in Erasers |-> "find"] /\ found = [e \in Erasers |-> FALSE]
  /\ faults = MaxFaults
  /\ excused = {}

---------------------------------------------------------------------------
(* The requests.                                                           *)

\* A row of the user, cancelled or not, answers "already requested".
AskCheck(u, k) ==
  /\ org = "alive" /\ RowsOf(u) = {}
  /\ asking' = asking \cup {<<u, k>>}
  /\ UNCHANGED <<request, executed, confirmed, overtaken, dataVars, workVars,
                 eraseVars, faults>>

AskCreate(u, k) ==
  /\ <<u, k>> \in asking /\ org = "alive"
  /\ \E r \in Requests :
       /\ request[r].state = "unused"
       /\ \A s \in 1..(r - 1) : request[s].state # "unused"
       /\ request' = [request EXCEPT ![r] =
                        [state |-> "open", user |-> u, door |-> k, due |-> FALSE]]
  /\ asking' = asking \ {<<u, k>>}
  /\ UNCHANGED <<executed, confirmed, overtaken, dataVars, workVars, eraseVars, faults>>

GraceElapses(r) ==
  /\ Exists(r) /\ ~request[r].due
  /\ request' = [request EXCEPT ![r].due = TRUE]
  /\ UNCHANGED <<executed, confirmed, asking, overtaken, dataVars, workVars, eraseVars, faults>>

\* The token is compared with the latest row's; the row written cancels every
\* earlier request of the user, and nothing asks whether the grace is over.
CancelDeletion(u) ==
  /\ RowsOf(u) # {}
  /\ \A r \in RowsOf(u) : (\A s \in RowsOf(u) : s <= r) => request[r].door = "dashboard"
  /\ request' = [r \in Requests |-> IF r \in RowsOf(u)
                                    THEN [request[r] EXCEPT !.state = "cancelled"]
                                    ELSE request[r]]
  /\ overtaken' = IF wpc \in {"idle", "next", "cancelled?"} THEN overtaken
                  ELSE overtaken \cup (RowsOf(u) \cap {wreq})
  /\ UNCHANGED <<executed, confirmed, asking, dataVars, workVars, eraseVars, faults>>

---------------------------------------------------------------------------
(* eraseLeadPII, one await after the other.                                *)

Busy(e) == cur[e] # NoLead

\* Lead.findUnique by the address the caller read before.
Find(e, p) ==
  /\ ~Busy(e) /\ p \in todo[e]
  /\ cur' = [cur EXCEPT ![e] = p]
  /\ todo' = [todo EXCEPT ![e] = @ \ {p}]
  /\ LET there == org = "alive" /\ lead[p] = "live" IN
     /\ found' = [found EXCEPT ![e] = there]
     /\ stage' = [stage EXCEPT ![e] = IF there THEN "Lead" ELSE "CampaignLead"]
  /\ UNCHANGED <<reqVars, dataVars, workVars, faults>>

\* Lead.update: the tombstone replaces the address.
ScrubLead(e) ==
  /\ Busy(e) /\ stage[e] = "Lead" /\ org = "alive"
  /\ lead' = [lead EXCEPT ![cur[e]] = "erased"]
  /\ stage' = [stage EXCEPT ![e] = "CampaignLead"]
  /\ UNCHANGED <<reqVars, org, owned, rows, mail, excused, workVars, todo, cur, found, faults>>

AfterSkips(t) == CASE t = "CampaignLead" -> "BounceEvent"
                   [] t = "BounceEvent" -> "EmailMessage" [] OTHER -> "find"   \* (a mutant)
After(t) == CASE t = "CampaignLead" -> "BounceEvent" [] t = "BounceEvent" -> "SendEvent"
              [] t = "SendEvent" -> "EmailMessage" [] OTHER -> "find"

\* Without the Lead row the tombstone is made from the address itself.
Tombstone(e) == IF found[e] THEN "clean" ELSE "embedded"

\* updateMany on the rows that still carry the address.
ScrubTable(e) ==
  /\ Busy(e) /\ stage[e] \in Tables
  /\ LET p == cur[e] t == stage[e] IN
     /\ rows' = [rows EXCEPT ![p][t] = IF @ = "pii" THEN Tombstone(e) ELSE @]
     /\ excused' = IF rows[p][t] = "pii" /\ ~found[e] THEN excused \cup {p} ELSE excused
     /\ stage' = [stage EXCEPT ![e] = After(t)]
     /\ cur' = [cur EXCEPT ![e] = IF t = "EmailMessage" THEN NoLead ELSE @]
     /\ found' = [found EXCEPT ![e] = @ /\ t # "EmailMessage"]
  /\ UNCHANGED <<reqVars, org, owned, lead, mail, workVars, todo, faults>>

\* The eraser stops where it is: a tombstoned lead is not looked at again.
Cut(e) ==
  /\ todo' = [todo EXCEPT ![e] = {}]
  /\ cur' = [cur EXCEPT ![e] = NoLead]
  /\ stage' = [stage EXCEPT ![e] = "find"]
  /\ found' = [found EXCEPT ![e] = FALSE]
  /\ excused' = excused \cup {p \in Leads : p = cur[e] /\ found[e] /\ lead[p] # "live"}
  /\ UNCHANGED <<org, owned, lead, rows, mail>>

\* deleteContacts reads the addresses of the chosen ids first.
DeleteContacts(h) ==
  /\ org = "alive" /\ ~Busy(h) /\ todo[h] = {}
  /\ \E S \in SUBSET {p \in Leads : lead[p] = "live"} :
       S # {} /\ todo' = [todo EXCEPT ![h] = S]
  /\ UNCHANGED <<reqVars, dataVars, workVars, cur, stage, found, faults>>

---------------------------------------------------------------------------
(* accountDeletionWorker.runOnce.                                          *)

At(place) == wpc = place

Goto(place) == wpc' = place /\ UNCHANGED <<list, wreq>>

\* On to the next row read.
DropKeeping == wpc' = "next" /\ list' = list \ {wreq} /\ UNCHANGED wreq   \* (a mutant)
Drop == wpc' = "next" /\ list' = list \ {wreq} /\ wreq' = NoRequest

\* Every deletion_requested row.
SweptTokens == {r \in Requests : Exists(r) /\ request[r].door = "dashboard"} \* (a mutant)
Swept == {r \in Requests : Exists(r)}

Scan ==
  /\ At("idle")
  /\ list' = Swept
  /\ wpc' = IF list' = {} THEN "idle" ELSE "next"
  /\ UNCHANGED <<wreq, reqVars, dataVars, eraseVars, faults>>

\* The oldest first; one still in its grace period is passed over.
Consider ==
  /\ At("next")
  /\ IF list = {}
     THEN wpc' = "idle" /\ UNCHANGED <<list, wreq>>
     ELSE \E r \in list :
            /\ \A s \in list : r <= s
            /\ IF request[r].due
               THEN wpc' = "cancelled?" /\ wreq' = r /\ UNCHANGED list
               ELSE list' = list \ {r} /\ UNCHANGED <<wpc, wreq>>
  /\ UNCHANGED <<reqVars, dataVars, eraseVars, faults>>

WithdrawnInGrace(r) == request[r].state = "cancelled" /\ ~request[r].due   \* (a mutant)
Withdrawn(r) == request[r].state = "cancelled"

Remove(r) == request' = [request EXCEPT ![r].state =
                           IF Exists(r) THEN "removed" ELSE @]

\* A later deletion_cancelled row of the user: the request is dropped.
LookCancelled ==
  /\ At("cancelled?")
  /\ IF Withdrawn(wreq) THEN Remove(wreq) /\ Drop
                        ELSE Goto("executed?") /\ UNCHANGED request
  /\ UNCHANGED <<executed, confirmed, asking, overtaken, dataVars, eraseVars, faults>>

\* A deletion_executed row of the user: the request is dropped.
LookExecuted ==
  /\ At("executed?")
  /\ IF request[wreq].user \in executed THEN Remove(wreq) /\ Drop
                                        ELSE Goto("page") /\ UNCHANGED request
  /\ UNCHANGED <<executed, confirmed, asking, overtaken, dataVars, eraseVars, faults>>

\* eraseOrganization reads a page of leads; tombstoned rows are skipped.
ReadPage ==
  /\ At("page") /\ Goto("erase")
  /\ todo' = [todo EXCEPT ![Worker] = {p \in Leads : org = "alive" /\ lead[p] = "live"}]
  /\ UNCHANGED <<reqVars, dataVars, cur, stage, found, faults>>

PageErased ==
  /\ At("erase") /\ ~Busy(Worker) /\ todo[Worker] = {}
  /\ Goto("delete")
  /\ UNCHANGED <<reqVars, dataVars, eraseVars, faults>>

\* organization.delete cascades over everything that hangs on the organization, the
\* requests and the audit trail included; rows without a foreign key stay.
DeleteOrg ==
  /\ At("delete") /\ Goto("write")
  /\ org = "alive" /\ ~owned
  /\ org' = "gone"
  /\ rows' = [p \in Leads |-> [t \in Tables |->
                IF t \in Cascading THEN "none" ELSE rows[p][t]]]
  /\ excused' = excused \cup {p \in Leads : lead[p] = "live"}
  /\ request' = [r \in Requests |-> [request[r] EXCEPT !.state =
                                       IF Exists(r) THEN "removed" ELSE @]]
  /\ executed' = {} /\ asking' = {}   \* (an insert under way would throw)
  /\ UNCHANGED <<confirmed, overtaken, owned, lead, mail, eraseVars, faults>>

\* It throws (an Account owner may not be deleted, the row is gone): caught, logged.
DeleteRefused ==
  /\ At("delete") /\ Goto("write")
  /\ org = "gone" \/ owned
  /\ UNCHANGED <<reqVars, dataVars, eraseVars, faults>>

\* deletion_executed needs the organization for its foreign key; without it the
\* insert throws, and the confirmation is not sent.
WriteExecuted ==
  /\ At("write") /\ Drop
  /\ IF org = "alive"
     THEN /\ executed' = executed \cup {request[wreq].user}
          /\ confirmed' = confirmed \cup {request[wreq].user}
     ELSE UNCHANGED <<executed, confirmed>>
  /\ UNCHANGED <<request, asking, overtaken, dataVars, eraseVars, faults>>

---------------------------------------------------------------------------
(* The pipeline that keeps writing.                                        *)

\* Somebody will still scrub this table for this recipient.
Pending(p, t) == \E e \in Erasers : /\ cur[e] = p /\ found[e]
                                    /\ \/ stage[e] \in {"Lead", t}
                                       \/ stage[e] = "CampaignLead"
                                       \/ stage[e] = "BounceEvent" /\ t # "CampaignLead"
                                       \/ stage[e] = "SendEvent" /\ t = "EmailMessage"

Write(p, t) ==
  /\ rows' = [rows EXCEPT ![p][t] = "pii"]
  /\ excused' = IF (lead[p] = "erased" \/ org = "gone") /\ ~Pending(p, t)
                THEN excused \cup {p} ELSE excused

Advance(p, from, to) == mail[p] = from /\ mail' = [mail EXCEPT ![p] = to]

\* The send worker's record transaction, then the copy for the inbox: both touch
\* rows that go with the organization.
RecordSend(p) ==
  /\ org = "alive" /\ Advance(p, "queued", "recorded") /\ Write(p, "SendEvent")
  /\ UNCHANGED <<reqVars, org, owned, lead, workVars, eraseVars, faults>>
RecordMessage(p) ==
  /\ org = "alive" /\ Advance(p, "recorded", "sent") /\ Write(p, "EmailMessage")
  /\ UNCHANGED <<reqVars, org, owned, lead, workVars, eraseVars, faults>>

\* processBounce looks for the mailbox, and inserts the event later.
BounceLook(p) ==
  /\ org = "alive" /\ Advance(p, "sent", "bouncing")
  /\ UNCHANGED <<reqVars, org, owned, lead, rows, excused, workVars, eraseVars, faults>>
BounceCreate(p) ==
  /\ Advance(p, "bouncing", "done") /\ Write(p, "BounceEvent")
  /\ UNCHANGED <<reqVars, org, owned, lead, workVars, eraseVars, faults>>

\* A contact is added and enrolled.
Import(p) ==
  /\ org = "alive" /\ lead[p] = "absent"
  /\ lead' = [lead EXCEPT ![p] = "live"]
  /\ rows' = [rows EXCEPT ![p]["CampaignLead"] = "pii"]
  /\ mail' = [mail EXCEPT ![p] = "queued"]
  /\ UNCHANGED <<reqVars, org, owned, excused, workVars, eraseVars, faults>>

---------------------------------------------------------------------------
(* Faults.                                                                 *)

Fault == faults > 0 /\ faults' = faults - 1

\* The process dies: the worker forgets its round, a handler its addresses.
WorkerDies ==
  /\ Fault /\ wpc # "idle"
  /\ wpc' = "idle" /\ list' = {} /\ wreq' = NoRequest
  /\ Cut(Worker)
  /\ UNCHANGED reqVars

HandlerDies(h) ==
  /\ Fault /\ (Busy(h) \/ todo[h] # {})
  /\ Cut(h)
  /\ UNCHANGED <<reqVars, workVars>>

\* An await of eraseLeadPII throws: the erasure is given up.
Throws(e) ==
  /\ Busy(e)
  /\ \/ Fault
     \/ stage[e] = "Lead" /\ org = "gone" /\ UNCHANGED faults
  /\ Cut(e)
  /\ IF e = Worker THEN Drop ELSE UNCHANGED workVars
  /\ UNCHANGED reqVars

\* organization.delete fails for another reason, and is caught.
DeleteFails ==
  /\ Fault /\ At("delete") /\ Goto("write")
  /\ UNCHANGED <<reqVars, dataVars, eraseVars>>

---------------------------------------------------------------------------
People == \/ \E u \in Users, k \in Doors : AskCheck(u, k) \/ AskCreate(u, k)
          \/ \E u \in Users : CancelDeletion(u)
          \/ \E h \in Handlers : DeleteContacts(h)
          \/ \E r \in Requests : GraceElapses(r)

Erase(e) == (\E p \in Leads : Find(e, p)) \/ ScrubLead(e) \/ ScrubTable(e)

Sweep == \/ Scan \/ Consider \/ LookCancelled \/ LookExecuted \/ ReadPage \/ PageErased
         \/ DeleteOrg \/ DeleteRefused \/ WriteExecuted \/ Erase(Worker)

Pipeline == \E p \in Leads : RecordSend(p) \/ RecordMessage(p) \/ BounceLook(p)
                             \/ BounceCreate(p) \/ Import(p)

Faulty == WorkerDies \/ DeleteFails \/ (\E h \in Handlers : HandlerDies(h))
          \/ (\E e \in Erasers : Throws(e))

Next == People \/ Sweep \/ Pipeline \/ Faulty \/ (\E h \in Handlers : Erase(h))

Spec == Init /\ [][Next]_vars

\* The worker's timer is set again after every round, and its awaits return.
FairSpec == Spec /\ WF_vars(Sweep)

---------------------------------------------------------------------------
(* Properties.                                                             *)

Past == {"executed?", "page", "erase", "delete", "write"}

\* The types of the requests, of the data and of those who work on them.
RequestTypes ==
  /\ request \in [Requests -> Row]
  /\ executed \subseteq Users /\ confirmed \subseteq Users
  /\ asking \subseteq Users \X Doors
  /\ overtaken \subseteq Requests
DataTypes ==
  /\ org \in {"alive", "gone"} /\ owned \in BOOLEAN
  /\ lead \in [Leads -> {"absent", "live", "erased"}]
  /\ rows \in [Leads -> [Tables -> {"none", "pii", "clean", "embedded"}]]
  /\ mail \in [Leads -> {"none", "queued", "recorded", "sent", "bouncing", "done"}]
  /\ excused \subseteq Leads
WorkTypes ==
  /\ wpc \in {"idle", "next", "cancelled?"} \cup Past
  /\ list \subseteq Requests
  /\ wreq \in IF wpc \in {"idle", "next"} THEN {NoRequest} ELSE Requests
EraserTypes ==
  /\ todo \in [Erasers -> SUBSET Leads]
  /\ cur \in [Erasers -> Leads \cup {NoLead}]
  /\ stage \in [Erasers -> {"find", "Lead"} \cup Tables]
  /\ found \in [Erasers -> BOOLEAN]
  /\ faults \in 0..MaxFaults

\* Type invariant: the worker holds a request exactly while it works on one, and an
\* eraser is at an await of eraseLeadPII exactly while it has an address in hand.
TypeOK == /\ RequestTypes /\ DataTypes /\ WorkTypes /\ EraserTypes
          /\ \A e \in Erasers : cur[e] = NoLead <=> stage[e] = "find"

\* An organization is erased only on a request that has outlived its 30 days, and a
\* cancellation loses only against a worker that has already looked for it: one that
\* was recorded before that is honoured, whatever the other members asked for
\* (accountDeletionWorker.ts, the check before eraseOrganization).
CancelledInTimeIsSpared ==
  wpc \in Past \ {"write"} /\ org = "alive"
    => /\ request[wreq].due
       /\ request[wreq].state = "open" \/ wreq \in overtaken

\* Nothing of a recipient outlives the erasure unless one of four things happened:
\* the erasure was cut short after the Lead row was tombstoned, another erasure of the
\* same address had tombstoned it first, the recipient came after the page of leads
\* had been read, or the pipeline wrote a row after its table had been scrubbed
\* (piiErasureService.eraseLeadPII and eraseOrganization).
LeftForAReason ==
  \A p \in Leads :
    /\ lead[p] = "erased" \/ org = "gone"
    /\ \A e \in Erasers : cur[e] # p
    /\ Holds(p) # {}
    => p \in excused

\* A request whose grace period is over is carried out, unless it is cancelled: crashes
\* and failing calls only delay it to a later round of the worker.
CarriedOut ==
  \A r \in Requests :
    request[r].state = "open" /\ request[r].due
      ~> \/ org = "gone" \/ request[r].user \in executed
         \/ request[r].state \in {"cancelled", "removed"}

=============================================================================
