------------------------------ MODULE SendQueue ------------------------------
(***************************************************************************)
(* The native sending pipeline of src/src/services/sendQueueService.ts for *)
(* one campaign of one organization on one day: the 60-second dispatcher,  *)
(* which selects due leads under a Redis lock, claims them and enqueues    *)
(* one batch job per mailbox; and the BullMQ worker, which walks a batch   *)
(* and, for each mail, re-checks the protection gate and the SendEvent     *)
(* table, talks SMTP and records the send.  Around them run the writers    *)
(* that share their rows: replies, unsubscribes, bounces, the operator's   *)
(* campaign and lost-mailbox endpoints, and mailbox health.                *)
(*                                                                         *)
(* A step of the model is one awaited database, Redis or SMTP operation    *)
(* (or a run of reads between two of them), so every interleaving of the   *)
(* async handlers at an await is a behaviour.  next_send_at is kept only   *)
(* as null, in the future, or passed; time is the step BecomeDue.          *)
(***************************************************************************)
EXTENDS Integers, Sequences, FiniteSets

CONSTANTS
  Leads,          \* CampaignLead rows of the campaign, one recipient each
  InitialLeads,   \* those enrolled at the start
  Accounts,       \* ConnectedAccounts attached to the campaign
  NoAcct,         \* the null assigned_account_id
  NumSteps,       \* most steps a sequence has, numbered from 1
  Detours,        \* the branchings its sequence may have at the start
  Dispatchers,    \* dispatch() invocations that may overlap (ticks, instances)
  Slots,          \* jobs BullMQ holds at once: a bound on the queue's length
  Concurrency,    \* WORKER_CONCURRENCY
  CampaignLimit,  \* campaign.daily_limit
  MailboxLimit,   \* daily_send_limit of a connected account
  MaxRetries,     \* times a job may be run again after a crash or a stall
  MaxEdits,       \* a bound on how often the sequence is edited
  MaxFaults,      \* a bound on crashes, stalls and failed calls together
  RedisUp,        \* whether the process has a Redis connection
  Events          \* which of EventKinds happen in the behaviours considered

EventKinds ==
  { "reply", "unsubscribe", "dsn", "mailbox", "lost", "delete", "reconnect",
    "campaign", "resolve", "restart", "enroll", "edit", "gate", "content", "smtp",
    "crash", "stall", "late", "lock_expiry", "db_error" }

ASSUME ConstantsAssumption ==
  /\ InitialLeads \subseteq Leads
  /\ NoAcct \notin Accounts
  /\ NumSteps \in Nat \ {0}
  /\ Concurrency \in Nat \ {0}
  /\ CampaignLimit \in Nat \ {0}
  /\ MailboxLimit \in Nat \ {0}
  /\ MaxRetries \in Nat
  /\ MaxEdits \in Nat
  /\ MaxFaults \in Nat
  /\ RedisUp \in BOOLEAN
  /\ Events \subseteq EventKinds

Steps == 1..NumSteps
Mail  == Leads \X Steps        \* the unique key of SendEvent

\* condition and branch_to_step_number of the steps: where a lead goes whose
\* condition for step k fails - to k itself, if it has no condition, and to 0 for a
\* null branch or one to the step itself.
Branching == [Steps -> 0..NumSteps]

\* No step has a condition.
Linear == [k \in Steps |-> k]

ASSUME BranchAssumption == Detours # {} /\ Detours \subseteq Branching

ASSUME FiniteAssumption == IsFiniteSet(Leads) /\ IsFiniteSet(Slots)

VARIABLES
  (* CampaignLead columns *)
  status,      \* "absent" until the row exists
  step,        \* current_step: the last step sent, 0 for none
  due,         \* next_send_at: "none", "future" or "now"
  sticky,      \* assigned_account_id
  reason,      \* paused_reason
  replied,     \* replied_at is set
  (* other tables *)
  orgStatus,   \* Lead.status, as far as suppression tells it apart
  campaign,    \* Campaign.status
  sequence,    \* SequenceStep: how many, their branching, and how often replaced
  mbox,        \* per account: sendable, paused by protection, detached or deleted
  sendEvent,   \* SendEvent: the mailbox that recorded a (lead, step)
  usage,       \* ConnectedAccount.sends_today
  (* dispatcher *)
  lock,        \* the Redis key worker:lock:send_dispatcher
  dpc,         \* where each dispatch() is
  scan,        \* campaign row it loaded: sends left today, and the sequence
  room,        \* remainingCapacity per account, 0 for one it filtered out
  gone,        \* accounts permanently disconnected, as loaded
  todo,        \* dueLeads not assigned yet, as read
  bind,        \* leadsToBindStickyAccount
  batch,       \* mailboxBatches
  dcur,        \* the account whose batch is claimed and not yet enqueued
  (* BullMQ jobs *)
  jpc, jacct, jmail, jpos, jtries,
  (* HTTP handlers caught between a read and a write *)
  restarting,  \* lead ids the restart endpoint has read
  enrolling,   \* leads whose suppression check has passed
  faults,      \* faults that may still happen
  (* history, read by no action *)
  delivered,   \* physical sends of a (lead, step), counted up to 2
  late,        \* sends to a lead that should get none, counted up to 2
  passed       \* (lead, step)s a failed condition led the lead past

leadVars == <<status, step, due, sticky, reason, replied>>
dataVars == <<orgStatus, campaign, sequence, mbox, sendEvent, usage>>
dispVars == <<dpc, scan, room, gone, todo, bind, batch, dcur>>
jobVars  == <<jpc, jacct, jmail, jpos, jtries>>
restVars == <<restarting, enrolling, faults>>
histVars == <<delivered, late, passed>>
vars == <<leadVars, dataVars, lock, dispVars, jobVars, restVars, histVars>>

Statuses == {"absent", "active", "paused", "completed", "replied",
             "unsubscribed", "bounced"}

\* A row of dueLeads as the dispatcher read it.
Snapshot == [lead : Leads, step : 0..NumSteps, sticky : Accounts \cup {NoAcct}]

\* EmailInBatch: last is isLastStep, edition stands for stepId.
Email == [lead : Leads, step : Steps, last : BOOLEAN, edition : 0..MaxEdits]

Sequence == [length : Steps, detour : Detours \cup {Linear}, edition : 0..MaxEdits]

\* "capped at 10 hops to defang accidental loops"
MaxHops == 10

Running == {"gate", "dedupe", "advance", "send", "bounce", "record"}

-----------------------------------------------------------------------------
(* Reading the state                                                       *)

Recorded(m) == sendEvent[m] # NoAcct

\* SendEvents of the campaign since midnight, the count both caps read.
SentToday == Cardinality({m \in Mail : Recorded(m)})

LimitOffByOne == SentToday <= CampaignLimit     \* mutant: > for >=

\* dailySent < dailyLimit, in the dispatcher and again in canSendNow.
UnderDailyLimit == SentToday < CampaignLimit

Cur(j) == jmail[j][jpos[j]]
Key(e) == <<e.lead, e.step>>

\* The emails a job has still to process, the current one included.
Pending(j) ==
  IF jpc[j] = "free" THEN {} ELSE {jmail[j][p] : p \in jpos[j]..Len(jmail[j])}

InJob(l)   == \E j \in Slots : \E e \in Pending(j) : e.lead = l
InBatch(l) == \E d \in Dispatchers, a \in Accounts :
                \E p \in DOMAIN batch[d][a] : batch[d][a][p].lead = l
InTodo(l)  == \E d \in Dispatchers : \E t \in todo[d] : t.lead = l

Suppressed(l) == orgStatus[l] \in {"unsubscribed", "bounced"}

\* A lead the sequence may still write to.
Mailable(l) == status[l] = "active" /\ ~replied[l] /\ ~Suppressed(l)

NoScan  == [left |-> 0, sequence |-> [length |-> 1, detour |-> Linear, edition |-> 0]]
NoRoom  == [a \in Accounts |-> 0]
NoBind  == [l \in Leads |-> NoAcct]
NoBatch == [a \in Accounts |-> <<>>]

Lesser(m, n) == IF m < n THEN m ELSE n

Idle(d) == dpc[d] = "idle"

\* Permanently gone for this campaign: out of its accounts, or deleted for good.
Gone == {"detached", "deleted"}

\* A fault of this kind strikes; it is one of the MaxFaults.
Strikes(kind) == /\ kind \in Events /\ faults > 0
                 /\ faults' = faults - 1
                 /\ UNCHANGED <<restarting, enrolling>>

\* The write that takes a CampaignLead row out of the sequence.
Stop(l, s, why) ==
  /\ status' = [status EXCEPT ![l] = s]
  /\ reason' = [reason EXCEPT ![l] = why]
  /\ due' = [due EXCEPT ![l] = "none"]

-----------------------------------------------------------------------------
(* A campaign just launched: its leads active and waiting to be seeded.     *)
Init ==
  /\ status = [l \in Leads |-> IF l \in InitialLeads THEN "active" ELSE "absent"]
  /\ step = [l \in Leads |-> 0]
  /\ due = [l \in Leads |-> "none"]
  /\ sticky = NoBind
  /\ reason = [l \in Leads |-> "none"]
  /\ replied = [l \in Leads |-> FALSE]
  /\ orgStatus = [l \in Leads |-> "ok"]
  /\ campaign = "active"
  /\ sequence \in [length : IF "edit" \in Events THEN Steps ELSE {NumSteps},
                   detour : Detours, edition : {0}]
  /\ mbox = [a \in Accounts |-> "ready"]
  /\ sendEvent = [m \in Mail |-> NoAcct]
  /\ usage = [a \in Accounts |-> 0]
  /\ lock = FALSE
  /\ dpc = [d \in Dispatchers |-> "idle"]
  /\ scan = [d \in Dispatchers |-> NoScan]
  /\ room = [d \in Dispatchers |-> NoRoom]
  /\ gone = [d \in Dispatchers |-> {}]
  /\ todo = [d \in Dispatchers |-> {}]
  /\ bind = [d \in Dispatchers |-> NoBind]
  /\ batch = [d \in Dispatchers |-> NoBatch]
  /\ dcur = [d \in Dispatchers |-> NoAcct]
  /\ jpc = [j \in Slots |-> "free"]
  /\ jacct = [j \in Slots |-> NoAcct]
  /\ jmail = [j \in Slots |-> <<>>]
  /\ jpos = [j \in Slots |-> 1]
  /\ jtries = [j \in Slots |-> 0]
  /\ restarting = {}
  /\ enrolling = {}
  /\ faults = MaxFaults
  /\ delivered = [m \in Mail |-> 0]
  /\ late = [l \in Leads |-> 0]
  /\ passed = {}

-----------------------------------------------------------------------------
(* dispatch()                                                              *)

LockUnchecked == RedisUp                        \* mutant: SET without NX

\* acquireLock: SET NX; without a Redis connection it fails closed.
LockFree == RedisUp /\ ~lock

DAcquire(d) ==
  /\ Idle(d) /\ LockFree
  /\ lock' = TRUE
  /\ dpc' = [dpc EXCEPT ![d] = "load"]
  /\ UNCHANGED <<leadVars, dataVars, scan, room, gone, todo, bind, batch, dcur,
                 jobVars, restVars, histVars>>

\* Load the active campaign, its sequence, accounts and counts of today.
DLoad(d) ==
  /\ dpc[d] = "load"
  /\ campaign = "active" /\ UnderDailyLimit
  /\ scan' = [scan EXCEPT ![d] = [left |-> CampaignLimit - SentToday,
                                  sequence |-> sequence]]
  /\ room' = [room EXCEPT ![d] = [a \in Accounts |->
                 IF mbox[a] = "ready" /\ usage[a] < MailboxLimit
                 THEN MailboxLimit - usage[a] ELSE 0]]
  /\ gone' = [gone EXCEPT ![d] = {a \in Accounts : mbox[a] \in Gone}]
  /\ dpc' = [dpc EXCEPT ![d] = "select"]
  /\ UNCHANGED <<leadVars, dataVars, lock, todo, bind, batch, dcur, jobVars,
                 restVars, histVars>>

\* No active campaign, its daily limit reached, or a closed window, a spent
\* monthly limit, a missing postal address ("gate").
DSkipCampaign(d) ==
  /\ dpc[d] = "load"
  /\ campaign # "active" \/ ~UnderDailyLimit \/ "gate" \in Events
  /\ dpc' = [dpc EXCEPT ![d] = "release"]
  /\ UNCHANGED <<leadVars, dataVars, lock, scan, room, gone, todo, bind, batch,
                 dcur, jobVars, restVars, histVars>>

Unseeded == due                                 \* mutant: nobody is made due

\* next_send_at once the first-step leads that have none are seeded.
Seeded == [l \in Leads |-> IF status[l] = "active" /\ step[l] = 0 /\ due[l] = "none"
                           THEN "now" ELSE due[l]]

DueLeads == {l \in Leads : status[l] = "active" /\ Seeded[l] = "now"}

\* dueLeadsRaw: as many due leads as the limit leaves, the deepest steps first.
Selections(n) ==
  {S \in SUBSET DueLeads :
     /\ Cardinality(S) = Lesser(n, Cardinality(DueLeads))
     /\ \A l \in S, k \in DueLeads \ S : step[l] >= step[k]}

SuppressionIgnored(S) == {}                     \* mutant: status alone is trusted

\* suppressedEmails: "defense in depth" against rows the cascade missed.
SuppressedOf(S) == {l \in S : Suppressed(l)}

\* Seed the first steps, select the due rows; without any the tick ends here.
DSelect(d) ==
  /\ dpc[d] = "select"
  /\ due' = Seeded
  /\ \E S \in Selections(scan[d].left) :
       todo' = [todo EXCEPT ![d] =
          {[lead |-> l, step |-> step[l], sticky |-> sticky[l]] : l \in S}]
  /\ dpc' = [dpc EXCEPT ![d] = IF DueLeads # {} THEN "suppress" ELSE "release"]
  /\ scan' = [scan EXCEPT ![d].left = 0]
  /\ UNCHANGED <<status, step, sticky, reason, replied, dataVars, lock, room, gone, bind,
                 batch, dcur, jobVars, restVars, histVars>>

\* Cascade org-wide suppression onto the rows selected, by id.  With nobody left,
\* or no account with room, the tick goes on to no completion check either.
DSuppress(d) ==
  /\ dpc[d] = "suppress"
  /\ LET out  == SuppressedOf({t.lead : t \in todo[d]})
         rows == {t \in todo[d] : t.lead \notin out}
         goOn == rows # {} /\ \E a \in Accounts : room[d][a] > 0
     IN  /\ status' = [l \in Leads |-> IF l \in out THEN "unsubscribed" ELSE status[l]]
         /\ due' = [l \in Leads |-> IF l \in out THEN "none" ELSE due[l]]
         /\ todo' = [todo EXCEPT ![d] = IF goOn THEN rows ELSE {}]
         /\ dpc' = [dpc EXCEPT ![d] = IF goOn THEN "assign" ELSE "release"]
  /\ UNCHANGED <<step, sticky, reason, replied, dataVars, lock, scan, room, gone, bind,
                 batch, dcur, jobVars, restVars, histVars>>

\* The row the assignment loop is at: the order of the query.
AtRow(d, t) == /\ dpc[d] = "assign"
               /\ t \in todo[d]
               /\ \A u \in todo[d] : u.step <= t.step

Taken(d, rows) == todo' = [todo EXCEPT ![d] = @ \ rows]

ChosenByRoom(d, t) == {a \in Accounts : room[d][a] > 0}   \* mutant: not sticky

\* chosenAccount: the sticky mailbox if it has room, any with room for a first
\* send.  The choice among several (score, load) is left open.
Chosen(d, t) == {a \in Accounts : room[d][a] > 0 /\ t.sticky \in {NoAcct, a}}

Binding(d, t, a) ==
  bind' = IF t.sticky = NoAcct THEN [bind EXCEPT ![d][t.lead] = a] ELSE bind

\* The step tried after n hops, 0 once there is none, if every condition before it
\* fails; the walk stays at a step without one.
Tried(seq, start) ==
  LET at[n \in 0..(MaxHops - 1)] ==
        IF n = 0 THEN start
        ELSE IF at[n - 1] \in 1..seq.length THEN seq.detour[at[n - 1]] ELSE 0
  IN at

\* resolveDeliverableStep: where the walk may end.  Whether a condition holds is left
\* open: opens and clicks are counted at any time.
Deliverable(seq, start) ==
  {Tried(seq, start)[n] : n \in 0..(MaxHops - 1)} \cap 1..seq.length

\* It may also find nothing: a missing step, a condition with no branch, or ten of
\* them in a row.
NoneDeliverable(seq, start) ==
  LET k == Tried(seq, start)[MaxHops - 1] IN k \in 1..seq.length => seq.detour[k] # k

\* Put the lead's next email in the chosen mailbox's batch: the step after the last
\* one sent, or the one its branches lead to.
DPlace(d, t, a) ==
  /\ AtRow(d, t) /\ a \in Chosen(d, t)
  /\ \E s \in Deliverable(scan[d].sequence, t.step + 1) :
       /\ batch' = [batch EXCEPT ![d][a] =
             Append(@, [lead |-> t.lead, step |-> s, last |-> s = scan[d].sequence.length,
                        edition |-> scan[d].sequence.edition])]
       /\ passed' = passed \cup {<<t.lead, k>> : k \in (t.step + 1)..(s - 1)}
  /\ room' = [room EXCEPT ![d][a] = @ - 1]
  /\ Binding(d, t, a) /\ Taken(d, {t})
  /\ UNCHANGED <<leadVars, dataVars, lock, dpc, scan, gone, dcur, jobVars,
                 restVars, delivered, late>>

\* No deliverable step: the sequence ends here for the lead.
DFinishLead(d, t, a) ==
  /\ AtRow(d, t) /\ a \in Chosen(d, t) /\ NoneDeliverable(scan[d].sequence, t.step + 1)
  /\ Stop(t.lead, "completed", reason[t.lead])
  /\ Binding(d, t, a) /\ Taken(d, {t})
  /\ UNCHANGED <<step, sticky, replied, dataVars, lock, dpc, scan, room, gone,
                 batch, dcur, jobVars, restVars, histVars>>

\* The fail-closed blank-email guard.
DBlank(d, t, a) ==
  /\ "content" \in Events
  /\ AtRow(d, t) /\ a \in Chosen(d, t) /\ Deliverable(scan[d].sequence, t.step + 1) # {}
  /\ Stop(t.lead, "paused", "blank_content")
  /\ Binding(d, t, a) /\ Taken(d, {t})
  /\ UNCHANGED <<step, sticky, replied, dataVars, lock, dpc, scan, room, gone,
                 batch, dcur, jobVars, restVars, histVars>>

\* The sticky mailbox is permanently gone: pause every active lead bound to it,
\* once; its siblings of this tick are then passed over.
DLostMailbox(d, t) ==
  /\ AtRow(d, t) /\ Chosen(d, t) = {} /\ t.sticky \in gone[d]
  /\ LET hit == {l \in Leads : sticky[l] = t.sticky /\ status[l] = "active"}
     IN  /\ status' = [l \in Leads |-> IF l \in hit THEN "paused" ELSE status[l]]
         /\ reason' = [l \in Leads |-> IF l \in hit THEN "mailbox_lost" ELSE reason[l]]
         /\ due' = [l \in Leads |-> IF l \in hit THEN "none" ELSE due[l]]
  /\ Taken(d, {u \in todo[d] : u.sticky = t.sticky})
  /\ UNCHANGED <<step, sticky, replied, dataVars, lock, dpc, scan, room, gone, bind,
                 batch, dcur, jobVars, restVars, histVars>>

\* The sticky mailbox is busy or paused: retry in an hour, never reassign.
DWaitSticky(d, t) ==
  /\ AtRow(d, t) /\ Chosen(d, t) = {}
  /\ t.sticky # NoAcct /\ t.sticky \notin gone[d]
  /\ due' = [due EXCEPT ![t.lead] = "future"]
  /\ Taken(d, {t})
  /\ UNCHANGED <<status, step, sticky, reason, replied, dataVars, lock, dpc, scan,
                 room, gone, bind, batch, dcur, jobVars, restVars, histVars>>

\* All accounts at capacity for a first send: break out of the loop.
DFull(d, t) ==
  /\ AtRow(d, t) /\ Chosen(d, t) = {} /\ t.sticky = NoAcct
  /\ Taken(d, todo[d])
  /\ UNCHANGED <<leadVars, dataVars, lock, dpc, scan, room, gone, bind, batch, dcur,
                 jobVars, restVars, histVars>>

\* Persist the sticky bindings of the leads, whatever has become of their rows.
Persist(d, leads) ==
  /\ dpc[d] = "assign" /\ todo[d] = {}
  /\ sticky' = [l \in Leads |-> IF l \in leads THEN bind[d][l] ELSE sticky[l]]
  /\ bind' = [bind EXCEPT ![d] = NoBind]
  /\ dpc' = [dpc EXCEPT ![d] = "claim"]
  /\ UNCHANGED <<status, step, due, reason, replied, dataVars, lock, scan, room, gone,
                 todo, batch, dcur, jobVars, histVars>>

ToBind(d) == {l \in Leads : bind[d][l] # NoAcct}

DBind(d) == Persist(d, ToBind(d)) /\ UNCHANGED restVars

\* One of the updates fails: a warning, and the tick goes on without it.
DBindFails(d) ==
  \E l \in ToBind(d) : Persist(d, ToBind(d) \ {l}) /\ Strikes("db_error")

Unclaimed(ids) == due                           \* mutant: the missing claim


\* The claim: next_send_at of those still active goes past the batch's drain time.
Claimed(ids) ==
  [l \in Leads |-> IF l \in ids /\ status[l] = "active" THEN "future" ELSE due[l]]

DClaim(d, a) ==
  /\ dpc[d] = "claim" /\ batch[d][a] # <<>>
  /\ due' = Claimed({batch[d][a][p].lead : p \in DOMAIN batch[d][a]})
  /\ dcur' = [dcur EXCEPT ![d] = a]
  /\ dpc' = [dpc EXCEPT ![d] = "enqueue"]
  /\ UNCHANGED <<status, step, sticky, reason, replied, dataVars, lock, scan, room,
                 gone, todo, bind, batch, jobVars, restVars, histVars>>

\* Enqueue it, with the emails of the leads it could not claim.
DEnqueue(d, j) ==
  /\ dpc[d] = "enqueue" /\ jpc[j] = "free"
  /\ jpc' = [jpc EXCEPT ![j] = "queued"]
  /\ jacct' = [jacct EXCEPT ![j] = dcur[d]]
  /\ jmail' = [jmail EXCEPT ![j] = batch[d][dcur[d]]]
  /\ batch' = [batch EXCEPT ![d][dcur[d]] = <<>>]
  /\ dcur' = [dcur EXCEPT ![d] = NoAcct]
  /\ dpc' = [dpc EXCEPT ![d] = "claim"]
  /\ UNCHANGED <<leadVars, dataVars, lock, scan, room, gone, todo, bind, jpos, jtries,
                 restVars, histVars>>

\* Count the active leads once every batch is enqueued.
DCount(d) ==
  /\ dpc[d] = "claim" /\ batch[d] = NoBatch
  /\ dpc' = [dpc EXCEPT ![d] =
        IF \E l \in Leads : status[l] = "active" THEN "release" ELSE "complete"]
  /\ UNCHANGED <<leadVars, dataVars, lock, scan, room, gone, todo, bind, batch, dcur,
                 jobVars, restVars, histVars>>

\* None was active: the campaign is completed, whatever it is by now.
DComplete(d) ==
  /\ dpc[d] = "complete"
  /\ campaign' = "completed"
  /\ dpc' = [dpc EXCEPT ![d] = "release"]
  /\ UNCHANGED <<leadVars, orgStatus, sequence, mbox, sendEvent, usage, lock, scan, room,
                 gone, todo, bind, batch, dcur, jobVars, restVars, histVars>>

\* What a dispatch() holds in memory is gone when it returns or dies.
Forget(d) ==
  /\ dpc' = [dpc EXCEPT ![d] = "idle"]
  /\ scan' = [scan EXCEPT ![d] = NoScan]
  /\ room' = [room EXCEPT ![d] = NoRoom]
  /\ gone' = [gone EXCEPT ![d] = {}]
  /\ todo' = [todo EXCEPT ![d] = {}]
  /\ bind' = [bind EXCEPT ![d] = NoBind]
  /\ batch' = [batch EXCEPT ![d] = NoBatch]
  /\ dcur' = [dcur EXCEPT ![d] = NoAcct]

\* finally: DEL of the key, whoever set it.
DRelease(d) ==
  /\ dpc[d] = "release"
  /\ lock' = FALSE
  /\ Forget(d)
  /\ UNCHANGED <<leadVars, dataVars, jobVars, restVars, histVars>>

\* The process dies inside dispatch(); the key stays until its TTL.
DCrash(d) ==
  /\ Strikes("crash") /\ ~Idle(d)
  /\ Forget(d)
  /\ UNCHANGED <<leadVars, dataVars, lock, jobVars, histVars>>

\* DISPATCH_LOCK_TTL_SECONDS pass.  A dispatch can outlive them ("lock_expiry").
LockExpire ==
  /\ lock
  /\ (\A d \in Dispatchers : Idle(d)) \/ "lock_expiry" \in Events
  /\ lock' = FALSE
  /\ UNCHANGED <<leadVars, dataVars, dispVars, jobVars, restVars, histVars>>

\* A next_send_at passes.  A claim covers the batch's worst-case drain time, so
\* that of a lead still carried passes only if the batch is late ("late").
BecomeDue(l) ==
  /\ due[l] = "future"
  /\ "late" \in Events \/ ~(InTodo(l) \/ InBatch(l) \/ InJob(l))
  /\ due' = [due EXCEPT ![l] = "now"]
  /\ UNCHANGED <<status, step, sticky, reason, replied, dataVars, lock, dispVars,
                 jobVars, restVars, histVars>>

\* An awaited call throws: the campaign is given up for this tick.
DAbort(d) ==
  /\ Strikes("db_error") /\ dpc[d] \notin {"idle", "release"}
  /\ dpc' = [dpc EXCEPT ![d] = "release"]
  /\ UNCHANGED <<leadVars, dataVars, lock, scan, room, gone, todo, bind, batch, dcur,
                 jobVars, histVars>>

Dispatch(d) ==
  \/ DAcquire(d) \/ DLoad(d) \/ DSkipCampaign(d) \/ DSelect(d) \/ DSuppress(d)
  \/ \E t \in todo[d], a \in Accounts :
       DPlace(d, t, a) \/ DFinishLead(d, t, a) \/ DBlank(d, t, a)
  \/ \E t \in todo[d] : DLostMailbox(d, t) \/ DWaitSticky(d, t) \/ DFull(d, t)
  \/ DBind(d)
  \/ \E a \in Accounts : DClaim(d, a)
  \/ \E j \in Slots : DEnqueue(d, j)
  \/ DCount(d) \/ DComplete(d) \/ DRelease(d)

-----------------------------------------------------------------------------
(* processBatchJob()                                                       *)

Busy == Cardinality({j \in Slots : jpc[j] \in Running})

FreeSlot(j) ==
  /\ jpc' = [jpc EXCEPT ![j] = "free"]
  /\ jacct' = [jacct EXCEPT ![j] = NoAcct]
  /\ jmail' = [jmail EXCEPT ![j] = <<>>]
  /\ jpos' = [jpos EXCEPT ![j] = 1]
  /\ jtries' = [jtries EXCEPT ![j] = 0]

PastTheBatch(j) ==                              \* mutant: <= for <
  IF jpos[j] <= Len(jmail[j])
  THEN /\ jpos' = [jpos EXCEPT ![j] = @ + 1]
       /\ jpc' = [jpc EXCEPT ![j] = "gate"]
       /\ UNCHANGED <<jacct, jmail, jtries>>
  ELSE FreeSlot(j)

\* On to the next email of the batch, after the send gap.
NextEmail(j) ==
  IF jpos[j] < Len(jmail[j])
  THEN /\ jpos' = [jpos EXCEPT ![j] = @ + 1]
       /\ jpc' = [jpc EXCEPT ![j] = "gate"]
       /\ UNCHANGED <<jacct, jmail, jtries>>
  ELSE FreeSlot(j)

Goto(j, pc) == /\ jpc' = [jpc EXCEPT ![j] = pc]
               /\ UNCHANGED <<jacct, jmail, jpos, jtries>>

At(j, pc) == jpc[j] = pc

\* A worker takes the job up; the mailbox may be sent from, detached or not.
JStart(j) ==
  /\ At(j, "queued") /\ Busy < Concurrency
  /\ mbox[jacct[j]] \in {"ready", "detached"}
  /\ Goto(j, "gate")
  /\ UNCHANGED <<leadVars, dataVars, lock, dispVars, restVars, histVars>>

\* The mailbox is paused, or deleted and cannot be provisioned: the batch is dropped.
JSkipBatch(j) ==
  /\ At(j, "queued") /\ Busy < Concurrency
  /\ mbox[jacct[j]] \in {"paused", "deleted"}
  /\ FreeSlot(j)
  /\ UNCHANGED <<leadVars, dataVars, lock, dispVars, restVars, histVars>>

\* Provisioning the mailbox fails, and the batch is dropped too.
JProvisionFails(j) ==
  /\ Strikes("db_error")
  /\ At(j, "queued") /\ Busy < Concurrency
  /\ FreeSlot(j)
  /\ UNCHANGED <<leadVars, dataVars, lock, dispVars, histVars>>

\* The re-render comes out blank.  It reads the step by the id the dispatcher saw:
\* a replaced sequence has new ids, and the enqueued content is used instead.
JBlank(j) ==
  /\ "content" \in Events
  /\ At(j, "gate") /\ Cur(j).edition = sequence.edition
  /\ Stop(Cur(j).lead, "paused", "blank_content")
  /\ NextEmail(j)
  /\ UNCHANGED <<step, sticky, replied, dataVars, lock, dispVars, restVars, histVars>>

\* The body lost its unsubscribe link: not sent, and nothing is written.
JNonCompliant(j) ==
  /\ "content" \in Events
  /\ At(j, "gate")
  /\ NextEmail(j)
  /\ UNCHANGED <<leadVars, dataVars, lock, dispVars, restVars, histVars>>

\* canSendNow defers: mailbox paused, daily limit, or window, infrastructure,
\* recovery caps and the yellow window ("gate").
JDefer(j) ==
  /\ At(j, "gate")
  /\ \/ mbox[jacct[j]] = "paused"
     \/ ~UnderDailyLimit
     \/ "gate" \in Events
  /\ due' = [due EXCEPT ![Cur(j).lead] = "future"]
  /\ NextEmail(j)
  /\ UNCHANGED <<status, step, sticky, reason, replied, dataVars, lock, dispVars,
                 restVars, histVars>>

\* canSendNow refuses for good: the complaint rate or the yellow step limit.  The
\* pause gives no reason of its own.
JBlock(j) ==
  /\ "gate" \in Events
  /\ At(j, "gate")
  /\ Stop(Cur(j).lead, "paused", reason[Cur(j).lead])
  /\ NextEmail(j)
  /\ UNCHANGED <<step, sticky, replied, dataVars, lock, dispVars, restVars, histVars>>

\* canSendNow allows the send; it reads neither CampaignLead nor Campaign.status, and
\* the mailbox row of a deleted account stays, marked "disconnected".
JPass(j) ==
  /\ At(j, "gate")
  /\ mbox[jacct[j]] # "paused" /\ UnderDailyLimit
  /\ Goto(j, "dedupe")
  /\ UNCHANGED <<leadVars, dataVars, lock, dispVars, restVars, histVars>>

\* priorSend: has this step of this lead been recorded already?
JDedupe(j) ==
  /\ At(j, "dedupe")
  /\ Goto(j, IF Recorded(Key(Cur(j))) THEN "advance" ELSE "send")
  /\ UNCHANGED <<leadVars, dataVars, lock, dispVars, restVars, histVars>>

\* What a delivered email makes of its row.
Advanced(e) ==
  /\ step' = [step EXCEPT ![e.lead] = e.step]
  /\ due' = [due EXCEPT ![e.lead] = IF e.last THEN "none" ELSE "future"]
  /\ status' = [status EXCEPT ![e.lead] = IF e.last THEN "completed" ELSE "active"]

AdvanceUnguarded(e) == Advanced(e)              \* mutant: update by id alone
AdvanceTooFar(e) ==                             \* mutant: the step after it
  IF status[e.lead] = "active"
  THEN Advanced([e EXCEPT !.step = Lesser(@ + 1, NumSteps)])
  ELSE UNCHANGED <<step, due, status>>

\* Both updates of the row after a delivery are guarded on status = 'active'.
AdvanceLead(e) ==
  IF status[e.lead] = "active" THEN Advanced(e) ELSE UNCHANGED <<step, due, status>>

JAdvance(j) ==
  /\ At(j, "advance")
  /\ AdvanceLead(Cur(j))
  /\ NextEmail(j)
  /\ UNCHANGED <<sticky, reason, replied, dataVars, lock, dispVars, restVars, histVars>>

\* Follow-up with no subject to inherit.
JBlankSubject(j) ==
  /\ "content" \in Events
  /\ At(j, "send")
  /\ Stop(Cur(j).lead, "paused", "blank_content")
  /\ NextEmail(j)
  /\ UNCHANGED <<step, sticky, replied, dataVars, lock, dispVars, restVars, histVars>>

\* sendEmail succeeds: the mail is out.
JSendOk(j) ==
  /\ At(j, "send")
  /\ LET e == Cur(j) IN
     /\ delivered' = [delivered EXCEPT ![Key(e)] = Lesser(@ + 1, 2)]
     /\ late' = [late EXCEPT ![e.lead] =
                   IF Mailable(e.lead) THEN @ ELSE Lesser(@ + 1, 2)]
  /\ Goto(j, "record")
  /\ UNCHANGED <<leadVars, dataVars, lock, dispVars, restVars, passed>>

\* sendEmail fails softly, or for a reason that is no bounce: counters only.
JSendSoft(j) ==
  /\ "smtp" \in Events
  /\ At(j, "send")
  /\ NextEmail(j)
  /\ UNCHANGED <<leadVars, dataVars, lock, dispVars, restVars, histVars>>

\* sendEmail fails hard: processBounce asks transitionLead to pause the Lead row,
\* which reads its status and finds the transition legal or not.
JSendHard(j) ==
  /\ "smtp" \in Events
  /\ At(j, "send")
  /\ IF orgStatus[Cur(j).lead] = "ok" THEN Goto(j, "bounce") ELSE NextEmail(j)
  /\ UNCHANGED <<leadVars, dataVars, lock, dispVars, restVars, histVars>>

\* executeTransition writes the new status, whatever it has become.
JBounce(j) ==
  /\ At(j, "bounce")
  /\ orgStatus' = [orgStatus EXCEPT ![Cur(j).lead] = "paused"]
  /\ NextEmail(j)
  /\ UNCHANGED <<leadVars, campaign, sequence, mbox, sendEvent, usage, lock, dispVars,
                 restVars, histVars>>

\* The transaction of SendEvent, lead and counters.  sends_today is kept up to
\* one past the limit, which is as much as the model tells apart.
JRecord(j) ==
  /\ At(j, "record") /\ ~Recorded(Key(Cur(j))) /\ mbox[jacct[j]] # "deleted"
  /\ sendEvent' = [sendEvent EXCEPT ![Key(Cur(j))] = jacct[j]]
  /\ AdvanceLead(Cur(j))
  /\ usage' = [usage EXCEPT ![jacct[j]] = Lesser(@ + 1, MailboxLimit + 1)]
  /\ NextEmail(j)
  /\ UNCHANGED <<sticky, reason, replied, orgStatus, campaign, sequence, mbox, lock,
                 dispVars, restVars, histVars>>

\* It fails on the unique key, or on the counters of a deleted account: nothing of
\* it is written, and the catch goes on with the next email.
JRollback(j) ==
  /\ At(j, "record") /\ (Recorded(Key(Cur(j))) \/ mbox[jacct[j]] = "deleted")
  /\ NextEmail(j)
  /\ UNCHANGED <<leadVars, dataVars, lock, dispVars, restVars, histVars>>

\* An awaited call throws, perhaps with the mail gone out: on with the next email.
JFails(j) ==
  /\ Strikes("db_error") /\ jpc[j] \in Running
  /\ NextEmail(j)
  /\ UNCHANGED <<leadVars, dataVars, lock, dispVars, histVars>>

\* The worker dies: BullMQ runs the whole job again, or drops it for good.
JCrash(j) ==
  /\ Strikes("crash") /\ jpc[j] \in Running
  /\ IF jtries[j] < MaxRetries
     THEN /\ jpc' = [jpc EXCEPT ![j] = "queued"]
          /\ jpos' = [jpos EXCEPT ![j] = 1]
          /\ jtries' = [jtries EXCEPT ![j] = @ + 1]
          /\ UNCHANGED <<jacct, jmail>>
     ELSE FreeSlot(j)
  /\ UNCHANGED <<leadVars, dataVars, lock, dispVars, histVars>>

\* The job's lock lapses under a live worker: a second one starts it over.
JStall(j, k) ==
  /\ Strikes("stall")
  /\ jpc[j] \in Running /\ jtries[j] < MaxRetries /\ jpc[k] = "free"
  /\ jpc' = [jpc EXCEPT ![k] = "queued"]
  /\ jacct' = [jacct EXCEPT ![k] = jacct[j]]
  /\ jmail' = [jmail EXCEPT ![k] = jmail[j]]
  /\ jtries' = [jtries EXCEPT ![j] = @ + 1, ![k] = jtries[j] + 1]
  /\ UNCHANGED <<leadVars, dataVars, lock, dispVars, jpos, histVars>>

Work(j) ==
  \/ JStart(j) \/ JSkipBatch(j)
  \/ JBlank(j) \/ JNonCompliant(j) \/ JDefer(j) \/ JBlock(j) \/ JPass(j)
  \/ JDedupe(j) \/ JAdvance(j)
  \/ JBlankSubject(j) \/ JSendOk(j) \/ JSendSoft(j) \/ JSendHard(j) \/ JBounce(j)
  \/ JRecord(j) \/ JRollback(j)

-----------------------------------------------------------------------------
(* Recipients                                                              *)

\* processReply: the row is read, then written: a completion in between is lost.
Reply(l) ==
  /\ "reply" \in Events /\ status[l] # "absent"
  /\ \E s \in {"replied"} \cup (IF status[l] = "completed" THEN {"completed"} ELSE {}) :
       status' = [status EXCEPT ![l] = s]
  /\ replied' = [replied EXCEPT ![l] = TRUE]
  /\ due' = [due EXCEPT ![l] = "none"]
  /\ UNCHANGED <<step, sticky, reason, dataVars, lock, dispVars, jobVars, restVars,
                 histVars>>

\* A reply rule pauses the lead.
PauseLead(l) ==
  /\ "reply" \in Events /\ replied[l] /\ status[l] \in {"active", "completed"}
  /\ Stop(l, "paused", reason[l])
  /\ UNCHANGED <<step, sticky, replied, dataVars, lock, dispVars, jobVars, restVars,
                 histVars>>

\* The unsubscribe link, of this campaign or of another of the organization.
Unsubscribe(l) ==
  /\ "unsubscribe" \in Events
  /\ orgStatus' = [orgStatus EXCEPT ![l] = "unsubscribed"]
  /\ status' = [status EXCEPT ![l] = IF @ = "absent" THEN @ ELSE "unsubscribed"]
  /\ UNCHANGED <<step, due, sticky, reason, replied, campaign, sequence, mbox, sendEvent,
                 usage, lock, dispVars, jobVars, restVars, histVars>>

\* A permanent DSN: recordBounce marks the Lead row and stops the active and
\* paused CampaignLeads, unless the mailbox was in recovery; the caller then marks
\* its CampaignLead whatever its status.
AsyncBounce(l) ==
  /\ "dsn" \in Events /\ status[l] # "absent"
  /\ \E recovering \in BOOLEAN :
       /\ orgStatus' = [orgStatus EXCEPT ![l] = IF recovering THEN @ ELSE "bounced"]
       /\ due' = [due EXCEPT ![l] = IF ~recovering /\ status[l] \in {"active", "paused"}
                                    THEN "none" ELSE @]
  /\ status' = [status EXCEPT ![l] = "bounced"]
  /\ UNCHANGED <<step, sticky, reason, replied, campaign, sequence, mbox, sendEvent, usage,
                 lock, dispVars, jobVars, restVars, histVars>>

-----------------------------------------------------------------------------
(* Operators, protection and enrollment                                    *)

SetMailbox(a, from, to, kind) ==
  /\ kind \in Events /\ mbox[a] = from
  /\ mbox' = [mbox EXCEPT ![a] = to]
  /\ UNCHANGED <<leadVars, orgStatus, campaign, sequence, sendEvent, usage, lock, dispVars,
                 jobVars, restVars, histVars>>

PauseMailbox(a)   == SetMailbox(a, "ready", "paused", "mailbox")
RecoverMailbox(a) == SetMailbox(a, "paused", "ready", "mailbox")
\* updateCampaign replaces the campaign's accounts; deleteAccount drops the account.
DetachMailbox(a)  == SetMailbox(a, "ready", "detached", "lost")
AttachMailbox(a)  == SetMailbox(a, "detached", "ready", "reconnect")
DeleteMailbox(a)  == \E from \in {"ready", "paused", "detached"} :
                      SetMailbox(a, from, "deleted", "delete")

SetCampaign(from, to) ==
  /\ "campaign" \in Events /\ campaign \in from
  /\ campaign' = to
  /\ UNCHANGED <<status, step, sticky, reason, replied, orgStatus, sequence, mbox, sendEvent,
                 usage, lock, dispVars, jobVars, restVars, histVars>>

PauseCampaign  == SetCampaign({"active"}, "paused") /\ UNCHANGED due
ResumeCampaign == SetCampaign({"paused"}, "active") /\ UNCHANGED due
\* (the sequencer's endpoint seeds first steps, the v1 API leaves it to the tick)
LaunchCampaign == /\ SetCampaign({"paused", "completed"}, "active")
                  /\ due' \in {due, Seeded}

\* updateCampaign replaces the steps: new rows, perhaps more or fewer of them, and
\* written without a condition or a branch.
EditSequence ==
  /\ "edit" \in Events /\ campaign # "completed" /\ sequence.edition < MaxEdits
  /\ \E n \in Steps : sequence' = [length |-> n, detour |-> Linear,
                                   edition |-> sequence.edition + 1]
  /\ UNCHANGED <<leadVars, orgStatus, campaign, mbox, sendEvent, usage, lock, dispVars,
                 jobVars, restVars, histVars>>

\* Leads a lost-mailbox decision applies to.
Stranded(a) == {l \in Leads : /\ sticky[l] = a
                              /\ status[l] = "paused" /\ reason[l] = "mailbox_lost"}

\* stop_at_current_step
ResolveStop(a) ==
  /\ "resolve" \in Events /\ Stranded(a) # {}
  /\ status' = [l \in Leads |-> IF l \in Stranded(a) THEN "completed" ELSE status[l]]
  /\ reason' = [l \in Leads |-> IF l \in Stranded(a) THEN "none" ELSE reason[l]]
  /\ due' = [l \in Leads |-> IF l \in Stranded(a) THEN "none" ELSE due[l]]
  /\ UNCHANGED <<step, sticky, replied, dataVars, lock, dispVars, jobVars, restVars, histVars>>

\* What both the other decisions write on the rows ids.
Reactivate(ids) ==
  /\ status' = [l \in Leads |-> IF l \in ids THEN "active" ELSE status[l]]
  /\ reason' = [l \in Leads |-> IF l \in ids THEN "none" ELSE reason[l]]
  /\ sticky' = [l \in Leads |-> IF l \in ids THEN NoAcct ELSE sticky[l]]
  /\ due' = [l \in Leads |-> IF l \in ids THEN "now" ELSE due[l]]

\* continue_new_mailbox
ResolveContinue(a) ==
  /\ "resolve" \in Events /\ Stranded(a) # {}
  /\ Reactivate(Stranded(a))
  /\ UNCHANGED <<step, replied, dataVars, lock, dispVars, jobVars, restVars, histVars>>

\* restart_new_mailbox reads the ids ...
RestartRead(a) ==
  /\ "restart" \in Events /\ restarting = {} /\ Stranded(a) # {}
  /\ restarting' = Stranded(a)
  /\ UNCHANGED <<leadVars, dataVars, lock, dispVars, jobVars, enrolling, faults, histVars>>

\* ... and, in a transaction, drops their SendEvents and restarts them by id.  The
\* count of deliveries starts over: the second ones are authorized.
RestartWrite ==
  /\ restarting # {}
  /\ Reactivate(restarting)
  /\ step' = [l \in Leads |-> IF l \in restarting THEN 0 ELSE step[l]]
  /\ sendEvent' = [m \in Mail |-> IF m[1] \in restarting THEN NoAcct ELSE sendEvent[m]]
  /\ delivered' = [m \in Mail |-> IF m[1] \in restarting THEN 0 ELSE delivered[m]]
  /\ passed' = {m \in passed : m[1] \notin restarting}
  /\ restarting' = {}
  /\ UNCHANGED <<replied, orgStatus, campaign, sequence, mbox, usage, lock, dispVars,
                 jobVars, enrolling, faults, late>>

\* enrollLead refuses a suppressed recipient ...
EnrollCheck(l) ==
  /\ "enroll" \in Events /\ status[l] = "absent" /\ l \notin enrolling
  /\ ~Suppressed(l)
  /\ enrolling' = enrolling \cup {l}
  /\ UNCHANGED <<leadVars, dataVars, lock, dispVars, jobVars, restarting, faults,
                 histVars>>

\* ... and inserts the row; adding it through updateCampaign seeds it as well.
EnrollCreate(l) ==
  /\ l \in enrolling
  /\ enrolling' = enrolling \ {l}
  /\ status' = [status EXCEPT ![l] = "active"]
  /\ \E at \in {"none", "now"} : due' = [due EXCEPT ![l] = at]
  /\ UNCHANGED <<step, sticky, reason, replied, dataVars, lock, dispVars, jobVars, restarting,
                 faults, histVars>>

Environment ==
  \/ \E l \in Leads : Reply(l) \/ PauseLead(l) \/ Unsubscribe(l) \/ AsyncBounce(l)
  \/ \E a \in Accounts :
       \/ PauseMailbox(a) \/ RecoverMailbox(a)
       \/ DetachMailbox(a) \/ AttachMailbox(a) \/ DeleteMailbox(a)
       \/ ResolveStop(a) \/ ResolveContinue(a) \/ RestartRead(a)
  \/ RestartWrite
  \/ PauseCampaign \/ ResumeCampaign \/ LaunchCampaign \/ EditSequence
  \/ \E l \in Leads : EnrollCheck(l) \/ EnrollCreate(l)

Fault ==
  \/ \E d \in Dispatchers : DCrash(d) \/ DAbort(d) \/ DBindFails(d)
  \/ \E j \in Slots : JCrash(j) \/ JProvisionFails(j) \/ JFails(j)
  \/ \E j, k \in Slots : JStall(j, k)

Next ==
  \/ \E d \in Dispatchers : Dispatch(d)
  \/ \E j \in Slots : Work(j)
  \/ LockExpire \/ (\E l \in Leads : BecomeDue(l))
  \/ Environment \/ Fault

Spec == Init /\ [][Next]_vars

\* setInterval runs dispatch() again and again, BullMQ keeps taking jobs up and
\* every awaited call returns; clocks advance.
Fairness ==
  /\ \A d \in Dispatchers : WF_vars(Dispatch(d))
  /\ \A j \in Slots : WF_vars(Work(j))
  /\ \A l \in Leads : WF_vars(BecomeDue(l))
  /\ WF_vars(LockExpire)

FairSpec == Spec /\ Fairness

-----------------------------------------------------------------------------
(* Properties                                                              *)

LeadTypeOK ==
  /\ status \in [Leads -> Statuses]
  /\ step \in [Leads -> 0..NumSteps]
  /\ due \in [Leads -> {"none", "future", "now"}]
  /\ sticky \in [Leads -> Accounts \cup {NoAcct}]
  /\ reason \in [Leads -> {"none", "mailbox_lost", "blank_content"}]
  /\ replied \in [Leads -> BOOLEAN]

DataTypeOK ==
  /\ orgStatus \in [Leads -> {"ok", "unsubscribed", "bounced", "paused"}]
  /\ campaign \in {"active", "paused", "completed"}
  /\ sequence \in Sequence
  /\ mbox \in [Accounts -> {"ready", "paused", "detached", "deleted"}]
  /\ sendEvent \in [Mail -> Accounts \cup {NoAcct}]
  /\ usage \in [Accounts -> 0..(MailboxLimit + 1)]
  /\ lock \in BOOLEAN

\* A batch that is claimed and not yet enqueued has an account and an email.
DispatchTypeOK ==
  /\ dpc \in [Dispatchers -> {"idle", "load", "select", "suppress", "assign",
                              "claim", "enqueue", "complete", "release"}]
  /\ scan \in [Dispatchers -> [left : 0..CampaignLimit, sequence : Sequence]]
  /\ room \in [Dispatchers -> [Accounts -> 0..MailboxLimit]]
  /\ gone \in [Dispatchers -> SUBSET Accounts]
  /\ todo \in [Dispatchers -> SUBSET Snapshot]
  /\ bind \in [Dispatchers -> [Leads -> Accounts \cup {NoAcct}]]
  /\ batch \in [Dispatchers -> [Accounts -> Seq(Email)]]
  /\ dcur \in [Dispatchers -> Accounts \cup {NoAcct}]
  /\ \A d \in Dispatchers : dpc[d] = "enqueue" =>
       dcur[d] # NoAcct /\ batch[d][dcur[d]] # <<>>

\* A job that exists has an account, and is at one of its emails.
JobTypeOK ==
  /\ jpc \in [Slots -> {"free", "queued"} \cup Running]
  /\ jacct \in [Slots -> Accounts \cup {NoAcct}]
  /\ jmail \in [Slots -> Seq(Email)]
  /\ jpos \in [Slots -> Nat \ {0}]
  /\ jtries \in [Slots -> 0..MaxRetries]
  /\ \A j \in Slots : IF jpc[j] = "free" THEN jpos[j] = 1 /\ jtries[j] = 0
                       ELSE jpos[j] <= Len(jmail[j]) /\ jacct[j] # NoAcct

RestTypeOK ==
  /\ restarting \subseteq Leads
  /\ enrolling \subseteq Leads
  /\ faults \in 0..MaxFaults
  /\ delivered \in [Mail -> 0..2]
  /\ late \in [Leads -> 0..2]
  /\ passed \subseteq Mail

\* Every variable keeps the shape its column, key or payload has, and a position in
\* a batch, a batch under claim or a running job points at something.
TypeOK == LeadTypeOK /\ DataTypeOK /\ DispatchTypeOK /\ JobTypeOK /\ RestTypeOK

\* The dispatch lock: of all the dispatch() invocations, one at most is past
\* acquireLock ("Skip this tick entirely if a prior dispatch is still running").
DispatchMutex == \A d, e \in Dispatchers : ~Idle(d) /\ ~Idle(e) => d = e

\* Where an email for the lead is: rows to assign, batches, jobs.
Places(l) ==
  (UNION {{<<d, t>> : t \in {u \in todo[d] : u.lead = l}} : d \in Dispatchers})
  \cup (UNION {{<<d, a, p>> : p \in {q \in DOMAIN batch[d][a] : batch[d][a][q].lead = l}} :
                  d \in Dispatchers, a \in Accounts})
  \cup (UNION {{<<j, p>> : p \in {q \in jpos[j]..Len(jmail[j]) : jmail[j][q].lead = l}} :
                  j \in Slots})

\* The claim: while an email for a lead waits somewhere between selection and its
\* record, no second one is in the making.  Ticks that selected the same lead again
\* "while their batch was still draining" mass-duplicated sends.
CarriedOnce == \A l \in Leads : \A x, y \in Places(l) : x = y

\* A step reaches a lead at most once (the comment at SendEvent: "a given step is
\* delivered to a given lead at most once, even if two writers interleave").
AtMostOnceDelivery == \A m \in Mail : delivered[m] <= 1

\* A step the lead has had, or was led past when its condition failed.
HadOrPassed(m) == Recorded(m) \/ m \in passed

\* No step is lost: each one up to current_step, and each one before a recorded step,
\* is recorded itself or was passed over for a condition that failed.
NoStepSkipped ==
  /\ \A l \in Leads : \A s \in 1..step[l] : HadOrPassed(<<l, s>>)
  /\ \A m \in Mail : Recorded(m) => \A s \in 1..(m[2] - 1) : HadOrPassed(<<m[1], s>>)

\* "Every lead is pinned to ONE mailbox for the entire sequence."
SingleSender == \A l \in Leads : \A s, t \in Steps :
  Recorded(<<l, s>>) /\ Recorded(<<l, t>>) => sendEvent[<<l, s>>] = sendEvent[<<l, t>>]

\* A reply ends the sequence for good: the guards on status = 'active' keep every
\* write that was under way from resurrecting the lead.
ReplyEndsSequence == \A l \in Leads : replied[l] => status[l] # "active"

\* A recipient who replied, opted out or bounced gets at most the one email that
\* was already under way.
AtMostOneLateSend == \A l \in Leads : late[l] <= 1

\* Emails past the gate and not recorded.
UnderWay == {j \in Slots : jpc[j] \in {"dedupe", "send", "bounce", "record"}}

\* The gate counts records, so emails under way in other workers escape it; the
\* day's total passes daily_limit by at most the number of other workers.
CapOvershootBounded == SentToday + Cardinality(UnderWay) <= CampaignLimit + Concurrency - 1

\* "If the batch is lost ... the lead naturally becomes due again after the window and
\* is retried - self-healing, no stuck rows": no lead stays active for ever.
EverySettles == \A l \in Leads : status[l] = "active" ~> status[l] # "active"

=============================================================================
