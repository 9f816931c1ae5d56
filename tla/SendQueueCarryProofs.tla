----------------------- MODULE SendQueueCarryProofs -----------------------
(***************************************************************************)
(* Proofs about what SendQueue carries: an email for a lead is in one      *)
(* place at most, whoever gets one late gets no other, a step is delivered *)
(* once, and all the steps of a lead leave from one mailbox.               *)
(***************************************************************************)
EXTENDS SendQueueProofs

\* The claim keeps a lead booked for as long as its batch takes: no batch is late, no
\* tick outlives its lock, and no lead is put back by hand.
Timely == {"late", "lock_expiry", "resolve", "restart"} \cap Events = {}

\* No job is run a second time.
RunsOnce == MaxRetries = 0 \/ {"crash", "stall"} \cap Events = {}

\* The emails a job has not passed yet.
Ahead(j) == jpos[j]..Len(jmail[j])

OnTheWay(l) == \E j \in Slots : \E p \in Ahead(j) : jmail[j][p].lead = l

-----------------------------------------------------------------------------
(* The invariants                                                          *)

\* A dispatch holds no row before it selects, nor an email before it assigns.
Fresh == \A d \in Dispatchers :
  /\ dpc[d] \in {"idle", "load", "select"} => todo[d] = {}
  /\ dpc[d] \in {"idle", "load", "select", "suppress"} =>
       batch[d] = NoBatch /\ bind[d] = NoBind

Emptied == \A j \in Slots : jpc[j] = "free" => jmail[j] = <<>>

\* A lead whose email is claimed or queued is not due: a tick cannot select it.
NotDue(l) == status[l] = "active" => due[l] = "future"

Booked ==
  /\ \A j \in Slots : \A p \in Ahead(j) : NotDue(jmail[j][p].lead)
  /\ \A d \in Dispatchers : dpc[d] = "enqueue" =>
       \A p \in DOMAIN batch[d][dcur[d]] : NotDue(batch[d][dcur[d]][p].lead)

\* One row of a lead, one email of it in the batches, one in the jobs ...
OneRow == \A d, e \in Dispatchers : \A t \in todo[d], u \in todo[e] :
  t.lead = u.lead => d = e /\ t = u

OneMail == \A d, e \in Dispatchers, a, b \in Accounts :
  \A p \in DOMAIN batch[d][a], q \in DOMAIN batch[e][b] :
    batch[d][a][p].lead = batch[e][b][q].lead => d = e /\ a = b /\ p = q

OneJob == \A j, k \in Slots : \A p \in Ahead(j), q \in Ahead(k) :
  jmail[j][p].lead = jmail[k][q].lead => j = k /\ p = q

\* ... and never two of the three.
Apart == \A l \in Leads :
  /\ ~(InTodo(l) /\ InBatch(l))
  /\ ~(InTodo(l) /\ OnTheWay(l))
  /\ ~(InBatch(l) /\ OnTheWay(l))

Sole == OneRow /\ OneMail /\ OneJob /\ Apart

CarryInv == /\ LockInv /\ ReplyInv
            /\ Fresh /\ Emptied /\ Booked /\ Sole

\* Once its row has passed the suppression check, a lead that opts out or bounces is
\* no longer active.
Heeds(l) == Suppressed(l) => status[l] # "active"

Warned ==
  /\ \A d \in Dispatchers : dpc[d] = "assign" => \A t \in todo[d] : Heeds(t.lead)
  /\ \A l \in Leads : InBatch(l) \/ OnTheWay(l) => Heeds(l)

\* A lead that got its late email is out of the sequence, and that email is all that
\* is left of it.
LateLast == \A l \in Leads : late[l] # 0 =>
  /\ late[l] = 1
  /\ status[l] \notin {"active", "absent"}
  /\ ~InTodo(l) /\ ~InBatch(l)
  /\ \A j \in Slots : \A p \in Ahead(j) :
       jmail[j][p].lead = l => p = jpos[j] /\ jpc[j] = "record"

LateInv == CarryInv /\ Warned /\ LateLast

\* What a dispatch read and noted of a lead's mailbox is true until it is written.
InHand(d, l, a) == sticky[l] = a \/ (sticky[l] = NoAcct /\ bind[d][l] = a)

Bound(d) ==
  /\ \A t, u \in todo[d] : t.lead = u.lead => t = u
  /\ dpc[d] \in {"suppress", "assign"} => \A t \in todo[d] :
       t.sticky = sticky[t.lead] /\ bind[d][t.lead] = NoAcct
  /\ dpc[d] = "assign" =>
       /\ \A l \in Leads : bind[d][l] # NoAcct => sticky[l] = NoAcct
       /\ \A a \in Accounts : \A p \in DOMAIN batch[d][a] : InHand(d, batch[d][a][p].lead, a)

\* From the claim on, an email is in the hands of its lead's mailbox.
Addressed(d) == dpc[d] \in {"claim", "enqueue"} =>
  \A a \in Accounts : \A p \in DOMAIN batch[d][a] : sticky[batch[d][a][p].lead] = a

Held(j) == jpc[j] # "free" => \A p \in DOMAIN jmail[j] : sticky[jmail[j][p].lead] = jacct[j]

Pinned ==
  /\ \A d \in Dispatchers : Bound(d) /\ Addressed(d)
  /\ \A j \in Slots : Held(j)
  /\ \A m \in Mail : sendEvent[m] \in {NoAcct, sticky[m[1]]}

SenderInv == LockInv /\ restarting = {} /\ Fresh /\ Pinned

\* A delivery is recorded, or about to be, or its mailbox was deleted under it.
Accounted == \A m \in Mail : delivered[m] # 0 =>
  /\ delivered[m] = 1
  /\ \/ Recorded(m)
     \/ \E j \in Slots : jpc[j] = "record" /\ Key(Cur(j)) = m
     \/ sticky[m[1]] \in Accounts /\ mbox[sticky[m[1]]] = "deleted"

\* An email a running job has still to send is new, or recorded.
Unsent == \A j \in Slots : jpc[j] \in Running => \A p \in Ahead(j) :
  (jpc[j] = "record" /\ p = jpos[j]) \/
    LET m == Key(jmail[j][p]) IN Recorded(m) \/ delivered[m] = 0

\* What the dedupe found holds until the record is made.
Deduped ==
  /\ \A j \in Slots : jpc[j] \in {"send", "bounce", "record"} => ~Recorded(Key(Cur(j)))
  /\ \A j \in Slots : jpc[j] = "record" => delivered[Key(Cur(j))] = 1
  /\ \A m \in Mail : Recorded(m) => delivered[m] = 1

OnceInv == CarryInv /\ SenderInv /\ Accounted /\ Unsent /\ Deduped

-----------------------------------------------------------------------------
(* Where a step leaves rows and emails                                     *)

\* No row is read, none put in a batch, none put in a job.
TodoKept == \A d \in Dispatchers : todo'[d] \subseteq todo[d]

MailKept == \A d \in Dispatchers, a \in Accounts : \A p \in DOMAIN batch'[d][a] :
  p \in DOMAIN batch[d][a] /\ batch'[d][a][p] = batch[d][a][p]

JobsKept == \A j \in Slots : \A p \in Ahead(j)' :
  p \in Ahead(j) /\ jmail'[j][p] = jmail[j][p]

\* Moving a job on, or out of the queue, puts nothing into it.
LEMMA JobMovesKeep ==
  ASSUME TypeOK, NEW j \in Slots,
         NextEmail(j) \/ FreeSlot(j) \/ (\E pc \in Running : Goto(j, pc))
  PROVE  JobsKept
<1>1. jmail \in [Slots -> Seq(Email)] /\ jpos \in [Slots -> Nat \ {0}]
  BY DEF TypeOK, JobTypeOK
<1>2. \A k \in Slots : Len(jmail[k]) \in Nat
  BY <1>1
<1>3. CASE FreeSlot(j)
  <2>1. ASSUME NEW k \in Slots, k # j PROVE jmail'[k] = jmail[k] /\ jpos'[k] = jpos[k]
    BY <1>1, <1>3, <2>1 DEF FreeSlot
  <2>2. jmail'[j] = <<>> /\ jpos'[j] = 1
    BY <1>1, <1>3 DEF FreeSlot
  <2>3. Ahead(j)' = {}
    BY <2>2 DEF Ahead
  <2>. QED
    BY <2>1, <2>3 DEF JobsKept, Ahead
<1>4. CASE UNCHANGED jmail /\ jpos' = [jpos EXCEPT ![j] = @ + 1]
  BY <1>1, <1>2, <1>4 DEF JobsKept, Ahead
<1>5. CASE UNCHANGED <<jmail, jpos>>
  BY <1>5 DEF JobsKept, Ahead
<1>. QED
  BY <1>3, <1>4, <1>5 DEF NextEmail, Goto

\* A dispatch() that ends keeps nothing.
LEMMA ForgetKeeps ==
  ASSUME TypeOK, NEW d \in Dispatchers, Forget(d)
  PROVE  TodoKept /\ MailKept
<1>1. TodoKept
  BY DEF TodoKept, Forget, TypeOK, DispatchTypeOK
<1>2. \A e \in Dispatchers, a \in Accounts : batch'[e][a] \in {batch[e][a], <<>>}
  BY DEF Forget, NoBatch, TypeOK, DispatchTypeOK
<1>3. DOMAIN <<>> = {}
  OBVIOUS
<1>. QED
  BY <1>1, <1>2, <1>3 DEF MailKept

\* Nothing moves while the three variables stand still.
LEMMA StillKeeps ==
  /\ UNCHANGED todo => TodoKept
  /\ UNCHANGED batch => MailKept
  /\ UNCHANGED jobVars => JobsKept
BY DEF TodoKept, MailKept, JobsKept, Ahead, jobVars

\* An email gets into the pipeline by a tick's selection, into a batch by its
\* assignment and into a job by its enqueueing, and in no other way.
LEMMA Shapes ==
  ASSUME TypeOK, RunsOnce, [Next]_vars
  PROVE  \/ TodoKept /\ MailKept /\ JobsKept
         \/ \E d \in Dispatchers : DSelect(d)
         \/ \E d \in Dispatchers : \E t \in todo[d], a \in Accounts : DPlace(d, t, a)
         \/ \E d \in Dispatchers, j \in Slots : DEnqueue(d, j)
<1>. DEFINE Kept == TodoKept /\ MailKept /\ JobsKept
<1>1. \A d \in Dispatchers : \A rows : Taken(d, rows) => TodoKept
  BY DEF Taken, TodoKept, TypeOK, DispatchTypeOK
<1>2. UNCHANGED <<todo, batch, jobVars>> => Kept
  BY StillKeeps
<1>3. ASSUME NEW d \in Dispatchers, Dispatch(d), ~DSelect(d),
             ~\E t \in todo[d], a \in Accounts : DPlace(d, t, a),
             ~\E j \in Slots : DEnqueue(d, j)
      PROVE  Kept
  <2>1. CASE DSuppress(d)
    <3>1. UNCHANGED <<batch, jobVars>> /\ \E rows \in SUBSET todo[d] : todo' = [todo EXCEPT ![d] = rows]
      BY <2>1 DEF DSuppress
    <3>2. TodoKept
      BY <3>1 DEF TodoKept, TypeOK, DispatchTypeOK
    <3>. QED
      BY <3>1, <3>2, StillKeeps
  <2>2. ASSUME NEW t \in todo[d], NEW a \in Accounts, DFinishLead(d, t, a) \/ DBlank(d, t, a)
        PROVE  Kept
    <3>1. UNCHANGED <<batch, jobVars>> /\ Taken(d, {t})
      BY <2>2 DEF DFinishLead, DBlank
    <3>. QED
      BY <1>1, <3>1, StillKeeps
  <2>3. ASSUME NEW t \in todo[d], DLostMailbox(d, t) \/ DWaitSticky(d, t) \/ DFull(d, t)
        PROVE  Kept
    <3>1. UNCHANGED <<batch, jobVars>> /\ \E rows : Taken(d, rows)
      BY <2>3 DEF DLostMailbox, DWaitSticky, DFull
    <3>. QED
      BY <1>1, <3>1, StillKeeps
  <2>4. CASE DRelease(d)
    <3>1. UNCHANGED jobVars /\ Forget(d)
      BY <2>4 DEF DRelease
    <3>. QED
      BY <3>1, ForgetKeeps, StillKeeps
  <2>5. CASE \/ DAcquire(d) \/ DLoad(d) \/ DSkipCampaign(d) \/ DBind(d) \/ DCount(d) \/ DComplete(d)
             \/ \E a \in Accounts : DClaim(d, a)
    <3>1. UNCHANGED <<todo, batch, jobVars>>
      BY <2>5 DEF DAcquire, DLoad, DSkipCampaign, DBind, Persist, DCount, DComplete, DClaim
    <3>. QED
      BY <1>2, <3>1
  <2>. QED
    BY <1>3, <2>1, <2>2, <2>3, <2>4, <2>5 DEF Dispatch
<1>4. ASSUME NEW j \in Slots, Work(j) PROVE Kept
  <2>1. UNCHANGED <<todo, batch>>
    BY <1>4, WorkFlow
  <2>2. NextEmail(j) \/ FreeSlot(j) \/ \E pc \in Running : Goto(j, pc)
    BY <1>4 DEF Work, JStart, JSkipBatch, JBlank, JNonCompliant, JDefer, JBlock, JPass, JDedupe,
       JAdvance, JBlankSubject, JSendOk, JSendSoft, JSendHard, JBounce, JRecord, JRollback,
       Running
  <2>. QED
    BY <2>1, <2>2, JobMovesKeep, StillKeeps
<1>5. ASSUME Fault PROVE Kept
  <2>1. ASSUME NEW d \in Dispatchers, DCrash(d) PROVE Kept
    <3>1. UNCHANGED jobVars /\ Forget(d)
      BY <2>1 DEF DCrash
    <3>. QED
      BY <3>1, ForgetKeeps, StillKeeps
  <2>2. ASSUME NEW d \in Dispatchers, DAbort(d) \/ DBindFails(d) PROVE Kept
    <3>1. UNCHANGED <<todo, batch, jobVars>>
      BY <2>2 DEF DAbort, DBindFails, Persist
    <3>. QED
      BY <1>2, <3>1
  <2>3. ASSUME NEW j \in Slots, JCrash(j) PROVE Kept
    <3>1. ~(jtries[j] < MaxRetries)
      BY <2>3 DEF JCrash, Strikes, RunsOnce, TypeOK, JobTypeOK
    <3>2. FreeSlot(j) /\ UNCHANGED dispVars
      BY <2>3, <3>1 DEF JCrash
    <3>. QED
      BY <3>2, JobMovesKeep, StillKeeps DEF dispVars
  <2>4. ASSUME NEW j \in Slots, JProvisionFails(j) \/ JFails(j) PROVE Kept
    <3>1. (FreeSlot(j) \/ NextEmail(j)) /\ UNCHANGED dispVars
      BY <2>4 DEF JProvisionFails, JFails
    <3>. QED
      BY <3>1, JobMovesKeep, StillKeeps DEF dispVars
  <2>5. ASSUME NEW j \in Slots, NEW k \in Slots, JStall(j, k) PROVE FALSE
    BY <2>5 DEF JStall, Strikes, RunsOnce, TypeOK, JobTypeOK
  <2>. QED
    BY <1>5, <2>1, <2>2, <2>3, <2>4, <2>5 DEF Fault
<1>6. CASE Environment \/ LockExpire \/ (\E l \in Leads : BecomeDue(l)) \/ UNCHANGED vars
  <2>1. UNCHANGED <<todo, batch, jobVars>>
    BY <1>6 DEF Environment, Reply, PauseLead, Unsubscribe, AsyncBounce, PauseMailbox,
       RecoverMailbox, DetachMailbox, AttachMailbox, DeleteMailbox, SetMailbox, ResolveStop,
       ResolveContinue, RestartRead, RestartWrite, PauseCampaign, ResumeCampaign,
       LaunchCampaign, SetCampaign, EditSequence, EnrollCheck, EnrollCreate, LockExpire,
       BecomeDue, vars, dispVars
  <2>. QED
    BY <1>2, <2>1
<1>. HIDE DEF Kept
<1>. QED
  <2>1. Kept => TodoKept /\ MailKept /\ JobsKept
    BY DEF Kept
  <2>. QED
    BY <1>3, <1>4, <1>5, <1>6, <2>1 DEF Next

-----------------------------------------------------------------------------
(* A dispatch starts from nothing                                          *)

\* A step of another part of the system, or of another dispatch, leaves it alone.
LEMMA DispatchSteps ==
  ASSUME [Next]_vars
  PROVE  \/ UNCHANGED dispVars
         \/ \E d \in Dispatchers : Dispatch(d) \/ DCrash(d) \/ DAbort(d) \/ DBindFails(d)
<1>1. ASSUME NEW j \in Slots, Work(j) PROVE UNCHANGED dispVars
  BY <1>1 DEF Work, JStart, JSkipBatch, JBlank, JNonCompliant, JDefer, JBlock, JPass, JDedupe,
     JAdvance, JBlankSubject, JSendOk, JSendSoft, JSendHard, JBounce, JRecord, JRollback
<1>2. ASSUME NEW j \in Slots, NEW k \in Slots,
             JCrash(j) \/ JProvisionFails(j) \/ JFails(j) \/ JStall(j, k)
      PROVE  UNCHANGED dispVars
  BY <1>2 DEF JCrash, JProvisionFails, JFails, JStall
<1>3. CASE Environment \/ LockExpire \/ (\E l \in Leads : BecomeDue(l)) \/ UNCHANGED vars
  BY <1>3 DEF Environment, Reply, PauseLead, Unsubscribe, AsyncBounce, PauseMailbox,
     RecoverMailbox, DetachMailbox, AttachMailbox, DeleteMailbox, SetMailbox, ResolveStop,
     ResolveContinue, RestartRead, RestartWrite, PauseCampaign, ResumeCampaign,
     LaunchCampaign, SetCampaign, EditSequence, EnrollCheck, EnrollCreate, LockExpire,
     BecomeDue, vars
<1>. QED
  BY <1>1, <1>2, <1>3 DEF Next, Fault

\* Rows come with the selection, emails and bindings with the assignment, and all of
\* them go when the dispatch ends.
LEMMA FreshStep ==
  ASSUME TypeOK, Fresh, [Next]_vars
  PROVE  Fresh'
<1>. USE DEF Fresh, TypeOK, DispatchTypeOK
<1>1. CASE UNCHANGED dispVars
  BY <1>1 DEF dispVars
<1>2. ASSUME NEW d \in Dispatchers, Forget(d) PROVE Fresh'
  BY <1>2 DEF Forget
<1>3. ASSUME NEW d \in Dispatchers, Dispatch(d) PROVE Fresh'
  <2>1. CASE DAcquire(d) \/ DLoad(d) \/ DSkipCampaign(d)
    BY <2>1 DEF DAcquire, DLoad, DSkipCampaign, Idle
  <2>2. CASE DSelect(d)
    <3>1. /\ dpc[d] = "select" /\ UNCHANGED <<bind, batch>>
          /\ \E pc \in {"suppress", "release"} : dpc' = [dpc EXCEPT ![d] = pc]
          /\ \E rows : todo' = [todo EXCEPT ![d] = rows]
      BY <2>2 DEF DSelect
    <3>. QED
      BY <3>1
  <2>3. CASE DSuppress(d)
    <3>1. /\ dpc[d] = "suppress" /\ UNCHANGED <<bind, batch>>
          /\ \E pc \in {"assign", "release"} : dpc' = [dpc EXCEPT ![d] = pc]
          /\ \E rows : todo' = [todo EXCEPT ![d] = rows]
      BY <2>3 DEF DSuppress
    <3>. QED
      BY <3>1
  <2>4. ASSUME NEW t \in todo[d], NEW a \in Accounts,
               DPlace(d, t, a) \/ DFinishLead(d, t, a) \/ DBlank(d, t, a)
        PROVE  Fresh'
    <3>1. /\ dpc[d] = "assign" /\ UNCHANGED dpc
          /\ \E rows : todo' = [todo EXCEPT ![d] = rows]
          /\ \A e \in Dispatchers \ {d} : bind'[e] = bind[e] /\ batch'[e] = batch[e]
      BY <2>4 DEF DPlace, DFinishLead, DBlank, AtRow, Taken, Binding
    <3>. QED
      BY <3>1
  <2>5. ASSUME NEW t \in todo[d], DLostMailbox(d, t) \/ DWaitSticky(d, t) \/ DFull(d, t)
        PROVE  Fresh'
    <3>1. /\ dpc[d] = "assign" /\ UNCHANGED <<dpc, bind, batch>>
          /\ \E rows : todo' = [todo EXCEPT ![d] = rows]
      BY <2>5 DEF DLostMailbox, DWaitSticky, DFull, AtRow, Taken
    <3>. QED
      BY <3>1
  <2>6. CASE DBind(d)
    BY <2>6 DEF DBind, Persist
  <2>7. ASSUME NEW a \in Accounts, DClaim(d, a) PROVE Fresh'
    BY <2>7 DEF DClaim
  <2>8. ASSUME NEW j \in Slots, DEnqueue(d, j) PROVE Fresh'
    BY <2>8 DEF DEnqueue
  <2>9. CASE DCount(d) \/ DComplete(d)
    BY <2>9 DEF DCount, DComplete
  <2>10. CASE DRelease(d)
    BY <1>2, <2>10 DEF DRelease
  <2>. QED
    BY <1>3, <2>1, <2>2, <2>3, <2>4, <2>5, <2>6, <2>7, <2>8, <2>9, <2>10 DEF Dispatch
<1>4. ASSUME NEW d \in Dispatchers, DCrash(d) \/ DAbort(d) \/ DBindFails(d) PROVE Fresh'
  BY <1>2, <1>4 DEF DCrash, DAbort, DBindFails, Persist
<1>. QED
  BY <1>1, <1>3, <1>4, DispatchSteps

\* A slot is emptied when its job goes.
LEMMA EmptiedStep ==
  ASSUME TypeOK, Emptied, [Next]_vars
  PROVE  Emptied'
<1>. USE DEF Emptied, TypeOK, JobTypeOK
<1>1. ASSUME NEW j \in Slots,
             jpc[j] # "free" /\ (NextEmail(j) \/ FreeSlot(j) \/ \E pc \in Running : Goto(j, pc))
      PROVE  Emptied'
  BY <1>1 DEF NextEmail, FreeSlot, Goto, Running
<1>2. ASSUME NEW j \in Slots, NEW ms, jmail' = [jmail EXCEPT ![j] = ms],
             jpc' = [jpc EXCEPT ![j] = "queued"]
      PROVE  Emptied'
  BY <1>2
<1>3. CASE UNCHANGED jobVars
  BY <1>3 DEF jobVars
<1>4. ASSUME NEW d \in Dispatchers, Dispatch(d) PROVE Emptied'
  <2>1. ASSUME NEW j \in Slots, DEnqueue(d, j) PROVE Emptied'
    BY <1>2, <2>1 DEF DEnqueue
  <2>2. CASE ~\E j \in Slots : DEnqueue(d, j)
    <3>1. UNCHANGED jobVars
      BY <1>4, <2>2 DEF Dispatch, DAcquire, DLoad, DSkipCampaign, DSelect, DSuppress, DPlace,
         DFinishLead, DBlank, DLostMailbox, DWaitSticky, DFull, DBind, Persist, DClaim, DCount,
         DComplete, DRelease
    <3>. QED
      BY <1>3, <3>1
  <2>. QED
    BY <2>1, <2>2
<1>5. ASSUME NEW j \in Slots, Work(j) PROVE Emptied'
  <2>1. jpc[j] # "free" /\ (NextEmail(j) \/ FreeSlot(j) \/ \E pc \in Running : Goto(j, pc))
    BY <1>5 DEF Work, JStart, JSkipBatch, JBlank, JNonCompliant, JDefer, JBlock, JPass, JDedupe,
       JAdvance, JBlankSubject, JSendOk, JSendSoft, JSendHard, JBounce, JRecord, JRollback,
       Running, At
  <2>. QED
    BY <1>1, <2>1
<1>6. ASSUME Fault PROVE Emptied'
  <2>1. ASSUME NEW j \in Slots, JCrash(j) PROVE Emptied'
    <3>1. CASE FreeSlot(j)
      BY <1>1, <2>1, <3>1 DEF JCrash, Running
    <3>2. CASE UNCHANGED jmail /\ jpc' = [jpc EXCEPT ![j] = "queued"]
      BY <3>2
    <3>. QED
      BY <2>1, <3>1, <3>2 DEF JCrash
  <2>2. ASSUME NEW j \in Slots, JProvisionFails(j) \/ JFails(j) PROVE Emptied'
    BY <1>1, <2>2 DEF JProvisionFails, JFails, At, Running
  <2>3. ASSUME NEW j \in Slots, NEW k \in Slots, JStall(j, k) PROVE Emptied'
    BY <1>2, <2>3 DEF JStall
  <2>4. ASSUME NEW d \in Dispatchers, DCrash(d) \/ DAbort(d) \/ DBindFails(d) PROVE Emptied'
    BY <1>3, <2>4 DEF DCrash, DAbort, DBindFails, Persist
  <2>. QED
    BY <1>6, <2>1, <2>2, <2>3, <2>4 DEF Fault
<1>7. CASE Environment \/ LockExpire \/ (\E l \in Leads : BecomeDue(l)) \/ UNCHANGED vars
  <2>1. UNCHANGED jobVars
    BY <1>7 DEF Environment, Reply, PauseLead, Unsubscribe, AsyncBounce, PauseMailbox,
       RecoverMailbox, DetachMailbox, AttachMailbox, DeleteMailbox, SetMailbox, ResolveStop,
       ResolveContinue, RestartRead, RestartWrite, PauseCampaign, ResumeCampaign,
       LaunchCampaign, SetCampaign, EditSequence, EnrollCheck, EnrollCreate, LockExpire,
       BecomeDue, vars
  <2>. QED
    BY <1>3, <2>1
<1>. QED
  BY <1>4, <1>5, <1>6, <1>7 DEF Next

-----------------------------------------------------------------------------
(* An email for a lead is in one place                                     *)

\* What is kept where it was stays unique, and brings no lead in.
LEMMA KeptSole ==
  /\ TodoKept => /\ OneRow => OneRow'
                 /\ \A l \in Leads : InTodo(l)' => InTodo(l)
  /\ MailKept => /\ OneMail => OneMail'
                 /\ \A l \in Leads : InBatch(l)' => InBatch(l)
  /\ JobsKept => /\ OneJob => OneJob'
                 /\ \A l \in Leads : OnTheWay(l)' => OnTheWay(l)
<1>1. TodoKept => (OneRow => OneRow') /\ \A l \in Leads : InTodo(l)' => InTodo(l)
  BY DEF TodoKept, OneRow, InTodo
<1>2. ASSUME MailKept PROVE (OneMail => OneMail') /\ \A l \in Leads : InBatch(l)' => InBatch(l)
  <2>1. OneMail => OneMail'
    BY <1>2 DEF MailKept, OneMail
  <2>2. \A l \in Leads : InBatch(l)' => InBatch(l)
    BY <1>2 DEF MailKept, InBatch
  <2>. QED
    BY <2>1, <2>2
<1>3. ASSUME JobsKept PROVE (OneJob => OneJob') /\ \A l \in Leads : OnTheWay(l)' => OnTheWay(l)
  <2>1. OneJob => OneJob'
    BY <1>3 DEF JobsKept, OneJob
  <2>2. \A l \in Leads : OnTheWay(l)' => OnTheWay(l)
    BY <1>3 DEF JobsKept, OnTheWay
  <2>. QED
    BY <2>1, <2>2
<1>. QED
  BY <1>1, <1>2, <1>3

\* A tick that selects finds no row and no batch, its own or another's.
LEMMA SelectsAlone ==
  ASSUME LockInv, Fresh, NEW d \in Dispatchers, dpc[d] = "select"
  PROVE  \A e \in Dispatchers : todo[e] = {} /\ batch[e] = NoBatch /\ bind[e] = NoBind
BY DEF LockInv, DispatchMutex, Idle, Fresh

\* The rows it reads are of due leads, one each.
LEMMA SelectRows ==
  ASSUME TypeOK, NEW d \in Dispatchers, DSelect(d)
  PROVE  /\ MailKept /\ JobsKept
         /\ \A e \in Dispatchers \ {d} : todo'[e] = todo[e]
         /\ \A t \in todo'[d] : /\ t.lead \in DueLeads
                                /\ t = [lead |-> t.lead, step |-> step[t.lead],
                                        sticky |-> sticky[t.lead]]
<1>1. UNCHANGED <<batch, jobVars>>
  BY DEF DSelect
<1>2. PICK S \in SUBSET DueLeads : todo' = [todo EXCEPT ![d] =
         {[lead |-> l, step |-> step[l], sticky |-> sticky[l]] : l \in S}]
  BY DEF DSelect, Selections
<1>3. todo'[d] = {[lead |-> l, step |-> step[l], sticky |-> sticky[l]] : l \in S}
  BY <1>2 DEF TypeOK, DispatchTypeOK
<1>4. \A e \in Dispatchers \ {d} : todo'[e] = todo[e]
  BY <1>2 DEF TypeOK, DispatchTypeOK
<1>. QED
  BY <1>1, <1>3, <1>4, StillKeeps

\* Placing a row turns it into the last email of one batch.
LEMMA PlaceMoves ==
  ASSUME TypeOK, NEW d \in Dispatchers, NEW t \in todo[d], NEW a \in Accounts, DPlace(d, t, a)
  PROVE  /\ TodoKept /\ JobsKept
         /\ t \notin todo'[d]
         /\ \A e \in Dispatchers, b \in Accounts : \A p \in DOMAIN batch'[e][b] :
              \/ p \in DOMAIN batch[e][b] /\ batch'[e][b][p] = batch[e][b][p]
              \/ /\ e = d /\ b = a /\ p = Len(batch[d][a]) + 1
                 /\ batch'[e][b][p].lead = t.lead
<1>1. UNCHANGED jobVars /\ Taken(d, {t})
  BY DEF DPlace
<1>2. TodoKept /\ t \notin todo'[d]
  BY <1>1 DEF Taken, TodoKept, TypeOK, DispatchTypeOK
<1>0. PICK s \in Steps : PutsStep(d, t, a, s)
  BY PlacedStep
<1>. DEFINE E == [lead |-> t.lead, step |-> s, last |-> s = scan[d].sequence.length,
                  edition |-> scan[d].sequence.edition]
<1>3. batch' = [batch EXCEPT ![d][a] = Append(@, E)]
  BY <1>0 DEF PutsStep
<1>4. E.lead = t.lead
  OBVIOUS
<1>. HIDE DEF E
<1>5. ASSUME NEW e \in Dispatchers, NEW b \in Accounts, NEW p \in DOMAIN batch'[e][b]
      PROVE  \/ p \in DOMAIN batch[e][b] /\ batch'[e][b][p] = batch[e][b][p]
             \/ e = d /\ b = a /\ p = Len(batch[d][a]) + 1 /\ batch'[e][b][p] = E
  <2>1. CASE e = d /\ b = a
    <3>1. batch[d][a] \in Seq(Email)
      BY DEF TypeOK, DispatchTypeOK
    <3>2. batch'[d][a] = Append(batch[d][a], E)
      BY <1>3 DEF TypeOK, DispatchTypeOK
    <3>. QED
      BY <2>1, <3>1, <3>2
  <2>2. CASE ~(e = d /\ b = a)
    <3>1. batch'[e][b] = batch[e][b]
      BY <1>3, <2>2 DEF TypeOK, DispatchTypeOK
    <3>. QED
      BY <3>1
  <2>. QED
    BY <2>1, <2>2
<1>. QED
  BY <1>1, <1>2, <1>4, <1>5, StillKeeps

\* Enqueueing a batch makes it the emails of one job.
LEMMA EnqueueMoves ==
  ASSUME TypeOK, NEW d \in Dispatchers, NEW j \in Slots, DEnqueue(d, j)
  PROVE  /\ TodoKept /\ MailKept /\ dcur[d] \in Accounts
         /\ batch'[d][dcur[d]] = <<>>
         /\ \A k \in Slots : \A p \in Ahead(k)' :
              \/ k # j /\ p \in Ahead(k) /\ jmail'[k][p] = jmail[k][p]
              \/ k = j /\ p \in DOMAIN batch[d][dcur[d]] /\ jmail'[k][p] = batch[d][dcur[d]][p]
<1>1. /\ dcur[d] \in Accounts /\ UNCHANGED <<todo, jpos>> /\ jpos[j] = 1
      /\ batch[d][dcur[d]] \in Seq(Email)
  BY DEF DEnqueue, TypeOK, DispatchTypeOK, JobTypeOK
<1>2. jmail'[j] = batch[d][dcur[d]] /\ \A k \in Slots \ {j} : jmail'[k] = jmail[k]
  BY DEF DEnqueue, TypeOK, JobTypeOK
<1>3. batch'[d][dcur[d]] = <<>>
  BY <1>1 DEF DEnqueue, TypeOK, DispatchTypeOK
<1>4. \A e \in Dispatchers, a \in Accounts : batch'[e][a] \in {batch[e][a], <<>>}
  BY <1>1 DEF DEnqueue, TypeOK, DispatchTypeOK
<1>5. MailKept
  <2>1. DOMAIN <<>> = {}
    OBVIOUS
  <2>. QED
    BY <1>4, <2>1 DEF MailKept
<1>6. ASSUME NEW k \in Slots, NEW p \in Ahead(k)'
      PROVE  \/ k # j /\ p \in Ahead(k) /\ jmail'[k][p] = jmail[k][p]
             \/ k = j /\ p \in DOMAIN batch[d][dcur[d]] /\ jmail'[k][p] = batch[d][dcur[d]][p]
  <2>1. CASE k = j
    <3>1. p \in 1..Len(batch[d][dcur[d]])
      BY <1>1, <1>2, <2>1 DEF Ahead
    <3>. QED
      BY <1>1, <1>2, <2>1, <3>1
  <2>2. CASE k # j
    BY <1>1, <1>2, <2>2 DEF Ahead
  <2>. QED
    BY <2>1, <2>2
<1>. QED
  BY <1>1, <1>3, <1>5, <1>6, StillKeeps

\* However rows and emails move, a lead has one place at most: a tick selects only
\* leads that have none, because those that have one are booked.
LEMMA SoleStep ==
  ASSUME CarryInv, RunsOnce, [Next]_vars
  PROVE  Sole'
<1>. USE DEF CarryInv, Sole
<1>0. TypeOK /\ TypeOK'
  BY TypeStep DEF LockInv
<1>1. CASE TodoKept /\ MailKept /\ JobsKept
  BY <1>1, KeptSole DEF Apart
<1>2. ASSUME NEW d \in Dispatchers, DSelect(d) PROVE Sole'
  <2>1. dpc[d] = "select"
    BY <1>2 DEF DSelect
  <2>2. /\ \A e \in Dispatchers \ {d} : todo'[e] = {}
        /\ \A t \in todo'[d] : /\ t.lead \in DueLeads
                               /\ t = [lead |-> t.lead, step |-> step[t.lead],
                                       sticky |-> sticky[t.lead]]
    BY <1>0, <1>2, <2>1, SelectsAlone, SelectRows
  <2>3. OneRow'
    BY <2>2 DEF OneRow
  <2>4. \A l \in Leads : ~InBatch(l)
    <3>1. DOMAIN <<>> = {}
      OBVIOUS
    <3>. QED
      BY <2>1, <3>1, SelectsAlone DEF InBatch, NoBatch
  <2>5. \A l \in Leads : OnTheWay(l) => l \notin DueLeads
    BY DEF OnTheWay, Booked, NotDue, DueLeads, Seeded
  <2>6. \A l \in Leads : InTodo(l)' => l \in DueLeads
    BY <2>2 DEF InTodo
  <2>7. /\ OneMail' /\ OneJob'
        /\ \A l \in Leads : (InBatch(l)' => InBatch(l)) /\ (OnTheWay(l)' => OnTheWay(l))
    BY <1>0, <1>2, SelectRows, KeptSole
  <2>8. Apart'
    BY <2>4, <2>5, <2>6, <2>7 DEF Apart
  <2>. QED
    BY <2>3, <2>7, <2>8
<1>3. ASSUME NEW d \in Dispatchers, NEW t \in todo[d], NEW a \in Accounts, DPlace(d, t, a)
      PROVE  Sole'
  <2>1. /\ TodoKept /\ JobsKept
        /\ t \notin todo'[d]
        /\ \A e \in Dispatchers, b \in Accounts : \A p \in DOMAIN batch'[e][b] :
             \/ p \in DOMAIN batch[e][b] /\ batch'[e][b][p] = batch[e][b][p]
             \/ /\ e = d /\ b = a /\ p = Len(batch[d][a]) + 1
                /\ batch'[e][b][p].lead = t.lead
    BY <1>0, <1>3, PlaceMoves
  <2>2. t.lead \in Leads /\ InTodo(t.lead)
    BY <1>0 DEF TypeOK, DispatchTypeOK, Snapshot, InTodo
  <2>3. ~InBatch(t.lead) /\ ~OnTheWay(t.lead)
    BY <2>2 DEF Apart
  <2>4. \A e \in Dispatchers : \A u \in todo'[e] : u.lead # t.lead
    BY <2>1 DEF TodoKept, OneRow
  <2>5. /\ OneRow' /\ OneJob'
        /\ \A l \in Leads : (InTodo(l)' => InTodo(l)) /\ (OnTheWay(l)' => OnTheWay(l))
    BY <2>1, KeptSole
  <2>6. OneMail'
    <3>1. \A e \in Dispatchers, b \in Accounts : \A p \in DOMAIN batch[e][b] :
            batch[e][b][p].lead # t.lead
      BY <2>3 DEF InBatch
    <3>. SUFFICES ASSUME NEW e \in Dispatchers, NEW f \in Dispatchers,
                         NEW b \in Accounts, NEW c \in Accounts,
                         NEW p \in DOMAIN batch'[e][b], NEW q \in DOMAIN batch'[f][c],
                         batch'[e][b][p].lead = batch'[f][c][q].lead
                  PROVE  e = f /\ b = c /\ p = q
      BY DEF OneMail
    <3>2. CASE p \in DOMAIN batch[e][b] /\ batch'[e][b][p] = batch[e][b][p]
      <4>1. q \in DOMAIN batch[f][c] /\ batch'[f][c][q] = batch[f][c][q]
        BY <2>1, <3>1, <3>2
      <4>. QED
        BY <3>2, <4>1 DEF OneMail
    <3>3. CASE e = d /\ b = a /\ p = Len(batch[d][a]) + 1 /\ batch'[e][b][p].lead = t.lead
      BY <2>1, <3>1, <3>3
    <3>. QED
      BY <2>1, <3>2, <3>3
  <2>7. \A l \in Leads : InBatch(l)' => InBatch(l) \/ l = t.lead
    BY <2>1 DEF InBatch
  <2>8. ~InTodo(t.lead)'
    BY <2>4 DEF InTodo
  <2>9. Apart'
    BY <2>3, <2>5, <2>7, <2>8 DEF Apart
  <2>. QED
    BY <2>5, <2>6, <2>9
<1>4. ASSUME NEW d \in Dispatchers, NEW j \in Slots, DEnqueue(d, j) PROVE Sole'
  <2>. DEFINE c == dcur[d]
  <2>1. /\ TodoKept /\ MailKept /\ c \in Accounts
        /\ batch'[d][c] = <<>>
        /\ \A k \in Slots : \A p \in Ahead(k)' :
             \/ k # j /\ p \in Ahead(k) /\ jmail'[k][p] = jmail[k][p]
             \/ k = j /\ p \in DOMAIN batch[d][c] /\ jmail'[k][p] = batch[d][c][p]
    BY <1>0, <1>4, EnqueueMoves
  <2>. HIDE DEF c
  <2>2. /\ OneRow' /\ OneMail'
        /\ \A l \in Leads : (InTodo(l)' => InTodo(l)) /\ (InBatch(l)' => InBatch(l))
    BY <2>1, KeptSole
  <2>3. \A p \in DOMAIN batch[d][c] : /\ batch[d][c][p].lead \in Leads
                                      /\ InBatch(batch[d][c][p].lead)
    <3>1. batch[d][c] \in Seq(Email)
      BY <1>0, <2>1 DEF TypeOK, DispatchTypeOK
    <3>2. \A p \in DOMAIN batch[d][c] : batch[d][c][p] \in Email
      BY <3>1
    <3>. QED
      BY <2>1, <3>2 DEF InBatch, Email
  <2>4. \A k \in Slots : \A p \in Ahead(k) : \A q \in DOMAIN batch[d][c] :
          jmail[k][p].lead # batch[d][c][q].lead
    BY <2>3 DEF Apart, OnTheWay
  <2>5. OneJob'
    <3>1. \A p, q \in DOMAIN batch[d][c] : batch[d][c][p].lead = batch[d][c][q].lead => p = q
      BY <2>1 DEF OneMail
    <3>. SUFFICES ASSUME NEW k \in Slots, NEW m \in Slots,
                         NEW p \in Ahead(k)', NEW q \in Ahead(m)',
                         jmail'[k][p].lead = jmail'[m][q].lead
                  PROVE  k = m /\ p = q
      BY DEF OneJob
    <3>2. CASE k # j /\ m # j
      <4>1. /\ p \in Ahead(k) /\ jmail'[k][p] = jmail[k][p]
            /\ q \in Ahead(m) /\ jmail'[m][q] = jmail[m][q]
        BY <2>1, <3>2
      <4>. QED
        BY <4>1 DEF OneJob
    <3>3. CASE k = j /\ m = j
      BY <2>1, <3>1, <3>3
    <3>4. CASE k # j /\ m = j
      BY <2>1, <2>4, <3>4
    <3>5. CASE k = j /\ m # j
      BY <2>1, <2>4, <3>5
    <3>. QED
      BY <3>2, <3>3, <3>4, <3>5
  <2>6. ASSUME NEW l \in Leads, NEW p \in DOMAIN batch[d][c], l = batch[d][c][p].lead
        PROVE  ~InBatch(l)'
    <3>1. DOMAIN <<>> = {}
      OBVIOUS
    <3>2. ASSUME NEW e \in Dispatchers, NEW b \in Accounts, NEW q \in DOMAIN batch'[e][b],
                 batch'[e][b][q].lead = l
          PROVE  FALSE
      <4>1. q \in DOMAIN batch[e][b] /\ batch[e][b][q].lead = l
        BY <2>1, <3>2 DEF MailKept
      <4>2. e = d /\ b = c
        BY <2>1, <2>6, <4>1 DEF OneMail
      <4>. QED
        BY <2>1, <3>1, <3>2, <4>2
    <3>. QED
      BY <3>2 DEF InBatch
  <2>7. \A l \in Leads : OnTheWay(l)' =>
          OnTheWay(l) \/ \E p \in DOMAIN batch[d][c] : l = batch[d][c][p].lead
    BY <2>1 DEF OnTheWay
  <2>8. Apart'
    <3>1. \A l \in Leads : (\E p \in DOMAIN batch[d][c] : l = batch[d][c][p].lead) =>
            InBatch(l) /\ ~InBatch(l)'
      BY <2>3, <2>6
    <3>. QED
      BY <2>2, <2>7, <3>1 DEF Apart
  <2>. QED
    BY <2>2, <2>5, <2>8
<1>. QED
  BY <1>0, <1>1, <1>2, <1>3, <1>4, Shapes

-----------------------------------------------------------------------------
(* A claimed lead stays booked                                             *)

\* The emails of batches and jobs are emails.
LEMMA EmailTypes ==
  ASSUME TypeOK
  PROVE  /\ \A d \in Dispatchers, a \in Accounts : \A p \in DOMAIN batch[d][a] :
              batch[d][a][p] \in Email
         /\ \A j \in Slots : \A p \in Ahead(j) : p \in DOMAIN jmail[j] /\ jmail[j][p] \in Email
         /\ \A d \in Dispatchers : \A t \in todo[d] : t \in Snapshot
<1>1. /\ batch \in [Dispatchers -> [Accounts -> Seq(Email)]]
      /\ jmail \in [Slots -> Seq(Email)] /\ jpos \in [Slots -> Nat \ {0}]
      /\ todo \in [Dispatchers -> SUBSET Snapshot]
  BY DEF TypeOK, DispatchTypeOK, JobTypeOK
<1>2. ASSUME NEW d \in Dispatchers, NEW a \in Accounts, NEW p \in DOMAIN batch[d][a]
      PROVE  batch[d][a][p] \in Email
  <2>1. batch[d][a] \in Seq(Email)
    BY <1>1
  <2>. QED
    BY <2>1
<1>3. ASSUME NEW j \in Slots, NEW p \in Ahead(j)
      PROVE  p \in DOMAIN jmail[j] /\ jmail[j][p] \in Email
  <2>1. jmail[j] \in Seq(Email) /\ jpos[j] \in Nat \ {0}
    BY <1>1
  <2>. QED
    BY <2>1 DEF Ahead
<1>. QED
  BY <1>1, <1>2, <1>3

\* A lead that is carried has a row.
LEMMA CarriedExists ==
  ASSUME ReplyInv, NEW l \in Leads, InTodo(l) \/ InBatch(l) \/ OnTheWay(l)
  PROVE  status[l] # "absent"
<1>. USE EmailTypes DEF ReplyInv
<1>1. CASE InTodo(l)
  BY <1>1 DEF InTodo, Row
<1>2. CASE InBatch(l)
  BY <1>2 DEF InBatch, Waits, InBatches
<1>3. CASE OnTheWay(l)
  BY <1>3 DEF OnTheWay, Waits, InJobs
<1>. QED
  BY <1>1, <1>2, <1>3

\* A carried lead can leave the sequence, not come back to it.
LEMMA NeverBack ==
  ASSUME ReplyInv, Timely, [Next]_vars, NEW l \in Leads, status[l] # "absent"
  PROVE  status'[l] # "absent" /\ (status'[l] = "active" => status[l] = "active")
BY LeadSteps DEF Quiet, ReplyInv, Timely

\* Of the steps that leave a lead active, only the passing of its next_send_at takes
\* that out of the future: dispatchers and workers push it further out.
LEMMA FutureStays ==
  ASSUME TypeOK, restarting = {}, Timely, [Next]_vars, NEW l \in Leads,
         due[l] = "future", l \notin enrolling, status'[l] = "active", ~BecomeDue(l)
  PROVE  due'[l] = "future"
<1>0. due \in [Leads -> {"none", "future", "now"}] /\ status \in [Leads -> Statuses]
  BY DEF TypeOK, LeadTypeOK
<1>1. ASSUME NEW k \in Leads, NEW s \in Statuses \ {"active"}, NEW why, Stop(k, s, why)
      PROVE  due'[l] = "future"
  BY <1>0, <1>1 DEF Stop
<1>2. UNCHANGED due => due'[l] = "future"
  OBVIOUS
<1>3. ASSUME NEW k \in Leads, due' = [due EXCEPT ![k] = "future"] PROVE due'[l] = "future"
  BY <1>0, <1>3
<1>4. ASSUME NEW d \in Dispatchers, Dispatch(d) PROVE due'[l] = "future"
  <2>1. CASE DSelect(d)
    BY <1>0, <2>1 DEF DSelect, Seeded
  <2>2. CASE DSuppress(d)
    BY <1>0, <2>2 DEF DSuppress
  <2>3. ASSUME NEW t \in todo[d], NEW a \in Accounts, DFinishLead(d, t, a) \/ DBlank(d, t, a)
        PROVE  due'[l] = "future"
    <3>1. t.lead \in Leads
      BY EmailTypes DEF Snapshot
    <3>. QED
      BY <1>1, <2>3, <3>1 DEF DFinishLead, DBlank, Statuses
  <2>4. ASSUME NEW t \in todo[d], DLostMailbox(d, t) PROVE due'[l] = "future"
    BY <1>0, <2>4 DEF DLostMailbox
  <2>5. ASSUME NEW t \in todo[d], DWaitSticky(d, t) PROVE due'[l] = "future"
    <3>1. t.lead \in Leads
      BY EmailTypes DEF Snapshot
    <3>. QED
      BY <1>3, <2>5, <3>1 DEF DWaitSticky
  <2>6. ASSUME NEW a \in Accounts, DClaim(d, a) PROVE due'[l] = "future"
    BY <1>0, <2>6 DEF DClaim, Claimed
  <2>7. CASE \/ DAcquire(d) \/ DLoad(d) \/ DSkipCampaign(d) \/ DBind(d) \/ DCount(d) \/ DComplete(d)
             \/ DRelease(d) \/ (\E j \in Slots : DEnqueue(d, j))
             \/ (\E t \in todo[d] : DFull(d, t) \/ \E a \in Accounts : DPlace(d, t, a))
    <3>1. UNCHANGED due
      BY <2>7 DEF DAcquire, DLoad, DSkipCampaign, DBind, Persist, DCount, DComplete, DRelease,
         DEnqueue, DFull, DPlace, leadVars
    <3>. QED
      BY <3>1
  <2>. QED
    BY <1>4, <2>1, <2>2, <2>3, <2>4, <2>5, <2>6, <2>7 DEF Dispatch
<1>5. ASSUME NEW j \in Slots, Work(j) PROVE due'[l] = "future"
  <2>1. jpc[j] # "free" /\ Cur(j).lead \in Leads /\ Cur(j) \in Email
    BY <1>5, CurType DEF Work, JStart, JSkipBatch, JBlank, JNonCompliant, JDefer, JBlock, JPass,
       JDedupe, JAdvance, JBlankSubject, JSendOk, JSendSoft, JSendHard, JBounce, JRecord,
       JRollback, At, TypeOK, Email
  <2>2. CASE JBlank(j) \/ JBlock(j) \/ JBlankSubject(j)
    BY <1>1, <2>1, <2>2 DEF JBlank, JBlock, JBlankSubject, Statuses
  <2>3. CASE JDefer(j)
    BY <1>3, <2>1, <2>3 DEF JDefer
  <2>4. CASE JAdvance(j) \/ JRecord(j)
    <3>1. AdvanceLead(Cur(j))
      BY <2>4 DEF JAdvance, JRecord
    <3>. QED
      BY <1>0, <2>1, <3>1 DEF AdvanceLead, Advanced
  <2>5. CASE \/ JStart(j) \/ JSkipBatch(j) \/ JNonCompliant(j) \/ JPass(j) \/ JDedupe(j) \/ JSendOk(j)
             \/ JSendSoft(j) \/ JSendHard(j) \/ JBounce(j) \/ JRollback(j)
    <3>1. UNCHANGED due
      BY <2>5 DEF JStart, JSkipBatch, JNonCompliant, JPass, JDedupe, JSendOk, JSendSoft,
         JSendHard, JBounce, JRollback, leadVars
    <3>. QED
      BY <3>1
  <2>. QED
    BY <1>5, <2>2, <2>3, <2>4, <2>5 DEF Work
<1>6. ASSUME Environment PROVE due'[l] = "future"
  <2>1. ASSUME NEW k \in Leads, Reply(k) \/ PauseLead(k) PROVE due'[l] = "future"
    BY <1>0, <2>1 DEF Reply, PauseLead, Stop
  <2>2. ASSUME NEW k \in Leads, Unsubscribe(k) PROVE due'[l] = "future"
    BY <1>2, <2>2 DEF Unsubscribe
  <2>3. ASSUME NEW k \in Leads, AsyncBounce(k) PROVE due'[l] = "future"
    BY <1>0, <2>3 DEF AsyncBounce
  <2>4. ASSUME NEW k \in Leads, EnrollCreate(k), k # l PROVE due'[l] = "future"
    BY <1>0, <2>4 DEF EnrollCreate
  <2>5. ~EnrollCreate(l)
    BY DEF EnrollCreate
  <2>6. CASE LaunchCampaign
    BY <1>0, <2>6 DEF LaunchCampaign, Seeded
  <2>7. CASE \/ \E a \in Accounts : \/ PauseMailbox(a) \/ RecoverMailbox(a) \/ DetachMailbox(a)
                                    \/ AttachMailbox(a) \/ DeleteMailbox(a) \/ ResolveStop(a)
                                    \/ ResolveContinue(a) \/ RestartRead(a)
             \/ PauseCampaign \/ ResumeCampaign \/ EditSequence \/ RestartWrite
             \/ \E k \in Leads : EnrollCheck(k)
    <3>1. UNCHANGED due
      BY <2>7 DEF PauseMailbox, RecoverMailbox, DetachMailbox, AttachMailbox, DeleteMailbox,
         SetMailbox, ResolveStop, ResolveContinue, RestartRead, RestartWrite, PauseCampaign,
         ResumeCampaign, SetCampaign, EditSequence, EnrollCheck, leadVars, Timely
    <3>. QED
      BY <3>1
  <2>. QED
    BY <1>6, <2>1, <2>2, <2>3, <2>4, <2>5, <2>6, <2>7 DEF Environment
<1>7. ASSUME NEW k \in Leads, BecomeDue(k) PROVE due'[l] = "future"
  BY <1>0, <1>7 DEF BecomeDue
<1>8. CASE Fault \/ LockExpire \/ UNCHANGED vars
  <2>1. UNCHANGED due
    BY <1>8 DEF Fault, DCrash, DAbort, DBindFails, Persist, JCrash, JProvisionFails, JFails, JStall,
       LockExpire, leadVars, vars
  <2>. QED
    BY <2>1
<1>. QED
  BY <1>4, <1>5, <1>6, <1>7, <1>8 DEF Next

\* A dispatch under way at its enqueueing stays there with the batch it has claimed.
LEMMA ClaimSteps ==
  ASSUME TypeOK, [Next]_vars, NEW d \in Dispatchers, dpc'[d] = "enqueue"
  PROVE  \/ dpc[d] = "enqueue" /\ dcur'[d] = dcur[d] /\ batch'[d] = batch[d]
         \/ dcur'[d] \in Accounts /\ DClaim(d, dcur'[d])
<1>. USE DEF TypeOK, DispatchTypeOK
<1>1. CASE UNCHANGED dispVars
  BY <1>1 DEF dispVars
<1>2. ASSUME NEW e \in Dispatchers, Dispatch(e) \/ DCrash(e) \/ DAbort(e) \/ DBindFails(e), e # d
      PROVE  dpc'[d] = dpc[d] /\ dcur'[d] = dcur[d] /\ batch'[d] = batch[d]
  <2>1. ASSUME NEW t \in todo[e], NEW a \in Accounts,
               DPlace(e, t, a) \/ DFinishLead(e, t, a) \/ DBlank(e, t, a)
        PROVE  dpc'[d] = dpc[d] /\ dcur'[d] = dcur[d] /\ batch'[d] = batch[d]
    BY <1>2, <2>1 DEF DPlace, DFinishLead, DBlank
  <2>2. ASSUME NEW t \in todo[e], DLostMailbox(e, t) \/ DWaitSticky(e, t) \/ DFull(e, t)
        PROVE  dpc'[d] = dpc[d] /\ dcur'[d] = dcur[d] /\ batch'[d] = batch[d]
    BY <2>2 DEF DLostMailbox, DWaitSticky, DFull
  <2>3. CASE \/ DAcquire(e) \/ DLoad(e) \/ DSkipCampaign(e) \/ DSelect(e) \/ DSuppress(e)
             \/ DBind(e) \/ DCount(e) \/ DComplete(e) \/ DRelease(e)
    BY <1>2, <2>3 DEF DAcquire, DLoad, DSkipCampaign, DSelect, DSuppress, DBind, Persist, DCount,
       DComplete, DRelease, Forget
  <2>4. ASSUME NEW a \in Accounts, DClaim(e, a)
        PROVE  dpc'[d] = dpc[d] /\ dcur'[d] = dcur[d] /\ batch'[d] = batch[d]
    BY <1>2, <2>4 DEF DClaim
  <2>5. ASSUME NEW j \in Slots, DEnqueue(e, j)
        PROVE  dpc'[d] = dpc[d] /\ dcur'[d] = dcur[d] /\ batch'[d] = batch[d]
    BY <1>2, <2>5 DEF DEnqueue
  <2>6. CASE DCrash(e) \/ DAbort(e) \/ DBindFails(e)
    BY <1>2, <2>6 DEF DCrash, DAbort, DBindFails, Persist, Forget
  <2>. QED
    BY <1>2, <2>1, <2>2, <2>3, <2>4, <2>5, <2>6 DEF Dispatch
<1>3. ASSUME Dispatch(d) \/ DCrash(d) \/ DAbort(d) \/ DBindFails(d)
      PROVE  \E a \in Accounts : DClaim(d, a)
  <2>1. ASSUME NEW t \in todo[d], NEW a \in Accounts,
               DPlace(d, t, a) \/ DFinishLead(d, t, a) \/ DBlank(d, t, a)
        PROVE  FALSE
    BY <2>1 DEF DPlace, DFinishLead, DBlank, AtRow
  <2>2. ASSUME NEW t \in todo[d], DLostMailbox(d, t) \/ DWaitSticky(d, t) \/ DFull(d, t)
        PROVE  FALSE
    BY <2>2 DEF DLostMailbox, DWaitSticky, DFull, AtRow
  <2>3. CASE \/ DAcquire(d) \/ DLoad(d) \/ DSkipCampaign(d) \/ DSelect(d) \/ DSuppress(d)
             \/ DBind(d) \/ DCount(d) \/ DComplete(d) \/ DRelease(d)
    BY <2>3 DEF DAcquire, DLoad, DSkipCampaign, DSelect, DSuppress, DBind, Persist, DCount,
       DComplete, DRelease, Forget
  <2>5. ASSUME NEW j \in Slots, DEnqueue(d, j) PROVE FALSE
    BY <2>5 DEF DEnqueue
  <2>6. CASE DCrash(d) \/ DAbort(d) \/ DBindFails(d)
    BY <2>6 DEF DCrash, DAbort, DBindFails, Persist, Forget
  <2>. QED
    BY <1>3, <2>1, <2>2, <2>3, <2>5, <2>6 DEF Dispatch
<1>4. \A a \in Accounts : DClaim(d, a) => dcur'[d] = a
  BY DEF DClaim
<1>. QED
  BY <1>1, <1>2, <1>3, <1>4, DispatchSteps

\* An email in a job was there, or was in the batch just enqueued.
LEMMA JobOrigin ==
  ASSUME TypeOK, RunsOnce, [Next]_vars, NEW k \in Slots, NEW p \in Ahead(k)'
  PROVE  \/ p \in Ahead(k) /\ jmail'[k][p] = jmail[k][p]
         \/ \E d \in Dispatchers : \E q \in DOMAIN batch[d][dcur[d]] :
              DEnqueue(d, k) /\ jmail'[k][p] = batch[d][dcur[d]][q]
<1>1. ASSUME JobsKept PROVE p \in Ahead(k) /\ jmail'[k][p] = jmail[k][p]
  BY <1>1 DEF JobsKept
<1>2. ASSUME NEW d \in Dispatchers, NEW j \in Slots, DEnqueue(d, j)
      PROVE  \/ p \in Ahead(k) /\ jmail'[k][p] = jmail[k][p]
             \/ j = k /\ \E q \in DOMAIN batch[d][dcur[d]] : jmail'[k][p] = batch[d][dcur[d]][q]
  BY <1>2, EnqueueMoves
<1>3. ASSUME NEW d \in Dispatchers, NEW t \in todo[d], NEW a \in Accounts, DPlace(d, t, a)
      PROVE  JobsKept
  BY <1>3, PlaceMoves
<1>4. ASSUME NEW d \in Dispatchers, DSelect(d) PROVE JobsKept
  BY <1>4, SelectRows
<1>. QED
  BY <1>1, <1>2, <1>3, <1>4, Shapes

\* An email in a batch was there, or was a row the tick had in hand.
LEMMA BatchOrigin ==
  ASSUME TypeOK, RunsOnce, [Next]_vars,
         NEW d \in Dispatchers, NEW a \in Accounts, NEW p \in DOMAIN batch'[d][a]
  PROVE  \/ p \in DOMAIN batch[d][a] /\ batch'[d][a][p] = batch[d][a][p]
         \/ \E t \in todo[d] : DPlace(d, t, a) /\ batch'[d][a][p].lead = t.lead
<1>1. ASSUME MailKept PROVE p \in DOMAIN batch[d][a] /\ batch'[d][a][p] = batch[d][a][p]
  BY <1>1 DEF MailKept
<1>2. ASSUME NEW e \in Dispatchers, NEW t \in todo[e], NEW b \in Accounts, DPlace(e, t, b)
      PROVE  \/ p \in DOMAIN batch[d][a] /\ batch'[d][a][p] = batch[d][a][p]
             \/ e = d /\ b = a /\ batch'[d][a][p].lead = t.lead
  BY <1>2, PlaceMoves
<1>3. ASSUME NEW e \in Dispatchers, DSelect(e) \/ \E j \in Slots : DEnqueue(e, j) PROVE MailKept
  BY <1>3, SelectRows, EnqueueMoves
<1>. QED
  BY <1>1, <1>2, <1>3, Shapes

\* A row in hand was in hand, or is that of a due lead.
LEMMA TodoOrigin ==
  ASSUME TypeOK, RunsOnce, [Next]_vars, NEW d \in Dispatchers, NEW t \in todo'[d]
  PROVE  t \in todo[d] \/ (DSelect(d) /\ t.lead \in DueLeads)
<1>1. ASSUME TodoKept PROVE t \in todo[d]
  BY <1>1 DEF TodoKept
<1>2. ASSUME NEW e \in Dispatchers, DSelect(e)
      PROVE  t \in todo[d] \/ (e = d /\ t.lead \in DueLeads)
  BY <1>2, SelectRows
<1>3. ASSUME NEW e \in Dispatchers, NEW u \in todo[e], NEW a \in Accounts, DPlace(e, u, a)
      PROVE  TodoKept
  BY <1>3, PlaceMoves
<1>4. ASSUME NEW e \in Dispatchers, NEW j \in Slots, DEnqueue(e, j) PROVE TodoKept
  BY <1>4, EnqueueMoves
<1>. QED
  BY <1>1, <1>2, <1>3, <1>4, Shapes

\* While a lead's email is in a batch or a job its next_send_at does not pass.
LEMMA NotDueStays ==
  ASSUME CarryInv, Timely, [Next]_vars, NEW l \in Leads, InBatch(l) \/ OnTheWay(l), NotDue(l)
  PROVE  NotDue(l)'
<1>. USE DEF CarryInv
<1>1. status[l] # "absent"
  BY CarriedExists
<1>2. l \notin enrolling /\ restarting = {} /\ TypeOK
  BY <1>1 DEF ReplyInv
<1>3. ~BecomeDue(l)
  <2>1. OnTheWay(l) => InJob(l)
    <3>1. ASSUME NEW j \in Slots, NEW p \in Ahead(j), jmail[j][p].lead = l PROVE InJob(l)
      <4>1. jpc[j] # "free"
        <5>1. p \in DOMAIN jmail[j]
          BY <1>2, EmailTypes
        <5>2. DOMAIN <<>> = {}
          OBVIOUS
        <5>. QED
          BY <5>1, <5>2 DEF Emptied
      <4>2. jmail[j][p] \in Pending(j)
        BY <4>1 DEF Pending, Ahead
      <4>. QED
        BY <3>1, <4>2 DEF InJob
    <3>. QED
      BY <3>1 DEF OnTheWay
  <2>. QED
    BY <2>1 DEF BecomeDue, Timely
<1>4. status'[l] = "active" => status[l] = "active"
  BY <1>1, NeverBack
<1>. QED
  BY <1>2, <1>3, <1>4, FutureStays DEF NotDue

\* A batch is claimed before it is enqueued, so its leads are booked from then on.
LEMMA BookedStep ==
  ASSUME CarryInv, Timely, RunsOnce, [Next]_vars
  PROVE  Booked'
<1>0. TypeOK /\ TypeOK' /\ Booked
  BY TypeStep DEF CarryInv, LockInv
<1>1. ASSUME NEW j \in Slots, NEW p \in Ahead(j)' PROVE NotDue(jmail[j][p].lead)'
  <2>1. PICK l \in Leads : l = jmail'[j][p].lead
    BY <1>0, <1>1, EmailTypes, JobOrigin, EnqueueMoves DEF Email
  <2>2. (InBatch(l) \/ OnTheWay(l)) /\ NotDue(l)
    <3>1. CASE p \in Ahead(j) /\ jmail'[j][p] = jmail[j][p]
      BY <1>0, <2>1, <3>1 DEF Booked, OnTheWay
    <3>2. ASSUME NEW d \in Dispatchers, NEW q \in DOMAIN batch[d][dcur[d]], DEnqueue(d, j),
                 jmail'[j][p] = batch[d][dcur[d]][q]
          PROVE  InBatch(l) /\ NotDue(l)
      <4>1. dpc[d] = "enqueue" /\ dcur[d] \in Accounts
        BY <1>0, <3>2, EnqueueMoves DEF DEnqueue
      <4>. QED
        BY <1>0, <2>1, <3>2, <4>1 DEF Booked, InBatch
    <3>. QED
      BY <1>0, <3>1, <3>2, JobOrigin
  <2>3. NotDue(l)'
    BY <2>2, NotDueStays
  <2>. QED
    BY <2>1, <2>3 DEF NotDue
<1>2. ASSUME NEW d \in Dispatchers, dpc'[d] = "enqueue", NEW p \in DOMAIN batch'[d][dcur'[d]]
      PROVE  NotDue(batch[d][dcur[d]][p].lead)'
  <2>1. CASE dpc[d] = "enqueue" /\ dcur'[d] = dcur[d] /\ batch'[d] = batch[d]
    <3>1. dcur[d] \in Accounts
      BY <1>0, <2>1 DEF TypeOK, DispatchTypeOK
    <3>2. PICK l \in Leads : l = batch[d][dcur[d]][p].lead
      BY <1>0, <1>2, <2>1, <3>1, EmailTypes DEF Email
    <3>3. InBatch(l) /\ NotDue(l)
      BY <1>0, <1>2, <2>1, <3>1, <3>2 DEF InBatch, Booked
    <3>4. NotDue(l)'
      BY <3>3, NotDueStays
    <3>. QED
      BY <2>1, <3>2, <3>4 DEF NotDue
  <2>2. ASSUME NEW a \in Accounts, a = dcur'[d], DClaim(d, a)
        PROVE  NotDue(batch[d][dcur[d]][p].lead)'
    <3>1. UNCHANGED <<batch, status>> /\
          due' = Claimed({batch[d][a][q].lead : q \in DOMAIN batch[d][a]})
      BY <2>2 DEF DClaim
    <3>2. PICK l \in Leads : l = batch[d][a][p].lead
      BY <1>0, <1>2, <2>2, <3>1, EmailTypes DEF Email
    <3>3. status'[l] = "active" => due'[l] = "future"
      BY <1>2, <2>2, <3>1, <3>2 DEF Claimed
    <3>. QED
      BY <2>2, <3>1, <3>2, <3>3 DEF NotDue
  <2>. QED
    BY <1>0, <1>2, <2>1, <2>2, ClaimSteps
<1>. QED
  BY <1>1, <1>2 DEF Booked

\* The invariant is inductive.
LEMMA CarryStep ==
  ASSUME CarryInv, Timely, RunsOnce, [Next]_vars
  PROVE  CarryInv'
<1>1. LockInv' /\ ReplyInv'
  BY TypeStep, LockStep, ReplyStep DEF CarryInv, LockInv, Timely
<1>. QED
  BY <1>1, FreshStep, EmptiedStep, BookedStep, SoleStep DEF CarryInv, LockInv

LEMMA CarryInit == Init => CarryInv
<1>. SUFFICES ASSUME Init PROVE CarryInv
  OBVIOUS
<1>0. TypeOK
  BY TypeInit
<1>1. LockInv
  BY <1>0 DEF Init, LockInv, DispatchMutex, Holds, Idle
<1>2. /\ \A d \in Dispatchers : todo[d] = {} /\ batch[d] = NoBatch /\ bind[d] = NoBind
      /\ \A j \in Slots : jmail[j] = <<>> /\ jpos[j] = 1
      /\ \A d \in Dispatchers : dpc[d] = "idle"
  BY DEF Init
<1>3. /\ \A d \in Dispatchers, a \in Accounts : DOMAIN batch[d][a] = {}
      /\ \A j \in Slots : Ahead(j) = {} /\ DOMAIN jmail[j] = {}
  <2>1. DOMAIN <<>> = {} /\ Len(<<>>) = 0
    OBVIOUS
  <2>. QED
    BY <1>2, <2>1 DEF NoBatch, Ahead
<1>4. (\A t \in Snapshot : ~Row(t)) /\ (\A e \in Email : ~Waits(e))
  BY <1>2, <1>3 DEF Row, Waits, InBatches, InJobs
<1>5. ReplyInv
  BY <1>0, <1>4 DEF Init, ReplyInv, ReplyEndsSequence
<1>6. Fresh /\ Emptied
  BY <1>2 DEF Fresh, Emptied
<1>7. Booked
  BY <1>2, <1>3 DEF Booked
<1>8. Sole
  BY <1>2, <1>3 DEF Sole, OneRow, OneMail, OneJob, Apart, InTodo, InBatch, OnTheWay
<1>. QED
  BY <1>1, <1>5, <1>6, <1>7, <1>8 DEF CarryInv

\* One place of each kind, and one kind, is one place.
LEMMA SolePlaces ==
  ASSUME Sole
  PROVE  CarriedOnce
<1>. SUFFICES ASSUME NEW l \in Leads, NEW x \in Places(l), NEW y \in Places(l) PROVE x = y
  BY DEF CarriedOnce
<1>. DEFINE AtRows(z) == \E d \in Dispatchers : \E t \in todo[d] : t.lead = l /\ z = <<d, t>>
            AtMail(z) == \E d \in Dispatchers, a \in Accounts : \E p \in DOMAIN batch[d][a] :
                           batch[d][a][p].lead = l /\ z = <<d, a, p>>
            AtJobs(z) == \E j \in Slots : \E p \in Ahead(j) :
                           jmail[j][p].lead = l /\ z = <<j, p>>
<1>1. \A z \in Places(l) : AtRows(z) \/ AtMail(z) \/ AtJobs(z)
  BY DEF Places, Ahead
<1>2. /\ (AtRows(x) => InTodo(l)) /\ (AtMail(x) => InBatch(l)) /\ (AtJobs(x) => OnTheWay(l))
      /\ (AtRows(y) => InTodo(l)) /\ (AtMail(y) => InBatch(l)) /\ (AtJobs(y) => OnTheWay(l))
  BY DEF InTodo, InBatch, OnTheWay
<1>3. AtRows(x) /\ AtRows(y) => x = y
  BY DEF Sole, OneRow
<1>4. AtMail(x) /\ AtMail(y) => x = y
  BY DEF Sole, OneMail
<1>5. AtJobs(x) /\ AtJobs(y) => x = y
  BY DEF Sole, OneJob
<1>. HIDE DEF AtRows, AtMail, AtJobs
<1>. QED
  BY <1>1, <1>2, <1>3, <1>4, <1>5 DEF Sole, Apart

\* As long as batches drain in the time their claim allows, ticks within the lock's,
\* no job is run again and no lead is put back by hand: while an email for a lead is
\* somewhere between selection and its record, no second one is in the making,
\* whatever replies, fails, is lost, edited or enrolled meanwhile.
THEOREM CarriesOnce ==
  ASSUME Timely, RunsOnce
  PROVE  Spec => []CarriedOnce
<1>1. CarryInv /\ [Next]_vars => CarryInv'
  BY CarryStep
<1>2. CarryInv => CarriedOnce
  BY SolePlaces DEF CarryInv
<1>. QED
  BY <1>1, <1>2, CarryInit, PTL DEF Spec

-----------------------------------------------------------------------------
(* One late email                                                          *)

\* A job that nobody touches.
Still(j) == /\ jpc'[j] = jpc[j] /\ jacct'[j] = jacct[j]
            /\ jmail'[j] = jmail[j] /\ jpos'[j] = jpos[j]

\* What happens to a job: a worker's step, its enqueueing, a fault of its own, or its
\* copy into a free slot; the other jobs do not move.
LEMMA JobSteps ==
  ASSUME TypeOK, [Next]_vars, NEW i \in Slots
  PROVE  \/ Still(i)
         \/ Work(i)
         \/ \E d \in Dispatchers : DEnqueue(d, i)
         \/ JCrash(i) \/ JProvisionFails(i) \/ JFails(i)
         \/ \E j \in Slots : JStall(j, i)
<1>. USE DEF TypeOK, JobTypeOK, Still
<1>1. UNCHANGED jobVars => Still(i)
  BY DEF jobVars
<1>2. ASSUME NEW j \in Slots, j # i,
             NextEmail(j) \/ FreeSlot(j) \/ (\E pc \in Running : Goto(j, pc))
      PROVE  Still(i)
  BY <1>2 DEF NextEmail, FreeSlot, Goto
<1>3. ASSUME NEW d \in Dispatchers, Dispatch(d), ~DEnqueue(d, i) PROVE Still(i)
  <2>1. ASSUME NEW j \in Slots, j # i, DEnqueue(d, j) PROVE Still(i)
    BY <2>1 DEF DEnqueue
  <2>2. CASE ~\E j \in Slots : DEnqueue(d, j)
    <3>1. UNCHANGED jobVars
      BY <1>3, <2>2 DEF Dispatch, DAcquire, DLoad, DSkipCampaign, DSelect, DSuppress, DPlace,
         DFinishLead, DBlank, DLostMailbox, DWaitSticky, DFull, DBind, Persist, DClaim, DCount,
         DComplete, DRelease
    <3>. QED
      BY <1>1, <3>1
  <2>. QED
    BY <1>3, <2>1, <2>2
<1>4. ASSUME NEW j \in Slots, j # i, Work(j) PROVE Still(i)
  <2>1. NextEmail(j) \/ FreeSlot(j) \/ \E pc \in Running : Goto(j, pc)
    BY <1>4 DEF Work, JStart, JSkipBatch, JBlank, JNonCompliant, JDefer, JBlock, JPass, JDedupe,
       JAdvance, JBlankSubject, JSendOk, JSendSoft, JSendHard, JBounce, JRecord, JRollback,
       Running
  <2>. QED
    BY <1>2, <1>4, <2>1
<1>5. ASSUME NEW j \in Slots, j # i, JCrash(j) \/ JProvisionFails(j) \/ JFails(j) PROVE Still(i)
  <2>1. CASE JCrash(j)
    BY <1>2, <1>5, <2>1 DEF JCrash
  <2>2. CASE JProvisionFails(j) \/ JFails(j)
    BY <1>2, <1>5, <2>2 DEF JProvisionFails, JFails
  <2>. QED
    BY <1>5, <2>1, <2>2
<1>6. ASSUME NEW j \in Slots, NEW k \in Slots, k # i, JStall(j, k) PROVE Still(i)
  BY <1>6 DEF JStall
<1>7. ASSUME NEW d \in Dispatchers, DCrash(d) \/ DAbort(d) \/ DBindFails(d) PROVE Still(i)
  BY <1>1, <1>7 DEF DCrash, DAbort, DBindFails, Persist
<1>8. CASE Environment \/ LockExpire \/ (\E l \in Leads : BecomeDue(l)) \/ UNCHANGED vars
  <2>1. UNCHANGED jobVars
    BY <1>8 DEF Environment, Reply, PauseLead, Unsubscribe, AsyncBounce, PauseMailbox,
       RecoverMailbox, DetachMailbox, AttachMailbox, DeleteMailbox, SetMailbox, ResolveStop,
       ResolveContinue, RestartRead, RestartWrite, PauseCampaign, ResumeCampaign,
       LaunchCampaign, SetCampaign, EditSequence, EnrollCheck, EnrollCreate, LockExpire,
       BecomeDue, vars
  <2>. QED
    BY <1>1, <2>1
<1>. QED
  BY <1>3, <1>4, <1>5, <1>6, <1>7, <1>8 DEF Next, Fault

\* A job at its record makes it, or gives the email up; it goes back to none.
LEMMA RecordEnds ==
  ASSUME TypeOK, RunsOnce, [Next]_vars, NEW j \in Slots, jpc[j] = "record",
         jpos[j] \in Ahead(j)'
  PROVE  Still(j)
<1>. USE DEF TypeOK, JobTypeOK
<1>0. jmail \in [Slots -> Seq(Email)] /\ jpos[j] \in Nat \ {0} /\ Len(jmail[j]) \in Nat
  OBVIOUS
<1>1. ASSUME FreeSlot(j) PROVE FALSE
  <2>1. jmail'[j] = <<>> /\ jpos'[j] = 1
    BY <1>1 DEF FreeSlot
  <2>. QED
    BY <2>1 DEF Ahead
<1>2. ASSUME NextEmail(j) PROVE FALSE
  <2>1. jpos[j] < Len(jmail[j]) /\ jpos'[j] = jpos[j] + 1 /\ jmail'[j] = jmail[j]
    BY <1>1, <1>2 DEF NextEmail
  <2>. QED
    BY <1>0, <2>1 DEF Ahead
<1>3. ASSUME Work(j) PROVE FALSE
  <2>1. NextEmail(j)
    BY <1>3 DEF Work, JStart, JSkipBatch, JBlank, JNonCompliant, JDefer, JBlock, JPass, JDedupe,
       JAdvance, JBlankSubject, JSendOk, JSendSoft, JSendHard, JBounce, JRecord, JRollback, At
  <2>. QED
    BY <1>2, <2>1
<1>4. ~JCrash(j)
  BY <1>1 DEF JCrash, Strikes, RunsOnce
<1>5. ~JProvisionFails(j) /\ ~JFails(j)
  BY <1>2 DEF JProvisionFails, JFails, At
<1>6. \A k \in Slots : ~JStall(k, j)
  BY DEF JStall
<1>7. \A d \in Dispatchers : ~DEnqueue(d, j)
  BY DEF DEnqueue
<1>. QED
  BY <1>3, <1>4, <1>5, <1>6, <1>7, JobSteps

\* Mails are counted as they leave.
LEMMA DeliverySteps ==
  ASSUME restarting = {}, [Next]_vars
  PROVE  UNCHANGED <<delivered, late>> \/ \E j \in Slots : JSendOk(j)
<1>1. ASSUME NEW d \in Dispatchers, Dispatch(d) PROVE UNCHANGED <<delivered, late>>
  BY <1>1 DEF Dispatch, DAcquire, DLoad, DSkipCampaign, DSelect, DSuppress, DPlace, DFinishLead,
     DBlank, DLostMailbox, DWaitSticky, DFull, DBind, Persist, DClaim, DEnqueue, DCount,
     DComplete, DRelease, histVars
<1>2. ASSUME NEW j \in Slots, Work(j), ~JSendOk(j) PROVE UNCHANGED <<delivered, late>>
  BY <1>2 DEF Work, JStart, JSkipBatch, JBlank, JNonCompliant, JDefer, JBlock, JPass, JDedupe,
     JAdvance, JBlankSubject, JSendSoft, JSendHard, JBounce, JRecord, JRollback, histVars
<1>3. ASSUME Fault PROVE UNCHANGED <<delivered, late>>
  BY <1>3 DEF Fault, DCrash, DAbort, DBindFails, Persist, JCrash, JProvisionFails, JFails, JStall, histVars
<1>4. CASE Environment \/ LockExpire \/ (\E l \in Leads : BecomeDue(l)) \/ UNCHANGED vars
  BY <1>4 DEF Environment, Reply, PauseLead, Unsubscribe, AsyncBounce, PauseMailbox,
     RecoverMailbox, DetachMailbox, AttachMailbox, DeleteMailbox, SetMailbox, ResolveStop,
     ResolveContinue, RestartRead, RestartWrite, PauseCampaign, ResumeCampaign,
     LaunchCampaign, SetCampaign, EditSequence, EnrollCheck, EnrollCreate, LockExpire,
     BecomeDue, vars, histVars
<1>. QED
  BY <1>1, <1>2, <1>3, <1>4 DEF Next

\* An opt-out or a bounce is written together with the row's new status.
LEMMA SuppressionSteps ==
  ASSUME TypeOK, [Next]_vars, NEW l \in Leads, Suppressed(l)', ~Suppressed(l),
         status[l] # "absent"
  PROVE  status'[l] # "active"
<1>. USE DEF TypeOK, LeadTypeOK, DataTypeOK
<1>1. UNCHANGED orgStatus => FALSE
  BY DEF Suppressed
<1>2. ASSUME NEW k \in Leads, Unsubscribe(k) \/ AsyncBounce(k) PROVE status'[l] # "active"
  BY <1>2 DEF Unsubscribe, AsyncBounce, Suppressed
<1>3. ASSUME NEW j \in Slots, JBounce(j) PROVE FALSE
  <2>1. Cur(j).lead \in Leads
    BY <1>3, CurType DEF JBounce, At, Email
  <2>. QED
    BY <1>3, <2>1 DEF JBounce, Suppressed
<1>4. ASSUME NEW d \in Dispatchers, Dispatch(d) PROVE UNCHANGED orgStatus
  BY <1>4 DEF Dispatch, DAcquire, DLoad, DSkipCampaign, DSelect, DSuppress, DPlace, DFinishLead,
     DBlank, DLostMailbox, DWaitSticky, DFull, DBind, Persist, DClaim, DEnqueue, DCount,
     DComplete, DRelease, dataVars
<1>5. ASSUME NEW j \in Slots, Work(j), ~JBounce(j) PROVE UNCHANGED orgStatus
  BY <1>5 DEF Work, JStart, JSkipBatch, JBlank, JNonCompliant, JDefer, JBlock, JPass, JDedupe,
     JAdvance, JBlankSubject, JSendOk, JSendSoft, JSendHard, JRecord, JRollback, dataVars
<1>6. ASSUME Fault PROVE UNCHANGED orgStatus
  BY <1>6 DEF Fault, DCrash, DAbort, DBindFails, Persist, JCrash, JProvisionFails, JFails, JStall,
     dataVars
<1>7. CASE /\ Environment \/ LockExpire \/ (\E k \in Leads : BecomeDue(k)) \/ UNCHANGED vars
           /\ ~\E k \in Leads : Unsubscribe(k) \/ AsyncBounce(k)
  <2>1. UNCHANGED orgStatus
    BY <1>7 DEF Environment, Reply, PauseLead, PauseMailbox,
       RecoverMailbox, DetachMailbox, AttachMailbox, DeleteMailbox, SetMailbox, ResolveStop,
       ResolveContinue, RestartRead, RestartWrite, PauseCampaign, ResumeCampaign,
       LaunchCampaign, SetCampaign, EditSequence, EnrollCheck, EnrollCreate, LockExpire,
       BecomeDue, vars, dataVars
  <2>. QED
    BY <1>1, <2>1
<1>. QED
  BY <1>1, <1>2, <1>3, <1>4, <1>5, <1>6, <1>7 DEF Next

\* Assignment follows the suppression check of the same tick.
LEMMA AssignSteps ==
  ASSUME TypeOK, [Next]_vars, NEW d \in Dispatchers, dpc'[d] = "assign"
  PROVE  dpc[d] = "assign" \/ DSuppress(d)
<1>. USE DEF TypeOK, DispatchTypeOK
<1>1. CASE UNCHANGED dispVars
  BY <1>1 DEF dispVars
<1>2. ASSUME NEW e \in Dispatchers, Dispatch(e) PROVE dpc[d] = "assign" \/ DSuppress(d)
  <2>1. ASSUME NEW t \in todo[e], NEW a \in Accounts,
               DPlace(e, t, a) \/ DFinishLead(e, t, a) \/ DBlank(e, t, a)
        PROVE  dpc[d] = "assign"
    BY <2>1 DEF DPlace, DFinishLead, DBlank
  <2>2. ASSUME NEW t \in todo[e], DLostMailbox(e, t) \/ DWaitSticky(e, t) \/ DFull(e, t)
        PROVE  dpc[d] = "assign"
    BY <2>2 DEF DLostMailbox, DWaitSticky, DFull
  <2>3. CASE \/ DAcquire(e) \/ DLoad(e) \/ DSkipCampaign(e) \/ DSelect(e)
             \/ DBind(e) \/ DCount(e) \/ DComplete(e) \/ DRelease(e)
    BY <2>3 DEF DAcquire, DLoad, DSkipCampaign, DSelect, DBind, Persist, DCount,
       DComplete, DRelease, Forget
  <2>4. CASE DSuppress(e)
    BY <2>4 DEF DSuppress
  <2>5. ASSUME NEW a \in Accounts, DClaim(e, a) PROVE dpc[d] = "assign"
    BY <2>5 DEF DClaim
  <2>6. ASSUME NEW j \in Slots, DEnqueue(e, j) PROVE dpc[d] = "assign"
    BY <2>6 DEF DEnqueue
  <2>. QED
    BY <1>2, <2>1, <2>2, <2>3, <2>4, <2>5, <2>6 DEF Dispatch
<1>3. ASSUME NEW e \in Dispatchers, DCrash(e) \/ DAbort(e) \/ DBindFails(e)
      PROVE  dpc[d] = "assign"
  BY <1>3 DEF DCrash, DAbort, DBindFails, Persist, Forget
<1>. QED
  BY <1>1, <1>2, <1>3, DispatchSteps

\* A carried lead whose opt-out has been heeded goes on being so.
LEMMA HeedsStays ==
  ASSUME ReplyInv, Timely, [Next]_vars, NEW l \in Leads, status[l] # "absent", Heeds(l)
  PROVE  Heeds(l)'
BY NeverBack, SuppressionSteps DEF Heeds, ReplyInv

\* What is assigned has passed the check, and everything else was assigned once.
LEMMA WarnedStep ==
  ASSUME CarryInv, Warned, Timely, RunsOnce, [Next]_vars
  PROVE  Warned'
<1>. USE DEF CarryInv
<1>0. TypeOK /\ ReplyInv
  BY DEF LockInv
<1>1. ASSUME NEW d \in Dispatchers, dpc'[d] = "assign", NEW t \in todo'[d] PROVE Heeds(t.lead)'
  <2>1. CASE dpc[d] = "assign"
    <3>1. t \in todo[d]
      BY <1>0, <1>1, <2>1, TodoOrigin DEF DSelect
    <3>2. t.lead \in Leads /\ InTodo(t.lead)
      BY <1>0, <3>1, EmailTypes DEF Snapshot, InTodo
    <3>3. Heeds(t.lead) /\ status[t.lead] # "absent"
      BY <1>0, <2>1, <3>1, <3>2, CarriedExists DEF Warned
    <3>. QED
      BY <1>0, <3>2, <3>3, HeedsStays
  <2>2. CASE DSuppress(d)
    <3>1. t \in todo[d] /\ t.lead \notin SuppressedOf({u.lead : u \in todo[d]})
      BY <1>0, <1>1, <2>2 DEF DSuppress, TypeOK, DispatchTypeOK
    <3>2. ~Suppressed(t.lead)
      BY <3>1 DEF SuppressedOf
    <3>. QED
      BY <2>2, <3>2 DEF DSuppress, dataVars, Suppressed, Heeds
  <2>. QED
    BY <1>0, <1>1, <2>1, <2>2, AssignSteps
<1>2. ASSUME NEW l \in Leads, InBatch(l)' PROVE Heeds(l)'
  <2>1. PICK d \in Dispatchers, a \in Accounts : \E p \in DOMAIN batch'[d][a] :
          batch'[d][a][p].lead = l
    BY <1>2 DEF InBatch
  <2>2. CASE InBatch(l)
    BY <1>0, <2>2, CarriedExists, HeedsStays DEF Warned
  <2>3. ASSUME NEW t \in todo[d], DPlace(d, t, a), t.lead = l PROVE Heeds(l)'
    <3>1. InTodo(l) /\ Heeds(l)
      BY <2>3 DEF InTodo, DPlace, AtRow, Warned
    <3>. QED
      BY <1>0, <3>1, CarriedExists, HeedsStays
  <2>. QED
    BY <1>0, <2>1, <2>2, <2>3, BatchOrigin DEF InBatch
<1>3. ASSUME NEW l \in Leads, OnTheWay(l)' PROVE Heeds(l)'
  <2>1. PICK j \in Slots : \E p \in Ahead(j)' : jmail'[j][p].lead = l
    BY <1>3 DEF OnTheWay
  <2>2. OnTheWay(l) \/ InBatch(l)
    <3>1. ASSUME NEW p \in Ahead(j)', jmail'[j][p].lead = l PROVE OnTheWay(l) \/ InBatch(l)
      <4>1. CASE p \in Ahead(j) /\ jmail'[j][p] = jmail[j][p]
        BY <3>1, <4>1 DEF OnTheWay
      <4>2. ASSUME NEW d \in Dispatchers, NEW q \in DOMAIN batch[d][dcur[d]], DEnqueue(d, j),
                   jmail'[j][p] = batch[d][dcur[d]][q]
            PROVE  InBatch(l)
        BY <1>0, <3>1, <4>2, EnqueueMoves DEF InBatch
      <4>. QED
        BY <1>0, <3>1, <4>1, <4>2, JobOrigin
    <3>. QED
      BY <2>1, <3>1
  <2>. QED
    BY <1>0, <2>2, CarriedExists, HeedsStays DEF Warned
<1>. QED
  BY <1>1, <1>2, <1>3 DEF Warned

\* After its late email a lead has nothing under way and is selected no more.
LEMMA LateStep ==
  ASSUME LateInv, Timely, RunsOnce, [Next]_vars
  PROVE  LateLast'
<1>. USE DEF LateInv, CarryInv
<1>0. TypeOK /\ ReplyInv /\ Sole /\ late \in [Leads -> 0..2]
  BY DEF LockInv, TypeOK, RestTypeOK
<1>1. SUFFICES ASSUME NEW l \in Leads, late'[l] # 0
               PROVE  /\ late'[l] = 1
                      /\ status'[l] \notin {"active", "absent"}
                      /\ ~InTodo(l)' /\ ~InBatch(l)'
                      /\ \A j \in Slots : \A p \in Ahead(j)' :
                           jmail'[j][p].lead = l => p = jpos'[j] /\ jpc'[j] = "record"
  BY DEF LateLast
<1>2. CASE late[l] # 0 /\ late'[l] = late[l]
  <2>1. /\ late[l] = 1 /\ status[l] \notin {"active", "absent"}
        /\ ~InTodo(l) /\ ~InBatch(l)
        /\ \A j \in Slots : \A p \in Ahead(j) :
             jmail[j][p].lead = l => p = jpos[j] /\ jpc[j] = "record"
    BY <1>2 DEF LateLast
  <2>2. status'[l] \notin {"active", "absent"}
    BY <1>0, <2>1, NeverBack
  <2>3. ~InTodo(l)'
    BY <1>0, <2>1, TodoOrigin DEF InTodo, DueLeads
  <2>4. ~InBatch(l)'
    BY <1>0, <2>1, BatchOrigin DEF InTodo, InBatch
  <2>5. ASSUME NEW j \in Slots, NEW p \in Ahead(j)', jmail'[j][p].lead = l
        PROVE  p = jpos'[j] /\ jpc'[j] = "record"
    <3>1. p \in Ahead(j) /\ jmail'[j][p] = jmail[j][p]
      <4>1. ASSUME NEW d \in Dispatchers, NEW q \in DOMAIN batch[d][dcur[d]], DEnqueue(d, j),
                   jmail'[j][p] = batch[d][dcur[d]][q]
            PROVE  InBatch(l)
        BY <1>0, <2>5, <4>1, EnqueueMoves DEF InBatch
      <4>. QED
        BY <1>0, <2>1, <2>5, <4>1, JobOrigin
    <3>2. p = jpos[j] /\ jpc[j] = "record"
      BY <2>1, <2>5, <3>1
    <3>3. Still(j)
      BY <1>0, <2>5, <3>2, RecordEnds
    <3>. QED
      BY <3>2, <3>3 DEF Still
  <2>. QED
    BY <1>2, <2>1, <2>2, <2>3, <2>4, <2>5
<1>3. ASSUME late'[l] # late[l] PROVE
        /\ late'[l] = 1
        /\ status'[l] \notin {"active", "absent"}
        /\ ~InTodo(l)' /\ ~InBatch(l)'
        /\ \A j \in Slots : \A p \in Ahead(j)' :
             jmail'[j][p].lead = l => p = jpos'[j] /\ jpc'[j] = "record"
  <2>1. PICK j \in Slots : JSendOk(j)
    BY <1>0, <1>3, DeliverySteps DEF ReplyInv, histVars
  <2>2. /\ jpc[j] = "send" /\ jpos[j] \in Ahead(j) /\ Cur(j) \in Email
        /\ Cur(j) = jmail[j][jpos[j]]
    BY <1>0, <2>1, CurType DEF JSendOk, At, TypeOK, JobTypeOK, Ahead, Cur
  <2>3. l = Cur(j).lead /\ ~Mailable(l) /\ late'[l] = Lesser(late[l] + 1, 2)
    BY <1>0, <1>3, <2>1, <2>2 DEF JSendOk, Email
  <2>4. OnTheWay(l) /\ late[l] = 0
    BY <1>0, <2>2, <2>3 DEF OnTheWay, LateLast
  <2>5. late'[l] = 1
    BY <2>3, <2>4 DEF Lesser
  <2>6. status[l] \notin {"active", "absent"}
    BY <1>0, <2>3, <2>4, CarriedExists DEF Mailable, Warned, Heeds, ReplyInv, ReplyEndsSequence
  <2>7. ~InTodo(l) /\ ~InBatch(l)
    BY <1>0, <2>4 DEF Sole, Apart
  <2>8. UNCHANGED <<status, todo, batch, jmail, jpos>> /\ jpc' = [jpc EXCEPT ![j] = "record"]
    BY <2>1 DEF JSendOk, Goto, leadVars, dispVars
  <2>9. ASSUME NEW k \in Slots, NEW p \in Ahead(k)', jmail'[k][p].lead = l
        PROVE  p = jpos'[k] /\ jpc'[k] = "record"
    <3>1. p \in Ahead(k) /\ jmail[k][p].lead = l
      BY <2>8, <2>9 DEF Ahead
    <3>2. k = j /\ p = jpos[j]
      BY <1>0, <2>2, <2>3, <3>1 DEF Sole, OneJob
    <3>. QED
      BY <1>0, <2>8, <3>2 DEF TypeOK, JobTypeOK
  <2>. QED
    BY <2>5, <2>6, <2>7, <2>8, <2>9 DEF InTodo, InBatch
<1>. QED
  BY <1>1, <1>2, <1>3

LEMMA LateInit == Init => LateInv
<1>. SUFFICES ASSUME Init PROVE LateInv
  OBVIOUS
<1>1. /\ \A d \in Dispatchers : todo[d] = {} /\ batch[d] = NoBatch /\ dpc[d] = "idle"
      /\ \A j \in Slots : jmail[j] = <<>> /\ jpos[j] = 1
      /\ \A l \in Leads : late[l] = 0
      /\ \A l \in Leads : ~Suppressed(l)
  BY DEF Init, Suppressed
<1>2. Warned /\ LateLast
  BY <1>1 DEF Warned, Heeds, LateLast
<1>. QED
  BY <1>2, CarryInit DEF LateInv

\* A recipient who replied, opted out or bounced gets at most the one email that was
\* already under way, under the same conditions, and whatever was decided between its
\* selection and its sending: the suppression check of the tick, the claim and the
\* guards of the writes leave room for one and not for two.
THEOREM OneLateSend ==
  ASSUME Timely, RunsOnce
  PROVE  Spec => []AtMostOneLateSend
<1>1. LateInv /\ [Next]_vars => LateInv'
  BY CarryStep, WarnedStep, LateStep DEF LateInv
<1>2. LateInv => AtMostOneLateSend
  BY DEF LateInv, LateLast, AtMostOneLateSend
<1>. QED
  BY <1>1, <1>2, LateInit, PTL DEF Spec

-----------------------------------------------------------------------------
(* One sender                                                              *)

\* A dispatch that nobody runs.
Halted(d) == /\ dpc'[d] = dpc[d] /\ dcur'[d] = dcur[d] /\ todo'[d] = todo[d]
             /\ bind'[d] = bind[d] /\ batch'[d] = batch[d]

\* What happens to a dispatch is its own step, its death or a failed call of it.
LEMMA TickSteps ==
  ASSUME TypeOK, [Next]_vars, NEW d \in Dispatchers
  PROVE  \/ Halted(d)
         \/ Dispatch(d)
         \/ DCrash(d) \/ DAbort(d) \/ DBindFails(d)
<1>. USE DEF TypeOK, DispatchTypeOK, Halted
<1>1. CASE UNCHANGED dispVars
  BY <1>1 DEF dispVars
<1>2. ASSUME NEW e \in Dispatchers, e # d, Dispatch(e) \/ DCrash(e) \/ DAbort(e) \/ DBindFails(e)
      PROVE  Halted(d)
  <2>1. ASSUME NEW t \in todo[e], NEW a \in Accounts,
               DPlace(e, t, a) \/ DFinishLead(e, t, a) \/ DBlank(e, t, a)
        PROVE  Halted(d)
    BY <1>2, <2>1 DEF DPlace, DFinishLead, DBlank, Taken, Binding
  <2>2. ASSUME NEW t \in todo[e], DLostMailbox(e, t) \/ DWaitSticky(e, t) \/ DFull(e, t)
        PROVE  Halted(d)
    BY <1>2, <2>2 DEF DLostMailbox, DWaitSticky, DFull, Taken
  <2>3. CASE DAcquire(e) \/ DLoad(e) \/ DSkipCampaign(e) \/ DBind(e) \/ DBindFails(e)
    BY <1>2, <2>3 DEF DAcquire, DLoad, DSkipCampaign, DBind, DBindFails, Persist
  <2>4. CASE DSelect(e)
    BY <1>2, <2>4 DEF DSelect
  <2>5. CASE DSuppress(e)
    BY <1>2, <2>5 DEF DSuppress
  <2>6. ASSUME NEW a \in Accounts, DClaim(e, a) PROVE Halted(d)
    BY <1>2, <2>6 DEF DClaim
  <2>7. ASSUME NEW j \in Slots, DEnqueue(e, j) PROVE Halted(d)
    BY <1>2, <2>7 DEF DEnqueue
  <2>8. CASE DCount(e) \/ DComplete(e) \/ DRelease(e) \/ DCrash(e) \/ DAbort(e)
    BY <1>2, <2>8 DEF DCount, DComplete, DRelease, DCrash, DAbort, Forget
  <2>. QED
    BY <1>2, <2>1, <2>2, <2>3, <2>4, <2>5, <2>6, <2>7, <2>8 DEF Dispatch
<1>. QED
  BY <1>1, <1>2, DispatchSteps

\* A lead's mailbox is chosen by the binding of a dispatch, and by nothing else as long
\* as no binding fails and no lead is put back by hand.
LEMMA StickySteps ==
  ASSUME {"resolve", "db_error"} \cap Events = {}, restarting = {}, [Next]_vars
  PROVE  UNCHANGED sticky \/ \E d \in Dispatchers : DBind(d)
<1>1. ASSUME NEW d \in Dispatchers, Dispatch(d), ~DBind(d) PROVE UNCHANGED sticky
  BY <1>1 DEF Dispatch, DAcquire, DLoad, DSkipCampaign, DSelect, DSuppress, DPlace, DFinishLead,
     DBlank, DLostMailbox, DWaitSticky, DFull, DClaim, DEnqueue, DCount, DComplete, DRelease,
     leadVars
<1>2. ASSUME NEW j \in Slots, Work(j) PROVE UNCHANGED sticky
  BY <1>2 DEF Work, JStart, JSkipBatch, JBlank, JNonCompliant, JDefer, JBlock, JPass, JDedupe,
     JAdvance, JBlankSubject, JSendOk, JSendSoft, JSendHard, JBounce, JRecord, JRollback, leadVars
<1>3. ASSUME Fault PROVE UNCHANGED sticky
  BY <1>3 DEF Fault, DCrash, DAbort, DBindFails, JCrash, JProvisionFails, JFails, JStall, Strikes,
     leadVars
<1>4. ASSUME Environment PROVE UNCHANGED sticky
  BY <1>4 DEF Environment, Reply, PauseLead, Unsubscribe, AsyncBounce, PauseMailbox,
     RecoverMailbox, DetachMailbox, AttachMailbox, DeleteMailbox, SetMailbox, ResolveStop,
     ResolveContinue, RestartRead, RestartWrite, PauseCampaign, ResumeCampaign,
     LaunchCampaign, SetCampaign, EditSequence, EnrollCheck, EnrollCreate, leadVars
<1>5. CASE LockExpire \/ (\E l \in Leads : BecomeDue(l)) \/ UNCHANGED vars
  BY <1>5 DEF LockExpire, BecomeDue, vars, leadVars
<1>. QED
  BY <1>1, <1>2, <1>3, <1>4, <1>5 DEF Next

\* A record is made by the worker that sent the email.
LEMMA RecordSteps ==
  ASSUME restarting = {}, [Next]_vars
  PROVE  UNCHANGED sendEvent \/ \E j \in Slots : JRecord(j)
<1>1. ASSUME NEW d \in Dispatchers, Dispatch(d) PROVE UNCHANGED sendEvent
  BY <1>1, DispatchKeeps
<1>2. ASSUME NEW j \in Slots, Work(j), ~JRecord(j) PROVE UNCHANGED sendEvent
  BY <1>2 DEF Work, JStart, JSkipBatch, JBlank, JNonCompliant, JDefer, JBlock, JPass, JDedupe,
     JAdvance, JBlankSubject, JSendOk, JSendSoft, JSendHard, JBounce, JRollback, dataVars
<1>3. ASSUME Fault PROVE UNCHANGED sendEvent
  BY <1>3 DEF Fault, DCrash, DAbort, DBindFails, Persist, JCrash, JProvisionFails, JFails, JStall,
     dataVars
<1>4. CASE Environment \/ LockExpire \/ (\E l \in Leads : BecomeDue(l)) \/ UNCHANGED vars
  BY <1>4 DEF Environment, Reply, PauseLead, Unsubscribe, AsyncBounce, PauseMailbox,
     RecoverMailbox, DetachMailbox, AttachMailbox, DeleteMailbox, SetMailbox, ResolveStop,
     ResolveContinue, RestartRead, RestartWrite, PauseCampaign, ResumeCampaign,
     LaunchCampaign, SetCampaign, EditSequence, EnrollCheck, EnrollCreate, LockExpire,
     BecomeDue, vars, dataVars
<1>. QED
  BY <1>1, <1>2, <1>3, <1>4 DEF Next

\* No tick outlives its lock, no binding fails, and no lead is put back by hand.
Undisturbed == {"lock_expiry", "db_error", "resolve", "restart"} \cap Events = {}

\* A mailbox chosen for a lead is its mailbox for good.
LEMMA StickyStays ==
  ASSUME SenderInv, Undisturbed, [Next]_vars, NEW l \in Leads, sticky[l] # NoAcct
  PROVE  sticky'[l] = sticky[l]
<1>1. CASE UNCHANGED sticky
  BY <1>1
<1>2. ASSUME NEW d \in Dispatchers, DBind(d) PROVE sticky'[l] = sticky[l]
  <2>1. dpc[d] = "assign" /\ l \notin ToBind(d)
    BY <1>2 DEF DBind, Persist, SenderInv, Pinned, Bound, ToBind
  <2>. QED
    BY <1>2, <2>1 DEF DBind, Persist
<1>. QED
  BY <1>1, <1>2, StickySteps DEF Undisturbed, SenderInv

\* A tick that holds rows is the only one that chooses mailboxes.
LEMMA StickyKept ==
  ASSUME SenderInv, Undisturbed, [Next]_vars, NEW d \in Dispatchers, ~Idle(d), ~DBind(d)
  PROVE  UNCHANGED sticky
<1>1. ASSUME NEW e \in Dispatchers, DBind(e) PROVE e = d
  BY <1>1 DEF DBind, Persist, SenderInv, LockInv, DispatchMutex, Idle
<1>. QED
  BY <1>1, StickySteps DEF Undisturbed, SenderInv

\* A row handled is a row less, and the others' leads stay unbound.
LEMMA TakenBound ==
  ASSUME TypeOK, NEW d \in Dispatchers, Bound(d), dpc[d] = "assign", UNCHANGED <<dpc, sticky>>,
         NEW t \in todo[d], NEW rows, Taken(d, rows), t \in rows, t \in Snapshot,
         UNCHANGED batch,
         UNCHANGED bind \/ \E a \in Accounts : Binding(d, t, a)
  PROVE  Bound(d)'
<1>. USE DEF TypeOK, DispatchTypeOK
<1>1. t.lead \in Leads /\ todo'[d] \subseteq todo[d] \ {t}
  BY DEF Snapshot, Taken
<1>2. \A u \in todo'[d] : u.lead # t.lead
  BY <1>1 DEF Bound
<1>3. CASE UNCHANGED bind
  BY <1>1, <1>3 DEF Bound, InHand
<1>4. ASSUME NEW a \in Accounts, t.sticky = NoAcct, bind' = [bind EXCEPT ![d][t.lead] = a]
      PROVE  Bound(d)'
  <2>1. sticky[t.lead] = NoAcct /\ bind[d][t.lead] = NoAcct
    BY <1>4 DEF Bound
  <2>2. /\ \A l \in Leads \ {t.lead} : bind'[d][l] = bind[d][l]
        /\ \A u \in todo[d] : u.lead \in Leads
    BY <1>1, <1>4 DEF Snapshot
  <2>3. \A u \in todo'[d] : u.sticky = sticky[u.lead] /\ bind'[d][u.lead] = NoAcct
    BY <1>1, <1>2, <2>2 DEF Bound
  <2>4. \A l \in Leads : bind'[d][l] # NoAcct => sticky[l] = NoAcct
    BY <2>1, <2>2 DEF Bound
  <2>5. ASSUME NEW b \in Accounts, NEW p \in DOMAIN batch[d][b]
        PROVE  InHand(d, batch[d][b][p].lead, b)'
    <3>1. PICK l \in Leads : l = batch[d][b][p].lead
      BY EmailTypes DEF Email
    <3>2. InHand(d, l, b)
      BY <3>1 DEF Bound
    <3>3. l = t.lead => sticky[l] = b
      BY <2>1, <3>2, ConstantsAssumption DEF InHand
    <3>4. sticky[l] = b \/ (sticky[l] = NoAcct /\ bind'[d][l] = b)
      BY <2>2, <3>2, <3>3 DEF InHand
    <3>. QED
      BY <3>1, <3>4 DEF InHand
  <2>. QED
    BY <1>1, <2>3, <2>4, <2>5 DEF Bound
<1>. QED
  BY <1>3, <1>4 DEF Binding

LEMMA BoundStep ==
  ASSUME SenderInv, Undisturbed, [Next]_vars, NEW d \in Dispatchers
  PROVE  Bound(d)'
<1>0. /\ TypeOK /\ Bound(d) /\ todo \in [Dispatchers -> SUBSET Snapshot]
      /\ dpc \in [Dispatchers -> {"idle", "load", "select", "suppress", "assign",
                                  "claim", "enqueue", "complete", "release"}]
  BY DEF SenderInv, LockInv, Pinned, TypeOK, DispatchTypeOK, LeadTypeOK
<1>1. \A t \in todo[d] : t \in Snapshot /\ t.lead \in Leads
  BY <1>0 DEF Snapshot
<1>2. CASE Halted(d)
  <2>1. CASE Idle(d)
    BY <1>2, <2>1 DEF SenderInv, Fresh, Halted, Bound, Idle
  <2>2. CASE ~Idle(d)
    <3>1. ~DBind(d)
      BY <1>0, <1>2 DEF DBind, Persist, Halted
    <3>2. UNCHANGED sticky
      BY <2>2, <3>1, StickyKept
    <3>. QED
      BY <1>0, <1>2, <3>2 DEF Bound, InHand, Halted
  <2>. QED
    BY <2>1, <2>2
<1>3. CASE DCrash(d) \/ DRelease(d)
  BY <1>0, <1>3 DEF DCrash, DRelease, Forget, Bound
<1>4. CASE DAbort(d) \/ DBindFails(d)
  BY <1>4 DEF DAbort, DBindFails, Strikes, Undisturbed
<1>5. CASE DAcquire(d) \/ DLoad(d) \/ DSkipCampaign(d)
  <2>1. todo[d] = {}
    BY <1>5 DEF DAcquire, DLoad, DSkipCampaign, SenderInv, Fresh, Idle
  <2>2. UNCHANGED todo /\ dpc'[d] \notin {"suppress", "assign"}
    BY <1>0, <1>5 DEF DAcquire, DLoad, DSkipCampaign
  <2>. QED
    BY <2>1, <2>2 DEF Bound
<1>6. CASE DSelect(d)
  <2>1. /\ \A t \in todo'[d] : t.lead \in Leads
                    /\ t = [lead |-> t.lead, step |-> step[t.lead], sticky |-> sticky[t.lead]]
        /\ UNCHANGED <<bind, sticky>> /\ dpc'[d] # "assign" /\ bind[d] = NoBind
    BY <1>0, <1>6, SelectRows DEF DSelect, DueLeads, SenderInv, Fresh
  <2>2. \A t \in todo'[d] : t.sticky = sticky[t.lead]
    BY <2>1
  <2>3. \A t, u \in todo'[d] : t.lead = u.lead => t = u
    BY <2>1
  <2>. QED
    BY <2>1, <2>2, <2>3 DEF Bound, NoBind
<1>7. CASE DSuppress(d)
  <2>1. todo'[d] \subseteq todo[d] /\ UNCHANGED <<sticky, bind, batch>> /\ dpc[d] = "suppress"
    BY <1>0, <1>7 DEF DSuppress
  <2>2. batch[d] = NoBatch /\ bind[d] = NoBind
    BY <2>1 DEF SenderInv, Fresh
  <2>3. \A a \in Accounts : DOMAIN batch[d][a] = {}
    <3>1. DOMAIN <<>> = {}
      OBVIOUS
    <3>. QED
      BY <2>2, <3>1 DEF NoBatch
  <2>. QED
    BY <1>0, <1>1, <2>1, <2>2, <2>3 DEF Bound, NoBind
<1>8. ASSUME NEW t \in todo[d], NEW a \in Accounts, DFinishLead(d, t, a) \/ DBlank(d, t, a)
      PROVE  Bound(d)'
  <2>1. /\ dpc[d] = "assign" /\ UNCHANGED <<dpc, sticky, batch>>
        /\ Taken(d, {t}) /\ Binding(d, t, a)
    BY <1>8 DEF DFinishLead, DBlank, AtRow
  <2>. QED
    BY <1>0, <1>1, <2>1, TakenBound
<1>9. ASSUME NEW t \in todo[d], DLostMailbox(d, t) \/ DWaitSticky(d, t) \/ DFull(d, t)
      PROVE  Bound(d)'
  <2>1. /\ dpc[d] = "assign" /\ UNCHANGED <<dpc, sticky, batch, bind>>
        /\ \E rows : t \in rows /\ Taken(d, rows)
    BY <1>9 DEF DLostMailbox, DWaitSticky, DFull, AtRow, leadVars
  <2>. QED
    BY <1>0, <1>1, <2>1, TakenBound
<1>10. ASSUME NEW t \in todo[d], NEW a \in Accounts, DPlace(d, t, a) PROVE Bound(d)'
  <2>1. /\ dpc[d] = "assign" /\ UNCHANGED <<dpc, sticky>>
        /\ Taken(d, {t}) /\ Binding(d, t, a) /\ t.sticky \in {NoAcct, a}
    BY <1>10 DEF DPlace, AtRow, Chosen, leadVars
  <2>2. /\ \A u \in todo[d], v \in todo[d] : u.lead = v.lead => u = v
        /\ t \notin todo'[d] /\ todo'[d] \subseteq todo[d]
    BY <1>0, <2>1 DEF Bound, Taken
  <2>3. /\ sticky[t.lead] = t.sticky /\ bind[d][t.lead] = NoAcct
        /\ bind \in [Dispatchers -> [Leads -> Accounts \cup {NoAcct}]]
    BY <1>0, <2>1 DEF Bound, TypeOK, DispatchTypeOK
  <2>4. /\ \A l \in Leads \ {t.lead} : bind'[d][l] = bind[d][l]
        /\ bind'[d][t.lead] = IF t.sticky = NoAcct THEN a ELSE NoAcct
    BY <1>1, <2>1, <2>3 DEF Binding
  <2>5. \A u \in todo'[d] : u.sticky = sticky[u.lead] /\ bind'[d][u.lead] = NoAcct
    BY <1>0, <1>1, <2>1, <2>2, <2>4 DEF Bound
  <2>6. \A l \in Leads : bind'[d][l] # NoAcct => sticky[l] = NoAcct
    BY <1>0, <2>1, <2>3, <2>4 DEF Bound
  <2>7. ASSUME NEW b \in Accounts, NEW p \in DOMAIN batch'[d][b]
        PROVE  InHand(d, batch[d][b][p].lead, b)'
    <3>1. CASE p \in DOMAIN batch[d][b] /\ batch'[d][b][p] = batch[d][b][p]
      <4>1. PICK l \in Leads : l = batch[d][b][p].lead
        BY <1>0, <3>1, EmailTypes DEF Email
      <4>2. InHand(d, l, b)
        BY <1>0, <2>1, <3>1, <4>1 DEF Bound
      <4>3. l = t.lead => sticky[l] = b
        BY <2>3, <4>2, ConstantsAssumption DEF InHand
      <4>4. sticky[l] = b \/ (sticky[l] = NoAcct /\ bind'[d][l] = b)
        BY <2>4, <4>2, <4>3 DEF InHand
      <4>. QED
        BY <2>1, <3>1, <4>1, <4>4 DEF InHand
    <3>2. CASE b = a /\ batch'[d][b][p].lead = t.lead
      <4>1. sticky[t.lead] = a \/ (sticky[t.lead] = NoAcct /\ bind'[d][t.lead] = a)
        BY <2>1, <2>3, <2>4
      <4>. QED
        BY <2>1, <3>2, <4>1 DEF InHand
    <3>. QED
      BY <1>0, <1>10, <2>7, <3>1, <3>2, PlaceMoves
  <2>. QED
    BY <2>1, <2>2, <2>5, <2>6, <2>7 DEF Bound
<1>11. CASE DBind(d) \/ DCount(d) \/ DComplete(d) \/ \E a \in Accounts : DClaim(d, a)
  <2>1. UNCHANGED todo /\ dpc'[d] \notin {"suppress", "assign"}
    BY <1>0, <1>11 DEF DBind, Persist, DCount, DComplete, DClaim
  <2>. QED
    BY <1>0, <2>1 DEF Bound
<1>12. ASSUME NEW j \in Slots, DEnqueue(d, j) PROVE Bound(d)'
  <2>1. UNCHANGED todo /\ dpc'[d] \notin {"suppress", "assign"}
    BY <1>0, <1>12 DEF DEnqueue
  <2>. QED
    BY <1>0, <2>1 DEF Bound
<1>. QED
  BY <1>0, <1>2, <1>3, <1>4, <1>5, <1>6, <1>7, <1>8, <1>9, <1>10, <1>11, <1>12, TickSteps DEF Dispatch

\* The binding is written before the first batch is claimed.
LEMMA AddressedStep ==
  ASSUME SenderInv, Undisturbed, [Next]_vars, NEW d \in Dispatchers
  PROVE  Addressed(d)'
<1>0. /\ TypeOK /\ Bound(d) /\ Addressed(d)
      /\ dpc \in [Dispatchers -> {"idle", "load", "select", "suppress", "assign",
                                  "claim", "enqueue", "complete", "release"}]
  BY DEF SenderInv, LockInv, Pinned, TypeOK, DispatchTypeOK
<1>1. ASSUME NEW a \in Accounts, NEW p \in DOMAIN batch[d][a], dpc[d] \in {"claim", "enqueue"}
      PROVE  sticky'[batch[d][a][p].lead] = a
  <2>1. PICK l \in Leads : l = batch[d][a][p].lead
    BY <1>0, EmailTypes DEF Email
  <2>2. sticky[l] = a /\ a # NoAcct
    BY <1>0, <1>1, <2>1, ConstantsAssumption DEF Addressed
  <2>. QED
    BY <2>1, <2>2, StickyStays
<1>2. ASSUME dpc[d] \in {"claim", "enqueue"},
             \A a \in Accounts : \A p \in DOMAIN batch'[d][a] :
               p \in DOMAIN batch[d][a] /\ batch'[d][a][p] = batch[d][a][p]
      PROVE  Addressed(d)'
  BY <1>1, <1>2 DEF Addressed
<1>3. CASE Halted(d)
  BY <1>2, <1>3 DEF Halted, Addressed
<1>4. CASE DBind(d)
  <2>1. /\ dpc[d] = "assign" /\ UNCHANGED batch
        /\ sticky' = [l \in Leads |-> IF l \in ToBind(d) THEN bind[d][l] ELSE sticky[l]]
    BY <1>4 DEF DBind, Persist
  <2>2. ASSUME NEW a \in Accounts, NEW p \in DOMAIN batch[d][a]
        PROVE  sticky'[batch[d][a][p].lead] = a
    <3>1. PICK l \in Leads : l = batch[d][a][p].lead
      BY <1>0, EmailTypes DEF Email
    <3>2. InHand(d, l, a) /\ (bind[d][l] # NoAcct => sticky[l] = NoAcct) /\ a # NoAcct
      BY <1>0, <2>1, <3>1, ConstantsAssumption DEF Bound
    <3>3. sticky'[l] = a
      BY <2>1, <3>2 DEF InHand, ToBind
    <3>. QED
      BY <3>1, <3>3
  <2>. QED
    BY <2>1, <2>2 DEF Addressed
<1>5. ASSUME NEW a \in Accounts, DClaim(d, a) PROVE Addressed(d)'
  <2>1. dpc[d] = "claim" /\ UNCHANGED batch
    BY <1>5 DEF DClaim
  <2>. QED
    BY <1>2, <2>1
<1>6. ASSUME NEW j \in Slots, DEnqueue(d, j) PROVE Addressed(d)'
  BY <1>0, <1>2, <1>6, EnqueueMoves DEF MailKept, DEnqueue
<1>7. CASE \/ DAcquire(d) \/ DLoad(d) \/ DSkipCampaign(d) \/ DSelect(d) \/ DCount(d)
           \/ DComplete(d) \/ DRelease(d) \/ DCrash(d) \/ DAbort(d) \/ DBindFails(d)
  <2>1. dpc'[d] \notin {"claim", "enqueue"}
    BY <1>0, <1>7 DEF DAcquire, DLoad, DSkipCampaign, DSelect, DCount, DComplete, DRelease, Forget,
       DCrash, DAbort, DBindFails, Strikes, Undisturbed
  <2>. QED
    BY <2>1 DEF Addressed
<1>8. CASE DSuppress(d)
  <2>1. dpc'[d] \in {"assign", "release"}
    BY <1>0, <1>8 DEF DSuppress
  <2>. QED
    BY <2>1 DEF Addressed
<1>9. dpc[d] = "assign" /\ UNCHANGED dpc => Addressed(d)'
  BY DEF Addressed
<1>10. ASSUME NEW t \in todo[d], DLostMailbox(d, t) \/ DWaitSticky(d, t) \/ DFull(d, t)
       PROVE  Addressed(d)'
  BY <1>9, <1>10 DEF DLostMailbox, DWaitSticky, DFull, AtRow
<1>11. ASSUME NEW t \in todo[d], NEW a \in Accounts,
              DPlace(d, t, a) \/ DFinishLead(d, t, a) \/ DBlank(d, t, a)
       PROVE  Addressed(d)'
  BY <1>9, <1>11 DEF DPlace, DFinishLead, DBlank, AtRow
<1>12. CASE Dispatch(d)
  BY <1>4, <1>5, <1>6, <1>7, <1>8, <1>10, <1>11, <1>12 DEF Dispatch
<1>. QED
  BY <1>0, <1>3, <1>7, <1>12, TickSteps

\* A job carries its batch in the hands it was addressed to.
LEMMA HeldStep ==
  ASSUME SenderInv, Undisturbed, [Next]_vars, NEW j \in Slots
  PROVE  Held(j)'
<1>0. /\ TypeOK /\ Held(j)
      /\ jpc \in [Slots -> {"free", "queued"} \cup Running]
      /\ jacct \in [Slots -> Accounts \cup {NoAcct}] /\ jmail \in [Slots -> Seq(Email)]
  BY DEF SenderInv, LockInv, Pinned, TypeOK, JobTypeOK
<1>1. ASSUME NEW k \in Slots, jpc[k] # "free", jmail'[j] = jmail[k], jacct'[j] = jacct[k]
      PROVE  Held(j)'
  <2>1. jacct[k] \in Accounts /\ Held(k)
    BY <1>0, <1>1, CurType DEF TypeOK, SenderInv, Pinned
  <2>2. ASSUME NEW p \in DOMAIN jmail[k] PROVE sticky'[jmail[k][p].lead] = jacct[k]
    <3>1. PICK l \in Leads : l = jmail[k][p].lead
      <4>1. jmail[k] \in Seq(Email)
        BY <1>0
      <4>2. jmail[k][p] \in Email
        BY <4>1
      <4>. QED
        BY <4>2 DEF Email
    <3>2. sticky[l] = jacct[k] /\ sticky[l] # NoAcct
      BY <1>1, <2>1, <3>1, ConstantsAssumption DEF Held
    <3>. QED
      BY <3>1, <3>2, StickyStays
  <2>. QED
    BY <1>1, <2>2 DEF Held
<1>2. CASE jpc'[j] = "free"
  BY <1>2 DEF Held
<1>3. CASE Still(j)
  BY <1>1, <1>2, <1>3 DEF Still
<1>4. ASSUME jpc[j] # "free",
             NextEmail(j) \/ FreeSlot(j) \/ (\E pc \in Running : Goto(j, pc))
      PROVE  Held(j)'
  <2>1. CASE FreeSlot(j)
    BY <1>0, <1>2, <2>1 DEF FreeSlot
  <2>2. CASE UNCHANGED <<jmail, jacct>>
    BY <1>1, <1>4, <2>2
  <2>. QED
    BY <1>4, <2>1, <2>2 DEF NextEmail, Goto
<1>5. CASE Work(j)
  <2>1. jpc[j] # "free" /\ (NextEmail(j) \/ FreeSlot(j) \/ (\E pc \in Running : Goto(j, pc)))
    BY <1>5 DEF Work, JStart, JSkipBatch, JBlank, JNonCompliant, JDefer, JBlock, JPass, JDedupe,
       JAdvance, JBlankSubject, JSendOk, JSendSoft, JSendHard, JBounce, JRecord, JRollback,
       Running, At
  <2>. QED
    BY <1>4, <2>1
<1>6. ASSUME NEW d \in Dispatchers, DEnqueue(d, j) PROVE Held(j)'
  <2>1. /\ dpc[d] = "enqueue" /\ dcur[d] \in Accounts
        /\ jmail'[j] = batch[d][dcur[d]] /\ jacct'[j] = dcur[d]
    BY <1>0, <1>6, EnqueueMoves DEF DEnqueue
  <2>2. UNCHANGED sticky /\ Addressed(d)
    BY <1>6 DEF DEnqueue, leadVars, SenderInv, Pinned
  <2>. QED
    BY <2>1, <2>2 DEF Held, Addressed
<1>7. CASE JCrash(j)
  <2>1. jpc[j] # "free" /\ (FreeSlot(j) \/ UNCHANGED <<jmail, jacct>>)
    BY <1>7 DEF JCrash, Running
  <2>. QED
    BY <1>1, <1>4, <2>1
<1>8. CASE JProvisionFails(j) \/ JFails(j)
  BY <1>8 DEF JProvisionFails, JFails, Strikes, Undisturbed
<1>9. ASSUME NEW k \in Slots, JStall(k, j) PROVE Held(j)'
  BY <1>0, <1>1, <1>9 DEF JStall, Running
<1>. QED
  BY <1>0, <1>3, <1>5, <1>6, <1>7, <1>8, <1>9, JobSteps

\* What is recorded is recorded for the mailbox of the lead.
LEMMA SenderStep ==
  ASSUME SenderInv, Undisturbed, [Next]_vars
  PROVE  SenderInv'
<1>0. TypeOK /\ sendEvent \in [Mail -> Accounts \cup {NoAcct}]
  BY DEF SenderInv, LockInv, TypeOK, DataTypeOK
<1>1. LockInv'
  BY TypeStep, LockStep DEF SenderInv, LockInv, Undisturbed
<1>2. restarting' = {}
  BY RestKept DEF SenderInv, Undisturbed
<1>3. Fresh'
  BY <1>0, FreshStep DEF SenderInv
<1>4. ASSUME NEW m \in Mail PROVE sendEvent'[m] \in {NoAcct, sticky'[m[1]]}
  <2>1. CASE sendEvent'[m] = sendEvent[m]
    <3>1. m[1] \in Leads /\ sendEvent[m] \in {NoAcct, sticky[m[1]]}
      BY DEF SenderInv, Pinned, Mail
    <3>. QED
      BY <2>1, <3>1, StickyStays
  <2>2. ASSUME NEW j \in Slots, JRecord(j) PROVE sendEvent'[m] \in {NoAcct, sticky'[m[1]]}
    <3>1. jpc[j] # "free" /\ UNCHANGED sticky /\ sendEvent' = [sendEvent EXCEPT ![Key(Cur(j))] = jacct[j]]
      BY <2>2 DEF JRecord, At
    <3>2. /\ Cur(j) \in Email /\ Cur(j) = jmail[j][jpos[j]] /\ jpos[j] \in DOMAIN jmail[j]
      BY <1>0, <3>1, CurType DEF TypeOK, Cur
    <3>3. sticky[Cur(j).lead] = jacct[j]
      BY <3>1, <3>2 DEF SenderInv, Pinned, Held
    <3>4. m = Key(Cur(j)) => sendEvent'[m] = sticky[m[1]]
      BY <1>0, <3>1, <3>3 DEF Key
    <3>5. m # Key(Cur(j)) => sendEvent'[m] = sendEvent[m]
      BY <1>0, <3>1
    <3>. QED
      BY <3>1, <3>4, <3>5 DEF SenderInv, Pinned
  <2>. QED
    BY <2>1, <2>2, RecordSteps DEF SenderInv
<1>5. Pinned'
  BY <1>4, BoundStep, AddressedStep, HeldStep DEF Pinned
<1>. QED
  BY <1>1, <1>2, <1>3, <1>5 DEF SenderInv

LEMMA SenderInit == Init => SenderInv
<1>. SUFFICES ASSUME Init PROVE SenderInv
  OBVIOUS
<1>1. LockInv /\ Fresh
  BY CarryInit DEF CarryInv
<1>2. \A d \in Dispatchers : todo[d] = {} /\ dpc[d] = "idle"
  BY DEF Init
<1>3. \A j \in Slots : jpc[j] = "free"
  BY DEF Init
<1>4. restarting = {} /\ \A m \in Mail : sendEvent[m] = NoAcct
  BY DEF Init
<1>. QED
  BY <1>1, <1>2, <1>3, <1>4 DEF SenderInv, Pinned, Bound, Addressed, Held

\* All the steps a lead gets are recorded for one mailbox, even if jobs run again after
\* crashes and stalls and mailboxes are paused, detached and deleted meanwhile.  What
\* breaks it is a binding that fails while its email goes out, a second tick beside the
\* first, and the decisions that give the lead a new mailbox on purpose.
THEOREM OneSender ==
  ASSUME Undisturbed
  PROVE  Spec => []SingleSender
<1>1. SenderInv /\ [Next]_vars => SenderInv'
  BY SenderStep
<1>2. SenderInv => SingleSender
  <2>1. ASSUME SenderInv, NEW l \in Leads, NEW s \in Steps, NEW t \in Steps,
               Recorded(<<l, s>>), Recorded(<<l, t>>)
        PROVE  sendEvent[<<l, s>>] = sendEvent[<<l, t>>]
    <3>1. <<l, s>> \in Mail /\ <<l, t>> \in Mail
      BY DEF Mail
    <3>. QED
      BY <2>1, <3>1 DEF SenderInv, Pinned, Recorded
  <2>. QED
    BY <2>1 DEF SingleSender
<1>. QED
  BY <1>1, <1>2, SenderInit, PTL DEF Spec

-----------------------------------------------------------------------------
(* One delivery of a step                                                  *)

\* Besides, no worker dies with an email out and not recorded.
Orderly == Timely /\ Undisturbed /\ RunsOnce /\ "crash" \notin Events

\* No account comes back from its deletion.
LEMMA DeletedStays ==
  ASSUME TypeOK, [Next]_vars, NEW a \in Accounts, mbox[a] = "deleted"
  PROVE  mbox'[a] = "deleted"
<1>. USE DEF TypeOK, DataTypeOK
<1>1. ASSUME NEW b \in Accounts,
             \/ PauseMailbox(b) \/ RecoverMailbox(b) \/ DetachMailbox(b) \/ AttachMailbox(b)
             \/ DeleteMailbox(b)
      PROVE  mbox'[a] = "deleted"
  BY <1>1 DEF PauseMailbox, RecoverMailbox, DetachMailbox, AttachMailbox, DeleteMailbox, SetMailbox
<1>2. ASSUME NEW d \in Dispatchers, Dispatch(d) PROVE UNCHANGED mbox
  BY <1>2 DEF Dispatch, DAcquire, DLoad, DSkipCampaign, DSelect, DSuppress, DPlace, DFinishLead,
     DBlank, DLostMailbox, DWaitSticky, DFull, DBind, Persist, DClaim, DEnqueue, DCount,
     DComplete, DRelease, dataVars
<1>3. ASSUME NEW j \in Slots, Work(j) PROVE UNCHANGED mbox
  BY <1>3 DEF Work, JStart, JSkipBatch, JBlank, JNonCompliant, JDefer, JBlock, JPass, JDedupe,
     JAdvance, JBlankSubject, JSendOk, JSendSoft, JSendHard, JBounce, JRecord, JRollback, dataVars
<1>4. ASSUME Fault PROVE UNCHANGED mbox
  BY <1>4 DEF Fault, DCrash, DAbort, DBindFails, Persist, JCrash, JProvisionFails, JFails, JStall,
     dataVars
<1>5. CASE \/ \E l \in Leads : \/ Reply(l) \/ PauseLead(l) \/ Unsubscribe(l) \/ AsyncBounce(l)
                               \/ EnrollCheck(l) \/ EnrollCreate(l) \/ BecomeDue(l)
           \/ \E b \in Accounts : ResolveStop(b) \/ ResolveContinue(b) \/ RestartRead(b)
           \/ RestartWrite \/ PauseCampaign \/ ResumeCampaign \/ LaunchCampaign \/ EditSequence
           \/ LockExpire \/ UNCHANGED vars
  <2>1. UNCHANGED mbox
    BY <1>5 DEF Reply, PauseLead, Unsubscribe, AsyncBounce, ResolveStop, ResolveContinue,
       RestartRead, RestartWrite, PauseCampaign, ResumeCampaign, LaunchCampaign, SetCampaign,
       EditSequence, EnrollCheck, EnrollCreate, LockExpire, BecomeDue, vars, dataVars
  <2>. QED
    BY <2>1
<1>6. CASE Environment
  BY <1>1, <1>5, <1>6 DEF Environment
<1>. QED
  BY <1>2, <1>3, <1>4, <1>5, <1>6 DEF Next

\* Without restarts what is recorded stays recorded, for the mailbox it was.
LEMMA RecordStays ==
  ASSUME TypeOK, restarting = {}, [Next]_vars, NEW m \in Mail, Recorded(m)
  PROVE  Recorded(m)'
<1>1. sendEvent \in [Mail -> Accounts \cup {NoAcct}]
  BY DEF TypeOK, DataTypeOK
<1>2. ASSUME NEW j \in Slots, JRecord(j) PROVE Recorded(m)'
  <2>1. jacct[j] \in Accounts
    BY <1>2, CurType DEF JRecord, At, TypeOK
  <2>. QED
    BY <1>1, <1>2, <2>1, ConstantsAssumption DEF JRecord, Recorded
<1>. QED
  BY <1>2, RecordSteps DEF Recorded

\* The email a job is at is the only one for its lead in all the jobs.
LEMMA OwnEmail ==
  ASSUME TypeOK, OneJob, NEW j \in Slots, jpc[j] # "free"
  PROVE  /\ Cur(j) \in Email /\ Key(Cur(j)) \in Mail
         /\ jpos[j] \in Ahead(j) /\ Cur(j) = jmail[j][jpos[j]]
         /\ \A k \in Slots : \A p \in Ahead(k) :
              jmail[k][p].lead = Cur(j).lead => k = j /\ p = jpos[j]
<1>1. Cur(j) \in Email /\ Cur(j) = jmail[j][jpos[j]]
  BY CurType DEF TypeOK, Cur
<1>2. Key(Cur(j)) \in Mail
  BY <1>1 DEF Email, Key, Mail
<1>3. jpos[j] \in Ahead(j)
  <2>1. jmail[j] \in Seq(Email) /\ jpos[j] \in Nat \ {0} /\ jpos[j] <= Len(jmail[j])
    BY DEF TypeOK, JobTypeOK
  <2>. QED
    BY <2>1 DEF Ahead
<1>. QED
  BY <1>1, <1>2, <1>3 DEF OneJob

\* The deliveries of one step of one lead are counted when its own job sends it.
LEMMA DeliveredSteps ==
  ASSUME TypeOK, OneJob, restarting = {}, [Next]_vars, NEW m \in Mail
  PROVE  \/ delivered'[m] = delivered[m]
         \/ \E j \in Slots : /\ JSendOk(j) /\ m = Key(Cur(j))
                             /\ delivered'[m] = Lesser(delivered[m] + 1, 2)
<1>1. delivered \in [Mail -> 0..2]
  BY DEF TypeOK, RestTypeOK
<1>2. ASSUME NEW j \in Slots, JSendOk(j)
      PROVE  \/ delivered'[m] = delivered[m]
             \/ m = Key(Cur(j)) /\ delivered'[m] = Lesser(delivered[m] + 1, 2)
  BY <1>1, <1>2 DEF JSendOk
<1>. QED
  BY <1>2, DeliverySteps DEF histVars

\* What an email sent has been before: never sent.
LEMMA SentFirst ==
  ASSUME OnceInv, NEW j \in Slots, JSendOk(j)
  PROVE  /\ jpc[j] = "send" /\ ~Recorded(Key(Cur(j))) /\ delivered[Key(Cur(j))] = 0
         /\ delivered' = [delivered EXCEPT ![Key(Cur(j))] = 1]
<1>1. /\ TypeOK /\ OneJob /\ jpc[j] = "send" /\ jpc[j] # "free"
      /\ delivered' = [delivered EXCEPT ![Key(Cur(j))] = Lesser(@ + 1, 2)]
  BY DEF OnceInv, CarryInv, LockInv, Sole, JSendOk, At
<1>2. jpos[j] \in Ahead(j) /\ Cur(j) = jmail[j][jpos[j]] /\ Key(Cur(j)) \in Mail
  BY <1>1, OwnEmail
<1>3. ~Recorded(Key(Cur(j)))
  BY <1>1 DEF OnceInv, Deduped
<1>4. delivered[Key(Cur(j))] = 0
  BY <1>1, <1>2, <1>3 DEF OnceInv, Unsent, Running
<1>5. Lesser(0 + 1, 2) = 1
  BY DEF Lesser
<1>. QED
  BY <1>1, <1>3, <1>4, <1>5

\* An email that goes out is on its way to the record; there it is recorded, or the
\* account was deleted, and then no job of that mailbox starts any more.
LEMMA AccountedStep ==
  ASSUME OnceInv, Orderly, [Next]_vars
  PROVE  Accounted'
<1>0. /\ TypeOK /\ OneJob /\ restarting = {} /\ SenderInv /\ Undisturbed
      /\ delivered \in [Mail -> 0..2] /\ jpc \in [Slots -> {"free", "queued"} \cup Running]
  BY DEF OnceInv, CarryInv, LockInv, Sole, SenderInv, TypeOK, RestTypeOK, JobTypeOK, Orderly
<1>. SUFFICES ASSUME NEW m \in Mail, delivered'[m] # 0
              PROVE  /\ delivered'[m] = 1
                     /\ \/ Recorded(m)'
                        \/ \E j \in Slots : jpc'[j] = "record" /\ Key(Cur(j))' = m
                        \/ sticky'[m[1]] \in Accounts /\ mbox'[sticky'[m[1]]] = "deleted"
  BY DEF Accounted
<1>1. ASSUME NEW j \in Slots, JSendOk(j), m = Key(Cur(j))
      PROVE  delivered'[m] = 1 /\ jpc'[j] = "record" /\ Key(Cur(j))' = m
  <2>1. delivered'[m] = 1
    BY <1>0, <1>1, SentFirst
  <2>2. jpc'[j] = "record" /\ UNCHANGED <<jmail, jpos>>
    BY <1>0, <1>1 DEF JSendOk, Goto
  <2>. QED
    BY <1>1, <2>1, <2>2 DEF Cur, Key
<1>2. CASE delivered'[m] = delivered[m]
  <2>1. delivered[m] = 1
    BY <1>2 DEF OnceInv, Accounted
  <2>2. CASE Recorded(m)
    BY <1>0, <1>2, <2>1, <2>2, RecordStays
  <2>3. ASSUME NEW j \in Slots, jpc[j] = "record", Key(Cur(j)) = m
        PROVE  \/ Recorded(m)'
               \/ jpc'[j] = "record" /\ Key(Cur(j))' = m
               \/ sticky'[m[1]] \in Accounts /\ mbox'[sticky'[m[1]]] = "deleted"
    <3>1. CASE Still(j)
      BY <2>3, <3>1 DEF Still, Cur, Key
    <3>2. CASE JRecord(j)
      <4>1. jacct[j] \in Accounts /\ sendEvent \in [Mail -> Accounts \cup {NoAcct}]
        BY <1>0, <2>3, CurType DEF TypeOK, DataTypeOK
      <4>. QED
        BY <2>3, <3>2, <4>1, ConstantsAssumption DEF JRecord, Recorded
    <3>3. CASE JRollback(j)
      <4>1. mbox[jacct[j]] = "deleted" /\ UNCHANGED <<mbox, sticky>>
        BY <2>3, <3>3 DEF JRollback, OnceInv, Deduped, leadVars, dataVars
      <4>2. /\ jpos[j] \in DOMAIN jmail[j] /\ jacct[j] \in Accounts
            /\ Cur(j) = jmail[j][jpos[j]]
        BY <1>0, <2>3, CurType DEF TypeOK, Cur
      <4>3. sticky[m[1]] = jacct[j]
        BY <1>0, <2>3, <4>2 DEF SenderInv, Pinned, Held, Key
      <4>. QED
        BY <4>1, <4>2, <4>3
    <3>4. ASSUME Work(j) PROVE JRecord(j) \/ JRollback(j)
      BY <2>3, <3>4 DEF Work, JStart, JSkipBatch, JBlank, JNonCompliant, JDefer, JBlock, JPass,
         JDedupe, JAdvance, JBlankSubject, JSendOk, JSendSoft, JSendHard, JBounce, At
    <3>5. \A d \in Dispatchers : ~DEnqueue(d, j)
      BY <2>3 DEF DEnqueue
    <3>6. ~JCrash(j) /\ ~JProvisionFails(j) /\ ~JFails(j) /\ \A k \in Slots : ~JStall(k, j)
      BY <2>3 DEF JCrash, JProvisionFails, JFails, JStall, Strikes, Orderly, Undisturbed
    <3>. QED
      BY <1>0, <3>1, <3>2, <3>3, <3>4, <3>5, <3>6, JobSteps
  <2>4. ASSUME sticky[m[1]] \in Accounts, mbox[sticky[m[1]]] = "deleted"
        PROVE  sticky'[m[1]] \in Accounts /\ mbox'[sticky'[m[1]]] = "deleted"
    <3>1. m[1] \in Leads /\ sticky[m[1]] # NoAcct
      BY <2>4, ConstantsAssumption DEF Mail
    <3>2. sticky'[m[1]] = sticky[m[1]]
      BY <1>0, <3>1, StickyStays
    <3>. QED
      BY <1>0, <2>4, <3>2, DeletedStays
  <2>. QED
    BY <1>2, <2>1, <2>2, <2>3, <2>4 DEF OnceInv, Accounted
<1>. QED
  BY <1>0, <1>1, <1>2, DeliveredSteps

\* What a running worker does to the job it is at.
LEMMA RunSteps ==
  ASSUME TypeOK, NEW j \in Slots, Work(j)
  PROVE  \/ JStart(j)
         \/ jpc[j] \in Running /\ Goto(j, "record") /\ JSendOk(j)
         \/ jpc[j] \in Running /\ Goto(j, "bounce") /\ JSendHard(j)
         \/ jpc[j] \in Running /\ Goto(j, "send") /\ JDedupe(j) /\ ~Recorded(Key(Cur(j)))
         \/ jpc[j] \in Running \ {"record"} /\ \E pc \in {"dedupe", "advance"} : Goto(j, pc)
         \/ jpc[j] \in Running /\ NextEmail(j)
         \/ FreeSlot(j)
<1>1. JDedupe(j) => \/ Goto(j, "advance") \/ (Goto(j, "send") /\ ~Recorded(Key(Cur(j))))
  BY DEF JDedupe
<1>. QED
  BY <1>1 DEF Work, JStart, JSkipBatch, JBlank, JNonCompliant, JDefer, JBlock, JPass, JDedupe,
     JAdvance, JBlankSubject, JSendOk, JSendSoft, JSendHard, JBounce, JRecord, JRollback,
     Running, At

\* An email a worker has ahead of it was never sent, or is recorded and will be found.
LEMMA UnsentStep ==
  ASSUME OnceInv, Orderly, [Next]_vars
  PROVE  Unsent'
<1>0. /\ TypeOK /\ TypeOK' /\ OneJob /\ restarting = {} /\ SenderInv
      /\ jpc \in [Slots -> {"free", "queued"} \cup Running]
      /\ jpos \in [Slots -> Nat \ {0}] /\ jmail \in [Slots -> Seq(Email)]
  BY TypeStep DEF OnceInv, CarryInv, LockInv, Sole, SenderInv, TypeOK, JobTypeOK
<1>. SUFFICES ASSUME NEW j \in Slots, jpc'[j] \in Running, NEW p \in Ahead(j)',
                     ~(jpc'[j] = "record" /\ p = jpos'[j])
              PROVE  Recorded(Key(jmail[j][p]))' \/ delivered'[Key(jmail'[j][p])] = 0
  BY DEF Unsent
\* An email that stays where it is can be sent by its own job only.
<1>1. ASSUME jmail'[j] = jmail[j], p \in Ahead(j), NEW m, m = Key(jmail[j][p]),
             Recorded(m) \/ delivered[m] = 0, ~(JSendOk(j) /\ p = jpos[j])
      PROVE  Recorded(Key(jmail[j][p]))' \/ delivered'[Key(jmail'[j][p])] = 0
  <2>1. jmail[j][p] \in Email /\ m \in Mail /\ m = Key(jmail'[j][p])
    BY <1>0, <1>1, EmailTypes DEF Email, Key, Mail
  <2>2. CASE Recorded(m)
    <3>1. Recorded(m)'
      BY <1>0, <2>1, <2>2, RecordStays
    <3>. QED
      BY <2>1, <3>1 DEF Recorded
  <2>3. CASE delivered[m] = 0
    <3>1. ASSUME NEW k \in Slots, JSendOk(k), m = Key(Cur(k)) PROVE FALSE
      <4>1. jpc[k] # "free"
        BY <3>1 DEF JSendOk, At
      <4>2. jmail[j][p].lead = Cur(k).lead
        BY <1>1, <3>1 DEF Key
      <4>3. j = k /\ p = jpos[k]
        BY <1>0, <1>1, <4>1, <4>2, OwnEmail
      <4>. QED
        BY <1>1, <3>1, <4>3
    <3>2. delivered'[m] = delivered[m]
      BY <1>0, <2>1, <3>1, DeliveredSteps
    <3>. QED
      BY <2>1, <2>3, <3>2
  <2>. QED
    BY <1>1, <2>2, <2>3
<1>2. CASE Still(j)
  <2>1. p \in Ahead(j) /\ jpc[j] \in Running /\ ~(jpc[j] = "record" /\ p = jpos[j])
    BY <1>2 DEF Still, Ahead
  <2>2. ~JSendOk(j)
    BY <1>0, <1>2 DEF Still, JSendOk, Goto, At
  <2>3. Recorded(Key(jmail[j][p])) \/ delivered[Key(jmail[j][p])] = 0
    BY <2>1 DEF OnceInv, Unsent
  <2>. QED
    BY <1>1, <1>2, <2>1, <2>2, <2>3 DEF Still
\* A worker takes up a job only if the mailbox is there, so none of it went out before.
<1>3. CASE JStart(j)
  <2>1. /\ p \in Ahead(j) /\ jmail'[j] = jmail[j] /\ jpc[j] = "queued"
        /\ mbox[jacct[j]] # "deleted" /\ p \in DOMAIN jmail[j]
    BY <1>0, <1>3, EmailTypes DEF JStart, Goto, At, Ahead
  <2>2. ~JSendOk(j)
    BY <2>1 DEF JSendOk, At
  <2>3. PICK m \in Mail : m = Key(jmail[j][p])
    BY <1>0, <2>1, EmailTypes DEF Email, Key, Mail
  <2>4. sticky[m[1]] = jacct[j]
    BY <1>0, <2>1, <2>3 DEF SenderInv, Pinned, Held, Key
  <2>5. ASSUME NEW k \in Slots, jpc[k] = "record", Key(Cur(k)) = m PROVE FALSE
    <3>1. jmail[j][p].lead = Cur(k).lead
      BY <2>3, <2>5 DEF Key
    <3>2. j = k
      BY <1>0, <2>1, <2>5, <3>1, OwnEmail
    <3>. QED
      BY <2>1, <2>5, <3>2
  <2>6. Recorded(m) \/ delivered[m] = 0
    BY <2>1, <2>4, <2>5 DEF OnceInv, Accounted
  <2>. QED
    BY <1>1, <2>1, <2>2, <2>3, <2>6
<1>4. ASSUME jpc[j] \in Running, \/ NextEmail(j) /\ ~JSendOk(j)
                                 \/ Goto(j, "record") /\ JSendOk(j)
                                 \/ Goto(j, "bounce") /\ JSendHard(j)
                                 \/ Goto(j, "send") /\ JDedupe(j)
                                 \/ /\ jpc[j] # "record"
                                    /\ \E pc \in {"dedupe", "advance"} : Goto(j, pc)
      PROVE  Recorded(Key(jmail[j][p]))' \/ delivered'[Key(jmail'[j][p])] = 0
  <2>1. ASSUME NextEmail(j), ~JSendOk(j)
        PROVE  jmail'[j] = jmail[j] /\ p \in Ahead(j) /\ ~(jpc[j] = "record" /\ p = jpos[j])
               /\ ~(JSendOk(j) /\ p = jpos[j])
    <3>1. /\ jmail'[j] = jmail[j] /\ jpos'[j] = jpos[j] + 1
      BY <1>0, <2>1 DEF NextEmail, FreeSlot, Running
    <3>2. Len(jmail[j]) \in Nat /\ jpos[j] \in Nat
      BY <1>0
    <3>. QED
      BY <2>1, <3>1, <3>2 DEF Ahead
  <2>2. ASSUME NEW pc, Goto(j, pc), pc = "record" => JSendOk(j), jpc[j] # "record",
               pc # "record" => ~JSendOk(j)
        PROVE  jmail'[j] = jmail[j] /\ p \in Ahead(j) /\ ~(jpc[j] = "record" /\ p = jpos[j])
               /\ ~(JSendOk(j) /\ p = jpos[j])
    <3>1. jmail'[j] = jmail[j] /\ jpos'[j] = jpos[j] /\ p \in Ahead(j) /\ jpc'[j] = pc
      BY <1>0, <2>2 DEF Goto, Ahead
    <3>. QED
      BY <2>2, <3>1
  <2>3. /\ JSendHard(j) => jpc[j] # "record"
        /\ JDedupe(j) => jpc[j] # "record"
        /\ JSendOk(j) => jpc[j] # "record" /\ Goto(j, "record")
    BY DEF JSendHard, JDedupe, JSendOk, At
  <2>4. \A pc \in {"bounce", "send", "dedupe", "advance"} : Goto(j, pc) => ~Goto(j, "record")
    BY <1>0 DEF Goto
  <2>5. jmail'[j] = jmail[j] /\ p \in Ahead(j) /\ ~(jpc[j] = "record" /\ p = jpos[j])
        /\ ~(JSendOk(j) /\ p = jpos[j])
    BY <1>4, <2>1, <2>2, <2>3, <2>4
  <2>6. Recorded(Key(jmail[j][p])) \/ delivered[Key(jmail[j][p])] = 0
    BY <1>4, <2>5 DEF OnceInv, Unsent
  <2>. QED
    BY <1>1, <2>5, <2>6
<1>5. ~FreeSlot(j)
  BY <1>0 DEF FreeSlot, Running
<1>6. \A d \in Dispatchers : ~DEnqueue(d, j)
  BY <1>0 DEF DEnqueue, Running
<1>7. ~JCrash(j) /\ ~JProvisionFails(j) /\ ~JFails(j) /\ \A k \in Slots : ~JStall(k, j)
  BY <1>0 DEF JCrash, JProvisionFails, JFails, JStall, Strikes, Orderly, Undisturbed, Running
<1>8. NextEmail(j) => ~JSendOk(j)
  <2>1. ~(NextEmail(j) /\ Goto(j, "record"))
    BY <1>0 DEF NextEmail, FreeSlot, Goto
  <2>. QED
    BY <2>1 DEF JSendOk
<1>. QED
  BY <1>0, <1>2, <1>3, <1>4, <1>5, <1>6, <1>7, <1>8, JobSteps, RunSteps

\* No record comes between the dedupe and the record: the only job that could make it
\* is at it.
LEMMA DedupedStep ==
  ASSUME OnceInv, Orderly, [Next]_vars
  PROVE  Deduped'
<1>0. /\ TypeOK /\ OneJob /\ restarting = {}
      /\ jpc \in [Slots -> {"free", "queued"} \cup Running]
      /\ delivered \in [Mail -> 0..2] /\ sendEvent \in [Mail -> Accounts \cup {NoAcct}]
  BY DEF OnceInv, CarryInv, LockInv, Sole, SenderInv, TypeOK, JobTypeOK, RestTypeOK, DataTypeOK
<1>1. ASSUME NEW j \in Slots, jpc'[j] \in {"send", "bounce", "record"}
      PROVE  /\ ~Recorded(Key(Cur(j)))' /\ Cur(j)' = Cur(j)
             /\ jpc'[j] = "record" => delivered'[Key(Cur(j))] = 1
  <2>1. CASE Still(j)
    <3>1. jpc[j] # "free" /\ jpc[j] \in {"send", "bounce", "record"} /\ Cur(j)' = Cur(j)
      BY <1>1, <2>1 DEF Still, Cur
    <3>2. PICK m \in Mail : m = Key(Cur(j))
      BY <1>0, <3>1, OwnEmail
    <3>3. ~Recorded(m) /\ (jpc[j] = "record" => delivered[m] = 1)
      BY <3>1, <3>2 DEF OnceInv, Deduped
    <3>4. ASSUME NEW k \in Slots, JRecord(k) \/ JSendOk(k), Key(Cur(k)) = m PROVE FALSE
      <4>1. jpc[k] # "free" /\ jpos[k] \in Ahead(k) /\ Cur(k) = jmail[k][jpos[k]]
        BY <1>0, <3>4, OwnEmail DEF JRecord, JSendOk, At
      <4>2. k = j
        BY <1>0, <3>1, <3>2, <3>4, <4>1, OwnEmail DEF Key
      <4>3. JRecord(j) => FALSE
        <5>1. JRecord(j) => jpc[j] = "record" /\ jpc'[j] \in {"gate", "free"}
          BY <1>0 DEF JRecord, At, NextEmail, FreeSlot
        <5>. QED
          BY <2>1, <5>1 DEF Still
      <4>4. JSendOk(j) => FALSE
        BY <1>0, <2>1 DEF JSendOk, At, Goto, Still
      <4>. QED
        BY <3>4, <4>2, <4>3, <4>4
    <3>5. sendEvent'[m] = sendEvent[m]
      BY <1>0, <3>4, RecordSteps DEF JRecord
    <3>6. delivered'[m] = delivered[m]
      BY <1>0, <3>4, DeliveredSteps
    <3>. QED
      BY <2>1, <3>1, <3>2, <3>3, <3>5, <3>6 DEF Recorded, Still, Key
  <2>2. CASE Work(j)
    <3>1. CASE JSendOk(j)
      <4>1. UNCHANGED <<sendEvent, jmail, jpos>>
        BY <3>1 DEF JSendOk, Goto, dataVars
      <4>2. ~Recorded(Key(Cur(j))) /\ delivered'[Key(Cur(j))] = 1
        BY <1>0, <3>1, SentFirst, OwnEmail
      <4>. QED
        BY <4>1, <4>2 DEF Cur, Key, Recorded
    <3>2. CASE Goto(j, "bounce") /\ JSendHard(j)
      <4>1. UNCHANGED <<sendEvent, jmail, jpos>> /\ jpc[j] = "send" /\ jpc'[j] = "bounce"
        BY <1>0, <3>2 DEF JSendHard, Goto, dataVars, At
      <4>. QED
        BY <4>1 DEF Cur, Key, Recorded, OnceInv, Deduped
    <3>3. CASE Goto(j, "send") /\ JDedupe(j) /\ ~Recorded(Key(Cur(j)))
      <4>1. UNCHANGED <<sendEvent, jmail, jpos>> /\ jpc'[j] = "send"
        BY <1>0, <3>3 DEF JDedupe, Goto, dataVars
      <4>. QED
        BY <3>3, <4>1 DEF Cur, Key, Recorded
    <3>4. ~JStart(j) /\ ~FreeSlot(j) /\ ~NextEmail(j)
          /\ \A pc \in {"dedupe", "advance"} : ~Goto(j, pc)
      BY <1>0, <1>1 DEF JStart, FreeSlot, NextEmail, Goto
    <3>. QED
      BY <1>0, <2>2, <3>1, <3>2, <3>3, <3>4, RunSteps
  <2>3. \A d \in Dispatchers : ~DEnqueue(d, j)
    BY <1>0, <1>1 DEF DEnqueue
  <2>4. ~JCrash(j) /\ ~JProvisionFails(j) /\ ~JFails(j) /\ \A k \in Slots : ~JStall(k, j)
    BY <1>0, <1>1 DEF JCrash, JProvisionFails, JFails, JStall, Strikes, Orderly, Undisturbed
  <2>. QED
    BY <1>0, <2>1, <2>2, <2>3, <2>4, JobSteps
<1>2. ASSUME NEW m \in Mail, Recorded(m)' PROVE delivered'[m] = 1
  <2>1. CASE Recorded(m)
    <3>1. delivered[m] = 1
      BY <2>1 DEF OnceInv, Deduped
    <3>2. ASSUME NEW k \in Slots, JSendOk(k), m = Key(Cur(k)) PROVE FALSE
      BY <2>1, <3>2, SentFirst
    <3>. QED
      BY <1>0, <3>1, <3>2, DeliveredSteps
  <2>2. CASE ~Recorded(m)
    <3>1. PICK j \in Slots : JRecord(j)
      BY <1>0, <1>2, <2>2, RecordSteps DEF Recorded
    <3>2. m = Key(Cur(j))
      BY <1>0, <1>2, <2>2, <3>1 DEF JRecord, Recorded
    <3>3. jpc[j] = "record" /\ UNCHANGED delivered
      BY <3>1 DEF JRecord, At, histVars
    <3>. QED
      BY <3>2, <3>3 DEF OnceInv, Deduped
  <2>. QED
    BY <2>1, <2>2
<1>3. \A j \in Slots : jpc'[j] = "record" => delivered'[Key(Cur(j))'] = 1
  BY <1>1 DEF Key
<1>. QED
  BY <1>1, <1>2, <1>3 DEF Deduped

LEMMA OnceStep ==
  ASSUME OnceInv, Orderly, [Next]_vars
  PROVE  OnceInv'
<1>1. CarryInv'
  BY CarryStep DEF OnceInv, Orderly
<1>2. SenderInv'
  BY SenderStep DEF OnceInv, Orderly
<1>. QED
  BY <1>1, <1>2, AccountedStep, UnsentStep, DedupedStep DEF OnceInv

LEMMA OnceInit == Init => OnceInv
<1>. SUFFICES ASSUME Init PROVE OnceInv
  OBVIOUS
<1>1. CarryInv /\ SenderInv
  BY CarryInit, SenderInit
<1>2. /\ \A m \in Mail : delivered[m] = 0 /\ ~Recorded(m)
      /\ \A j \in Slots : jpc[j] = "free"
  BY DEF Init, Recorded
<1>. QED
  BY <1>1, <1>2 DEF OnceInv, Accounted, Unsent, Deduped, Running

\* Nobody gets a step twice, although the mail goes out before its record is made and
\* the record can fail: the batch that carries it is the only one, the dedupe looks
\* the record up, and a deleted account's job is not taken up again.  It takes the
\* claim (Timely), one run of each job, and that nothing fails or dies between the
\* SMTP call and the record.
THEOREM DeliversOnce ==
  ASSUME Orderly
  PROVE  Spec => []AtMostOnceDelivery
<1>1. OnceInv /\ [Next]_vars => OnceInv'
  BY OnceStep
<1>2. OnceInv => AtMostOnceDelivery
  <2>1. ASSUME OnceInv, NEW m \in Mail PROVE delivered[m] <= 1
    <3>1. delivered[m] \in {0, 1}
      BY <2>1 DEF OnceInv, Accounted
    <3>. QED
      BY <3>1
  <2>. QED
    BY <2>1 DEF AtMostOnceDelivery
<1>. QED
  BY <1>1, <1>2, OnceInit, PTL DEF Spec

=============================================================================
