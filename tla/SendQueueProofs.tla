-------------------------- MODULE SendQueueProofs --------------------------
(***************************************************************************)
(* Proofs about SendQueue, for every number of leads, mailboxes, workers,  *)
(* overlapping ticks and faults.                                           *)
(***************************************************************************)
EXTENDS SendQueue, FiniteSetTheorems, TLAPS

USE ConstantsAssumption DEF Steps, Mail

-----------------------------------------------------------------------------
(* Types                                                                   *)

\* The count both caps read is a number: there are finitely many mails.
LEMMA SentTodayNat == SentToday \in Nat
<1>1. IsFiniteSet(Mail)
  <2>1. IsFiniteSet(1..NumSteps)
    BY FS_Interval
  <2>2. IsFiniteSet(Leads)
    BY FiniteAssumption
  <2>. QED
    BY <2>1, <2>2, FS_Product
<1>2. IsFiniteSet({m \in Mail : Recorded(m)})
  BY <1>1, FS_Subset
<1>. QED
  BY <1>2, FS_CardinalityType DEF SentToday

\* What no step touches keeps its type.
LEMMA Unchanged ==
  ASSUME TypeOK
  PROVE  /\ UNCHANGED leadVars => LeadTypeOK'
         /\ UNCHANGED <<dataVars, lock>> => DataTypeOK'
         /\ UNCHANGED dispVars => DispatchTypeOK'
         /\ UNCHANGED jobVars => JobTypeOK'
         /\ UNCHANGED <<restVars, histVars>> => RestTypeOK'
<1>1. UNCHANGED leadVars => LeadTypeOK'
  BY DEF TypeOK, LeadTypeOK, leadVars
<1>2. UNCHANGED <<dataVars, lock>> => DataTypeOK'
  BY DEF TypeOK, DataTypeOK, dataVars
<1>3. UNCHANGED dispVars => DispatchTypeOK'
  BY DEF TypeOK, DispatchTypeOK, dispVars
<1>4. UNCHANGED jobVars => JobTypeOK'
  BY DEF TypeOK, JobTypeOK, jobVars
<1>5. UNCHANGED <<restVars, histVars>> => RestTypeOK'
  BY DEF TypeOK, RestTypeOK, restVars, histVars
<1>. QED
  BY <1>1, <1>2, <1>3, <1>4, <1>5

\* A job that exists is at an email.
LEMMA CurType ==
  ASSUME JobTypeOK, NEW j \in Slots, jpc[j] # "free"
  PROVE  /\ Cur(j) \in Email
         /\ jpos[j] \in DOMAIN jmail[j]
         /\ jacct[j] \in Accounts
BY DEF JobTypeOK, Cur

\* Moving a job to another await, to its next email or out of the queue.
LEMMA JobMoves ==
  ASSUME JobTypeOK, NEW j \in Slots, jpc[j] # "free"
  PROVE  /\ \A pc \in Running : Goto(j, pc) => JobTypeOK'
         /\ FreeSlot(j) => JobTypeOK'
         /\ NextEmail(j) => JobTypeOK'
<1>1. \A pc \in Running : Goto(j, pc) => JobTypeOK'
  BY DEF JobTypeOK, Goto, Running
<1>2. FreeSlot(j) => JobTypeOK'
  <2>1. <<>> \in Seq(Email)
    OBVIOUS
  <2>. QED
    BY <2>1 DEF JobTypeOK, FreeSlot
<1>3. ASSUME NextEmail(j), jpos[j] < Len(jmail[j])
      PROVE  JobTypeOK'
  <2>1. /\ jpos' = [jpos EXCEPT ![j] = jpos[j] + 1]
        /\ jpc' = [jpc EXCEPT ![j] = "gate"]
        /\ UNCHANGED <<jacct, jmail, jtries>>
    BY <1>3 DEF NextEmail
  <2>2. Len(jmail[j]) \in Nat /\ jpos[j] \in Nat \ {0}
    BY DEF JobTypeOK
  <2>3. jpos[j] + 1 \in Nat \ {0} /\ jpos[j] + 1 =< Len(jmail[j])
    BY <1>3, <2>2
  <2>. QED
    BY <2>1, <2>3 DEF JobTypeOK, Running
<1>. QED
  BY <1>1, <1>2, <1>3 DEF NextEmail

\* Taking a lead out of the sequence, and advancing it past a delivered email.
LEMMA LeadMoves ==
  ASSUME LeadTypeOK
  PROVE  /\ \A l \in Leads, s \in Statuses, why \in {"none", "mailbox_lost", "blank_content"} :
              Stop(l, s, why) /\ UNCHANGED <<step, sticky, replied>> => LeadTypeOK'
         /\ \A e \in Email :
              AdvanceLead(e) /\ UNCHANGED <<sticky, reason, replied>> => LeadTypeOK'
<1>1. \A l \in Leads, s \in Statuses, why \in {"none", "mailbox_lost", "blank_content"} :
        Stop(l, s, why) /\ UNCHANGED <<step, sticky, replied>> => LeadTypeOK'
  BY DEF LeadTypeOK, Stop
<1>2. \A e \in Email :
        AdvanceLead(e) /\ UNCHANGED <<sticky, reason, replied>> => LeadTypeOK'
  BY DEF LeadTypeOK, AdvanceLead, Advanced, Email, Statuses
<1>. QED
  BY <1>1, <1>2

\* What a dispatch() has loaded before it loads anything.
LEMMA NoScanType == NoScan \in [left : 0..CampaignLimit, sequence : Sequence]
BY ConstantsAssumption DEF NoScan, Sequence, Steps

\* Init gives every variable its type.
LEMMA TypeInit == Init => TypeOK
<1>. SUFFICES ASSUME Init PROVE TypeOK
  OBVIOUS
<1>1. LeadTypeOK
  BY DEF Init, LeadTypeOK, NoBind, Statuses
<1>2. DataTypeOK
  <2>1. sequence \in Sequence
    <3>1. /\ sequence.length \in Steps /\ sequence.edition = 0
          /\ sequence.detour \in Detours \cup {Linear}
      BY DEF Init
    <3>. QED
      BY <3>1 DEF Init, Sequence
  <2>2. usage \in [Accounts -> 0..(MailboxLimit + 1)]
    BY DEF Init
  <2>3. orgStatus \in [Leads -> {"ok", "unsubscribed", "bounced", "paused"}]
    BY DEF Init
  <2>4. sendEvent \in [Mail -> Accounts \cup {NoAcct}]
    BY DEF Init
  <2>5. /\ mbox \in [Accounts -> {"ready", "paused", "detached", "deleted"}]
        /\ campaign = "active" /\ lock = FALSE
    BY DEF Init
  <2>. QED
    BY <2>1, <2>2, <2>3, <2>4, <2>5 DEF DataTypeOK
<1>3. DispatchTypeOK
  <2>1. <<>> \in Seq(Email)
    OBVIOUS
  <2>. QED
    BY <2>1, NoScanType DEF Init, DispatchTypeOK, NoRoom, NoBind, NoBatch
<1>4. JobTypeOK
  <2>1. <<>> \in Seq(Email)
    OBVIOUS
  <2>. QED
    BY <2>1 DEF Init, JobTypeOK
<1>5. RestTypeOK
  BY DEF Init, RestTypeOK
<1>. QED
  BY <1>1, <1>2, <1>3, <1>4, <1>5 DEF TypeOK

\* A dispatch() that returns or dies.
LEMMA ForgetType ==
  ASSUME DispatchTypeOK, NEW d \in Dispatchers, Forget(d)
  PROVE  DispatchTypeOK'
<1>1. <<>> \in Seq(Email)
  OBVIOUS
<1>. QED
  BY <1>1, NoScanType DEF Forget, DispatchTypeOK, NoRoom, NoBind, NoBatch

\* Rows taken from those to assign, and a binding noted for one of them.
LEMMA AssignTypes ==
  ASSUME DispatchTypeOK, NEW d \in Dispatchers
  PROVE  /\ \A rows : Taken(d, rows) => todo' \in [Dispatchers -> SUBSET Snapshot]
         /\ \A t \in Snapshot, a \in Accounts :
              Binding(d, t, a) => bind' \in [Dispatchers -> [Leads -> Accounts \cup {NoAcct}]]
<1>1. ASSUME NEW rows, Taken(d, rows) PROVE todo' \in [Dispatchers -> SUBSET Snapshot]
  <2>1. todo[d] \ rows \in SUBSET Snapshot
    BY DEF DispatchTypeOK
  <2>. QED
    BY <1>1, <2>1 DEF Taken, DispatchTypeOK
<1>2. ASSUME NEW t \in Snapshot, NEW a \in Accounts, Binding(d, t, a)
      PROVE  bind' \in [Dispatchers -> [Leads -> Accounts \cup {NoAcct}]]
  <2>1. t.lead \in Leads
    BY DEF Snapshot
  <2>. QED
    BY <1>2, <2>1 DEF Binding, DispatchTypeOK
<1>. QED
  BY <1>1, <1>2

\* What placing a row does with the step s its walk ends at.
PutsStep(d, t, a, s) ==
  /\ batch' = [batch EXCEPT ![d][a] =
        Append(@, [lead |-> t.lead, step |-> s, last |-> s = scan[d].sequence.length,
                   edition |-> scan[d].sequence.edition])]
  /\ passed' = passed \cup {<<t.lead, k>> : k \in (t.step + 1)..(s - 1)}
  /\ s \in Deliverable(scan[d].sequence, t.step + 1)

\* The walk ends at a step of the sequence.
LEMMA PlacedStep ==
  ASSUME TypeOK, NEW d \in Dispatchers, NEW t \in todo[d], NEW a \in Accounts, DPlace(d, t, a)
  PROVE  \E s \in Steps : PutsStep(d, t, a, s)
<1>1. PICK s \in Deliverable(scan[d].sequence, t.step + 1) :
        /\ batch' = [batch EXCEPT ![d][a] =
              Append(@, [lead |-> t.lead, step |-> s, last |-> s = scan[d].sequence.length,
                         edition |-> scan[d].sequence.edition])]
        /\ passed' = passed \cup {<<t.lead, k>> : k \in (t.step + 1)..(s - 1)}
  BY DEF DPlace
<1>2. s \in 1..scan[d].sequence.length /\ scan[d].sequence.length \in Steps
  BY <1>1 DEF Deliverable, TypeOK, DispatchTypeOK, Sequence
<1>3. s \in Steps
  BY <1>2, ConstantsAssumption DEF Steps
<1>. QED
  BY <1>1, <1>3 DEF PutsStep

\* dispatch() keeps the types: one step per action, one fact per part it changes.
LEMMA DispatchTypes ==
  ASSUME TypeOK, NEW d \in Dispatchers, Dispatch(d)
  PROVE  TypeOK'
<1>. USE DEF TypeOK
<1>1. ASSUME DAcquire(d) PROVE TypeOK'
  <2>1. DataTypeOK' /\ DispatchTypeOK'
    BY <1>1 DEF DAcquire, DataTypeOK, dataVars, DispatchTypeOK
  <2>. QED
    BY <1>1, <2>1, Unchanged DEF DAcquire
<1>2. ASSUME DLoad(d) PROVE TypeOK'
  <2>1. CampaignLimit - SentToday \in 0..CampaignLimit
    BY <1>2, SentTodayNat DEF DLoad, UnderDailyLimit
  <2>2. \A a \in Accounts : usage[a] < MailboxLimit =>
          MailboxLimit - usage[a] \in 0..MailboxLimit
    BY DEF DataTypeOK
  <2>3. scan' \in [Dispatchers -> [left : 0..CampaignLimit, sequence : Sequence]]
    BY <1>2, <2>1 DEF DLoad, DispatchTypeOK, DataTypeOK, Sequence
  <2>4. room' \in [Dispatchers -> [Accounts -> 0..MailboxLimit]]
    BY <1>2, <2>2 DEF DLoad, DispatchTypeOK
  <2>5. DispatchTypeOK'
    BY <1>2, <2>3, <2>4 DEF DLoad, DispatchTypeOK
  <2>. QED
    BY <1>2, <2>5, Unchanged DEF DLoad
<1>3. ASSUME DSkipCampaign(d) PROVE TypeOK'
  <2>1. DispatchTypeOK'
    BY <1>3 DEF DSkipCampaign, DispatchTypeOK
  <2>. QED
    BY <1>3, <2>1, Unchanged DEF DSkipCampaign
<1>4. ASSUME DSelect(d) PROVE TypeOK'
  <2>1. LeadTypeOK'
    BY <1>4 DEF DSelect, LeadTypeOK, Seeded
  <2>2. PICK S \in SUBSET Leads : todo' = [todo EXCEPT ![d] =
           {[lead |-> l, step |-> step[l], sticky |-> sticky[l]] : l \in S}]
    BY <1>4 DEF DSelect, Selections, DueLeads
  <2>3. {[lead |-> l, step |-> step[l], sticky |-> sticky[l]] : l \in S} \subseteq Snapshot
    BY DEF LeadTypeOK, Snapshot
  <2>4. todo' \in [Dispatchers -> SUBSET Snapshot]
    BY <2>2, <2>3 DEF DispatchTypeOK
  <2>5. scan' \in [Dispatchers -> [left : 0..CampaignLimit, sequence : Sequence]]
    <3>1. 0 \in 0..CampaignLimit
      OBVIOUS
    <3>2. scan[d] \in [left : 0..CampaignLimit, sequence : Sequence]
      BY DEF DispatchTypeOK
    <3>3. [scan[d] EXCEPT !.left = 0] \in [left : 0..CampaignLimit, sequence : Sequence]
      BY <3>1, <3>2
    <3>4. scan' = [scan EXCEPT ![d] = [scan[d] EXCEPT !.left = 0]]
      BY <1>4 DEF DSelect
    <3>. QED
      BY <3>3, <3>4 DEF DispatchTypeOK
  <2>6. DispatchTypeOK'
    BY <1>4, <2>4, <2>5 DEF DSelect, DispatchTypeOK
  <2>. QED
    BY <1>4, <2>1, <2>6, Unchanged DEF DSelect
<1>5. ASSUME DSuppress(d) PROVE TypeOK'
  <2>1. LeadTypeOK'
    BY <1>5 DEF DSuppress, LeadTypeOK, Statuses
  <2>2. \E rows \in SUBSET todo[d] : todo' = [todo EXCEPT ![d] = rows]
    BY <1>5 DEF DSuppress
  <2>3. todo' \in [Dispatchers -> SUBSET Snapshot]
    BY <2>2 DEF DispatchTypeOK
  <2>4. DispatchTypeOK'
    BY <1>5, <2>3 DEF DSuppress, DispatchTypeOK
  <2>. QED
    BY <1>5, <2>1, <2>4, Unchanged DEF DSuppress
<1>6. ASSUME NEW t \in todo[d], NEW a \in Accounts, DPlace(d, t, a) PROVE TypeOK'
  <2>1. t \in Snapshot /\ room[d][a] - 1 \in 0..MailboxLimit
    BY <1>6 DEF DPlace, Chosen, DispatchTypeOK
  <2>2. PICK s \in Steps : PutsStep(d, t, a, s)
    BY <1>6, PlacedStep
  <2>3. [lead |-> t.lead, step |-> s, last |-> s = scan[d].sequence.length,
         edition |-> scan[d].sequence.edition] \in Email
    <3>1. t.lead \in Leads /\ scan[d].sequence.edition \in 0..MaxEdits
      BY <2>1 DEF Snapshot, DispatchTypeOK, Sequence
    <3>2. (s = scan[d].sequence.length) \in BOOLEAN
      OBVIOUS
    <3>. QED
      BY <3>1, <3>2 DEF Email
  <2>4. batch' \in [Dispatchers -> [Accounts -> Seq(Email)]]
    BY <2>2, <2>3 DEF PutsStep, DispatchTypeOK
  <2>5. room' \in [Dispatchers -> [Accounts -> 0..MailboxLimit]]
    BY <1>6, <2>1 DEF DPlace, DispatchTypeOK
  <2>6. bind' \in [Dispatchers -> [Leads -> Accounts \cup {NoAcct}]]
    BY <1>6, <2>1, AssignTypes DEF DPlace
  <2>7. todo' \in [Dispatchers -> SUBSET Snapshot]
    BY <1>6, AssignTypes DEF DPlace
  <2>8. \A e \in Dispatchers : dpc'[e] = "enqueue" =>
          dcur'[e] # NoAcct /\ batch'[e][dcur'[e]] # <<>>
    BY <1>6 DEF DPlace, AtRow, DispatchTypeOK
  <2>9. DispatchTypeOK'
    BY <1>6, <2>4, <2>5, <2>6, <2>7, <2>8 DEF DPlace, DispatchTypeOK
  <2>10. RestTypeOK'
    <3>1. passed' \subseteq Mail
      BY <2>1, <2>2 DEF PutsStep, RestTypeOK, Mail, Steps, Snapshot
    <3>. QED
      BY <1>6, <3>1 DEF DPlace, RestTypeOK, restVars
  <2>. QED
    BY <1>6, <2>9, <2>10, Unchanged DEF DPlace
<1>7. ASSUME NEW t \in todo[d], NEW a \in Accounts, DFinishLead(d, t, a) \/ DBlank(d, t, a)
      PROVE  TypeOK'
  <2>1. t \in Snapshot
    BY DEF DispatchTypeOK
  <2>2. LeadTypeOK'
    BY <1>7, <2>1, LeadMoves DEF DFinishLead, DBlank, Snapshot, LeadTypeOK, Statuses
  <2>3. DispatchTypeOK'
    <3>1. bind' \in [Dispatchers -> [Leads -> Accounts \cup {NoAcct}]]
      BY <1>7, <2>1, AssignTypes DEF DFinishLead, DBlank
    <3>2. todo' \in [Dispatchers -> SUBSET Snapshot]
      BY <1>7, AssignTypes DEF DFinishLead, DBlank
    <3>. QED
      BY <1>7, <3>1, <3>2 DEF DFinishLead, DBlank, DispatchTypeOK
  <2>. QED
    BY <1>7, <2>2, <2>3, Unchanged DEF DFinishLead, DBlank
<1>8. ASSUME NEW t \in todo[d], DLostMailbox(d, t) \/ DWaitSticky(d, t) \/ DFull(d, t)
      PROVE  TypeOK'
  <2>1. LeadTypeOK'
    <3>1. CASE DLostMailbox(d, t)
      BY <3>1 DEF DLostMailbox, LeadTypeOK, Statuses
    <3>2. CASE DWaitSticky(d, t)
      BY <3>2 DEF DWaitSticky, LeadTypeOK
    <3>3. CASE DFull(d, t)
      BY <3>3, Unchanged DEF DFull
    <3>. QED
      BY <1>8, <3>1, <3>2, <3>3
  <2>2. DispatchTypeOK'
    <3>1. todo' \in [Dispatchers -> SUBSET Snapshot]
      BY <1>8, AssignTypes DEF DLostMailbox, DWaitSticky, DFull
    <3>. QED
      BY <1>8, <3>1 DEF DLostMailbox, DWaitSticky, DFull, DispatchTypeOK
  <2>. QED
    BY <1>8, <2>1, <2>2, Unchanged DEF DLostMailbox, DWaitSticky, DFull
<1>9. ASSUME DBind(d) PROVE TypeOK'
  <2>1. LeadTypeOK'
    BY <1>9 DEF DBind, Persist, LeadTypeOK, DispatchTypeOK
  <2>2. DispatchTypeOK'
    BY <1>9 DEF DBind, Persist, DispatchTypeOK, NoBind
  <2>. QED
    BY <1>9, <2>1, <2>2, Unchanged DEF DBind, Persist
<1>10. ASSUME NEW a \in Accounts, DClaim(d, a) PROVE TypeOK'
  <2>1. LeadTypeOK'
    BY <1>10 DEF DClaim, Claimed, LeadTypeOK
  <2>2. DispatchTypeOK'
    BY <1>10 DEF DClaim, DispatchTypeOK
  <2>. QED
    BY <1>10, <2>1, <2>2, Unchanged DEF DClaim
<1>11. ASSUME NEW j \in Slots, DEnqueue(d, j) PROVE TypeOK'
  <2>1. dcur[d] \in Accounts /\ batch[d][dcur[d]] \in Seq(Email) /\ batch[d][dcur[d]] # <<>>
    BY <1>11 DEF DEnqueue, DispatchTypeOK
  <2>2. JobTypeOK'
    <3>1. jpc' \in [Slots -> {"free", "queued"} \cup Running]
      BY <1>11 DEF DEnqueue, JobTypeOK
    <3>2. jacct' \in [Slots -> Accounts \cup {NoAcct}]
      BY <1>11, <2>1 DEF DEnqueue, JobTypeOK
    <3>3. jmail' \in [Slots -> Seq(Email)]
      BY <1>11, <2>1 DEF DEnqueue, JobTypeOK
    <3>4. jpos[j] = 1 /\ jpos[j]' =< Len(jmail[j]') /\ jacct[j]' # NoAcct
      BY <1>11, <2>1 DEF DEnqueue, JobTypeOK
    <3>5. ASSUME NEW i \in Slots, i # j
          PROVE  jpc'[i] = jpc[i] /\ jmail'[i] = jmail[i] /\ jacct'[i] = jacct[i]
      BY <1>11, <3>5 DEF DEnqueue, JobTypeOK
    <3>6. jpc'[j] = "queued" /\ UNCHANGED <<jpos, jtries>>
      BY <1>11 DEF DEnqueue, JobTypeOK
    <3>. QED
      BY <3>1, <3>2, <3>3, <3>4, <3>5, <3>6 DEF JobTypeOK
  <2>3. <<>> \in Seq(Email)
    OBVIOUS
  <2>4. DispatchTypeOK'
    BY <1>11, <2>1, <2>3 DEF DEnqueue, DispatchTypeOK
  <2>. QED
    BY <1>11, <2>2, <2>4, Unchanged DEF DEnqueue
<1>12. ASSUME DCount(d) PROVE TypeOK'
  <2>1. DispatchTypeOK'
    BY <1>12 DEF DCount, DispatchTypeOK
  <2>. QED
    BY <1>12, <2>1, Unchanged DEF DCount
<1>13. ASSUME DComplete(d) PROVE TypeOK'
  <2>1. DataTypeOK' /\ DispatchTypeOK'
    BY <1>13 DEF DComplete, DataTypeOK, DispatchTypeOK
  <2>. QED
    BY <1>13, <2>1, Unchanged DEF DComplete
<1>14. ASSUME DRelease(d) PROVE TypeOK'
  <2>1. DataTypeOK'
    BY <1>14 DEF DRelease, DataTypeOK, dataVars
  <2>2. DispatchTypeOK'
    BY <1>14, ForgetType DEF DRelease
  <2>. QED
    BY <1>14, <2>1, <2>2, Unchanged DEF DRelease
<1>. QED
  BY <1>1, <1>2, <1>3, <1>4, <1>5, <1>6, <1>7, <1>8, <1>9, <1>10, <1>11, <1>12, <1>13,
     <1>14 DEF Dispatch

\* processBatchJob() keeps the types.
LEMMA WorkTypes ==
  ASSUME TypeOK, NEW j \in Slots, Work(j)
  PROVE  TypeOK'
<1>. USE DEF TypeOK
<1>1. CASE JStart(j) \/ JPass(j)
  <2>1. JobTypeOK'
    BY <1>1, JobMoves DEF JStart, JPass, At, Running
  <2>. QED
    BY <1>1, <2>1, Unchanged DEF JStart, JPass
<1>2. CASE JSkipBatch(j) \/ JNonCompliant(j) \/ JSendSoft(j) \/ JRollback(j)
  <2>1. JobTypeOK'
    BY <1>2, JobMoves DEF JSkipBatch, JNonCompliant, JSendSoft, JRollback, At
  <2>. QED
    BY <1>2, <2>1, Unchanged DEF JSkipBatch, JNonCompliant, JSendSoft, JRollback
<1>3. CASE JBlank(j) \/ JBlock(j) \/ JBlankSubject(j)
  <2>1. jpc[j] # "free" /\ NextEmail(j)
    BY <1>3 DEF JBlank, JBlock, JBlankSubject, At
  <2>2. Cur(j).lead \in Leads
    BY <2>1, CurType DEF Email
  <2>3. \E why \in {"none", "mailbox_lost", "blank_content"} :
          Stop(Cur(j).lead, "paused", why) /\ UNCHANGED <<step, sticky, replied>>
    BY <1>3, <2>2 DEF JBlank, JBlock, JBlankSubject, LeadTypeOK
  <2>4. LeadTypeOK'
    BY <2>2, <2>3, LeadMoves DEF Statuses
  <2>. QED
    BY <1>3, <2>1, <2>4, JobMoves, Unchanged DEF JBlank, JBlock, JBlankSubject
<1>4. CASE JDefer(j)
  <2>1. LeadTypeOK'
    BY <1>4 DEF JDefer, LeadTypeOK
  <2>. QED
    BY <1>4, <2>1, JobMoves, Unchanged DEF JDefer, At
<1>5. CASE JDedupe(j)
  <2>1. JobTypeOK'
    BY <1>5, JobMoves DEF JDedupe, At, Running
  <2>. QED
    BY <1>5, <2>1, Unchanged DEF JDedupe
<1>6. CASE JAdvance(j)
  <2>1. jpc[j] # "free"
    BY <1>6 DEF JAdvance, At
  <2>2. LeadTypeOK'
    BY <1>6, <2>1, CurType, LeadMoves DEF JAdvance
  <2>. QED
    BY <1>6, <2>1, <2>2, JobMoves, Unchanged DEF JAdvance
<1>7. CASE JSendOk(j)
  <2>1. Key(Cur(j)) \in Mail /\ Cur(j).lead \in Leads
    BY <1>7, CurType DEF JSendOk, At, Key, Email
  <2>2. delivered' \in [Mail -> 0..2] /\ late' \in [Leads -> 0..2]
    BY <1>7, <2>1 DEF JSendOk, Lesser, RestTypeOK
  <2>3. RestTypeOK'
    BY <1>7, <2>2 DEF JSendOk, RestTypeOK, restVars
  <2>4. JobTypeOK'
    BY <1>7, JobMoves DEF JSendOk, At, Running
  <2>. QED
    BY <1>7, <2>3, <2>4, Unchanged DEF JSendOk
<1>8. CASE JSendHard(j)
  <2>1. JobTypeOK'
    BY <1>8, JobMoves DEF JSendHard, At, Running
  <2>. QED
    BY <1>8, <2>1, Unchanged DEF JSendHard
<1>9. CASE JBounce(j)
  <2>1. JobTypeOK'
    BY <1>9, JobMoves DEF JBounce, At
  <2>2. DataTypeOK'
    BY <1>9 DEF JBounce, DataTypeOK
  <2>. QED
    BY <1>9, <2>1, <2>2, Unchanged DEF JBounce
<1>10. CASE JRecord(j)
  <2>1. /\ jpc[j] # "free" /\ Cur(j) \in Email /\ jacct[j] \in Accounts
        /\ Key(Cur(j)) \in Mail
    BY <1>10, CurType DEF JRecord, At, Key, Email
  <2>2. LeadTypeOK'
    BY <1>10, <2>1, LeadMoves DEF JRecord
  <2>3. usage' \in [Accounts -> 0..(MailboxLimit + 1)]
    BY <1>10, <2>1 DEF JRecord, Lesser, DataTypeOK
  <2>4. sendEvent' \in [Mail -> Accounts \cup {NoAcct}]
    BY <1>10, <2>1 DEF JRecord, DataTypeOK
  <2>5. DataTypeOK'
    BY <1>10, <2>3, <2>4 DEF JRecord, DataTypeOK
  <2>. QED
    BY <1>10, <2>1, <2>2, <2>5, JobMoves, Unchanged DEF JRecord
<1>. QED
  BY <1>1, <1>2, <1>3, <1>4, <1>5, <1>6, <1>7, <1>8, <1>9, <1>10 DEF Work

\* The writers around the pipeline keep the types.
LEMMA EnvironmentTypes ==
  ASSUME TypeOK, Environment
  PROVE  TypeOK'
<1>. USE DEF TypeOK
<1>1. ASSUME NEW l \in Leads, Reply(l) \/ PauseLead(l) PROVE TypeOK'
  <2>1. LeadTypeOK'
    <3>1. CASE Reply(l)
      <4>1. PICK s \in {"replied", "completed"} : status' = [status EXCEPT ![l] = s]
        BY <3>1 DEF Reply
      <4>. QED
        BY <3>1, <4>1 DEF Reply, LeadTypeOK, Statuses
    <3>2. CASE PauseLead(l)
      BY <3>2 DEF PauseLead, Stop, LeadTypeOK, Statuses
    <3>. QED
      BY <1>1, <3>1, <3>2
  <2>. QED
    BY <1>1, <2>1, Unchanged DEF Reply, PauseLead
<1>2. ASSUME NEW l \in Leads, Unsubscribe(l) PROVE TypeOK'
  <2>1. LeadTypeOK' /\ DataTypeOK'
    BY <1>2 DEF Unsubscribe, LeadTypeOK, DataTypeOK, Statuses
  <2>. QED
    BY <1>2, <2>1, Unchanged DEF Unsubscribe
<1>3. ASSUME NEW l \in Leads, AsyncBounce(l) PROVE TypeOK'
  <2>1. LeadTypeOK'
    BY <1>3 DEF AsyncBounce, LeadTypeOK, Statuses
  <2>2. DataTypeOK'
    BY <1>3 DEF AsyncBounce, DataTypeOK
  <2>. QED
    BY <1>3, <2>1, <2>2, Unchanged DEF AsyncBounce
<1>4. ASSUME NEW a \in Accounts,
             \/ PauseMailbox(a) \/ RecoverMailbox(a)
             \/ DetachMailbox(a) \/ AttachMailbox(a) \/ DeleteMailbox(a)
      PROVE  TypeOK'
  <2>1. PICK from, to \in {"ready", "paused", "detached", "deleted"}, kind \in EventKinds :
          SetMailbox(a, from, to, kind)
    BY <1>4 DEF PauseMailbox, RecoverMailbox, DetachMailbox, AttachMailbox, DeleteMailbox,
                EventKinds
  <2>2. DataTypeOK'
    BY <2>1 DEF SetMailbox, DataTypeOK
  <2>. QED
    BY <2>1, <2>2, Unchanged DEF SetMailbox
<1>5. ASSUME NEW a \in Accounts, ResolveStop(a) \/ ResolveContinue(a) PROVE TypeOK'
  <2>1. LeadTypeOK'
    BY <1>5 DEF ResolveStop, ResolveContinue, Reactivate, LeadTypeOK, Statuses
  <2>. QED
    BY <1>5, <2>1, Unchanged DEF ResolveStop, ResolveContinue
<1>6. ASSUME NEW a \in Accounts, RestartRead(a) PROVE TypeOK'
  <2>1. RestTypeOK'
    BY <1>6 DEF RestartRead, Stranded, RestTypeOK, histVars
  <2>. QED
    BY <1>6, <2>1, Unchanged DEF RestartRead
<1>7. CASE RestartWrite
  <2>1. LeadTypeOK'
    BY <1>7 DEF RestartWrite, Reactivate, LeadTypeOK, Statuses
  <2>2. DataTypeOK'
    BY <1>7 DEF RestartWrite, DataTypeOK
  <2>3. RestTypeOK'
    BY <1>7 DEF RestartWrite, RestTypeOK
  <2>. QED
    BY <1>7, <2>1, <2>2, <2>3, Unchanged DEF RestartWrite
<1>8. CASE PauseCampaign \/ ResumeCampaign \/ LaunchCampaign
  <2>1. LeadTypeOK'
    BY <1>8 DEF PauseCampaign, ResumeCampaign, LaunchCampaign, SetCampaign, Seeded, LeadTypeOK
  <2>2. DataTypeOK'
    BY <1>8 DEF PauseCampaign, ResumeCampaign, LaunchCampaign, SetCampaign, DataTypeOK
  <2>. QED
    BY <1>8, <2>1, <2>2, Unchanged
    DEF PauseCampaign, ResumeCampaign, LaunchCampaign, SetCampaign
<1>9. CASE EditSequence
  <2>1. sequence' \in Sequence
    BY <1>9 DEF EditSequence, Sequence, DataTypeOK
  <2>2. DataTypeOK'
    BY <1>9, <2>1 DEF EditSequence, DataTypeOK
  <2>. QED
    BY <1>9, <2>2, Unchanged DEF EditSequence
<1>10. ASSUME NEW l \in Leads, EnrollCheck(l) PROVE TypeOK'
  <2>1. RestTypeOK'
    BY <1>10 DEF EnrollCheck, RestTypeOK, histVars
  <2>. QED
    BY <1>10, <2>1, Unchanged DEF EnrollCheck
<1>11. ASSUME NEW l \in Leads, EnrollCreate(l) PROVE TypeOK'
  <2>1. LeadTypeOK'
    BY <1>11 DEF EnrollCreate, LeadTypeOK, Statuses
  <2>2. RestTypeOK'
    BY <1>11 DEF EnrollCreate, RestTypeOK, histVars
  <2>. QED
    BY <1>11, <2>1, <2>2, Unchanged DEF EnrollCreate
<1>. QED
  BY <1>1, <1>2, <1>3, <1>4, <1>5, <1>6, <1>7, <1>8, <1>9, <1>10, <1>11 DEF Environment

\* Faults keep the types: what a crash forgets, and what a second run finds.
LEMMA FaultTypes ==
  ASSUME TypeOK, Fault
  PROVE  TypeOK'
<1>. USE DEF TypeOK
<1>1. \A kind : Strikes(kind) /\ UNCHANGED histVars => RestTypeOK'
  BY DEF Strikes, histVars, RestTypeOK
<1>2. ASSUME NEW d \in Dispatchers, DCrash(d) PROVE TypeOK'
  <2>. QED
    BY <1>1, <1>2, ForgetType, Unchanged DEF DCrash
<1>3. ASSUME NEW d \in Dispatchers, DAbort(d) PROVE TypeOK'
  <2>1. DispatchTypeOK'
    BY <1>3 DEF DAbort, DispatchTypeOK
  <2>. QED
    BY <1>1, <1>3, <2>1, Unchanged DEF DAbort
<1>4. ASSUME NEW d \in Dispatchers, DBindFails(d) PROVE TypeOK'
  <2>1. PICK l \in ToBind(d) : Persist(d, ToBind(d) \ {l}) /\ Strikes("db_error")
    BY <1>4 DEF DBindFails
  <2>2. LeadTypeOK'
    BY <2>1 DEF Persist, LeadTypeOK, DispatchTypeOK
  <2>3. DispatchTypeOK'
    BY <2>1 DEF Persist, DispatchTypeOK, NoBind
  <2>. QED
    BY <1>1, <2>1, <2>2, <2>3, Unchanged DEF Persist
<1>5. ASSUME NEW j \in Slots, JCrash(j) PROVE TypeOK'
  <2>1. jpc[j] # "free" /\ jpos[j] <= Len(jmail[j]) /\ jacct[j] # NoAcct
    BY <1>5 DEF JCrash, Running, JobTypeOK
  <2>2. JobTypeOK'
    <3>1. CASE jtries[j] < MaxRetries
      <4>1. jtries[j] + 1 \in 0..MaxRetries /\ 1 <= Len(jmail[j])
        BY <2>1, <3>1 DEF JobTypeOK
      <4>2. /\ jpc' = [jpc EXCEPT ![j] = "queued"] /\ jpos' = [jpos EXCEPT ![j] = 1]
            /\ jtries' = [jtries EXCEPT ![j] = jtries[j] + 1]
            /\ jacct' = jacct /\ jmail' = jmail
        BY <1>5, <3>1 DEF JCrash
      <4>. QED
        BY <2>1, <4>1, <4>2 DEF JobTypeOK
    <3>2. CASE ~(jtries[j] < MaxRetries)
      BY <1>5, <2>1, <3>2, JobMoves DEF JCrash
    <3>. QED
      BY <3>1, <3>2
  <2>. QED
    BY <1>1, <1>5, <2>2, Unchanged DEF JCrash
<1>6. ASSUME NEW j \in Slots, JProvisionFails(j) \/ JFails(j) PROVE TypeOK'
  <2>1. JobTypeOK'
    BY <1>6, JobMoves DEF JProvisionFails, JFails, At, Running
  <2>. QED
    BY <1>1, <1>6, <2>1, Unchanged DEF JProvisionFails, JFails
<1>7. ASSUME NEW j \in Slots, NEW k \in Slots, JStall(j, k) PROVE TypeOK'
  <2>1. /\ jpc[j] # "free" /\ j # k
        /\ jpos[j] <= Len(jmail[j]) /\ jacct[j] # NoAcct
        /\ jpos[k] = 1 /\ 1 <= Len(jmail[j])
        /\ jtries[j] + 1 \in 0..MaxRetries
    BY <1>7 DEF JStall, Running, JobTypeOK
  <2>2. JobTypeOK'
    BY <1>7, <2>1 DEF JStall, JobTypeOK
  <2>. QED
    BY <1>1, <1>7, <2>2, Unchanged DEF JStall
<1>. QED
  BY <1>2, <1>3, <1>4, <1>5, <1>6, <1>7 DEF Fault

\* Every step of the specification keeps the types.
LEMMA TypeStep == TypeOK /\ [Next]_vars => TypeOK'
<1>. SUFFICES ASSUME TypeOK, [Next]_vars PROVE TypeOK'
  OBVIOUS
<1>1. CASE LockExpire \/ (\E l \in Leads : BecomeDue(l))
  <2>1. DataTypeOK' /\ LeadTypeOK'
    <3>1. CASE LockExpire
      BY <3>1, Unchanged DEF LockExpire, TypeOK, DataTypeOK, dataVars
    <3>2. ASSUME NEW l \in Leads, BecomeDue(l) PROVE DataTypeOK' /\ LeadTypeOK'
      BY <3>2, Unchanged DEF BecomeDue, TypeOK, LeadTypeOK
    <3>. QED
      BY <1>1, <3>1, <3>2
  <2>. QED
    BY <1>1, <2>1, Unchanged DEF LockExpire, BecomeDue, TypeOK
<1>2. CASE UNCHANGED vars
  BY <1>2, Unchanged DEF vars, TypeOK
<1>. QED
  BY <1>1, <1>2, DispatchTypes, WorkTypes, EnvironmentTypes, FaultTypes DEF Next

\* TypeOK holds in every behaviour: positions, batches under claim and running jobs
\* always point at something, whatever crashes, stalls or is edited.
THEOREM TypeCorrect == Spec => []TypeOK
<1>. QED
  BY TypeInit, TypeStep, PTL DEF Spec

-----------------------------------------------------------------------------
(* The dispatch lock                                                       *)

\* DispatchMutex is not inductive as it stands: the tick that holds the key must be
\* the one that is not idle, so that nobody else's SET NX succeeds.
Holds == \A d \in Dispatchers : ~Idle(d) => lock

LockInv == TypeOK /\ DispatchMutex /\ Holds

\* Steps of the dispatcher and the steps of everybody else, seen from the lock.
LEMMA LockStep ==
  ASSUME "lock_expiry" \notin Events, LockInv, [Next]_vars
  PROVE  DispatchMutex' /\ Holds'
<1>. USE DEF LockInv, TypeOK, DispatchTypeOK, DispatchMutex, Holds, Idle
<1>1. ASSUME NEW d \in Dispatchers, DAcquire(d) PROVE DispatchMutex' /\ Holds'
  BY <1>1 DEF DAcquire, LockFree
<1>2. ASSUME NEW d \in Dispatchers, dpc' = [dpc EXCEPT ![d] = "idle"], lock' \in {lock, FALSE},
             ~Idle(d)
      PROVE  DispatchMutex' /\ Holds'
  BY <1>2
<1>3. ASSUME NEW d \in Dispatchers, NEW pc, ~Idle(d), dpc' = [dpc EXCEPT ![d] = pc], lock' = lock
      PROVE  DispatchMutex' /\ Holds'
  BY <1>3
<1>4. CASE UNCHANGED <<dpc, lock>>
  BY <1>4
<1>5. CASE LockExpire
  BY <1>5 DEF LockExpire, dispVars
<1>6. ASSUME NEW d \in Dispatchers, Dispatch(d) PROVE DispatchMutex' /\ Holds'
  <2>1. CASE DRelease(d)
    BY <1>2, <2>1 DEF DRelease, Forget
  <2>2. CASE DLoad(d) \/ DSkipCampaign(d) \/ DCount(d) \/ DComplete(d) \/ DBind(d)
    BY <1>3, <2>2 DEF DLoad, DSkipCampaign, DCount, DComplete, DBind, Persist
  <2>3. CASE DSelect(d)
    BY <1>3, <2>3 DEF DSelect
  <2>4. CASE DSuppress(d)
    BY <1>3, <2>4 DEF DSuppress
  <2>5. ASSUME NEW t \in todo[d], NEW a \in Accounts,
               DPlace(d, t, a) \/ DFinishLead(d, t, a) \/ DBlank(d, t, a)
        PROVE  UNCHANGED <<dpc, lock>>
    BY <2>5 DEF DPlace, DFinishLead, DBlank
  <2>6. ASSUME NEW t \in todo[d], DLostMailbox(d, t) \/ DWaitSticky(d, t) \/ DFull(d, t)
        PROVE  UNCHANGED <<dpc, lock>>
    BY <2>6 DEF DLostMailbox, DWaitSticky, DFull
  <2>7. ASSUME NEW a \in Accounts, DClaim(d, a) PROVE DispatchMutex' /\ Holds'
    BY <1>3, <2>7 DEF DClaim
  <2>8. ASSUME NEW j \in Slots, DEnqueue(d, j) PROVE DispatchMutex' /\ Holds'
    BY <1>3, <2>8 DEF DEnqueue
  <2>. QED
    BY <1>1, <1>4, <1>6, <2>1, <2>2, <2>3, <2>4, <2>5, <2>6, <2>7, <2>8 DEF Dispatch
<1>7. ASSUME NEW d \in Dispatchers, DCrash(d) \/ DAbort(d) \/ DBindFails(d)
      PROVE  DispatchMutex' /\ Holds'
  <2>1. CASE DCrash(d)
    BY <1>2, <2>1 DEF DCrash, Forget
  <2>2. CASE DAbort(d)
    BY <1>3, <2>2 DEF DAbort
  <2>3. CASE DBindFails(d)
    BY <1>3, <2>3 DEF DBindFails, Persist
  <2>. QED
    BY <1>7, <2>1, <2>2, <2>3
<1>8. ASSUME NEW j \in Slots, Work(j) PROVE UNCHANGED <<dpc, lock>>
  BY <1>8 DEF Work, JStart, JSkipBatch, JBlank, JNonCompliant, JDefer, JBlock, JPass, JDedupe,
     JAdvance, JBlankSubject, JSendOk, JSendSoft, JSendHard, JBounce, JRecord, JRollback, dispVars
<1>9. ASSUME NEW j \in Slots, NEW k \in Slots,
             JCrash(j) \/ JProvisionFails(j) \/ JFails(j) \/ JStall(j, k)
      PROVE  UNCHANGED <<dpc, lock>>
  BY <1>9 DEF JCrash, JProvisionFails, JFails, JStall, dispVars
<1>10. ASSUME Environment PROVE UNCHANGED <<dpc, lock>>
  BY <1>10 DEF Environment, Reply, PauseLead, Unsubscribe, AsyncBounce, PauseMailbox,
     RecoverMailbox, DetachMailbox, AttachMailbox, DeleteMailbox, SetMailbox, ResolveStop,
     ResolveContinue, RestartRead, RestartWrite, PauseCampaign, ResumeCampaign, LaunchCampaign,
     SetCampaign, EditSequence, EnrollCheck, EnrollCreate, dispVars
<1>11. ASSUME NEW l \in Leads, BecomeDue(l) PROVE UNCHANGED <<dpc, lock>>
  BY <1>11 DEF BecomeDue, dispVars
<1>12. CASE UNCHANGED vars
  BY <1>12, <1>4 DEF vars, dispVars
<1>. QED
  BY <1>4, <1>5, <1>6, <1>7, <1>8, <1>9, <1>10, <1>11, <1>12 DEF Next, Fault

\* As long as no dispatch outlives the lock's TTL, at most one dispatch() is past
\* acquireLock, however ticks of several instances overlap and processes die: the
\* TTL frees a key only when its owner is gone.
THEOREM MutexHolds ==
  ASSUME "lock_expiry" \notin Events
  PROVE  Spec => []DispatchMutex
<1>1. Init => LockInv
  BY TypeInit DEF Init, LockInv, DispatchMutex, Holds, Idle
<1>2. LockInv /\ [Next]_vars => LockInv'
  BY TypeStep, LockStep DEF LockInv
<1>3. LockInv => DispatchMutex
  BY DEF LockInv
<1>. QED
  BY <1>1, <1>2, <1>3, PTL DEF Spec

-----------------------------------------------------------------------------
(* Where rows and emails come from                                         *)

Row(t)       == \E d \in Dispatchers : t \in todo[d]
InBatches(e) == \E d \in Dispatchers, a \in Accounts :
                  \E p \in DOMAIN batch[d][a] : batch[d][a][p] = e
InJobs(e)    == \E j \in Slots : \E p \in DOMAIN jmail[j] : jmail[j][p] = e
Waits(e)     == InBatches(e) \/ InJobs(e)

\* The email a job is at waits in that job.
LEMMA CurWaits ==
  ASSUME TypeOK, NEW j \in Slots, jpc[j] # "free"
  PROVE  Cur(j) \in Email /\ Waits(Cur(j))
BY CurType DEF TypeOK, Waits, InJobs, Cur

\* A worker's step brings no email into a job.
LEMMA JobsShrink ==
  ASSUME TypeOK, NEW j \in Slots, NEW e \in Email, InJobs(e)',
         NextEmail(j) \/ FreeSlot(j) \/ (\E pc \in Running : Goto(j, pc)) \/ UNCHANGED jmail
  PROVE  InJobs(e)
<1>1. CASE UNCHANGED jmail
  BY <1>1 DEF InJobs
<1>2. CASE jmail' = [jmail EXCEPT ![j] = <<>>]
  <2>1. PICK k \in Slots : \E p \in DOMAIN jmail'[k] : jmail'[k][p] = e
    BY DEF InJobs
  <2>2. k # j
    BY <1>2, <2>1 DEF TypeOK, JobTypeOK
  <2>. QED
    BY <1>2, <2>1, <2>2 DEF InJobs, TypeOK, JobTypeOK
<1>. QED
  BY <1>1, <1>2 DEF NextEmail, FreeSlot, Goto

\* A dispatch() that ends takes its rows and batches with it.
LEMMA ForgetFlow ==
  ASSUME TypeOK, NEW d \in Dispatchers, Forget(d), UNCHANGED jmail
  PROVE  /\ \A e \in Email : Waits(e)' => Waits(e)
         /\ \A t \in Snapshot : Row(t)' => Row(t)
<1>1. ASSUME NEW e \in Email, InBatches(e)' PROVE InBatches(e)
  <2>1. PICK x \in Dispatchers, b \in Accounts :
          \E p \in DOMAIN batch'[x][b] : batch'[x][b][p] = e
    BY <1>1 DEF InBatches
  <2>2. batch'[x][b] \in {batch[x][b], <<>>}
    BY DEF Forget, NoBatch, TypeOK, DispatchTypeOK
  <2>3. batch'[x][b] = batch[x][b]
    BY <2>1, <2>2
  <2>. QED
    BY <2>1, <2>3 DEF InBatches
<1>2. \A t \in Snapshot : Row(t)' => Row(t)
  BY DEF Forget, Row, TypeOK, DispatchTypeOK
<1>. QED
  BY <1>1, <1>2 DEF Waits, InJobs

\* The email made of a row: of its lead, and past no step but those it passes over.
MadeOf(e, t) == /\ e.lead = t.lead
                /\ \A k \in (t.step + 1)..(e.step - 1) : <<t.lead, k>> \in passed'

\* What the dispatcher does to rows and emails.
LEMMA DispatchFlow ==
  ASSUME TypeOK, NEW d \in Dispatchers, Dispatch(d)
  PROVE  /\ \A e \in Email : Waits(e)' => Waits(e) \/
              \E t \in Snapshot : Row(t) /\ MadeOf(e, t)
         /\ \A t \in Snapshot : Row(t)' => Row(t) \/
              /\ status[t.lead] = "active" /\ t.step = step[t.lead]
              /\ UNCHANGED <<status, step, replied, sendEvent>>
<1>. DEFINE New(e) == \E t \in Snapshot : Row(t) /\ MadeOf(e, t)
            Read(t) == /\ status[t.lead] = "active" /\ t.step = step[t.lead]
                       /\ UNCHANGED <<status, step, replied, sendEvent>>
<1>1. UNCHANGED <<todo, batch, jmail>> =>
        /\ \A e \in Email : Waits(e)' => Waits(e)
        /\ \A t \in Snapshot : Row(t)' => Row(t)
  BY DEF Waits, InBatches, InJobs, Row
<1>2. UNCHANGED jmail => \A e \in Email : InJobs(e)' => Waits(e)
  BY DEF Waits, InJobs
<1>3. UNCHANGED <<batch, jmail>> => \A e \in Email : Waits(e)' => Waits(e)
  BY DEF Waits, InBatches, InJobs
<1>4. ASSUME NEW rows, Taken(d, rows) PROVE \A t \in Snapshot : Row(t)' => Row(t)
  BY <1>4 DEF Row, Taken, TypeOK, DispatchTypeOK
<1>5. CASE DAcquire(d) \/ DLoad(d) \/ DSkipCampaign(d) \/ DCount(d) \/ DComplete(d) \/ DBind(d)
           \/ \E a \in Accounts : DClaim(d, a)
  BY <1>1, <1>5 DEF DAcquire, DLoad, DSkipCampaign, DCount, DComplete, DBind, Persist, DClaim,
                    jobVars
<1>6. CASE DSelect(d)
  <2>1. PICK S \in SUBSET DueLeads : todo' = [todo EXCEPT ![d] =
           {[lead |-> l, step |-> step[l], sticky |-> sticky[l]] : l \in S}]
    BY <1>6 DEF DSelect, Selections
  <2>2. ASSUME NEW t \in Snapshot, Row(t)' PROVE Row(t) \/ Read(t)
    <3>1. PICK e \in Dispatchers : t \in todo'[e]
      BY <2>2 DEF Row
    <3>2. CASE e # d
      BY <2>1, <3>1, <3>2 DEF Row, TypeOK, DispatchTypeOK
    <3>3. CASE e = d
      <4>1. \E l \in S : t = [lead |-> l, step |-> step[l], sticky |-> sticky[l]]
        BY <2>1, <3>1, <3>3 DEF TypeOK, DispatchTypeOK
      <4>. QED
        BY <1>6, <4>1 DEF DSelect, DueLeads, dataVars
    <3>. QED
      BY <3>2, <3>3
  <2>. QED
    BY <1>3, <1>6, <2>2 DEF DSelect, jobVars
<1>7. CASE DSuppress(d)
  <2>1. PICK rows \in SUBSET todo[d] : todo' = [todo EXCEPT ![d] = rows]
    BY <1>7 DEF DSuppress
  <2>2. \A t \in Snapshot : Row(t)' => Row(t)
    BY <2>1 DEF Row, TypeOK, DispatchTypeOK
  <2>. QED
    BY <1>3, <1>7, <2>2 DEF DSuppress, jobVars
<1>8. ASSUME NEW t \in todo[d], NEW a \in Accounts, DPlace(d, t, a)
      PROVE  /\ \A e \in Email : Waits(e)' => Waits(e) \/ New(e)
             /\ \A u \in Snapshot : Row(u)' => Row(u)
  <2>0. PICK s \in Steps : PutsStep(d, t, a, s)
    BY <1>8, PlacedStep
  <2>. DEFINE E == [lead |-> t.lead, step |-> s, last |-> s = scan[d].sequence.length,
                    edition |-> scan[d].sequence.edition]
  <2>1. t \in Snapshot /\ Row(t)
    BY DEF TypeOK, DispatchTypeOK, Row
  <2>2. New(E)
    BY <2>0, <2>1 DEF PutsStep, MadeOf
  <2>3. batch' = [batch EXCEPT ![d][a] = Append(@, E)]
    BY <2>0 DEF PutsStep
  <2>4. ASSUME NEW e \in Email, InBatches(e)' PROVE InBatches(e) \/ e = E
    <3>. HIDE DEF E
    <3>1. PICK x \in Dispatchers, b \in Accounts :
            \E p \in DOMAIN batch'[x][b] : batch'[x][b][p] = e
      BY <2>4 DEF InBatches
    <3>2. CASE x = d /\ b = a
      <4>1. batch[d][a] \in Seq(Email)
        BY DEF TypeOK, DispatchTypeOK
      <4>2. batch'[d][a] = Append(batch[d][a], E)
        BY <2>3 DEF TypeOK, DispatchTypeOK
      <4>3. PICK p \in DOMAIN batch'[d][a] : batch'[d][a][p] = e
        BY <3>1, <3>2
      <4>4. \/ p \in DOMAIN batch[d][a] /\ e = batch[d][a][p]
            \/ e = E
        BY <4>1, <4>2, <4>3
      <4>. QED
        BY <4>4 DEF InBatches
    <3>3. CASE ~(x = d /\ b = a)
      <4>1. batch'[x][b] = batch[x][b]
        BY <2>3, <3>3 DEF TypeOK, DispatchTypeOK
      <4>. QED
        BY <3>1, <4>1 DEF InBatches
    <3>. QED
      BY <3>2, <3>3
  <2>5. \A e \in Email : Waits(e)' => Waits(e) \/ New(e)
    BY <1>2, <1>8, <2>2, <2>4 DEF DPlace, jobVars, Waits
  <2>. QED
    BY <1>4, <1>8, <2>5 DEF DPlace
<1>9. ASSUME NEW t \in todo[d],
             \/ \E a \in Accounts : DFinishLead(d, t, a) \/ DBlank(d, t, a)
             \/ DLostMailbox(d, t) \/ DWaitSticky(d, t) \/ DFull(d, t)
      PROVE  /\ \A e \in Email : Waits(e)' => Waits(e)
             /\ \A u \in Snapshot : Row(u)' => Row(u)
  BY <1>3, <1>4, <1>9 DEF DFinishLead, DBlank, DLostMailbox, DWaitSticky, DFull, jobVars
<1>10. ASSUME NEW j \in Slots, DEnqueue(d, j)
       PROVE  /\ \A e \in Email : Waits(e)' => Waits(e)
              /\ \A u \in Snapshot : Row(u)' => Row(u)
  <2>1. /\ dcur[d] \in Accounts
        /\ jmail' = [jmail EXCEPT ![j] = batch[d][dcur[d]]]
        /\ batch' = [batch EXCEPT ![d][dcur[d]] = <<>>]
        /\ todo' = todo
    BY <1>10 DEF DEnqueue, TypeOK, DispatchTypeOK
  <2>2. ASSUME NEW e \in Email, InJobs(e)' PROVE Waits(e)
    <3>1. PICK k \in Slots : \E p \in DOMAIN jmail'[k] : jmail'[k][p] = e
      BY <2>2 DEF InJobs
    <3>2. CASE k = j
      BY <2>1, <3>1, <3>2 DEF TypeOK, JobTypeOK, Waits, InBatches
    <3>3. CASE k # j
      BY <2>1, <3>1, <3>3 DEF TypeOK, JobTypeOK, Waits, InJobs
    <3>. QED
      BY <3>2, <3>3
  <2>3. ASSUME NEW e \in Email, InBatches(e)' PROVE Waits(e)
    <3>1. PICK x \in Dispatchers, b \in Accounts :
            \E p \in DOMAIN batch'[x][b] : batch'[x][b][p] = e
      BY <2>3 DEF InBatches
    <3>2. batch'[x][b] \in {batch[x][b], <<>>}
      BY <2>1 DEF TypeOK, DispatchTypeOK
    <3>3. batch'[x][b] = batch[x][b]
      BY <3>1, <3>2
    <3>. QED
      BY <3>1, <3>3 DEF Waits, InBatches
  <2>. QED
    BY <2>1, <2>2, <2>3 DEF Waits, Row
<1>11. CASE DRelease(d)
  <2>1. Forget(d) /\ UNCHANGED jmail
    BY <1>11 DEF DRelease, jobVars
  <2>. QED
    BY <2>1, ForgetFlow
<1>. QED
  BY <1>5, <1>6, <1>7, <1>8, <1>9, <1>10, <1>11 DEF Dispatch

\* A worker reads no row, and brings no email into its job.
LEMMA WorkFlow ==
  ASSUME TypeOK, NEW j \in Slots, Work(j)
  PROVE  /\ UNCHANGED <<todo, batch>>
         /\ \A e \in Email : Waits(e)' => Waits(e)
<1>1. UNCHANGED dispVars
  BY DEF Work, JStart, JSkipBatch, JBlank, JNonCompliant, JDefer, JBlock, JPass, JDedupe,
     JAdvance, JBlankSubject, JSendOk, JSendSoft, JSendHard, JBounce, JRecord, JRollback
<1>2. NextEmail(j) \/ FreeSlot(j) \/ \E pc \in Running : Goto(j, pc)
  BY DEF Work, JStart, JSkipBatch, JBlank, JNonCompliant, JDefer, JBlock, JPass, JDedupe,
     JAdvance, JBlankSubject, JSendOk, JSendSoft, JSendHard, JBounce, JRecord, JRollback, Running
<1>3. \A e \in Email : InJobs(e)' => InJobs(e)
  BY <1>2, JobsShrink
<1>. QED
  BY <1>1, <1>3 DEF Waits, InBatches, dispVars

\* Nor does a fault: a job run again has the emails it had.
LEMMA FaultFlow ==
  ASSUME TypeOK, Fault
  PROVE  /\ \A e \in Email : Waits(e)' => Waits(e)
         /\ \A t \in Snapshot : Row(t)' => Row(t)
<1>1. ASSUME NEW d \in Dispatchers, DCrash(d) \/ DAbort(d) \/ DBindFails(d)
      PROVE  /\ \A e \in Email : Waits(e)' => Waits(e)
             /\ \A t \in Snapshot : Row(t)' => Row(t)
  <2>1. CASE DCrash(d)
    BY <2>1, ForgetFlow DEF DCrash, jobVars
  <2>2. CASE DAbort(d) \/ DBindFails(d)
    BY <2>2 DEF DAbort, DBindFails, Persist, jobVars, Waits, InBatches, InJobs, Row
  <2>. QED
    BY <1>1, <2>1, <2>2
<1>2. ASSUME UNCHANGED dispVars, \A e \in Email : InJobs(e)' => InJobs(e)
      PROVE  /\ \A e \in Email : Waits(e)' => Waits(e)
             /\ \A t \in Snapshot : Row(t)' => Row(t)
  BY <1>2 DEF dispVars, Waits, InBatches, Row
<1>3. ASSUME NEW j \in Slots, JCrash(j) \/ JProvisionFails(j) \/ JFails(j)
      PROVE  UNCHANGED dispVars /\ \A e \in Email : InJobs(e)' => InJobs(e)
  <2>1. UNCHANGED dispVars /\ (NextEmail(j) \/ FreeSlot(j) \/ UNCHANGED jmail)
    BY <1>3 DEF JCrash, JProvisionFails, JFails
  <2>. QED
    BY <2>1, JobsShrink
<1>4. ASSUME NEW j \in Slots, NEW k \in Slots, JStall(j, k)
      PROVE  UNCHANGED dispVars /\ \A e \in Email : InJobs(e)' => InJobs(e)
  <2>1. jmail' = [jmail EXCEPT ![k] = jmail[j]] /\ UNCHANGED dispVars
    BY <1>4 DEF JStall
  <2>. QED
    BY <2>1 DEF InJobs, TypeOK, JobTypeOK
<1>. QED
  BY <1>1, <1>2, <1>3, <1>4 DEF Fault

\* All the steps together: an email is made of a row that was read; a row read is the
\* row as it was.
LEMMA Flow ==
  ASSUME TypeOK, [Next]_vars
  PROVE  /\ \A e \in Email : Waits(e)' => Waits(e) \/
              \E t \in Snapshot : Row(t) /\ MadeOf(e, t)
         /\ \A t \in Snapshot : Row(t)' => Row(t) \/
              /\ status[t.lead] = "active" /\ t.step = step[t.lead]
              /\ UNCHANGED <<status, step, replied, sendEvent>>
<1>1. UNCHANGED <<todo, batch>> => \A t \in Snapshot : Row(t)' => Row(t)
  BY DEF Row
<1>2. UNCHANGED <<todo, batch, jmail>> =>
        /\ \A e \in Email : Waits(e)' => Waits(e)
        /\ \A t \in Snapshot : Row(t)' => Row(t)
  BY DEF Waits, InBatches, InJobs, Row
<1>3. CASE Environment \/ LockExpire \/ (\E l \in Leads : BecomeDue(l)) \/ UNCHANGED vars
  <2>1. UNCHANGED <<todo, batch, jmail>>
    BY <1>3 DEF Environment, Reply, PauseLead, Unsubscribe, AsyncBounce, PauseMailbox,
       RecoverMailbox, DetachMailbox, AttachMailbox, DeleteMailbox, SetMailbox, ResolveStop,
       ResolveContinue, RestartRead, RestartWrite, PauseCampaign, ResumeCampaign,
       LaunchCampaign, SetCampaign, EditSequence, EnrollCheck, EnrollCreate, LockExpire,
       BecomeDue, dispVars, jobVars, vars
  <2>. QED
    BY <1>2, <2>1
<1>4. CASE \E d \in Dispatchers : Dispatch(d)
  BY <1>4, DispatchFlow
<1>5. CASE \E j \in Slots : Work(j)
  BY <1>1, <1>5, WorkFlow
<1>6. CASE Fault
  BY <1>6, FaultFlow
<1>. QED
  BY <1>3, <1>4, <1>5, <1>6 DEF Next

-----------------------------------------------------------------------------
(* A reply ends the sequence                                               *)

\* A lead enters the pipeline with its row, so nothing under way can bring an absent
\* one to life: the row is created active and without a reply, once.
ReplyInv ==
  /\ TypeOK
  /\ ReplyEndsSequence
  /\ restarting = {}
  /\ \A l \in Leads : status[l] = "absent" => ~replied[l]
  /\ \A l \in enrolling : status[l] = "absent"
  /\ \A t \in Snapshot : Row(t) => status[t.lead] # "absent"
  /\ \A e \in Email : Waits(e) => status[e.lead] # "absent"

\* What a step that neither enrolls the lead nor takes its reply does to it: its
\* row stays as it is or, if it exists, leaves the sequence.
Quiet(l) ==
  /\ replied'[l] = replied[l]
  /\ \/ status'[l] = status[l]
     \/ status[l] # "absent" /\ status'[l] \notin {"active", "absent"}

\* Stopping a lead that has a row, and advancing one, are quiet for all of them.
LEMMA QuietWrites ==
  ASSUME TypeOK, UNCHANGED replied, NEW k \in Leads, status[k] # "absent"
  PROVE  /\ \A why : \A s \in Statuses \ {"active", "absent"} :
              Stop(k, s, why) => \A l \in Leads : Quiet(l)
         /\ \A e \in Email : e.lead = k /\ AdvanceLead(e) => \A l \in Leads : Quiet(l)
<1>1. \A why : \A s \in Statuses \ {"active", "absent"} :
        Stop(k, s, why) => \A l \in Leads : Quiet(l)
  BY DEF Stop, Quiet, TypeOK, LeadTypeOK
<1>2. \A e \in Email : e.lead = k /\ AdvanceLead(e) => \A l \in Leads : Quiet(l)
  BY DEF AdvanceLead, Advanced, Quiet, TypeOK, LeadTypeOK
<1>. QED
  BY <1>1, <1>2

\* No step of dispatch() is anything but quiet.
LEMMA QuietDispatch ==
  ASSUME ReplyInv, NEW d \in Dispatchers, Dispatch(d)
  PROVE  \A l \in Leads : Quiet(l)
<1>1. UNCHANGED <<status, replied>> => \A l \in Leads : Quiet(l)
  BY DEF Quiet
<1>2. \A t \in todo[d] : t \in Snapshot /\ t.lead \in Leads /\ status[t.lead] # "absent"
  BY DEF ReplyInv, Row, TypeOK, DispatchTypeOK, Snapshot
<1>3. CASE DSuppress(d)
  BY <1>2, <1>3 DEF DSuppress, SuppressedOf, Quiet
<1>4. ASSUME NEW t \in todo[d], NEW a \in Accounts, DFinishLead(d, t, a) \/ DBlank(d, t, a)
      PROVE  \A l \in Leads : Quiet(l)
  BY <1>2, <1>4, QuietWrites DEF DFinishLead, DBlank, ReplyInv, Statuses
<1>5. ASSUME NEW t \in todo[d], DLostMailbox(d, t) PROVE \A l \in Leads : Quiet(l)
  BY <1>2, <1>5 DEF DLostMailbox, Quiet, ReplyInv, TypeOK, LeadTypeOK
<1>6. CASE \/ DAcquire(d) \/ DLoad(d) \/ DSkipCampaign(d) \/ DSelect(d) \/ DBind(d)
           \/ (\E t \in todo[d], a \in Accounts : DPlace(d, t, a))
           \/ (\E t \in todo[d] : DWaitSticky(d, t) \/ DFull(d, t))
           \/ (\E a \in Accounts : DClaim(d, a)) \/ (\E j \in Slots : DEnqueue(d, j))
           \/ DCount(d) \/ DComplete(d) \/ DRelease(d)
  <2>1. UNCHANGED <<status, replied>>
    BY <1>6 DEF DAcquire, DLoad, DSkipCampaign, DSelect, DBind, Persist, DPlace, DWaitSticky,
       DFull, DClaim, DEnqueue, DCount, DComplete, DRelease, leadVars
  <2>. QED
    BY <1>1, <2>1
<1>. QED
  BY <1>3, <1>4, <1>5, <1>6 DEF Dispatch

\* Nor any step of a worker.
LEMMA QuietWork ==
  ASSUME ReplyInv, NEW j \in Slots, Work(j)
  PROVE  \A l \in Leads : Quiet(l)
<1>1. UNCHANGED <<status, replied>> => \A l \in Leads : Quiet(l)
  BY DEF Quiet
<1>2. ASSUME jpc[j] # "free"
      PROVE  Cur(j) \in Email /\ Cur(j).lead \in Leads /\ status[Cur(j).lead] # "absent"
  BY <1>2, CurWaits DEF ReplyInv, Email
<1>3. CASE JBlank(j) \/ JBlock(j) \/ JBlankSubject(j)
  <2>1. jpc[j] # "free" /\ UNCHANGED replied
    BY <1>3 DEF JBlank, JBlock, JBlankSubject, At
  <2>2. \E why : Stop(Cur(j).lead, "paused", why)
    BY <1>3 DEF JBlank, JBlock, JBlankSubject
  <2>. QED
    BY <1>2, <2>1, <2>2, QuietWrites DEF ReplyInv, Statuses
<1>4. CASE JAdvance(j) \/ JRecord(j)
  <2>1. jpc[j] # "free" /\ UNCHANGED replied /\ AdvanceLead(Cur(j))
    BY <1>4 DEF JAdvance, JRecord, At
  <2>. QED
    BY <1>2, <2>1, QuietWrites DEF ReplyInv
<1>5. CASE \/ JStart(j) \/ JSkipBatch(j) \/ JNonCompliant(j) \/ JDefer(j) \/ JPass(j) \/ JDedupe(j)
           \/ JSendOk(j) \/ JSendSoft(j) \/ JSendHard(j) \/ JBounce(j) \/ JRollback(j)
  <2>1. UNCHANGED <<status, replied>>
    BY <1>5 DEF JStart, JSkipBatch, JNonCompliant, JDefer, JPass, JDedupe, JSendOk, JSendSoft,
       JSendHard, JBounce, JRollback, leadVars
  <2>. QED
    BY <1>1, <2>1
<1>. QED
  BY <1>3, <1>4, <1>5 DEF Work

\* The lead's own events: a reply takes its row out of the sequence, and only an
\* enrollment puts one in.
LEMMA LeadSteps ==
  ASSUME ReplyInv, [Next]_vars, "resolve" \notin Events, NEW l \in Leads
  PROVE  \/ Quiet(l)
         \/ status[l] # "absent" /\ status'[l] \notin {"active", "absent"}
         \/ l \in enrolling /\ l \notin enrolling' /\ replied'[l] = replied[l] /\ status'[l] = "active"
<1>1. UNCHANGED <<status, replied>> => Quiet(l)
  BY DEF Quiet
<1>2. CASE (\E d \in Dispatchers : Dispatch(d)) \/ (\E j \in Slots : Work(j))
  BY <1>2, QuietDispatch, QuietWork
<1>3. ASSUME NEW k \in Leads, Reply(k) \/ PauseLead(k) \/ Unsubscribe(k) \/ AsyncBounce(k)
      PROVE  Quiet(l) \/ (status[l] # "absent" /\ status'[l] \notin {"active", "absent"})
  <2>1. status \in [Leads -> Statuses] /\ replied \in [Leads -> BOOLEAN]
    BY DEF ReplyInv, TypeOK, LeadTypeOK
  <2>2. CASE Reply(k)
    BY <2>1, <2>2 DEF Reply, Quiet
  <2>3. CASE PauseLead(k)
    BY <2>1, <2>3 DEF PauseLead, Stop, Quiet
  <2>4. CASE Unsubscribe(k)
    BY <2>1, <2>4 DEF Unsubscribe, Quiet
  <2>5. CASE AsyncBounce(k)
    BY <2>1, <2>5 DEF AsyncBounce, Quiet
  <2>. QED
    BY <1>3, <2>2, <2>3, <2>4, <2>5
<1>4. ASSUME NEW k \in Leads, EnrollCreate(k)
      PROVE  \/ Quiet(l)
             \/ l \in enrolling /\ l \notin enrolling' /\ replied'[l] = replied[l] /\ status'[l] = "active"
  BY <1>4 DEF EnrollCreate, Quiet, ReplyInv, TypeOK, LeadTypeOK
<1>5. CASE \/ \E a \in Accounts : \/ PauseMailbox(a) \/ RecoverMailbox(a) \/ DetachMailbox(a)
                                  \/ AttachMailbox(a) \/ DeleteMailbox(a) \/ RestartRead(a)
                                  \/ ResolveStop(a) \/ ResolveContinue(a)
           \/ RestartWrite \/ PauseCampaign \/ ResumeCampaign \/ LaunchCampaign \/ EditSequence
           \/ \E k \in Leads : EnrollCheck(k)
           \/ Fault \/ LockExpire \/ (\E k \in Leads : BecomeDue(k)) \/ UNCHANGED vars
  <2>1. UNCHANGED <<status, replied>>
    BY <1>5 DEF PauseMailbox, RecoverMailbox, DetachMailbox, AttachMailbox, DeleteMailbox,
       SetMailbox, RestartRead, ResolveStop, ResolveContinue, RestartWrite, PauseCampaign,
       ResumeCampaign, LaunchCampaign, SetCampaign, EditSequence, EnrollCheck, Fault, DCrash,
       DAbort, DBindFails, Persist, JCrash, JProvisionFails, JFails, JStall, LockExpire,
       BecomeDue, ReplyInv, vars, leadVars
  <2>. QED
    BY <1>1, <2>1
<1>. QED
  BY <1>2, <1>3, <1>4, <1>5 DEF Next, Environment

\* Nobody but the enrollment touches its set, and without the restart endpoint nobody
\* the other one.
LEMMA RestKept ==
  ASSUME [Next]_vars
  PROVE  /\ (\E l \in Leads : EnrollCheck(l) \/ EnrollCreate(l)) \/ UNCHANGED enrolling
         /\ restarting = {} /\ "restart" \notin Events => restarting' = {}
<1>1. ASSUME NEW d \in Dispatchers, Dispatch(d) PROVE UNCHANGED restVars
  BY <1>1 DEF Dispatch, DAcquire, DLoad, DSkipCampaign, DSelect, DSuppress, DPlace, DFinishLead,
     DBlank, DLostMailbox, DWaitSticky, DFull, DBind, DClaim, DEnqueue, DCount, DComplete,
     DRelease
<1>2. ASSUME NEW j \in Slots, Work(j) PROVE UNCHANGED restVars
  BY <1>2 DEF Work, JStart, JSkipBatch, JBlank, JNonCompliant, JDefer, JBlock, JPass, JDedupe,
     JAdvance, JBlankSubject, JSendOk, JSendSoft, JSendHard, JBounce, JRecord, JRollback
<1>3. ASSUME Fault PROVE UNCHANGED <<restarting, enrolling>>
  BY <1>3 DEF Fault, Strikes, DCrash, DAbort, DBindFails, JCrash, JProvisionFails, JFails, JStall
<1>4. CASE Environment
  <2>1. CASE RestartWrite
    BY <2>1 DEF RestartWrite
  <2>2. CASE \E l \in Leads : EnrollCheck(l) \/ EnrollCreate(l)
    BY <2>2 DEF EnrollCheck, EnrollCreate
  <2>3. CASE \E a \in Accounts : RestartRead(a)
    BY <2>3 DEF RestartRead
  <2>4. CASE \/ \E l \in Leads : Reply(l) \/ PauseLead(l) \/ Unsubscribe(l) \/ AsyncBounce(l)
             \/ \E a \in Accounts : \/ PauseMailbox(a) \/ RecoverMailbox(a) \/ DetachMailbox(a)
                                    \/ AttachMailbox(a) \/ DeleteMailbox(a) \/ ResolveStop(a)
                                    \/ ResolveContinue(a)
             \/ PauseCampaign \/ ResumeCampaign \/ LaunchCampaign \/ EditSequence
    <3>1. UNCHANGED restVars
      BY <2>4 DEF Reply, PauseLead, Unsubscribe, AsyncBounce, PauseMailbox,
         RecoverMailbox, DetachMailbox, AttachMailbox, DeleteMailbox, SetMailbox, ResolveStop,
         ResolveContinue, PauseCampaign, ResumeCampaign, LaunchCampaign, SetCampaign, EditSequence
    <3>. QED
      BY <3>1 DEF restVars
  <2>. QED
    BY <1>4, <2>1, <2>2, <2>3, <2>4 DEF Environment
<1>5. CASE LockExpire \/ (\E l \in Leads : BecomeDue(l)) \/ UNCHANGED vars
  BY <1>5 DEF LockExpire, BecomeDue, restVars, vars
<1>. QED
  BY <1>1, <1>2, <1>3, <1>4, <1>5 DEF Next, restVars

\* The invariant is inductive.
LEMMA ReplyStep ==
  ASSUME ReplyInv, [Next]_vars, "resolve" \notin Events, "restart" \notin Events
  PROVE  ReplyInv'
<1>1. TypeOK'
  BY TypeStep DEF ReplyInv
<1>2. \A l \in Leads : \/ Quiet(l)
                       \/ status[l] # "absent" /\ status'[l] \notin {"active", "absent"}
                       \/ /\ l \in enrolling /\ l \notin enrolling'
                          /\ replied'[l] = replied[l] /\ status'[l] = "active"
  BY LeadSteps
<1>3. ReplyEndsSequence' /\ \A l \in Leads : status'[l] = "absent" => ~replied'[l]
  BY <1>2 DEF Quiet, ReplyInv, ReplyEndsSequence
<1>4. \A l \in Leads : status[l] # "absent" => status'[l] # "absent"
  BY <1>2 DEF Quiet
<1>5. \A l \in enrolling' : status'[l] = "absent"
  <2>1. enrolling' \subseteq Leads
    BY <1>1 DEF TypeOK, RestTypeOK
  <2>2. \A l \in enrolling' : l \in enrolling \/ (status[l] = "absent" /\ status'[l] = "absent")
    <3>1. CASE \E k \in Leads : EnrollCheck(k)
      BY <3>1 DEF EnrollCheck, leadVars
    <3>2. CASE \E k \in Leads : EnrollCreate(k)
      BY <3>2 DEF EnrollCreate
    <3>3. CASE ~\E k \in Leads : EnrollCheck(k) \/ EnrollCreate(k)
      <4>1. UNCHANGED enrolling
        BY <3>3, RestKept
      <4>. QED
        BY <4>1
    <3>. QED
      BY <3>1, <3>2, <3>3
  <2>. QED
    BY <1>2, <2>1, <2>2 DEF Quiet, ReplyInv
<1>6. restarting' = {}
  BY RestKept DEF ReplyInv
<1>7. ASSUME NEW t \in Snapshot, Row(t)' PROVE status'[t.lead] # "absent"
  <2>1. t.lead \in Leads /\ (Row(t) \/ status[t.lead] = "active")
    BY <1>7, Flow DEF ReplyInv, Snapshot
  <2>. QED
    BY <1>4, <2>1 DEF ReplyInv
<1>8. ASSUME NEW e \in Email, Waits(e)' PROVE status'[e.lead] # "absent"
  <2>1. Waits(e) \/ \E t \in Snapshot : Row(t) /\ e.lead = t.lead
    BY <1>8, Flow DEF ReplyInv, MadeOf
  <2>2. e.lead \in Leads
    BY DEF Email
  <2>. QED
    BY <1>4, <2>1, <2>2 DEF ReplyInv
<1>. QED
  BY <1>1, <1>3, <1>5, <1>6, <1>7, <1>8 DEF ReplyInv

\* Whoever replied is written to no more: with no lost-mailbox decision in the way,
\* no interleaving of dispatchers, workers, crashes, stalls and failed calls brings
\* a lead that replied back to "active".
THEOREM ReplyEnds ==
  ASSUME "resolve" \notin Events, "restart" \notin Events
  PROVE  Spec => []ReplyEndsSequence
<1>1. Init => ReplyInv
  <2>1. ASSUME Init PROVE (\A t \in Snapshot : ~Row(t)) /\ (\A e \in Email : ~Waits(e))
    BY <2>1 DEF Init, Row, Waits, InBatches, InJobs, NoBatch
  <2>. QED
    BY <2>1, TypeInit DEF Init, ReplyInv, ReplyEndsSequence
<1>2. ReplyInv /\ [Next]_vars => ReplyInv'
  BY ReplyStep
<1>3. ReplyInv => ReplyEndsSequence
  BY DEF ReplyInv
<1>. QED
  BY <1>1, <1>2, <1>3, PTL DEF Spec

-----------------------------------------------------------------------------
(* A sequence is sent in order                                             *)

\* The lead has had the first n steps, but those it was led past.
Sent(l, n) == \A s \in 1..n : HadOrPassed(<<l, s>>)

\* What a row or an email rests on was recorded or passed over before it was read: a
\* row at step n follows n such steps, and an email for step n follows n - 1 of them.
SkipInv ==
  /\ TypeOK
  /\ NoStepSkipped
  /\ restarting = {}
  /\ \A t \in Snapshot : Row(t) => Sent(t.lead, t.step)
  /\ \A e \in Email : Waits(e) => Sent(e.lead, e.step - 1)
  /\ \A j \in Slots : At(j, "advance") => Recorded(Key(Cur(j)))

\* The two ways the columns behind NoStepSkipped change.
NoProgress == UNCHANGED <<step, sendEvent>>

Progress(j) ==
  /\ jpc[j] # "free"
  /\ step' \in {step, [step EXCEPT ![Cur(j).lead] = Cur(j).step]}
  /\ \/ At(j, "advance") /\ UNCHANGED sendEvent
     \/ \E a \in Accounts : sendEvent' = [sendEvent EXCEPT ![Key(Cur(j))] = a]

\* A dispatch advances no lead and records no email, and it touches a job only to
\* queue one.
LEMMA DispatchKeeps ==
  ASSUME NEW d \in Dispatchers, Dispatch(d)
  PROVE  /\ UNCHANGED <<step, sendEvent>>
         /\ (~\E j \in Slots : DEnqueue(d, j)) => UNCHANGED jpc
<1>1. ASSUME NEW t \in todo[d], NEW a \in Accounts,
             DPlace(d, t, a) \/ DFinishLead(d, t, a) \/ DBlank(d, t, a)
      PROVE  UNCHANGED <<step, sendEvent, jpc>>
  BY <1>1 DEF DPlace, DFinishLead, DBlank, leadVars, dataVars, jobVars
<1>2. ASSUME NEW t \in todo[d], DLostMailbox(d, t) \/ DWaitSticky(d, t) \/ DFull(d, t)
      PROVE  UNCHANGED <<step, sendEvent, jpc>>
  BY <1>2 DEF DLostMailbox, DWaitSticky, DFull, leadVars, dataVars, jobVars
<1>3. ASSUME NEW a \in Accounts, DClaim(d, a) PROVE UNCHANGED <<step, sendEvent, jpc>>
  BY <1>3 DEF DClaim, dataVars, jobVars
<1>4. ASSUME DAcquire(d) \/ DLoad(d) \/ DSkipCampaign(d) \/ DSelect(d) \/ DSuppress(d)
      PROVE  UNCHANGED <<step, sendEvent, jpc>>
  BY <1>4 DEF DAcquire, DLoad, DSkipCampaign, DSelect, DSuppress, leadVars, dataVars, jobVars
<1>5. ASSUME DBind(d) \/ DCount(d) \/ DComplete(d) \/ DRelease(d)
      PROVE  UNCHANGED <<step, sendEvent, jpc>>
  BY <1>5 DEF DBind, Persist, DCount, DComplete, DRelease, leadVars, dataVars, jobVars
<1>6. ASSUME NEW j \in Slots, DEnqueue(d, j) PROVE UNCHANGED <<step, sendEvent>>
  BY <1>6 DEF DEnqueue, leadVars, dataVars
<1>. QED
  BY <1>1, <1>2, <1>3, <1>4, <1>5, <1>6 DEF Dispatch

\* Only a worker that has found or made the record advances a lead.
LEMMA ProgressSteps ==
  ASSUME TypeOK, restarting = {}, [Next]_vars
  PROVE  NoProgress \/ \E j \in Slots : Progress(j)
<1>1. ASSUME NEW d \in Dispatchers, Dispatch(d) PROVE NoProgress
  BY <1>1, DispatchKeeps DEF NoProgress
<1>2. ASSUME NEW j \in Slots, Work(j) PROVE NoProgress \/ Progress(j)
  <2>1. CASE JAdvance(j)
    BY <2>1 DEF JAdvance, AdvanceLead, Advanced, Progress, At, dataVars
  <2>2. CASE JRecord(j)
    <3>1. jpc[j] # "free" /\ jacct[j] \in Accounts
      BY <2>2, CurType DEF JRecord, At, TypeOK
    <3>. QED
      BY <2>2, <3>1 DEF JRecord, AdvanceLead, Advanced, Progress
  <2>3. CASE ~JAdvance(j) /\ ~JRecord(j)
    BY <1>2, <2>3 DEF Work, JStart, JSkipBatch, JBlank, JNonCompliant, JDefer, JBlock, JPass,
       JDedupe, JBlankSubject, JSendOk, JSendSoft, JSendHard, JBounce, JRollback, NoProgress,
       leadVars, dataVars
  <2>. QED
    BY <2>1, <2>2, <2>3
<1>3. ASSUME Fault PROVE NoProgress
  BY <1>3 DEF Fault, DCrash, DAbort, DBindFails, Persist, JCrash, JProvisionFails, JFails, JStall,
     NoProgress, leadVars, dataVars
<1>4. ASSUME Environment PROVE NoProgress
  <2>1. CASE RestartWrite
    BY <2>1 DEF RestartWrite
  <2>2. CASE ~RestartWrite
    BY <1>4, <2>2 DEF Environment, Reply, PauseLead, Unsubscribe, AsyncBounce, PauseMailbox,
       RecoverMailbox, DetachMailbox, AttachMailbox, DeleteMailbox, SetMailbox, ResolveStop,
       ResolveContinue, RestartRead, PauseCampaign, ResumeCampaign, LaunchCampaign,
       SetCampaign, EditSequence, EnrollCheck, EnrollCreate, NoProgress, leadVars, dataVars
  <2>. QED
    BY <2>1, <2>2
<1>5. CASE LockExpire \/ (\E l \in Leads : BecomeDue(l)) \/ UNCHANGED vars
  BY <1>5 DEF LockExpire, BecomeDue, NoProgress, vars, leadVars, dataVars
<1>. QED
  BY <1>1, <1>2, <1>3, <1>4, <1>5 DEF Next

\* Steps are passed over when a row is placed, and stay so unless the lead restarts.
LEMMA PassSteps ==
  ASSUME restarting = {}, [Next]_vars
  PROVE  \/ UNCHANGED passed
         \/ \E d \in Dispatchers : \E t \in todo[d], a \in Accounts : DPlace(d, t, a)
<1>1. ASSUME NEW d \in Dispatchers, Dispatch(d), ~\E t \in todo[d], a \in Accounts : DPlace(d, t, a)
      PROVE  UNCHANGED passed
  BY <1>1 DEF Dispatch, DAcquire, DLoad, DSkipCampaign, DSelect, DSuppress, DFinishLead,
     DBlank, DLostMailbox, DWaitSticky, DFull, DBind, Persist, DClaim, DEnqueue, DCount,
     DComplete, DRelease, histVars
<1>2. ASSUME NEW j \in Slots, Work(j) PROVE UNCHANGED passed
  BY <1>2 DEF Work, JStart, JSkipBatch, JBlank, JNonCompliant, JDefer, JBlock, JPass, JDedupe,
     JAdvance, JBlankSubject, JSendOk, JSendSoft, JSendHard, JBounce, JRecord, JRollback, histVars
<1>3. ASSUME Fault PROVE UNCHANGED passed
  BY <1>3 DEF Fault, DCrash, DAbort, DBindFails, Persist, JCrash, JProvisionFails, JFails, JStall,
     histVars
<1>4. CASE Environment \/ LockExpire \/ (\E l \in Leads : BecomeDue(l)) \/ UNCHANGED vars
  BY <1>4 DEF Environment, Reply, PauseLead, Unsubscribe, AsyncBounce, PauseMailbox,
     RecoverMailbox, DetachMailbox, AttachMailbox, DeleteMailbox, SetMailbox, ResolveStop,
     ResolveContinue, RestartRead, RestartWrite, PauseCampaign, ResumeCampaign,
     LaunchCampaign, SetCampaign, EditSequence, EnrollCheck, EnrollCreate, LockExpire,
     BecomeDue, vars, histVars
<1>. QED
  BY <1>1, <1>2, <1>3, <1>4 DEF Next

\* A job comes to the advance of its email by finding its record, and stays there.
LEMMA AdvanceSteps ==
  ASSUME TypeOK, [Next]_vars, NEW k \in Slots, At(k, "advance")'
  PROVE  Cur(k)' = Cur(k) /\ (At(k, "advance") \/ Recorded(Key(Cur(k))))
<1>1. ASSUME UNCHANGED <<jpc, jmail, jpos>> PROVE Cur(k)' = Cur(k) /\ At(k, "advance")
  BY <1>1 DEF Cur, At
<1>2. ASSUME NEW j \in Slots, NextEmail(j) \/ FreeSlot(j)
      PROVE  Cur(k)' = Cur(k) /\ At(k, "advance")
  BY <1>2 DEF NextEmail, FreeSlot, Cur, At, TypeOK, JobTypeOK
<1>3. ASSUME NEW j \in Slots, NEW pc \in Running, Goto(j, pc),
             pc = "advance" => Recorded(Key(Cur(j)))
      PROVE  Cur(k)' = Cur(k) /\ (At(k, "advance") \/ Recorded(Key(Cur(k))))
  BY <1>3 DEF Goto, Cur, At, TypeOK, JobTypeOK
<1>4. ASSUME NEW d \in Dispatchers, Dispatch(d)
      PROVE  Cur(k)' = Cur(k) /\ At(k, "advance")
  <2>1. CASE \E j \in Slots : DEnqueue(d, j)
    BY <2>1 DEF DEnqueue, Cur, At, TypeOK, JobTypeOK
  <2>2. CASE ~\E j \in Slots : DEnqueue(d, j)
    <3>1. UNCHANGED jobVars
      BY <1>4, <2>2 DEF Dispatch, DAcquire, DLoad, DSkipCampaign, DSelect, DSuppress, DPlace,
         DFinishLead, DBlank, DLostMailbox, DWaitSticky, DFull, DBind, Persist, DClaim, DCount,
         DComplete, DRelease
    <3>. QED
      BY <1>1, <3>1 DEF jobVars
  <2>. QED
    BY <2>1, <2>2
<1>5. ASSUME NEW j \in Slots, Work(j)
      PROVE  Cur(k)' = Cur(k) /\ (At(k, "advance") \/ Recorded(Key(Cur(k))))
  <2>1. \/ NextEmail(j) \/ FreeSlot(j)
        \/ \E pc \in Running : Goto(j, pc) /\ (pc = "advance" => Recorded(Key(Cur(j))))
    BY <1>5 DEF Work, JStart, JSkipBatch, JBlank, JNonCompliant, JDefer, JBlock, JPass, JDedupe,
       JAdvance, JBlankSubject, JSendOk, JSendSoft, JSendHard, JBounce, JRecord, JRollback,
       Running
  <2>. QED
    BY <1>2, <1>3, <2>1
<1>6. ASSUME Fault PROVE Cur(k)' = Cur(k) /\ At(k, "advance")
  <2>1. CASE \E j \in Slots : JCrash(j)
    BY <1>2, <2>1 DEF JCrash, Cur, At, TypeOK, JobTypeOK
  <2>2. CASE \E j \in Slots : JProvisionFails(j) \/ JFails(j)
    BY <1>2, <2>2 DEF JProvisionFails, JFails
  <2>3. CASE \E j, i \in Slots : JStall(j, i)
    BY <2>3 DEF JStall, Cur, At, TypeOK, JobTypeOK
  <2>4. CASE \E d \in Dispatchers : DCrash(d) \/ DAbort(d) \/ DBindFails(d)
    BY <1>1, <2>4 DEF DCrash, DAbort, DBindFails, Persist, jobVars
  <2>. QED
    BY <1>6, <2>1, <2>2, <2>3, <2>4 DEF Fault
<1>7. CASE Environment \/ LockExpire \/ (\E l \in Leads : BecomeDue(l)) \/ UNCHANGED vars
  <2>1. UNCHANGED jobVars
    BY <1>7 DEF Environment, Reply, PauseLead, Unsubscribe, AsyncBounce, PauseMailbox,
       RecoverMailbox, DetachMailbox, AttachMailbox, DeleteMailbox, SetMailbox, ResolveStop,
       ResolveContinue, RestartRead, RestartWrite, PauseCampaign, ResumeCampaign,
       LaunchCampaign, SetCampaign, EditSequence, EnrollCheck, EnrollCreate, LockExpire,
       BecomeDue, vars
  <2>. QED
    BY <1>1, <2>1 DEF jobVars
<1>. QED
  BY <1>4, <1>5, <1>6, <1>7 DEF Next

\* The invariant is inductive.
LEMMA SkipStep ==
  ASSUME SkipInv, [Next]_vars, "restart" \notin Events
  PROVE  SkipInv'
<1>1. TypeOK'
  BY TypeStep DEF SkipInv
<1>2. NoProgress \/ \E j \in Slots : Progress(j)
  BY ProgressSteps DEF SkipInv
<1>3. \A m \in Mail : (Recorded(m) => Recorded(m)') /\ (HadOrPassed(m) => HadOrPassed(m)')
  <2>1. sendEvent \in [Mail -> Accounts \cup {NoAcct}]
    BY DEF SkipInv, TypeOK, DataTypeOK
  <2>2. \A m \in Mail : Recorded(m) => Recorded(m)'
    BY <1>2, <2>1 DEF NoProgress, Progress, Recorded
  <2>3. passed \subseteq passed'
    <3>1. ASSUME NEW d \in Dispatchers, NEW t \in todo[d], NEW a \in Accounts, DPlace(d, t, a)
          PROVE  passed \subseteq passed'
      BY <3>1 DEF DPlace
    <3>. QED
      BY <3>1, PassSteps DEF SkipInv
  <2>. QED
    BY <2>2, <2>3 DEF HadOrPassed
<1>4. \A l \in Leads, n \in 0..NumSteps : Sent(l, n) => Sent(l, n)'
  BY <1>3, ConstantsAssumption DEF Sent, Mail, Steps
<1>5. NoStepSkipped'
  <2>1. CASE NoProgress
    <3>1. \A l \in Leads : Sent(l, step[l])
      BY DEF SkipInv, NoStepSkipped, Sent
    <3>2. \A l \in Leads : Sent(l, step[l])'
      BY <1>4, <2>1, <3>1 DEF NoProgress, SkipInv, TypeOK, LeadTypeOK, Sent
    <3>3. ASSUME NEW m \in Mail, Recorded(m)' PROVE Sent(m[1], m[2] - 1)'
      <4>1. m[1] \in Leads /\ m[2] - 1 \in 0..NumSteps
        BY DEF Mail, Steps
      <4>2. Sent(m[1], m[2] - 1)
        BY <2>1, <3>3 DEF NoProgress, SkipInv, NoStepSkipped, Sent, Recorded
      <4>. QED
        BY <1>4, <4>1, <4>2
    <3>. QED
      BY <3>2, <3>3 DEF NoStepSkipped, Sent
  <2>2. ASSUME NEW j \in Slots, Progress(j) PROVE NoStepSkipped'
    <3>1. PICK e \in Email : e = Cur(j) /\ Waits(e)
      BY <2>2, CurWaits DEF SkipInv, Progress
    <3>2. e.lead \in Leads /\ e.step \in Steps /\ Key(e) \in Mail
      BY <3>1 DEF Email, Key
    <3>3. Sent(e.lead, e.step - 1)
      BY <3>1 DEF SkipInv
    <3>4. Recorded(Key(e))'
      <4>1. CASE At(j, "advance") /\ UNCHANGED sendEvent
        BY <3>1, <4>1 DEF SkipInv, Recorded
      <4>2. CASE \E a \in Accounts : sendEvent' = [sendEvent EXCEPT ![Key(Cur(j))] = a]
        BY <3>1, <3>2, <4>2 DEF SkipInv, TypeOK, DataTypeOK, Recorded
      <4>. QED
        BY <2>2, <4>1, <4>2 DEF Progress
    <3>5. Sent(e.lead, e.step)'
      <4>1. Sent(e.lead, e.step - 1)'
        BY <1>4, <3>2, <3>3 DEF Steps
      <4>2. HadOrPassed(<<e.lead, e.step>>)'
        BY <3>4 DEF HadOrPassed, Key
      <4>. QED
        BY <3>2, <4>1, <4>2 DEF Sent, Steps
    <3>6. \A l \in Leads : \A s \in 1..(step'[l]) : HadOrPassed(<<l, s>>)'
      <4>1. ASSUME NEW l \in Leads, NEW n \in 0..NumSteps, n = step'[l] PROVE Sent(l, n)'
        <5>1. CASE n = step[l]
          BY <1>4, <5>1 DEF SkipInv, NoStepSkipped, Sent
        <5>2. CASE n # step[l]
          <6>1. l = e.lead /\ n = e.step
            BY <2>2, <3>1, <4>1, <5>2 DEF Progress, SkipInv, TypeOK, LeadTypeOK
          <6>. QED
            BY <3>5, <6>1
        <5>. QED
          BY <5>1, <5>2
      <4>2. step' \in [Leads -> 0..NumSteps]
        BY <1>1 DEF TypeOK, LeadTypeOK
      <4>. QED
        BY <4>1, <4>2 DEF Sent
    <3>7. ASSUME NEW m \in Mail, Recorded(m)' PROVE Sent(m[1], m[2] - 1)'
      <4>0. m[1] \in Leads /\ m[2] - 1 \in 0..NumSteps
        BY DEF Mail, Steps
      <4>1. CASE m = Key(e)
        BY <3>2, <3>5, <4>1 DEF Sent, Key, Steps
      <4>2. CASE m # Key(e)
        <5>1. Recorded(m)
          BY <2>2, <3>1, <3>7, <4>2 DEF Progress, Recorded, SkipInv, TypeOK, DataTypeOK
        <5>2. Sent(m[1], m[2] - 1)
          BY <5>1 DEF SkipInv, NoStepSkipped, Sent
        <5>. QED
          BY <1>4, <4>0, <5>2
      <4>. QED
        BY <4>1, <4>2
    <3>. QED
      BY <3>6, <3>7 DEF NoStepSkipped, Sent
  <2>. QED
    BY <1>2, <2>1, <2>2
<1>6. restarting' = {}
  BY RestKept DEF SkipInv
<1>7. ASSUME NEW t \in Snapshot, Row(t)' PROVE Sent(t.lead, t.step)'
  <2>1. t.lead \in Leads /\ t.step \in 0..NumSteps
    BY DEF Snapshot
  <2>2. Row(t) \/ t.step = step[t.lead]
    BY <1>7, Flow DEF SkipInv
  <2>3. Sent(t.lead, t.step)
    BY <2>1, <2>2 DEF SkipInv, NoStepSkipped, Sent
  <2>. QED
    BY <1>4, <2>1, <2>3
<1>8. ASSUME NEW e \in Email, Waits(e)' PROVE Sent(e.lead, e.step - 1)'
  <2>1. e.lead \in Leads /\ e.step - 1 \in 0..NumSteps
    BY DEF Email
  <2>2. Waits(e) \/ \E t \in Snapshot : Row(t) /\ MadeOf(e, t)
    BY <1>8, Flow DEF SkipInv
  <2>3. ASSUME NEW t \in Snapshot, Row(t), MadeOf(e, t) PROVE Sent(e.lead, e.step - 1)'
    <3>1. t.lead \in Leads /\ t.step \in 0..NumSteps /\ e.step \in Nat /\ e.lead = t.lead
      BY <2>3, ConstantsAssumption DEF Snapshot, Email, Steps, MadeOf
    <3>2. Sent(t.lead, t.step)'
      BY <1>4, <2>3, <3>1 DEF SkipInv
    <3>3. ASSUME NEW s \in 1..(e.step - 1) PROVE HadOrPassed(<<t.lead, s>>)'
      <4>1. CASE s <= t.step
        BY <3>1, <3>2, <4>1 DEF Sent
      <4>2. CASE s > t.step
        <5>1. s \in (t.step + 1)..(e.step - 1)
          BY <3>1, <4>2
        <5>. QED
          BY <2>3, <5>1 DEF MadeOf, HadOrPassed
      <4>. QED
        BY <3>1, <4>1, <4>2
    <3>. QED
      BY <3>1, <3>3 DEF Sent
  <2>. QED
    BY <1>4, <2>1, <2>2, <2>3 DEF SkipInv
<1>9. ASSUME NEW j \in Slots, At(j, "advance")' PROVE Recorded(Key(Cur(j)))'
  <2>1. Cur(j)' = Cur(j) /\ Recorded(Key(Cur(j)))
    BY <1>9, AdvanceSteps DEF SkipInv
  <2>2. Cur(j)' \in Email
    <3>1. jmail'[j] \in Seq(Email) /\ jpos'[j] \in Nat \ {0}
      BY <1>1 DEF TypeOK, JobTypeOK
    <3>2. jpc'[j] # "free"
      BY <1>9 DEF At
    <3>3. jpos'[j] <= Len(jmail'[j])
      BY <1>1, <3>2 DEF TypeOK, JobTypeOK
    <3>. QED
      BY <3>1, <3>3 DEF Cur
  <2>3. PICK e \in Email : e = Cur(j) /\ e = Cur(j)'
    BY <2>1, <2>2
  <2>4. Recorded(Key(e))'
    BY <1>3, <2>1, <2>3 DEF Email, Key
  <2>. QED
    BY <2>3, <2>4 DEF Recorded, Key
<1>. QED
  BY <1>1, <1>5, <1>6, <1>7, <1>8, <1>9 DEF SkipInv

LEMMA SkipInit == Init => SkipInv
<1>. SUFFICES ASSUME Init PROVE SkipInv
  OBVIOUS
<1>1. (\A t \in Snapshot : ~Row(t)) /\ (\A e \in Email : ~Waits(e))
  BY DEF Init, Row, Waits, InBatches, InJobs, NoBatch
<1>2. NoStepSkipped /\ \A j \in Slots : ~At(j, "advance")
  BY DEF Init, NoStepSkipped, Recorded, At
<1>. QED
  BY <1>1, <1>2, TypeInit DEF Init, SkipInv

\* No step of a lead is lost but those a failed condition led it past, whatever crashes, stalls,
\* failed calls, late batches, edits and lost-mailbox decisions come in between, as
\* long as no lead is restarted.
THEOREM NoSkip ==
  ASSUME "restart" \notin Events
  PROVE  Spec => []NoStepSkipped
<1>1. SkipInv /\ [Next]_vars => SkipInv'
  BY SkipStep
<1>2. SkipInv => NoStepSkipped
  BY DEF SkipInv
<1>. QED
  BY <1>1, <1>2, SkipInit, PTL DEF Spec

-----------------------------------------------------------------------------
(* The daily limit                                                         *)

\* Jobs some worker is at, and the day's records.
BusyJobs == {j \in Slots : jpc[j] \in Running}
Records  == {m \in Mail : Recorded(m)}

CapInv == TypeOK /\ Busy <= Concurrency /\ CapOvershootBounded

\* The four ways workers and the day's count move: nobody starts, passes the gate or
\* records; a worker takes a job up; one passes the gate; one records.
Recedes == BusyJobs' \subseteq BusyJobs /\ UnderWay' \subseteq UnderWay /\ Records' \subseteq Records

Starts == /\ Busy < Concurrency
          /\ \E j \in Slots : BusyJobs' \subseteq BusyJobs \cup {j}
          /\ UnderWay' \subseteq UnderWay /\ Records' \subseteq Records

Passes == UnderDailyLimit /\ BusyJobs' \subseteq BusyJobs /\ Records' \subseteq Records

AddsRecord == /\ BusyJobs' \subseteq BusyJobs
            /\ \E j \in UnderWay : UnderWay' \subseteq UnderWay \ {j}
            /\ \E m \in Mail : Records' \subseteq Records \cup {m}

\* Every step moves in one of these ways.
LEMMA CapMoves ==
  ASSUME TypeOK, [Next]_vars
  PROVE  Recedes \/ Starts \/ Passes \/ AddsRecord
<1>. USE DEF BusyJobs, UnderWay, Records, Recorded
<1>1. ASSUME UNCHANGED <<jpc, sendEvent>> PROVE Recedes
  BY <1>1 DEF Recedes
<1>2. ASSUME NEW j \in Slots, NEW pc \in {"free", "queued"}, jpc' = [jpc EXCEPT ![j] = pc],
             UNCHANGED sendEvent
      PROVE  Recedes
  BY <1>2 DEF Recedes, Running, TypeOK, JobTypeOK
<1>3. ASSUME NEW j \in Slots, jpc[j] \in Running, NextEmail(j), UNCHANGED sendEvent
      PROVE  Recedes
  BY <1>3 DEF NextEmail, FreeSlot, Recedes, Running, TypeOK, JobTypeOK
<1>4. ASSUME NEW d \in Dispatchers, Dispatch(d) PROVE Recedes
  <2>1. CASE \E j \in Slots : DEnqueue(d, j)
    BY <1>2, <2>1 DEF DEnqueue, dataVars
  <2>2. CASE ~\E j \in Slots : DEnqueue(d, j)
    <3>1. UNCHANGED <<jpc, sendEvent>>
      BY <1>4, <2>2, DispatchKeeps
    <3>. QED
      BY <1>1, <3>1
  <2>. QED
    BY <2>1, <2>2
<1>5. ASSUME NEW j \in Slots, Work(j) PROVE Recedes \/ Starts \/ Passes \/ AddsRecord
  <2>1. CASE JStart(j)
    BY <2>1 DEF JStart, Goto, At, Starts, dataVars, Running, TypeOK, JobTypeOK
  <2>2. CASE JSkipBatch(j)
    BY <1>2, <2>2 DEF JSkipBatch, FreeSlot, dataVars
  <2>3. CASE JPass(j)
    BY <2>3 DEF JPass, Goto, At, Passes, dataVars, Running, TypeOK, JobTypeOK
  <2>4. CASE JDedupe(j) \/ JSendOk(j) \/ (JSendHard(j) /\ Goto(j, "bounce"))
    <3>1. /\ jpc[j] \in {"dedupe", "send"} /\ UNCHANGED sendEvent
          /\ \E pc \in {"advance", "send", "record", "bounce"} : jpc' = [jpc EXCEPT ![j] = pc]
      BY <2>4 DEF JDedupe, JSendOk, JSendHard, Goto, At, dataVars
    <3>. QED
      BY <3>1 DEF Recedes, Running, TypeOK, JobTypeOK
  <2>5. CASE JRecord(j)
    <3>1. jpc[j] = "record" /\ NextEmail(j) /\ Key(Cur(j)) \in Mail
      BY <2>5, CurType DEF JRecord, At, TypeOK, Email, Key
    <3>2. BusyJobs' \subseteq BusyJobs /\ UnderWay' \subseteq UnderWay \ {j} /\ j \in UnderWay
      <4>1. jpc' = [jpc EXCEPT ![j] = "free"] \/ jpc' = [jpc EXCEPT ![j] = "gate"]
        BY <3>1 DEF NextEmail, FreeSlot
      <4>. QED
        BY <3>1, <4>1 DEF Running, TypeOK, JobTypeOK
    <3>3. Records' \subseteq Records \cup {Key(Cur(j))}
      BY <2>5, <3>1 DEF JRecord, TypeOK, DataTypeOK
    <3>. QED
      BY <3>1, <3>2, <3>3 DEF AddsRecord
  <2>6. CASE \/ JBlank(j) \/ JNonCompliant(j) \/ JDefer(j) \/ JBlock(j) \/ JAdvance(j)
             \/ JBlankSubject(j) \/ JSendSoft(j) \/ (JSendHard(j) /\ NextEmail(j))
             \/ JBounce(j) \/ JRollback(j)
    <3>1. jpc[j] \in Running /\ NextEmail(j) /\ UNCHANGED sendEvent
      BY <2>6 DEF JBlank, JNonCompliant, JDefer, JBlock, JAdvance, JBlankSubject, JSendSoft,
         JSendHard, JBounce, JRollback, At, Running, dataVars
    <3>. QED
      BY <1>3, <3>1
  <2>. QED
    BY <1>5, <2>1, <2>2, <2>3, <2>4, <2>5, <2>6 DEF Work, JSendHard
<1>6. ASSUME Fault PROVE Recedes
  <2>1. CASE \E j \in Slots : JCrash(j)
    BY <1>2, <2>1 DEF JCrash, FreeSlot, dataVars
  <2>2. CASE \E j \in Slots : JProvisionFails(j)
    BY <1>2, <2>2 DEF JProvisionFails, FreeSlot, dataVars
  <2>3. CASE \E j \in Slots : JFails(j)
    BY <1>3, <2>3 DEF JFails, dataVars
  <2>4. CASE \E j, k \in Slots : JStall(j, k)
    BY <1>2, <2>4 DEF JStall, dataVars
  <2>5. CASE \E d \in Dispatchers : DCrash(d) \/ DAbort(d) \/ DBindFails(d)
    BY <1>1, <2>5 DEF DCrash, DAbort, DBindFails, Persist, jobVars, dataVars
  <2>. QED
    BY <1>6, <2>1, <2>2, <2>3, <2>4, <2>5 DEF Fault
<1>7. CASE RestartWrite
  BY <1>7 DEF RestartWrite, Recedes, jobVars, TypeOK, DataTypeOK
<1>8. CASE /\ Environment \/ LockExpire \/ (\E l \in Leads : BecomeDue(l)) \/ UNCHANGED vars
           /\ ~RestartWrite
  <2>1. UNCHANGED <<jpc, sendEvent>>
    BY <1>8 DEF Environment, Reply, PauseLead, Unsubscribe, AsyncBounce, PauseMailbox,
       RecoverMailbox, DetachMailbox, AttachMailbox, DeleteMailbox, SetMailbox, ResolveStop,
       ResolveContinue, RestartRead, PauseCampaign, ResumeCampaign, LaunchCampaign,
       SetCampaign, EditSequence, EnrollCheck, EnrollCreate, LockExpire, BecomeDue, vars,
       jobVars, dataVars
  <2>. QED
    BY <1>1, <2>1
<1>. QED
  BY <1>4, <1>5, <1>6, <1>7, <1>8 DEF Next

\* What these moves do to the counts.
LEMMA CapStep ==
  ASSUME CapInv, [Next]_vars
  PROVE  CapInv'
<1>1. TypeOK'
  BY TypeStep DEF CapInv
<1>2. IsFiniteSet(Slots) /\ IsFiniteSet(Mail)
  <2>1. IsFiniteSet(1..NumSteps)
    BY FS_Interval
  <2>. QED
    BY <2>1, FiniteAssumption, FS_Product
<1>3. /\ IsFiniteSet(BusyJobs) /\ IsFiniteSet(UnderWay) /\ IsFiniteSet(Records)
      /\ IsFiniteSet(BusyJobs') /\ IsFiniteSet(UnderWay') /\ IsFiniteSet(Records')
  <2>1. /\ BusyJobs \subseteq Slots /\ UnderWay \subseteq Slots /\ Records \subseteq Mail
        /\ BusyJobs' \subseteq Slots /\ UnderWay' \subseteq Slots /\ Records' \subseteq Mail
    BY DEF BusyJobs, UnderWay, Records
  <2>. QED
    BY <1>2, <2>1, FS_Subset
<1>. DEFINE B == Cardinality(BusyJobs)
            U == Cardinality(UnderWay)
            R == Cardinality(Records)
            BB == Cardinality(BusyJobs')
            UU == Cardinality(UnderWay')
            RR == Cardinality(Records')
<1>4. B \in Nat /\ U \in Nat /\ R \in Nat /\ BB \in Nat /\ UU \in Nat /\ RR \in Nat
  BY <1>3, FS_CardinalityType
<1>5. Busy = B /\ SentToday = R /\ Busy' = BB /\ SentToday' = RR
  BY DEF Busy, BusyJobs, SentToday, Records
<1>6. B <= Concurrency /\ R + U <= CampaignLimit + Concurrency - 1
  BY <1>5 DEF CapInv, CapOvershootBounded
<1>7. UU <= BB
  <2>1. UnderWay' \subseteq BusyJobs'
    BY DEF UnderWay, BusyJobs, Running
  <2>. QED
    BY <1>3, <2>1, FS_Subset
<1>8. BB <= Concurrency /\ RR + UU <= CampaignLimit + Concurrency - 1
  <2>1. BusyJobs' \subseteq BusyJobs => BB <= B
    BY <1>3, FS_Subset
  <2>2. UnderWay' \subseteq UnderWay => UU <= U
    BY <1>3, FS_Subset
  <2>3. Records' \subseteq Records => RR <= R
    BY <1>3, FS_Subset
  <2>4. CASE Recedes
    BY <1>4, <1>6, <2>1, <2>2, <2>3, <2>4 DEF Recedes
  <2>5. CASE Starts
    <3>1. PICK j \in Slots : BusyJobs' \subseteq BusyJobs \cup {j}
      BY <2>5 DEF Starts
    <3>2. IsFiniteSet(BusyJobs \cup {j}) /\ Cardinality(BusyJobs \cup {j}) <= B + 1
      <4>1. /\ IsFiniteSet(BusyJobs \cup {j})
            /\ Cardinality(BusyJobs \cup {j}) = IF j \in BusyJobs THEN B ELSE B + 1
        BY <1>3, FS_AddElement, Zenon
      <4>. QED
        BY <1>4, <4>1
    <3>3. BB <= Cardinality(BusyJobs \cup {j})
      BY <1>3, <3>1, <3>2, FS_Subset
    <3>4. Cardinality(BusyJobs \cup {j}) \in Nat
      BY <3>2, FS_CardinalityType
    <3>. QED
      BY <1>4, <1>5, <1>6, <2>2, <2>3, <2>5, <3>2, <3>3, <3>4 DEF Starts
  <2>6. CASE Passes
    BY <1>4, <1>5, <1>6, <1>7, <2>1, <2>3, <2>6 DEF Passes, UnderDailyLimit
  <2>7. CASE AddsRecord
    <3>1. PICK j \in UnderWay : UnderWay' \subseteq UnderWay \ {j}
      BY <2>7 DEF AddsRecord
    <3>2. PICK m \in Mail : Records' \subseteq Records \cup {m}
      BY <2>7 DEF AddsRecord
    <3>3. IsFiniteSet(UnderWay \ {j}) /\ Cardinality(UnderWay \ {j}) = U - 1
      BY <1>3, FS_RemoveElement
    <3>4. IsFiniteSet(Records \cup {m}) /\ Cardinality(Records \cup {m}) <= R + 1
      <4>1. /\ IsFiniteSet(Records \cup {m})
            /\ Cardinality(Records \cup {m}) = IF m \in Records THEN R ELSE R + 1
        BY <1>3, FS_AddElement, Zenon
      <4>. QED
        BY <1>4, <4>1
    <3>5. UU <= U - 1
      BY <1>3, <3>1, <3>3, FS_Subset
    <3>6. RR <= Cardinality(Records \cup {m}) /\ Cardinality(Records \cup {m}) \in Nat
      BY <1>3, <3>2, <3>4, FS_Subset, FS_CardinalityType
    <3>. QED
      BY <1>4, <1>6, <2>1, <2>7, <3>4, <3>5, <3>6 DEF AddsRecord
  <2>. QED
    BY <2>4, <2>5, <2>6, <2>7, CapMoves DEF CapInv
<1>9. Busy' <= Concurrency /\ CapOvershootBounded'
  BY <1>5, <1>8 DEF CapOvershootBounded
<1>. QED
  BY <1>1, <1>9 DEF CapInv

\* The day's total passes the campaign's limit by at most the number of the other
\* workers, whatever happens: the gate counts again before each mail.
THEOREM CapBounded == Spec => []CapOvershootBounded
<1>1. Init => CapInv
  <2>1. ASSUME Init PROVE UnderWay = {} /\ BusyJobs = {} /\ Records = {}
    BY <2>1 DEF Init, UnderWay, BusyJobs, Running, Records, Recorded
  <2>2. Cardinality({}) = 0
    BY FS_EmptySet
  <2>3. ASSUME Init PROVE Busy = 0 /\ SentToday = 0 /\ Cardinality(UnderWay) = 0
    BY <2>1, <2>2, <2>3 DEF Busy, BusyJobs, SentToday, Records
  <2>. QED
    BY <2>3, TypeInit DEF CapInv, CapOvershootBounded
<1>2. CapInv /\ [Next]_vars => CapInv'
  BY CapStep
<1>3. CapInv => CapOvershootBounded
  BY DEF CapInv
<1>. QED
  BY <1>1, <1>2, <1>3, PTL DEF Spec

=============================================================================
