--------------------- MODULE SendQueueImplementsProofs ---------------------
(***************************************************************************)
(* Proof that the sending pipeline keeps the promise of SequenceDelivery:  *)
(* every step of SendQueue is a delivery of the lead's next step, a branch *)
(* past one, a lead's leaving, or nothing the recipients can see.          *)
(***************************************************************************)
EXTENDS SendQueueImplements, SendQueueCarryProofs

\* What the kinds of step rest on: one delivery, one late email, no step skipped.
PromiseInv == OnceInv /\ LateInv /\ SkipInv

LEMMA PromiseInvInit == Init => PromiseInv
<1>. SUFFICES ASSUME Init PROVE PromiseInv
  OBVIOUS
<1>1. LateInv /\ SkipInv
  BY LateInit, SkipInit
<1>. QED
  BY <1>1, OnceInit DEF PromiseInv

LEMMA PromiseInvStep ==
  ASSUME PromiseInv, Orderly, [Next]_vars
  PROVE  PromiseInv'
<1>1. OnceInv'
  BY OnceStep DEF PromiseInv
<1>2. LateInv'
  BY CarryStep, WarnedStep, LateStep DEF PromiseInv, LateInv, Orderly
<1>3. SkipInv'
  BY SkipStep DEF PromiseInv, Orderly, Undisturbed
<1>. QED
  BY <1>1, <1>2, <1>3 DEF PromiseInv

\* A suppression is lifted only by the hard bounce of an email under way.
LEMMA Unsuppressed ==
  ASSUME TypeOK, [Next]_vars, NEW l \in Leads, Suppressed(l), ~Suppressed(l)'
  PROVE  \E j \in Slots : JBounce(j) /\ Cur(j).lead = l
<1>. USE DEF TypeOK, DataTypeOK
<1>1. UNCHANGED orgStatus => FALSE
  BY DEF Suppressed
<1>2. ASSUME NEW k \in Leads, Unsubscribe(k) \/ AsyncBounce(k) PROVE FALSE
  BY <1>2 DEF Unsubscribe, AsyncBounce, Suppressed
<1>3. ASSUME NEW j \in Slots, JBounce(j) PROVE Cur(j).lead = l
  BY <1>3 DEF JBounce, Suppressed
<1>4. ASSUME NEW d \in Dispatchers, Dispatch(d) PROVE UNCHANGED orgStatus
  <2>1. ASSUME NEW t \in todo[d], NEW a \in Accounts,
               DPlace(d, t, a) \/ DFinishLead(d, t, a) \/ DBlank(d, t, a)
        PROVE  UNCHANGED orgStatus
    BY <2>1 DEF DPlace, DFinishLead, DBlank, dataVars
  <2>2. ASSUME NEW t \in todo[d], DLostMailbox(d, t) \/ DWaitSticky(d, t) \/ DFull(d, t)
        PROVE  UNCHANGED orgStatus
    BY <2>2 DEF DLostMailbox, DWaitSticky, DFull, dataVars
  <2>. QED
    BY <1>4, <2>1, <2>2 DEF Dispatch, DAcquire, DLoad, DSkipCampaign, DSelect, DSuppress, DBind,
       Persist, DClaim, DEnqueue, DCount, DComplete, DRelease, dataVars
<1>5. ASSUME NEW j \in Slots, Work(j), ~JBounce(j) PROVE UNCHANGED orgStatus
  BY <1>5 DEF Work, JStart, JSkipBatch, JBlank, JNonCompliant, JDefer, JBlock, JPass, JDedupe,
     JAdvance, JBlankSubject, JSendOk, JSendSoft, JSendHard, JRecord, JRollback, dataVars
<1>6. ASSUME Fault PROVE UNCHANGED orgStatus
  BY <1>6 DEF Fault, DCrash, DAbort, DBindFails, Persist, JCrash, JProvisionFails, JFails, JStall,
     dataVars
<1>7. CASE /\ Environment \/ LockExpire \/ (\E k \in Leads : BecomeDue(k)) \/ UNCHANGED vars
           /\ ~\E k \in Leads : Unsubscribe(k) \/ AsyncBounce(k)
  <2>1. UNCHANGED orgStatus
    BY <1>7 DEF Environment, Reply, PauseLead, PauseMailbox,
       RecoverMailbox, DetachMailbox, AttachMailbox, DeleteMailbox, SetMailbox, ResolveStop,
       ResolveContinue, RestartRead, RestartWrite, PauseCampaign, ResumeCampaign,
       LaunchCampaign, SetCampaign, EditSequence, EnrollCheck, EnrollCreate, LockExpire,
       BecomeDue, vars, dataVars
  <2>. QED
    BY <1>1, <2>1
<1>. QED
  BY <1>1, <1>2, <1>3, <1>4, <1>5, <1>6, <1>7 DEF Next

Live == {l \in Leads : Mailable(l) \/ status[l] = "absent"}

\* No step makes a lead one that the sequence may write to.
LEMMA LiveShrinks ==
  ASSUME PromiseInv, Orderly, [Next]_vars
  PROVE  Live' \subseteq Live
<1>0. ReplyInv /\ TypeOK /\ Timely
  BY DEF PromiseInv, OnceInv, CarryInv, LockInv, Orderly
<1>. SUFFICES ASSUME NEW l \in Leads, l \in Live', status[l] # "absent"
              PROVE  Mailable(l)
  BY DEF Live
<1>1. status[l] = "active" /\ ~Suppressed(l)'
  BY <1>0, NeverBack DEF Live, Mailable
<1>2. ~replied[l]
  BY <1>0, <1>1 DEF ReplyInv, ReplyEndsSequence
<1>3. ASSUME NEW j \in Slots, JBounce(j), Cur(j).lead = l PROVE ~Suppressed(l)
  <2>1. jpc[j] # "free"
    BY <1>3 DEF JBounce, At
  <2>2. jpos[j] \in Ahead(j) /\ Cur(j) = jmail[j][jpos[j]]
    BY <1>0, <2>1, OwnEmail DEF PromiseInv, OnceInv, CarryInv, Sole
  <2>3. Heeds(l)
    BY <1>3, <2>2 DEF OnTheWay, PromiseInv, LateInv, Warned
  <2>. QED
    BY <1>1, <2>3 DEF Heeds
<1>4. ~Suppressed(l)
  BY <1>0, <1>1, <1>3, Unsuppressed
<1>. QED
  BY <1>1, <1>2, <1>4 DEF Mailable

\* An email goes to a lead that has had all the steps before it and not this one, and
\* to one that left the sequence only if it is the first such email.
LEMMA SendDelivers ==
  ASSUME PromiseInv, NEW j \in Slots, JSendOk(j)
  PROVE  \E l \in Leads : Promise!Deliver(l)
<1>0. /\ TypeOK /\ OneJob /\ ReplyInv /\ jpc[j] = "send" /\ jpc[j] # "free"
      /\ late \in [Leads -> 0..2]
  BY DEF PromiseInv, OnceInv, CarryInv, Sole, LockInv, JSendOk, At, TypeOK, RestTypeOK
<1>1. PICK e \in Email : /\ e = Cur(j) /\ Waits(e)
                         /\ jpos[j] \in Ahead(j) /\ e = jmail[j][jpos[j]]
  BY <1>0, OwnEmail, CurWaits
<1>2. e.lead \in Leads /\ e.step \in 1..NumSteps
  BY DEF Email, Steps
<1>3. PICK l \in Leads, s \in 1..NumSteps : l = e.lead /\ s = e.step
  BY <1>2
<1>4. delivered[<<l, s>>] = 0 /\ delivered' = [delivered EXCEPT ![<<l, s>>] = 1]
  BY <1>1, <1>3, SentFirst DEF PromiseInv, Key
<1>5. Promise!Reached(l, s)
  <2>. SUFFICES ASSUME NEW t \in 1..(s - 1)
                PROVE  delivered[<<l, t>>] = 1 \/ <<l, t>> \in passed
    BY DEF Promise!Reached
  <2>1. HadOrPassed(<<l, t>>)
    BY <1>1, <1>3 DEF PromiseInv, SkipInv, Sent
  <2>2. <<l, t>> \in Mail
    BY ConstantsAssumption DEF Mail, Steps
  <2>. QED
    BY <2>1, <2>2 DEF PromiseInv, OnceInv, Deduped, HadOrPassed
<1>6. OnTheWay(l) /\ status[l] # "absent" /\ late[l] = 0
  <2>1. OnTheWay(l)
    BY <1>1, <1>3 DEF OnTheWay
  <2>2. late[l] = 0
    BY <1>0, <1>1, <1>3 DEF PromiseInv, LateInv, LateLast
  <2>. QED
    BY <1>0, <2>1, <2>2, CarriedExists
<1>7. UNCHANGED <<status, replied, orgStatus, passed>>
  BY DEF JSendOk, leadVars, dataVars
<1>8. Live' = Live
  BY <1>7 DEF Live, Mailable, Suppressed
<1>9. CASE Mailable(l)
  <2>1. late' = late
    BY <1>0, <1>1, <1>3, <1>9 DEF JSendOk
  <2>. QED
    BY <1>3, <1>4, <1>5, <1>7, <1>8, <1>9, <2>1 DEF Promise!Deliver, Live
<1>10. CASE ~Mailable(l)
  <2>1. late' = [late EXCEPT ![l] = 1]
    <3>1. late' = [late EXCEPT ![l] = Lesser(late[l] + 1, 2)]
      BY <1>1, <1>3, <1>10 DEF JSendOk
    <3>. QED
      BY <1>6, <3>1 DEF Lesser
  <2>2. {k \in Leads : late'[k] = 0} = {k \in Leads : late[k] = 0} \ {l}
    BY <1>0, <2>1
  <2>. QED
    BY <1>3, <1>4, <1>5, <1>6, <1>7, <1>8, <1>10, <2>2 DEF Promise!Deliver, Live
<1>. QED
  BY <1>9, <1>10

\* A row placed in a batch leads its lead past the steps whose condition failed, or it
\* passes none.
LEMMA PlacePasses ==
  ASSUME PromiseInv, NEW d \in Dispatchers, NEW t \in todo[d], NEW a \in Accounts,
         DPlace(d, t, a)
  PROVE  UNCHANGED passed \/ \E l \in Leads : Promise!Pass(l)
<1>1. PICK s \in Deliverable(scan[d].sequence, t.step + 1) :
        passed' = passed \cup {<<t.lead, k>> : k \in (t.step + 1)..(s - 1)}
  BY DEF DPlace
<1>2. t \in Snapshot /\ scan[d].sequence \in Sequence
  BY DEF PromiseInv, SkipInv, TypeOK, DispatchTypeOK
<1>3. t.lead \in Leads /\ t.step \in 0..NumSteps /\ s \in Steps
  BY <1>2, ConstantsAssumption DEF Snapshot, Sequence, Deliverable, Steps
<1>4. CASE s <= t.step + 1
  <2>1. (t.step + 1)..(s - 1) = {}
    BY <1>3, <1>4, ConstantsAssumption DEF Steps
  <2>2. {<<t.lead, k>> : k \in {}} = {}
    OBVIOUS
  <2>. QED
    BY <1>1, <2>1, <2>2
<1>5. CASE ~(s <= t.step + 1)
  <2>1. t.step + 1 \in 1..NumSteps /\ s \in 1..NumSteps
    BY <1>3, <1>5, ConstantsAssumption DEF Steps
  <2>2. <<t.step + 1, s>> \in BranchJumps
    BY <1>1, <1>2, <2>1 DEF BranchJumps, Steps
  <2>3. Promise!Reached(t.lead, t.step + 1)
    <3>1. Sent(t.lead, t.step)
      BY <1>2 DEF PromiseInv, SkipInv, Row
    <3>2. ASSUME NEW k \in 1..t.step
          PROVE  delivered[<<t.lead, k>>] = 1 \/ <<t.lead, k>> \in passed
      <4>1. <<t.lead, k>> \in Mail
        BY <1>3, ConstantsAssumption DEF Mail, Steps
      <4>. QED
        BY <3>1, <4>1 DEF Sent, HadOrPassed, PromiseInv, OnceInv, Deduped
    <3>3. (t.step + 1) - 1 = t.step
      BY <1>3, ConstantsAssumption
    <3>. QED
      BY <3>2, <3>3 DEF Promise!Reached
  <2>4. UNCHANGED <<delivered, status, replied, orgStatus, late>>
    BY DEF DPlace, leadVars, dataVars
  <2>5. Live' = Live
    BY <2>4 DEF Live, Mailable, Suppressed
  <2>6. PICK l \in Leads, k \in 1..NumSteps : l = t.lead /\ k = t.step + 1
    BY <1>3, <2>1
  <2>. QED
    BY <1>1, <2>1, <2>2, <2>3, <2>4, <2>5, <2>6 DEF Promise!Pass, Live
<1>. QED
  BY <1>4, <1>5

\* The recipients of a campaign see the promised behaviour: each step once, and only after
\* those before it but the ones a condition led past, nobody back after leaving, one late
\* email at most - however replies, opt-outs, bounces, enrollments, edits, deferrals, lost
\* and deleted mailboxes interleave with the dispatchers and the workers.
THEOREM Implements ==
  ASSUME Orderly
  PROVE  Spec => KeepsPromise
<1>1. Init => Promise!Init
  <2>. SUFFICES ASSUME Init PROVE Promise!Init
    OBVIOUS
  <2>1. \A l \in Leads : status[l] \in {"active", "absent"} /\ ~replied[l] /\ orgStatus[l] = "ok"
    BY DEF Init
  <2>2. \A l \in Leads : Mailable(l) \/ status[l] = "absent"
    BY <2>1 DEF Mailable, Suppressed
  <2>3. \A l \in Leads : late[l] = 0
    BY DEF Init
  <2>4. delivered = [m \in Leads \X (1..NumSteps) |-> 0]
    BY DEF Init, Mail, Steps
  <2>5. passed = {}
    BY DEF Init
  <2>. QED
    BY <2>2, <2>3, <2>4, <2>5 DEF Promise!Init
<1>2. ASSUME PromiseInv, [Next]_vars PROVE [Promise!Next]_(Promise!vars)
  <2>1. CASE \E j \in Slots : JSendOk(j)
    BY <1>2, <2>1, SendDelivers DEF Promise!Next
  <2>2. CASE UNCHANGED <<delivered, late>> /\ UNCHANGED passed
    <3>1. Live' \subseteq Live
      BY <1>2, LiveShrinks
    <3>2. Promise!Leave
      BY <2>2, <3>1 DEF Promise!Leave, Live
    <3>. QED
      BY <3>2 DEF Promise!Next
  <2>3. ASSUME UNCHANGED <<delivered, late>>, NEW d \in Dispatchers, NEW t \in todo[d],
               NEW a \in Accounts, DPlace(d, t, a)
        PROVE  [Promise!Next]_(Promise!vars)
    BY <1>2, <2>2, <2>3, PlacePasses DEF Promise!Next
  <2>4. restarting = {}
    BY <1>2 DEF PromiseInv, SkipInv
  <2>. QED
    BY <1>2, <2>1, <2>2, <2>3, <2>4, DeliverySteps, PassSteps
<1>3. PromiseInv /\ [Next]_vars => PromiseInv'
  BY PromiseInvStep
<1>. QED
  BY <1>1, <1>2, <1>3, PromiseInvInit, PTL DEF Spec, KeepsPromise, Promise!Spec

=============================================================================
