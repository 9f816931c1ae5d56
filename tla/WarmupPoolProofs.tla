-------------------------- MODULE WarmupPoolProofs --------------------------
(* Proofs about WarmupPool, for any mailboxes, rows and volumes, and any     *)
(* number of dispatch workers, requests, failures and restarts.              *)
EXTENDS WarmupPoolImplements, TLAPS

LEMMA ConstantTypes ==
  /\ Nobody \notin Mailboxes /\ Nobody \notin Exchanges
  /\ MaxSteps \in Nat /\ RampChoices \subseteq 1 .. MaxSteps /\ MaxDepth \in Nat /\ MaxEvents \in Nat
  /\ StartDaily \in Nat /\ TargetDaily \in Nat /\ MaintenanceDaily \in Nat /\ StartDaily <= TargetDaily
  /\ Folders \subseteq {"inbox", "promotions", "spam"} /\ MaxSteps # 0
<1>1. \E days \in RampChoices : days \in 1 .. MaxSteps BY PoolConstants DEF PoolConstants
<1>. QED BY <1>1, PoolConstants DEF PoolConstants

(* ---- Types --------------------------------------------------------------- *)

(* A worker holds rows that exist, and keeps them from leaving the model;    *)
(* a reply is only due to a message that may have one.                       *)
Held ==
  /\ \A d \in Dispatchers : sending[d].at # "idle" => sending[d].x \in Exchanges
  /\ \A e \in Engagers : engaging[e].at \in {"write", "reply"} => engaging[e].x \in Exchanges
  /\ \A e \in Engagers : \A x \in Exchanges :
       x = engaging[e].x \/ x \in engaging[e].rest => row[x].state # "free" /\ stored[x]
  /\ planning.m # Nobody => planning.left > 0
  /\ \A e \in Engagers : engaging[e].at = "reply" => row[engaging[e].x].depth < MaxDepth
TypeInv == TypeOK /\ Held

LEMMA DailyType == ASSUME NEW step \in Nat, NEW days \in Nat \ {0} PROVE Daily(step, days) \in Nat
<1>. USE ConstantTypes
<1>1. DEFINE range == TargetDaily - StartDaily
<1>2. range \in Nat OBVIOUS
<1>3. StartDaily * days \in Nat /\ step * range \in Nat BY <1>2
<1>4. 2 * (StartDaily * days + step * range) + days \in Nat BY <1>3
<1>5. 2 * days \in Nat /\ 2 * days > 0 OBVIOUS
<1>6. ASSUME NEW n \in Nat, NEW d \in Nat, d > 0 PROVE n \div d \in Nat BY <1>6
<1>7. (2 * (StartDaily * days + step * range) + days) \div (2 * days) \in Nat BY <1>4, <1>5, <1>6
<1>. QED BY <1>7 DEF Daily

LEMMA InitTypes == Init => TypeInv
<1> SUFFICES ASSUME Init PROVE TypeInv
  OBVIOUS
<1>. USE ConstantTypes DEF Init
<1>1. Outsider \in Membership BY DEF Outsider, Membership
<1>2. MemberTypes BY <1>1 DEF MemberTypes
<1>3. RowTypes BY DEF RowTypes, Unused, States, Places
<1>4. WorkerTypes BY <1>1 DEF WorkerTypes, NotSending, NotEngaging, NotPlanning, NotRamping, Places
<1>5. Held BY DEF Held, NotSending, NotEngaging, NotPlanning
<1>. QED BY <1>2, <1>3, <1>4, <1>5 DEF TypeInv, TypeOK

LEMMA PlanTypes == ASSUME TypeInv, Plan PROVE TypeInv'
<1>. USE ConstantTypes DEF TypeInv, TypeOK
<1>1. MemberTypes' BY DEF Plan, PlanExhausted, PlanCount, PlanCreate, memberships, MemberTypes
<1>2. ASSUME NEW m \in Mailboxes, PlanCount(m) PROVE TypeInv'
  <2>1. WorkerTypes' BY <1>2 DEF PlanCount, WorkerTypes
  <2>. QED BY <1>1, <1>2, <2>1 DEF PlanCount, exchanges, mail, RowTypes, Held, WorkerTypes
<1>3. CASE PlanExhausted
  BY <1>1, <1>3 DEF PlanExhausted, NotPlanning, exchanges, mail, RowTypes, WorkerTypes, Held
<1>4. ASSUME NEW m \in Mailboxes, NEW x \in Exchanges, PlanCreate(x, m) PROVE TypeInv'
  <2>1. planning.m \in Mailboxes BY <1>4 DEF PlanCreate, WorkerTypes
  <2>2. RowTypes' BY <1>4, <2>1 DEF PlanCreate, Create, mail, RowTypes, States
  <2>3. planning' \in [m : Mailboxes \cup {Nobody}, left : Nat]
    <3>1. planning.left \in Nat \ {0} BY <2>1 DEF WorkerTypes, Held
    <3>2. planning \in [m : Mailboxes \cup {Nobody}, left : Nat] BY DEF WorkerTypes
    <3>3. CASE planning.left = 1 BY <1>4, <3>3 DEF PlanCreate, NotPlanning
    <3>4. CASE planning.left # 1
      <4>1. planning' = [planning EXCEPT !.left = @ - 1] BY <1>4, <3>4 DEF PlanCreate
      <4>2. planning.left - 1 \in Nat BY <3>1
      <4>. QED BY <3>2, <4>1, <4>2
    <3>. QED BY <3>3, <3>4
  <2>4. WorkerTypes' BY <1>4, <2>3 DEF PlanCreate, WorkerTypes
  <2>5. \A y \in Exchanges : y # x => row'[y] = row[y]
    BY <1>4 DEF PlanCreate, Create, RowTypes
  <2>6. Held'
    <3>1. planning.left \in Nat \ {0} BY <2>1 DEF WorkerTypes, Held
    <3>. QED BY <1>4, <2>5, <3>1 DEF PlanCreate, Create, Unused, NotPlanning, Held, RowTypes, WorkerTypes
  <2>. QED BY <1>1, <2>2, <2>4, <2>6
<1>. QED BY <1>2, <1>3, <1>4 DEF Plan

Rows == [state : States, from : Mailboxes \cup {Nobody}, to : Mailboxes \cup {Nobody},
         thread : Exchanges \cup {Nobody}, depth : 0 .. MaxDepth]

LEMMA StateTypes ==
  ASSUME RowTypes, NEW x \in Exchanges, NEW s \in States, row' = [row EXCEPT ![x].state = s]
  PROVE  row' \in [Exchanges -> Rows]
<1>1. row \in [Exchanges -> Rows] BY DEF RowTypes, Rows
<1>2. [row[x] EXCEPT !.state = s] \in Rows BY <1>1 DEF Rows
<1>3. row' = [row EXCEPT ![x] = [row[x] EXCEPT !.state = s]] BY <1>1
<1>. QED BY <1>1, <1>2, <1>3

(* What Record writes: the state, and a thread where there is none yet.      *)
LEMMA RecordRow ==
  ASSUME TypeInv, NEW d \in Dispatchers, NEW counted \in BOOLEAN, Record(d, counted)
  PROVE  /\ sending[d].x \in Exchanges
         /\ row' \in [Exchanges -> Rows]
         /\ \A y \in Exchanges :
              /\ row'[y].from = row[y].from /\ row'[y].to = row[y].to /\ row'[y].depth = row[y].depth
              /\ row'[y].state = IF y = sending[d].x THEN "sent" ELSE row[y].state
              /\ row'[y].thread = IF y = sending[d].x /\ row[y].thread = Nobody THEN y ELSE row[y].thread
<1>1. row \in [Exchanges -> Rows] BY DEF TypeInv, TypeOK, RowTypes, Rows
<1>2. PICK x \in Exchanges : x = sending[d].x BY DEF Record, TypeInv, Held
<1>3. PICK t \in Exchanges \cup {Nobody} : t = IF row[x].thread = Nobody THEN x ELSE row[x].thread
  BY <1>1, <1>2 DEF Rows
<1>4. DEFINE to == [row[x] EXCEPT !.state = "sent", !.thread = t]
<1>5. row' = [row EXCEPT ![x] = to] BY <1>1, <1>2, <1>3 DEF Record
<1>6. to \in Rows
  <2>1. row[x] \in Rows /\ "sent" \in States BY <1>1 DEF States
  <2>2. [row[x] EXCEPT !.state = "sent"] \in Rows BY <2>1 DEF Rows
  <2>. QED BY <1>3, <2>1, <2>2 DEF Rows
<1>7. to.state = "sent" /\ to.thread = t /\ to.from = row[x].from /\ to.to = row[x].to /\ to.depth = row[x].depth
  BY <1>1 DEF Rows
<1>. HIDE DEF to
<1>8. row' \in [Exchanges -> Rows] /\ row'[x] = to /\ \A y \in Exchanges : y # x => row'[y] = row[y]
  BY <1>1, <1>5, <1>6
<1>. QED BY <1>2, <1>3, <1>7, <1>8

LEMMA DispatchTypes ==
  ASSUME TypeInv, NEW d \in Dispatchers, Dispatch(d) \/ (\E x \in Exchanges : Claim(d, x))
  PROVE  TypeInv'
<1>. USE ConstantTypes DEF TypeInv, TypeOK
<1>1. ASSUME NEW x \in Exchanges, Claim(d, x) PROVE TypeInv'
  <2>1. MemberTypes' BY <1>1 DEF Claim, memberships, MemberTypes
  <2>2. RowTypes'
    <3>1. row' \in [Exchanges -> Rows] BY <1>1, StateTypes DEF Claim, States
    <3>. QED BY <1>1, <3>1 DEF Claim, mail, RowTypes, Rows
  <2>3. WorkerTypes' BY <1>1 DEF Claim, WorkerTypes
  <2>4. Held' BY <1>1 DEF Claim, Held, RowTypes, WorkerTypes
  <2>. QED BY <2>1, <2>2, <2>3, <2>4
<1>2. ASSUME NEW where \in Folders, NEW answered \in BOOLEAN, Transmit(d, where, answered) PROVE TypeInv'
  <2>1. MemberTypes' BY <1>2 DEF Transmit, memberships, MemberTypes
  <2>2. sending[d].x \in Exchanges BY <1>2 DEF Transmit, Held
  <2>3. CASE answered
    <3>1. RowTypes' BY <1>2, <2>2, <2>3 DEF Transmit, RowTypes, Places
    <3>2. WorkerTypes' BY <1>2, <2>3 DEF Transmit, WorkerTypes
    <3>3. Held' BY <1>2, <2>2, <2>3 DEF Transmit, Held, WorkerTypes
    <3>. QED BY <2>1, <3>1, <3>2, <3>3
  <2>4. CASE ~answered
    <3>1. Fail(d) BY <1>2, <2>4 DEF Transmit
    <3>2. RowTypes'
      <4>1. copies' \in [Exchanges -> Nat] /\ folder' \in [Exchanges -> Places]
        BY <1>2, <2>2 DEF Transmit, RowTypes, Places
      <4>2. row' = [row EXCEPT ![sending[d].x].state = "failed"] BY <3>1 DEF Fail
      <4>3. UNCHANGED <<stored, landed, today, late, earlier>> BY <1>2 DEF Transmit
      <4>4. row' \in [Exchanges -> Rows]
        <5>1. "failed" \in States BY DEF States
        <5>. QED BY <2>2, <4>2, <5>1, StateTypes
      <4>. QED BY <4>1, <4>3, <4>4 DEF RowTypes, Rows
    <3>3. WorkerTypes' BY <1>2, <3>1 DEF Transmit, Fail, NotSending, WorkerTypes
    <3>4. Held' BY <1>2, <2>2, <3>1 DEF Transmit, Fail, NotSending, Held, RowTypes, WorkerTypes
    <3>. QED BY <2>1, <3>2, <3>3, <3>4
  <2>. QED BY <2>3, <2>4
<1>3. CASE Refuse(d)
  <2>1. MemberTypes' BY <1>3 DEF Refuse, memberships, MemberTypes
  <2>2. sending[d].x \in Exchanges BY <1>3 DEF Refuse, Held
  <2>3. RowTypes'
    <3>1. row' \in [Exchanges -> Rows] BY <1>3, <2>2, StateTypes DEF Refuse, Fail, States
    <3>. QED BY <1>3, <3>1 DEF Refuse, mail, RowTypes, Rows
  <2>4. WorkerTypes' BY <1>3 DEF Refuse, Fail, NotSending, WorkerTypes
  <2>5. Held' BY <1>3, <2>2 DEF Refuse, Fail, NotSending, Held, RowTypes, WorkerTypes
  <2>. QED BY <2>1, <2>3, <2>4, <2>5
<1>4. ASSUME NEW counted \in BOOLEAN, Record(d, counted) PROVE TypeInv'
  <2>1. touched' \in [Mailboxes -> BOOLEAN]
    BY <1>4, Zenon DEF Record, MemberTypes
  <2>2. MemberTypes' BY <1>4, <2>1 DEF Record, MemberTypes
  <2>3. sending[d].x \in Exchanges BY <1>4 DEF Record, Held
  <2>4. RowTypes'
    <3>1. UNCHANGED <<landed, today, late, copies, folder>> BY <1>4 DEF Record, mail
    <3>2. row' \in [Exchanges -> Rows] BY <1>4, RecordRow
    <3>3. stored' \in [Exchanges -> BOOLEAN] BY <1>4, <2>3 DEF Record, RowTypes
    <3>4. earlier' \in [Exchanges -> SUBSET Exchanges] BY <1>4, <2>3 DEF Record, Waiting, RowTypes
    <3>. QED BY <3>1, <3>2, <3>3, <3>4 DEF RowTypes, Rows
  <2>5. WorkerTypes' BY <1>4 DEF Record, NotSending, WorkerTypes
  <2>6. Held' BY <1>4, <2>3 DEF Record, NotSending, Held, RowTypes, WorkerTypes
  <2>. QED BY <2>2, <2>4, <2>5, <2>6
<1>. QED BY <1>1, <1>2, <1>3, <1>4 DEF Dispatch

EngagingTypes == [at : {"idle", "each", "write", "reply"}, rest : SUBSET Exchanges,
                  x : Exchanges \cup {Nobody}, found : Places, rescued : BOOLEAN]

LEMMA NextRowTypes ==
  ASSUME WorkerTypes, NEW e \in Engagers
  PROVE  NextRow(e) \in EngagingTypes
BY DEF WorkerTypes, NextRow, NotEngaging, EngagingTypes, Places

LEMMA PastTypes ==
  ASSUME WorkerTypes, NEW e \in Engagers, NEW x, engaging[e].at = "each"
  PROVE  /\ Past(e, x) \in EngagingTypes
         /\ Past(e, x).at \in {"idle", "each"} /\ Past(e, x).rest \subseteq engaging[e].rest
         /\ Past(e, x).x \in {Nobody, engaging[e].x}
<1>1. engaging[e] \in EngagingTypes BY DEF WorkerTypes, EngagingTypes
<1>2. CASE engaging[e].rest = {x} BY <1>2 DEF Past, NotEngaging, EngagingTypes, Places
<1>3. CASE engaging[e].rest # {x}
  <2>1. Past(e, x) = [engaging[e] EXCEPT !.rest = engaging[e].rest \ {x}] BY <1>3 DEF Past
  <2>. QED BY <1>1, <2>1 DEF EngagingTypes
<1>. QED BY <1>2, <1>3

(* A worker whose step stays in the types leaves WorkerTypes as it is.       *)
LEMMA EngagingKept ==
  ASSUME WorkerTypes, NEW e \in Engagers, NEW r \in EngagingTypes,
         engaging' = [engaging EXCEPT ![e] = r], UNCHANGED <<sending, planning, ramping>>
  PROVE  WorkerTypes'
<1>1. engaging' \in [Engagers -> EngagingTypes] BY DEF WorkerTypes, EngagingTypes
<1>. QED BY <1>1 DEF WorkerTypes, EngagingTypes

LEMMA EngageTypes == ASSUME TypeInv, NEW e \in Engagers, EngageTick(e) \/ Engage(e) PROVE TypeInv'
<1>. USE ConstantTypes DEF TypeInv, TypeOK
<1>1. CASE EngageTick(e)
  <2>1. WorkerTypes'
    <3>1. DEFINE rest == {x \in Batch : row[x].to \notin NoImap}
    <3>2. rest \subseteq Exchanges BY DEF Batch, Waiting
    <3>3. DEFINE next == [engaging[e] EXCEPT !.at = "each", !.rest = rest]
    <3>4. next \in EngagingTypes
      <4>1. engaging[e] \in EngagingTypes BY DEF WorkerTypes, EngagingTypes
      <4>. HIDE DEF rest
      <4>. QED BY <3>2, <4>1 DEF EngagingTypes
    <3>5. engaging' = [engaging EXCEPT ![e] = next]
      <4>1. engaging \in [Engagers -> EngagingTypes] BY DEF WorkerTypes, EngagingTypes
      <4>. QED BY <1>1, <4>1 DEF EngageTick, EngagingTypes
    <3>. QED BY <1>1, <3>4, <3>5, EngagingKept DEF EngageTick
  <2>2. Held' BY <1>1 DEF EngageTick, NotEngaging, Batch, Waiting, Held, WorkerTypes, exchanges
  <2>. QED BY <1>1, <2>1, <2>2 DEF EngageTick, memberships, exchanges, mail, MemberTypes, RowTypes
<1>2. ASSUME NEW x \in Exchanges, WriteOff(e, x) PROVE TypeInv'
  <2>1. MemberTypes' BY <1>2 DEF WriteOff, memberships, MemberTypes
  <2>2. RowTypes' BY <1>2 DEF WriteOff, Leave, mail, RowTypes, States
  <2>3. WorkerTypes' BY <1>2, PastTypes, EngagingKept DEF WriteOff
  <2>4. Held' BY <1>2, PastTypes DEF WriteOff, Held, RowTypes, WorkerTypes
  <2>. QED BY <2>1, <2>2, <2>3, <2>4
<1>3. ASSUME NEW x \in Exchanges, Miss(e, x) PROVE TypeInv'
  <2>1. WorkerTypes' BY <1>3, PastTypes, EngagingKept DEF Miss
  <2>2. Held' BY <1>3, PastTypes DEF Miss, Held, WorkerTypes, exchanges
  <2>. QED BY <1>3, <2>1, <2>2 DEF Miss, memberships, exchanges, mail, MemberTypes, RowTypes
<1>4. ASSUME NEW x \in Exchanges, NEW moved \in BOOLEAN, Find(e, x, moved) PROVE TypeInv'
  <2>1. WorkerTypes' BY <1>4 DEF Find, WorkerTypes, RowTypes
  <2>2. Held' BY <1>4 DEF Find, Held, WorkerTypes, exchanges
  <2>3. RowTypes' BY <1>4 DEF Find, exchanges, RowTypes, Places
  <2>. QED BY <1>4, <2>1, <2>2, <2>3 DEF Find, memberships, MemberTypes
<1>5. ASSUME NEW counted \in BOOLEAN, WriteOutcome(e, counted) PROVE TypeInv'
  <2>1. touched' \in [Mailboxes -> BOOLEAN] BY <1>5, Zenon DEF WriteOutcome, MemberTypes
  <2>2. MemberTypes' BY <1>5, <2>1 DEF WriteOutcome, MemberTypes
  <2>3. engaging[e].x \in Exchanges /\ engaging[e].found \in Places BY <1>5 DEF WriteOutcome, Held, WorkerTypes
  <2>4. RowTypes'
    <3>1. earlier' \in [Exchanges -> SUBSET Exchanges] BY <1>5 DEF WriteOutcome, Leave, RowTypes
    <3>2. landed' \in [Exchanges -> Places] BY <1>5, <2>3 DEF WriteOutcome, RowTypes
    <3>3. DEFINE state == IF engaging[e].rescued THEN "recovered_from_spam" ELSE "opened"
    <3>4. state \in States BY DEF States
    <3>5. row' = [row EXCEPT ![engaging[e].x].state = state] BY <1>5 DEF WriteOutcome
    <3>. HIDE DEF state
    <3>6. row' \in [Exchanges -> Rows] BY <2>3, <3>4, <3>5, StateTypes
    <3>. QED BY <1>5, <3>1, <3>2, <3>6 DEF WriteOutcome, mail, RowTypes, Rows
  <2>5. WorkerTypes' BY <1>5, <2>3, NextRowTypes DEF WriteOutcome, NotEngaging, WorkerTypes, EngagingTypes, Places
  <2>6. Held' BY <1>5, <2>3 DEF WriteOutcome, NextRow, NotEngaging, Replies, Held, RowTypes, WorkerTypes
  <2>. QED BY <2>2, <2>4, <2>5, <2>6
<1>6. ASSUME NEW y \in Exchanges, Reply(e, y) PROVE TypeInv'
  <2>1. engaging[e].x \in Exchanges /\ row[engaging[e].x].depth < MaxDepth BY <1>6 DEF Reply, Held
  <2>2. MemberTypes' BY <1>6 DEF Reply, memberships, MemberTypes
  <2>3. row[engaging[e].x].depth + 1 \in 0 .. MaxDepth BY <2>1 DEF RowTypes
  <2>4. RowTypes' BY <1>6, <2>1, <2>3 DEF Reply, Create, mail, RowTypes, States
  <2>5. WorkerTypes' BY <1>6, NextRowTypes, EngagingKept DEF Reply
  <2>6. Held' BY <1>6, <2>1 DEF Reply, Create, Unused, NextRow, NotEngaging, Held, RowTypes, WorkerTypes
  <2>. QED BY <2>2, <2>4, <2>5, <2>6
<1>7. CASE NoReply(e)
  <2>1. WorkerTypes' BY <1>7, NextRowTypes, EngagingKept DEF NoReply
  <2>2. Held' BY <1>7 DEF NoReply, NextRow, NotEngaging, Held, WorkerTypes, exchanges
  <2>. QED BY <1>7, <2>1, <2>2 DEF NoReply, memberships, exchanges, mail, MemberTypes, RowTypes
<1>8. engaging[e].rest \subseteq Exchanges BY DEF WorkerTypes
<1>. QED BY <1>1, <1>2, <1>3, <1>4, <1>5, <1>6, <1>7, <1>8 DEF Engage

LEMMA RampDoneTypes ==
  ASSUME WorkerTypes, NEW i \in Rampers, NEW m \in Mailboxes, RampDone(i, m)
  PROVE  ramping' \in [Rampers -> [todo : SUBSET Mailboxes, read : [Mailboxes -> Membership], fresh : [Mailboxes -> BOOLEAN]]]
<1>. USE ConstantTypes
<1>1. Outsider \in Membership BY DEF Outsider, Membership
<1>. QED BY <1>1 DEF RampDone, NotRamping, WorkerTypes

LEMMA RampTypes ==
  ASSUME TypeInv, NEW i \in Rampers, RampTick(i) \/ (\E m \in Mailboxes : Ramp(i, m))
  PROVE  TypeInv'
<1>. USE ConstantTypes DEF TypeInv, TypeOK
<1>1. CASE RampTick(i)
  BY <1>1 DEF RampTick, memberships, exchanges, mail, MemberTypes, RowTypes, WorkerTypes, Held
<1>2. ASSUME NEW m \in Mailboxes, RampSkip(i, m) PROVE TypeInv'
  <2>1. WorkerTypes' BY <1>2, RampDoneTypes DEF RampSkip, WorkerTypes
  <2>. QED BY <1>2, <2>1 DEF RampSkip, memberships, exchanges, mail, MemberTypes, RowTypes, Held
<1>3. ASSUME NEW m \in Mailboxes, RampWrite(i, m) PROVE TypeInv'
  <2>1. WorkerTypes' BY <1>3, RampDoneTypes DEF RampWrite, WorkerTypes
  <2>2. NextRamp(i, m) \in [step : 0 .. MaxSteps, daily : Nat, health : {"warming", "maintenance", "paused", "error"}]
    <3>1. ramping[i].read[m] \in Membership BY DEF WorkerTypes
    <3>2. ramping[i].read[m].step \in 0 .. MaxSteps /\ ramping[i].read[m].days \in 1 .. MaxSteps BY <3>1 DEF Membership
    <3>3. UpTo(MaxSteps, ramping[i].read[m].step + 1) \in 0 .. MaxSteps BY <3>2 DEF UpTo
    <3>4. \A step \in 0 .. MaxSteps : Daily(step, ramping[i].read[m].days) \in Nat BY <3>2, DailyType
    <3>. QED BY <3>2, <3>3, <3>4 DEF NextRamp
  <2>3. member' \in [Mailboxes -> Membership]
    <3>1. DEFINE next == NextRamp(i, m)
    <3>2. DEFINE to == [member[m] EXCEPT !.step = next.step, !.daily = next.daily, !.health = next.health]
    <3>3. member[m] \in Membership BY DEF MemberTypes
    <3>4. to \in Membership BY <2>2, <3>3 DEF Membership
    <3>5. member' = [member EXCEPT ![m] = to] BY <1>3 DEF RampWrite, MemberTypes
    <3>. HIDE DEF to
    <3>. QED BY <3>4, <3>5 DEF MemberTypes
  <2>4. advanced' \in [Mailboxes -> BOOLEAN] BY <1>3, Zenon DEF RampWrite, MemberTypes
  <2>5. MemberTypes' BY <1>3, <2>3, <2>4 DEF RampWrite, MemberTypes
  <2>. QED BY <1>3, <2>1, <2>5 DEF RampWrite, exchanges, mail, RowTypes, Held
<1>. QED BY <1>1, <1>2, <1>3 DEF Ramp

LEMMA CustomerTypes == ASSUME TypeInv, NEW m \in Mailboxes, Customer(m) PROVE TypeInv'
<1>. USE ConstantTypes DEF TypeInv, TypeOK
<1>1. CASE Enroll(m)
  <2>1. MemberTypes' BY <1>1 DEF Enroll, MemberTypes, Membership
  <2>. QED BY <1>1, <2>1 DEF Enroll, exchanges, mail, workers, RowTypes, WorkerTypes, Held
<1>2. ASSUME NEW on \in BOOLEAN, SetEnabled(m, on) PROVE TypeInv'
  <2>. DEFINE health == IF on THEN "warming" ELSE "paused"
  <2>. DEFINE to == [member[m] EXCEPT !.enabled = on, !.health = health]
  <2>1. health \in {"warming", "paused"} OBVIOUS
  <2>2. member[m] \in Membership BY DEF MemberTypes
  <2>. HIDE DEF health
  <2>3. to \in Membership BY <2>1, <2>2 DEF Membership
  <2>4. member' = [member EXCEPT ![m] = to] BY <1>2 DEF SetEnabled, MemberTypes, health
  <2>. HIDE DEF to
  <2>5. member' \in [Mailboxes -> Membership] BY <2>3, <2>4 DEF MemberTypes
  <2>6. MemberTypes' BY <1>2, <2>5 DEF SetEnabled, Event, MemberTypes
  <2>. QED BY <1>2, <2>6 DEF SetEnabled, exchanges, mail, workers, RowTypes, WorkerTypes, Held
<1>3. ASSUME NEW on \in BOOLEAN, SetOrgConsent(m, on) PROVE TypeInv'
  BY <1>3 DEF SetOrgConsent, Event, exchanges, mail, workers, MemberTypes, RowTypes, WorkerTypes, Held
<1>4. ASSUME NEW days \in RampChoices, UpdateConfig(m, days) PROVE TypeInv'
  <2>1. MemberTypes' BY <1>4 DEF UpdateConfig, Event, MemberTypes, Membership
  <2>. QED BY <1>4, <2>1 DEF UpdateConfig, exchanges, mail, workers, RowTypes, WorkerTypes, Held
<1>. QED BY <1>1, <1>2, <1>3, <1>4 DEF Customer

LEMMA TimeTypes ==
  ASSUME TypeInv,
         \/ Midnight
         \/ \E x \in Exchanges : FreshnessPasses(x) \/ Ages(x)
         \/ (\E d \in Dispatchers : DispatchFails(d)) \/ (\E e \in Engagers : EngageFails(e)) \/ Restart
         \/ UNCHANGED vars
  PROVE  TypeInv'
<1>. USE ConstantTypes DEF TypeInv, TypeOK
<1>1. CASE Midnight
  <2>1. WorkerTypes'
    <3>1. \A i \in Rampers : ramping'[i] = [ramping[i] EXCEPT !.fresh = [m \in Mailboxes |-> FALSE]]
      BY <1>1 DEF Midnight
    <3>2. ASSUME NEW i \in Rampers
          PROVE  ramping'[i] \in [todo : SUBSET Mailboxes, read : [Mailboxes -> Membership], fresh : [Mailboxes -> BOOLEAN]]
      <4>. DEFINE none == [m \in Mailboxes |-> FALSE]
      <4>1. none \in [Mailboxes -> BOOLEAN] OBVIOUS
      <4>2. ramping'[i] = [ramping[i] EXCEPT !.fresh = none] BY <3>1
      <4>3. ramping[i] \in [todo : SUBSET Mailboxes, read : [Mailboxes -> Membership], fresh : [Mailboxes -> BOOLEAN]]
        BY DEF WorkerTypes
      <4>. HIDE DEF none
      <4>. QED BY <4>1, <4>2, <4>3
    <3>3. ramping' = [i \in Rampers |-> ramping'[i]] BY <1>1 DEF Midnight
    <3>. QED BY <1>1, <3>2, <3>3 DEF Midnight, WorkerTypes
  <2>. QED BY <1>1, <2>1 DEF Midnight, mail, MemberTypes, RowTypes, Held
<1>2. ASSUME NEW x \in Exchanges, FreshnessPasses(x) PROVE TypeInv'
  BY <1>2 DEF FreshnessPasses, memberships, mail, workers, MemberTypes, RowTypes, WorkerTypes, Held
<1>3. ASSUME NEW x \in Exchanges, Ages(x) PROVE TypeInv'
  <2>1. RowTypes' BY <1>3 DEF Ages, Unused, RowTypes, States, Places
  <2>2. Held' BY <1>3 DEF Ages, Busy, workers, Unused, Held, RowTypes, WorkerTypes
  <2>. QED BY <1>3, <2>1, <2>2 DEF Ages, memberships, workers, MemberTypes, WorkerTypes
<1>4. ASSUME NEW d \in Dispatchers, DispatchFails(d) PROVE TypeInv'
  BY <1>4 DEF DispatchFails, Event, NotSending, memberships, exchanges, mail, MemberTypes, RowTypes, WorkerTypes, Held
<1>5. ASSUME NEW e \in Engagers, EngageFails(e) PROVE TypeInv'
  <2>1. WorkerTypes' BY <1>5, NextRowTypes, EngagingKept DEF EngageFails
  <2>2. Held' BY <1>5 DEF EngageFails, NextRow, NotEngaging, Held, WorkerTypes, exchanges
  <2>. QED BY <1>5, <2>1, <2>2 DEF EngageFails, Event, memberships, exchanges, mail, MemberTypes, RowTypes
<1>6. CASE Restart
  <2>1. WorkerTypes'
    <3>1. Outsider \in Membership BY DEF Outsider, Membership
    <3>. QED BY <1>6, <3>1 DEF Restart, NotSending, NotEngaging, NotPlanning, NotRamping, WorkerTypes, Places
  <2>2. Held' BY <1>6 DEF Restart, NotSending, NotEngaging, NotPlanning, Held
  <2>. QED BY <1>6, <2>1, <2>2 DEF Restart, Event, memberships, exchanges, mail, MemberTypes, RowTypes
<1>7. CASE UNCHANGED vars
  BY <1>7 DEF vars, memberships, exchanges, mail, workers, MemberTypes, RowTypes, WorkerTypes, Held
<1>. QED BY <1>1, <1>2, <1>3, <1>4, <1>5, <1>6, <1>7

LEMMA StepTypes == ASSUME TypeInv, [Next]_vars PROVE TypeInv'
BY PlanTypes, DispatchTypes, EngageTypes, RampTypes, CustomerTypes, TimeTypes DEF Next

(* Every variable keeps its type, and no thread outgrows MAX_THREAD_DEPTH.   *)
THEOREM TypeCorrect == Spec => []TypeOK
<1>1. Spec => []TypeInv BY InitTypes, StepTypes, PTL DEF Spec
<1>. QED BY <1>1, PTL DEF TypeInv

(* ---- No message is transmitted twice ------------------------------------- *)

(* A row is claimed once: a claim finds it scheduled, never transmitted, and *)
(* the worker that holds it is the only one that does until it has recorded  *)
(* the message or given it up.  Nothing else touches a row without a         *)
(* message id.                                                               *)
Untouched == \A x \in Exchanges : row[x].state \in {"free", "scheduled"} => copies[x] = 0 /\ ~stored[x]
HeldAlone ==
  /\ \A d \in Dispatchers : sending[d].at = "idle" => sending[d].x = Nobody
  /\ \A d, c \in Dispatchers : sending[d].x = sending[c].x /\ sending[d].x # Nobody => d = c
  /\ \A d \in Dispatchers : sending[d].x # Nobody => row[sending[d].x].state = "sent" /\ ~stored[sending[d].x]
  /\ \A d \in Dispatchers : sending[d].at = "send" => copies[sending[d].x] = 0
SentInv == SentOnce /\ Untouched /\ HeldAlone

LEMMA SentInit == Init => SentInv
BY ConstantTypes DEF Init, SentInv, SentOnce, Untouched, HeldAlone, NotSending

(* What a step of anybody but the dispatch workers may do.                   *)
LEMMA SentKept ==
  ASSUME TypeInv, SentInv,
         \A d \in Dispatchers : sending'[d] \in {sending[d], NotSending},
         \A x \in Exchanges : copies'[x] \in {copies[x], 0},
         \A x \in Exchanges : row'[x].state \in {"free", "scheduled"} => copies'[x] = 0 /\ ~stored'[x],
         \A d \in Dispatchers : sending[d].x # Nobody =>
           row'[sending[d].x].state = row[sending[d].x].state /\ (stored'[sending[d].x] <=> stored[sending[d].x])
  PROVE  SentInv'
<1>. USE DEF SentInv
<1>1. SentOnce' BY DEF SentOnce
<1>2. Untouched' BY DEF Untouched
<1>3. \A d \in Dispatchers : sending[d].x # Nobody => sending[d].x \in Exchanges
  BY DEF TypeInv, TypeOK, WorkerTypes
<1>4. \A d \in Dispatchers : sending'[d].at # "idle" \/ sending'[d].x # Nobody => sending'[d] = sending[d]
  BY DEF NotSending
<1>5. \A d \in Dispatchers : sending[d].at = "send" => sending[d].x # Nobody
  BY ConstantTypes DEF TypeInv, Held
<1>6. \A d \in Dispatchers : sending'[d].at = "idle" => sending'[d].x = Nobody
  BY DEF NotSending, HeldAlone
<1>7. HeldAlone' BY <1>3, <1>4, <1>5, <1>6 DEF HeldAlone, NotSending
<1>. QED BY <1>1, <1>2, <1>7

LEMMA SentDispatch ==
  ASSUME TypeInv, SentInv, NEW d \in Dispatchers, Dispatch(d) \/ (\E x \in Exchanges : Claim(d, x))
  PROVE  SentInv'
<1>. USE ConstantTypes DEF TypeInv, TypeOK, SentInv
<1>1. ASSUME NEW x \in Exchanges, Claim(d, x) PROVE SentInv'
  <2>1. \A y \in Exchanges : row'[y].state = IF y = x THEN "sent" ELSE row[y].state
    BY <1>1 DEF Claim, RowTypes
  <2>2. \A c \in Dispatchers : sending'[c] = IF c = d THEN [at |-> "send", x |-> x] ELSE sending[c]
    BY <1>1 DEF Claim, WorkerTypes
  <2>3. UNCHANGED <<stored, copies>> BY <1>1 DEF Claim, mail
  <2>4. row[x].state = "scheduled" BY <1>1 DEF Claim, Claimable
  <2>5. \A c \in Dispatchers : sending[c].x # x BY <2>4 DEF HeldAlone
  <2>6. \A c \in Dispatchers : sending[c].x # Nobody => sending[c].x \in Exchanges BY DEF WorkerTypes
  <2>7. SentOnce' /\ Untouched' BY <2>1, <2>3 DEF SentOnce, Untouched
  <2>8. HeldAlone' BY <2>1, <2>2, <2>3, <2>4, <2>5, <2>6 DEF HeldAlone, Untouched
  <2>. QED BY <2>7, <2>8
<1>2. ASSUME sending[d].at # "idle" PROVE
        /\ sending[d].x \in Exchanges
        /\ \A c \in Dispatchers : c # d => sending[c].x # sending[d].x
        /\ \A c \in Dispatchers : sending[c].x # Nobody => sending[c].x \in Exchanges
  BY <1>2 DEF Held, HeldAlone, WorkerTypes
<1>3. ASSUME Fail(d), sending[d].at # "idle", UNCHANGED stored, NEW n \in {0, 1},
             copies' = [copies EXCEPT ![sending[d].x] = @ + n],
             n = 1 => copies[sending[d].x] = 0
      PROVE  SentInv'
  <2>1. \A y \in Exchanges : row'[y].state = IF y = sending[d].x THEN "failed" ELSE row[y].state
    BY <1>2, <1>3 DEF Fail, RowTypes
  <2>2. \A c \in Dispatchers : sending'[c] = IF c = d THEN NotSending ELSE sending[c]
    BY <1>3 DEF Fail, WorkerTypes
  <2>3. \A y \in Exchanges : copies'[y] = IF y = sending[d].x THEN copies[y] + n ELSE copies[y]
    BY <1>3 DEF RowTypes
  <2>4. copies[sending[d].x] \in Nat /\ copies[sending[d].x] <= 1 BY <1>2, <1>3 DEF RowTypes, SentOnce
  <2>5. SentOnce' BY <1>3, <2>3, <2>4 DEF SentOnce, RowTypes
  <2>6. Untouched' BY <1>3, <2>1, <2>3 DEF Untouched
  <2>7. \A c \in Dispatchers : c # d /\ sending[c].at = "send" => sending[c].x \in Exchanges BY DEF Held
  <2>8. HeldAlone' BY <1>2, <1>3, <2>1, <2>2, <2>3, <2>7 DEF HeldAlone, NotSending
  <2>. QED BY <2>5, <2>6, <2>8
<1>4. CASE Refuse(d)
  <2>1. copies' = [copies EXCEPT ![sending[d].x] = @ + 0]
    BY <1>2, <1>4 DEF Refuse, mail, RowTypes
  <2>. QED BY <1>3, <1>4, <2>1 DEF Refuse
<1>5. ASSUME NEW where \in Folders, NEW answered \in BOOLEAN, Transmit(d, where, answered) PROVE SentInv'
  <2>1. copies[sending[d].x] = 0 BY <1>5 DEF Transmit, HeldAlone
  <2>2. CASE ~answered BY <1>3, <1>5, <2>1, <2>2 DEF Transmit
  <2>3. CASE answered
    <3>1. UNCHANGED <<row, stored>> BY <1>5, <2>3 DEF Transmit
    <3>2. \A c \in Dispatchers : c # d => sending'[c] = sending[c] BY <1>5, <2>3 DEF Transmit, WorkerTypes
    <3>3. sending'[d].at = "record" /\ sending'[d].x = sending[d].x BY <1>5, <2>3 DEF Transmit, WorkerTypes
    <3>4. \A y \in Exchanges : copies'[y] = IF y = sending[d].x THEN 1 ELSE copies[y]
      BY <1>2, <1>5, <2>1 DEF Transmit, RowTypes
    <3>5. SentOnce' BY <3>4 DEF SentOnce
    <3>6. sending[d].x \in Exchanges /\ row[sending[d].x].state = "sent" BY <1>2, <1>5 DEF Transmit, HeldAlone
    <3>7. Untouched' BY <3>1, <3>4, <3>6 DEF Untouched
    <3>8. \A c \in Dispatchers : sending[c].at = "send" => sending[c].x \in Exchanges BY DEF Held
    <3>9. HeldAlone' BY <1>2, <1>5, <3>1, <3>2, <3>3, <3>4, <3>8 DEF Transmit, HeldAlone
    <3>. QED BY <3>5, <3>7, <3>9
  <2>. QED BY <2>2, <2>3
<1>6. ASSUME NEW counted \in BOOLEAN, Record(d, counted) PROVE SentInv'
  <2>1. \A y \in Exchanges : row'[y].state = IF y = sending[d].x THEN "sent" ELSE row[y].state
    BY <1>2, <1>6 DEF Record, RowTypes
  <2>2. \A c \in Dispatchers : sending'[c] = IF c = d THEN NotSending ELSE sending[c]
    BY <1>6 DEF Record, WorkerTypes
  <2>3. \A y \in Exchanges : stored'[y] = IF y = sending[d].x THEN TRUE ELSE stored[y]
    BY <1>6 DEF Record, RowTypes
  <2>4. UNCHANGED copies BY <1>6 DEF Record, mail
  <2>5. SentOnce' BY <2>4 DEF SentOnce
  <2>6. Untouched' BY <2>1, <2>3, <2>4 DEF Untouched
  <2>7. sending[d].at # "idle" BY <1>6 DEF Record
  <2>8. ASSUME NEW c \in Dispatchers, c # d, sending[c].x # Nobody
        PROVE  row'[sending[c].x].state = "sent" /\ ~stored'[sending[c].x]
    BY <1>2, <2>1, <2>3, <2>7, <2>8 DEF HeldAlone
  <2>9. HeldAlone' BY <2>2, <2>4, <2>8 DEF HeldAlone, NotSending
  <2>. QED BY <2>5, <2>6, <2>9
<1>. QED BY <1>1, <1>4, <1>5, <1>6 DEF Dispatch

LEMMA SentStep == ASSUME TypeInv, SentInv, [Next]_vars PROVE SentInv'
<1>. USE ConstantTypes DEF TypeInv, TypeOK, SentInv
<1>1. \A d \in Dispatchers : sending[d].x # Nobody =>
        /\ sending[d].x \in Exchanges /\ row[sending[d].x].state = "sent" /\ ~stored[sending[d].x]
  BY DEF WorkerTypes, HeldAlone
<1>2. ASSUME UNCHANGED <<row, stored, copies>>, \A d \in Dispatchers : sending'[d] \in {sending[d], NotSending}
      PROVE  SentInv'
  BY <1>2, SentKept DEF Untouched
<1>3. ASSUME NEW x \in Exchanges, NEW r, row' = [row EXCEPT ![x] = r], r.state = "scheduled", row[x] = Unused,
             UNCHANGED <<stored, copies, sending>>
      PROVE  SentInv'
  <2>1. \A y \in Exchanges : row'[y] = IF y = x THEN r ELSE row[y] BY <1>3 DEF RowTypes
  <2>2. copies[x] = 0 /\ ~stored[x] BY <1>3 DEF Untouched, Unused
  <2>. QED BY <1>1, <1>3, <2>1, <2>2, SentKept DEF Untouched, Unused
<1>4. ASSUME NEW x \in Exchanges, NEW s \in {"bounced", "opened", "recovered_from_spam"},
             row' = [row EXCEPT ![x].state = s], stored[x], UNCHANGED <<stored, copies, sending>>
      PROVE  SentInv'
  <2>1. \A y \in Exchanges : row'[y].state = IF y = x THEN s ELSE row[y].state BY <1>4 DEF RowTypes
  <2>. QED BY <1>1, <1>4, <2>1, SentKept DEF Untouched
<1>5. CASE Plan
  <2>1. ASSUME NEW m \in Mailboxes, NEW x \in Exchanges, PlanCreate(x, m) PROVE SentInv'
    <3>. DEFINE r == [state |-> "scheduled", from |-> planning.m, to |-> m, thread |-> Nobody, depth |-> 0]
    <3>1. row' = [row EXCEPT ![x] = r] /\ r.state = "scheduled" BY <2>1 DEF PlanCreate, Create
    <3>. HIDE DEF r
    <3>. QED BY <1>3, <2>1, <3>1 DEF PlanCreate, Create, mail
  <2>. QED BY <1>2, <1>5, <2>1 DEF Plan, PlanExhausted, PlanCount, exchanges, mail
<1>6. ASSUME NEW d \in Dispatchers, Dispatch(d) \/ (\E x \in Exchanges : Claim(d, x)) PROVE SentInv'
  BY <1>6, SentDispatch
<1>7. ASSUME NEW e \in Engagers, EngageTick(e) \/ Engage(e) PROVE SentInv'
  <2>1. CASE EngageTick(e) BY <1>2, <2>1 DEF EngageTick, exchanges, mail
  <2>2. ASSUME NEW x \in Exchanges, Miss(e, x) PROVE SentInv' BY <1>2, <2>2 DEF Miss, exchanges, mail
  <2>3. ASSUME NEW x \in Exchanges, NEW moved \in BOOLEAN, Find(e, x, moved) PROVE SentInv'
    BY <1>2, <2>3 DEF Find, exchanges
  <2>4. ASSUME NEW x \in Exchanges, WriteOff(e, x) PROVE SentInv'
    BY <1>4, <2>4 DEF WriteOff, Leave, mail, Held
  <2>5. ASSUME NEW counted \in BOOLEAN, WriteOutcome(e, counted) PROVE SentInv'
    <3>1. engaging[e].x \in Exchanges /\ stored[engaging[e].x] BY <2>5 DEF WriteOutcome, Held
    <3>2. PICK s \in {"opened", "recovered_from_spam"} : row' = [row EXCEPT ![engaging[e].x].state = s]
      BY <2>5 DEF WriteOutcome
    <3>. QED BY <1>4, <2>5, <3>1, <3>2 DEF WriteOutcome, mail
  <2>6. ASSUME NEW y \in Exchanges, Reply(e, y) PROVE SentInv'
    <3>. DEFINE r == [state |-> "scheduled", from |-> row[engaging[e].x].to, to |-> row[engaging[e].x].from,
                      thread |-> row[engaging[e].x].thread, depth |-> row[engaging[e].x].depth + 1]
    <3>1. row' = [row EXCEPT ![y] = r] /\ r.state = "scheduled" BY <2>6 DEF Reply, Create
    <3>. HIDE DEF r
    <3>. QED BY <1>3, <2>6, <3>1 DEF Reply, Create, mail
  <2>7. CASE NoReply(e) BY <1>2, <2>7 DEF NoReply, exchanges, mail
  <2>8. engaging[e].rest \subseteq Exchanges BY DEF WorkerTypes
  <2>. QED BY <1>7, <2>1, <2>2, <2>3, <2>4, <2>5, <2>6, <2>7, <2>8 DEF Engage
<1>8. ASSUME NEW i \in Rampers, RampTick(i) \/ (\E m \in Mailboxes : Ramp(i, m)) PROVE SentInv'
  BY <1>2, <1>8 DEF RampTick, Ramp, RampSkip, RampWrite, exchanges, mail
<1>9. ASSUME NEW m \in Mailboxes, Customer(m) PROVE SentInv'
  BY <1>2, <1>9 DEF Customer, Enroll, SetEnabled, SetOrgConsent, UpdateConfig, exchanges, mail, workers
<1>10. CASE Midnight BY <1>2, <1>10 DEF Midnight, mail
<1>11. ASSUME NEW x \in Exchanges, FreshnessPasses(x) PROVE SentInv'
  BY <1>2, <1>11 DEF FreshnessPasses, mail, workers
<1>12. ASSUME NEW x \in Exchanges, Ages(x) PROVE SentInv'
  <2>1. \A y \in Exchanges : y # x => row'[y] = row[y] /\ stored'[y] = stored[y] /\ copies'[y] = copies[y]
    BY <1>12 DEF Ages, RowTypes
  <2>2. ~stored'[x] /\ copies'[x] = 0 BY <1>12 DEF Ages, RowTypes
  <2>3. \A d \in Dispatchers : sending[d].x # x BY <1>12 DEF Ages, Busy
  <2>4. UNCHANGED sending BY <1>12 DEF Ages, workers
  <2>. QED BY <1>1, <2>1, <2>2, <2>3, <2>4, SentKept DEF Untouched
<1>13. ASSUME NEW d \in Dispatchers, DispatchFails(d) PROVE SentInv'
  <2>1. \A c \in Dispatchers : sending'[c] \in {sending[c], NotSending} BY <1>13 DEF DispatchFails, WorkerTypes
  <2>. QED BY <1>2, <1>13, <2>1 DEF DispatchFails, exchanges, mail
<1>14. ASSUME NEW e \in Engagers, EngageFails(e) PROVE SentInv' BY <1>2, <1>14 DEF EngageFails, exchanges, mail
<1>15. CASE Restart
  <2>1. \A c \in Dispatchers : sending'[c] \in {sending[c], NotSending} BY <1>15 DEF Restart
  <2>. QED BY <1>2, <1>15, <2>1 DEF Restart, exchanges, mail
<1>16. CASE UNCHANGED vars BY <1>2, <1>16 DEF vars, exchanges, mail, workers
<1>. QED BY <1>5, <1>6, <1>7, <1>8, <1>9, <1>10, <1>11, <1>12, <1>13, <1>14, <1>15, <1>16 DEF Next

(* No exchange is transmitted twice, however many instances run the dispatch *)
(* worker and whatever fails: the claim and the message id see to it.        *)
THEOREM SentAtMostOnce == Spec => []SentOnce
<1>1. Init => TypeInv /\ SentInv BY InitTypes, SentInit
<1>2. TypeInv /\ SentInv /\ [Next]_vars => (TypeInv /\ SentInv)' BY StepTypes, SentStep
<1>. QED BY <1>1, <1>2, PTL DEF Spec, SentInv

(* ---- Threads ------------------------------------------------------------- *)

(* The recipient worker has no claim: the chain depends on there being one.  *)
OneEngager == \A e, f \in Engagers : e = f

Last(x) == \A y \in Exchanges : row[y].thread = row[x].thread /\ row[x].thread # Nobody => row[y].depth <= row[x].depth
Roots ==
  /\ \A x \in Exchanges : stored[x] => row[x].thread # Nobody
  /\ \A x \in Exchanges : row[x].thread = Nobody => row[x].depth = 0
  /\ \A x \in Exchanges : row[x].thread # Nobody =>
       row[row[x].thread].thread = row[x].thread /\ row[row[x].thread].depth = 0
(* A message that is not answered yet is the last of its thread.             *)
Unanswered ==
  /\ \A x \in Exchanges : row[x].state \in {"scheduled", "sent"} => Last(x)
  /\ \A e \in Engagers : \A x \in engaging[e].rest : row[x].state = "sent" /\ x # engaging[e].x
  /\ \A e \in Engagers : engaging[e].at = "write" => row[engaging[e].x].state = "sent"
  /\ \A e \in Engagers : engaging[e].at = "reply" =>
       row[engaging[e].x].state \in {"opened", "recovered_from_spam"} /\ Last(engaging[e].x)
ChainInv == ThreadsAreChains /\ Roots /\ Unanswered

LEMMA ChainInit == Init => ChainInv
BY ConstantTypes DEF Init, ChainInv, ThreadsAreChains, Roots, Unanswered, Last, Unused, NotEngaging

(* A step that changes no more of the rows than their states, and reopens    *)
(* none, keeps the threads.                                                  *)
LEMMA ChainKept ==
  ASSUME TypeInv, ChainInv, UNCHANGED stored,
         \A x \in Exchanges :
           /\ row'[x].thread = row[x].thread /\ row'[x].depth = row[x].depth
           /\ row'[x].from = row[x].from /\ row'[x].to = row[x].to
           /\ row'[x].state \in {"scheduled", "sent"} => row[x].state \in {"scheduled", "sent"}
  PROVE  /\ ThreadsAreChains' /\ Roots'
         /\ \A x \in Exchanges : Last(x) => Last(x)'
         /\ \A x \in Exchanges : row'[x].state \in {"scheduled", "sent"} => Last(x)'
<1>. USE ConstantTypes DEF ChainInv
<1>1. ThreadsAreChains' BY DEF ThreadsAreChains
<1>2. \A x \in Exchanges : row[x].thread # Nobody => row[x].thread \in Exchanges
  BY DEF TypeInv, TypeOK, RowTypes
<1>3. Roots' BY <1>2 DEF Roots
<1>4. \A x \in Exchanges : Last(x) => Last(x)' BY DEF Last
<1>. QED BY <1>1, <1>3, <1>4 DEF Unanswered

(* Such a step may also do without rows it had to do, and finish the one it  *)
(* was at.                                                                   *)
LEMMA ChainWorkers ==
  ASSUME TypeInv, ChainInv, UNCHANGED <<row, stored>>,
         \A e \in Engagers :
           \/ engaging'[e] = engaging[e]
           \/ /\ engaging'[e].at \in {"idle", "each"} /\ engaging'[e].rest \subseteq engaging[e].rest
              /\ engaging'[e].x \in {Nobody, engaging[e].x}
  PROVE  ChainInv'
<1>. USE ConstantTypes DEF ChainInv
<1>1. \A e \in Engagers : engaging[e].rest \subseteq Exchanges BY DEF TypeInv, TypeOK, WorkerTypes
<1>2. \A e \in Engagers : engaging[e].at \in {"write", "reply"} => engaging[e].x \in Exchanges BY DEF TypeInv, Held
<1>3. \A e \in Engagers : \A x \in engaging'[e].rest : row'[x].state = "sent" /\ x # engaging'[e].x
  BY <1>1 DEF Unanswered
<1>4. Unanswered' BY <1>2, <1>3, ChainKept DEF Unanswered
<1>. QED BY <1>4, ChainKept

(* A dispatch worker's row is in no hands of the recipient worker.           *)
LEMMA ChainDispatch ==
  ASSUME TypeInv, SentInv, ChainInv, NEW d \in Dispatchers, Dispatch(d) \/ (\E x \in Exchanges : Claim(d, x))
  PROVE  ChainInv'
<1>. USE ConstantTypes DEF TypeInv, TypeOK, ChainInv
<1>1. ASSUME NEW x \in Exchanges, ~stored[x], NEW s \in {"sent", "failed"}, row' = [row EXCEPT ![x].state = s],
             s = "sent" => row[x].state = "scheduled", UNCHANGED <<stored, engaging>>
      PROVE  ChainInv'
  <2>1. \A y \in Exchanges :
          /\ row'[y].thread = row[y].thread /\ row'[y].depth = row[y].depth
          /\ row'[y].from = row[y].from /\ row'[y].to = row[y].to
          /\ row'[y].state = IF y = x THEN s ELSE row[y].state
    BY <1>1 DEF RowTypes
  <2>2. ThreadsAreChains' /\ Roots'
        /\ (\A y \in Exchanges : Last(y) => Last(y)')
        /\ (\A y \in Exchanges : row'[y].state \in {"scheduled", "sent"} => Last(y)')
    BY <1>1, <2>1, ChainKept
  <2>3. \A e \in Engagers : x # engaging[e].x /\ x \notin engaging[e].rest BY <1>1 DEF Held
  <2>4. \A e \in Engagers : engaging[e].rest \subseteq Exchanges
                            /\ (engaging[e].at \in {"write", "reply"} => engaging[e].x \in Exchanges)
    BY DEF WorkerTypes, Held
  <2>5. Unanswered' BY <1>1, <2>1, <2>2, <2>3, <2>4 DEF Unanswered
  <2>. QED BY <2>2, <2>5
<1>2. ASSUME sending[d].at # "idle"
      PROVE  sending[d].x \in Exchanges /\ ~stored[sending[d].x] /\ row[sending[d].x].state = "sent"
  BY <1>2 DEF Held, SentInv, HeldAlone
<1>3. ASSUME NEW x \in Exchanges, Claim(d, x) PROVE ChainInv'
  BY <1>1, <1>3 DEF Claim, Claimable, SentInv, Untouched
<1>4. CASE Refuse(d)
  BY <1>1, <1>2, <1>4 DEF Refuse, Fail
<1>5. ASSUME NEW where \in Folders, NEW answered \in BOOLEAN, Transmit(d, where, answered) PROVE ChainInv'
  <2>1. CASE answered BY <1>5, <2>1, ChainWorkers DEF Transmit
  <2>2. CASE ~answered BY <1>1, <1>2, <1>5, <2>2 DEF Transmit, Fail
  <2>. QED BY <2>1, <2>2
<1>6. ASSUME NEW counted \in BOOLEAN, Record(d, counted) PROVE ChainInv'
  <2>1. PICK x \in Exchanges : x = sending[d].x /\ ~stored[x] /\ row[x].state = "sent" BY <1>2, <1>6 DEF Record
  <2>2. \A y \in Exchanges :
          /\ row'[y].depth = row[y].depth /\ row'[y].from = row[y].from /\ row'[y].to = row[y].to
          /\ row'[y].state = row[y].state
          /\ row'[y].thread = IF y = x /\ row[y].thread = Nobody THEN x ELSE row[y].thread
    BY <1>6, <2>1, RecordRow
  <2>3. \A y \in Exchanges : stored'[y] = IF y = x THEN TRUE ELSE stored[y] BY <1>6, <2>1 DEF Record, RowTypes
  <2>4. UNCHANGED engaging BY <1>6 DEF Record
  <2>5. \A y \in Exchanges : row[y].thread # Nobody => row[y].thread \in Exchanges BY DEF RowTypes
  <2>6. row[x].thread = Nobody => \A y \in Exchanges : row[y].thread # x BY <2>1 DEF Roots
  <2>7. ThreadsAreChains'
    <3>1. row[x].thread = Nobody => \A y \in Exchanges : row'[y].thread = x => y = x BY <2>2, <2>6
    <3>2. CASE row[x].thread = Nobody BY <2>1, <2>2, <3>1, <3>2 DEF ThreadsAreChains, RowTypes
    <3>3. CASE row[x].thread # Nobody BY <2>2, <3>3 DEF ThreadsAreChains
    <3>. QED BY <3>2, <3>3
  <2>8. Roots'
    <3>1. ASSUME NEW y \in Exchanges, stored'[y] PROVE row'[y].thread # Nobody
      <4>1. CASE y = x BY <2>1, <2>2, <4>1
      <4>2. CASE y # x
        <5>1. stored[y] /\ row'[y].thread = row[y].thread BY <2>2, <2>3, <3>1, <4>2
        <5>. QED BY <5>1 DEF Roots
      <4>. QED BY <4>1, <4>2
    <3>2. \A y \in Exchanges : row'[y].thread = Nobody => row'[y].depth = 0 BY <2>2 DEF Roots
    <3>3. ASSUME NEW y \in Exchanges, row'[y].thread # Nobody
          PROVE  row'[row'[y].thread].thread = row'[y].thread /\ row'[row'[y].thread].depth = 0
      <4>1. CASE y = x /\ row[y].thread = Nobody BY <2>1, <2>2, <4>1 DEF Roots
      <4>2. CASE ~(y = x /\ row[y].thread = Nobody)
        <5>1. row'[y].thread = row[y].thread /\ row[y].thread \in Exchanges BY <2>2, <2>5, <3>3, <4>2
        <5>2. row[row[y].thread].thread = row[y].thread /\ row[row[y].thread].depth = 0 BY <3>3, <5>1 DEF Roots
        <5>. QED BY <2>2, <3>3, <5>1, <5>2
      <4>. QED BY <4>1, <4>2
    <3>. QED BY <3>1, <3>2, <3>3 DEF Roots
  <2>9. \A y \in Exchanges : y # x /\ Last(y) => Last(y)' BY <2>1, <2>2, <2>6 DEF Last
  <2>10. Last(x)'
    <3>1. CASE row[x].thread = Nobody BY <2>1, <2>2, <2>6, <3>1 DEF Last, RowTypes
    <3>2. CASE row[x].thread # Nobody BY <2>1, <2>2, <3>2 DEF Last, Unanswered
    <3>. QED BY <3>1, <3>2
  <2>11. \A e \in Engagers : x # engaging[e].x /\ x \notin engaging[e].rest BY <2>1 DEF Held
  <2>12. \A e \in Engagers : engaging[e].rest \subseteq Exchanges
                             /\ (engaging[e].at \in {"write", "reply"} => engaging[e].x \in Exchanges)
    BY DEF WorkerTypes, Held
  <2>13. Unanswered' BY <2>2, <2>4, <2>9, <2>10, <2>11, <2>12 DEF Unanswered
  <2>. QED BY <2>7, <2>8, <2>13
<1>. QED BY <1>3, <1>4, <1>5, <1>6 DEF Dispatch

LEMMA ChainEngage ==
  ASSUME TypeInv, ChainInv, OneEngager, NEW e \in Engagers, EngageTick(e) \/ Engage(e)
  PROVE  ChainInv'
<1>. USE ConstantTypes DEF TypeInv, TypeOK, ChainInv
<1>1. \A f \in Engagers : f = e BY DEF OneEngager
<1>2. engaging[e].rest \subseteq Exchanges
      /\ (engaging[e].at \in {"write", "reply"} => engaging[e].x \in Exchanges)
  BY DEF WorkerTypes, Held
<1>3. \A r : engaging' = [engaging EXCEPT ![e] = r] => engaging'[e] = r BY DEF WorkerTypes
<1>4. NextRow(e).at \in {"idle", "each"} /\ NextRow(e).rest \subseteq engaging[e].rest /\ NextRow(e).x = Nobody
  BY DEF NextRow, NotEngaging
(* A step that gives the row x up or answers it, and does no more.           *)
<1>5. ASSUME NEW x \in Exchanges, NEW s \in {"bounced", "opened", "recovered_from_spam"},
             row' = [row EXCEPT ![x].state = s], UNCHANGED stored,
             engaging'[e].rest \subseteq engaging[e].rest \ {x},
             engaging'[e].at = "idle" \/ engaging'[e].at = "each" \/
               (engaging'[e].at = "reply" /\ engaging'[e].x = x /\ s # "bounced" /\ row[x].state = "sent"),
             engaging'[e].x \notin engaging'[e].rest
      PROVE  ChainInv'
  <2>1. \A y \in Exchanges :
          /\ row'[y].thread = row[y].thread /\ row'[y].depth = row[y].depth
          /\ row'[y].from = row[y].from /\ row'[y].to = row[y].to
          /\ row'[y].state = IF y = x THEN s ELSE row[y].state
    BY <1>5 DEF RowTypes
  <2>2. ThreadsAreChains' /\ Roots'
        /\ (\A y \in Exchanges : Last(y) => Last(y)')
        /\ (\A y \in Exchanges : row'[y].state \in {"scheduled", "sent"} => Last(y)')
    BY <1>5, <2>1, ChainKept
  <2>3. \A y \in engaging'[e].rest : row'[y].state = "sent" BY <1>2, <1>5, <2>1 DEF Unanswered
  <2>4. engaging'[e].at = "reply" => row'[x].state \in {"opened", "recovered_from_spam"} /\ Last(x)'
    BY <1>5, <2>1, <2>2 DEF Unanswered
  <2>5. Unanswered' BY <1>1, <1>5, <2>2, <2>3, <2>4 DEF Unanswered
  <2>. QED BY <2>2, <2>5
<1>6. CASE EngageTick(e)
  <2>1. engaging'[e].at = "each" /\ engaging'[e].x = Nobody
        /\ engaging'[e].rest \subseteq {x \in Exchanges : row[x].state = "sent"}
    BY <1>6 DEF EngageTick, NotEngaging, Batch, Waiting, WorkerTypes
  <2>2. UNCHANGED <<row, stored>> BY <1>6 DEF EngageTick, exchanges
  <2>3. ThreadsAreChains' /\ Roots' /\ (\A y \in Exchanges : row'[y].state \in {"scheduled", "sent"} => Last(y)')
    BY <2>2, ChainKept
  <2>4. Unanswered' BY <1>1, <2>1, <2>2, <2>3 DEF Unanswered
  <2>. QED BY <2>3, <2>4
<1>7. ASSUME NEW x \in Exchanges, Miss(e, x) PROVE ChainInv'
  BY <1>1, <1>3, <1>7, PastTypes, ChainWorkers DEF Miss, exchanges
<1>8. ASSUME NEW x \in Exchanges, WriteOff(e, x) PROVE ChainInv'
  <2>1. Past(e, x).rest \subseteq engaging[e].rest \ {x} BY DEF Past, NotEngaging, WorkerTypes
  <2>2. engaging'[e] = Past(e, x) BY <1>3, <1>8 DEF WriteOff
  <2>3. engaging'[e].x \notin engaging'[e].rest BY <1>2, <1>8, <2>2, PastTypes DEF WriteOff, Unanswered
  <2>4. engaging'[e].at = "idle" \/ engaging'[e].at = "each" BY <1>8, <2>2, PastTypes DEF WriteOff
  <2>5. row' = [row EXCEPT ![x].state = "bounced"] /\ UNCHANGED stored BY <1>8 DEF WriteOff
  <2>6. engaging'[e].rest \subseteq engaging[e].rest \ {x} BY <2>1, <2>2
  <2>. QED BY <1>5, <2>3, <2>4, <2>5, <2>6
<1>9. ASSUME NEW x \in Exchanges, NEW moved \in BOOLEAN, Find(e, x, moved) PROVE ChainInv'
  <2>1. engaging'[e].at = "write" /\ engaging'[e].x = x /\ engaging'[e].rest = engaging[e].rest \ {x}
    BY <1>3, <1>9 DEF Find
  <2>2. UNCHANGED <<row, stored>> BY <1>9 DEF Find, exchanges
  <2>3. ThreadsAreChains' /\ Roots' /\ (\A y \in Exchanges : row'[y].state \in {"scheduled", "sent"} => Last(y)')
    BY <2>2, ChainKept
  <2>4. row[x].state = "sent" BY <1>9 DEF Find, Unanswered
  <2>5. Unanswered' BY <1>1, <1>2, <2>1, <2>2, <2>3, <2>4 DEF Unanswered
  <2>. QED BY <2>3, <2>5
<1>10. ASSUME NEW counted \in BOOLEAN, WriteOutcome(e, counted) PROVE ChainInv'
  <2>1. PICK x \in Exchanges : x = engaging[e].x /\ row[x].state = "sent" BY <1>2, <1>10 DEF WriteOutcome, Unanswered
  <2>2. PICK s \in {"opened", "recovered_from_spam"} : row' = [row EXCEPT ![x].state = s]
    BY <1>10, <2>1 DEF WriteOutcome
  <2>3. x \notin engaging[e].rest BY <2>1 DEF Unanswered
  <2>4. \/ engaging'[e] = NextRow(e)
        \/ engaging'[e].at = "reply" /\ engaging'[e].x = x /\ engaging'[e].rest = engaging[e].rest
    <3>1. PICK r : r \in {NextRow(e), [NotEngaging EXCEPT !.at = "reply", !.rest = engaging[e].rest, !.x = x]}
                    /\ engaging' = [engaging EXCEPT ![e] = r]
      BY <1>10, <2>1 DEF WriteOutcome
    <3>2. engaging'[e] = r BY <1>3, <3>1
    <3>. QED BY <3>1, <3>2 DEF NotEngaging
  <2>5. engaging'[e].rest \subseteq engaging[e].rest \ {x} BY <1>4, <2>3, <2>4
  <2>6. engaging'[e].x \notin engaging'[e].rest BY <1>2, <1>4, <2>3, <2>4
  <2>7. engaging'[e].at = "idle" \/ engaging'[e].at = "each" \/
          (engaging'[e].at = "reply" /\ engaging'[e].x = x /\ s # "bounced" /\ row[x].state = "sent")
    BY <1>4, <2>1, <2>2, <2>4
  <2>8. UNCHANGED stored BY <1>10 DEF WriteOutcome
  <2>. QED BY <1>5, <2>2, <2>5, <2>6, <2>7, <2>8
<1>11. ASSUME NEW y \in Exchanges, Reply(e, y) PROVE ChainInv'
  <2>1. PICK x \in Exchanges : x = engaging[e].x /\ row[x].state \in {"opened", "recovered_from_spam"} /\ Last(x) /\ stored[x]
    BY <1>2, <1>11 DEF Reply, Unanswered, Held
  <2>2. y # x /\ row[y] = Unused /\ UNCHANGED stored BY <1>11, <2>1 DEF Reply, Create, Unused
  <2>3. row'[y].state = "scheduled" /\ row'[y].from = row[x].to /\ row'[y].to = row[x].from
        /\ row'[y].thread = row[x].thread /\ row'[y].depth = row[x].depth + 1
    BY <1>11, <2>1 DEF Reply, Create, RowTypes
  <2>4. \A z \in Exchanges : z # y => row'[z] = row[z] BY <1>11 DEF Reply, Create, RowTypes
  <2>5. row[x].thread # Nobody /\ row[x].thread \in Exchanges BY <2>1 DEF Roots, RowTypes
  <2>6. \A z \in Exchanges : row[z].depth \in Nat BY DEF RowTypes
  <2>7. \A z \in Exchanges : row[z].thread # y BY <2>2 DEF Roots, Unused
  <2>8. \A z \in Exchanges : z # y /\ row[z].thread = row[x].thread => row[z].depth <= row[x].depth BY <2>1, <2>5 DEF Last
  <2>9. ThreadsAreChains'
    <3>1. ASSUME NEW z \in Exchanges, z # y, row[z].thread = row[x].thread
          PROVE  /\ row'[z].depth # row'[y].depth /\ row'[z].depth # row'[y].depth + 1
                 /\ row'[y].depth = row'[z].depth + 1 => z = x
      <4>1. row[z].depth <= row[x].depth /\ row[z].depth \in Nat /\ row[x].depth \in Nat BY <2>6, <2>8, <3>1
      <4>2. row[z].depth = row[x].depth => z = x BY <2>5, <3>1 DEF ThreadsAreChains
      <4>. QED BY <2>3, <2>4, <3>1, <4>1, <4>2
    <3>2. row'[y].depth # row'[y].depth + 1 BY <2>3, <2>6
    <3>3. row'[x].from = row[x].from /\ row'[x].to = row[x].to BY <2>2, <2>4
    <3>4. ASSUME NEW z \in Exchanges, z # y, row'[z].thread # Nobody, row'[z].thread = row'[y].thread
          PROVE  /\ row'[z].depth # row'[y].depth /\ row'[z].depth # row'[y].depth + 1
                 /\ row'[y].depth = row'[z].depth + 1 => row'[y].from = row'[z].to /\ row'[y].to = row'[z].from
      BY <2>3, <2>4, <3>1, <3>3, <3>4
    <3>5. \A z, w \in Exchanges : z # y /\ w # y /\ row'[z].thread # Nobody /\ row'[z].thread = row'[w].thread =>
            /\ row'[z].depth = row'[w].depth => z = w
            /\ row'[w].depth = row'[z].depth + 1 => row'[w].from = row'[z].to /\ row'[w].to = row'[z].from
      BY <2>4 DEF ThreadsAreChains
    <3>. QED BY <3>2, <3>4, <3>5 DEF ThreadsAreChains
  <2>10. Roots'
    <3>1. \A z \in Exchanges : stored'[z] => row'[z].thread # Nobody BY <2>2, <2>3, <2>4, <2>5 DEF Roots
    <3>2. \A z \in Exchanges : row'[z].thread = Nobody => row'[z].depth = 0 BY <2>3, <2>4, <2>5 DEF Roots
    <3>3. ASSUME NEW z \in Exchanges, row'[z].thread # Nobody
          PROVE  row'[row'[z].thread].thread = row'[z].thread /\ row'[row'[z].thread].depth = 0
      <4>1. PICK w \in Exchanges : row'[z].thread = row[w].thread BY <2>3, <2>4
      <4>2. row[w].thread \in Exchanges /\ row[w].thread # y BY <2>7, <3>3, <4>1 DEF RowTypes
      <4>3. row[row[w].thread].thread = row[w].thread /\ row[row[w].thread].depth = 0 BY <3>3, <4>1 DEF Roots
      <4>. QED BY <2>4, <4>1, <4>2, <4>3
    <3>. QED BY <3>1, <3>2, <3>3 DEF Roots
  <2>11. Last(y)' BY <2>3, <2>4, <2>6, <2>8 DEF Last
  <2>12. \A z \in Exchanges : z # y /\ row[z].state \in {"scheduled", "sent"} => row[z].thread # row[x].thread
    <3>1. ASSUME NEW z \in Exchanges, row[z].state \in {"scheduled", "sent"}, row[z].thread = row[x].thread PROVE FALSE
      <4>1. row[x].depth <= row[z].depth /\ row[z].depth <= row[x].depth
        BY <2>1, <2>5, <3>1 DEF Last, Unanswered
      <4>2. row[x].depth = row[z].depth BY <2>6, <4>1
      <4>. QED BY <2>1, <2>5, <3>1, <4>2 DEF ThreadsAreChains
    <3>. QED BY <3>1
  <2>13. \A z \in Exchanges : row'[z].state \in {"scheduled", "sent"} => Last(z)'
    <3>1. ASSUME NEW z \in Exchanges, z # y, row'[z].state \in {"scheduled", "sent"} PROVE Last(z)'
      <4>1. row'[z] = row[z] /\ row[z].thread # row[x].thread /\ Last(z) BY <2>4, <2>12, <3>1 DEF Unanswered
      <4>. QED BY <2>3, <2>4, <4>1 DEF Last
    <3>. QED BY <2>11, <3>1
  <2>14. engaging'[e] = NextRow(e) BY <1>3, <1>11 DEF Reply
  <2>15. y \notin engaging[e].rest BY <2>2 DEF Unanswered, Unused
  <2>16. Unanswered' BY <1>1, <1>2, <1>4, <2>4, <2>13, <2>14, <2>15 DEF Unanswered
  <2>. QED BY <2>9, <2>10, <2>16
<1>12. CASE NoReply(e)
  BY <1>1, <1>3, <1>4, <1>12, ChainWorkers DEF NoReply, exchanges
<1>. QED BY <1>2, <1>6, <1>7, <1>8, <1>9, <1>10, <1>11, <1>12 DEF Engage

(* The last of a thread leaves first, the root last of all.                  *)
LEMMA ChainAges == ASSUME TypeInv, ChainInv, NEW x \in Exchanges, Ages(x) PROVE ChainInv'
<1>. USE ConstantTypes DEF TypeInv, TypeOK, ChainInv
<1>1. \A y \in Exchanges : row'[y] = IF y = x THEN Unused ELSE row[y] BY DEF Ages, RowTypes
<1>2. \A y \in Exchanges : stored'[y] => y # x /\ stored[y] BY DEF Ages, RowTypes
<1>3. UNCHANGED engaging BY DEF Ages, workers
<1>4. ThreadsAreChains' BY <1>1 DEF ThreadsAreChains, Unused
<1>5. \A y \in Exchanges : y # x => row[y].thread # x
  <2>1. ASSUME NEW y \in Exchanges, row[y].thread = x PROVE y = x
    <3>1. row[x].thread = x /\ row[x].depth = 0 BY <2>1 DEF Roots
    <3>2. row[y].depth <= row[x].depth /\ row[y].depth \in Nat BY <2>1, <3>1 DEF Ages, RowTypes
    <3>3. row[y].depth = row[x].depth BY <3>1, <3>2
    <3>. QED BY <2>1, <3>1, <3>3 DEF ThreadsAreChains
  <2>. QED BY <2>1
<1>6. Roots'
  <2>1. \A y \in Exchanges : stored'[y] => row'[y].thread # Nobody BY <1>1, <1>2 DEF Roots
  <2>2. \A y \in Exchanges : row'[y].thread = Nobody => row'[y].depth = 0 BY <1>1 DEF Roots, Unused
  <2>3. ASSUME NEW y \in Exchanges, row'[y].thread # Nobody
        PROVE  row'[row'[y].thread].thread = row'[y].thread /\ row'[row'[y].thread].depth = 0
    <3>1. y # x /\ row'[y] = row[y] BY <1>1, <2>3 DEF Unused
    <3>2. row[y].thread \in Exchanges /\ row[y].thread # x BY <1>5, <2>3, <3>1 DEF RowTypes
    <3>. QED BY <1>1, <2>3, <3>1, <3>2 DEF Roots
  <2>. QED BY <2>1, <2>2, <2>3 DEF Roots
<1>7. \A y \in Exchanges : y # x /\ Last(y) => Last(y)' BY <1>1 DEF Last, Unused
<1>8. \A e \in Engagers : engaging[e].rest \subseteq Exchanges \ {x}
                          /\ (engaging[e].at \in {"write", "reply"} => engaging[e].x \in Exchanges \ {x})
  BY DEF Ages, Busy, WorkerTypes, Held
<1>9. Unanswered' BY <1>1, <1>3, <1>7, <1>8 DEF Unanswered, Unused
<1>. QED BY <1>4, <1>6, <1>9

LEMMA ChainStep == ASSUME TypeInv, SentInv, ChainInv, OneEngager, [Next]_vars PROVE ChainInv'
<1>. USE ConstantTypes DEF TypeInv, TypeOK
<1>1. ASSUME UNCHANGED <<row, stored, engaging>> PROVE ChainInv' BY <1>1, ChainWorkers
<1>2. CASE Plan
  <2>1. ASSUME NEW m \in Mailboxes, NEW x \in Exchanges, PlanCreate(x, m) PROVE ChainInv'
    <3>1. \A y \in Exchanges : y # x => row'[y] = row[y] BY <2>1 DEF PlanCreate, Create, RowTypes
    <3>2. row[x] = Unused /\ row'[x].state = "scheduled" /\ row'[x].thread = Nobody /\ row'[x].depth = 0
      BY <2>1 DEF PlanCreate, Create, RowTypes
    <3>3. UNCHANGED <<stored, engaging>> BY <2>1 DEF PlanCreate, Create
    <3>4. ThreadsAreChains' BY <3>1, <3>2 DEF ChainInv, ThreadsAreChains
    <3>5. \A y \in Exchanges : row[y].thread # x BY <3>2 DEF ChainInv, Roots, Unused
    <3>6. ~stored[x] BY <3>2 DEF ChainInv, Roots, Unused
    <3>7. \A y \in Exchanges : row[y].thread # Nobody => row[y].thread \in Exchanges BY DEF RowTypes
    <3>8. Roots' BY <3>1, <3>2, <3>3, <3>5, <3>6, <3>7 DEF ChainInv, Roots
    <3>9. \A y \in Exchanges : (y = x \/ Last(y)) => Last(y)' BY <3>1, <3>2 DEF Last
    <3>10. \A e \in Engagers : engaging[e].rest \subseteq Exchanges \ {x}
                               /\ (engaging[e].at \in {"write", "reply"} => engaging[e].x \in Exchanges \ {x})
      BY <3>2 DEF Held, WorkerTypes, Unused
    <3>11. Unanswered' BY <3>1, <3>2, <3>3, <3>9, <3>10 DEF ChainInv, Unanswered
    <3>. QED BY <3>4, <3>8, <3>11 DEF ChainInv
  <2>. QED BY <1>1, <1>2, <2>1 DEF Plan, PlanExhausted, PlanCount, exchanges
<1>3. ASSUME NEW d \in Dispatchers, Dispatch(d) \/ (\E x \in Exchanges : Claim(d, x)) PROVE ChainInv'
  BY <1>3, ChainDispatch
<1>4. ASSUME NEW e \in Engagers, EngageTick(e) \/ Engage(e) PROVE ChainInv' BY <1>4, ChainEngage
<1>5. ASSUME NEW i \in Rampers, RampTick(i) \/ (\E m \in Mailboxes : Ramp(i, m)) PROVE ChainInv'
  BY <1>1, <1>5 DEF RampTick, Ramp, RampSkip, RampWrite, exchanges
<1>6. ASSUME NEW m \in Mailboxes, Customer(m) PROVE ChainInv'
  BY <1>1, <1>6 DEF Customer, Enroll, SetEnabled, SetOrgConsent, UpdateConfig, exchanges, workers
<1>7. CASE Midnight BY <1>1, <1>7 DEF Midnight
<1>8. ASSUME NEW x \in Exchanges, FreshnessPasses(x) PROVE ChainInv' BY <1>1, <1>8 DEF FreshnessPasses, workers
<1>9. ASSUME NEW x \in Exchanges, Ages(x) PROVE ChainInv' BY <1>9, ChainAges
<1>10. ASSUME NEW d \in Dispatchers, DispatchFails(d) PROVE ChainInv' BY <1>1, <1>10 DEF DispatchFails, exchanges
<1>11. ASSUME NEW e \in Engagers, EngageFails(e) PROVE ChainInv'
  <2>1. engaging' = [engaging EXCEPT ![e] = NextRow(e)] /\ UNCHANGED <<row, stored>>
    BY <1>11 DEF EngageFails, exchanges
  <2>2. NextRow(e).at \in {"idle", "each"} /\ NextRow(e).rest \subseteq engaging[e].rest /\ NextRow(e).x = Nobody
    BY DEF NextRow, NotEngaging
  <2>3. \A f \in Engagers : engaging'[f] = IF f = e THEN NextRow(e) ELSE engaging[f] BY <2>1 DEF WorkerTypes
  <2>. QED BY <2>1, <2>2, <2>3, ChainWorkers
<1>12. CASE Restart
  <2>1. \A e \in Engagers : engaging'[e] = NotEngaging BY <1>12 DEF Restart
  <2>2. UNCHANGED <<row, stored>> BY <1>12 DEF Restart, exchanges
  <2>. QED BY <2>1, <2>2, ChainWorkers DEF NotEngaging
<1>13. CASE UNCHANGED vars BY <1>1, <1>13 DEF vars, exchanges, workers
<1>. QED BY <1>2, <1>3, <1>4, <1>5, <1>6, <1>7, <1>8, <1>9, <1>10, <1>11, <1>12, <1>13 DEF Next

(* With one recipient worker, no message is answered twice and every thread  *)
(* alternates between its two mailboxes, crashes between the outcome and the *)
(* reply included.                                                           *)
THEOREM ThreadsStayChains == OneEngager /\ Spec => []ThreadsAreChains
<1>1. Init => TypeInv /\ SentInv /\ ChainInv BY InitTypes, SentInit, ChainInit
<1>2. OneEngager /\ TypeInv /\ SentInv /\ ChainInv /\ [Next]_vars => (TypeInv /\ SentInv /\ ChainInv)'
  BY StepTypes, SentStep, ChainStep
<1>3. TypeInv /\ SentInv /\ ChainInv => ThreadsAreChains BY DEF ChainInv
<1>4. CASE OneEngager
  <2>1. TypeInv /\ SentInv /\ ChainInv /\ [Next]_vars => (TypeInv /\ SentInv /\ ChainInv)' BY <1>2, <1>4
  <2>. QED BY <1>1, <1>3, <2>1, PTL DEF Spec
<1>5. CASE ~OneEngager BY <1>5
<1>. QED BY <1>4, <1>5

(* ---- The ramp ------------------------------------------------------------ *)

(* Two ramp workers in the same minute would both find yesterday's date.     *)
OneRamper == \A i, j \in Rampers : i = j

(* A ramp that has advanced today is known to have: to the row, and to the   *)
(* tick under way if the membership is still to come.                        *)
RampInv ==
  /\ \A m \in Mailboxes : advanced[m] => touched[m] /\ member[m].joined
  /\ \A i \in Rampers : \A m \in ramping[i].todo : member[m].joined /\ (advanced[m] => ramping[i].fresh[m])

LEMMA RampInit == Init => RampInv
BY DEF Init, RampInv, NotRamping

LEMMA RampStep == ASSUME TypeInv, RampInv, OneRamper, [Next]_vars PROVE RampInv'
<1>. USE ConstantTypes DEF TypeInv, TypeOK
<1>1. ASSUME UNCHANGED <<advanced, ramping>>,
             \A m \in Mailboxes : (touched[m] => touched'[m]) /\ (member[m].joined => member'[m].joined)
      PROVE  RampInv'
  BY <1>1 DEF RampInv, WorkerTypes
<1>2. ASSUME NEW i \in Rampers, NEW m \in Mailboxes, RampDone(i, m), m \in ramping[i].todo
      PROVE  \A n \in ramping'[i].todo : n # m /\ n \in ramping[i].todo /\ (ramping'[i].fresh[n] <=> ramping[i].fresh[n])
  <2>1. ramping[i].todo \subseteq Mailboxes /\ ramping[i].fresh \in [Mailboxes -> BOOLEAN] BY DEF WorkerTypes
  <2>2. CASE ramping[i].todo = {m} BY <1>2, <2>2 DEF RampDone, NotRamping, WorkerTypes
  <2>3. CASE ramping[i].todo # {m}
    <3>1. ramping'[i].todo = ramping[i].todo \ {m} /\ ramping'[i].fresh = [ramping[i].fresh EXCEPT ![m] = FALSE]
      BY <1>2, <2>3 DEF RampDone, WorkerTypes
    <3>. QED BY <2>1, <3>1
  <2>. QED BY <2>2, <2>3
<1>3. CASE Plan
  BY <1>1, <1>3 DEF Plan, PlanExhausted, PlanCount, PlanCreate, memberships
<1>4. ASSUME NEW d \in Dispatchers, Dispatch(d) \/ (\E x \in Exchanges : Claim(d, x)) PROVE RampInv'
  <2>1. ASSUME NEW counted \in BOOLEAN, Record(d, counted) PROVE RampInv'
    <3>1. \A m \in Mailboxes : touched[m] => touched'[m] BY <2>1, Zenon DEF Record, MemberTypes
    <3>. QED BY <1>1, <2>1, <3>1 DEF Record
  <2>. QED BY <1>1, <1>4, <2>1 DEF Dispatch, Transmit, Refuse, Claim, memberships
<1>5. ASSUME NEW e \in Engagers, EngageTick(e) \/ Engage(e) PROVE RampInv'
  <2>1. ASSUME NEW counted \in BOOLEAN, WriteOutcome(e, counted) PROVE RampInv'
    <3>1. \A m \in Mailboxes : touched[m] => touched'[m] BY <2>1, Zenon DEF WriteOutcome, MemberTypes
    <3>. QED BY <1>1, <2>1, <3>1 DEF WriteOutcome
  <2>. QED BY <1>1, <1>5, <2>1 DEF EngageTick, Engage, WriteOff, Miss, Find, Reply, NoReply, memberships
<1>6. ASSUME NEW i \in Rampers, RampTick(i) \/ (\E m \in Mailboxes : Ramp(i, m)) PROVE RampInv'
  <2>1. \A j \in Rampers : j = i BY DEF OneRamper
  <2>2. CASE RampTick(i)
    <3>1. ramping'[i].todo = {m \in Mailboxes : member[m].joined} /\ ramping'[i].fresh = touched
      BY <2>2 DEF RampTick, WorkerTypes
    <3>. QED BY <2>1, <2>2, <3>1 DEF RampTick, RampInv, memberships
  <2>3. ASSUME NEW m \in Mailboxes, RampSkip(i, m) PROVE RampInv'
    <3>1. \A n \in ramping'[i].todo : n \in ramping[i].todo /\ (ramping'[i].fresh[n] <=> ramping[i].fresh[n])
      BY <1>2, <2>3 DEF RampSkip
    <3>. QED BY <2>1, <2>3, <3>1 DEF RampSkip, RampInv, memberships
  <2>4. ASSUME NEW m \in Mailboxes, RampWrite(i, m) PROVE RampInv'
    <3>1. \A n \in ramping'[i].todo : n # m /\ n \in ramping[i].todo /\ (ramping'[i].fresh[n] <=> ramping[i].fresh[n])
      BY <1>2, <2>4 DEF RampWrite
    <3>2. \A n \in Mailboxes : n # m => member'[n] = member[n] /\ advanced'[n] = advanced[n] /\ touched'[n] = touched[n]
      BY <2>4 DEF RampWrite, MemberTypes
    <3>3. touched'[m] /\ member'[m].joined = member[m].joined BY <2>4 DEF RampWrite, MemberTypes, Membership
    <3>4. member[m].joined BY <2>4 DEF RampWrite, RampInv
    <3>5. ramping[i].todo \subseteq Mailboxes BY DEF WorkerTypes
    <3>. QED BY <2>1, <3>1, <3>2, <3>3, <3>4, <3>5 DEF RampInv
  <2>. QED BY <1>6, <2>2, <2>3, <2>4 DEF Ramp
<1>7. ASSUME NEW m \in Mailboxes, Customer(m) PROVE RampInv'
  <2>1. CASE Enroll(m)
    <3>1. PICK days \in RampChoices : member' = [member EXCEPT ![m] =
            [joined |-> TRUE, enabled |-> TRUE, health |-> "warming", step |-> 0, daily |-> StartDaily, days |-> days]]
      BY <2>1 DEF Enroll
    <3>2. \A n \in Mailboxes : member[n].joined => member'[n].joined BY <3>1 DEF MemberTypes
    <3>3. \A n \in Mailboxes : touched[n] => touched'[n] BY <2>1 DEF Enroll, MemberTypes
    <3>. QED BY <1>1, <2>1, <3>2, <3>3 DEF Enroll, workers
  <2>2. ASSUME NEW on \in BOOLEAN, SetEnabled(m, on) PROVE RampInv'
    <3>1. \A n \in Mailboxes : member'[n].joined = member[n].joined BY <2>2 DEF SetEnabled, MemberTypes, Membership
    <3>2. \A n \in Mailboxes : touched[n] => touched'[n] BY <2>2 DEF SetEnabled, MemberTypes
    <3>. QED BY <1>1, <2>2, <3>1, <3>2 DEF SetEnabled, workers
  <2>3. ASSUME NEW on \in BOOLEAN, SetOrgConsent(m, on) PROVE RampInv' BY <1>1, <2>3 DEF SetOrgConsent, workers
  <2>4. ASSUME NEW days \in RampChoices, UpdateConfig(m, days) PROVE RampInv'
    <3>1. \A n \in Mailboxes : member'[n].joined = member[n].joined BY <2>4 DEF UpdateConfig, MemberTypes, Membership
    <3>2. \A n \in Mailboxes : touched[n] => touched'[n] BY <2>4 DEF UpdateConfig, MemberTypes
    <3>. QED BY <1>1, <2>4, <3>1, <3>2 DEF UpdateConfig, workers
  <2>. QED BY <1>7, <2>1, <2>2, <2>3, <2>4 DEF Customer
<1>8. CASE Midnight
  <2>1. \A i \in Rampers : ramping'[i].todo = ramping[i].todo
    <3>1. ASSUME NEW i \in Rampers PROVE ramping'[i].todo = ramping[i].todo
      <4>. DEFINE none == [m \in Mailboxes |-> FALSE]
      <4>1. ramping'[i] = [ramping[i] EXCEPT !.fresh = none] BY <1>8 DEF Midnight
      <4>2. ramping[i] \in [todo : SUBSET Mailboxes, read : [Mailboxes -> Membership], fresh : [Mailboxes -> BOOLEAN]]
        BY DEF WorkerTypes
      <4>. HIDE DEF none
      <4>. QED BY <4>1, <4>2
    <3>. QED BY <3>1
  <2>. QED BY <1>8, <2>1 DEF Midnight, RampInv, WorkerTypes
<1>9. ASSUME NEW x \in Exchanges, FreshnessPasses(x) \/ Ages(x) PROVE RampInv'
  BY <1>1, <1>9 DEF FreshnessPasses, Ages, workers, memberships
<1>10. ASSUME NEW d \in Dispatchers, DispatchFails(d) PROVE RampInv' BY <1>1, <1>10 DEF DispatchFails, memberships
<1>11. ASSUME NEW e \in Engagers, EngageFails(e) PROVE RampInv' BY <1>1, <1>11 DEF EngageFails, memberships
<1>12. CASE Restart
  BY <1>12 DEF Restart, RampInv, NotRamping, memberships
<1>13. CASE UNCHANGED vars BY <1>1, <1>13 DEF vars, workers, memberships
<1>. QED BY <1>3, <1>4, <1>5, <1>6, <1>7, <1>8, <1>9, <1>10, <1>11, <1>12, <1>13 DEF Next

LEMMA RampAdvances ==
  ASSUME TypeInv, RampInv, [Next]_vars
  PROVE  [\A m \in Mailboxes : advanced[m] /\ advanced'[m] => member'[m].step = member[m].step]_vars
<1>. USE ConstantTypes DEF TypeInv, TypeOK
<1>1. CASE UNCHANGED member BY <1>1
<1>2. ASSUME NEW i \in Rampers, NEW m \in Mailboxes, RampWrite(i, m)
      PROVE  \A n \in Mailboxes : advanced[n] /\ advanced'[n] => member'[n].step = member[n].step
  <2>1. ~advanced[m] BY <1>2 DEF RampWrite, RampedToday, RampInv
  <2>2. \A n \in Mailboxes : n # m => member'[n] = member[n] BY <1>2 DEF RampWrite, MemberTypes
  <2>. QED BY <2>1, <2>2
<1>3. ASSUME NEW m \in Mailboxes, Customer(m)
      PROVE  \A n \in Mailboxes : advanced[n] => member'[n].step = member[n].step
  <2>1. CASE Enroll(m)
    <3>1. ~advanced[m] BY <2>1 DEF Enroll, RampInv
    <3>2. \A n \in Mailboxes : n # m => member'[n] = member[n] BY <2>1 DEF Enroll, MemberTypes
    <3>. QED BY <3>1, <3>2
  <2>2. ASSUME NEW on \in BOOLEAN, SetEnabled(m, on)
        PROVE  \A n \in Mailboxes : member'[n].step = member[n].step
    BY <2>2 DEF SetEnabled, MemberTypes, Membership
  <2>3. ASSUME NEW on \in BOOLEAN, SetOrgConsent(m, on) PROVE UNCHANGED member BY <2>3 DEF SetOrgConsent
  <2>4. ASSUME NEW days \in RampChoices, UpdateConfig(m, days)
        PROVE  \A n \in Mailboxes : member'[n].step = member[n].step
    BY <2>4 DEF UpdateConfig, MemberTypes, Membership
  <2>. QED BY <1>3, <2>1, <2>2, <2>3, <2>4 DEF Customer
<1>4. \/ UNCHANGED member
      \/ \E i \in Rampers : \E m \in Mailboxes : RampWrite(i, m)
      \/ \E m \in Mailboxes : Customer(m)
  <2>1. CASE Plan BY <2>1 DEF Plan, PlanExhausted, PlanCount, PlanCreate, memberships
  <2>2. CASE \E d \in Dispatchers : Dispatch(d) \/ (\E x \in Exchanges : Claim(d, x))
    BY <2>2 DEF Dispatch, Transmit, Refuse, Record, Claim, memberships
  <2>3. ASSUME NEW e \in Engagers, EngageTick(e) \/ Engage(e) PROVE UNCHANGED member
    <3>1. CASE EngageTick(e) BY <3>1 DEF EngageTick, memberships
    <3>2. CASE Engage(e)
      <4>1. CASE \E x \in engaging[e].rest : WriteOff(e, x) \/ Miss(e, x) \/ (\E moved \in BOOLEAN : Find(e, x, moved))
        BY <4>1 DEF WriteOff, Miss, Find, memberships
      <4>2. CASE (\E counted \in BOOLEAN : WriteOutcome(e, counted)) \/ (\E y \in Exchanges : Reply(e, y)) \/ NoReply(e)
        BY <4>2 DEF WriteOutcome, Reply, NoReply, memberships
      <4>. QED BY <3>2, <4>1, <4>2 DEF Engage
    <3>. QED BY <2>3, <3>1, <3>2
  <2>4. CASE \E i \in Rampers : RampTick(i) \/ (\E m \in Mailboxes : Ramp(i, m))
    BY <2>4 DEF RampTick, Ramp, RampSkip, memberships
  <2>5. CASE Midnight \/ (\E x \in Exchanges : FreshnessPasses(x) \/ Ages(x))
    BY <2>5 DEF Midnight, FreshnessPasses, Ages, memberships
  <2>6. CASE (\E d \in Dispatchers : DispatchFails(d)) \/ (\E e \in Engagers : EngageFails(e)) \/ Restart
    BY <2>6 DEF DispatchFails, EngageFails, Restart, memberships
  <2>7. CASE UNCHANGED vars BY <2>7 DEF vars, memberships
  <2>. QED BY <2>1, <2>2, <2>3, <2>4, <2>5, <2>6, <2>7 DEF Next
<1>. QED BY <1>1, <1>2, <1>3, <1>4

(* With one ramp worker, a membership's ramp advances at most once a day,    *)
(* restarts and ticks that run across midnight included.                     *)
THEOREM RampsOncePerDay == OneRamper /\ Spec => RampOncePerDay
<1>1. Init => TypeInv /\ RampInv BY InitTypes, RampInit
<1>2. OneRamper /\ TypeInv /\ RampInv /\ [Next]_vars => (TypeInv /\ RampInv)' BY StepTypes, RampStep
<1>3. TypeInv /\ RampInv /\ [Next]_vars =>
        [\A m \in Mailboxes : advanced[m] /\ advanced'[m] => member'[m].step = member[m].step]_vars
  BY RampAdvances
<1>4. CASE OneRamper
  <2>1. TypeInv /\ RampInv /\ [Next]_vars => (TypeInv /\ RampInv)' BY <1>2, <1>4
  <2>. QED BY <1>1, <1>3, <2>1, PTL DEF Spec, RampOncePerDay
<1>5. CASE ~OneRamper BY <1>5
<1>. QED BY <1>4, <1>5


(* ---- Conversations ------------------------------------------------------- *)

(* What a message id and a worker past SMTP stand for, and whom a row is     *)
(* between: the recipient worker only ever reads letters that are out.       *)
Posted ==
  /\ \A x \in Exchanges : stored[x] => copies[x] = 1
  /\ \A d \in Dispatchers : sending[d].at = "record" => copies[sending[d].x] = 1
Addressed ==
  \A x \in Exchanges : row[x].state # "free" =>
    row[x].from \in Mailboxes /\ row[x].to \in Mailboxes /\ row[x].from # row[x].to
PostInv == Posted /\ Addressed

LEMMA PostInit == Init => PostInv
BY ConstantTypes DEF Init, PostInv, Posted, Addressed, Unused, NotSending

(* A step that posts nothing, records nothing and creates no row.            *)
LEMMA PostKept ==
  ASSUME PostInv,
         \A x \in Exchanges : row'[x].state # "free" =>
           row[x].state # "free" /\ row'[x].from = row[x].from /\ row'[x].to = row[x].to,
         \A x \in Exchanges : stored'[x] => stored[x] /\ copies'[x] = copies[x],
         \A d \in Dispatchers : sending'[d].at = "record" =>
           sending'[d] = sending[d] /\ copies'[sending[d].x] = copies[sending[d].x]
  PROVE  PostInv'
BY DEF PostInv, Posted, Addressed

LEMMA PostState ==
  ASSUME TypeInv, PostInv, NEW x \in Exchanges, NEW s, s # "free", row[x].state # "free",
         row' = [row EXCEPT ![x].state = s], UNCHANGED <<stored, copies, sending>>
  PROVE  PostInv'
<1>1. \A y \in Exchanges : row'[y].from = row[y].from /\ row'[y].to = row[y].to
                           /\ row'[y].state = IF y = x THEN s ELSE row[y].state
  BY DEF TypeInv, TypeOK, RowTypes
<1>. QED BY <1>1, PostKept

LEMMA PostCreate ==
  ASSUME TypeInv, SentInv, PostInv, NEW x \in Exchanges, NEW a \in Mailboxes, NEW b \in Mailboxes, a # b,
         NEW t, NEW k, Create(x, [state |-> "scheduled", from |-> a, to |-> b, thread |-> t, depth |-> k]),
         UNCHANGED <<copies, sending>>
  PROVE  PostInv'
<1>1. UNCHANGED stored BY DEF Create
<1>2. \A y \in Exchanges : y # x => row'[y] = row[y] BY DEF Create, TypeInv, TypeOK, RowTypes
<1>3. row'[x].from = a /\ row'[x].to = b BY DEF Create, TypeInv, TypeOK, RowTypes
<1>. QED BY <1>1, <1>2, <1>3 DEF PostInv, Posted, Addressed

LEMMA PostDispatch ==
  ASSUME TypeInv, SentInv, PostInv, NEW d \in Dispatchers, Dispatch(d) \/ (\E x \in Exchanges : Claim(d, x))
  PROVE  PostInv'
<1>. USE ConstantTypes DEF TypeInv, TypeOK
<1>1. ASSUME NEW x \in Exchanges, Claim(d, x) PROVE PostInv'
  <2>1. \A y \in Exchanges : row'[y].state # "free" =>
          row[y].state # "free" /\ row'[y].from = row[y].from /\ row'[y].to = row[y].to
    BY <1>1 DEF Claim, Claimable, RowTypes
  <2>2. \A c \in Dispatchers : sending'[c] = IF c = d THEN [at |-> "send", x |-> x] ELSE sending[c]
    BY <1>1 DEF Claim, WorkerTypes
  <2>3. UNCHANGED <<stored, copies>> BY <1>1 DEF Claim, mail
  <2>. QED BY <2>1, <2>2, <2>3, PostKept
<1>2. ASSUME sending[d].at # "idle"
      PROVE  /\ sending[d].x \in Exchanges /\ row[sending[d].x].state = "sent" /\ ~stored[sending[d].x]
             /\ \A c \in Dispatchers : c # d => sending[c].x # sending[d].x
  BY <1>2 DEF Held, SentInv, HeldAlone
<1>3. ASSUME Fail(d), sending[d].at # "idle", UNCHANGED stored,
             \A y \in Exchanges : y # sending[d].x => copies'[y] = copies[y]
      PROVE  PostInv'
  <2>1. \A y \in Exchanges : row'[y].state # "free" =>
          row[y].state # "free" /\ row'[y].from = row[y].from /\ row'[y].to = row[y].to
    BY <1>2, <1>3 DEF Fail, RowTypes
  <2>2. \A c \in Dispatchers : sending'[c] = IF c = d THEN NotSending ELSE sending[c]
    BY <1>3 DEF Fail, WorkerTypes
  <2>3. \A c \in Dispatchers : sending[c].at = "record" => sending[c].x \in Exchanges BY DEF Held
  <2>4. \A y \in Exchanges : stored'[y] => stored[y] /\ copies'[y] = copies[y] BY <1>2, <1>3
  <2>. QED BY <1>2, <1>3, <2>1, <2>2, <2>3, <2>4, PostKept DEF NotSending
<1>4. CASE Refuse(d) BY <1>3, <1>4 DEF Refuse, mail
<1>5. ASSUME NEW where \in Folders, NEW answered \in BOOLEAN, Transmit(d, where, answered) PROVE PostInv'
  <2>1. sending[d].at # "idle" /\ copies[sending[d].x] = 0 /\ UNCHANGED stored
    BY <1>5 DEF Transmit, SentInv, HeldAlone
  <2>2. \A y \in Exchanges : copies'[y] = IF y = sending[d].x THEN 1 ELSE copies[y]
    BY <1>2, <1>5, <2>1 DEF Transmit, RowTypes
  <2>3. CASE ~answered BY <1>3, <1>5, <2>1, <2>2, <2>3 DEF Transmit
  <2>4. CASE answered
    <3>1. UNCHANGED row BY <1>5, <2>4 DEF Transmit
    <3>2. \A c \in Dispatchers : sending'[c].x = sending[c].x /\ (c # d => sending'[c] = sending[c])
      BY <1>5, <2>4 DEF Transmit, WorkerTypes
    <3>3. \A c \in Dispatchers : sending[c].at = "record" => sending[c].x \in Exchanges BY DEF Held
    <3>4. Posted' BY <1>2, <2>1, <2>2, <3>2, <3>3 DEF PostInv, Posted
    <3>. QED BY <3>1, <3>4 DEF PostInv, Addressed
  <2>. QED BY <2>3, <2>4
<1>6. ASSUME NEW counted \in BOOLEAN, Record(d, counted) PROVE PostInv'
  <2>1. sending[d].at # "idle" /\ copies[sending[d].x] = 1 /\ UNCHANGED copies
    BY <1>6 DEF Record, PostInv, Posted, mail
  <2>2. \A y \in Exchanges : row'[y].from = row[y].from /\ row'[y].to = row[y].to /\ row'[y].state = row[y].state
    BY <1>2, <1>6, <2>1 DEF Record, RowTypes
  <2>3. \A y \in Exchanges : stored'[y] => y = sending[d].x \/ stored[y] BY <1>6 DEF Record, RowTypes
  <2>4. \A c \in Dispatchers : sending'[c] \in {NotSending, sending[c]} BY <1>6 DEF Record, WorkerTypes
  <2>5. Posted' BY <2>1, <2>3, <2>4 DEF PostInv, Posted, NotSending
  <2>. QED BY <2>2, <2>5 DEF PostInv, Addressed
<1>. QED BY <1>1, <1>4, <1>5, <1>6 DEF Dispatch

LEMMA PostStep == ASSUME TypeInv, SentInv, PostInv, [Next]_vars PROVE PostInv'
<1>. USE ConstantTypes DEF TypeInv, TypeOK
<1>1. ASSUME UNCHANGED <<row, stored, copies>>, \A d \in Dispatchers : sending'[d] \in {sending[d], NotSending}
      PROVE  PostInv'
  BY <1>1, PostKept DEF NotSending
<1>2. CASE Plan
  <2>1. ASSUME NEW m \in Mailboxes, NEW x \in Exchanges, PlanCreate(x, m) PROVE PostInv'
    <3>1. planning.m \in Mailboxes /\ planning.m # m BY <2>1 DEF PlanCreate, Eligible, WorkerTypes
    <3>. QED BY <2>1, <3>1, PostCreate DEF PlanCreate, mail
  <2>. QED BY <1>1, <1>2, <2>1 DEF Plan, PlanExhausted, PlanCount, exchanges, mail
<1>3. ASSUME NEW d \in Dispatchers, Dispatch(d) \/ (\E x \in Exchanges : Claim(d, x)) PROVE PostInv'
  BY <1>3, PostDispatch
<1>4. ASSUME NEW e \in Engagers, EngageTick(e) \/ Engage(e) PROVE PostInv'
  <2>1. CASE EngageTick(e) BY <1>1, <2>1 DEF EngageTick, exchanges, mail
  <2>2. ASSUME NEW x \in Exchanges, Miss(e, x) PROVE PostInv' BY <1>1, <2>2 DEF Miss, exchanges, mail
  <2>3. ASSUME NEW x \in Exchanges, NEW moved \in BOOLEAN, Find(e, x, moved) PROVE PostInv'
    BY <1>1, <2>3 DEF Find, exchanges
  <2>4. ASSUME NEW x \in Exchanges, WriteOff(e, x) PROVE PostInv'
    BY <2>4, PostState DEF WriteOff, mail, Held
  <2>5. ASSUME NEW counted \in BOOLEAN, WriteOutcome(e, counted) PROVE PostInv'
    <3>1. engaging[e].x \in Exchanges /\ row[engaging[e].x].state # "free" BY <2>5 DEF WriteOutcome, Held
    <3>2. PICK s \in {"opened", "recovered_from_spam"} : row' = [row EXCEPT ![engaging[e].x].state = s]
      BY <2>5 DEF WriteOutcome
    <3>. QED BY <2>5, <3>1, <3>2, PostState DEF WriteOutcome, mail
  <2>6. ASSUME NEW y \in Exchanges, Reply(e, y) PROVE PostInv'
    <3>1. PICK x \in Exchanges : x = engaging[e].x /\ row[x].state # "free" BY <2>6 DEF Reply, Held
    <3>2. row[x].from \in Mailboxes /\ row[x].to \in Mailboxes /\ row[x].from # row[x].to
      BY <3>1 DEF PostInv, Addressed
    <3>. QED BY <2>6, <3>1, <3>2, PostCreate DEF Reply, mail
  <2>7. CASE NoReply(e) BY <1>1, <2>7 DEF NoReply, exchanges, mail
  <2>8. engaging[e].rest \subseteq Exchanges BY DEF WorkerTypes
  <2>. QED BY <1>4, <2>1, <2>2, <2>3, <2>4, <2>5, <2>6, <2>7, <2>8 DEF Engage
<1>5. ASSUME NEW i \in Rampers, RampTick(i) \/ (\E m \in Mailboxes : Ramp(i, m)) PROVE PostInv'
  BY <1>1, <1>5 DEF RampTick, Ramp, RampSkip, RampWrite, exchanges, mail
<1>6. ASSUME NEW m \in Mailboxes, Customer(m) PROVE PostInv'
  BY <1>1, <1>6 DEF Customer, Enroll, SetEnabled, SetOrgConsent, UpdateConfig, exchanges, mail, workers
<1>7. CASE Midnight BY <1>1, <1>7 DEF Midnight, mail
<1>8. ASSUME NEW x \in Exchanges, FreshnessPasses(x) PROVE PostInv' BY <1>1, <1>8 DEF FreshnessPasses, mail, workers
<1>9. ASSUME NEW x \in Exchanges, Ages(x) PROVE PostInv'
  <2>1. \A y \in Exchanges : y # x => row'[y] = row[y] /\ stored'[y] = stored[y] /\ copies'[y] = copies[y]
    BY <1>9 DEF Ages, RowTypes
  <2>2. ~stored'[x] /\ row'[x].state = "free" BY <1>9 DEF Ages, Unused, RowTypes
  <2>3. \A d \in Dispatchers : sending[d].x # x BY <1>9 DEF Ages, Busy
  <2>4. \A d \in Dispatchers : sending[d].at = "record" => sending[d].x \in Exchanges BY DEF Held
  <2>5. UNCHANGED sending BY <1>9 DEF Ages, workers
  <2>. QED BY <2>1, <2>2, <2>3, <2>4, <2>5, PostKept
<1>10. ASSUME NEW d \in Dispatchers, DispatchFails(d) PROVE PostInv'
  <2>1. \A c \in Dispatchers : sending'[c] \in {sending[c], NotSending} BY <1>10 DEF DispatchFails, WorkerTypes
  <2>. QED BY <1>1, <1>10, <2>1 DEF DispatchFails, exchanges, mail
<1>11. ASSUME NEW e \in Engagers, EngageFails(e) PROVE PostInv' BY <1>1, <1>11 DEF EngageFails, exchanges, mail
<1>12. CASE Restart
  <2>1. \A c \in Dispatchers : sending'[c] \in {sending[c], NotSending} BY <1>12 DEF Restart
  <2>. QED BY <1>1, <1>12, <2>1 DEF Restart, exchanges, mail
<1>13. CASE UNCHANGED vars BY <1>1, <1>13 DEF vars, exchanges, mail, workers
<1>. QED BY <1>2, <1>3, <1>4, <1>5, <1>6, <1>7, <1>8, <1>9, <1>10, <1>11, <1>12, <1>13 DEF Next


LEMMA BeginsBlank == Init => Conversation!Init
BY ConstantTypes DEF Init, Unused, Conversation!Init, Conversation!Blank, Letter, Stage, Replied

LEMMA NobodySees ==
  ASSUME \A x \in Exchanges : Letter(x)' = Letter(x),
         \A x, y \in Exchanges : Replied(y, x)' <=> Replied(y, x)
  PROVE  UNCHANGED Conversation!vars
<1>1. [x \in Exchanges |-> Letter(x)]' = [x \in Exchanges |-> Letter(x)] OBVIOUS
<1>2. {p \in Exchanges \X Exchanges : Replied(p[1], p[2])}' = {p \in Exchanges \X Exchanges : Replied(p[1], p[2])}
  OBVIOUS
<1>. QED BY <1>1, <1>2 DEF Conversation!vars

(* A step that changes the state of one row, or the copies of its message.   *)
LEMMA OneRow ==
  ASSUME TypeInv, NEW x \in Exchanges,
         \A y \in Exchanges : y # x => row'[y] = row[y] /\ copies'[y] = copies[y],
         row'[x].from = row[x].from, row'[x].to = row[x].to,
         row'[x].thread = row[x].thread, row'[x].depth = row[x].depth
  PROVE  /\ Stage(x)' = Stage(x) => UNCHANGED Conversation!vars
         /\ Stage(x) = "planned" /\ Stage(x)' = "out" => Conversation!Post(x)
         /\ Stage(x) = "planned" /\ Stage(x)' = "dropped" => Conversation!Drop(x)
         /\ Stage(x) = "out" /\ Stage(x)' = "read" => Conversation!Read(x)
<1>1. \A y \in Exchanges : y # x => Letter(y)' = Letter(y) BY DEF Letter, Stage
<1>2. \A y, z \in Exchanges : Replied(z, y)' <=> Replied(z, y)
  <2>1. \A y \in Exchanges : row'[y].thread = row[y].thread /\ row'[y].depth = row[y].depth OBVIOUS
  <2>. QED BY <2>1 DEF Replied
<1>3. Letter(x)' = [Letter(x) EXCEPT !.stage = Stage(x)'] BY DEF Letter
<1>4. Stage(x)' = Stage(x) => UNCHANGED Conversation!vars
  <2>1. ASSUME Stage(x)' = Stage(x) PROVE \A y \in Exchanges : Letter(y)' = Letter(y) BY <1>1, <2>1 DEF Letter
  <2>. QED BY <1>2, <2>1, NobodySees
<1>5. ASSUME NEW old, NEW new, Stage(x) = old, Stage(x)' = new PROVE Conversation!Moves(x, old, new)
  <2>1. [y \in Exchanges |-> Letter(y)]' = [[y \in Exchanges |-> Letter(y)] EXCEPT ![x].stage = new]
    BY <1>1, <1>3, <1>5
  <2>2. {p \in Exchanges \X Exchanges : Replied(p[1], p[2])}' = {p \in Exchanges \X Exchanges : Replied(p[1], p[2])}
    BY <1>2
  <2>3. [y \in Exchanges |-> Letter(y)][x].stage = old BY <1>5 DEF Letter
  <2>. QED BY <2>1, <2>2, <2>3 DEF Conversation!Moves
<1>. QED BY <1>4, <1>5 DEF Conversation!Post, Conversation!Drop, Conversation!Read

LEMMA PlansLetter ==
  ASSUME TypeInv, SentInv, ChainInv, NEW x \in Exchanges, NEW a \in Mailboxes, NEW b \in Mailboxes, a # b,
         Create(x, [state |-> "scheduled", from |-> a, to |-> b, thread |-> Nobody, depth |-> 0]), UNCHANGED copies
  PROVE  Conversation!Begin(x)
<1>. USE ConstantTypes DEF TypeInv, TypeOK
<1>1. \A y \in Exchanges : y # x => row'[y] = row[y] BY DEF Create, RowTypes
<1>2. row[x] = Unused /\ copies[x] = 0 BY DEF Create, Unused, SentInv, Untouched
<1>3. row'[x].state = "scheduled" /\ row'[x].from = a /\ row'[x].to = b /\ row'[x].thread = Nobody
  BY DEF Create, RowTypes
<1>4. \A y \in Exchanges : y # x => Letter(y)' = Letter(y) BY <1>1 DEF Letter, Stage
<1>5. Letter(x) = Conversation!Blank BY <1>2 DEF Letter, Stage, Unused, Conversation!Blank
<1>6. Letter(x)' = [stage |-> "planned", from |-> a, to |-> b] BY <1>2, <1>3 DEF Letter, Stage
<1>7. \A y, z \in Exchanges : Replied(z, y)' <=> Replied(z, y)
  BY <1>1, <1>2, <1>3 DEF Replied, Unused
<1>8. [y \in Exchanges |-> Letter(y)]' = [[y \in Exchanges |-> Letter(y)] EXCEPT ![x] = [stage |-> "planned", from |-> a, to |-> b]]
  BY <1>4, <1>6
<1>9. {p \in Exchanges \X Exchanges : Replied(p[1], p[2])}' = {p \in Exchanges \X Exchanges : Replied(p[1], p[2])}
  BY <1>7
<1>10. [y \in Exchanges |-> Letter(y)][x] = Conversation!Blank BY <1>5
<1>. QED BY <1>8, <1>9, <1>10 DEF Conversation!Begin, Conversation!Write

(* The row of a reply is the only one that deep in its thread.               *)
LEMMA AnswersLetter ==
  ASSUME TypeInv, SentInv, ChainInv, NEW e \in Engagers, NEW y \in Exchanges, Reply(e, y)
  PROVE  Conversation!Answer(y, engaging[e].x)
<1>. USE ConstantTypes DEF TypeInv, TypeOK, ChainInv
<1>1. PICK x \in Exchanges : x = engaging[e].x /\ row[x].state \in {"opened", "recovered_from_spam"} /\ Last(x) /\ stored[x]
  BY DEF Reply, Unanswered, Held
<1>2. y # x /\ row[y] = Unused /\ copies[y] = 0 /\ UNCHANGED copies
  BY <1>1 DEF Reply, Create, Unused, SentInv, Untouched, mail
<1>3. row'[y].state = "scheduled" /\ row'[y].from = row[x].to /\ row'[y].to = row[x].from
      /\ row'[y].thread = row[x].thread /\ row'[y].depth = row[x].depth + 1
  BY <1>1 DEF Reply, Create, RowTypes
<1>4. \A z \in Exchanges : z # y => row'[z] = row[z] BY DEF Reply, Create, RowTypes
<1>5. row[x].thread # Nobody BY <1>1 DEF Roots
<1>6. \A z \in Exchanges : row[z].depth \in Nat BY DEF RowTypes
<1>7. \A z \in Exchanges : row[z].thread = row[x].thread => row[z].depth <= row[x].depth BY <1>1, <1>5 DEF Last
<1>8. \A z \in Exchanges : z # y => Letter(z)' = Letter(z) BY <1>2, <1>4 DEF Letter, Stage
<1>9. Letter(y) = Conversation!Blank BY <1>2 DEF Letter, Stage, Unused, Conversation!Blank
<1>10. Letter(y)' = [stage |-> "planned", from |-> row[x].to, to |-> row[x].from] BY <1>2, <1>3 DEF Letter, Stage
<1>11. Letter(x).stage = "read" /\ Letter(x).from = row[x].from /\ Letter(x).to = row[x].to BY <1>1 DEF Letter, Stage
<1>12. \A z \in Exchanges : ~Replied(z, x)
  <2>1. \A z \in Exchanges : row[z].thread = row[x].thread => row[z].depth # row[x].depth + 1 BY <1>6, <1>7
  <2>. QED BY <2>1 DEF Replied
<1>13. \A z, w \in Exchanges : Replied(z, w)' <=> Replied(z, w) \/ (z = y /\ w = x)
  <2>1. \A w \in Exchanges : ~Replied(y, w) /\ ~Replied(w, y) BY <1>2 DEF Replied, Unused
  <2>2. ASSUME NEW z \in Exchanges, NEW w \in Exchanges, z # y, w # y PROVE Replied(z, w)' <=> Replied(z, w)
    BY <1>4, <2>2 DEF Replied
  <2>3. ASSUME NEW w \in Exchanges, w # y PROVE Replied(y, w)' <=> w = x
    <3>1. row'[w] = row[w] /\ row[w].depth \in Nat /\ row[x].depth \in Nat BY <1>4, <1>6, <2>3
    <3>2. row[w].thread = row[x].thread /\ row[w].depth = row[x].depth => w = x BY <1>5 DEF ThreadsAreChains
    <3>3. row[x].depth + 1 = row[w].depth + 1 <=> row[x].depth = row[w].depth BY <3>1
    <3>. QED BY <1>3, <1>5, <3>1, <3>2, <3>3 DEF Replied
  <2>4. ASSUME NEW z \in Exchanges, z # y PROVE ~Replied(z, y)'
    <3>1. row'[z] = row[z] /\ row[z].depth \in Nat /\ row[x].depth \in Nat BY <1>4, <1>6, <2>4
    <3>2. row[z].thread = row[x].thread => row[z].depth # row[x].depth + 1 + 1 BY <1>7, <3>1
    <3>. QED BY <1>3, <3>1, <3>2 DEF Replied
  <2>5. ~Replied(y, y)'
    <3>1. row'[y].depth # row'[y].depth + 1 BY <1>3, <1>6
    <3>. QED BY <3>1 DEF Replied
  <2>. QED BY <1>2, <2>1, <2>2, <2>3, <2>4, <2>5
<1>14. [z \in Exchanges |-> Letter(z)]'
         = [[z \in Exchanges |-> Letter(z)] EXCEPT ![y] = [stage |-> "planned", from |-> row[x].to, to |-> row[x].from]]
  BY <1>8, <1>10
<1>15. {p \in Exchanges \X Exchanges : Replied(p[1], p[2])}'
         = {p \in Exchanges \X Exchanges : Replied(p[1], p[2])} \cup {<<y, x>>}
  BY <1>13
<1>16. /\ [z \in Exchanges |-> Letter(z)][y] = Conversation!Blank
       /\ [z \in Exchanges |-> Letter(z)][x].stage = "read"
       /\ [z \in Exchanges |-> Letter(z)][x].from = row[x].from
       /\ [z \in Exchanges |-> Letter(z)][x].to = row[x].to
  BY <1>9, <1>11
<1>17. ~Conversation!Answered(x) BY <1>12 DEF Conversation!Answered
<1>. QED BY <1>1, <1>14, <1>15, <1>16, <1>17 DEF Conversation!Answer, Conversation!Write

LEMMA ForgetsLetter ==
  ASSUME TypeInv, ChainInv, NEW x \in Exchanges, Ages(x)
  PROVE  Conversation!Forget(x)
<1>. USE ConstantTypes DEF TypeInv, TypeOK
<1>1. \A y \in Exchanges : y # x => row'[y] = row[y] /\ copies'[y] = copies[y] BY DEF Ages, RowTypes
<1>2. row'[x] = Unused /\ row[x].state # "free" BY DEF Ages, RowTypes
<1>3. \A y \in Exchanges : ~Replied(y, x)
  <2>1. ASSUME NEW y \in Exchanges, Replied(y, x) PROVE FALSE
    <3>1. row[y].depth <= row[x].depth BY <2>1 DEF Ages, Replied
    <3>2. row[y].depth \in Nat /\ row[x].depth \in Nat /\ row[y].depth = row[x].depth + 1 BY <2>1 DEF Replied, RowTypes
    <3>. QED BY <3>1, <3>2
  <2>. QED BY <2>1
<1>4. \A y \in Exchanges : y # x => Letter(y)' = Letter(y) BY <1>1 DEF Letter, Stage
<1>5. Letter(x)' = Conversation!Blank BY <1>2 DEF Letter, Stage, Unused, Conversation!Blank
<1>6. Letter(x) # Conversation!Blank
  <2>1. row[x].state \in States BY DEF RowTypes
  <2>2. Stage(x) # "none" BY <1>2, <2>1 DEF Stage, States
  <2>. QED BY <2>2 DEF Letter, Conversation!Blank
<1>7. \A y, z \in Exchanges : Replied(z, y)' <=> Replied(z, y) /\ z # x
  BY <1>1, <1>2, <1>3 DEF Replied, Unused
<1>8. [y \in Exchanges |-> Letter(y)]' = [[y \in Exchanges |-> Letter(y)] EXCEPT ![x] = Conversation!Blank]
  BY <1>4, <1>5
<1>9. {p \in Exchanges \X Exchanges : Replied(p[1], p[2])}'
        = {p \in {q \in Exchanges \X Exchanges : Replied(q[1], q[2])} : p[1] # x}
  BY <1>7
<1>10. [y \in Exchanges |-> Letter(y)][x] # Conversation!Blank BY <1>6
<1>11. ~Conversation!Answered(x) BY <1>3 DEF Conversation!Answered
<1>. QED BY <1>8, <1>9, <1>10, <1>11 DEF Conversation!Forget


LEMMA DispatchConverses ==
  ASSUME TypeInv, SentInv, ChainInv, NEW d \in Dispatchers, Dispatch(d) \/ (\E x \in Exchanges : Claim(d, x))
  PROVE  [Conversation!Next]_Conversation!vars
<1>. USE ConstantTypes DEF TypeInv, TypeOK
<1>1. ASSUME NEW x \in Exchanges, NEW s \in {"sent", "failed"}, NEW n \in {0, 1},
             row[x].state \in {"scheduled", "sent"}, copies[x] = 0,
             row' = [row EXCEPT ![x].state = s] \/ (row' = row /\ row[x].state = "sent" /\ s = "sent"),
             copies' = [copies EXCEPT ![x] = n]
      PROVE  [Conversation!Next]_Conversation!vars
  <2>1. \A y \in Exchanges : y # x => row'[y] = row[y] /\ copies'[y] = copies[y] BY <1>1 DEF RowTypes
  <2>2. row'[x].state = s /\ copies'[x] = n /\ row'[x].from = row[x].from /\ row'[x].to = row[x].to
        /\ row'[x].thread = row[x].thread /\ row'[x].depth = row[x].depth
    BY <1>1 DEF RowTypes
  <2>3. Stage(x) = "planned" BY <1>1 DEF Stage
  <2>4. Stage(x)' = IF n = 1 THEN "out" ELSE IF s = "failed" THEN "dropped" ELSE "planned" BY <2>2 DEF Stage
  <2>5. UNCHANGED Conversation!vars \/ Conversation!Post(x) \/ Conversation!Drop(x)
    BY <2>1, <2>2, <2>3, <2>4, OneRow
  <2>. QED BY <2>5 DEF Conversation!Next
<1>2. ASSUME NEW x \in Exchanges, Claim(d, x) PROVE [Conversation!Next]_Conversation!vars
  <2>1. row[x].state = "scheduled" /\ copies[x] = 0 BY <1>2 DEF Claim, Claimable, SentInv, Untouched
  <2>2. copies' = [copies EXCEPT ![x] = 0] BY <1>2, <2>1 DEF Claim, mail, RowTypes
  <2>. QED BY <1>1, <1>2, <2>1, <2>2 DEF Claim
<1>3. ASSUME sending[d].at # "idle"
      PROVE  sending[d].x \in Exchanges /\ row[sending[d].x].state = "sent" /\ ~stored[sending[d].x]
             /\ (sending[d].at = "send" => copies[sending[d].x] = 0)
  BY <1>3 DEF Held, SentInv, HeldAlone
<1>4. CASE Refuse(d)
  <2>1. sending[d].at = "send" /\ row' = [row EXCEPT ![sending[d].x].state = "failed"] /\ UNCHANGED copies
    BY <1>4 DEF Refuse, Fail, mail
  <2>2. copies' = [copies EXCEPT ![sending[d].x] = 0] BY <1>3, <2>1 DEF RowTypes
  <2>. QED BY <1>1, <1>3, <2>1, <2>2
<1>5. ASSUME NEW where \in Folders, NEW answered \in BOOLEAN, Transmit(d, where, answered)
      PROVE  [Conversation!Next]_Conversation!vars
  <2>1. sending[d].at = "send" BY <1>5 DEF Transmit
  <2>2. copies' = [copies EXCEPT ![sending[d].x] = 1]
    <3>1. copies' = [copies EXCEPT ![sending[d].x] = copies[sending[d].x] + 1]
      BY <1>3, <1>5, <2>1 DEF Transmit, RowTypes
    <3>2. copies[sending[d].x] + 1 = 1 BY <1>3, <2>1
    <3>. QED BY <3>1, <3>2
  <2>3. CASE answered BY <1>1, <1>3, <1>5, <2>1, <2>2, <2>3 DEF Transmit
  <2>4. CASE ~answered BY <1>1, <1>3, <1>5, <2>1, <2>2, <2>4 DEF Transmit, Fail
  <2>. QED BY <2>3, <2>4
(* The thread of a first message is its own: nothing answers it yet.         *)
<1>6. ASSUME NEW counted \in BOOLEAN, Record(d, counted) PROVE [Conversation!Next]_Conversation!vars
  <2>1. PICK x \in Exchanges : x = sending[d].x /\ row[x].state = "sent" BY <1>3, <1>6 DEF Record
  <2>2. \A y \in Exchanges :
          /\ row'[y].depth = row[y].depth /\ row'[y].from = row[y].from /\ row'[y].to = row[y].to
          /\ row'[y].state = row[y].state /\ copies'[y] = copies[y]
          /\ row'[y].thread = IF y = x /\ row[y].thread = Nobody THEN x ELSE row[y].thread
    <3>1. UNCHANGED copies BY <1>6 DEF Record, mail
    <3>. QED BY <1>6, <2>1, <3>1, RecordRow
  <2>3. row[x].thread = Nobody => \A y \in Exchanges : row[y].thread # x BY <2>1 DEF ChainInv, Roots
  <2>4. \A y \in Exchanges : Letter(y)' = Letter(y) BY <2>2 DEF Letter, Stage
  <2>5. \A y, z \in Exchanges : Replied(z, y)' <=> Replied(z, y)
    <3>1. CASE row[x].thread # Nobody
      <4>1. \A y \in Exchanges : row'[y].thread = row[y].thread /\ row'[y].depth = row[y].depth BY <2>2, <3>1
      <4>. QED BY <4>1 DEF Replied
    <3>2. CASE row[x].thread = Nobody
      <4>1. \A y \in Exchanges : y # x => row'[y].thread = row[y].thread /\ row'[y].thread # x BY <2>2, <2>3, <3>2
      <4>2. row'[x].thread = x /\ row'[x].depth # row'[x].depth + 1 BY <2>2, <3>2 DEF RowTypes
      <4>3. \A y \in Exchanges : ~Replied(x, y) /\ ~Replied(y, x) /\ ~Replied(x, y)' /\ ~Replied(y, x)'
        <5>1. \A y \in Exchanges : ~Replied(x, y) /\ ~Replied(y, x) BY <3>2 DEF Replied
        <5>2. \A y \in Exchanges : y # x => ~Replied(x, y)' /\ ~Replied(y, x)' BY <4>1, <4>2 DEF Replied
        <5>3. ~Replied(x, x)' BY <4>2 DEF Replied
        <5>. QED BY <5>1, <5>2, <5>3
      <4>4. \A y, z \in Exchanges : y # x /\ z # x => (Replied(z, y)' <=> Replied(z, y))
        BY <2>2, <4>1 DEF Replied
      <4>. QED BY <4>3, <4>4
    <3>. QED BY <3>1, <3>2
  <2>. QED BY <2>4, <2>5, NobodySees
<1>. QED BY <1>2, <1>4, <1>5, <1>6 DEF Dispatch

LEMMA EngageConverses ==
  ASSUME TypeInv, SentInv, ChainInv, PostInv, NEW e \in Engagers, EngageTick(e) \/ Engage(e)
  PROVE  [Conversation!Next]_Conversation!vars
<1>. USE ConstantTypes DEF TypeInv, TypeOK
<1>1. ASSUME UNCHANGED <<row, copies>> PROVE UNCHANGED Conversation!vars
  BY <1>1, NobodySees DEF Letter, Stage, Replied
<1>2. ASSUME NEW x \in Exchanges, row[x].state = "sent", stored[x], UNCHANGED copies,
             NEW s \in {"bounced", "opened", "recovered_from_spam"}, row' = [row EXCEPT ![x].state = s]
      PROVE  [Conversation!Next]_Conversation!vars
  <2>1. \A y \in Exchanges : y # x => row'[y] = row[y] /\ copies'[y] = copies[y] BY <1>2 DEF RowTypes
  <2>2. row'[x].state = s /\ row'[x].from = row[x].from /\ row'[x].to = row[x].to
        /\ row'[x].thread = row[x].thread /\ row'[x].depth = row[x].depth
    BY <1>2 DEF RowTypes
  <2>3. copies[x] = 1 /\ copies'[x] = 1 BY <1>2 DEF PostInv, Posted
  <2>4. Stage(x) = "out" BY <1>2, <2>3 DEF Stage
  <2>5. Stage(x)' = IF s = "bounced" THEN "out" ELSE "read" BY <2>2, <2>3 DEF Stage
  <2>6. UNCHANGED Conversation!vars \/ Conversation!Read(x) BY <2>1, <2>2, <2>4, <2>5, OneRow
  <2>. QED BY <2>6 DEF Conversation!Next
<1>3. engaging[e].rest \subseteq Exchanges /\ \A x \in engaging[e].rest : row[x].state = "sent" /\ stored[x]
  BY DEF WorkerTypes, ChainInv, Unanswered, Held
<1>4. CASE EngageTick(e) BY <1>1, <1>4 DEF EngageTick, exchanges, mail
<1>5. ASSUME NEW x \in Exchanges, Miss(e, x) PROVE [Conversation!Next]_Conversation!vars
  BY <1>1, <1>5 DEF Miss, exchanges, mail
<1>6. ASSUME NEW x \in Exchanges, NEW moved \in BOOLEAN, Find(e, x, moved) PROVE [Conversation!Next]_Conversation!vars
  BY <1>1, <1>6 DEF Find, exchanges
<1>7. ASSUME NEW x \in Exchanges, WriteOff(e, x) PROVE [Conversation!Next]_Conversation!vars
  BY <1>2, <1>3, <1>7 DEF WriteOff, mail
<1>8. ASSUME NEW counted \in BOOLEAN, WriteOutcome(e, counted) PROVE [Conversation!Next]_Conversation!vars
  <2>1. engaging[e].x \in Exchanges /\ stored[engaging[e].x] /\ row[engaging[e].x].state = "sent"
    BY <1>8 DEF WriteOutcome, Held, ChainInv, Unanswered
  <2>2. PICK s \in {"opened", "recovered_from_spam"} : row' = [row EXCEPT ![engaging[e].x].state = s]
    BY <1>8 DEF WriteOutcome
  <2>3. UNCHANGED copies BY <1>8 DEF WriteOutcome, mail
  <2>. QED BY <1>2, <2>1, <2>2, <2>3
<1>9. ASSUME NEW y \in Exchanges, Reply(e, y) PROVE [Conversation!Next]_Conversation!vars
  <2>1. engaging[e].x \in Exchanges BY <1>9 DEF Reply, Held
  <2>2. Conversation!Answer(y, engaging[e].x) BY <1>9, AnswersLetter
  <2>. QED BY <2>1, <2>2 DEF Conversation!Next
<1>10. CASE NoReply(e) BY <1>1, <1>10 DEF NoReply, exchanges, mail
<1>. QED BY <1>3, <1>4, <1>5, <1>6, <1>7, <1>8, <1>9, <1>10 DEF Engage

LEMMA StepConverses ==
  ASSUME TypeInv, SentInv, ChainInv, PostInv, [Next]_vars
  PROVE  [Conversation!Next]_Conversation!vars
<1>1. ASSUME UNCHANGED <<row, copies>> PROVE [Conversation!Next]_Conversation!vars
  BY <1>1, NobodySees DEF Letter, Stage, Replied
<1>2. CASE Plan
  <2>1. ASSUME NEW m \in Mailboxes, NEW x \in Exchanges, PlanCreate(x, m) PROVE Conversation!Begin(x)
    <3>1. planning.m \in Mailboxes /\ planning.m # m
      BY <2>1, ConstantTypes DEF PlanCreate, Eligible, TypeInv, TypeOK, WorkerTypes
    <3>. QED BY <2>1, <3>1, PlansLetter DEF PlanCreate, mail
  <2>2. ASSUME NEW m \in Mailboxes, NEW x \in Exchanges, PlanCreate(x, m) PROVE Conversation!Next
    BY <2>1, <2>2 DEF Conversation!Next
  <2>. QED BY <1>1, <1>2, <2>2 DEF Plan, PlanExhausted, PlanCount, exchanges, mail
<1>3. ASSUME NEW d \in Dispatchers, Dispatch(d) \/ (\E x \in Exchanges : Claim(d, x))
      PROVE  [Conversation!Next]_Conversation!vars
  BY <1>3, DispatchConverses
<1>4. ASSUME NEW e \in Engagers, EngageTick(e) \/ Engage(e) PROVE [Conversation!Next]_Conversation!vars
  BY <1>4, EngageConverses
<1>5. ASSUME NEW i \in Rampers, RampTick(i) \/ (\E m \in Mailboxes : Ramp(i, m))
      PROVE  [Conversation!Next]_Conversation!vars
  BY <1>1, <1>5 DEF RampTick, Ramp, RampSkip, RampWrite, exchanges, mail
<1>6. ASSUME NEW m \in Mailboxes, Customer(m) PROVE [Conversation!Next]_Conversation!vars
  BY <1>1, <1>6 DEF Customer, Enroll, SetEnabled, SetOrgConsent, UpdateConfig, exchanges, mail
<1>7. CASE Midnight BY <1>1, <1>7 DEF Midnight, mail
<1>8. ASSUME NEW x \in Exchanges, FreshnessPasses(x) PROVE [Conversation!Next]_Conversation!vars
  BY <1>1, <1>8 DEF FreshnessPasses, mail
<1>9. ASSUME NEW x \in Exchanges, Ages(x) PROVE [Conversation!Next]_Conversation!vars
  BY <1>9, ForgetsLetter DEF Conversation!Next
<1>10. CASE (\E d \in Dispatchers : DispatchFails(d)) \/ (\E e \in Engagers : EngageFails(e)) \/ Restart
  BY <1>1, <1>10 DEF DispatchFails, EngageFails, Restart, exchanges, mail
<1>11. CASE UNCHANGED vars BY <1>1, <1>11 DEF vars, exchanges, mail
<1>. QED BY <1>2, <1>3, <1>4, <1>5, <1>6, <1>7, <1>8, <1>9, <1>10, <1>11 DEF Next

(* With one recipient worker the pool's mail is conversation: a letter goes  *)
(* out once or not at all, is read after that, and is answered at most once, *)
(* by the mailbox that read it, whatever the timers, crashes, lost answers   *)
(* and customers' requests make of the order.                                *)
THEOREM HoldsConversations == OneEngager /\ Spec => IsConversation
<1>. DEFINE Inv == TypeInv /\ SentInv /\ ChainInv /\ PostInv
<1>1. Init => Inv /\ Conversation!Init BY InitTypes, SentInit, ChainInit, PostInit, BeginsBlank
<1>2. ASSUME OneEngager, Inv, [Next]_vars PROVE Inv' BY <1>2, StepTypes, SentStep, ChainStep, PostStep
<1>3. Inv /\ [Next]_vars => [Conversation!Next]_Conversation!vars BY StepConverses
<1>. HIDE DEF Inv
<1>4. CASE OneEngager
  <2>1. Inv /\ [Next]_vars => Inv' BY <1>2, <1>4
  <2>. QED BY <1>1, <1>3, <2>1, PTL DEF Spec, IsConversation, Conversation!Spec
<1>5. CASE ~OneEngager BY <1>5
<1>. QED BY <1>4, <1>5

=============================================================================
