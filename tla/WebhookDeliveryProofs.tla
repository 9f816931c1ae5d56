----------------------- MODULE WebhookDeliveryProofs -----------------------
(* Proofs about WebhookDelivery, for any endpoints and events, any number of *)
(* workers and attempts, any number of requests and faults.                  *)
EXTENDS WebhookDelivery, FiniteSetTheorems, TLAPS

(* BullMQ holds finitely many delayed jobs.                                  *)
DelayedFinite == \A d \in Deliveries : IsFiniteSet(delayed[d])
TypeInv == TypeOK /\ DelayedFinite

LEMMA UpToType == ASSUME NEW max \in Nat, NEW n \in Nat PROVE UpTo(max, n) \in 0 .. max
BY DEF UpTo

LEMMA OneMore == ASSUME NEW max \in Nat, NEW n \in 0 .. max PROVE UpTo(max, n + 1) \in 0 .. max
BY DEF UpTo

LEMMA ConstantTypes ==
  /\ MaxAttempts \in Nat \ {0} /\ Threshold \in Nat \ {0} /\ MaxWaiting \in Nat \ {0}
  /\ NoDelivery \notin Deliveries /\ IsFiniteSet(Workers)
BY WebhookConstants DEF WebhookConstants

LEMMA EndpointType == ASSUME NEW d \in Deliveries PROVE Endpoint(d) \in Endpoints
BY DEF Deliveries, Endpoint

LEMMA InitTypes == Init => TypeInv
<1> SUFFICES ASSUME Init PROVE TypeInv
  OBVIOUS
<1>. USE ConstantTypes DEF Init
<1>1. RowTypes BY DEF RowTypes, Open, Settled
<1>2. QueueTypes BY DEF QueueTypes
<1>3. WorkerTypes BY DEF WorkerTypes
<1>4. HistoryTypes BY DEF HistoryTypes
<1>5. DelayedFinite BY FS_EmptySet DEF DelayedFinite
<1>. QED BY <1>1, <1>2, <1>3, <1>4, <1>5 DEF TypeInv, TypeOK

LEMMA IdleTypes == ASSUME WorkerTypes, NEW w \in Workers, Idle(w) PROVE WorkerTypes'
BY DEF WorkerTypes, Idle

(* The steps of dispatchEvent, of the scan and of time.                      *)
LEMMA QueueSteps ==
  ASSUME TypeInv,
         \/ \E ev \in Events : DispatchEvent(ev)
         \/ \E d \in Deliveries : Enqueue(d) \/ BackoffPasses(d) \/ (\E n \in known[d] : Purge(d, n))
         \/ RescueScan
  PROVE  TypeInv'
<1>. USE ConstantTypes DEF TypeInv, TypeOK
<1>1. WorkerTypes'
  BY DEF DispatchEvent, Enqueue, BackoffPasses, Purge, RescueScan, worker, WorkerTypes
<1>2. HistoryTypes'
  BY DEF DispatchEvent, Enqueue, BackoffPasses, Purge, RescueScan, history, HistoryTypes
<1>3. ASSUME NEW ev \in Events, DispatchEvent(ev) PROVE RowTypes' /\ QueueTypes' /\ DelayedFinite'
  <2>1. RowTypes' BY <1>3 DEF DispatchEvent, RowTypes, endpoint, Open, Settled
  <2>2. QueueTypes' BY <1>3 DEF DispatchEvent, QueueTypes
  <2>3. DelayedFinite' BY <1>3 DEF DispatchEvent, DelayedFinite
  <2>. QED BY <2>1, <2>2, <2>3
<1>4. ASSUME NEW d \in Deliveries, Enqueue(d) PROVE RowTypes' /\ QueueTypes' /\ DelayedFinite'
  BY <1>4 DEF Enqueue, RowTypes, row, endpoint, QueueTypes, DelayedFinite
<1>5. ASSUME NEW d \in Deliveries, BackoffPasses(d) PROVE RowTypes' /\ QueueTypes' /\ DelayedFinite'
  <2>1. RowTypes' BY <1>5 DEF BackoffPasses, RowTypes, endpoint
  <2>2. ready[d] + Cardinality(delayed[d]) \in Nat
    BY FS_CardinalityType DEF DelayedFinite, QueueTypes
  <2>3. QueueTypes' BY <1>5, <2>2, UpToType DEF BackoffPasses, QueueTypes
  <2>4. DelayedFinite' BY <1>5, FS_EmptySet DEF BackoffPasses, DelayedFinite, QueueTypes
  <2>. QED BY <2>1, <2>3, <2>4
<1>6. ASSUME NEW d \in Deliveries, NEW n \in known[d], Purge(d, n)
      PROVE RowTypes' /\ QueueTypes' /\ DelayedFinite'
  BY <1>6 DEF Purge, RowTypes, row, endpoint, QueueTypes, DelayedFinite
<1>7. CASE RescueScan
  <2>1. RowTypes' BY <1>7 DEF RescueScan, RowTypes, row, endpoint
  <2>2. QueueTypes' BY <1>7 DEF RescueScan, QueueTypes
  <2>3. DelayedFinite' BY <1>7 DEF RescueScan, DelayedFinite
  <2>. QED BY <1>1, <1>2, <2>1, <2>2, <2>3
<1>. QED BY <1>1, <1>2, <1>3, <1>4, <1>5, <1>6, <1>7

LEMMA StreakTypes ==
  ASSUME HistoryTypes, NEW e \in Endpoints, StreakEnds(e), UNCHANGED <<posts, accepted>>,
         requests' \in Nat, faults' \in Nat
  PROVE  HistoryTypes'
BY ConstantTypes DEF HistoryTypes, StreakEnds

LEMMA WorkSteps == ASSUME TypeInv, NEW w \in Workers, Work(w) PROVE TypeInv'
<1>. USE ConstantTypes DEF TypeInv, TypeOK
<1>1. ASSUME NEW d \in Deliveries, Take(w, d) PROVE TypeInv'
  <2>1. WorkerTypes' BY <1>1 DEF Take, WorkerTypes, RowTypes
  <2>2. QueueTypes' BY <1>1 DEF Take, QueueTypes
  <2>. QED BY <1>1, <2>1, <2>2 DEF Take, row, endpoint, history, RowTypes, HistoryTypes, DelayedFinite
<1>2. ASSUME NEW answer \in BOOLEAN, Post(w, answer) PROVE TypeInv'
  <2>1. WorkerTypes' BY <1>2 DEF Post, WorkerTypes
  <2>2. job[w] \in Deliveries BY <1>2 DEF Post, WorkerTypes
  <2>3. HistoryTypes' BY <1>2, <2>2, OneMore DEF Post, HistoryTypes
  <2>. QED BY <1>2, <2>1, <2>3 DEF Post, row, endpoint, queue, RowTypes, QueueTypes, DelayedFinite
<1>3. CASE Look(w)
  <2>1. job[w] \in Deliveries BY <1>3 DEF Look, WorkerTypes
  <2>2. WorkerTypes' BY <1>3, <2>1, IdleTypes, EndpointType DEF Look, WorkerTypes, RowTypes
  <2>. QED BY <1>3, <2>2 DEF Look, row, endpoint, queue, history, RowTypes, QueueTypes, DelayedFinite, HistoryTypes
<1>4. CASE Mark(w)
  <2>1. job[w] \in Deliveries /\ count[w] \in Nat /\ fails[w] + 1 \in Nat BY <1>4 DEF Mark, WorkerTypes
  <2>2. Endpoint(job[w]) \in Endpoints BY <2>1, EndpointType
  <2>3. QueueTypes' /\ DelayedFinite' BY <1>4 DEF Mark, queue, QueueTypes, DelayedFinite
  <2>4. CASE Idle(w) /\ UNCHANGED <<row, endpoint, streak, blurred>>
    BY <1>4, <2>3, <2>4, IdleTypes DEF Mark, row, endpoint, RowTypes, HistoryTypes
  <2>5. CASE MarkSuccess(w) /\ attempts' = [attempts EXCEPT ![job[w]] = count[w]]
    <3>1. RowTypes' BY <2>1, <2>2, <2>5 DEF MarkSuccess, RowTypes, Open, Settled
    <3>2. HistoryTypes' BY <1>4, <2>2, <2>5, StreakTypes DEF Mark, MarkSuccess, HistoryTypes
    <3>. QED BY <1>4, <2>3, <2>5, <3>1, <3>2, IdleTypes DEF Mark, MarkSuccess
  <2>6. CASE MarkFailed(w) /\ attempts' = [attempts EXCEPT ![job[w]] = count[w]]
    <3>1. RowTypes' BY <2>1, <2>6 DEF MarkFailed, RowTypes, endpoint, DueAfter, Open, Settled
    <3>2. WorkerTypes' BY <1>4, <2>6 DEF Mark, MarkFailed, WorkerTypes
    <3>. QED BY <1>4, <2>3, <2>6, <3>1, <3>2 DEF Mark, MarkFailed, HistoryTypes
  <2>7. CASE MarkDead(w) /\ attempts' = [attempts EXCEPT ![job[w]] = count[w]]
    <3>1. active' \in [Endpoints -> BOOLEAN] /\ disabled' \in [Endpoints -> BOOLEAN]
      BY <2>2, <2>7, Zenon DEF MarkDead, RowTypes, Disables
    <3>2. RowTypes' BY <2>1, <2>2, <2>7, <3>1 DEF MarkDead, RowTypes, Open, Settled
    <3>3. HistoryTypes' BY <1>4, <2>2, <2>7, OneMore DEF Mark, MarkDead, HistoryTypes
    <3>. QED BY <1>4, <2>3, <2>7, <3>2, <3>3, IdleTypes DEF Mark, MarkDead
  <2>. QED BY <1>4, <2>4, <2>5, <2>6, <2>7 DEF Mark
<1>5. CASE Readd(w)
  <2>1. WorkerTypes' BY <1>5, IdleTypes DEF Readd
  <2>2. job[w] \in Deliveries /\ read[w] + 1 \in Nat \ {0} BY <1>5 DEF Readd, WorkerTypes
  <2>3. QueueTypes' BY <1>5, <2>2 DEF Readd, QueueTypes
  <2>4. \A d \in Deliveries : delayed'[d] = delayed[d] \/ delayed'[d] = delayed[d] \cup {read[w] + 1}
    BY <1>5, <2>2 DEF Readd, QueueTypes
  <2>5. ASSUME NEW d \in Deliveries PROVE IsFiniteSet(delayed'[d])
    <3>1. IsFiniteSet(delayed[d]) BY DEF DelayedFinite
    <3>2. IsFiniteSet(delayed[d] \cup {read[w] + 1}) BY <3>1, FS_AddElement
    <3>. QED BY <2>4, <3>1, <3>2
  <2>. QED BY <1>5, <2>1, <2>3, <2>5 DEF Readd, row, endpoint, history, RowTypes, HistoryTypes, DelayedFinite
<1>. QED BY <1>1, <1>2, <1>3, <1>4, <1>5 DEF Work

LEMMA OutsideSteps == ASSUME TypeInv, Customer \/ Faulty PROVE TypeInv'
<1>. USE ConstantTypes DEF TypeInv, TypeOK
<1>1. ASSUME NEW d \in Deliveries, Replay(d) PROVE TypeInv'
  <2>1. RowTypes' BY <1>1 DEF Replay, RowTypes, endpoint, Open, Settled
  <2>. QED BY <1>1, <2>1 DEF Replay, Request, worker, history, QueueTypes, WorkerTypes, HistoryTypes, DelayedFinite
<1>2. ASSUME NEW e \in Endpoints, NEW on \in BOOLEAN, SetActive(e, on) PROVE TypeInv'
  BY <1>2 DEF SetActive, Request, row, queue, worker, history, RowTypes, QueueTypes, WorkerTypes, HistoryTypes, DelayedFinite
<1>3. ASSUME NEW e \in Endpoints, ReactivateEndpoint(e) PROVE TypeInv'
  <2>1. HistoryTypes' BY <1>3, StreakTypes DEF ReactivateEndpoint, Request, HistoryTypes
  <2>. QED BY <1>3, <2>1 DEF ReactivateEndpoint, Request, row, queue, worker, RowTypes, QueueTypes, WorkerTypes, DelayedFinite
<1>4. ASSUME NEW e \in Endpoints, DeleteEndpoint(e) PROVE TypeInv'
  <2>1. RowTypes' BY <1>4 DEF DeleteEndpoint, RowTypes, Open, Settled
  <2>. QED BY <1>4, <2>1 DEF DeleteEndpoint, Request, queue, worker, history, QueueTypes, WorkerTypes, HistoryTypes, DelayedFinite
<1>5. ASSUME NEW w \in Workers, NEW again \in BOOLEAN, WorkerDies(w, again) PROVE TypeInv'
  <2>1. WorkerTypes' BY <1>5, IdleTypes DEF WorkerDies
  <2>2. QueueTypes' BY <1>5 DEF WorkerDies, QueueTypes, WorkerTypes
  <2>. QED BY <1>5, <2>1, <2>2 DEF WorkerDies, Fault, row, endpoint, history, RowTypes, HistoryTypes, DelayedFinite
<1>6. ASSUME NEW d \in Deliveries, AddFails(d) PROVE TypeInv'
  BY <1>6 DEF AddFails, Fault, row, endpoint, worker, history, RowTypes, QueueTypes, WorkerTypes, HistoryTypes, DelayedFinite
<1>7. CASE RedisFlushed
  <2>1. QueueTypes' BY <1>7 DEF RedisFlushed, QueueTypes
  <2>2. DelayedFinite' BY <1>7, FS_EmptySet DEF RedisFlushed, DelayedFinite
  <2>. QED BY <1>7, <2>1, <2>2 DEF RedisFlushed, Fault, row, endpoint, worker, history, RowTypes, WorkerTypes, HistoryTypes
<1>. QED BY <1>1, <1>2, <1>3, <1>4, <1>5, <1>6, <1>7 DEF Customer, Faulty

LEMMA StutterTypes == ASSUME TypeInv, UNCHANGED vars PROVE TypeInv'
BY DEF TypeInv, TypeOK, RowTypes, QueueTypes, WorkerTypes, HistoryTypes, DelayedFinite,
       vars, row, endpoint, queue, worker, history

LEMMA StepTypes == ASSUME TypeInv, [Next]_vars PROVE TypeInv'
<1>1. CASE Next BY <1>1, QueueSteps, WorkSteps, OutsideSteps DEF Next
<1>2. CASE UNCHANGED vars BY <1>2, StutterTypes
<1>. QED BY <1>1, <1>2

(* Every variable keeps its type, a row is due exactly while it is open ...  *)
THEOREM TypeCorrect == Spec => []TypeOK
<1>1. Spec => []TypeInv BY InitTypes, StepTypes, PTL DEF Spec
<1>. QED BY <1>1, PTL DEF TypeInv

(* ... so that no open row is out of reach of the rescue scan.               *)
LEMMA InitDue == Init => NeverStranded
BY DEF Init, NeverStranded, Open

LEMMA StepDue == ASSUME TypeInv, NeverStranded, [Next]_vars PROVE NeverStranded'
<1>. USE DEF NeverStranded, TypeInv, TypeOK, RowTypes
<1>1. ASSUME NEW ev \in Events, DispatchEvent(ev) PROVE NeverStranded'
  BY <1>1 DEF DispatchEvent
<1>2. ASSUME NEW d \in Deliveries, Enqueue(d) \/ BackoffPasses(d) \/ (\E n \in known[d] : Purge(d, n))
      PROVE NeverStranded'
  BY <1>2 DEF Enqueue, BackoffPasses, Purge, row
<1>3. CASE RescueScan
  BY <1>3 DEF RescueScan, row
<1>4. ASSUME NEW w \in Workers, Work(w) PROVE NeverStranded'
  <2>1. CASE Mark(w)
    <3>1. job[w] \in Deliveries BY <2>1 DEF Mark, WorkerTypes
    <3>. QED BY <2>1, <3>1 DEF Mark, MarkSuccess, MarkFailed, MarkDead, Retries, DueAfter, Open, row
  <2>2. CASE ~Mark(w)
    BY <1>4, <2>2 DEF Work, Take, Post, Look, Readd, row
  <2>. QED BY <2>1, <2>2
<1>5. CASE Customer
  BY <1>5 DEF Customer, Replay, SetActive, ReactivateEndpoint, DeleteEndpoint, row, Open
<1>6. CASE Faulty
  BY <1>6 DEF Faulty, RedisFlushed, AddFails, WorkerDies, row
<1>7. CASE UNCHANGED vars
  BY <1>7 DEF vars, row
<1>. QED BY <1>1, <1>2, <1>3, <1>4, <1>5, <1>6, <1>7 DEF Next

THEOREM OpenIsDue == Spec => []NeverStranded
<1>1. Spec => []TypeInv BY InitTypes, StepTypes, PTL DEF Spec
<1>2. Spec => []NeverStranded BY <1>1, InitDue, StepDue, PTL DEF Spec
<1>. QED BY <1>2

(* ---- What the log says is true of the network --------------------------- *)

(* The workers that have posted d and not recorded it yet: what is recorded  *)
(* and what they may still record stay below what was posted.                *)
Unrecorded(d) == {w \in Workers : job[w] = d /\ pc[w] \in {"look", "mark"}}
Tally(d) ==
  \/ posts[d] = MaxAttempts
  \/ /\ attempts[d] + Cardinality(Unrecorded(d)) <= posts[d]
     /\ \A w \in Unrecorded(d) : pc[w] = "mark" => count[w] + Cardinality(Unrecorded(d)) <= posts[d] + 1
Told(d) ==
  /\ status[d] = "dead_letter" => posts[d] = MaxAttempts
  /\ status[d] = "success" => accepted[d]
Heard(w) == ok[w] => accepted[job[w]] /\ pc[w] \notin {"idle", "post"}
LogInv == (\A d \in Deliveries : Tally(d) /\ Told(d)) /\ (\A w \in Workers : Heard(w))

LEMMA UnrecordedSize ==
  ASSUME NEW d \in Deliveries
  PROVE  IsFiniteSet(Unrecorded(d)) /\ Cardinality(Unrecorded(d)) \in Nat
<1>1. IsFiniteSet(Unrecorded(d)) BY ConstantTypes, FS_Subset DEF Unrecorded
<1>. QED BY <1>1, FS_CardinalityType

(* Nobody posts or looks: whoever leaves only lowers what may be recorded.   *)
LEMMA TallyKept ==
  ASSUME TypeInv, NEW d \in Deliveries, Tally(d), TypeInv',
         attempts'[d] \in {0, attempts[d]}, posts'[d] = posts[d],
         \A w \in Workers : pc'[w] \in {"look", "mark"} =>
           job'[w] = job[w] /\ pc'[w] = pc[w] /\ count'[w] = count[w]
  PROVE  Tally(d)'
<1>1. Unrecorded(d)' \subseteq Unrecorded(d) BY DEF Unrecorded
<1>2. Cardinality(Unrecorded(d)') <= Cardinality(Unrecorded(d)) /\ Cardinality(Unrecorded(d)') \in Nat
  BY <1>1, UnrecordedSize, FS_Subset, FS_CardinalityType
<1>3. \A w \in Unrecorded(d)' : pc'[w] = "mark" => w \in Unrecorded(d) /\ pc[w] = "mark" /\ count'[w] = count[w]
  BY <1>1 DEF Unrecorded
<1>4. Cardinality(Unrecorded(d)') = Cardinality(Unrecorded(d))' OBVIOUS
<1>5. attempts[d] \in Nat /\ posts[d] \in Nat /\ \A w \in Workers : count[w] \in Nat
  BY DEF TypeInv, TypeOK, RowTypes, HistoryTypes, WorkerTypes
<1>6. \A w \in Unrecorded(d) : w \in Workers BY DEF Unrecorded
<1>7. CASE posts[d] = MaxAttempts BY <1>7 DEF Tally
<1>8. CASE posts[d] # MaxAttempts
  <2>1. attempts'[d] + Cardinality(Unrecorded(d)') <= posts'[d]
    BY <1>2, <1>5, <1>8, UnrecordedSize DEF Tally
  <2>2. \A w \in Unrecorded(d)' : pc'[w] = "mark" => count'[w] + Cardinality(Unrecorded(d)') <= posts'[d] + 1
    BY <1>2, <1>3, <1>5, <1>6, <1>8, UnrecordedSize DEF Tally
  <2>. QED BY <1>4, <2>1, <2>2 DEF Tally
<1>. QED BY <1>7, <1>8

LEMMA InitLog == Init => LogInv
<1> SUFFICES ASSUME Init PROVE LogInv
  OBVIOUS
<1>1. \A d \in Deliveries : Unrecorded(d) = {} BY DEF Init, Unrecorded
<1>2. ASSUME NEW d \in Deliveries PROVE Tally(d) /\ Told(d)
  <2>1. Cardinality(Unrecorded(d)) = 0 BY <1>1, FS_EmptySet
  <2>. QED BY <1>1, <2>1 DEF Init, Tally, Told
<1>. QED BY <1>2 DEF Init, LogInv, Heard

LEMMA PostLog ==
  ASSUME TypeInv, TypeInv', LogInv, NEW w \in Workers, NEW answer \in BOOLEAN, Post(w, answer)
  PROVE  LogInv'
<1>. USE DEF TypeInv, TypeOK
<1>0. PICK d \in Deliveries : d = job[w] BY DEF Post, WorkerTypes
<1>1. job[w] = d /\ w \notin Unrecorded(d) BY <1>0 DEF Post, Unrecorded
<1>2. ASSUME NEW c \in Deliveries, c # d PROVE Tally(c)'
  <2>1. Unrecorded(c)' = Unrecorded(c) BY <1>1, <1>2 DEF Post, Unrecorded, WorkerTypes
  <2>2. posts'[c] = posts[c] /\ attempts'[c] = attempts[c] /\ UNCHANGED count
    BY <1>1, <1>2 DEF Post, row, HistoryTypes
  <2>3. \A v \in Unrecorded(c) : pc'[v] = pc[v] BY <1>2 DEF Post, Unrecorded, WorkerTypes
  <2>4. Tally(c) BY DEF LogInv
  <2>. QED BY <2>1, <2>2, <2>3, <2>4 DEF Tally
<1>3. Tally(d)'
  <2>1. Unrecorded(d)' = Unrecorded(d) \cup {w} BY <1>1 DEF Post, Unrecorded, WorkerTypes
  <2>2. Cardinality(Unrecorded(d)') = Cardinality(Unrecorded(d)) + 1
    BY <1>1, <2>1, UnrecordedSize, FS_AddElement
  <2>3. posts'[d] = UpTo(MaxAttempts, posts[d] + 1) /\ attempts'[d] = attempts[d] /\ UNCHANGED <<count, job>>
    BY <1>1 DEF Post, row, HistoryTypes
  <2>4. posts[d] \in 0 .. MaxAttempts /\ attempts[d] \in Nat /\ \A v \in Workers : count[v] \in Nat
    BY <1>1 DEF HistoryTypes, RowTypes, WorkerTypes
  <2>5. CASE posts'[d] = MaxAttempts BY <2>3, <2>5 DEF Tally
  <2>6. CASE posts'[d] # MaxAttempts
    <3>1. posts'[d] = posts[d] + 1 /\ posts[d] # MaxAttempts BY <2>3, <2>4, <2>6, ConstantTypes DEF UpTo
    <3>2. attempts'[d] + Cardinality(Unrecorded(d)') <= posts'[d]
      BY <1>1, <2>2, <2>3, <2>4, <3>1, UnrecordedSize DEF LogInv, Tally
    <3>3. \A v \in Unrecorded(d)' : pc'[v] = "mark" => v \in Unrecorded(d) /\ pc[v] = "mark"
      BY <2>1 DEF Post, WorkerTypes
    <3>4. \A v \in Unrecorded(d) : v \in Workers BY DEF Unrecorded
    <3>5. \A v \in Unrecorded(d)' : pc'[v] = "mark" => count'[v] + Cardinality(Unrecorded(d)') <= posts'[d] + 1
      BY <1>1, <2>2, <2>3, <2>4, <3>1, <3>3, <3>4, UnrecordedSize DEF LogInv, Tally
    <3>. QED BY <2>3, <3>2, <3>5 DEF Tally
  <2>. QED BY <2>5, <2>6
<1>4. \A c \in Deliveries : Told(c)'
  <2>1. \A c \in Deliveries : posts[c] = MaxAttempts => posts'[c] = MaxAttempts
    BY <1>1, ConstantTypes DEF Post, HistoryTypes, UpTo
  <2>2. \A c \in Deliveries : accepted[c] => accepted'[c]
    BY <1>1, Zenon DEF Post, HistoryTypes
  <2>3. UNCHANGED status BY DEF Post, row
  <2>. QED BY <2>1, <2>2, <2>3 DEF LogInv, Told
<1>5. \A v \in Workers : Heard(v)'
  <2>1. /\ accepted' = [accepted EXCEPT ![d] = @ \/ answer]
        /\ ok' = [ok EXCEPT ![w] = answer] /\ UNCHANGED job
        /\ pc' = [pc EXCEPT ![w] = "look"]
    BY <1>1 DEF Post
  <2>2. \A c \in Deliveries : accepted[c] => accepted'[c]
    BY <1>1, <2>1, Zenon DEF HistoryTypes
  <2>3. answer => accepted'[d] BY <1>1, <2>1, Zenon DEF HistoryTypes
  <2>4. ok'[w] = answer /\ \A v \in Workers : v # w => ok'[v] = ok[v] BY <2>1, Zenon DEF WorkerTypes
  <2>5. pc'[w] = "look" /\ \A v \in Workers : v # w => pc'[v] = pc[v] BY <2>1 DEF WorkerTypes
  <2>6. \A v \in Workers : ok[v] => job[v] \in Deliveries BY DEF LogInv, Heard, WorkerTypes
  <2>. QED BY <1>1, <2>1, <2>2, <2>3, <2>4, <2>5, <2>6 DEF LogInv, Heard
<1>. QED BY <1>2, <1>3, <1>4, <1>5 DEF LogInv

LEMMA LookLog ==
  ASSUME TypeInv, TypeInv', LogInv, NEW w \in Workers, Look(w)
  PROVE  LogInv'
<1>. USE DEF TypeInv, TypeOK
<1>0. PICK d \in Deliveries : d = job[w] BY DEF Look, WorkerTypes
<1>1. job[w] = d /\ pc[w] = "look" BY <1>0 DEF Look
<1>2. UNCHANGED <<status, attempts, posts, accepted>> BY DEF Look, row, history
<1>3. \A c \in Deliveries : Told(c)' BY <1>2 DEF LogInv, Told
<1>4. CASE Idle(w)
  <2>1. \A v \in Workers : Heard(v)' BY <1>2, <1>4 DEF Idle, LogInv, Heard, WorkerTypes
  <2>2. \A v \in Workers : pc'[v] \in {"look", "mark"} =>
          job'[v] = job[v] /\ pc'[v] = pc[v] /\ count'[v] = count[v]
    BY <1>4 DEF Idle, WorkerTypes
  <2>3. \A c \in Deliveries : Tally(c)' BY <1>2, <2>2, TallyKept DEF LogInv
  <2>. QED BY <1>3, <2>1, <2>3 DEF LogInv
<1>5. CASE pc' = [pc EXCEPT ![w] = "mark"] /\ count' = [count EXCEPT ![w] = attempts[d] + 1] /\ UNCHANGED <<job, ok>>
  <2>1. \A v \in Workers : Heard(v)' BY <1>2, <1>5 DEF LogInv, Heard
  <2>2. \A c \in Deliveries : Unrecorded(c)' = Unrecorded(c) BY <1>5 DEF Look, Unrecorded, WorkerTypes
  <2>3. ASSUME NEW c \in Deliveries PROVE Tally(c)'
    <3>1. Tally(c) BY DEF LogInv
    <3>2. attempts[c] \in Nat /\ posts[c] \in Nat BY DEF RowTypes, HistoryTypes
    <3>3. \A v \in Unrecorded(c) : v \in Workers /\ job[v] = c BY DEF Unrecorded
    <3>4. count'[w] = attempts[d] + 1 /\ \A v \in Workers : v # w => count'[v] = count[v] /\ pc'[v] = pc[v]
      BY <1>5 DEF WorkerTypes
    <3>5. CASE posts[c] = MaxAttempts BY <1>2, <3>5 DEF Tally
    <3>6. CASE posts[c] # MaxAttempts
      <4>1. ASSUME NEW v \in Unrecorded(c), pc'[v] = "mark"
            PROVE count'[v] + Cardinality(Unrecorded(c)) <= posts[c] + 1
        <5>1. Cardinality(Unrecorded(c)) \in Nat /\ attempts[c] + Cardinality(Unrecorded(c)) <= posts[c]
          BY <3>1, <3>6, UnrecordedSize DEF Tally
        <5>2. CASE v = w
          <6>1. c = d BY <1>1, <3>3, <4>1, <5>2
          <6>. QED BY <3>2, <3>4, <5>1, <5>2, <6>1
        <5>3. CASE v # w
          BY <3>1, <3>3, <3>4, <3>6, <4>1, <5>3 DEF Tally
        <5>. QED BY <5>2, <5>3
      <4>. QED BY <1>2, <2>2, <3>1, <3>6, <4>1 DEF Tally
    <3>. QED BY <3>5, <3>6
  <2>. QED BY <1>3, <2>1, <2>3 DEF LogInv
<1>. QED BY <1>1, <1>4, <1>5 DEF Look

LEMMA MarkLog ==
  ASSUME TypeInv, TypeInv', LogInv, NEW w \in Workers, Mark(w)
  PROVE  LogInv'
<1>. USE DEF TypeInv, TypeOK
<1>0. PICK d \in Deliveries : d = job[w] BY DEF Mark, WorkerTypes
<1>1. job[w] = d /\ w \in Unrecorded(d) /\ pc[w] = "mark" BY <1>0 DEF Mark, Unrecorded
<1>2. UNCHANGED <<posts, accepted>> BY DEF Mark
<1>3. /\ \A v \in Workers : v # w => pc'[v] = pc[v] /\ job'[v] = job[v] /\ count'[v] = count[v] /\ ok'[v] = ok[v]
      /\ pc'[w] \in {"idle", "readd"}
      /\ \/ job'[w] = job[w] /\ ok'[w] = ok[w] /\ pc'[w] = "readd"
         \/ ok'[w] = FALSE
  BY DEF Mark, MarkSuccess, MarkFailed, MarkDead, Idle, WorkerTypes
<1>4. \A v \in Workers : Heard(v)' BY <1>2, <1>3 DEF LogInv, Heard
<1>5. \A c \in Deliveries : c # d => attempts'[c] = attempts[c] /\ status'[c] = status[c]
  BY <1>1 DEF Mark, MarkSuccess, MarkFailed, MarkDead, row, RowTypes
<1>6. \A v \in Workers : pc'[v] \in {"look", "mark"} =>
        job'[v] = job[v] /\ pc'[v] = pc[v] /\ count'[v] = count[v]
  BY <1>3
<1>7. \A c \in Deliveries : c # d => Tally(c)' /\ Told(c)'
  <2>1. \A c \in Deliveries : c # d => Tally(c)' BY <1>2, <1>5, <1>6, TallyKept DEF LogInv
  <2>. QED BY <1>2, <1>5, <2>1 DEF LogInv, Told
<1>8. CASE UNCHANGED row
  BY <1>2, <1>4, <1>6, <1>7, <1>8, TallyKept DEF LogInv, Told, row
<1>9. CASE attempts' = [attempts EXCEPT ![d] = count[w]] /\ ((MarkSuccess(w) /\ ok[w]) \/ MarkFailed(w) \/ (MarkDead(w) /\ ~Retries(count[w])))
  <2>1. Unrecorded(d)' = Unrecorded(d) \ {w} BY <1>1, <1>3 DEF Unrecorded
  <2>2. Cardinality(Unrecorded(d)') = Cardinality(Unrecorded(d)) - 1 /\ Cardinality(Unrecorded(d)) \in Nat \ {0}
    BY <1>1, <2>1, UnrecordedSize, FS_RemoveElement, FS_EmptySet
  <2>3. posts[d] \in 0 .. MaxAttempts /\ attempts'[d] = count[w] /\ \A v \in Workers : count[v] \in Nat
    BY <1>1, <1>9 DEF HistoryTypes, RowTypes, WorkerTypes
  <2>4. posts[d] = MaxAttempts \/ count[w] + Cardinality(Unrecorded(d)) <= posts[d] + 1
    BY <1>1 DEF LogInv, Tally
  <2>5. Tally(d)'
    <3>1. CASE posts[d] = MaxAttempts BY <1>2, <3>1 DEF Tally
    <3>2. CASE posts[d] # MaxAttempts
      <4>1. attempts'[d] + Cardinality(Unrecorded(d)') <= posts'[d]
        BY <1>2, <2>2, <2>3, <2>4, <3>2
      <4>2. \A v \in Unrecorded(d)' : v \in Unrecorded(d) /\ v \in Workers /\ pc'[v] = pc[v] /\ count'[v] = count[v]
        BY <1>3, <2>1 DEF Unrecorded
      <4>3. \A v \in Unrecorded(d)' : pc'[v] = "mark" => count'[v] + Cardinality(Unrecorded(d)') <= posts'[d] + 1
        BY <1>1, <1>2, <2>2, <2>3, <3>2, <4>2 DEF LogInv, Tally
      <4>. QED BY <4>1, <4>3 DEF Tally
    <3>. QED BY <3>1, <3>2
  <2>6. Told(d)'
    <3>1. CASE MarkSuccess(w) /\ ok[w]
      BY <1>1, <1>2, <3>1 DEF MarkSuccess, Told, LogInv, Heard, RowTypes
    <3>2. CASE MarkFailed(w)
      BY <1>1, <3>2 DEF MarkFailed, Told, RowTypes
    <3>3. CASE MarkDead(w) /\ ~Retries(count[w])
      <4>1. posts[d] = MaxAttempts BY <2>2, <2>3, <2>4, <3>3, ConstantTypes DEF Retries
      <4>. QED BY <1>1, <1>2, <3>3, <4>1 DEF MarkDead, Told, RowTypes
    <3>. QED BY <1>9, <3>1, <3>2, <3>3
  <2>. QED BY <1>4, <1>7, <2>5, <2>6 DEF LogInv
<1>10. \/ UNCHANGED row
       \/ /\ attempts' = [attempts EXCEPT ![d] = count[w]]
          /\ (MarkSuccess(w) /\ ok[w]) \/ MarkFailed(w) \/ (MarkDead(w) /\ ~Retries(count[w]))
  BY <1>1 DEF Mark, row
<1>. QED BY <1>8, <1>9, <1>10

(* Every other step: no row is settled and no count grows.                   *)
LEMMA OtherLog ==
  ASSUME TypeInv, TypeInv', LogInv, UNCHANGED <<posts, accepted>>,
         \A d \in Deliveries : /\ attempts'[d] \in {0, attempts[d]}
                               /\ status'[d] = status[d] \/ status'[d] \notin Settled,
         \A w \in Workers : /\ pc'[w] \in {"look", "mark"} =>
                                  job'[w] = job[w] /\ pc'[w] = pc[w] /\ count'[w] = count[w]
                            /\ ok'[w] => ok[w] /\ job'[w] = job[w] /\ pc'[w] = pc[w]
  PROVE  LogInv'
<1>1. \A d \in Deliveries : Tally(d)' BY TallyKept DEF LogInv
<1>2. \A d \in Deliveries : Told(d)' BY DEF LogInv, Told, Settled
<1>3. \A w \in Workers : Heard(w)' BY DEF LogInv, Heard
<1>. QED BY <1>1, <1>2, <1>3 DEF LogInv

LEMMA StepLog == ASSUME TypeInv, TypeInv', LogInv, [Next]_vars PROVE LogInv'
<1>. USE DEF TypeInv, TypeOK, RowTypes
<1>1. ASSUME NEW ev \in Events, DispatchEvent(ev) PROVE LogInv'
  BY <1>1, OtherLog DEF DispatchEvent, worker, history, Settled
<1>2. ASSUME NEW d \in Deliveries, Enqueue(d) \/ BackoffPasses(d) \/ (\E n \in known[d] : Purge(d, n))
      PROVE LogInv'
  BY <1>2, OtherLog DEF Enqueue, BackoffPasses, Purge, row, worker, history
<1>3. CASE RescueScan
  BY <1>3, OtherLog DEF RescueScan, row, worker, history
<1>4. ASSUME NEW w \in Workers, Work(w) PROVE LogInv'
  <2>1. ASSUME NEW d \in Deliveries, Take(w, d) PROVE LogInv'
    <3>1. \A v \in Workers : /\ pc'[v] \in {"look", "mark"} =>
                                  job'[v] = job[v] /\ pc'[v] = pc[v] /\ count'[v] = count[v]
      BY <2>1 DEF Take, WorkerTypes
    <3>2. ~ok[w] /\ UNCHANGED ok BY <2>1 DEF Take, LogInv, Heard
    <3>3. \A v \in Workers : v # w => job'[v] = job[v] /\ pc'[v] = pc[v] BY <2>1 DEF Take, WorkerTypes
    <3>. QED BY <2>1, <3>1, <3>2, <3>3, OtherLog DEF Take, row, history
  <2>2. CASE Readd(w)
    BY <2>2, OtherLog DEF Readd, Idle, row, history, WorkerTypes
  <2>. QED BY <1>4, <2>1, <2>2, PostLog, LookLog, MarkLog DEF Work
<1>5. CASE Customer
  <2>1. \A d \in Deliveries : Replay(d) => LogInv'
    BY OtherLog DEF Replay, worker, history, Settled
  <2>. QED BY <1>5, <2>1, OtherLog
       DEF Customer, SetActive, ReactivateEndpoint, DeleteEndpoint, row, worker, history, Settled
<1>6. CASE Faulty
  <2>1. \A w \in Workers, again \in BOOLEAN : WorkerDies(w, again) => LogInv'
    BY OtherLog DEF WorkerDies, Idle, row, history, WorkerTypes
  <2>. QED BY <1>6, <2>1, OtherLog DEF Faulty, RedisFlushed, AddFails, row, worker, history
<1>7. CASE UNCHANGED vars
  BY <1>7, OtherLog DEF vars, row, worker, history
<1>. QED BY <1>1, <1>2, <1>3, <1>4, <1>5, <1>6, <1>7 DEF Next

THEOREM LogIsTrue == Spec => []GivesUpLate
<1>1. Spec => []TypeInv BY InitTypes, StepTypes, PTL DEF Spec
<1>2. Spec => []LogInv BY <1>1, InitLog, StepLog, PTL DEF Spec
<1>3. TypeInv /\ LogInv => GivesUpLate
  BY ConstantTypes DEF LogInv, Told, GivesUpLate, TypeInv, TypeOK, HistoryTypes
<1>. QED BY <1>1, <1>2, <1>3, PTL

(* ---- An endpoint is disabled on evidence -------------------------------- *)

(* failure_count, and what a worker about to bury read of it, never pass the *)
(* deliveries dead-lettered in a row, where the count is not blurred.        *)
Short(e, n) == e \in blurred \/ streak[e] = Threshold \/ n <= streak[e]
EvidenceInv ==
  /\ \A e \in Endpoints : Short(e, failures[e])
  /\ \A w \in Workers : Burying(w) => Short(Endpoint(job[w]), fails[w])

LEMMA InitEvidence == Init => EvidenceInv
BY ConstantTypes DEF Init, EvidenceInv, Short, Burying

(* A step that starts no row again and makes nobody bury: the counts fall.   *)
LEMMA OtherEvidence ==
  ASSUME TypeInv, EvidenceInv, UNCHANGED <<streak, blurred>>,
         \A e \in Endpoints : failures'[e] \in {0, failures[e]},
         \A w \in Workers : Burying(w)' =>
            Burying(w) /\ job'[w] = job[w] /\ fails'[w] = fails[w]
  PROVE  EvidenceInv'
<1>1. \A e \in Endpoints : streak[e] \in Nat BY DEF TypeInv, TypeOK, HistoryTypes
<1>2. \A e \in Endpoints : Short(e, failures[e])' BY <1>1 DEF EvidenceInv, Short
<1>3. \A w \in Workers : Burying(w)' => Short(Endpoint(job[w]), fails[w])' BY DEF EvidenceInv, Short
<1>. QED BY <1>2, <1>3 DEF EvidenceInv

(* The count of an endpoint starts again: where somebody is still to write   *)
(* over it, it is blurred from now on.                                       *)
LEMMA EndEvidence ==
  ASSUME TypeInv, EvidenceInv, NEW e \in Endpoints, StreakEnds(e),
         failures' = [failures EXCEPT ![e] = 0],
         \A w \in Workers : Burying(w)' =>
            Burying(w) /\ job'[w] = job[w] /\ fails'[w] = fails[w]
  PROVE  EvidenceInv'
<1>. USE DEF TypeInv, TypeOK, HistoryTypes, RowTypes
<1>1. \A c \in Endpoints \ {e} :
        streak'[c] = streak[c] /\ (c \in blurred' <=> c \in blurred) /\ failures'[c] = failures[c]
  BY DEF StreakEnds
<1>2. e \in blurred' \/ /\ streak'[e] = 0 /\ failures'[e] = 0
                        /\ \A w \in Workers : ~(Burying(w) /\ Endpoint(job[w]) = e)
  BY DEF StreakEnds
<1>3. \A c \in Endpoints : Short(c, failures[c])' BY <1>1, <1>2 DEF EvidenceInv, Short
<1>4. ASSUME NEW w \in Workers, Burying(w)' PROVE Short(Endpoint(job[w]), fails[w])'
  <2>1. Burying(w) /\ job'[w] = job[w] /\ fails'[w] = fails[w] BY <1>4
  <2>2. job[w] \in Deliveries BY <2>1 DEF Burying, WorkerTypes
  <2>3. PICK c \in Endpoints : c = Endpoint(job[w]) BY <2>2, EndpointType
  <2>4. Short(c, fails[w]) BY <2>1, <2>3 DEF EvidenceInv
  <2>5. Short(c, fails[w])' BY <1>1, <1>2, <2>1, <2>3, <2>4 DEF Short
  <2>. QED BY <2>1, <2>3, <2>5
<1>. QED BY <1>3, <1>4 DEF EvidenceInv

LEMMA LookEvidence ==
  ASSUME TypeInv, EvidenceInv, NEW w \in Workers, Look(w)
  PROVE  EvidenceInv'
<1>. USE DEF TypeInv, TypeOK
<1>1. UNCHANGED <<failures, streak, blurred>> BY DEF Look, endpoint, history
<1>2. CASE Idle(w) BY <1>1, <1>2, OtherEvidence DEF Idle, WorkerTypes, Burying
<1>3. CASE ~Idle(w)
  <2>1. /\ fails' = [fails EXCEPT ![w] = failures[Endpoint(job[w])]] /\ UNCHANGED <<job, ok>>
        /\ pc' = [pc EXCEPT ![w] = "mark"] /\ count' = [count EXCEPT ![w] = attempts[job[w]] + 1]
    BY <1>3 DEF Look
  <2>2. PICK e \in Endpoints : e = Endpoint(job[w]) BY EndpointType DEF Look, WorkerTypes
  <2>3. Short(e, failures[e]) BY DEF EvidenceInv
  <2>4. fails'[w] = failures[e] BY <2>1, <2>2 DEF WorkerTypes
  <2>5. \A v \in Workers : v # w => (Burying(v)' => Burying(v)) /\ fails'[v] = fails[v]
    BY <2>1 DEF Burying, WorkerTypes
  <2>6. \A v \in Workers : Burying(v)' => Short(Endpoint(job[v]), fails[v])'
    BY <1>1, <2>1, <2>2, <2>3, <2>4, <2>5 DEF EvidenceInv, Short
  <2>. QED BY <1>1, <2>6 DEF EvidenceInv, Short
<1>. QED BY <1>2, <1>3

(* A dead-lettering counts at most one more than the worker read, and the    *)
(* row of them grows by one, unless the delivery was dead-lettered already.  *)
LEMMA DeadEvidence ==
  ASSUME TypeInv, EvidenceInv, NEW w \in Workers, Burying(w), MarkDead(w)
  PROVE  /\ EvidenceInv'
         /\ \A e \in Endpoints : ~disabled[e] /\ disabled'[e] => streak'[e] >= Threshold \/ e \in blurred'
<1>. USE DEF TypeInv, TypeOK
<1>0. PICK e \in Endpoints : e = Endpoint(job[w]) BY EndpointType DEF WorkerTypes, Burying
<1>1. Short(e, fails[w]) BY <1>0 DEF EvidenceInv
<1>2. /\ \A c \in Endpoints : streak[c] \in 0 .. Threshold /\ failures[c] \in Nat
      /\ \A v \in Workers : fails[v] \in Nat
  BY DEF HistoryTypes, WorkerTypes, RowTypes
<1>3. /\ failures'[e] = fails[w] + 1
      /\ \/ e \in blurred'
         \/ streak'[e] = UpTo(Threshold, streak[e] + 1) /\ blurred' = blurred
  BY <1>0 DEF MarkDead, HistoryTypes, RowTypes
<1>4. \A c \in Endpoints : c # e =>
        /\ streak'[c] = streak[c] /\ failures'[c] = failures[c] /\ disabled'[c] = disabled[c]
        /\ c \in blurred' <=> c \in blurred
  BY <1>0 DEF MarkDead, HistoryTypes, RowTypes
<1>5. disabled'[e] => disabled[e] \/ Disables(fails[w] + 1)
  BY <1>0, Zenon DEF MarkDead, RowTypes
<1>6. e \in blurred' \/ streak'[e] = Threshold \/ fails[w] + 1 <= streak'[e]
  <2>1. CASE e \in blurred' BY <2>1
  <2>2. CASE e \notin blurred'
    <3>1. streak'[e] = UpTo(Threshold, streak[e] + 1) /\ e \notin blurred BY <1>3, <2>2
    <3>2. streak[e] = Threshold \/ fails[w] <= streak[e] BY <1>1, <3>1 DEF Short
    <3>. QED BY <1>2, <3>1, <3>2, ConstantTypes DEF UpTo
  <2>. QED BY <2>1, <2>2
<1>7. \A n \in Nat : Short(e, n) => e \in blurred' \/ streak'[e] = Threshold \/ n <= streak'[e]
  BY <1>2, <1>3, ConstantTypes DEF Short, UpTo
<1>8. \A c \in Endpoints : Short(c, failures[c])'
  BY <1>3, <1>4, <1>6 DEF EvidenceInv, Short
<1>9. ASSUME NEW v \in Workers, Burying(v)' PROVE Short(Endpoint(job[v]), fails[v])'
  <2>1. Burying(v) /\ job'[v] = job[v] /\ fails'[v] = fails[v]
    BY <1>9 DEF MarkDead, Idle, WorkerTypes, Burying
  <2>2. PICK c \in Endpoints : c = Endpoint(job[v]) BY <2>1, EndpointType DEF WorkerTypes, Burying
  <2>3. Short(c, fails[v]) BY <2>1, <2>2 DEF EvidenceInv
  <2>4. CASE c = e BY <1>2, <1>7, <2>1, <2>2, <2>3, <2>4 DEF Short
  <2>5. CASE c # e BY <1>4, <2>1, <2>2, <2>3, <2>5 DEF Short
  <2>. QED BY <2>4, <2>5
<1>10. ~disabled[e] /\ disabled'[e] => streak'[e] >= Threshold \/ e \in blurred'
  <2>1. CASE e \in blurred' BY <2>1
  <2>2. CASE e \notin blurred' /\ ~disabled[e] /\ disabled'[e]
    <3>1. Disables(fails[w] + 1) BY <1>5, <2>2
    <3>2. streak'[e] = UpTo(Threshold, streak[e] + 1) BY <1>3, <2>2
    <3>. QED BY <1>2, <1>6, <2>2, <3>1, <3>2, ConstantTypes DEF Disables, UpTo
  <2>. QED BY <2>1, <2>2
<1>. QED BY <1>4, <1>8, <1>9, <1>10 DEF EvidenceInv

(* Every other step disables no endpoint.                                    *)
LEMMA StepEvidence ==
  ASSUME TypeInv, EvidenceInv, [Next]_vars
  PROVE  /\ EvidenceInv'
         /\ \A e \in Endpoints : ~disabled[e] /\ disabled'[e] => streak'[e] >= Threshold \/ e \in blurred'
<1>. DEFINE Lifted == \A e \in Endpoints : disabled'[e] => disabled[e]
<1>. USE DEF TypeInv, TypeOK, RowTypes
<1>1. ASSUME NEW ev \in Events, DispatchEvent(ev) PROVE EvidenceInv' /\ Lifted
  BY <1>1, OtherEvidence DEF DispatchEvent, endpoint, worker, history, Burying
<1>2. ASSUME NEW d \in Deliveries, Enqueue(d) \/ BackoffPasses(d) \/ (\E n \in known[d] : Purge(d, n))
      PROVE EvidenceInv' /\ Lifted
  BY <1>2, OtherEvidence DEF Enqueue, BackoffPasses, Purge, endpoint, worker, history, Burying
<1>3. CASE RescueScan
  <2>. EvidenceInv' /\ Lifted
    BY <1>3, OtherEvidence DEF RescueScan, endpoint, worker, history, Burying
  <2>. QED OBVIOUS
<1>4. ASSUME NEW w \in Workers, Work(w), ~(Mark(w) /\ MarkDead(w)) PROVE EvidenceInv' /\ Lifted
  <2>1. ASSUME NEW d \in Deliveries, Take(w, d) PROVE EvidenceInv' /\ Lifted
    BY <2>1, OtherEvidence DEF Take, endpoint, history, WorkerTypes, Burying
  <2>2. ASSUME NEW answer \in BOOLEAN, Post(w, answer) PROVE EvidenceInv' /\ Lifted
    BY <2>2, OtherEvidence DEF Post, endpoint, WorkerTypes, Burying
  <2>3. CASE Readd(w)
    BY <2>3, OtherEvidence DEF Readd, Idle, endpoint, history, WorkerTypes, Burying
  <2>4. CASE Mark(w) /\ MarkSuccess(w)
    <3>1. Endpoint(job[w]) \in Endpoints BY <2>4, EndpointType DEF Mark, WorkerTypes
    <3>2. \A v \in Workers : Burying(v)' => Burying(v) /\ job'[v] = job[v] /\ fails'[v] = fails[v]
      BY <2>4 DEF MarkSuccess, Idle, WorkerTypes, Burying
    <3>. QED BY <2>4, <3>1, <3>2, EndEvidence DEF MarkSuccess
  <2>5. CASE Mark(w) /\ MarkFailed(w)
    BY <2>5, OtherEvidence DEF MarkFailed, endpoint, WorkerTypes, Burying
  <2>6. CASE Mark(w) /\ Idle(w) /\ UNCHANGED <<row, endpoint, streak, blurred>>
    BY <2>6, OtherEvidence DEF Idle, endpoint, WorkerTypes, Burying
  <2>7. CASE Look(w)
    BY <2>7, LookEvidence DEF Look, endpoint
  <2>. QED BY <1>4, <2>1, <2>2, <2>3, <2>4, <2>5, <2>6, <2>7 DEF Work, Mark
<1>5. ASSUME NEW w \in Workers, Mark(w), MarkDead(w)
      PROVE  /\ EvidenceInv'
             /\ \A e \in Endpoints : ~disabled[e] /\ disabled'[e] => streak'[e] >= Threshold \/ e \in blurred'
  <2>1. status[job[w]] # "deleted" => Burying(w)
    BY <1>5 DEF Mark, MarkSuccess, MarkFailed, MarkDead, Burying, WorkerTypes
  <2>2. status[job[w]] # "deleted"
    BY <1>5 DEF Mark, MarkDead, row, WorkerTypes
  <2>. QED BY <1>5, <2>1, <2>2, DeadEvidence
<1>6. CASE Customer
  <2>1. ASSUME NEW e \in Endpoints, ReactivateEndpoint(e) PROVE EvidenceInv' /\ Lifted
    <3>1. \A v \in Workers : Burying(v)' => Burying(v) /\ job'[v] = job[v] /\ fails'[v] = fails[v]
      BY <2>1 DEF ReactivateEndpoint, worker, Burying
    <3>. QED BY <2>1, <3>1, EndEvidence DEF ReactivateEndpoint
  <2>2. ASSUME NEW e \in Endpoints, NEW on \in BOOLEAN, SetActive(e, on) PROVE EvidenceInv' /\ Lifted
    BY <2>2, OtherEvidence DEF SetActive, worker, history, Burying
  <2>3. ASSUME NEW e \in Endpoints, DeleteEndpoint(e) PROVE EvidenceInv' /\ Lifted
    BY <2>3, OtherEvidence DEF DeleteEndpoint, worker, history, Burying
  <2>4. ASSUME NEW d \in Deliveries, Replay(d) PROVE EvidenceInv' /\ Lifted
    BY <2>4, OtherEvidence DEF Replay, endpoint, worker, history, Burying
  <2>. QED BY <1>6, <2>1, <2>2, <2>3, <2>4 DEF Customer
<1>7. CASE Faulty
  <2>1. ASSUME NEW w \in Workers, NEW again \in BOOLEAN, WorkerDies(w, again) PROVE EvidenceInv' /\ Lifted
    BY <2>1, OtherEvidence DEF WorkerDies, Idle, endpoint, history, WorkerTypes, Burying
  <2>2. ASSUME NEW d \in Deliveries, AddFails(d) PROVE EvidenceInv' /\ Lifted
    BY <2>2, OtherEvidence DEF AddFails, endpoint, worker, history, Burying
  <2>3. CASE RedisFlushed
    <3>. EvidenceInv' /\ Lifted BY <2>3, OtherEvidence DEF RedisFlushed, endpoint, worker, history, Burying
    <3>. QED OBVIOUS
  <2>. QED BY <1>7, <2>1, <2>2, <2>3 DEF Faulty
<1>8. CASE UNCHANGED vars
  <2>. EvidenceInv' /\ Lifted BY <1>8, OtherEvidence DEF vars, endpoint, worker, history, Burying
  <2>. QED OBVIOUS
<1>. QED BY <1>1, <1>2, <1>3, <1>4, <1>5, <1>6, <1>7, <1>8 DEF Next

(* Nothing disables an endpoint but Threshold deliveries dead-lettered in a  *)
(* row, unless its count is blurred.                                         *)
THEOREM DisabledFairly == Spec => DisabledOnEvidence
<1>1. Spec => []TypeInv BY InitTypes, StepTypes, PTL DEF Spec
<1>2. Spec => []EvidenceInv BY <1>1, InitEvidence, StepEvidence, PTL DEF Spec
<1>3. TypeInv /\ EvidenceInv /\ [Next]_vars =>
        [\A e \in Endpoints :
           ~disabled[e] /\ disabled'[e] => streak'[e] >= Threshold \/ e \in blurred']_vars
  BY StepEvidence
<1>. QED BY <1>1, <1>2, <1>3, PTL DEF Spec, DisabledOnEvidence
=============================================================================
