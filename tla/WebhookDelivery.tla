--------------------------- MODULE WebhookDelivery ---------------------------
(* Outgoing webhooks.  dispatchEvent stores one WebhookDelivery row per       *)
(* subscribed endpoint and puts its id into a BullMQ queue; workers post it,  *)
(* record the attempt in a second look at the row, and put the id back with   *)
(* a delay after a failure.  A scan every minute puts in every row that is    *)
(* due, whether its id is in the queue or not.  Nobody claims a row: several  *)
(* workers may post and record the same delivery at once.                     *)
EXTENDS Integers, FiniteSets

CONSTANTS
  Endpoints,      \* endpoints of an organization, subscribed to every event
  Events,         \* events of the organization
  Workers,        \* WORKER_CONCURRENCY
  NoDelivery,     \* what an idle worker works on
  MaxAttempts,    \* MAX_DELIVERY_ATTEMPTS, the length of RETRY_DELAYS_SEC
  Threshold,      \* AUTO_DISABLE_THRESHOLD
  RescueTake,     \* rows that one rescue scan takes
  MaxWaiting,     \* bound on the ready jobs of one delivery
  MaxRequests,    \* bound on the customer's requests
  MaxFaults       \* bound on deaths, failed adds and flushes of Redis

Deliveries == Events \X Endpoints
Endpoint(d) == d[2]

ASSUME WebhookConstants ==
  /\ NoDelivery \notin Deliveries /\ IsFiniteSet(Workers)
  /\ MaxAttempts \in Nat \ {0} /\ Threshold \in Nat \ {0} /\ RescueTake \in Nat \ {0}
  /\ MaxWaiting \in Nat \ {0} /\ MaxRequests \in Nat /\ MaxFaults \in Nat

VARIABLES
  status,       \* WebhookDelivery.status; "none" before and "deleted" after the row exists
  attempts,     \* WebhookDelivery.attempt_count
  due,          \* WebhookDelivery.next_attempt_at: null, in the future, or passed
  active,       \* WebhookEndpoint.active
  disabled,     \* WebhookEndpoint.disabled_at is set
  failures,     \* WebhookEndpoint.failure_count
  adding,       \* rows written whose queue.add is still to come
  ready,        \* how many jobs with the id of the delivery wait in the queue
  delayed,      \* the numbers of its delayed retry jobs
  known,        \* the numbers of the retry jobs that BullMQ remembers, finished ones too
  pc, job,      \* of a worker: what it does next, and the delivery
  read,         \* attempt_count when the job started
  ok,           \* the outcome of the POST
  count, fails, \* the attempt to record and the endpoint's failures, as read then
  posts,        \* history: POSTs made, up to MaxAttempts
  accepted,     \* history: the receiver has answered 2xx
  streak,       \* history: deliveries of an endpoint dead-lettered in a row, up to Threshold
  blurred,      \* history: endpoints whose failure_count has stopped telling them
  requests, faults

row == <<status, attempts, due>>
endpoint == <<active, disabled, failures>>
queue == <<adding, ready, delayed, known>>
worker == <<pc, job, read, ok, count, fails>>
history == <<posts, accepted, streak, blurred>>
vars == <<row, endpoint, queue, worker, history, requests, faults>>

UpTo(max, n) == IF n < max THEN n ELSE max
Settled == {"success", "dead_letter"}
Open == {"pending", "failed"}
Enabled(e) == active[e] /\ ~disabled[e]
Gone(e) == \E d \in Deliveries : Endpoint(d) = e /\ status[d] = "deleted"

Init ==
  /\ status = [d \in Deliveries |-> "none"]
  /\ attempts = [d \in Deliveries |-> 0]
  /\ due = [d \in Deliveries |-> "null"]
  /\ active = [e \in Endpoints |-> TRUE]
  /\ disabled = [e \in Endpoints |-> FALSE]
  /\ failures = [e \in Endpoints |-> 0]
  /\ adding = {}
  /\ ready = [d \in Deliveries |-> 0]
  /\ delayed = [d \in Deliveries |-> {}]
  /\ known = [d \in Deliveries |-> {}]
  /\ pc = [w \in Workers |-> "idle"]
  /\ job = [w \in Workers |-> NoDelivery]
  /\ read = [w \in Workers |-> 0]
  /\ ok = [w \in Workers |-> FALSE]
  /\ count = [w \in Workers |-> 0]
  /\ fails = [w \in Workers |-> 0]
  /\ posts = [d \in Deliveries |-> 0]
  /\ accepted = [d \in Deliveries |-> FALSE]
  /\ streak = [e \in Endpoints |-> 0]
  /\ blurred = {}
  /\ requests = 0 /\ faults = 0

(* ---- Producers ----------------------------------------------------------- *)

(* dispatchEvent: one transaction creates the rows of the enabled endpoints.  *)
DispatchEvent(ev) ==
  LET new == {d \in Deliveries : d[1] = ev /\ Enabled(Endpoint(d)) /\ status[d] # "deleted"} IN
  /\ \A d \in Deliveries : d[1] = ev => status[d] \in {"none", "deleted"}
  /\ new # {}
  /\ status' = [d \in Deliveries |-> IF d \in new THEN "pending" ELSE status[d]]
  /\ due' = [d \in Deliveries |-> IF d \in new THEN "now" ELSE due[d]]
  /\ adding' = adding \cup new
  /\ UNCHANGED <<attempts, endpoint, ready, delayed, known, worker, history, requests, faults>>

(* queue.add of dispatchEvent and of replayDelivery, under a fresh job id.    *)
Enqueue(d) ==
  /\ d \in adding /\ ready[d] < MaxWaiting
  /\ adding' = adding \ {d}
  /\ ready' = [ready EXCEPT ![d] = @ + 1]
  /\ UNCHANGED <<row, endpoint, delayed, known, worker, history, requests, faults>>

(* What the rescue scan looks for.                                            *)
OverdueFailed(d) == status[d] = "failed" /\ due[d] = "now"    \* mutant: retries only
Overdue(d) == status[d] \in Open /\ due[d] = "now"

(* rescueScan: up to RescueTake such rows, in no order, whatever their        *)
(* endpoint; it does not look whether the queue holds them already.           *)
RescueScan ==
  \E some \in SUBSET {d \in Deliveries : Overdue(d)} :
    /\ Cardinality(some) = UpTo(RescueTake, Cardinality({d \in Deliveries : Overdue(d)}))
    /\ ready' = [d \in Deliveries |-> IF d \in some /\ ready[d] < MaxWaiting THEN ready[d] + 1 ELSE ready[d]]
    /\ UNCHANGED <<row, endpoint, adding, delayed, known, worker, history, requests, faults>>

(* ---- A worker ------------------------------------------------------------ *)

Idle(w) ==
  /\ pc' = [pc EXCEPT ![w] = "idle"]
  /\ job' = [job EXCEPT ![w] = NoDelivery]
  /\ read' = [read EXCEPT ![w] = 0]
  /\ ok' = [ok EXCEPT ![w] = FALSE]
  /\ count' = [count EXCEPT ![w] = 0]
  /\ fails' = [fails EXCEPT ![w] = 0]

Deliverable(d) == status[d] \in Open /\ Enabled(Endpoint(d))

(* processDelivery, up to the POST.  A row that is settled or gone, or whose  *)
(* endpoint is disabled, is left as it is.                                    *)
Take(w, d) ==
  /\ pc[w] = "idle" /\ ready[d] > 0
  /\ ready' = [ready EXCEPT ![d] = @ - 1]
  /\ IF Deliverable(d)
     THEN /\ pc' = [pc EXCEPT ![w] = "post"]
          /\ job' = [job EXCEPT ![w] = d]
          /\ read' = [read EXCEPT ![w] = attempts[d]]
     ELSE UNCHANGED <<pc, job, read>>
  /\ UNCHANGED <<row, endpoint, adding, delayed, known, ok, count, fails, history, requests, faults>>

(* postDelivery: 2xx or not.                                                  *)
Post(w, answer) ==
  /\ pc[w] = "post"
  /\ pc' = [pc EXCEPT ![w] = "look"]
  /\ ok' = [ok EXCEPT ![w] = answer]
  /\ posts' = [posts EXCEPT ![job[w]] = UpTo(MaxAttempts, @ + 1)]
  /\ accepted' = [accepted EXCEPT ![job[w]] = @ \/ answer]
  /\ UNCHANGED <<row, endpoint, queue, job, read, count, fails, streak, blurred, requests, faults>>

(* markDeliveryAttempt reads row and endpoint again; a deleted row throws ... *)
Look(w) ==
  /\ pc[w] = "look"
  /\ IF status[job[w]] = "deleted" THEN Idle(w)
     ELSE /\ pc' = [pc EXCEPT ![w] = "mark"]
          /\ count' = [count EXCEPT ![w] = attempts[job[w]] + 1]
          /\ fails' = [fails EXCEPT ![w] = failures[Endpoint(job[w])]]
          /\ UNCHANGED <<job, read, ok>>
  /\ UNCHANGED <<row, endpoint, queue, history, requests, faults>>

(* ... and decides: RETRY_DELAYS_SEC[n] is the delay after attempt n; the     *)
(* array ends before index MaxAttempts.                                       *)
RetriesOnce(n) == n <= MaxAttempts    \* mutant: one attempt past the schedule
RetriesLess(n) == n + 1 < MaxAttempts    \* mutant: one attempt fewer
Retries(n) == n < MaxAttempts
DueAfter(n) == IF n < MaxAttempts THEN "later" ELSE "null"

(* A worker about to record a dead-lettering, its failure_count already read. *)
Burying(w) == pc[w] = "mark" /\ ~ok[w] /\ ~Retries(count[w])

(* failure_count is set to 0: a row of dead-letterings ends here, unless one  *)
(* that was read before it is still to be written over it.                    *)
StreakEnds(e) ==
  IF \E w \in Workers : Burying(w) /\ Endpoint(job[w]) = e
  THEN blurred' = blurred \cup {e} /\ UNCHANGED streak
  ELSE blurred' = blurred \ {e} /\ streak' = [streak EXCEPT ![e] = 0]

MarkSuccessStillDue(w) ==    \* mutant: next_attempt_at is not cleared
  /\ status' = [status EXCEPT ![job[w]] = "success"]
  /\ failures' = [failures EXCEPT ![Endpoint(job[w])] = 0]
  /\ StreakEnds(Endpoint(job[w]))
  /\ Idle(w)
  /\ UNCHANGED <<due, active, disabled>>

MarkSuccessUncounted(w) ==    \* mutant: failure_count is not reset
  /\ status' = [status EXCEPT ![job[w]] = "success"]
  /\ due' = [due EXCEPT ![job[w]] = "null"]
  /\ StreakEnds(Endpoint(job[w]))
  /\ Idle(w)
  /\ UNCHANGED endpoint

(* Success: the row is settled, the endpoint's failures start again from 0.   *)
MarkSuccess(w) ==
  /\ status' = [status EXCEPT ![job[w]] = "success"]
  /\ due' = [due EXCEPT ![job[w]] = "null"]
  /\ failures' = [failures EXCEPT ![Endpoint(job[w])] = 0]
  /\ StreakEnds(Endpoint(job[w]))
  /\ Idle(w)
  /\ UNCHANGED <<active, disabled>>

Disables(n) == n >= Threshold

(* The last attempt failed: dead-lettered, and counted against the endpoint,  *)
(* a second time if another worker had recorded the same end.                 *)
MarkDead(w) ==
  LET e == Endpoint(job[w])
      n == fails[w] + 1 IN
  /\ status' = [status EXCEPT ![job[w]] = "dead_letter"]
  /\ due' = [due EXCEPT ![job[w]] = "null"]
  /\ failures' = [failures EXCEPT ![e] = n]
  /\ active' = [active EXCEPT ![e] = @ /\ ~Disables(n)]
  /\ disabled' = [disabled EXCEPT ![e] = @ \/ Disables(n)]
  /\ IF status[job[w]] = "dead_letter" THEN blurred' = blurred \cup {e} /\ UNCHANGED streak
     ELSE streak' = [streak EXCEPT ![e] = UpTo(Threshold, @ + 1)] /\ UNCHANGED blurred
  /\ Idle(w)

(* Another attempt failed: the row says when to try again.                    *)
MarkFailed(w) ==
  /\ status' = [status EXCEPT ![job[w]] = "failed"]
  /\ due' = [due EXCEPT ![job[w]] = DueAfter(count[w])]
  /\ pc' = [pc EXCEPT ![w] = "readd"]
  /\ UNCHANGED <<endpoint, streak, blurred, job, read, ok, count, fails>>

(* The transaction of markDeliveryAttempt, by id: whatever the row says by    *)
(* now.  It throws when the row has been deleted.                             *)
Mark(w) ==
  /\ pc[w] = "mark"
  /\ IF status[job[w]] = "deleted" THEN Idle(w) /\ UNCHANGED <<row, endpoint, streak, blurred>>
     ELSE /\ attempts' = [attempts EXCEPT ![job[w]] = count[w]]
          /\ IF ok[w] THEN MarkSuccess(w)
             ELSE IF Retries(count[w]) THEN MarkFailed(w) ELSE MarkDead(w)
  /\ UNCHANGED <<queue, posts, accepted, requests, faults>>

(* The retry job, under an id made of the attempt the job started from:       *)
(* BullMQ ignores an id it still remembers.                                   *)
Readd(w) ==
  /\ pc[w] = "readd"
  /\ LET d == job[w]
         n == read[w] + 1 IN
     IF DueAfter(count[w]) = "null" \/ n \in known[d] THEN UNCHANGED <<delayed, known>>
     ELSE /\ delayed' = [delayed EXCEPT ![d] = @ \cup {n}]
          /\ known' = [known EXCEPT ![d] = @ \cup {n}]
  /\ Idle(w)
  /\ UNCHANGED <<row, endpoint, adding, ready, history, requests, faults>>

Work(w) ==
  \/ (\E d \in Deliveries : Take(w, d)) \/ (\E answer \in BOOLEAN : Post(w, answer))
  \/ Look(w) \/ Mark(w) \/ Readd(w)

(* ---- The customer -------------------------------------------------------- *)

Request == requests < MaxRequests /\ requests' = requests + 1

(* replayDelivery, of a row in any status.                                    *)
Replay(d) ==
  /\ Request
  /\ status[d] \in Open \cup Settled
  /\ status' = [status EXCEPT ![d] = "pending"]
  /\ attempts' = [attempts EXCEPT ![d] = 0]
  /\ due' = [due EXCEPT ![d] = "now"]
  /\ adding' = adding \cup {d}
  /\ UNCHANGED <<endpoint, ready, delayed, known, worker, history, faults>>

(* updateEndpoint: active alone; disabled_at stays.                           *)
SetActive(e, on) ==
  /\ Request
  /\ ~Gone(e) /\ active[e] # on
  /\ active' = [active EXCEPT ![e] = on]
  /\ UNCHANGED <<row, disabled, failures, queue, worker, history, faults>>

ReactivateEndpoint(e) ==
  /\ Request
  /\ ~Gone(e)
  /\ active' = [active EXCEPT ![e] = TRUE]
  /\ disabled' = [disabled EXCEPT ![e] = FALSE]
  /\ failures' = [failures EXCEPT ![e] = 0]
  /\ StreakEnds(e)
  /\ UNCHANGED <<row, queue, worker, posts, accepted, faults>>

(* deleteEndpoint cascades to its deliveries, not to their jobs.              *)
DeleteEndpoint(e) ==
  /\ Request
  /\ ~Gone(e)
  /\ active' = [active EXCEPT ![e] = FALSE]
  /\ status' = [d \in Deliveries |-> IF Endpoint(d) = e THEN "deleted" ELSE status[d]]
  /\ due' = [d \in Deliveries |-> IF Endpoint(d) = e THEN "null" ELSE due[d]]
  /\ UNCHANGED <<attempts, disabled, failures, queue, worker, history, faults>>

Customer ==
  \/ \E d \in Deliveries : Replay(d)
  \/ \E e \in Endpoints : ReactivateEndpoint(e) \/ DeleteEndpoint(e) \/ (\E on \in BOOLEAN : SetActive(e, on))

(* ---- Time and faults ----------------------------------------------------- *)

(* The backoff has passed: the row is due, and its delayed jobs are ready.    *)
BackoffPasses(d) ==
  /\ due[d] = "later" \/ delayed[d] # {}
  /\ due' = [due EXCEPT ![d] = IF @ = "later" THEN "now" ELSE @]
  /\ ready' = [ready EXCEPT ![d] = UpTo(MaxWaiting, @ + Cardinality(delayed[d]))]
  /\ delayed' = [delayed EXCEPT ![d] = {}]
  /\ UNCHANGED <<status, attempts, endpoint, adding, known, worker, history, requests, faults>>

(* BullMQ drops a finished job for good (removeOnComplete, removeOnFail).     *)
Purge(d, n) ==
  /\ n \in known[d] \ delayed[d]
  /\ known' = [known EXCEPT ![d] = @ \ {n}]
  /\ UNCHANGED <<row, endpoint, adding, ready, delayed, worker, history, requests, faults>>

Fault == faults < MaxFaults /\ faults' = faults + 1

(* A worker dies at any await: its job is run again as stalled, or dropped.   *)
WorkerDies(w, again) ==
  /\ Fault
  /\ pc[w] # "idle"
  /\ ready' = [ready EXCEPT ![job[w]] = IF again /\ @ < MaxWaiting THEN @ + 1 ELSE @]
  /\ Idle(w)
  /\ UNCHANGED <<row, endpoint, adding, delayed, known, history, requests>>

(* The process dies between the rows and queue.add, or the add throws.        *)
AddFails(d) ==
  /\ Fault
  /\ d \in adding
  /\ adding' = adding \ {d}
  /\ UNCHANGED <<row, endpoint, ready, delayed, known, worker, history, requests>>

RedisFlushed ==
  /\ Fault
  /\ ready' = [d \in Deliveries |-> 0]
  /\ delayed' = [d \in Deliveries |-> {}]
  /\ known' = [d \in Deliveries |-> {}]
  /\ UNCHANGED <<row, endpoint, adding, worker, history, requests>>

Faulty == RedisFlushed \/ (\E d \in Deliveries : AddFails(d)) \/ (\E w \in Workers, again \in BOOLEAN : WorkerDies(w, again))

Next ==
  \/ \E ev \in Events : DispatchEvent(ev)
  \/ \E d \in Deliveries : Enqueue(d) \/ BackoffPasses(d) \/ (\E n \in known[d] : Purge(d, n))
  \/ RescueScan
  \/ \E w \in Workers : Work(w)
  \/ Customer
  \/ Faulty

Spec == Init /\ [][Next]_vars

(* The workers and the scan run for ever, every await ends, time passes.      *)
Fairness ==
  /\ \A w \in Workers : WF_vars(Look(w) \/ Mark(w) \/ Readd(w) \/ (\E answer \in BOOLEAN : Post(w, answer)))
  /\ \A d \in Deliveries : /\ SF_vars(\E w \in Workers : Take(w, d))
                           /\ WF_vars(Enqueue(d)) /\ WF_vars(BackoffPasses(d))
  /\ WF_vars(RescueScan)
FairSpec == Spec /\ Fairness

(* ---- Properties ---------------------------------------------------------- *)

RowTypes ==
  /\ status \in [Deliveries -> {"none", "deleted"} \cup Open \cup Settled]
  /\ attempts \in [Deliveries -> Nat]
  /\ due \in [Deliveries -> {"null", "later", "now"}]
  /\ \A d \in Deliveries : status[d] \notin Open => due[d] = "null"
  /\ active \in [Endpoints -> BOOLEAN] /\ disabled \in [Endpoints -> BOOLEAN]
  /\ failures \in [Endpoints -> Nat]

QueueTypes ==
  /\ adding \in SUBSET Deliveries
  /\ ready \in [Deliveries -> 0 .. MaxWaiting]
  /\ known \in [Deliveries -> SUBSET (Nat \ {0})]
  /\ delayed \in [Deliveries -> SUBSET (Nat \ {0})]
  /\ \A d \in Deliveries : delayed[d] \subseteq known[d]

WorkerTypes ==
  /\ pc \in [Workers -> {"idle", "post", "look", "mark", "readd"}]
  /\ job \in [Workers -> Deliveries \cup {NoDelivery}]
  /\ \A w \in Workers : pc[w] # "idle" => job[w] \in Deliveries
  /\ read \in [Workers -> Nat] /\ ok \in [Workers -> BOOLEAN]
  /\ count \in [Workers -> Nat] /\ fails \in [Workers -> Nat]

HistoryTypes ==
  /\ posts \in [Deliveries -> 0 .. MaxAttempts]
  /\ accepted \in [Deliveries -> BOOLEAN]
  /\ streak \in [Endpoints -> 0 .. Threshold] /\ blurred \in SUBSET Endpoints
  /\ requests \in Nat /\ faults \in Nat

(* Types; next_attempt_at is "null when terminal" (schema.prisma:329), and a  *)
(* delayed job is remembered.                                                 *)
TypeOK == RowTypes /\ QueueTypes /\ WorkerTypes /\ HistoryTypes

(* A delivery that is still open always says when it is next due, so that the *)
(* rescue scan reaches it whatever was lost of the queue: no order of racing  *)
(* attempts and replays leaves an open row with next_attempt_at null.         *)
NeverStranded == \A d \in Deliveries : status[d] \in Open => due[d] # "null"

(* What the customer's log says is true of the network, though attempts are   *)
(* counted by a read and a later write: a delivery is dead-lettered only      *)
(* after it has been posted MaxAttempts times, and is a success only if the   *)
(* receiver has accepted it.                                                  *)
GivesUpLate ==
  \A d \in Deliveries :
    /\ status[d] = "dead_letter" => posts[d] >= MaxAttempts
    /\ status[d] = "success" => accepted[d]

(* An endpoint is disabled only when Threshold of its deliveries have become  *)
(* dead-lettered in a row ("after this many consecutive dead-lettered         *)
(* deliveries"), with no success and no reactivation recorded among them,     *)
(* however the racing writes of failure_count overwrite each other - but for  *)
(* the two races that blur it: one delivery dead-lettered by two workers      *)
(* counts twice, and a success recorded between the read and the write of a   *)
(* dead-lettering is forgotten.                                               *)
DisabledOnEvidence ==
  [][\A e \in Endpoints :
       ~disabled[e] /\ disabled'[e] => streak'[e] >= Threshold \/ e \in blurred']_vars

(* Every delivery is settled in the end, unless its endpoint is disabled or   *)
(* gone: what is lost to a crash, a failed add or a flush comes back with the *)
(* rescue scan.                                                               *)
Settles ==
  \A d \in Deliveries :
    status[d] \in Open ~> status[d] \notin Open \/ ~Enabled(Endpoint(d))

=============================================================================
