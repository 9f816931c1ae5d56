------------------------------ MODULE WarmupPool ------------------------------
(* The warmup pool.  Four timers share two tables: the sender worker plans    *)
(* exchanges between mailboxes of different organizations, the dispatch       *)
(* worker claims and transmits them, the recipient worker looks for them in   *)
(* the recipient's mailbox, rescues them from spam and plans replies, and the *)
(* ramp worker raises each membership's daily volume once a day.  Nothing but *)
(* the dispatch worker's claim keeps the instances of the service apart.      *)
EXTENDS Integers, FiniteSets

CONSTANTS
  Mailboxes,       \* one of each organization, on domains of their own
  Exchanges,       \* WarmupExchange rows in use at a time
  Nobody,          \* no mailbox, no exchange
  Dispatchers,     \* instances whose dispatch worker runs
  Engagers,        \* instances whose recipient worker runs
  Rampers,         \* instances whose ramp worker runs
  NoImap,          \* mailboxes connected by OAuth: no IMAP password to log in with
  Folders,         \* where the mail may land
  StartDaily, TargetDaily, MaintenanceDaily,
  RampChoices,     \* the ramp_days a customer may configure
  MaxSteps,        \* bound on ramp_step, past every ramp
  PauseAt, ErrorAt,\* SPAM_RATE_PAUSE_THRESHOLD, SPAM_RATE_ERROR_THRESHOLD, in percent
  BatchSize,       \* rows that a tick of the recipient worker takes
  MaxDepth,        \* MAX_THREAD_DEPTH
  Kinds,           \* which events happen in the behaviours considered
  MaxEvents        \* bound on their number

ASSUME PoolConstants ==
  /\ IsFiniteSet(Exchanges) /\ Nobody \notin Mailboxes \cup Exchanges
  /\ NoImap \subseteq Mailboxes /\ Folders \subseteq {"inbox", "promotions", "spam"}
  /\ StartDaily \in Nat /\ TargetDaily \in Nat /\ MaintenanceDaily \in Nat /\ StartDaily <= TargetDaily
  /\ MaxSteps \in Nat /\ RampChoices # {} /\ RampChoices \subseteq 1 .. MaxSteps
  /\ PauseAt \in Nat /\ ErrorAt \in Nat /\ BatchSize \in Nat \ {0} /\ MaxDepth \in Nat
  /\ MaxEvents \in Nat

ASSUME KindsOfEvents == Kinds \subseteq {"request", "failure", "restart"}

VARIABLES
  member,      \* WarmupPoolMembership of each mailbox
  touched,     \* its updated_at is of today
  consent,     \* the organization's consent, with a subscription that has not lapsed
  row,         \* WarmupExchange: state, the two mailboxes, thread_id, thread_depth
  stored,      \* message_id is set (and with it sent_at)
  landed,      \* landed_in, "null" when it is not set
  today,       \* created_at is of today
  late,        \* sent_at is more than FRESHNESS_HOURS ago
  earlier,     \* sent_at: the rows still waiting for the recipient that were sent before
  copies,      \* how often SMTP has accepted the row's message
  folder,      \* where the message lies on the recipient's side
  sending,     \* of a dispatch worker: its step, and the row it has claimed
  engaging,    \* of a recipient worker: its step, the rows still to do, the row, the outcome
  planning,    \* of the sender worker: the mailbox it is at, and the rows still to create
  ramping,     \* of the ramp worker: the memberships still to do, and all as the tick read them
  advanced,    \* history: the ramp has advanced today
  events       \* requests and faults so far

memberships == <<member, touched, consent>>
exchanges == <<row, stored, landed, today, late, earlier>>
mail == <<copies, folder>>
workers == <<sending, engaging, planning, ramping>>
vars == <<memberships, exchanges, mail, workers, advanced, events>>

UpTo(max, n) == IF n < max THEN n ELSE max

Outsider == [joined |-> FALSE, enabled |-> FALSE, health |-> "paused", step |-> 0, daily |-> 0, days |-> MaxSteps]
Unused == [state |-> "free", from |-> Nobody, to |-> Nobody, thread |-> Nobody, depth |-> 0]
NotSending == [at |-> "idle", x |-> Nobody]
NotEngaging == [at |-> "idle", rest |-> {}, x |-> Nobody, found |-> "null", rescued |-> FALSE]
NotPlanning == [m |-> Nobody, left |-> 0]
NotRamping == [todo |-> {}, read |-> [m \in Mailboxes |-> Outsider], fresh |-> [m \in Mailboxes |-> FALSE]]

Init ==
  /\ member = [m \in Mailboxes |-> Outsider]
  /\ touched = [m \in Mailboxes |-> FALSE]
  /\ consent = [m \in Mailboxes |-> TRUE]
  /\ row = [x \in Exchanges |-> Unused]
  /\ stored = [x \in Exchanges |-> FALSE]
  /\ landed = [x \in Exchanges |-> "null"]
  /\ today = [x \in Exchanges |-> FALSE]
  /\ late = [x \in Exchanges |-> FALSE]
  /\ earlier = [x \in Exchanges |-> {}]
  /\ copies = [x \in Exchanges |-> 0]
  /\ folder = [x \in Exchanges |-> "null"]
  /\ sending = [d \in Dispatchers |-> NotSending]
  /\ engaging = [e \in Engagers |-> NotEngaging]
  /\ planning = NotPlanning
  /\ ramping = [i \in Rampers |-> NotRamping]
  /\ advanced = [m \in Mailboxes |-> FALSE]
  /\ events = 0

(* ---- The sender worker --------------------------------------------------- *)

SentToday(m) == Cardinality({x \in Exchanges : row[x].from = m /\ today[x]})
Working(m) == member[m].joined /\ member[m].enabled /\ member[m].health \in {"warming", "maintenance"} /\ consent[m]

(* tick and scheduleForMembership: what is left of the day's volume, or the   *)
(* share of this tick, any number from 1 on: it depends on the hour.  The     *)
(* membership as listed by the tick is stale when the rows are created.       *)
PlanCount(m) ==
  /\ planning = NotPlanning
  /\ Working(m)
  /\ \E n \in 1 .. member[m].daily - SentToday(m) : planning' = [m |-> m, left |-> n]
  /\ UNCHANGED <<memberships, exchanges, mail, sending, engaging, ramping, advanced, events>>

(* pickRecipient: a working member of another organization that m has not     *)
(* been paired with within the rotation window, today's rows at least.        *)
Eligible(m, r) ==
  /\ r # m /\ Working(r)
  /\ ~ \E x \in Exchanges : row[x].from = m /\ row[x].to = r /\ today[x]

Create(x, exchange) ==
  /\ row[x] = Unused
  /\ row' = [row EXCEPT ![x] = exchange]
  /\ today' = [today EXCEPT ![x] = TRUE]
  /\ UNCHANGED <<stored, landed, late, earlier>>

PlanCreate(x, r) ==
  /\ planning.m # Nobody
  /\ Eligible(planning.m, r)
  /\ Create(x, [state |-> "scheduled", from |-> planning.m, to |-> r, thread |-> Nobody, depth |-> 0])
  /\ planning' = IF planning.left = 1 THEN NotPlanning ELSE [planning EXCEPT !.left = @ - 1]
  /\ UNCHANGED <<memberships, mail, sending, engaging, ramping, advanced, events>>

(* No candidate in MAX_CANDIDATE_SAMPLES samples, which may happen any time.  *)
PlanExhausted ==
  /\ planning.m # Nobody
  /\ planning' = NotPlanning
  /\ UNCHANGED <<memberships, exchanges, mail, sending, engaging, ramping, advanced, events>>

Plan ==
  \/ PlanExhausted
  \/ \E m \in Mailboxes : PlanCount(m) \/ (\E x \in Exchanges : PlanCreate(x, m))

(* ---- The dispatch worker ------------------------------------------------- *)

ClaimableAgain(x) == row[x].state \in {"scheduled", "sent"} /\ ~stored[x]    \* mutant: unfinished rows too
ClaimableFailed(x) == row[x].state \in {"scheduled", "failed"}    \* mutant: failed rows are tried again
Claimable(x) == row[x].state = "scheduled"

(* dispatchOne claims the row by setting its state tentatively.               *)
Claim(d, x) ==
  /\ sending[d] = NotSending
  /\ Claimable(x)
  /\ row' = [row EXCEPT ![x].state = "sent"]
  /\ sending' = [sending EXCEPT ![d] = [at |-> "send", x |-> x]]
  /\ UNCHANGED <<memberships, stored, landed, today, late, earlier, mail, engaging, planning, ramping, advanced, events>>

WaitingStill == {x \in Exchanges : stored[x]}    \* mutant: the query does not look at the state
Waiting == {x \in Exchanges : row[x].state = "sent" /\ stored[x]}

(* The row is given up: it stays out of every later query of the workers.     *)
Fail(d) ==
  /\ row' = [row EXCEPT ![sending[d].x].state = "failed"]
  /\ sending' = [sending EXCEPT ![d] = NotSending]

(* sendWarmupEmail: SMTP accepts the message, which lands in some folder; if  *)
(* the answer is lost, the row fails all the same.                            *)
Transmit(d, where, answered) ==
  /\ sending[d].at = "send"
  /\ copies' = [copies EXCEPT ![sending[d].x] = @ + 1]
  /\ folder' = [folder EXCEPT ![sending[d].x] = where]
  /\ IF answered THEN sending' = [sending EXCEPT ![d].at = "record"] /\ UNCHANGED row ELSE Fail(d)
  /\ UNCHANGED <<memberships, stored, landed, today, late, earlier, engaging, planning, ramping, advanced, events>>

(* No account, no credentials, a blacklisted infrastructure, or SMTP refuses. *)
Refuse(d) ==
  /\ sending[d].at = "send"
  /\ Fail(d)
  /\ UNCHANGED <<memberships, stored, landed, today, late, earlier, mail, engaging, planning, ramping, advanced, events>>

(* The message id, and the thread: a first message starts its own.  Then      *)
(* total_sent of the sender, and with it updated_at, unless that throws.      *)
Record(d, counted) ==
  LET x == sending[d].x IN
  /\ sending[d].at = "record"
  /\ row' = [row EXCEPT ![x].state = "sent", ![x].thread = IF @ = Nobody THEN x ELSE @]
  /\ stored' = [stored EXCEPT ![x] = TRUE]
  /\ earlier' = [earlier EXCEPT ![x] = Waiting]
  /\ touched' = [touched EXCEPT ![row[x].from] = @ \/ counted]
  /\ sending' = [sending EXCEPT ![d] = NotSending]
  /\ UNCHANGED <<member, consent, landed, today, late, mail, engaging, planning, ramping, advanced, events>>

Dispatch(d) ==
  \/ (\E where \in Folders, answered \in BOOLEAN : Transmit(d, where, answered))
  \/ Refuse(d) \/ (\E counted \in BOOLEAN : Record(d, counted))

(* ---- The recipient worker ------------------------------------------------ *)

(* tick: the BatchSize rows that have waited longest.  Those of a mailbox     *)
(* without IMAP are part of the batch and are passed over.                    *)
Batch == {x \in Waiting : Cardinality(earlier[x]) < BatchSize}
EngageTick(e) ==
  /\ engaging[e] = NotEngaging
  /\ \E x \in Batch : row[x].to \notin NoImap
  /\ engaging' = [engaging EXCEPT ![e].at = "each", ![e].rest = {x \in Batch : row[x].to \notin NoImap}]
  /\ UNCHANGED <<memberships, exchanges, mail, sending, planning, ramping, advanced, events>>

NextRow(e) ==
  IF engaging[e].rest = {} THEN NotEngaging ELSE [NotEngaging EXCEPT !.at = "each", !.rest = engaging[e].rest]

Past(e, x) == IF engaging[e].rest = {x} THEN NotEngaging ELSE [engaging[e] EXCEPT !.rest = @ \ {x}]

RepliesDeeper(x) == row[x].depth <= MaxDepth    \* mutant: off by one
Replies(x) == row[x].depth < MaxDepth
Leave(x) == earlier' = [y \in Exchanges |-> IF y = x THEN {} ELSE earlier[y] \ {x}]

NeverExpired(x) == FALSE    \* mutant: no freshness window
Expired(x) == late[x]

(* processOne: a row past the freshness window is written off unread.         *)
WriteOff(e, x) ==
  /\ engaging[e].at = "each" /\ x \in engaging[e].rest
  /\ Expired(x)
  /\ row' = [row EXCEPT ![x].state = "bounced"]
  /\ Leave(x)
  /\ engaging' = [engaging EXCEPT ![e] = Past(e, x)]
  /\ UNCHANGED <<memberships, stored, landed, today, late, mail, sending, planning, ramping, advanced, events>>

(* processIncomingWarmup: search the folders, mark the message as read and    *)
(* move it to the inbox if it lies elsewhere.                                 *)
Find(e, x, moved) ==
  /\ engaging[e].at = "each" /\ x \in engaging[e].rest
  /\ ~Expired(x) /\ folder[x] # "null"
  /\ moved => folder[x] # "inbox"
  /\ folder' = [folder EXCEPT ![x] = IF moved THEN "inbox" ELSE @]
  /\ engaging' = [engaging EXCEPT ![e] =
       [at |-> "write", rest |-> @.rest \ {x}, x |-> x, found |-> folder[x], rescued |-> moved]]
  /\ UNCHANGED <<memberships, exchanges, copies, sending, planning, ramping, advanced, events>>

(* Not delivered yet, or the login fails: the next tick tries again.          *)
Miss(e, x) ==
  /\ engaging[e].at = "each" /\ x \in engaging[e].rest
  /\ ~Expired(x)
  /\ engaging' = [engaging EXCEPT ![e] = Past(e, x)]
  /\ UNCHANGED <<memberships, exchanges, mail, sending, planning, ramping, advanced, events>>

(* The outcome is written by id, before the reply is planned; then come       *)
(* total_received of the recipient and its updated_at, or this throws and     *)
(* there is no reply.                                                         *)
WriteOutcome(e, counted) ==
  LET x == engaging[e].x IN
  /\ engaging[e].at = "write"
  /\ row' = [row EXCEPT ![x].state = IF engaging[e].rescued THEN "recovered_from_spam" ELSE "opened"]
  /\ landed' = [landed EXCEPT ![x] = engaging[e].found]
  /\ Leave(x)
  /\ touched' = [touched EXCEPT ![row[x].to] = @ \/ counted]
  /\ engaging' = [engaging EXCEPT ![e] =
       IF counted /\ Replies(x) THEN [NotEngaging EXCEPT !.at = "reply", !.rest = engaging[e].rest, !.x = x] ELSE NextRow(e)]
  /\ UNCHANGED <<member, consent, stored, today, late, mail, sending, planning, ramping, advanced, events>>

(* With REPLY_PROBABILITY a reply is planned, the roles reversed, whatever    *)
(* the volume, the state or the consent of the mailbox that is to send it.    *)
Reply(e, y) ==
  LET x == engaging[e].x IN
  /\ engaging[e].at = "reply"
  /\ Create(y, [state |-> "scheduled", from |-> row[x].to, to |-> row[x].from,
                thread |-> row[x].thread, depth |-> row[x].depth + 1])
  /\ engaging' = [engaging EXCEPT ![e] = NextRow(e)]
  /\ UNCHANGED <<memberships, mail, sending, planning, ramping, advanced, events>>

NoReply(e) ==
  /\ engaging[e].at = "reply"
  /\ engaging' = [engaging EXCEPT ![e] = NextRow(e)]
  /\ UNCHANGED <<memberships, exchanges, mail, sending, planning, ramping, advanced, events>>

Engage(e) ==
  \/ (\E x \in engaging[e].rest : WriteOff(e, x) \/ Miss(e, x) \/ (\E moved \in BOOLEAN : Find(e, x, moved)))
  \/ (\E counted \in BOOLEAN : WriteOutcome(e, counted)) \/ (\E y \in Exchanges : Reply(e, y)) \/ NoReply(e)

(* ---- The ramp worker ----------------------------------------------------- *)

(* computeDailyForStep: linear from start to target, rounded half up.         *)
Daily(step, days) ==
  IF step >= days THEN MaintenanceDaily
  ELSE (2 * (StartDaily * days + step * (TargetDaily - StartDaily)) + days) \div (2 * days)

(* computeSpamRate: of the messages seen, the part not seen in the inbox.     *)
Seen(m) == {x \in Exchanges : row[x].from = m /\ stored[x] /\ landed[x] # "null"}
SpamRateReaches(m, percent) ==
  /\ Seen(m) # {}
  /\ 100 * Cardinality({x \in Seen(m) : landed[x] \in {"spam", "promotions"}}) >= percent * Cardinality(Seen(m))

RampTick(i) ==
  /\ ramping[i] = NotRamping
  /\ \E m \in Mailboxes : member[m].joined
  /\ ramping' = [ramping EXCEPT ![i] =
       [todo |-> {m \in Mailboxes : member[m].joined}, read |-> member, fresh |-> touched]]
  /\ UNCHANGED <<memberships, exchanges, mail, sending, engaging, planning, advanced, events>>

RampDone(i, m) ==
  ramping' = [ramping EXCEPT ![i] =
    IF @.todo = {m} THEN NotRamping
    ELSE [todo |-> @.todo \ {m}, read |-> [@.read EXCEPT ![m] = Outsider], fresh |-> [@.fresh EXCEPT ![m] = FALSE]]]

RampedEver(i, m) == FALSE    \* mutant: the date is not looked at
RampedToday(i, m) == ramping[i].fresh[m]

(* processMembership takes updated_at for the date of the last advance.       *)
RampSkip(i, m) ==
  /\ m \in ramping[i].todo
  /\ RampedToday(i, m)
  /\ RampDone(i, m)
  /\ UNCHANGED <<memberships, exchanges, mail, sending, engaging, planning, advanced, events>>

(* decideNextRamp, of the membership as the tick read it.                     *)
NextRamp(i, m) ==
  LET was == ramping[i].read[m]
      step == UpTo(MaxSteps, was.step + 1) IN
  IF ~was.enabled THEN [step |-> was.step, daily |-> 0, health |-> "paused"]
  ELSE IF SpamRateReaches(m, ErrorAt) THEN [step |-> was.step, daily |-> 0, health |-> "error"]
  ELSE IF SpamRateReaches(m, PauseAt) THEN [step |-> was.step, daily |-> Daily(was.step, was.days), health |-> "warming"]
  ELSE [step |-> step, daily |-> Daily(step, was.days), health |-> IF step >= was.days THEN "maintenance" ELSE "warming"]

RampWrite(i, m) ==
  /\ m \in ramping[i].todo
  /\ ~RampedToday(i, m)
  /\ member' = [member EXCEPT ![m].step = NextRamp(i, m).step, ![m].daily = NextRamp(i, m).daily, ![m].health = NextRamp(i, m).health]
  /\ touched' = [touched EXCEPT ![m] = TRUE]
  /\ advanced' = [advanced EXCEPT ![m] = @ \/ NextRamp(i, m).step # member[m].step]
  /\ RampDone(i, m)
  /\ UNCHANGED <<consent, exchanges, mail, sending, engaging, planning, events>>

Ramp(i, m) == RampSkip(i, m) \/ RampWrite(i, m)

(* ---- Customers ----------------------------------------------------------- *)

(* Customers' requests, failed awaits and restarts are counted together.      *)
Event(kind) == kind \in Kinds /\ events < MaxEvents /\ events' = events + 1

(* autoEnrollMailbox when a mailbox is connected; an upsert that changes      *)
(* nothing when the membership exists.                                        *)
Enroll(m) ==
  /\ ~member[m].joined
  /\ \E days \in RampChoices :
       member' = [member EXCEPT ![m] = [joined |-> TRUE, enabled |-> TRUE, health |-> "warming",
                                        step |-> 0, daily |-> StartDaily, days |-> days]]
  /\ touched' = [touched EXCEPT ![m] = TRUE]
  /\ UNCHANGED <<consent, exchanges, mail, workers, advanced, events>>

(* setEnabled: current_daily and ramp_step stay.                              *)
SetEnabled(m, on) ==
  /\ Event("request")
  /\ member[m].joined
  /\ member' = [member EXCEPT ![m].enabled = on, ![m].health = IF on THEN "warming" ELSE "paused"]
  /\ touched' = [touched EXCEPT ![m] = TRUE]
  /\ UNCHANGED <<consent, exchanges, mail, workers, advanced>>

(* updateConfig and bulkUpdateOrgConfig: the volume follows with the ramp.    *)
UpdateConfig(m, days) ==
  /\ Event("request")
  /\ member[m].joined
  /\ member' = [member EXCEPT ![m].days = days]
  /\ touched' = [touched EXCEPT ![m] = TRUE]
  /\ UNCHANGED <<consent, exchanges, mail, workers, advanced>>

(* setOrgConsent; a subscription that lapses or is renewed does the same.     *)
SetOrgConsent(m, on) ==
  /\ Event("request")
  /\ consent[m] # on
  /\ consent' = [consent EXCEPT ![m] = on]
  /\ UNCHANGED <<member, touched, exchanges, mail, workers, advanced>>

Customer(m) ==
  \/ Enroll(m)
  \/ \E on \in BOOLEAN : SetEnabled(m, on) \/ SetOrgConsent(m, on)
  \/ \E days \in RampChoices : UpdateConfig(m, days)

(* ---- Time and faults ----------------------------------------------------- *)

Midnight ==
  /\ \E m \in Mailboxes : member[m].joined
  /\ touched' = [m \in Mailboxes |-> FALSE]
  /\ today' = [x \in Exchanges |-> FALSE]
  /\ advanced' = [m \in Mailboxes |-> FALSE]
  /\ ramping' = [i \in Rampers |-> [ramping[i] EXCEPT !.fresh = [m \in Mailboxes |-> FALSE]]]
  /\ UNCHANGED <<member, consent, row, stored, landed, late, earlier, mail, sending, engaging, planning, events>>

FreshnessPasses(x) ==
  /\ stored[x] /\ row[x].state = "sent" /\ ~late[x]
  /\ late' = [late EXCEPT ![x] = TRUE]
  /\ UNCHANGED <<memberships, row, stored, landed, today, earlier, mail, workers, advanced, events>>

Busy(x) == (\E d \in Dispatchers : sending[d].x = x) \/ (\E e \in Engagers : engaging[e].x = x \/ x \in engaging[e].rest)

(* A row that no query of the workers returns any more, after 30 days: it     *)
(* leaves the model, the last of its thread first.                            *)
Ages(x) ==
  /\ row[x].state \notin {"free", "scheduled"} /\ (row[x].state = "sent" => ~stored[x])
  /\ ~today[x] /\ ~Busy(x)
  /\ \A y \in Exchanges : row[y].thread # Nobody /\ row[y].thread = row[x].thread => row[y].depth <= row[x].depth
  /\ row' = [row EXCEPT ![x] = Unused]
  /\ stored' = [stored EXCEPT ![x] = FALSE]
  /\ landed' = [landed EXCEPT ![x] = "null"]
  /\ late' = [late EXCEPT ![x] = FALSE]
  /\ copies' = [copies EXCEPT ![x] = 0]
  /\ folder' = [folder EXCEPT ![x] = "null"]
  /\ UNCHANGED <<memberships, today, earlier, workers, advanced, events>>

(* An await of a dispatch worker throws, or its process dies: the tick goes   *)
(* on with the next row and leaves this one as it is.                         *)
DispatchFails(d) ==
  /\ Event("failure")
  /\ sending[d] # NotSending
  /\ sending' = [sending EXCEPT ![d] = NotSending]
  /\ UNCHANGED <<memberships, exchanges, mail, engaging, planning, ramping, advanced>>

EngageFails(e) ==
  /\ Event("failure")
  /\ engaging[e].x # Nobody
  /\ engaging' = [engaging EXCEPT ![e] = NextRow(e)]
  /\ UNCHANGED <<memberships, exchanges, mail, sending, planning, ramping, advanced>>

(* All instances are restarted; the timers begin new ticks.                   *)
Restart ==
  /\ Event("restart")
  /\ sending' = [d \in Dispatchers |-> NotSending]
  /\ engaging' = [e \in Engagers |-> NotEngaging]
  /\ planning' = NotPlanning
  /\ ramping' = [i \in Rampers |-> NotRamping]
  /\ UNCHANGED <<memberships, exchanges, mail, advanced>>

Next ==
  \/ Plan
  \/ \E d \in Dispatchers : Dispatch(d) \/ (\E x \in Exchanges : Claim(d, x))
  \/ \E e \in Engagers : EngageTick(e) \/ Engage(e)
  \/ \E i \in Rampers : RampTick(i) \/ (\E m \in Mailboxes : Ramp(i, m))
  \/ \E m \in Mailboxes : Customer(m)
  \/ Midnight
  \/ \E x \in Exchanges : FreshnessPasses(x) \/ Ages(x)
  \/ (\E d \in Dispatchers : DispatchFails(d)) \/ (\E e \in Engagers : EngageFails(e)) \/ Restart

Spec == Init /\ [][Next]_vars

(* The timers of the dispatch and the recipient worker fire for ever, every   *)
(* await of theirs ends, and messages grow old.                               *)
MailFairness ==
  /\ \A d \in Dispatchers : WF_vars(Dispatch(d))
  /\ \A x \in Exchanges : SF_vars(\E d \in Dispatchers : Claim(d, x)) /\ WF_vars(FreshnessPasses(x))
  /\ \A e \in Engagers : WF_vars(EngageTick(e) \/ Engage(e))
MailSpec == Spec /\ MailFairness

(* ---- Properties ---------------------------------------------------------- *)

States == {"free", "scheduled", "sent", "failed", "opened", "recovered_from_spam", "bounced"}
Places == {"null", "inbox", "promotions", "spam"}
Membership == [joined : BOOLEAN, enabled : BOOLEAN, health : {"warming", "maintenance", "paused", "error"},
               step : 0 .. MaxSteps, daily : Nat, days : 1 .. MaxSteps]

MemberTypes ==
  /\ member \in [Mailboxes -> Membership]
  /\ touched \in [Mailboxes -> BOOLEAN] /\ consent \in [Mailboxes -> BOOLEAN] /\ advanced \in [Mailboxes -> BOOLEAN]
  /\ events \in Nat

RowTypes ==
  /\ row \in [Exchanges -> [state : States, from : Mailboxes \cup {Nobody}, to : Mailboxes \cup {Nobody},
                            thread : Exchanges \cup {Nobody}, depth : 0 .. MaxDepth]]
  /\ stored \in [Exchanges -> BOOLEAN] /\ today \in [Exchanges -> BOOLEAN] /\ late \in [Exchanges -> BOOLEAN]
  /\ landed \in [Exchanges -> Places] /\ folder \in [Exchanges -> Places]
  /\ earlier \in [Exchanges -> SUBSET Exchanges]
  /\ copies \in [Exchanges -> Nat]

WorkerTypes ==
  /\ sending \in [Dispatchers -> [at : {"idle", "send", "record"}, x : Exchanges \cup {Nobody}]]
  /\ engaging \in [Engagers -> [at : {"idle", "each", "write", "reply"}, rest : SUBSET Exchanges,
                                x : Exchanges \cup {Nobody}, found : Places, rescued : BOOLEAN]]
  /\ planning \in [m : Mailboxes \cup {Nobody}, left : Nat]
  /\ ramping \in [Rampers -> [todo : SUBSET Mailboxes, read : [Mailboxes -> Membership], fresh : [Mailboxes -> BOOLEAN]]]

(* Types; no thread is deeper than MAX_THREAD_DEPTH.                          *)
TypeOK == MemberTypes /\ RowTypes /\ WorkerTypes

(* No exchange is transmitted twice, with several dispatch workers, crashes,  *)
(* lost answers and failed writes: warmupDispatchWorker.ts:46 "two workers    *)
(* running concurrently can't double-send the same row".                      *)
SentOnce == \A x \in Exchanges : copies[x] <= 1

(* Threads stay chains of at most MaxDepth replies, each from the recipient   *)
(* of the message before: a retried or restarted recipient worker never       *)
(* plans a second reply to a message.                                         *)
ThreadsAreChains ==
  \A x, y \in Exchanges :
    row[x].thread # Nobody /\ row[x].thread = row[y].thread =>
      /\ row[x].depth = row[y].depth => x = y
      /\ row[y].depth = row[x].depth + 1 => row[y].from = row[x].to /\ row[y].to = row[x].from

(* warmupRampWorker.ts: "only the first tick after midnight UTC actually      *)
(* mutates ramp state": a ramp that has advanced today, restarts and ticks    *)
(* across midnight included, does not advance again.                          *)
RampOncePerDay ==
  [][\A m \in Mailboxes : advanced[m] /\ advanced'[m] => member'[m].step = member[m].step]_vars

(* Every planned exchange is failed, opened, recovered or written off in the  *)
(* end, unless the dispatch worker is stopped before it knows the message id. *)
Settles ==
  \A x \in Exchanges :
    row[x].state = "scheduled" \/ (row[x].state = "sent" /\ stored[x])
      ~> row[x].state \notin {"scheduled", "sent"} \/ (row[x].state = "sent" /\ ~stored[x] /\ ~Busy(x))

=============================================================================
