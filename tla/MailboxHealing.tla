--------------------------- MODULE MailboxHealing ---------------------------
(* How a mailbox that bounces too much is taken out of sending and led back: *)
(* paused, quarantine, restricted_send, warm_recovery, healthy.  A mailbox   *)
(* row holds this twice, as status (which the dispatcher and the metrics     *)
(* worker read) and as recovery_phase (which healing reads), and the         *)
(* metrics worker, the warmup tracking worker, the bounce processor and the  *)
(* operator's endpoints all write one or both, each in several statements.   *)
(* Every await of theirs is a step here.                                     *)
EXTENDS Integers, FiniteSets

CONSTANTS
  Mailboxes,    \* mailboxes of one domain
  Trackers,     \* passes of warmupTrackingWorker: the cron's, and the manual one
  Cycles,       \* cycles of metricsWorker
  Bouncers,     \* runs of processBounce
  Operators,    \* requests of the resume endpoint
  NoMailbox,    \* what an idle handler works on
  EscalateAt,   \* DNS_CHECK_FAILURE_ESCALATE_COUNT
  MaxEvents,    \* bound on the bounces and requests from outside
  MaxFaults     \* bound on the handlers that die half way

ASSUME HealingConstants ==
  /\ NoMailbox \notin Mailboxes
  /\ EscalateAt \in Nat \ {0} /\ MaxEvents \in Nat /\ MaxFaults \in Nat
  /\ Trackers \cap Cycles = {} /\ Trackers \cap Bouncers = {}
  /\ Cycles \cap Bouncers = {}

Handlers == Trackers \cup Cycles \cup Bouncers \cup Operators

VARIABLES
  status,       \* Mailbox.status
  phase,        \* Mailbox.recovery_phase
  relapses,     \* Mailbox.relapse_count, up to 3: the third and later are alike
  manual,       \* Mailbox.manual_intervention_required
  cooldown,     \* Mailbox.cooldown_until: none, running or over
  served,       \* sends and days since phase_entered_at suffice to graduate
  bounced,      \* a hard BounceEvent since phase_entered_at
  capped,       \* Mailbox.warmup_limit > 0
  dnsFails,     \* Domain.dns_check_failure_count
  domainHeld,   \* Domain.manual_intervention_required
  pc,           \* what the handler does next
  at,           \* the mailbox it works on
  from,         \* the phase it read or was selected by
  goal,         \* the state it is to write
  seen,         \* the counter it read, plus one
  events, faults

row == <<status, phase, relapses, manual, cooldown, served, bounced, capped>>
domain == <<dnsFails, domainHeld>>
local == <<at, from, goal, seen>>
bounds == <<events, faults>>
vars == <<row, domain, pc, local, bounds>>

Ladder == {"paused", "quarantine", "restricted_send", "warm_recovery", "healthy"}
Rung(p) == CASE p = "paused" -> 0 [] p = "quarantine" -> 1
             [] p = "restricted_send" -> 2 [] p = "warm_recovery" -> 3
             [] p = "healthy" -> 4
Steps == {"idle", "validate", "cooled", "write", "cooldown", "phase", "pausefields", "dns", "lookup",
          "criteria", "climb", "warmup", "count", "relapse", "fall", "fallfields"}
Recovering == {"quarantine", "restricted_send", "warm_recovery"}
Rehab == {"restricted_send", "warm_recovery"}

(* STATE_TRANSITIONS.mailbox, without the legacy state recovering.           *)
Allowed(s) ==
  CASE s = "healthy" -> {"warning", "paused"}
    [] s = "warning" -> {"healthy", "paused"}
    [] s = "paused" -> {"quarantine"}
    [] s = "quarantine" -> {"restricted_send", "paused"}
    [] s = "restricted_send" -> {"warm_recovery", "paused", "quarantine"}
    [] s = "warm_recovery" -> {"healthy", "quarantine", "paused"}

NextPhase(p) ==
  CASE p = "quarantine" -> "restricted_send"
    [] p = "restricted_send" -> "warm_recovery"
    [] p = "warm_recovery" -> "healthy"

(* What the dispatcher and the worker of the send queue ask of the row.      *)
CanSend(m) == status[m] # "paused" /\ phase[m] \notin {"paused", "quarantine"}

Init ==
  /\ status = [m \in Mailboxes |-> "healthy"]
  /\ phase = [m \in Mailboxes |-> "healthy"]
  /\ relapses = [m \in Mailboxes |-> 0]
  /\ manual = [m \in Mailboxes |-> FALSE]
  /\ cooldown = [m \in Mailboxes |-> "none"]
  /\ served = [m \in Mailboxes |-> FALSE]
  /\ bounced = [m \in Mailboxes |-> FALSE]
  /\ capped = [m \in Mailboxes |-> FALSE]
  /\ dnsFails = 0 /\ domainHeld = FALSE
  /\ pc = [h \in Handlers |-> "idle"]
  /\ at = [h \in Handlers |-> NoMailbox]
  /\ from = [h \in Handlers |-> "healthy"]
  /\ goal = [h \in Handlers |-> "healthy"]
  /\ seen = [h \in Handlers |-> 0]
  /\ events = 0 /\ faults = 0

(* ---- Steps of a handler ------------------------------------------------- *)

(* h takes up m, with the state it acts on and the one it is to write.       *)
Start(h, m, step, read, target) ==
  /\ pc[h] = "idle"
  /\ pc' = [pc EXCEPT ![h] = step]
  /\ at' = [at EXCEPT ![h] = m]
  /\ from' = [from EXCEPT ![h] = read]
  /\ goal' = [goal EXCEPT ![h] = target]

Idle(h) ==
  /\ pc' = [pc EXCEPT ![h] = "idle"]
  /\ at' = [at EXCEPT ![h] = NoMailbox]
  /\ from' = [from EXCEPT ![h] = "healthy"]
  /\ goal' = [goal EXCEPT ![h] = "healthy"]
  /\ seen' = [seen EXCEPT ![h] = 0]

Goto(h, step) == pc' = [pc EXCEPT ![h] = step]

(* recovery_phase := p with phase_entered_at := now, from which sends, days  *)
(* and bounces are counted.                                                  *)
EnterPhase(m, p) ==
  /\ phase' = [phase EXCEPT ![m] = p]
  /\ served' = [served EXCEPT ![m] = FALSE]
  /\ bounced' = [bounced EXCEPT ![m] = FALSE]

(* ---- stateTransitionService: read, validate, write, cooldown ------------ *)

(* transitionMailbox reads the status and executeTransition validates it.    *)
Validate(h) ==
  /\ pc[h] = "validate"
  /\ IF goal[h] \in Allowed(status[at[h]])
     THEN Goto(h, IF goal[h] = "quarantine" THEN "cooled" ELSE "write") /\ UNCHANGED local
     ELSE Idle(h)
  /\ UNCHANGED <<row, domain, bounds>>

(* checkCooldown, before quarantine only.                                    *)
CheckCooldown(h) ==
  /\ pc[h] = "cooled"
  /\ IF cooldown[at[h]] # "running" THEN Goto(h, "write") /\ UNCHANGED local ELSE Idle(h)
  /\ UNCHANGED <<row, domain, bounds>>

(* What is left to do after the transition: the metrics worker records the   *)
(* phase of a mailbox it quarantines, pauseMailbox that of one it pauses.    *)
AfterTransition(h) ==
  CASE h \in Cycles /\ goal[h] = "quarantine" -> "phase"
    [] h \in Bouncers /\ goal[h] = "paused" -> "pausefields"
    [] OTHER -> "idle"

Continue(h) ==
  IF AfterTransition(h) = "idle" THEN Idle(h)
  ELSE Goto(h, AfterTransition(h)) /\ UNCHANGED local

(* updateEntityState: by id, whatever the status is by now.                  *)
WriteStatus(h) ==
  /\ pc[h] = "write"
  /\ status' = [status EXCEPT ![at[h]] = goal[h]]
  /\ IF goal[h] \in {"paused", "healthy"} THEN Goto(h, "cooldown") /\ UNCHANGED local
     ELSE Continue(h)
  /\ UNCHANGED <<phase, relapses, manual, cooldown, served, bounced, capped, domain, bounds>>

(* setCooldown after a pause, clearCooldown after a recovery.                *)
WriteCooldown(h) ==
  /\ pc[h] = "cooldown"
  /\ cooldown' = [cooldown EXCEPT ![at[h]] = IF goal[h] = "paused" THEN "running" ELSE "none"]
  /\ Continue(h)
  /\ UNCHANGED <<status, phase, relapses, manual, served, bounced, capped, domain, bounds>>

(* ---- metricsWorker ------------------------------------------------------ *)

(* processMailbox: the risk score suggests a target for a mailbox in normal  *)
(* service.                                                                  *)
Assess(x, m, target) ==
  /\ status[m] \in {"healthy", "warning"}
  /\ target \in {"healthy", "warning", "paused"} \ {status[m]}
  /\ Start(x, m, "validate", status[m], target)
  /\ UNCHANGED <<row, domain, seen, bounds>>

CooldownExpiredOnly(m) == cooldown[m] = "over"    \* mutant: null is not eligible
CooldownExpired(m) == cooldown[m] # "running"

(* checkRecoveryEligibility: paused by the system, cooldown not running.     *)
Eligible(x, m) ==
  /\ status[m] = "paused" /\ CooldownExpired(m)
  /\ Start(x, m, "validate", status[m], "quarantine")
  /\ UNCHANGED <<row, domain, seen, bounds>>

(* The phase of a mailbox just quarantined, in a write of its own.           *)
WritePhase(x) ==
  /\ pc[x] = "phase"
  /\ EnterPhase(at[x], "quarantine")
  /\ Idle(x)
  /\ UNCHANGED <<status, relapses, manual, cooldown, capped, domain, bounds>>

Cycle(x) ==
  \/ \E m \in Mailboxes : Eligible(x, m) \/ (\E s \in Ladder \cup {"warning"} : Assess(x, m, s))
  \/ WritePhase(x)

(* ---- warmupTrackingWorker ----------------------------------------------- *)

(* The selection of a pass, for one of the mailboxes in it: each is worked   *)
(* off later, by the phase it was selected in.                               *)
Select(t, m) ==
  /\ \/ phase[m] = "quarantine" /\ status[m] = "quarantine"
     \/ phase[m] \in Rehab
  /\ Start(t, m, IF phase[m] = "quarantine" THEN "dns" ELSE "criteria", phase[m], NextPhase(phase[m]))
  /\ UNCHANGED <<row, domain, seen, bounds>>

Unheld(m) == ~manual[m]    \* mutant: the flag of the domain is not asked for
MayLookUp(m) == ~manual[m] /\ ~domainHeld

(* checkMailboxGraduation reads the row again and looks up the DNS, unless   *)
(* an operator must look at the mailbox or the domain first.  (Were it in    *)
(* another phase by now, the branches of that phase would find nothing to    *)
(* do: they wait for days that a pass does not last.)                        *)
CheckDns(t) ==
  /\ pc[t] = "dns"
  /\ IF phase[at[t]] = "quarantine" /\ MayLookUp(at[t])
     THEN /\ Goto(t, "lookup")
          /\ seen' = [seen EXCEPT ![t] = dnsFails + 1]
          /\ UNCHANGED <<at, from, goal>>
     ELSE Idle(t)
  /\ UNCHANGED <<row, domain, bounds>>

(* A failure in the last hour: the lookup is put off.                        *)
DeferDns(t) ==
  /\ pc[t] = "lookup" /\ seen[t] > 1
  /\ Idle(t) /\ UNCHANGED <<row, domain, bounds>>

(* The lookup answers: clean, then the mailbox graduates, or not.            *)
DnsAnswers(t, clean) ==
  /\ pc[t] = "lookup"
  /\ dnsFails' = 0
  /\ IF clean THEN Goto(t, "climb") /\ UNCHANGED local ELSE Idle(t)
  /\ UNCHANGED <<row, domainHeld, bounds>>

(* The lookup throws: fail-closed, and after EscalateAt in a row an operator *)
(* must clear the domain.                                                    *)
DnsThrows(t) ==
  /\ pc[t] = "lookup"
  /\ dnsFails' = seen[t]
  /\ domainHeld' = (domainHeld \/ seen[t] >= EscalateAt)
  /\ Idle(t) /\ UNCHANGED <<row, bounds>>

ReadyAtOnce(m) ==    \* mutant: without the floor of sends and days
  ~manual[m] /\ phase[m] \in Rehab /\ (phase[m] = "restricted_send" => ~bounced[m])
ReadyFlagged(m) ==    \* mutant: without the manual-intervention gate
  phase[m] \in Rehab /\ served[m] /\ (phase[m] = "restricted_send" => ~bounced[m])

(* checkGraduationCriteria, of the phase the row is in by now.  A warm       *)
(* mailbox may graduate with a few bounces.                                  *)
Ready(m) ==
  ~manual[m] /\ phase[m] \in Rehab /\ served[m] /\ (phase[m] = "restricted_send" => ~bounced[m])

CheckCriteria(t) ==
  /\ pc[t] = "criteria"
  /\ \/ Ready(at[t]) /\ Goto(t, "climb") /\ UNCHANGED local
     \/ (~Ready(at[t]) \/ bounced[at[t]]) /\ Idle(t)
  /\ UNCHANGED <<row, domain, bounds>>

AnyPhase(t) == TRUE    \* mutant: the update by id alone
Unchanged(t) == phase[at[t]] = from[t]

(* transitionPhase: phase and status in one update, if the phase is still    *)
(* the one of the selection.                                                 *)
Climb(t) ==
  /\ pc[t] = "climb"
  /\ IF Unchanged(t)
     THEN /\ EnterPhase(at[t], goal[t])
          /\ status' = [status EXCEPT ![at[t]] = goal[t]]
          /\ Goto(t, "warmup") /\ UNCHANGED local
     ELSE Idle(t) /\ UNCHANGED <<status, phase, served, bounced>>
  /\ UNCHANGED <<relapses, manual, cooldown, capped, domain, bounds>>

KeepsCap(p) == TRUE    \* mutant: the healthy mailbox keeps a maintenance volume
HasCap(p) == p # "healthy"

(* enableWarmupForRecovery and updateWarmupForPhaseTransition set the volume *)
(* cap, and phase_entered_at once more; disableWarmup lifts the cap.         *)
SetWarmup(t) ==
  /\ pc[t] = "warmup"
  /\ capped' = [capped EXCEPT ![at[t]] = HasCap(goal[t])]
  /\ IF goal[t] # "healthy" THEN EnterPhase(at[t], phase[at[t]])
     ELSE UNCHANGED <<phase, served, bounced>>
  /\ Idle(t)
  /\ UNCHANGED <<status, relapses, manual, cooldown, domain, bounds>>

Track(t) ==
  \/ \E m \in Mailboxes : Select(t, m)
  \/ CheckDns(t) \/ DeferDns(t) \/ (\E clean \in BOOLEAN : DnsAnswers(t, clean)) \/ DnsThrows(t)
  \/ CheckCriteria(t) \/ Climb(t) \/ SetWarmup(t)

(* ---- processBounce ------------------------------------------------------ *)

(* A bounce that degrades health is stored ...                               *)
StoreBounce(b, m) ==
  /\ events < MaxEvents
  /\ events' = events + 1
  /\ bounced' = [bounced EXCEPT ![m] = TRUE]
  /\ Start(b, m, "count", from[b], goal[b])
  /\ UNCHANGED <<status, phase, relapses, manual, cooldown, served, capped, domain, seen, faults>>

(* ... and counted, in an update that returns phase and status.  In recovery *)
(* it is a relapse; else the counters decide whether to pause or to warn.    *)
CountBounce(b) ==
  /\ pc[b] = "count"
  /\ \/ /\ phase[at[b]] \in Recovering
        /\ Goto(b, "relapse") /\ UNCHANGED local
     \/ /\ phase[at[b]] \notin Recovering
        /\ \E target \in {"paused", "warning"} :
             /\ status[at[b]] # "paused" /\ (target = "warning" => status[at[b]] = "healthy")
             /\ goal' = [goal EXCEPT ![b] = target]
        /\ Goto(b, "validate") /\ UNCHANGED <<at, from, seen>>
     \/ phase[at[b]] \notin Recovering /\ Idle(b)
  /\ UNCHANGED <<row, domain, bounds>>

(* pauseMailbox records the phase, if the mailbox is still paused.           *)
PauseFields(b) ==
  /\ pc[b] = "pausefields"
  /\ IF status[at[b]] = "paused" THEN EnterPhase(at[b], "paused")
     ELSE UNCHANGED <<phase, served, bounced>>
  /\ Idle(b)
  /\ UNCHANGED <<status, relapses, manual, cooldown, capped, domain, bounds>>

(* handleRelapse: the count read, plus one, decides how far the mailbox      *)
(* falls: the first time to quarantine, then to paused.                      *)
ReadRelapses(b) ==
  /\ pc[b] = "relapse"
  /\ LET n == IF relapses[at[b]] < 3 THEN relapses[at[b]] + 1 ELSE 3 IN
       /\ seen' = [seen EXCEPT ![b] = n]
       /\ goal' = [goal EXCEPT ![b] = IF n = 1 THEN "quarantine" ELSE "paused"]
  /\ Goto(b, "fall") /\ UNCHANGED <<row, domain, at, from, bounds>>

(* setInitialMailboxStatus: no validation, no cooldown ...                   *)
FallStatus(b) ==
  /\ pc[b] = "fall"
  /\ status' = [status EXCEPT ![at[b]] = goal[b]]
  /\ Goto(b, "fallfields")
  /\ UNCHANGED <<phase, relapses, manual, cooldown, served, bounced, capped, domain, local, bounds>>

(* ... then the rest of the row.  The third relapse needs an operator.       *)
FallFields(b) ==
  /\ pc[b] = "fallfields"
  /\ relapses' = [relapses EXCEPT ![at[b]] = seen[b]]
  /\ EnterPhase(at[b], goal[b])
  /\ cooldown' = [cooldown EXCEPT ![at[b]] = "running"]
  /\ manual' = [manual EXCEPT ![at[b]] = @ \/ seen[b] >= 3]
  /\ Idle(b)
  /\ UNCHANGED <<status, capped, domain, bounds>>

Bounce(b) ==
  \/ CountBounce(b) \/ PauseFields(b)
  \/ ReadRelapses(b) \/ FallStatus(b) \/ FallFields(b)

(* The transition that a handler of any kind is in.                          *)
Transition(h) == Validate(h) \/ CheckCooldown(h) \/ WriteStatus(h) \/ WriteCooldown(h)

(* ---- Operators ---------------------------------------------------------- *)

(* resumeMailbox: the state machine is asked for healthy.                    *)
Resume(o, m) ==
  /\ events < MaxEvents
  /\ events' = events + 1
  /\ Start(o, m, "validate", from[o], "healthy")
  /\ UNCHANGED <<row, domain, seen, faults>>

(* clearManualIntervention, of a mailbox and of the domain.                  *)
ClearMailbox(m) ==
  /\ manual[m]
  /\ manual' = [manual EXCEPT ![m] = FALSE]
  /\ UNCHANGED <<status, phase, relapses, cooldown, served, bounced, capped, domain, pc, local, bounds>>

ClearDomain ==
  /\ domainHeld
  /\ domainHeld' = FALSE /\ dnsFails' = 0
  /\ UNCHANGED <<row, pc, local, bounds>>

Operate ==
  \/ \E o \in Operators, m \in Mailboxes : Resume(o, m)
  \/ (\E m \in Mailboxes : ClearMailbox(m)) \/ ClearDomain

(* ---- Time and crashes --------------------------------------------------- *)

(* Cooldowns last an hour or more and phases days; a handler at work on m    *)
(* takes seconds: neither elapses in the middle of one.                      *)
Quiet(m) == \A h \in Handlers : at[h] # m

CooldownElapses(m) ==
  /\ cooldown[m] = "running" /\ Quiet(m)
  /\ cooldown' = [cooldown EXCEPT ![m] = "over"]
  /\ UNCHANGED <<status, phase, relapses, manual, served, bounced, capped, domain, pc, local, bounds>>

(* A mailbox in a sending phase serves its days and its sends.               *)
Serve(m) ==
  /\ phase[m] \in Rehab /\ CanSend(m) /\ ~served[m] /\ Quiet(m)
  /\ served' = [served EXCEPT ![m] = TRUE]
  /\ UNCHANGED <<status, phase, relapses, manual, cooldown, bounced, capped, domain, pc, local, bounds>>

(* The process of a handler dies: what is written stays, the rest is lost.   *)
Crash(h) ==
  /\ pc[h] # "idle" /\ faults < MaxFaults
  /\ faults' = faults + 1
  /\ Idle(h)
  /\ UNCHANGED <<row, domain, events>>

Next ==
  \/ \E x \in Cycles : Cycle(x)
  \/ \E t \in Trackers : Track(t)
  \/ \E b \in Bouncers : Bounce(b) \/ (\E m \in Mailboxes : StoreBounce(b, m))
  \/ \E h \in Handlers : Transition(h) \/ Crash(h)
  \/ Operate
  \/ \E m \in Mailboxes : CooldownElapses(m) \/ Serve(m)

Spec == Init /\ [][Next]_vars

(* Both workers are started by timers for ever and each of their awaits      *)
(* returns or throws; a cycle goes through every eligible mailbox, and time  *)
(* passes.  Nobody must bounce, resume or clear anything.                    *)
Fairness ==
  /\ \A h \in Handlers : WF_vars(Transition(h))
  /\ \A x \in Cycles : WF_vars(WritePhase(x))
  /\ \A t \in Trackers : WF_vars(CheckDns(t) \/ DeferDns(t) \/ DnsThrows(t) \/ CheckCriteria(t) \/ Climb(t) \/ SetWarmup(t))
  /\ \A b \in Bouncers : WF_vars(Bounce(b))
  /\ \A m \in Mailboxes : SF_vars(CooldownElapses(m))
  /\ \A x \in Cycles, m \in Mailboxes : SF_vars(Eligible(x, m))
FairSpec == Spec /\ Fairness

(* ---- Properties --------------------------------------------------------- *)

RowTypes ==
  /\ status \in [Mailboxes -> Ladder \cup {"warning"}]
  /\ phase \in [Mailboxes -> Ladder]
  /\ relapses \in [Mailboxes -> 0 .. 3]
  /\ manual \in [Mailboxes -> BOOLEAN]
  /\ cooldown \in [Mailboxes -> {"none", "running", "over"}]
  /\ served \in [Mailboxes -> BOOLEAN]
  /\ bounced \in [Mailboxes -> BOOLEAN]
  /\ capped \in [Mailboxes -> BOOLEAN]

DomainTypes ==
  /\ dnsFails \in 0 .. EscalateAt /\ domainHeld \in BOOLEAN
  /\ dnsFails = EscalateAt => domainHeld

HandlerTypes ==
  /\ pc \in [Handlers -> Steps]
  /\ at \in [Handlers -> Mailboxes \cup {NoMailbox}]
  /\ \A h \in Handlers : pc[h] # "idle" => at[h] \in Mailboxes
  /\ from \in [Handlers -> Ladder \cup {"warning"}]
  /\ goal \in [Handlers -> Ladder \cup {"warning"}]
  /\ seen \in [Handlers -> Nat]
  /\ events \in Nat /\ faults \in Nat

(* Types; and the failed lookups never count past the threshold: at it the   *)
(* domain is held for an operator, whichever passes race to count them.      *)
TypeOK == RowTypes /\ DomainTypes /\ HandlerTypes

(* Recovery is climbed one rung at a time: whatever a pass of the warmup     *)
(* worker saw when it selected the mailbox, a relapse or a pause in the      *)
(* meantime sends the mailbox back to the rung it fell to (transitionPhase's *)
(* condition on recovery_phase).                                             *)
OneRung ==
  [][\A m \in Mailboxes : Rung(phase'[m]) > Rung(phase[m]) => Rung(phase'[m]) = Rung(phase[m]) + 1]_vars

(* The rungs above quarantine are earned: a mailbox leaves restricted_send   *)
(* or warm_recovery upwards only after the sends and days of that very stay, *)
(* not of a stay that a relapse ended.                                       *)
EarnedClimb ==
  [][\A m \in Mailboxes : phase[m] \in Rehab /\ phase'[m] = NextPhase(phase[m]) => served[m]]_vars

(* A mailbox that is flagged for an operator never becomes healthy, although *)
(* bounces flag it while passes are about to graduate it.                    *)
FlagStopsGraduation ==
  [][\A m \in Mailboxes : manual[m] /\ phase'[m] = "healthy" => phase[m] = "healthy"]_vars

(* The volume cap of the warmup phases does not stay on a healthy mailbox,   *)
(* unless the process died between the graduation and disableWarmup.         *)
CapLifted ==
  \A m \in Mailboxes : Quiet(m) /\ phase[m] = "healthy" /\ faults = 0 => ~capped[m]

(* No pause is for ever: the metrics worker takes every paused mailbox into  *)
(* quarantine in the end, also when the process that paused it died before   *)
(* it set the cooldown.                                                      *)
LeavesPause == \A m \in Mailboxes : status[m] = "paused" ~> status[m] # "paused"

=============================================================================
