------------------------ MODULE MailboxHealingProofs ------------------------
(* Proofs about MailboxHealing, for any mailboxes, any number of concurrent  *)
(* bounces and metrics cycles, and any number of bounces and crashes.        *)
EXTENDS MailboxHealing, TLAPS

(* What a tracker or a relapse holds while it is on its way to a write.      *)
TrackerHolds(t) ==
  /\ pc[t] \in {"dns", "lookup", "criteria", "climb"} =>
       from[t] \in Recovering /\ goal[t] = NextPhase(from[t])
  /\ pc[t] = "lookup" => seen[t] \in 1 .. EscalateAt
  /\ pc[t] \in {"dns", "lookup"} => from[t] = "quarantine"
RelapseHolds(b) ==
  pc[b] \in {"fall", "fallfields"} =>
    /\ seen[b] \in 1 .. 3
    /\ goal[b] \in {"quarantine", "paused"}
    /\ seen[b] >= 3 => goal[b] = "paused"
Carries ==
  (\A t \in Trackers : TrackerHolds(t)) /\ (\A b \in Bouncers : RelapseHolds(b))

IInv == TypeOK /\ Carries

LEMMA ZeroBelow == 0 \in 0 .. EscalateAt /\ 0 # EscalateAt
BY HealingConstants DEF HealingConstants

LEMMA InitInv == Init => IInv
<1> SUFFICES ASSUME Init PROVE IInv
  OBVIOUS
<1>1. RowTypes
  BY DEF Init, RowTypes, Ladder
<1>2. DomainTypes
  BY ZeroBelow DEF Init, DomainTypes
<1>3. HandlerTypes
  BY DEF Init, HandlerTypes, Ladder, Steps
<1>4. Carries
  BY DEF Init, Carries, TrackerHolds, RelapseHolds, Handlers
<1>. QED BY <1>1, <1>2, <1>3, <1>4 DEF IInv, TypeOK

(* The moves of a handler keep the types of its own state.                   *)
LEMMA Moves ==
  ASSUME HandlerTypes, NEW h \in Handlers, UNCHANGED bounds
  PROVE  /\ Idle(h) => HandlerTypes'
         /\ \A s \in Steps : pc[h] # "idle" /\ Goto(h, s) /\ UNCHANGED local => HandlerTypes'
         /\ \A m \in Mailboxes, s \in Steps, p, q \in Ladder \cup {"warning"} :
              Start(h, m, s, p, q) /\ UNCHANGED seen => HandlerTypes'
<1> USE DEF HandlerTypes, bounds
<1>1. Idle(h) => HandlerTypes'
  BY DEF Idle, Steps, Ladder
<1>2. \A s \in Steps : pc[h] # "idle" /\ Goto(h, s) /\ UNCHANGED local => HandlerTypes'
  BY DEF Goto, local
<1>3. \A m \in Mailboxes, s \in Steps, p, q \in Ladder \cup {"warning"} :
        Start(h, m, s, p, q) /\ UNCHANGED seen => HandlerTypes'
  BY DEF Start
<1>. QED BY <1>1, <1>2, <1>3

LEMMA EnterTypes ==
  ASSUME RowTypes, NEW m \in Mailboxes, NEW p \in Ladder, EnterPhase(m, p)
  PROVE  phase' \in [Mailboxes -> Ladder] /\ served' \in [Mailboxes -> BOOLEAN] /\ bounced' \in [Mailboxes -> BOOLEAN]
BY DEF RowTypes, EnterPhase

LEMMA CycleTypes ==
  ASSUME IInv, NEW x \in Cycles, Cycle(x)
  PROVE  TypeOK'
<1>. x \in Handlers BY DEF Handlers
<1> USE DEF IInv, TypeOK
<1>1. CASE \E m \in Mailboxes : Eligible(x, m)
  <2>. "validate" \in Steps /\ "quarantine" \in Ladder \cup {"warning"} BY DEF Steps, Ladder
  <2>. QED BY <1>1, Moves DEF Eligible, row, domain, bounds, RowTypes, DomainTypes
<1>2. CASE \E m \in Mailboxes, s \in Ladder \cup {"warning"} : Assess(x, m, s)
  <2>. "validate" \in Steps BY DEF Steps
  <2>. QED BY <1>2, Moves DEF Assess, row, domain, bounds, RowTypes, DomainTypes
<1>3. CASE WritePhase(x)
  <2>1. HandlerTypes' BY <1>3, Moves DEF WritePhase
  <2>2. RowTypes' BY <1>3 DEF WritePhase, RowTypes, HandlerTypes, EnterPhase, Ladder
  <2>3. DomainTypes' BY <1>3 DEF WritePhase, DomainTypes, domain
  <2>. QED BY <2>1, <2>2, <2>3
<1>. QED BY <1>1, <1>2, <1>3 DEF Cycle

LEMMA TransitionTypes ==
  ASSUME IInv, NEW h \in Handlers, Transition(h)
  PROVE  TypeOK'
<1> USE DEF IInv, TypeOK
<1>0. {"cooled", "write", "cooldown", "phase", "pausefields"} \subseteq Steps BY DEF Steps
<1>1. CASE Validate(h)
  BY <1>0, <1>1, Moves DEF Validate, row, domain, bounds, RowTypes, DomainTypes
<1>2. CASE CheckCooldown(h)
  BY <1>0, <1>2, Moves DEF CheckCooldown, row, domain, bounds, RowTypes, DomainTypes
<1>3. pc[h] # "idle" /\ Continue(h) /\ UNCHANGED bounds => HandlerTypes'
  BY <1>0, Moves DEF Continue, AfterTransition
<1>4. CASE WriteStatus(h)
  <2>1. HandlerTypes' BY <1>0, <1>3, <1>4, Moves DEF WriteStatus
  <2>2. RowTypes' BY <1>4 DEF WriteStatus, RowTypes, HandlerTypes
  <2>3. DomainTypes' BY <1>4 DEF WriteStatus, DomainTypes, domain
  <2>. QED BY <2>1, <2>2, <2>3
<1>5. CASE WriteCooldown(h)
  <2>1. HandlerTypes' BY <1>3, <1>5 DEF WriteCooldown
  <2>2. RowTypes' BY <1>5 DEF WriteCooldown, RowTypes
  <2>3. DomainTypes' BY <1>5 DEF WriteCooldown, DomainTypes, domain
  <2>. QED BY <2>1, <2>2, <2>3
<1>. QED BY <1>1, <1>2, <1>4, <1>5 DEF Transition

LEMMA TrackTypes ==
  ASSUME IInv, NEW t \in Trackers, Track(t)
  PROVE  TypeOK'
<1>. t \in Handlers BY DEF Handlers
<1> USE DEF IInv, TypeOK
<1>0. {"dns", "lookup", "criteria", "climb", "warmup"} \subseteq Steps BY DEF Steps
<1>1. ASSUME NEW m \in Mailboxes, Select(t, m) PROVE TypeOK'
  <2>1. phase[m] \in Ladder /\ NextPhase(phase[m]) \in Ladder
    BY <1>1 DEF Select, RowTypes, NextPhase, Ladder, Rehab
  <2>. QED BY <1>0, <1>1, <2>1, Moves DEF Select, row, domain, bounds, RowTypes, DomainTypes
<1>2. CASE CheckDns(t)
  <2>1. RowTypes' /\ DomainTypes' BY <1>2 DEF CheckDns, row, domain, RowTypes, DomainTypes
  <2>2. UNCHANGED bounds BY <1>2 DEF CheckDns
  <2>3. CASE Idle(t)
    BY <2>1, <2>2, <2>3, Moves
  <2>4. CASE /\ Goto(t, "lookup") /\ UNCHANGED <<at, from, goal>>
             /\ seen' = [seen EXCEPT ![t] = dnsFails + 1]
    <3>1. dnsFails + 1 \in Nat BY HealingConstants DEF HealingConstants, DomainTypes
    <3>2. pc[t] # "idle" BY <1>2 DEF CheckDns
    <3>. QED BY <1>0, <2>1, <2>2, <2>4, <3>1, <3>2 DEF Goto, bounds, HandlerTypes
  <2>. QED BY <1>2, <2>3, <2>4 DEF CheckDns
<1>3. CASE DeferDns(t)
  BY <1>3, Moves DEF DeferDns, row, domain, bounds, RowTypes, DomainTypes
<1>4. ASSUME NEW clean \in BOOLEAN, DnsAnswers(t, clean) PROVE TypeOK'
  <2>1. HandlerTypes' BY <1>0, <1>4, Moves DEF DnsAnswers
  <2>2. RowTypes' BY <1>4 DEF DnsAnswers, RowTypes, row
  <2>3. DomainTypes' BY <1>4, ZeroBelow DEF DnsAnswers, DomainTypes
  <2>. QED BY <2>1, <2>2, <2>3
<1>5. CASE DnsThrows(t)
  <2>1. HandlerTypes' BY <1>5, Moves DEF DnsThrows
  <2>2. RowTypes' BY <1>5 DEF DnsThrows, RowTypes, row
  <2>3. seen[t] \in 1 .. EscalateAt BY <1>5 DEF DnsThrows, Carries, TrackerHolds
  <2>4. seen[t] \in 0 .. EscalateAt /\ (seen[t] = EscalateAt => seen[t] >= EscalateAt)
    BY <2>3, HealingConstants DEF HealingConstants
  <2>5. dnsFails' = seen[t] /\ domainHeld' = (domainHeld \/ seen[t] >= EscalateAt)
    BY <1>5 DEF DnsThrows
  <2>6. domainHeld' \in BOOLEAN /\ (seen[t] >= EscalateAt => domainHeld')
    BY <2>5, Zenon DEF DomainTypes
  <2>7. DomainTypes' BY <2>4, <2>5, <2>6, Zenon DEF DomainTypes
  <2>. QED BY <2>1, <2>2, <2>7
<1>6. CASE CheckCriteria(t)
  BY <1>0, <1>6, Moves DEF CheckCriteria, row, domain, bounds, RowTypes, DomainTypes
<1>7. CASE Climb(t)
  <2>1. HandlerTypes' BY <1>0, <1>7, Moves DEF Climb
  <2>2. goal[t] \in Ladder BY <1>7 DEF Climb, Carries, TrackerHolds, NextPhase, Recovering, Ladder
  <2>3. RowTypes'
    <3>1. at[t] \in Mailboxes BY <1>7 DEF Climb, HandlerTypes
    <3>2. CASE Unchanged(t)
      BY <1>7, <2>2, <3>1, <3>2, EnterTypes DEF Climb, RowTypes
    <3>3. CASE ~Unchanged(t)
      BY <1>7, <3>3 DEF Climb, RowTypes
    <3>. QED BY <3>2, <3>3
  <2>4. DomainTypes' BY <1>7 DEF Climb, DomainTypes, domain
  <2>. QED BY <2>1, <2>3, <2>4
<1>8. CASE SetWarmup(t)
  <2>1. HandlerTypes' BY <1>8, Moves DEF SetWarmup
  <2>2. RowTypes'
    <3>1. at[t] \in Mailboxes BY <1>8 DEF SetWarmup, HandlerTypes
    <3>2. phase[at[t]] \in Ladder BY <3>1 DEF RowTypes
    <3>3. capped' \in [Mailboxes -> BOOLEAN] BY <1>8, <3>1 DEF SetWarmup, HasCap, RowTypes
    <3>4. /\ phase' \in [Mailboxes -> Ladder] /\ served' \in [Mailboxes -> BOOLEAN]
          /\ bounced' \in [Mailboxes -> BOOLEAN]
      BY <1>8, <3>1, <3>2, EnterTypes DEF SetWarmup, RowTypes
    <3>. QED BY <1>8, <3>3, <3>4 DEF SetWarmup, RowTypes
  <2>3. DomainTypes' BY <1>8 DEF SetWarmup, DomainTypes, domain
  <2>. QED BY <2>1, <2>2, <2>3
<1>. QED BY <1>1, <1>2, <1>3, <1>4, <1>5, <1>6, <1>7, <1>8 DEF Track

LEMMA BounceTypes ==
  ASSUME IInv, NEW b \in Bouncers,
         Bounce(b) \/ \E m \in Mailboxes : StoreBounce(b, m)
  PROVE  TypeOK'
<1>. b \in Handlers BY DEF Handlers
<1> USE DEF IInv, TypeOK
<1>0. {"count", "validate", "relapse", "fall", "fallfields"} \subseteq Steps BY DEF Steps
<1>1. ASSUME NEW m \in Mailboxes, StoreBounce(b, m) PROVE TypeOK'
  BY <1>0, <1>1 DEF StoreBounce, Start, domain, RowTypes, DomainTypes, HandlerTypes
<1>2. CASE CountBounce(b)
  <2>1. RowTypes' /\ DomainTypes' BY <1>2 DEF CountBounce, row, domain, RowTypes, DomainTypes
  <2>2. pc[b] # "idle" /\ UNCHANGED bounds BY <1>2 DEF CountBounce
  <2>3. CASE Idle(b) BY <2>1, <2>2, <2>3, Moves
  <2>4. CASE Goto(b, "relapse") /\ UNCHANGED local BY <1>0, <2>1, <2>2, <2>4, Moves
  <2>5. ASSUME NEW target \in {"paused", "warning"}, goal' = [goal EXCEPT ![b] = target],
               Goto(b, "validate"), UNCHANGED <<at, from, seen>>
        PROVE  HandlerTypes'
    <3>1. pc' \in [Handlers -> Steps] /\ goal' \in [Handlers -> Ladder \cup {"warning"}]
      BY <1>0, <2>5 DEF Goto, HandlerTypes, Ladder
    <3>2. \A h \in Handlers : pc'[h] # "idle" => at[h] \in Mailboxes
      BY <2>2, <2>5 DEF Goto, HandlerTypes
    <3>. QED BY <2>2, <2>5, <3>1, <3>2 DEF bounds, HandlerTypes
  <2>. QED BY <1>2, <2>1, <2>3, <2>4, <2>5 DEF CountBounce
<1>3. CASE PauseFields(b)
  <2>1. HandlerTypes' BY <1>3, Moves DEF PauseFields
  <2>2. RowTypes'
    <3>1. at[b] \in Mailboxes /\ "paused" \in Ladder BY <1>3 DEF PauseFields, HandlerTypes, Ladder
    <3>. QED BY <1>3, <3>1, EnterTypes DEF PauseFields, RowTypes
  <2>3. DomainTypes' BY <1>3 DEF PauseFields, DomainTypes, domain
  <2>. QED BY <2>1, <2>2, <2>3
<1>4. CASE ReadRelapses(b)
  <2>1. RowTypes' /\ DomainTypes' BY <1>4 DEF ReadRelapses, row, domain, RowTypes, DomainTypes
  <2>2. HandlerTypes' BY <1>0, <1>4 DEF ReadRelapses, Goto, bounds, RowTypes, HandlerTypes, Ladder
  <2>. QED BY <2>1, <2>2
<1>5. CASE FallStatus(b)
  <2>1. HandlerTypes' BY <1>0, <1>5, Moves DEF FallStatus
  <2>2. RowTypes' BY <1>5 DEF FallStatus, RowTypes, HandlerTypes
  <2>3. DomainTypes' BY <1>5 DEF FallStatus, DomainTypes, domain
  <2>. QED BY <2>1, <2>2, <2>3
<1>6. CASE FallFields(b)
  <2>1. HandlerTypes' BY <1>6, Moves DEF FallFields
  <2>2. RowTypes' BY <1>6 DEF FallFields, Carries, RelapseHolds, EnterPhase, RowTypes, HandlerTypes, Ladder
  <2>3. DomainTypes' BY <1>6 DEF FallFields, DomainTypes, domain
  <2>. QED BY <2>1, <2>2, <2>3
<1>. QED BY <1>1, <1>2, <1>3, <1>4, <1>5, <1>6 DEF Bounce

LEMMA OtherTypes ==
  ASSUME IInv,
         \/ Operate
         \/ \E m \in Mailboxes : CooldownElapses(m) \/ Serve(m)
         \/ \E h \in Handlers : Crash(h)
         \/ UNCHANGED vars
  PROVE  TypeOK'
<1> USE DEF IInv, TypeOK
<1>1. ASSUME NEW o \in Operators, NEW m \in Mailboxes, Resume(o, m) PROVE TypeOK'
  BY <1>1 DEF Resume, Start, Handlers, Steps, Ladder, row, domain, RowTypes, DomainTypes, HandlerTypes
<1>2. ASSUME NEW m \in Mailboxes, ClearMailbox(m) \/ CooldownElapses(m) \/ Serve(m) PROVE TypeOK'
  <2>1. HandlerTypes' /\ DomainTypes'
    BY <1>2 DEF ClearMailbox, CooldownElapses, Serve, local, domain, bounds, DomainTypes, HandlerTypes
  <2>2. CASE ClearMailbox(m) BY <2>1, <2>2 DEF ClearMailbox, RowTypes
  <2>3. CASE CooldownElapses(m) BY <2>1, <2>3 DEF CooldownElapses, RowTypes
  <2>4. CASE Serve(m) BY <2>1, <2>4 DEF Serve, RowTypes
  <2>. QED BY <1>2, <2>2, <2>3, <2>4
<1>3. CASE ClearDomain
  BY <1>3, ZeroBelow DEF ClearDomain, local, row, bounds, RowTypes, DomainTypes, HandlerTypes
<1>4. ASSUME NEW h \in Handlers, Crash(h) PROVE TypeOK'
  BY <1>4 DEF Crash, Idle, Steps, Ladder, row, domain, RowTypes, DomainTypes, HandlerTypes
<1>5. CASE UNCHANGED vars
  BY <1>5 DEF vars, local, row, domain, bounds, RowTypes, DomainTypes, HandlerTypes
<1>. QED BY <1>1, <1>2, <1>3, <1>4, <1>5 DEF Operate

LEMMA TypeStep == IInv /\ [Next]_vars => TypeOK'
BY CycleTypes, TransitionTypes, TrackTypes, BounceTypes, OtherTypes DEF Next

(* A handler that moves disturbs what no other handler holds, and a handler  *)
(* that moves to a harmless step holds nothing itself.                       *)
Harmless == Steps \ {"dns", "lookup", "criteria", "climb", "fall", "fallfields"}
Alone(h) ==
  /\ \E s \in Harmless : pc' = [pc EXCEPT ![h] = s]
  /\ \A g \in Handlers \ {h} : from'[g] = from[g] /\ goal'[g] = goal[g] /\ seen'[g] = seen[g]

LEMMA AloneKeeps ==
  ASSUME IInv, NEW h \in Handlers, Alone(h)
  PROVE  Carries'
<1>1. ASSUME NEW t \in Trackers PROVE TrackerHolds(t)'
  <2>. t \in Handlers BY DEF Handlers
  <2>1. CASE t = h BY <2>1 DEF Alone, Harmless, IInv, TypeOK, HandlerTypes, TrackerHolds
  <2>2. CASE t # h BY <2>2 DEF Alone, IInv, TypeOK, HandlerTypes, Carries, TrackerHolds
  <2>. QED BY <2>1, <2>2
<1>2. ASSUME NEW b \in Bouncers PROVE RelapseHolds(b)'
  <2>. b \in Handlers BY DEF Handlers
  <2>1. CASE b = h BY <2>1 DEF Alone, Harmless, IInv, TypeOK, HandlerTypes, RelapseHolds
  <2>2. CASE b # h BY <2>2 DEF Alone, IInv, TypeOK, HandlerTypes, Carries, RelapseHolds
  <2>. QED BY <2>1, <2>2
<1>. QED BY <1>1, <1>2 DEF Carries

LEMMA AloneMoves ==
  ASSUME HandlerTypes, NEW h \in Handlers
  PROVE  /\ Idle(h) => Alone(h)
         /\ \A s \in Harmless : Goto(h, s) /\ UNCHANGED local => Alone(h)
         /\ \A m, p, q : \A s \in Harmless : Start(h, m, s, p, q) /\ UNCHANGED seen => Alone(h)
BY DEF Idle, Goto, Start, Alone, Harmless, Steps, local, HandlerTypes

(* Steps of trackers and relapses that do take hold of something.            *)
LEMMA TrackerTakes ==
  ASSUME IInv, NEW t \in Trackers,
         \/ \E m \in Mailboxes : Select(t, m)
         \/ CheckDns(t) \/ CheckCriteria(t) \/ \E clean \in BOOLEAN : DnsAnswers(t, clean)
  PROVE  Carries'
<1>. t \in Handlers BY DEF Handlers
<1>. HandlerTypes BY DEF IInv, TypeOK
<1>1. CASE Idle(t) BY <1>1, AloneKeeps, AloneMoves
<1>2. CASE ~Idle(t)
  <2>1. /\ pc' = [pc EXCEPT ![t] = pc'[t]]
        /\ from' = [from EXCEPT ![t] = from'[t]]
        /\ goal' = [goal EXCEPT ![t] = goal'[t]]
        /\ seen' = [seen EXCEPT ![t] = seen'[t]]
    BY <1>2 DEF Select, CheckDns, CheckCriteria, DnsAnswers, Start, Goto, local, HandlerTypes
  <2>2. ASSUME NEW b \in Bouncers PROVE RelapseHolds(b)'
    <3>1. b # t /\ b \in Handlers BY HealingConstants DEF HealingConstants, Handlers
    <3>. QED BY <2>1, <3>1 DEF RelapseHolds, IInv, Carries, HandlerTypes
  <2>3. ASSUME NEW u \in Trackers, u # t PROVE TrackerHolds(u)'
    <3>1. u \in Handlers BY DEF Handlers
    <3>. QED BY <2>1, <2>3, <3>1 DEF TrackerHolds, IInv, Carries, HandlerTypes
  <2>4. TrackerHolds(t)'
    <3>1. ASSUME NEW m \in Mailboxes, Select(t, m) PROVE TrackerHolds(t)'
      BY <3>1 DEF Select, Start, TrackerHolds, Recovering, Rehab, HandlerTypes
    <3>2. CASE CheckDns(t)
      <4>1. ~domainHeld /\ Goto(t, "lookup") /\ UNCHANGED <<from, goal>>
            /\ seen' = [seen EXCEPT ![t] = dnsFails + 1] /\ pc[t] = "dns"
        BY <1>2, <3>2 DEF CheckDns, MayLookUp
      <4>2. dnsFails + 1 \in 1 .. EscalateAt
        <5>1. dnsFails \in 0 .. EscalateAt /\ dnsFails # EscalateAt
          BY <4>1 DEF IInv, TypeOK, DomainTypes
        <5>. QED BY <5>1, HealingConstants DEF HealingConstants
      <4>. QED BY <4>1, <4>2 DEF Goto, TrackerHolds, IInv, Carries, HandlerTypes
    <3>3. CASE CheckCriteria(t)
      BY <1>2, <3>3 DEF CheckCriteria, Goto, local, TrackerHolds, IInv, Carries, HandlerTypes
    <3>4. ASSUME NEW clean \in BOOLEAN, DnsAnswers(t, clean) PROVE TrackerHolds(t)'
      BY <1>2, <3>4 DEF DnsAnswers, Goto, local, TrackerHolds, IInv, Carries, HandlerTypes
    <3>. QED BY <3>1, <3>2, <3>3, <3>4
  <2>. QED BY <2>2, <2>3, <2>4 DEF Carries
<1>. QED BY <1>1, <1>2

LEMMA RelapseTakes ==
  ASSUME IInv, NEW b \in Bouncers, ReadRelapses(b) \/ FallStatus(b)
  PROVE  Carries'
<1>. b \in Handlers BY DEF Handlers
<1>. HandlerTypes BY DEF IInv, TypeOK
<1>1. \A g \in Handlers \ {b} : pc'[g] = pc[g] /\ from'[g] = from[g] /\ goal'[g] = goal[g] /\ seen'[g] = seen[g]
  BY DEF ReadRelapses, FallStatus, Goto, local, HandlerTypes
<1>2. ASSUME NEW t \in Trackers PROVE TrackerHolds(t)'
  <2>1. t # b /\ t \in Handlers BY HealingConstants DEF HealingConstants, Handlers
  <2>. QED BY <1>1, <2>1 DEF TrackerHolds, IInv, Carries
<1>3. ASSUME NEW c \in Bouncers, c # b PROVE RelapseHolds(c)'
  <2>1. c \in Handlers BY DEF Handlers
  <2>. QED BY <1>1, <1>3, <2>1 DEF RelapseHolds, IInv, Carries
<1>4. RelapseHolds(b)'
  <2>1. CASE FallStatus(b)
    BY <2>1 DEF FallStatus, Goto, local, RelapseHolds, IInv, Carries, HandlerTypes
  <2>2. CASE ReadRelapses(b)
    <3>1. at[b] \in Mailboxes BY <2>2 DEF ReadRelapses, HandlerTypes
    <3>2. relapses[at[b]] \in 0 .. 3 BY <3>1 DEF IInv, TypeOK, RowTypes
    <3>. QED BY <2>2, <3>2 DEF ReadRelapses, Goto, RelapseHolds, HandlerTypes
  <2>. QED BY <2>1, <2>2
<1>. QED BY <1>2, <1>3, <1>4 DEF Carries

LEMMA CarriesStep == IInv /\ [Next]_vars => Carries'
<1> SUFFICES ASSUME IInv, [Next]_vars PROVE Carries'
  OBVIOUS
<1>. HandlerTypes BY DEF IInv, TypeOK
<1>0. {"idle", "validate", "cooled", "write", "cooldown", "phase", "pausefields", "warmup", "count", "relapse"} \subseteq Harmless
  BY DEF Harmless, Steps
<1>1. ASSUME NEW x \in Cycles, Cycle(x) PROVE Carries'
  BY <1>0, <1>1, AloneKeeps, AloneMoves DEF Cycle, Eligible, Assess, WritePhase, Handlers
<1>2. ASSUME NEW t \in Trackers, Track(t) PROVE Carries'
  <2>1. CASE DeferDns(t) \/ DnsThrows(t) \/ Climb(t) \/ SetWarmup(t)
    BY <1>0, <2>1, AloneKeeps, AloneMoves DEF DeferDns, DnsThrows, Climb, SetWarmup, Handlers
  <2>. QED BY <1>2, <2>1, TrackerTakes DEF Track
<1>3. ASSUME NEW b \in Bouncers, Bounce(b) PROVE Carries'
  <2>. b \in Handlers BY DEF Handlers
  <2>1. CASE CountBounce(b)
    <3>1. Alone(b)
      BY <1>0, <2>1, AloneMoves DEF CountBounce, Goto, Alone, HandlerTypes
    <3>. QED BY <3>1, AloneKeeps
  <2>2. CASE PauseFields(b) \/ FallFields(b)
    BY <2>2, AloneKeeps, AloneMoves DEF PauseFields, FallFields
  <2>. QED BY <1>3, <2>1, <2>2, RelapseTakes DEF Bounce
<1>4. ASSUME NEW b \in Bouncers, NEW m \in Mailboxes, StoreBounce(b, m) PROVE Carries'
  BY <1>0, <1>4, AloneKeeps, AloneMoves DEF StoreBounce, Handlers
<1>5. ASSUME NEW h \in Handlers, Transition(h) \/ Crash(h) PROVE Carries'
  BY <1>0, <1>5, AloneKeeps, AloneMoves
     DEF Transition, Validate, CheckCooldown, WriteStatus, WriteCooldown, Continue, AfterTransition, Crash
<1>6. CASE Operate
  <2>1. ASSUME NEW o \in Operators, NEW m \in Mailboxes, Resume(o, m) PROVE Carries'
    BY <1>0, <2>1, AloneKeeps, AloneMoves DEF Resume, Handlers
  <2>2. CASE UNCHANGED <<pc, local>>
    BY <2>2 DEF local, IInv, Carries, TrackerHolds, RelapseHolds
  <2>. QED BY <1>6, <2>1, <2>2 DEF Operate, ClearMailbox, ClearDomain
<1>7. CASE UNCHANGED <<pc, local>>
  BY <1>7 DEF local, IInv, Carries, TrackerHolds, RelapseHolds
<1>. QED
  BY <1>1, <1>2, <1>3, <1>4, <1>5, <1>6, <1>7 DEF Next, CooldownElapses, Serve, vars

LEMMA Invariant == Spec => []IInv
<1>1. Init => IInv BY InitInv
<1>2. IInv /\ [Next]_vars => IInv' BY TypeStep, CarriesStep DEF IInv
<1>. QED BY <1>1, <1>2, PTL DEF Spec

(* Types hold, and at the threshold of failed lookups the domain is held,    *)
(* for any number of passes that race to count them.                         *)
THEOREM TypeCorrect == Spec => []TypeOK
<1>1. IInv => TypeOK BY DEF IInv
<1>. QED BY <1>1, Invariant, PTL

(* What a step does to a mailbox: nothing that matters here, or it sends it  *)
(* down, or it is the climb of a tracker or what follows one.                *)
LEMMA RowMoves ==
  ASSUME IInv, [Next]_vars, NEW m \in Mailboxes
  PROVE  \/ /\ phase'[m] = phase[m]
            /\ served[m] => served'[m]
         \/ phase'[m] \in {"paused", "quarantine"}
         \/ \E t \in Trackers : Climb(t) \/ (SetWarmup(t) /\ phase'[m] = phase[m])
<1>. RowTypes /\ HandlerTypes BY DEF IInv, TypeOK
<1> DEFINE Same == /\ phase'[m] = phase[m]
                   /\ served[m] => served'[m]
           Down == phase'[m] \in {"paused", "quarantine"}
<1>1. UNCHANGED row => Same BY DEF row
<1>2. ASSUME NEW x \in Cycles, Cycle(x) PROVE Same \/ Down
  <2>1. CASE WritePhase(x)
    BY <2>1 DEF WritePhase, EnterPhase, RowTypes
  <2>. QED BY <1>1, <1>2, <2>1 DEF Cycle, Eligible, Assess
<1>3. ASSUME NEW t \in Trackers, Track(t), ~Climb(t) PROVE Same \/ (SetWarmup(t) /\ phase'[m] = phase[m])
  <2>1. CASE SetWarmup(t)
    BY <2>1 DEF SetWarmup, EnterPhase, RowTypes
  <2>. QED BY <1>1, <1>3, <2>1 DEF Track, Select, CheckDns, DeferDns, DnsAnswers, DnsThrows, CheckCriteria
<1>4. ASSUME NEW b \in Bouncers, Bounce(b) PROVE Same \/ Down
  <2>. b \in Handlers BY DEF Handlers
  <2>1. CASE PauseFields(b)
    BY <2>1 DEF PauseFields, EnterPhase, RowTypes
  <2>2. CASE FallFields(b)
    <3>1. goal[b] \in {"quarantine", "paused"}
      BY <2>2 DEF FallFields, IInv, Carries, RelapseHolds
    <3>. QED BY <2>2, <3>1 DEF FallFields, EnterPhase, RowTypes
  <2>3. CASE FallStatus(b)
    BY <2>3 DEF FallStatus
  <2>. QED BY <1>1, <1>4, <2>1, <2>2, <2>3 DEF Bounce, CountBounce, ReadRelapses
<1>5. ASSUME NEW b \in Bouncers, NEW n \in Mailboxes, StoreBounce(b, n) PROVE Same
  BY <1>5 DEF StoreBounce
<1>6. ASSUME NEW h \in Handlers, Transition(h) \/ Crash(h) PROVE Same
  BY <1>1, <1>6 DEF Transition, Validate, CheckCooldown, WriteStatus, WriteCooldown, Crash
<1>7. CASE Operate
  BY <1>1, <1>7 DEF Operate, Resume, ClearMailbox, ClearDomain, RowTypes
<1>8. ASSUME NEW n \in Mailboxes, CooldownElapses(n) \/ Serve(n) PROVE Same
  BY <1>8 DEF CooldownElapses, Serve, RowTypes
<1>. QED BY <1>1, <1>2, <1>3, <1>4, <1>5, <1>6, <1>7, <1>8 DEF Next, vars

(* A tracker climbs from the phase it was selected in to the next.           *)
LEMMA ClimbMoves ==
  ASSUME IInv, NEW t \in Trackers, Climb(t), NEW m \in Mailboxes, phase'[m] # phase[m]
  PROVE  /\ pc[t] = "climb" /\ at[t] = m /\ from[t] = phase[m]
         /\ phase[m] \in Recovering /\ phase'[m] = NextPhase(phase[m])
<1>. t \in Handlers BY DEF Handlers
<1>1. Unchanged(t) /\ EnterPhase(at[t], goal[t]) /\ pc[t] = "climb"
  BY DEF Climb
<1>2. at[t] = m /\ phase'[m] = goal[t]
  BY <1>1 DEF EnterPhase, IInv, TypeOK, RowTypes
<1>. QED BY <1>1, <1>2 DEF Unchanged, IInv, Carries, TrackerHolds

(* Recovery is climbed one rung at a time, for any number of overlapping     *)
(* passes, bounces, cycles and crashes.                                      *)
THEOREM OneRungAtATime == Spec => OneRung
<1>1. ASSUME IInv, [Next]_vars, NEW m \in Mailboxes, Rung(phase'[m]) > Rung(phase[m])
      PROVE  Rung(phase'[m]) = Rung(phase[m]) + 1
  <2>1. phase[m] \in Ladder BY <1>1 DEF IInv, TypeOK, RowTypes
  <2>2. CASE phase'[m] = phase[m]
    BY <1>1, <2>1, <2>2 DEF Rung, Ladder
  <2>3. CASE phase'[m] \in {"paused", "quarantine"}
    BY <1>1, <2>1, <2>3 DEF Rung, Ladder
  <2>4. ASSUME phase'[m] # phase[m], NEW t \in Trackers, Climb(t) PROVE Rung(phase'[m]) = Rung(phase[m]) + 1
    <3>1. phase[m] \in Recovering /\ phase'[m] = NextPhase(phase[m])
      BY <1>1, <2>4, ClimbMoves
    <3>. QED BY <3>1 DEF Rung, NextPhase, Recovering
  <2>. QED BY <1>1, <2>2, <2>3, <2>4, RowMoves
<1>2. IInv /\ [Next]_vars
        => \A m \in Mailboxes : Rung(phase'[m]) > Rung(phase[m]) => Rung(phase'[m]) = Rung(phase[m]) + 1
  BY <1>1
<1>. QED BY <1>2, Invariant, PTL DEF Spec, OneRung

(* While a tracker is about to graduate a mailbox that still is in the phase *)
(* it was selected in, that stay is served.                                  *)
OneTracker == \A t, u \in Trackers : t = u
Deserved ==
  \A t \in Trackers : pc[t] = "climb" /\ from[t] \in Rehab /\ phase[at[t]] = from[t]
                       => served[at[t]]

LEMMA DeservedStep ==
  ASSUME IInv, Deserved, [Next]_vars, OneTracker
  PROVE  Deserved'
<1> SUFFICES ASSUME NEW t \in Trackers, pc'[t] = "climb", from'[t] \in Rehab, phase'[at'[t]] = from'[t]
             PROVE  served'[at'[t]]
  BY DEF Deserved
<1>. t \in Handlers BY DEF Handlers
<1>. RowTypes /\ HandlerTypes BY DEF IInv, TypeOK
<1>1. CASE Track(t)
  <2>1. CASE CheckCriteria(t)
    BY <2>1 DEF CheckCriteria, Goto, Idle, local, row, Ready, HandlerTypes
  <2>2. ASSUME NEW clean \in BOOLEAN, DnsAnswers(t, clean) PROVE FALSE
    BY <2>2 DEF DnsAnswers, Goto, Idle, local, Rehab, IInv, Carries, TrackerHolds, HandlerTypes
  <2>3. ASSUME \/ \E m \in Mailboxes : Select(t, m)
               \/ CheckDns(t) \/ DeferDns(t) \/ DnsThrows(t) \/ Climb(t) \/ SetWarmup(t)
        PROVE  FALSE
    BY <2>3 DEF Select, CheckDns, DeferDns, DnsThrows, Climb, SetWarmup, Start, Goto, Idle, HandlerTypes
  <2>. QED BY <1>1, <2>1, <2>2, <2>3 DEF Track
<1>2. CASE ~Track(t)
  <2>1. pc[t] = "climb" /\ from'[t] = from[t] /\ at'[t] = at[t]
    <3>1. ASSUME NEW h \in Handlers, Transition(h) \/ Crash(h) PROVE pc[t] = "climb" /\ from'[t] = from[t] /\ at'[t] = at[t]
      BY <3>1 DEF Transition, Validate, CheckCooldown, WriteStatus, WriteCooldown, Continue, AfterTransition, Crash,
                  Goto, Idle, local, HandlerTypes
    <3>2. ASSUME NEW x \in Cycles, Cycle(x) PROVE pc[t] = "climb" /\ from'[t] = from[t] /\ at'[t] = at[t]
      BY <3>2 DEF Cycle, Eligible, Assess, WritePhase, Start, Idle, HandlerTypes
    <3>3. ASSUME NEW b \in Bouncers, Bounce(b) PROVE pc[t] = "climb" /\ from'[t] = from[t] /\ at'[t] = at[t]
      <4>. b # t BY HealingConstants DEF HealingConstants
      <4>. QED BY <3>3 DEF Bounce, CountBounce, PauseFields, ReadRelapses, FallStatus, FallFields, Goto, Idle, local, HandlerTypes
    <3>4. ASSUME NEW b \in Bouncers, NEW m \in Mailboxes, StoreBounce(b, m) PROVE pc[t] = "climb" /\ from'[t] = from[t] /\ at'[t] = at[t]
      BY <3>4 DEF StoreBounce, Start, HandlerTypes
    <3>5. ASSUME NEW o \in Operators, NEW m \in Mailboxes, Resume(o, m) PROVE pc[t] = "climb" /\ from'[t] = from[t] /\ at'[t] = at[t]
      BY <3>5 DEF Resume, Start, HandlerTypes
    <3>6. CASE UNCHANGED <<pc, local>>
      BY <3>6 DEF local
    <3>7. \A u \in Trackers : ~Track(u)
      BY <1>2 DEF OneTracker
    <3>. QED BY <3>1, <3>2, <3>3, <3>4, <3>5, <3>6, <3>7
         DEF Next, Operate, ClearMailbox, ClearDomain, CooldownElapses, Serve, vars
  <2>2. at[t] \in Mailboxes BY <2>1 DEF HandlerTypes
  <2>3. ~ \E u \in Trackers : Climb(u) \/ SetWarmup(u)
    BY <1>2 DEF OneTracker, Track
  <2>4. \/ /\ phase'[at[t]] = phase[at[t]]
           /\ served[at[t]] => served'[at[t]]
        \/ phase'[at[t]] \in {"paused", "quarantine"}
    BY <2>2, <2>3, RowMoves
  <2>. QED BY <2>1, <2>4 DEF Deserved, Rehab
<1>. QED BY <1>1, <1>2

LEMMA DeservedInvariant == OneTracker /\ Spec => [](IInv /\ Deserved)
<1>1. Init => Deserved BY DEF Init, Deserved, Handlers
<1>2. OneTracker /\ IInv /\ Deserved /\ [Next]_vars => Deserved' BY DeservedStep
<1>3. CASE OneTracker
  <2>1. IInv /\ Deserved /\ [Next]_vars => Deserved' BY <1>2, <1>3
  <2>. QED BY <1>1, <2>1, Invariant, PTL DEF Spec
<1>4. CASE ~OneTracker BY <1>4
<1>. QED BY <1>3, <1>4

(* A stay above quarantine is left upwards only when it was served, as long  *)
(* as passes of the warmup worker do not overlap.                            *)
THEOREM ClimbsAreEarned == OneTracker /\ Spec => EarnedClimb
<1>1. ASSUME IInv, Deserved, [Next]_vars, NEW m \in Mailboxes,
             phase[m] \in Rehab, phase'[m] = NextPhase(phase[m])
      PROVE  served[m]
  <2>1. phase'[m] # phase[m] /\ phase'[m] \notin {"paused", "quarantine"}
    BY <1>1 DEF Rehab, NextPhase
  <2>2. PICK t \in Trackers : Climb(t) BY <1>1, <2>1, RowMoves
  <2>3. pc[t] = "climb" /\ at[t] = m /\ from[t] = phase[m] BY <1>1, <2>1, <2>2, ClimbMoves
  <2>. QED BY <1>1, <2>3 DEF Deserved
<1>2. IInv /\ Deserved /\ [Next]_vars
        => \A m \in Mailboxes : phase[m] \in Rehab /\ phase'[m] = NextPhase(phase[m]) => served[m]
  BY <1>1
<1>. QED BY <1>2, DeservedInvariant, PTL DEF Spec, EarnedClimb

(* What other steps do to the stay of a mailbox in its phase: it is served   *)
(* only in a quiet moment, begins again with every change of phase, and at   *)
(* a change of the warmup; a flag comes with a fall, and the volume cap with *)
(* a tracker that has climbed.                                               *)
LEMMA Stay ==
  ASSUME IInv, [Next]_vars, NEW m \in Mailboxes
  PROVE  /\ served'[m] => served[m] \/ Serve(m)
         /\ phase'[m] # phase[m] => ~served'[m]
         /\ served[m] /\ ~served'[m] =>
              \/ phase'[m] # phase[m]
              \/ phase'[m] \in {"paused", "quarantine"}
              \/ \E t \in Trackers : SetWarmup(t) /\ at[t] = m
         /\ manual'[m] => manual[m] \/ phase'[m] \in {"paused", "quarantine"}
         /\ capped'[m] # capped[m] =>
              \E t \in Trackers : SetWarmup(t) /\ at[t] = m /\ capped'[m] = HasCap(goal[t])
<1>. RowTypes /\ HandlerTypes BY DEF IInv, TypeOK
<1> DEFINE Kept == /\ phase'[m] = phase[m] /\ served'[m] = served[m]
                   /\ manual'[m] => manual[m]
                   /\ capped'[m] = capped[m]
           Fell == /\ phase'[m] \in {"paused", "quarantine"} /\ ~served'[m]
                   /\ capped'[m] = capped[m]
           Rose == /\ phase'[m] # phase[m] /\ ~served'[m]
                   /\ manual'[m] = manual[m] /\ capped'[m] = capped[m]
           Warmed(t) == /\ SetWarmup(t) /\ at[t] = m /\ phase'[m] = phase[m]
                        /\ served'[m] => served[m]
                        /\ manual'[m] = manual[m] /\ capped'[m] = HasCap(goal[t])
           Rested == /\ Serve(m) /\ phase'[m] = phase[m] /\ served'[m]
                     /\ manual'[m] = manual[m] /\ capped'[m] = capped[m]
<1>0. UNCHANGED row => Kept BY DEF row
<1>1. ASSUME NEW x \in Cycles, Cycle(x) PROVE Kept \/ Fell
  <2>1. CASE WritePhase(x)
    BY <2>1 DEF WritePhase, EnterPhase, RowTypes
  <2>. QED BY <1>0, <1>1, <2>1 DEF Cycle, Eligible, Assess
<1>2. ASSUME NEW t \in Trackers, Track(t) PROVE Kept \/ Rose \/ Warmed(t)
  <2>1. CASE SetWarmup(t)
    BY <2>1 DEF SetWarmup, EnterPhase, RowTypes
  <2>2. CASE Climb(t)
    <3>. t \in Handlers BY DEF Handlers
    <3>1. UNCHANGED <<manual, capped>> BY <2>2 DEF Climb
    <3>2. CASE Unchanged(t) /\ at[t] = m
      <4>1. phase'[m] = goal[t] /\ ~served'[m]
        BY <2>2, <3>2 DEF Climb, EnterPhase, RowTypes
      <4>2. phase[m] \in Recovering /\ goal[t] = NextPhase(phase[m])
        BY <2>2, <3>2 DEF Climb, Unchanged, IInv, Carries, TrackerHolds
      <4>3. NextPhase(phase[m]) # phase[m] BY <4>2 DEF NextPhase, Recovering
      <4>. QED BY <3>1, <4>1, <4>2, <4>3
    <3>3. CASE ~Unchanged(t) \/ at[t] # m
      BY <2>2, <3>1, <3>3 DEF Climb, EnterPhase, RowTypes
    <3>. QED BY <3>2, <3>3
  <2>. QED BY <1>0, <1>2, <2>1, <2>2 DEF Track, Select, CheckDns, DeferDns, DnsAnswers, DnsThrows, CheckCriteria
<1>3. ASSUME NEW b \in Bouncers, Bounce(b) PROVE Kept \/ Fell
  <2>. b \in Handlers BY DEF Handlers
  <2>1. CASE PauseFields(b)
    BY <2>1 DEF PauseFields, EnterPhase, RowTypes
  <2>2. CASE FallFields(b)
    <3>1. goal[b] \in {"quarantine", "paused"}
      BY <2>2 DEF FallFields, IInv, Carries, RelapseHolds
    <3>. QED BY <2>2, <3>1 DEF FallFields, EnterPhase, RowTypes
  <2>3. CASE FallStatus(b)
    BY <2>3 DEF FallStatus
  <2>. QED BY <1>0, <1>3, <2>1, <2>2, <2>3 DEF Bounce, CountBounce, ReadRelapses
<1>4. ASSUME NEW b \in Bouncers, NEW n \in Mailboxes, StoreBounce(b, n) PROVE Kept
  BY <1>4 DEF StoreBounce
<1>5. ASSUME NEW h \in Handlers, Transition(h) \/ Crash(h) PROVE Kept
  BY <1>0, <1>5 DEF Transition, Validate, CheckCooldown, WriteStatus, WriteCooldown, Crash
<1>6. ASSUME Operate PROVE Kept
  BY <1>0, <1>6 DEF Operate, Resume, ClearMailbox, ClearDomain, RowTypes
<1>7. ASSUME NEW n \in Mailboxes, CooldownElapses(n) \/ Serve(n) PROVE Kept \/ Rested
  BY <1>7 DEF CooldownElapses, Serve, RowTypes
<1>8. UNCHANGED vars => Kept BY <1>0 DEF vars
<1>9. Kept \/ Fell \/ Rose \/ Rested \/ (\E t \in Trackers : Warmed(t))
  <2> HIDE DEF Kept, Fell, Rose, Warmed, Rested
  <2>. QED BY <1>1, <1>2, <1>3, <1>4, <1>5, <1>6, <1>7, <1>8 DEF Next
<1>. QED BY <1>9

(* What a step does to a tracker that is on its way, or sets it on its way.  *)
Still(t) == pc'[t] = pc[t] /\ at'[t] = at[t] /\ from'[t] = from[t] /\ goal'[t] = goal[t]
Underway == {"criteria", "climb", "warmup"}

LEMMA TrackerMoves ==
  ASSUME IInv, [Next]_vars, NEW t \in Trackers
  PROVE  \/ Still(t)
         \/ /\ pc'[t] \notin Underway
            /\ pc[t] = "warmup" => SetWarmup(t) \/ faults' > 0
         \/ \E m \in Mailboxes : Select(t, m)
         \/ CheckCriteria(t) /\ Ready(at[t]) /\ Goto(t, "climb") /\ UNCHANGED local
         \/ pc[t] = "lookup" /\ pc'[t] = "climb" /\ from'[t] = "quarantine"
         \/ Climb(t) /\ Unchanged(t)
<1>. t \in Handlers BY DEF Handlers
<1>. HandlerTypes BY DEF IInv, TypeOK
<1> USE DEF Underway
<1>1. CASE Track(t)
  <2>1. ASSUME NEW clean \in BOOLEAN, DnsAnswers(t, clean), pc'[t] \in Underway
        PROVE  pc[t] = "lookup" /\ pc'[t] = "climb" /\ from'[t] = "quarantine"
    BY <2>1 DEF DnsAnswers, Goto, Idle, local, IInv, Carries, TrackerHolds, HandlerTypes
  <2>2. CASE CheckDns(t) \/ DeferDns(t) \/ DnsThrows(t) \/ SetWarmup(t)
    BY <2>2 DEF CheckDns, DeferDns, DnsThrows, SetWarmup, Goto, Idle, HandlerTypes
  <2>3. CASE CheckCriteria(t)
    BY <2>3 DEF CheckCriteria, Idle, HandlerTypes
  <2>4. CASE Climb(t)
    BY <2>4 DEF Climb, Idle, HandlerTypes
  <2>5. ASSUME NEW clean \in BOOLEAN, DnsAnswers(t, clean) PROVE pc[t] # "warmup"
    BY <2>5 DEF DnsAnswers
  <2>. QED BY <1>1, <2>1, <2>2, <2>3, <2>4, <2>5 DEF Track
<1>2. ASSUME NEW u \in Trackers, u # t, Track(u) PROVE Still(t)
  <2>. u \in Handlers BY DEF Handlers
  <2>. QED BY <1>2 DEF Track, Select, CheckDns, DeferDns, DnsAnswers, DnsThrows, CheckCriteria, Climb, SetWarmup,
                       Start, Goto, Idle, local, Still, HandlerTypes
<1>3. ASSUME NEW x \in Cycles, Cycle(x) PROVE Still(t)
  <2>. x # t /\ x \in Handlers BY HealingConstants DEF HealingConstants, Handlers
  <2>. QED BY <1>3 DEF Cycle, Eligible, Assess, WritePhase, Start, Idle, Still, HandlerTypes
<1>4. ASSUME NEW b \in Bouncers, Bounce(b) \/ \E m \in Mailboxes : StoreBounce(b, m) PROVE Still(t)
  <2>. b # t /\ b \in Handlers BY HealingConstants DEF HealingConstants, Handlers
  <2>. QED BY <1>4 DEF Bounce, CountBounce, PauseFields, ReadRelapses, FallStatus, FallFields, StoreBounce,
                       Start, Goto, Idle, local, Still, HandlerTypes
<1>5. ASSUME NEW h \in Handlers, Transition(h) PROVE Still(t) \/ (pc'[t] \notin Underway /\ pc[t] # "warmup")
  BY <1>5 DEF Transition, Validate, CheckCooldown, WriteStatus, WriteCooldown, Continue, AfterTransition,
              Goto, Idle, local, Still, HandlerTypes
<1>6. ASSUME NEW h \in Handlers, Crash(h) PROVE Still(t) \/ (pc'[t] \notin Underway /\ faults' > 0)
  <2>1. faults' > 0 BY <1>6 DEF Crash, HandlerTypes
  <2>. QED BY <1>6, <2>1 DEF Crash, Idle, Still, HandlerTypes
<1>7. ASSUME NEW o \in Operators, NEW m \in Mailboxes, Resume(o, m) PROVE Still(t) \/ (pc'[t] \notin Underway /\ pc[t] # "warmup")
  BY <1>7 DEF Resume, Start, Still, Handlers, HandlerTypes
<1>8. CASE UNCHANGED <<pc, local>>
  BY <1>8 DEF local, Still
<1>. QED BY <1>1, <1>2, <1>3, <1>4, <1>5, <1>6, <1>7, <1>8
     DEF Next, Operate, ClearMailbox, ClearDomain, CooldownElapses, Serve, vars

(* Trackers that overlap do not lead a mailbox up behind each other's back,  *)
(* however many there are.  As long as one of them is at work on m the stay  *)
(* of m cannot come to be served, so a served stay is the one in which they  *)
(* all selected it (SameStay) and one that has just climbed left none        *)
(* (Reset).  Hence no two are about to climb from restricted_send and from   *)
(* warm_recovery at once (OneRungArmed), hence a mailbox that one of them    *)
(* still must set up does not reach warm_recovery while another is about to  *)
(* graduate it (NotBehind), nor healthy, unless it was that one's graduation *)
(* (SetsUp); so what lifts the cap is yet to come (LiftPending), and at the  *)
(* graduation the stay is served and unflagged (Cleared).                    *)
Pursues(t, m) == at[t] = m /\ pc[t] \in {"criteria", "climb"} /\ from[t] \in Rehab
Armed(t, m, p) == at[t] = m /\ pc[t] = "climb" /\ from[t] = p
SettingUp(t, m) == at[t] = m /\ pc[t] = "warmup"

SameStay(m) == \A t \in Trackers : Pursues(t, m) /\ served[m] => phase[m] = from[t]
Reset(m) == \A t \in Trackers : SettingUp(t, m) => ~served[m]
OneRungArmed(m) ==
  \A t, u \in Trackers : ~(Armed(t, m, "restricted_send") /\ Armed(u, m, "warm_recovery"))
NotBehind(m) ==
  \A t, u \in Trackers :
    SettingUp(u, m) /\ Armed(t, m, "warm_recovery") => phase[m] # "warm_recovery"
SetsUp(m) == \A t \in Trackers : SettingUp(t, m) /\ goal[t] # "healthy" => phase[m] # "healthy"
LiftPending(m) ==
  faults = 0 /\ phase[m] = "healthy" /\ capped[m] => \E t \in Trackers : SettingUp(t, m)
Cleared(m) ==
  \A t \in Trackers :
    Armed(t, m, "warm_recovery") /\ phase[m] = "warm_recovery" => served[m] /\ ~manual[m]

Relay ==
  \A m \in Mailboxes :
    /\ SameStay(m) /\ Reset(m) /\ OneRungArmed(m) /\ NotBehind(m)
    /\ SetsUp(m) /\ LiftPending(m) /\ Cleared(m)

LEMMA RelayInit == Init => Relay
BY DEF Init, Relay, SameStay, Reset, OneRungArmed, NotBehind, SetsUp, LiftPending, Cleared,
       Pursues, Armed, SettingUp, Handlers

(* A tracker comes to be about to climb by the criteria alone: from Rehab.   *)
LEMMA Arming ==
  ASSUME IInv, [Next]_vars, NEW t \in Trackers, NEW m \in Mailboxes, NEW p \in Rehab, Armed(t, m, p)'
  PROVE  /\ Pursues(t, m) /\ from[t] = p
         /\ Armed(t, m, p) \/ (Ready(m) /\ UNCHANGED row)
<1>. t \in Handlers /\ HandlerTypes BY DEF Handlers, IInv, TypeOK
<1>1. CASE Still(t) BY <1>1 DEF Still, Armed, Pursues
<1>2. CASE CheckCriteria(t) /\ Ready(at[t]) /\ Goto(t, "climb") /\ UNCHANGED local
  BY <1>2 DEF CheckCriteria, local, Armed, Pursues
<1>3. ASSUME NEW n \in Mailboxes, Select(t, n) PROVE pc'[t] # "climb"
  BY <1>3 DEF Select, Start, HandlerTypes
<1>4. CASE Climb(t) /\ Unchanged(t)
  BY <1>4 DEF Climb, Goto, Armed, HandlerTypes
<1>5. CASE from'[t] = "quarantine"
  BY <1>5 DEF Armed, Rehab
<1>. QED BY <1>1, <1>2, <1>3, <1>4, <1>5, TrackerMoves DEF Armed, Underway

(* ... and to be about to set a mailbox up by the climb alone.               *)
LEMMA SettingUpMoves ==
  ASSUME IInv, [Next]_vars, NEW t \in Trackers, NEW m \in Mailboxes, SettingUp(t, m)'
  PROVE  \/ SettingUp(t, m) /\ goal'[t] = goal[t]
         \/ /\ Climb(t) /\ phase'[m] = goal[t] /\ goal'[t] = goal[t]
            /\ phase'[m] # phase[m]
<1>. t \in Handlers /\ HandlerTypes /\ RowTypes BY DEF Handlers, IInv, TypeOK
<1>1. CASE Still(t) BY <1>1 DEF Still, SettingUp
<1>2. CASE Climb(t) /\ Unchanged(t)
  <2>1. at[t] = m /\ goal'[t] = goal[t] BY <1>2 DEF Climb, local, SettingUp
  <2>2. phase'[m] = goal[t] BY <1>2, <2>1 DEF Climb, EnterPhase, RowTypes
  <2>3. phase[m] \in Recovering /\ goal[t] = NextPhase(phase[m])
    BY <1>2, <2>1 DEF Climb, Unchanged, IInv, Carries, TrackerHolds
  <2>4. NextPhase(phase[m]) # phase[m] BY <2>3 DEF NextPhase, Recovering
  <2>. QED BY <1>2, <2>1, <2>2, <2>3, <2>4
<1>3. ASSUME NEW n \in Mailboxes, Select(t, n) PROVE pc'[t] # "warmup"
  BY <1>3 DEF Select, Start, HandlerTypes
<1>4. CASE CheckCriteria(t) /\ Goto(t, "climb")
  BY <1>4 DEF Goto, SettingUp, HandlerTypes
<1>. QED BY <1>1, <1>2, <1>3, <1>4, TrackerMoves DEF SettingUp, Underway

(* A mailbox goes up from Rehab by a tracker that was about to climb.        *)
LEMMA Ascent ==
  ASSUME IInv, [Next]_vars, NEW m \in Mailboxes, phase'[m] # phase[m]
  PROVE  /\ phase'[m] = "warm_recovery" =>
              \E t \in Trackers : Armed(t, m, "restricted_send")
         /\ phase'[m] = "healthy" =>
              /\ phase[m] = "warm_recovery"
              /\ \E t \in Trackers : Armed(t, m, "warm_recovery") /\ SettingUp(t, m)'
<1>1. CASE phase'[m] \in {"paused", "quarantine"} BY <1>1
<1>2. ASSUME NEW t \in Trackers, Climb(t)
      PROVE  /\ phase'[m] = "warm_recovery" => Armed(t, m, "restricted_send")
             /\ phase'[m] = "healthy" =>
                  phase[m] = "warm_recovery" /\ Armed(t, m, "warm_recovery") /\ SettingUp(t, m)'
  <2>. t \in Handlers /\ HandlerTypes BY DEF Handlers, IInv, TypeOK
  <2>1. /\ pc[t] = "climb" /\ at[t] = m /\ from[t] = phase[m]
        /\ phase[m] \in Recovering /\ phase'[m] = NextPhase(phase[m])
    BY <1>2, ClimbMoves
  <2>2. SettingUp(t, m)'
    BY <1>2, <2>1 DEF Climb, Unchanged, Goto, local, SettingUp, HandlerTypes
  <2>. QED BY <2>1, <2>2 DEF Recovering, NextPhase, Armed
<1>. QED BY <1>1, <1>2, RowMoves

LEMMA FaultsCounted == [Next]_vars => UNCHANGED faults \/ \E h \in Handlers : Crash(h)
<1>1. ASSUME NEW h \in Handlers, Transition(h) PROVE UNCHANGED faults
  BY <1>1 DEF Transition, Validate, CheckCooldown, WriteStatus, WriteCooldown, bounds
<1>2. ASSUME NEW x \in Cycles, Cycle(x) PROVE UNCHANGED faults
  BY <1>2 DEF Cycle, Eligible, Assess, WritePhase, bounds
<1>3. ASSUME NEW t \in Trackers, Track(t) PROVE UNCHANGED faults
  BY <1>3 DEF Track, Select, CheckDns, DeferDns, DnsAnswers, DnsThrows, CheckCriteria, Climb, SetWarmup, bounds
<1>4. ASSUME NEW b \in Bouncers, Bounce(b) \/ \E m \in Mailboxes : StoreBounce(b, m) PROVE UNCHANGED faults
  BY <1>4 DEF Bounce, CountBounce, PauseFields, ReadRelapses, FallStatus, FallFields, StoreBounce, bounds
<1>5. CASE Operate
  BY <1>5 DEF Operate, Resume, ClearMailbox, ClearDomain, bounds
<1>6. ASSUME NEW m \in Mailboxes, CooldownElapses(m) \/ Serve(m) PROVE UNCHANGED faults
  BY <1>6 DEF CooldownElapses, Serve, bounds
<1>7. CASE UNCHANGED vars BY <1>7 DEF vars, bounds
<1>. QED BY <1>1, <1>2, <1>3, <1>4, <1>5, <1>6, <1>7 DEF Next

LEMMA SameStayStep ==
  ASSUME IInv, Relay, [Next]_vars, NEW m \in Mailboxes
  PROVE  SameStay(m)'
<1> SUFFICES ASSUME NEW t \in Trackers, Pursues(t, m)', served'[m]
             PROVE  phase'[m] = from'[t]
  BY DEF SameStay
<1>. t \in Handlers /\ HandlerTypes BY DEF Handlers, IInv, TypeOK
<1>1. phase'[m] = phase[m] BY Stay
<1>2. CASE Serve(m)
  BY <1>2 DEF Serve, Quiet, local, Pursues
<1>3. CASE served[m]
  <2>1. CASE Still(t) BY <1>1, <1>3, <2>1 DEF Still, Pursues, Relay, SameStay
  <2>2. CASE CheckCriteria(t) /\ UNCHANGED local
    BY <1>1, <1>3, <2>2 DEF CheckCriteria, local, Pursues, Relay, SameStay
  <2>3. ASSUME NEW n \in Mailboxes, Select(t, n) PROVE phase'[m] = from'[t]
    BY <1>1, <2>3 DEF Select, Start, Pursues, HandlerTypes
  <2>4. CASE Climb(t) /\ Unchanged(t)
    BY <2>4 DEF Climb, Goto, Pursues, HandlerTypes
  <2>5. from'[t] # "quarantine" BY DEF Pursues, Rehab
  <2>. QED BY <2>1, <2>2, <2>3, <2>4, <2>5, TrackerMoves DEF Pursues, Underway
<1>. QED BY <1>2, <1>3, Stay

LEMMA ResetStep ==
  ASSUME IInv, Relay, [Next]_vars, NEW m \in Mailboxes
  PROVE  Reset(m)'
<1> SUFFICES ASSUME NEW t \in Trackers, SettingUp(t, m)', served'[m] PROVE FALSE
  BY DEF Reset
<1>. t \in Handlers BY DEF Handlers
<1>1. ~Serve(m) BY DEF Serve, Quiet, local, SettingUp
<1>2. served[m] /\ phase'[m] = phase[m] BY <1>1, Stay
<1>. QED BY <1>2, SettingUpMoves DEF Relay, Reset

LEMMA OneRungArmedStep ==
  ASSUME IInv, Relay, [Next]_vars, NEW m \in Mailboxes
  PROVE  OneRungArmed(m)'
<1> SUFFICES ASSUME NEW t \in Trackers, NEW u \in Trackers,
                    Armed(t, m, "restricted_send")', Armed(u, m, "warm_recovery")'
             PROVE  FALSE
  BY DEF OneRungArmed
<1>. "restricted_send" \in Rehab /\ "warm_recovery" \in Rehab BY DEF Rehab
<1>1. /\ Pursues(t, m) /\ from[t] = "restricted_send"
      /\ Armed(t, m, "restricted_send") \/ Ready(m)
  BY Arming
<1>2. /\ Pursues(u, m) /\ from[u] = "warm_recovery"
      /\ Armed(u, m, "warm_recovery") \/ Ready(m)
  BY Arming
<1>3. ~Ready(m) BY <1>1, <1>2 DEF Ready, Relay, SameStay
<1>. QED BY <1>1, <1>2, <1>3 DEF Relay, OneRungArmed

LEMMA NotBehindStep ==
  ASSUME IInv, Relay, [Next]_vars, NEW m \in Mailboxes
  PROVE  NotBehind(m)'
<1> SUFFICES ASSUME NEW t \in Trackers, NEW u \in Trackers, SettingUp(u, m)',
                    Armed(t, m, "warm_recovery")', phase'[m] = "warm_recovery"
             PROVE  FALSE
  BY DEF NotBehind
<1>. "warm_recovery" \in Rehab BY DEF Rehab
<1>1. Armed(t, m, "warm_recovery")
  <2>1. ~served'[m] BY ResetStep DEF Reset
  <2>. QED BY <2>1, Arming DEF Ready, row
<1>2. phase[m] = "warm_recovery"
  BY <1>1, Ascent DEF Relay, OneRungArmed
<1>. QED BY <1>1, <1>2, SettingUpMoves DEF Relay, NotBehind

LEMMA SetsUpStep ==
  ASSUME IInv, Relay, [Next]_vars, NEW m \in Mailboxes
  PROVE  SetsUp(m)'
<1> SUFFICES ASSUME NEW t \in Trackers, SettingUp(t, m)', goal'[t] # "healthy", phase'[m] = "healthy"
             PROVE  FALSE
  BY DEF SetsUp
<1>1. SettingUp(t, m) /\ goal[t] # "healthy" BY SettingUpMoves
<1>2. phase'[m] # phase[m] BY <1>1 DEF Relay, SetsUp
<1>. QED BY <1>1, <1>2, Ascent DEF Relay, NotBehind

LEMMA LiftPendingStep ==
  ASSUME IInv, Relay, [Next]_vars, NEW m \in Mailboxes
  PROVE  LiftPending(m)'
<1> SUFFICES ASSUME faults' = 0, phase'[m] = "healthy", capped'[m]
             PROVE  \E t \in Trackers : SettingUp(t, m)'
  BY DEF LiftPending
<1>. HandlerTypes /\ RowTypes BY DEF IInv, TypeOK
<1>1. CASE phase'[m] # phase[m] BY <1>1, Ascent
<1>2. CASE phase[m] = "healthy"
  <2>1. ASSUME NEW t \in Trackers, SetWarmup(t), at[t] = m, capped'[m] = HasCap(goal[t]) PROVE FALSE
    BY <1>2, <2>1 DEF SetWarmup, HasCap, SettingUp, Relay, SetsUp
  <2>2. capped'[m] = capped[m] BY <2>1, Stay
  <2>3. faults = 0
    <3>1. CASE \E h \in Handlers : Crash(h) BY <3>1 DEF Crash, HandlerTypes
    <3>2. CASE UNCHANGED faults BY <3>2
    <3>. QED BY <3>1, <3>2, FaultsCounted
  <2>4. PICK t \in Trackers : SettingUp(t, m)
    BY <1>2, <2>2, <2>3 DEF Relay, LiftPending
  <2>5. CASE SetWarmup(t)
    <3>1. goal[t] = "healthy" BY <1>2, <2>4 DEF Relay, SetsUp
    <3>2. capped' = [capped EXCEPT ![m] = HasCap(goal[t])]
      BY <2>4, <2>5 DEF SetWarmup, SettingUp
    <3>. QED BY <3>1, <3>2 DEF HasCap, RowTypes
  <2>6. CASE ~SetWarmup(t)
    <3>1. \A n \in Mailboxes : ~Select(t, n) BY <2>4 DEF Select, Start, SettingUp
    <3>2. Still(t)
      BY <2>4, <2>6, <3>1, TrackerMoves DEF SettingUp, CheckCriteria, Climb, HandlerTypes
    <3>. QED BY <2>4, <3>2 DEF Still, SettingUp
  <2>. QED BY <2>5, <2>6
<1>. QED BY <1>1, <1>2

LEMMA ClearedStep ==
  ASSUME IInv, Relay, [Next]_vars, NEW m \in Mailboxes
  PROVE  Cleared(m)'
<1> SUFFICES ASSUME NEW t \in Trackers, Armed(t, m, "warm_recovery")', phase'[m] = "warm_recovery"
             PROVE  served'[m] /\ ~manual'[m]
  BY DEF Cleared
<1>. "warm_recovery" \in Rehab BY DEF Rehab
<1>1. CASE Ready(m) /\ UNCHANGED row BY <1>1 DEF Ready, row
<1>2. CASE Armed(t, m, "warm_recovery")
  <2>1. phase[m] = "warm_recovery" BY <1>2, Ascent DEF Relay, OneRungArmed
  <2>2. served[m] /\ ~manual[m] BY <1>2, <2>1 DEF Relay, Cleared
  <2>3. ASSUME NEW u \in Trackers, SetWarmup(u), at[u] = m PROVE FALSE
    BY <1>2, <2>1, <2>3 DEF SetWarmup, SettingUp, Relay, NotBehind
  <2>. QED BY <2>1, <2>2, <2>3, Stay
<1>. QED BY <1>1, <1>2, Arming

LEMMA RelayInvariant == Spec => [](IInv /\ Relay)
<1>1. IInv /\ Relay /\ [Next]_vars => Relay'
  BY SameStayStep, ResetStep, OneRungArmedStep, NotBehindStep, SetsUpStep, LiftPendingStep, ClearedStep DEF Relay
<1>. QED BY <1>1, RelayInit, Invariant, PTL DEF Spec

(* The volume cap of the warmup phases does not stay on a healthy mailbox,   *)
(* for any number of overlapping passes, bounces and cycles, unless a        *)
(* process died.                                                             *)
THEOREM CapsLifted == Spec => []CapLifted
<1>1. IInv /\ Relay => CapLifted
  BY DEF Relay, LiftPending, SettingUp, CapLifted, Quiet, Handlers
<1>. QED BY <1>1, RelayInvariant, PTL

(* A mailbox flagged for an operator never becomes healthy, for any number   *)
(* of overlapping passes, bounces, cycles and crashes.                       *)
THEOREM FlagsStopGraduation == Spec => FlagStopsGraduation
<1>1. ASSUME IInv, Relay, [Next]_vars, NEW m \in Mailboxes, manual[m], phase'[m] = "healthy"
      PROVE  phase[m] = "healthy"
  BY <1>1, Ascent DEF Relay, Cleared
<1>2. IInv /\ Relay /\ [Next]_vars
        => \A m \in Mailboxes : manual[m] /\ phase'[m] = "healthy" => phase[m] = "healthy"
  BY <1>1
<1>. QED BY <1>2, RelayInvariant, PTL DEF Spec, FlagStopsGraduation

=============================================================================
