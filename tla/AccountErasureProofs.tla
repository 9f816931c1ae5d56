------------------------ MODULE AccountErasureProofs ------------------------
(* Proofs about AccountErasure, for any organization and any number of       *)
(* requests, erasers and faults.                                             *)
EXTENDS AccountErasure, TLAPS

USE DEF Requests, NoRequest

---------------------------------------------------------------------------
(* Types.                                                                  *)

LEMMA NobodyIsNoLead == NoLead \notin Leads
BY NobodyAssumption

\* The initial state has the declared types.
LEMMA InitTypes == Init => TypeOK
<1>. SUFFICES ASSUME Init PROVE TypeOK
  OBVIOUS
<1>1. RequestTypes
  <2>1. (CHOOSE u \in Users : TRUE) \in Users
    BY UsersAssumption
  <2>. QED  BY <2>1 DEF Init, RequestTypes, Row, Doors
<1>2. DataTypes
  BY OwnershipAssumption DEF Init, DataTypes, Tables
<1>3. WorkTypes
  BY DEF Init, WorkTypes
<1>4. EraserTypes /\ \A e \in Erasers : cur[e] = NoLead <=> stage[e] = "find"
  BY FaultsAssumption DEF Init, EraserTypes
<1>. QED  BY <1>1, <1>2, <1>3, <1>4 DEF TypeOK

\* Cutting an erasure short keeps the types.
LEMMA CutTypes ==
  ASSUME TypeOK, NEW e \in Erasers, Cut(e), faults' \in 0..MaxFaults
  PROVE  DataTypes' /\ EraserTypes' /\ \A f \in Erasers : cur'[f] = NoLead <=> stage'[f] = "find"
<1>1. DataTypes'
  BY DEF TypeOK, DataTypes, Cut
<1>2. EraserTypes' /\ \A f \in Erasers : cur'[f] = NoLead <=> stage'[f] = "find"
  BY DEF TypeOK, EraserTypes, Cut
<1>. QED  BY <1>1, <1>2

\* Dropping a row keeps the worker's types.
LEMMA DropTypes == TypeOK /\ Drop => WorkTypes'
BY DEF TypeOK, WorkTypes, Drop

\* A request being made, or thought better of.
LEMMA PeopleTypes == TypeOK /\ People => TypeOK'
<1>. SUFFICES ASSUME TypeOK, People PROVE TypeOK'
  OBVIOUS
<1>1. ASSUME NEW u \in Users, NEW k \in Doors, AskCheck(u, k) PROVE TypeOK'
  BY <1>1 DEF TypeOK, RequestTypes, DataTypes, WorkTypes, EraserTypes, AskCheck, dataVars,
              workVars, eraseVars
<1>2. ASSUME NEW u \in Users, NEW k \in Doors, AskCreate(u, k) PROVE TypeOK'
  <2>1. RequestTypes'
    BY <1>2 DEF TypeOK, RequestTypes, AskCreate, Row
  <2>. QED  BY <1>2, <2>1 DEF TypeOK, DataTypes, WorkTypes, EraserTypes, AskCreate, dataVars,
                              workVars, eraseVars
<1>3. ASSUME NEW u \in Users, CancelDeletion(u) PROVE TypeOK'
  <2>1. RequestTypes'
    BY <1>3 DEF TypeOK, RequestTypes, CancelDeletion, Row, RowsOf
  <2>. QED  BY <1>3, <2>1 DEF TypeOK, DataTypes, WorkTypes, EraserTypes, CancelDeletion,
                              dataVars, workVars, eraseVars
<1>4. ASSUME NEW h \in Handlers, DeleteContacts(h) PROVE TypeOK'
  <2>1. todo' \in [Erasers -> SUBSET Leads]
    BY <1>4 DEF TypeOK, EraserTypes, DeleteContacts
  <2>. QED  BY <1>4, <2>1 DEF TypeOK, RequestTypes, DataTypes, WorkTypes, EraserTypes,
                              DeleteContacts, reqVars, dataVars, workVars
<1>5. ASSUME NEW r \in Requests, GraceElapses(r) PROVE TypeOK'
  <2>1. RequestTypes'
    BY <1>5 DEF TypeOK, RequestTypes, GraceElapses, Row
  <2>. QED  BY <1>5, <2>1 DEF TypeOK, DataTypes, WorkTypes, EraserTypes, GraceElapses,
                              dataVars, workVars, eraseVars
<1>. QED  BY <1>1, <1>2, <1>3, <1>4, <1>5 DEF People

\* One await of eraseLeadPII.
LEMMA EraseTypes == ASSUME TypeOK, NEW e \in Erasers, Erase(e) PROVE TypeOK'
<1>1. ASSUME NEW p \in Leads, Find(e, p) PROVE TypeOK'
  <2>1. EraserTypes' /\ \A f \in Erasers : cur'[f] = NoLead <=> stage'[f] = "find"
    BY <1>1, NobodyIsNoLead DEF TypeOK, EraserTypes, Find, Tables
  <2>. QED  BY <1>1, <2>1 DEF TypeOK, RequestTypes, DataTypes, WorkTypes, Find, reqVars,
                              dataVars, workVars
<1>2. ASSUME ScrubLead(e) PROVE TypeOK'
  <2>1. EraserTypes' /\ \A f \in Erasers : cur'[f] = NoLead <=> stage'[f] = "find"
    BY <1>2 DEF TypeOK, EraserTypes, ScrubLead, Busy, Tables
  <2>2. DataTypes'
    BY <1>2 DEF TypeOK, DataTypes, EraserTypes, ScrubLead, Busy
  <2>. QED  BY <1>2, <2>1, <2>2 DEF TypeOK, RequestTypes, WorkTypes, ScrubLead, reqVars, workVars
<1>3. ASSUME ScrubTable(e) PROVE TypeOK'
  <2>. DEFINE p == cur[e] t == stage[e]
  <2>1. p \in Leads /\ t \in Tables
    BY <1>3 DEF TypeOK, EraserTypes, ScrubTable, Busy
  <2>2. After(t) \in {"find"} \cup Tables /\ (After(t) = "find" <=> t = "EmailMessage")
    BY <2>1 DEF After, Tables
  <2>3. EraserTypes'
    BY <1>3, <2>1, <2>2 DEF TypeOK, EraserTypes, ScrubTable
  <2>4. \A f \in Erasers : cur'[f] = NoLead <=> stage'[f] = "find"
    BY <1>3, <2>1, <2>2 DEF TypeOK, EraserTypes, ScrubTable, Busy
  <2>5. DataTypes'
    <3>1. rows' \in [Leads -> [Tables -> {"none", "pii", "clean", "embedded"}]]
      BY <1>3, <2>1 DEF TypeOK, DataTypes, ScrubTable, Tombstone
    <3>2. excused' \subseteq Leads
      BY <1>3, <2>1 DEF TypeOK, DataTypes, ScrubTable
    <3>. QED  BY <1>3, <3>1, <3>2 DEF TypeOK, DataTypes, ScrubTable
  <2>. QED  BY <1>3, <2>3, <2>4, <2>5 DEF TypeOK, RequestTypes, WorkTypes, ScrubTable, reqVars,
                                          workVars
<1>. QED  BY <1>1, <1>2, <1>3 DEF Erase

\* A row that is removed is a row.
LEMMA RemoveTypes ==
  ASSUME request \in [Requests -> Row], NEW r \in Requests, Remove(r)
  PROVE  request' \in [Requests -> Row]
BY DEF Remove, Row, Exists

\* A step of the worker between two erasures.
LEMMA SweepTypes == TypeOK /\ Sweep => TypeOK'
<1>. SUFFICES ASSUME TypeOK, Sweep PROVE TypeOK'
  OBVIOUS
<1>. DEFINE Keeps == /\ UNCHANGED <<dataVars, faults>>
                     /\ EraserTypes' /\ \A e \in Erasers : cur'[e] = NoLead <=> stage'[e] = "find"
<1>0. ASSUME Keeps, RequestTypes', WorkTypes' PROVE TypeOK'
  BY <1>0 DEF TypeOK, DataTypes, dataVars
<1>1. CASE Scan
  <2>1. WorkTypes'
    BY <1>1 DEF TypeOK, WorkTypes, Scan, At, Swept
  <2>. QED  BY <1>0, <1>1, <2>1 DEF TypeOK, RequestTypes, EraserTypes, Scan, reqVars, eraseVars
<1>2. CASE Consider
  <2>1. WorkTypes'
    BY <1>2 DEF TypeOK, WorkTypes, Consider, At
  <2>. QED  BY <1>0, <1>2, <2>1 DEF TypeOK, RequestTypes, EraserTypes, Consider, reqVars, eraseVars
<1>3. CASE LookCancelled
  <2>1. wreq \in Requests
    BY <1>3 DEF TypeOK, WorkTypes, LookCancelled, At
  <2>2. WorkTypes'
    BY <1>3, DropTypes, <2>1 DEF TypeOK, WorkTypes, LookCancelled, Goto, Past
  <2>3. RequestTypes'
    BY <1>3, <2>1, RemoveTypes DEF TypeOK, RequestTypes, LookCancelled
  <2>. QED  BY <1>0, <1>3, <2>2, <2>3 DEF TypeOK, EraserTypes, LookCancelled, eraseVars
<1>4. CASE LookExecuted
  <2>1. wreq \in Requests
    BY <1>4 DEF TypeOK, WorkTypes, LookExecuted, At, Past
  <2>2. WorkTypes'
    BY <1>4, DropTypes, <2>1 DEF TypeOK, WorkTypes, LookExecuted, Goto, Past
  <2>3. RequestTypes'
    BY <1>4, <2>1, RemoveTypes DEF TypeOK, RequestTypes, LookExecuted
  <2>. QED  BY <1>0, <1>4, <2>2, <2>3 DEF TypeOK, EraserTypes, LookExecuted, eraseVars
<1>5. CASE ReadPage
  <2>1. WorkTypes'
    BY <1>5 DEF TypeOK, WorkTypes, ReadPage, At, Goto, Past
  <2>2. todo' \in [Erasers -> SUBSET Leads]
    BY <1>5 DEF TypeOK, EraserTypes, ReadPage
  <2>. QED  BY <1>0, <1>5, <2>1, <2>2 DEF TypeOK, RequestTypes, EraserTypes, ReadPage, reqVars
<1>6. CASE PageErased
  <2>1. WorkTypes'
    BY <1>6 DEF TypeOK, WorkTypes, PageErased, At, Goto, Past
  <2>. QED  BY <1>0, <1>6, <2>1 DEF TypeOK, RequestTypes, EraserTypes, PageErased, reqVars, eraseVars
<1>7. CASE DeleteOrg
  <2>1. WorkTypes'
    BY <1>7 DEF TypeOK, WorkTypes, DeleteOrg, At, Goto, Past
  <2>2. RequestTypes'
    BY <1>7 DEF TypeOK, RequestTypes, DeleteOrg, Row, Exists
  <2>3. DataTypes'
    <3>1. rows' \in [Leads -> [Tables -> {"none", "pii", "clean", "embedded"}]]
      BY <1>7 DEF TypeOK, DataTypes, DeleteOrg
    <3>. QED  BY <1>7, <3>1 DEF TypeOK, DataTypes, DeleteOrg
  <2>. QED  BY <1>7, <2>1, <2>2, <2>3 DEF TypeOK, EraserTypes, DeleteOrg, eraseVars
<1>8. CASE DeleteRefused
  <2>1. WorkTypes'
    BY <1>8 DEF TypeOK, WorkTypes, DeleteRefused, At, Goto, Past
  <2>. QED  BY <1>0, <1>8, <2>1 DEF TypeOK, RequestTypes, EraserTypes, DeleteRefused, reqVars, eraseVars
<1>9. CASE WriteExecuted
  <2>1. wreq \in Requests
    BY <1>9 DEF TypeOK, WorkTypes, WriteExecuted, At, Past
  <2>2. request[wreq].user \in Users
    BY <2>1 DEF TypeOK, RequestTypes, Row
  <2>3. RequestTypes'
    BY <1>9, <2>2 DEF TypeOK, RequestTypes, WriteExecuted
  <2>. QED  BY <1>0, <1>9, <2>3, DropTypes DEF TypeOK, EraserTypes, WriteExecuted, eraseVars
<1>10. CASE Erase(Worker)
  BY <1>10, EraseTypes DEF Erasers
<1>. QED  BY <1>1, <1>2, <1>3, <1>4, <1>5, <1>6, <1>7, <1>8, <1>9, <1>10 DEF Sweep

\* A row written by the pipeline, or a contact added.
LEMMA PipelineTypes == TypeOK /\ Pipeline => TypeOK'
<1>. SUFFICES ASSUME TypeOK, Pipeline PROVE TypeOK'
  OBVIOUS
<1>1. ASSUME NEW p \in Leads, NEW t \in Tables, Write(p, t)
      PROVE  /\ rows' \in [Leads -> [Tables -> {"none", "pii", "clean", "embedded"}]]
             /\ excused' \subseteq Leads
  BY <1>1 DEF TypeOK, DataTypes, Write
<1>2. ASSUME NEW p \in Leads, RecordSend(p) PROVE TypeOK'
  <2>1. Write(p, "SendEvent") /\ "SendEvent" \in Tables
    BY <1>2 DEF RecordSend, Tables
  <2>. QED  BY <1>1, <1>2, <2>1 DEF TypeOK, DataTypes, RequestTypes, WorkTypes, EraserTypes,
                 RecordSend, Advance, reqVars, workVars, eraseVars
<1>3. ASSUME NEW p \in Leads, RecordMessage(p) PROVE TypeOK'
  <2>1. Write(p, "EmailMessage") /\ "EmailMessage" \in Tables
    BY <1>3 DEF RecordMessage, Tables
  <2>. QED  BY <1>1, <1>3, <2>1 DEF TypeOK, DataTypes, RequestTypes, WorkTypes, EraserTypes,
                 RecordMessage, Advance, reqVars, workVars, eraseVars
<1>4. ASSUME NEW p \in Leads, BounceLook(p) PROVE TypeOK'
  BY <1>4 DEF TypeOK, DataTypes, RequestTypes, WorkTypes, EraserTypes, BounceLook, Advance,
              reqVars, workVars, eraseVars
<1>5. ASSUME NEW p \in Leads, BounceCreate(p) PROVE TypeOK'
  <2>1. Write(p, "BounceEvent") /\ "BounceEvent" \in Tables
    BY <1>5 DEF BounceCreate, Tables
  <2>. QED  BY <1>1, <1>5, <2>1 DEF TypeOK, DataTypes, RequestTypes, WorkTypes, EraserTypes,
                 BounceCreate, Advance, reqVars, workVars, eraseVars
<1>6. ASSUME NEW p \in Leads, Import(p) PROVE TypeOK'
  <2>1. DataTypes'
    BY <1>6 DEF TypeOK, DataTypes, Import, Tables
  <2>. QED  BY <1>6, <2>1 DEF TypeOK, RequestTypes, WorkTypes, EraserTypes, Import, reqVars,
                 workVars, eraseVars
<1>. QED  BY <1>2, <1>3, <1>4, <1>5, <1>6 DEF Pipeline

\* A crash or a failing call.
LEMMA FaultyTypes == TypeOK /\ Faulty => TypeOK'
<1>. SUFFICES ASSUME TypeOK, Faulty PROVE TypeOK'
  OBVIOUS
<1>0. Fault => faults' \in 0..MaxFaults
  BY FaultsAssumption DEF TypeOK, EraserTypes, Fault
<1>1. CASE WorkerDies
  <2>1. WorkTypes'
    BY <1>1 DEF WorkerDies, WorkTypes
  <2>2. Cut(Worker) /\ Worker \in Erasers
    BY <1>1 DEF WorkerDies, Erasers
  <2>. QED  BY <1>0, <1>1, <2>1, <2>2, CutTypes DEF WorkerDies, TypeOK, RequestTypes, reqVars
<1>2. CASE DeleteFails
  <2>1. WorkTypes'
    BY <1>2 DEF TypeOK, WorkTypes, DeleteFails, At, Goto, Past
  <2>2. EraserTypes' /\ \A e \in Erasers : cur'[e] = NoLead <=> stage'[e] = "find"
    BY <1>0, <1>2 DEF TypeOK, EraserTypes, DeleteFails, eraseVars
  <2>. QED  BY <1>2, <2>1, <2>2 DEF TypeOK, RequestTypes, DataTypes, DeleteFails, reqVars, dataVars
<1>3. ASSUME NEW h \in Handlers, HandlerDies(h) PROVE TypeOK'
  <2>1. Cut(h) /\ h \in Erasers
    BY <1>3 DEF HandlerDies, Erasers
  <2>. QED  BY <1>0, <1>3, <2>1, CutTypes DEF HandlerDies, TypeOK, RequestTypes, WorkTypes,
                 reqVars, workVars
<1>4. ASSUME NEW e \in Erasers, Throws(e) PROVE TypeOK'
  <2>1. faults' \in 0..MaxFaults
    BY <1>0, <1>4 DEF Throws, TypeOK, EraserTypes
  <2>2. WorkTypes'
    BY <1>4, DropTypes DEF Throws, TypeOK, WorkTypes, workVars
  <2>3. Cut(e) /\ RequestTypes'
    BY <1>4 DEF Throws, TypeOK, RequestTypes, reqVars
  <2>. QED  BY <2>1, <2>2, <2>3, CutTypes DEF TypeOK
<1>. QED  BY <1>1, <1>2, <1>3, <1>4 DEF Faulty

\* Every reachable state has the declared types: the worker holds a request exactly
\* while it works on one (accountDeletionWorker.runOnce).
THEOREM TypeCorrect == Spec => []TypeOK
<1>1. TypeOK /\ [Next]_vars => TypeOK'
  <2>. SUFFICES ASSUME TypeOK, [Next]_vars PROVE TypeOK'
    OBVIOUS
  <2>1. ASSUME NEW h \in Handlers, Erase(h) PROVE TypeOK'
    BY <2>1, EraseTypes DEF Erasers
  <2>2. CASE UNCHANGED vars
    BY <2>2 DEF TypeOK, RequestTypes, DataTypes, WorkTypes, EraserTypes, vars, reqVars,
                dataVars, workVars, eraseVars
  <2>. QED  BY <2>1, <2>2, PeopleTypes, SweepTypes, PipelineTypes, FaultyTypes DEF Next
<1>. QED  BY InitTypes, <1>1, PTL DEF Spec

---------------------------------------------------------------------------
(* Cancellations.                                                          *)

\* What the worker has established about the request in hand.
Looked == wpc \in Past \ {"write"} /\ org = "alive"
Established == Looked => /\ request[wreq].due /\ Exists(wreq)
                         /\ request[wreq].state = "open" \/ wreq \in overtaken

\* Inductive: a row the worker holds before it looks for a cancellation is due and, while
\* the organization is there, has not been removed.
Taken == wpc = "cancelled?" /\ org = "alive" => request[wreq].due /\ Exists(wreq)
Grace == Established /\ Taken /\ (org = "alive" => \A r \in list : Exists(r))

\* Rows of the AuditLog are removed by the worker and with the organization only.
LEMMA RowsStay ==
  ASSUME TypeOK, Grace, org' = org, UNCHANGED <<wpc, list, wreq, overtaken>>,
         \A r \in Requests : Exists(r) =>
           /\ Exists(r)'
           /\ request[r].due => request'[r].due
           /\ request[r].state = "open" => request'[r].state = "open"
  PROVE  Grace'
BY DEF TypeOK, WorkTypes, Grace, Established, Looked, Taken, Past

\* Every step keeps it.
LEMMA GraceStep == TypeOK /\ Grace /\ [Next]_vars => Grace'
<1>. SUFFICES ASSUME TypeOK, Grace, [Next]_vars PROVE Grace'
  OBVIOUS
<1>0. ASSUME UNCHANGED <<org, request, wpc, list, wreq, overtaken>> PROVE Grace'
  BY <1>0, RowsStay DEF Exists
<1>1. CASE People
  <2>1. ASSUME NEW u \in Users, NEW k \in Doors, AskCreate(u, k) PROVE Grace'
    <3>1. \A r \in Requests : request'[r] # request[r] => request[r].state = "unused"
      BY <2>1 DEF AskCreate, TypeOK, RequestTypes
    <3>2. \A r \in Requests : Exists(r) => request'[r] = request[r]
      BY <3>1 DEF Exists
    <3>. QED  BY <2>1, <3>2, RowsStay DEF AskCreate, dataVars, workVars, Exists
  <2>2. ASSUME NEW u \in Users, CancelDeletion(u) PROVE Grace'
    <3>1. \A r \in Requests : /\ Exists(r) => Exists(r)'
                              /\ request'[r].due = request[r].due
                              /\ r \notin RowsOf(u) => request'[r] = request[r]
      BY <2>2 DEF CancelDeletion, TypeOK, RequestTypes, Row, Exists, RowsOf
    <3>2. wpc \in Past /\ wreq \in RowsOf(u) => wreq \in overtaken'
      BY <2>2 DEF CancelDeletion, Past
    <3>3. overtaken \subseteq overtaken' /\ UNCHANGED <<org, wpc, list, wreq>>
      BY <2>2 DEF CancelDeletion, dataVars, workVars
    <3>. QED  BY <3>1, <3>2, <3>3 DEF TypeOK, WorkTypes, Grace, Established, Looked, Taken, Past
  <2>3. ASSUME NEW r \in Requests, GraceElapses(r) PROVE Grace'
    <3>1. \A s \in Requests : /\ request'[s].state = request[s].state
                              /\ request[s].due => request'[s].due
      BY <2>3 DEF GraceElapses, TypeOK, RequestTypes, Row
    <3>. QED  BY <2>3, <3>1, RowsStay DEF GraceElapses, dataVars, workVars, Exists
  <2>4. ASSUME NEW u \in Users, NEW k \in Doors, AskCheck(u, k) PROVE Grace'
    BY <1>0, <2>4 DEF AskCheck, dataVars, workVars
  <2>5. ASSUME NEW h \in Handlers, DeleteContacts(h) PROVE Grace'
    BY <1>0, <2>5 DEF DeleteContacts, reqVars, dataVars, workVars
  <2>. QED  BY <1>1, <2>1, <2>2, <2>3, <2>4, <2>5 DEF People
<1>2. ASSUME NEW e \in Erasers, Erase(e) PROVE Grace'
  BY <1>0, <1>2 DEF Erase, Find, ScrubLead, ScrubTable, reqVars, dataVars, workVars
<1>3. CASE Sweep
  <2>1. CASE Scan
    BY <2>1 DEF Scan, Swept, reqVars, dataVars, TypeOK, WorkTypes, Grace, Established, Looked,
                Taken, Exists, Past
  <2>2. CASE Consider
    BY <2>2 DEF Consider, At, reqVars, dataVars, TypeOK, WorkTypes, Grace, Established, Looked,
                Taken, Exists, Past
  <2>3. ASSUME Remove(wreq), Drop, UNCHANGED <<org, overtaken>>, wreq \in Requests PROVE Grace'
    <3>1. \A r \in list' : request'[r] = request[r]
      BY <2>3 DEF Remove, Drop, TypeOK, RequestTypes, WorkTypes
    <3>. QED  BY <2>3, <3>1 DEF Drop, Grace, Established, Looked, Taken, Exists, Past
  <2>4. CASE LookCancelled
    <3>1. wreq \in Requests
      BY <2>4 DEF LookCancelled, At, TypeOK, WorkTypes
    <3>. QED  BY <2>3, <2>4, <3>1 DEF LookCancelled, At, Goto, Withdrawn, dataVars, Grace,
                Established, Looked, Taken, Exists, Past
  <2>5. CASE LookExecuted
    <3>1. wreq \in Requests
      BY <2>5 DEF LookExecuted, At, TypeOK, WorkTypes, Past
    <3>. QED  BY <2>3, <2>5, <3>1 DEF LookExecuted, At, Goto, dataVars, Grace, Established,
                Looked, Taken, Exists, Past
  <2>6. CASE ReadPage \/ PageErased
    BY <2>6 DEF ReadPage, PageErased, At, Goto, reqVars, dataVars, Grace, Established, Looked,
                Taken, Exists, Past
  <2>7. CASE DeleteOrg
    BY <2>7 DEF DeleteOrg, Goto, Grace, Established, Looked, Taken, Past
  <2>8. CASE DeleteRefused
    BY <2>8 DEF DeleteRefused, Goto, reqVars, dataVars, Grace, Established, Looked, Taken,
                Exists, Past
  <2>9. CASE WriteExecuted
    BY <2>9 DEF WriteExecuted, Drop, dataVars, Grace, Established, Looked, Taken, Exists, Past
  <2>10. CASE Erase(Worker)
    BY <1>2, <2>10 DEF Erasers
  <2>. QED  BY <1>3, <2>1, <2>2, <2>4, <2>5, <2>6, <2>7, <2>8, <2>9, <2>10 DEF Sweep
<1>4. CASE Pipeline
  BY <1>0, <1>4 DEF Pipeline, RecordSend, RecordMessage, BounceLook, BounceCreate, Import,
                    reqVars, workVars
<1>5. CASE Faulty
  <2>1. ASSUME UNCHANGED <<reqVars, org>>, Drop PROVE Grace'
    BY <2>1 DEF Drop, reqVars, Grace, Established, Looked, Taken, Exists, Past
  <2>2. CASE WorkerDies
    BY <2>2 DEF WorkerDies, Cut, reqVars, Grace, Established, Looked, Taken, Exists, Past
  <2>3. CASE DeleteFails
    BY <2>3 DEF DeleteFails, Goto, reqVars, dataVars, Grace, Established, Looked, Taken,
                Exists, Past
  <2>4. ASSUME NEW h \in Handlers, HandlerDies(h) PROVE Grace'
    BY <1>0, <2>4 DEF HandlerDies, Cut, reqVars, workVars
  <2>5. ASSUME NEW e \in Erasers, Throws(e) PROVE Grace'
    BY <1>0, <2>1, <2>5 DEF Throws, Cut, reqVars, workVars
  <2>. QED  BY <1>5, <2>2, <2>3, <2>4, <2>5 DEF Faulty
<1>6. CASE UNCHANGED vars
  BY <1>0, <1>6 DEF vars, reqVars, dataVars, workVars
<1>. QED  BY <1>1, <1>2, <1>3, <1>4, <1>5, <1>6 DEF Next, Erasers

\* A cancellation recorded before the worker looks is honoured, and nothing is erased
\* before the 30 days are over (accountDeletionWorker.ts:72-90).
THEOREM CancelledInTime == Spec => []CancelledInTimeIsSpared
<1>1. Init => Grace
  BY DEF Init, Grace, Established, Looked, Taken, Past
<1>2. Grace => CancelledInTimeIsSpared
  BY DEF Grace, Established, Looked, CancelledInTimeIsSpared
<1>. QED  BY <1>1, <1>2, GraceStep, TypeCorrect, PTL DEF Spec

---------------------------------------------------------------------------
(* What is left of a recipient.                                            *)

\* Data in a table of somebody who should be gone is excused, or will be scrubbed.
Covered(p) == lead[p] = "erased" \/ org = "gone" =>
                \A t \in Tables : rows[p][t] = "pii" => p \in excused \/ Pending(p, t)

\* An address inside a tombstone is excused.
Tombs(p) == \A t \in Tables : rows[p][t] = "embedded" => p \in excused

\* Whoever was not imported has no data; whoever was live when the organization went
\* is excused.
Fresh(p) == /\ lead[p] = "absent" => mail[p] = "none" /\ \A t \in Tables : rows[p][t] = "none"
            /\ lead[p] = "live" /\ org = "gone" => p \in excused

\* An eraser about to tombstone a lead has found it.
FoundIt(e) == stage[e] = "Lead" => found[e]

Left == /\ \A p \in Leads : Covered(p) /\ Tombs(p) /\ Fresh(p)
        /\ \A e \in Erasers : FoundIt(e)

\* A step that leaves the data alone and takes nothing off the erasers' hands.
LEMMA DataStay ==
  ASSUME Left, UNCHANGED <<org, lead, rows, mail, excused>>,
         \A e \in Erasers : FoundIt(e)',
         \A p \in Leads, t \in Tables : Pending(p, t) => Pending(p, t)'
  PROVE  Left'
BY DEF Left, Covered, Tombs, Fresh

\* What an eraser has in hand is all that counts for Pending.
LEMMA HandsStay ==
  ASSUME Left, UNCHANGED <<org, lead, rows, mail, excused, cur, stage, found>>
  PROVE  Left'
<1>1. \A p \in Leads, t \in Tables : Pending(p, t)' <=> Pending(p, t)
  BY DEF Pending
<1>. QED  BY <1>1, DataStay DEF Left, FoundIt

\* The Lead row is looked up.
LEMMA FindLeft ==
  ASSUME TypeOK, Left, NEW e \in Erasers, NEW p \in Leads, Find(e, p) PROVE Left'
<1>1. \A q \in Leads, t \in Tables : Pending(q, t) => Pending(q, t)'
  <2>. SUFFICES ASSUME NEW q \in Leads, NEW t \in Tables, Pending(q, t) PROVE Pending(q, t)'
    OBVIOUS
  <2>1. PICK f \in Erasers : /\ cur[f] = q /\ found[f]
                             /\ \/ stage[f] \in {"Lead", t}
                                \/ stage[f] = "CampaignLead"
                                \/ stage[f] = "BounceEvent" /\ t # "CampaignLead"
                                \/ stage[f] = "SendEvent" /\ t = "EmailMessage"
    BY DEF Pending
  <2>2. f # e
    BY <2>1, NobodyIsNoLead DEF Find, Busy
  <2>3. cur'[f] = cur[f] /\ found'[f] = found[f] /\ stage'[f] = stage[f]
    BY <2>2 DEF Find, TypeOK, EraserTypes
  <2>. QED  BY <2>1, <2>3 DEF Pending
<1>2. \A f \in Erasers : FoundIt(f)'
  BY DEF Find, FoundIt, Left, TypeOK, EraserTypes
<1>. QED  BY <1>1, <1>2, DataStay DEF Find, dataVars

\* The Lead row becomes a tombstone: all its tables are still to come.
LEMMA ScrubLeadLeft ==
  ASSUME TypeOK, Left, NEW e \in Erasers, ScrubLead(e) PROVE Left'
<1>. DEFINE p == cur[e]
<1>1. p \in Leads /\ found[e]
  BY DEF ScrubLead, Busy, Left, FoundIt, TypeOK, EraserTypes
<1>2. stage'[e] = "CampaignLead" /\ \A f \in Erasers \ {e} : stage'[f] = stage[f]
  BY DEF ScrubLead, TypeOK, EraserTypes
<1>3. \A t \in Tables : Pending(p, t)'
  BY <1>1, <1>2 DEF Pending, ScrubLead
<1>4. \A q \in Leads, t \in Tables : Pending(q, t) => Pending(q, t)'
  BY <1>2, <1>3 DEF Pending, ScrubLead
<1>5. \A q \in Leads : lead'[q] = IF q = p THEN "erased" ELSE lead[q]
  BY <1>1 DEF ScrubLead, TypeOK, DataTypes
<1>6. \A q \in Leads : (Covered(q) /\ Tombs(q) /\ Fresh(q))'
  BY <1>3, <1>4, <1>5 DEF ScrubLead, Left, Covered, Tombs, Fresh
<1>7. \A f \in Erasers : FoundIt(f)'
  BY <1>2 DEF ScrubLead, Left, FoundIt
<1>. QED  BY <1>6, <1>7 DEF Left

\* A table is scrubbed: clean, or excused.
LEMMA ScrubTableLeft ==
  ASSUME TypeOK, Left, NEW e \in Erasers, ScrubTable(e) PROVE Left'
<1>. DEFINE p == cur[e] s == stage[e]
<1>1. p \in Leads /\ s \in Tables
  BY DEF ScrubTable, Busy, TypeOK, EraserTypes
<1>2. \A q \in Leads, t \in Tables :
        rows'[q][t] = IF q = p /\ t = s /\ rows[p][s] = "pii" THEN Tombstone(e) ELSE rows[q][t]
  BY <1>1 DEF ScrubTable, TypeOK, DataTypes
<1>3. \A f \in Erasers \ {e} : stage'[f] = stage[f] /\ cur'[f] = cur[f] /\ found'[f] = found[f]
  BY DEF ScrubTable, TypeOK, EraserTypes
<1>4. stage'[e] = After(s) /\ (s # "EmailMessage" => cur'[e] = p /\ found'[e] = found[e])
  BY <1>1 DEF ScrubTable, TypeOK, EraserTypes
<1>5. \A q \in Leads, t \in Tables : Pending(q, t) => Pending(q, t)' \/ (q = p /\ t = s)
  <2>. SUFFICES ASSUME NEW q \in Leads, NEW t \in Tables, Pending(q, t), q # p \/ t # s
                PROVE  Pending(q, t)'
    OBVIOUS
  <2>1. PICK f \in Erasers : /\ cur[f] = q /\ found[f]
                             /\ \/ stage[f] \in {"Lead", t}
                                \/ stage[f] = "CampaignLead"
                                \/ stage[f] = "BounceEvent" /\ t # "CampaignLead"
                                \/ stage[f] = "SendEvent" /\ t = "EmailMessage"
    BY DEF Pending
  <2>2. CASE f # e
    BY <1>3, <2>1, <2>2 DEF Pending
  <2>3. CASE f = e
    <3>1. q = p /\ t # s /\ s # "EmailMessage"
      BY <1>1, <2>1, <2>3 DEF Tables
    <3>2. \/ stage'[e] = t
          \/ stage'[e] = "BounceEvent" /\ t # "CampaignLead"
          \/ stage'[e] = "SendEvent" /\ t = "EmailMessage"
      BY <1>1, <1>4, <2>1, <2>3, <3>1 DEF After, Tables
    <3>. QED  BY <1>4, <2>1, <2>3, <3>1, <3>2 DEF Pending
  <2>. QED  BY <2>2, <2>3
<1>6. rows[p][s] = "pii" /\ ~found[e] => p \in excused'
  BY DEF ScrubTable
<1>7. excused \subseteq excused' /\ UNCHANGED <<org, lead, mail>>
  BY DEF ScrubTable
<1>8. rows'[p][s] # "pii" /\ (rows'[p][s] = "embedded" => p \in excused')
  BY <1>1, <1>2, <1>6, <1>7 DEF Tombstone, Left, Tombs
<1>9. \A q \in Leads : Covered(q)'
  BY <1>1, <1>2, <1>5, <1>7, <1>8 DEF Left, Covered, Tombstone
<1>10. \A q \in Leads : Tombs(q)'
  BY <1>1, <1>2, <1>7, <1>8 DEF Left, Tombs
<1>11. \A q \in Leads : Fresh(q)'
  BY <1>1, <1>2, <1>7 DEF Left, Fresh, Tombstone
<1>12. \A f \in Erasers : FoundIt(f)'
  BY <1>1, <1>3, <1>4 DEF Left, FoundIt, After, Tables
<1>. QED  BY <1>9, <1>10, <1>11, <1>12 DEF Left

\* An erasure is cut short: whoever was in hand is excused.
LEMMA CutLeft == ASSUME TypeOK, Left, NEW e \in Erasers, Cut(e) PROVE Left'
<1>1. \A f \in Erasers \ {e} : stage'[f] = stage[f] /\ cur'[f] = cur[f] /\ found'[f] = found[f]
  BY DEF Cut, TypeOK, EraserTypes
<1>2. stage'[e] = "find"
  BY DEF Cut, TypeOK, EraserTypes
<1>3. excused \subseteq excused' /\ UNCHANGED <<org, lead, rows, mail>>
  BY DEF Cut
<1>4. \A q \in Leads, t \in Tables :
        Pending(q, t) /\ lead[q] # "live" => Pending(q, t)' \/ q \in excused'
  <2>. SUFFICES ASSUME NEW q \in Leads, NEW t \in Tables, Pending(q, t), lead[q] # "live",
                       q \notin excused'
                PROVE  Pending(q, t)'
    OBVIOUS
  <2>1. PICK f \in Erasers : /\ cur[f] = q /\ found[f]
                             /\ \/ stage[f] \in {"Lead", t}
                                \/ stage[f] = "CampaignLead"
                                \/ stage[f] = "BounceEvent" /\ t # "CampaignLead"
                                \/ stage[f] = "SendEvent" /\ t = "EmailMessage"
    BY DEF Pending
  <2>2. f # e
    BY <2>1 DEF Cut
  <2>. QED  BY <1>1, <2>1, <2>2 DEF Pending
<1>5. \A q \in Leads : (Covered(q) /\ Tombs(q) /\ Fresh(q))'
  BY <1>3, <1>4 DEF Left, Covered, Tombs, Fresh
<1>6. \A f \in Erasers : FoundIt(f)'
  BY <1>1, <1>2 DEF Left, FoundIt
<1>. QED  BY <1>5, <1>6 DEF Left

\* The organization goes: what hangs on it goes along, the rest was covered.
LEMMA DeleteLeft == ASSUME TypeOK, Left, DeleteOrg PROVE Left'
<1>1. \A q \in Leads, t \in Tables : rows'[q][t] \in {"none", rows[q][t]}
  BY DEF DeleteOrg
<1>2. \A q \in Leads, t \in Tables : Pending(q, t)' <=> Pending(q, t)
  BY DEF DeleteOrg, eraseVars, Pending
<1>3. \A q \in Leads : lead[q] = "live" => q \in excused'
  BY DEF DeleteOrg
<1>4. excused \subseteq excused' /\ UNCHANGED <<lead, mail, stage, found>>
  BY DEF DeleteOrg, eraseVars
<1>5. \A q \in Leads : lead[q] \in {"absent", "live", "erased"}
  BY DEF TypeOK, DataTypes
<1>6. \A q \in Leads : (Covered(q) /\ Tombs(q) /\ Fresh(q))'
  BY <1>1, <1>2, <1>3, <1>4, <1>5 DEF Left, Covered, Tombs, Fresh
<1>. QED  BY <1>4, <1>6 DEF Left, FoundIt

\* The pipeline writes a row: in time to be scrubbed, or excused.
LEMMA WriteLeft ==
  ASSUME TypeOK, Left, NEW p \in Leads, NEW t \in Tables, Write(p, t), mail[p] # "none",
         UNCHANGED <<org, lead, cur, stage, found>>,
         \A q \in Leads : q # p => mail'[q] = mail[q]
  PROVE  Left'
<1>1. \A q \in Leads, u \in Tables : rows'[q][u] = IF q = p /\ u = t THEN "pii" ELSE rows[q][u]
  BY DEF Write, TypeOK, DataTypes
<1>2. \A q \in Leads, u \in Tables : Pending(q, u)' <=> Pending(q, u)
  BY DEF Pending
<1>3. /\ excused \subseteq excused'
      /\ lead[p] = "erased" \/ org = "gone" => Pending(p, t) \/ p \in excused'
  BY DEF Write
<1>4. \A q \in Leads : (Covered(q) /\ Tombs(q) /\ Fresh(q))'
  BY <1>1, <1>2, <1>3 DEF Left, Covered, Tombs, Fresh
<1>. QED  BY <1>4 DEF Left, FoundIt

\* Every step keeps it.
LEMMA LeftStep == TypeOK /\ Left /\ [Next]_vars => Left'
<1>. SUFFICES ASSUME TypeOK, Left, [Next]_vars PROVE Left'
  OBVIOUS
<1>1. CASE People
  BY <1>1, HandsStay DEF People, AskCheck, AskCreate, CancelDeletion, GraceElapses,
                         DeleteContacts, dataVars, eraseVars
<1>2. ASSUME NEW e \in Erasers, Erase(e) PROVE Left'
  BY <1>2, FindLeft, ScrubLeadLeft, ScrubTableLeft DEF Erase
<1>3. CASE Sweep
  <2>1. CASE Scan \/ Consider \/ LookCancelled \/ LookExecuted \/ PageErased \/ DeleteRefused
             \/ WriteExecuted \/ ReadPage
    BY <2>1, HandsStay DEF Scan, Consider, LookCancelled, LookExecuted, PageErased, ReadPage,
                           DeleteRefused, WriteExecuted, dataVars, eraseVars
  <2>. QED  BY <1>2, <1>3, <2>1, DeleteLeft DEF Sweep, Erasers
<1>4. CASE Pipeline
  <2>1. ASSUME NEW p \in Leads, NEW t \in Tables, NEW from \in {"queued", "recorded", "bouncing"},
               NEW to, Write(p, t), Advance(p, from, to), UNCHANGED <<org, lead, eraseVars>>
        PROVE  Left'
    <3>1. mail[p] # "none" /\ \A q \in Leads : q # p => mail'[q] = mail[q]
      BY <2>1 DEF Advance, TypeOK, DataTypes
    <3>. QED  BY <2>1, <3>1, WriteLeft DEF eraseVars
  <2>2. ASSUME NEW p \in Leads, RecordSend(p) PROVE Left'
    <3>1. "SendEvent" \in Tables
      BY DEF Tables
    <3>. QED  BY <2>1, <2>2, <3>1 DEF RecordSend, eraseVars
  <2>3. ASSUME NEW p \in Leads, RecordMessage(p) PROVE Left'
    <3>1. "EmailMessage" \in Tables
      BY DEF Tables
    <3>. QED  BY <2>1, <2>3, <3>1 DEF RecordMessage, eraseVars
  <2>4. ASSUME NEW p \in Leads, BounceCreate(p) PROVE Left'
    <3>1. "BounceEvent" \in Tables
      BY DEF Tables
    <3>. QED  BY <2>1, <2>4, <3>1 DEF BounceCreate, eraseVars
  <2>5. ASSUME NEW p \in Leads, BounceLook(p) PROVE Left'
    <3>1. \A q \in Leads, t \in Tables : Pending(q, t)' <=> Pending(q, t)
      BY <2>5 DEF BounceLook, eraseVars, Pending
    <3>2. \A q \in Leads : lead[q] = "absent" => mail'[q] = "none"
      BY <2>5 DEF BounceLook, Advance, Left, Fresh, TypeOK, DataTypes
    <3>. QED  BY <2>5, <3>1, <3>2 DEF BounceLook, eraseVars, Left, Covered, Tombs, Fresh, FoundIt
  <2>6. ASSUME NEW p \in Leads, Import(p) PROVE Left'
    <3>1. \A q \in Leads, t \in Tables : Pending(q, t)' <=> Pending(q, t)
      BY <2>6 DEF Import, eraseVars, Pending
    <3>2. \A q \in Leads : q # p => /\ lead'[q] = lead[q] /\ mail'[q] = mail[q]
                                    /\ rows'[q] = rows[q]
      BY <2>6 DEF Import, TypeOK, DataTypes
    <3>3. lead'[p] = "live" /\ \A t \in Tables : rows'[p][t] # "embedded"
      BY <2>6 DEF Import, Left, Fresh, TypeOK, DataTypes
    <3>. QED  BY <2>6, <3>1, <3>2, <3>3 DEF Import, eraseVars, Left, Covered, Tombs, Fresh, FoundIt
  <2>. QED  BY <1>4, <2>2, <2>3, <2>4, <2>5, <2>6 DEF Pipeline
<1>5. CASE Faulty
  <2>1. CASE DeleteFails
    BY <2>1, HandsStay DEF DeleteFails, dataVars, eraseVars
  <2>. QED  BY <1>5, <2>1, CutLeft DEF Faulty, WorkerDies, HandlerDies, Throws, Erasers
<1>6. CASE UNCHANGED vars
  BY <1>6, HandsStay DEF vars, dataVars, eraseVars
<1>. QED  BY <1>1, <1>2, <1>3, <1>4, <1>5, <1>6 DEF Next, Erasers

\* Nothing of a recipient outlives the erasure but for one of the four reasons
\* (piiErasureService.ts, eraseLeadPII and eraseOrganization).
THEOREM NothingLeftWithoutReason == Spec => []LeftForAReason
<1>1. Init => Left
  <2>. SUFFICES ASSUME Init PROVE Left
    OBVIOUS
  <2>1. \A p \in Leads : Covered(p) /\ Tombs(p) /\ Fresh(p)
    BY DEF Init, Covered, Tombs, Fresh
  <2>2. \A e \in Erasers : FoundIt(e)
    BY DEF Init, FoundIt
  <2>. QED  BY <2>1, <2>2 DEF Left
<1>2. TypeOK /\ Left => LeftForAReason
  <2>. SUFFICES ASSUME TypeOK, Left, NEW p \in Leads, lead[p] = "erased" \/ org = "gone",
                       \A e \in Erasers : cur[e] # p, Holds(p) # {}
                PROVE  p \in excused
    BY DEF LeftForAReason
  <2>1. PICK t \in Tables : rows[p][t] \in {"pii", "embedded"}
    BY DEF Holds
  <2>2. ~Pending(p, t)
    BY DEF Pending
  <2>. QED  BY <2>1, <2>2 DEF Left, Covered, Tombs
<1>. QED  BY <1>1, <1>2, LeftStep, TypeCorrect, PTL DEF Spec
=============================================================================
