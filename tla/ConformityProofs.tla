-------------------------- MODULE ConformityProofs --------------------------
(***************************************************************************)
(* Invariance proofs for Conformity, for any number of movements,          *)
(* registrations, landing requests, corrections and failures. Three        *)
(* arguments. The reasons: the rows only go forward, so the reason of a    *)
(* verdict stays (IInv). The order: as long as no handlers of a movement   *)
(* overlap and none fails, what the one in progress holds agrees with the  *)
(* tables, and so do the tables once it is done (SerialInv). The errands:  *)
(* whoever resets a status starts an evaluation (PendingIsServed).         *)
(***************************************************************************)
EXTENDS Conformity, TLAPS

\* The landing of e's movement, under the registration e was started with, is
\* covered by a request that was approved.
ApprovedFor(e) ==
  \E q \in Requests : /\ request[q].status = "APPROVED"
                      /\ Covers(q, eval[e].registration, eval[e].movement)

\* The movement m has had an operational event.
Registered(m) ==
  \E o \in Evaluations : eval[o].movement = m /\ event[o] # "none"

AbsentInv ==
  \A m \in Movements :
    movement[m].state = "absent" => movement[m].conformityStatus = "NOT_APPLICABLE"

EditInv ==
  \A d \in Edits :
    edit[d].pc # "idle" =>
      /\ edit[d].movement \in Movements
      /\ edit[d].to \in Registrations
      /\ movement[edit[d].movement].state # "absent"

\* An evaluation concerns an existing movement the rule applies to, and what it
\* has decided so far has its reason in the tables.
EvalJustified(e) ==
  /\ eval[e].pc = "idle" => eval[e].movement = Null /\ eval[e].verdict = "none"
  /\ eval[e].pc # "idle" =>
       /\ eval[e].movement \in Movements
       /\ movement[eval[e].movement].state # "absent"
       /\ Applicable(eval[e].movement)
  /\ eval[e].pc = "persist" => eval[e].verdict # "none"
  /\ (eval[e].pc = "resolve" \/ eval[e].verdict = "CONFORMANT") => ApprovedFor(e)
  /\ eval[e].verdict = "NON_CONFORMANT" => Registered(eval[e].movement)

EvalInv == \A e \in Evaluations : EvalJustified(e)

\* One movement's part of VerdictJustified and of ApplicabilityAgrees.
StatusJustified(m) ==
  /\ movement[m].conformityStatus = "CONFORMANT" =>
       \E e \in Evaluations : eval[e].movement = m /\ ApprovedFor(e)
  /\ movement[m].conformityStatus = "NON_CONFORMANT" => Registered(m)
  /\ movement[m].state # "absent" =>
       (Applicable(m) <=> movement[m].conformityStatus # "NOT_APPLICABLE")

StatusInv == \A m \in Movements : StatusJustified(m)

IInv == TypeOK /\ AbsentInv /\ EditInv /\ EvalInv /\ StatusInv

\* The rows only go forward: a movement once created keeps the fields the
\* matching reads, an approval and an event are never undone, and an evaluation
\* that was started keeps its payload.
Forward ==
  /\ \A m \in Movements : movement[m].state # "absent" =>
       /\ movement'[m].state # "absent"
       /\ movement'[m].operationType = movement[m].operationType
       /\ movement'[m].aerodrome = movement[m].aerodrome
       /\ movement'[m].readingDatetime = movement[m].readingDatetime
  /\ \A q \in Requests :
       request[q].status = "APPROVED" => request'[q].status = "APPROVED"
  /\ \A e \in Evaluations : event[e] # "none" => event'[e] # "none"
  /\ \A e \in Evaluations : eval[e].pc # "idle" =>
       /\ eval'[e].pc # "idle"
       /\ eval'[e].movement = eval[e].movement
       /\ eval'[e].registration = eval[e].registration

\* The filter of the listener and the rule of the movements are one.
LEMMA ListenerAgrees ==
  \A operationType, aerodrome :
    Evaluates(operationType, aerodrome) = isConformityApplicable(operationType, aerodrome)
BY DEF Evaluates, isConformityApplicable

-----------------------------------------------------------------------------
(* Typing *)

LEMMA StartType ==
  ASSUME TypeOK, NEW e \in Evaluations, NEW m \in Movements,
         NEW reg \in Registrations, StartEvaluation(e, m, reg)
  PROVE  /\ eval' \in [Evaluations -> EvalTask]
         /\ eval[e].pc = "idle"
         /\ \A o \in Evaluations : o # e => eval'[o] = eval[o]
<1> PICK row : row = [pc |-> "match", movement |-> m, registration |-> reg, verdict |-> "none"]
  OBVIOUS
<1>1. row \in EvalTask
  BY DEF EvalTask
<1>2. eval \in [Evaluations -> EvalTask]
  BY DEF TypeOK
<1>3. eval[e].pc = "idle" /\ eval' = [eval EXCEPT ![e] = row]
  BY DEF StartEvaluation
<1> QED
  BY <1>1, <1>2, <1>3

LEMMA TaskType ==
  ASSUME TypeOK, NEW e \in Evaluations, NEW v \in Verdict \cup {"none"},
         NEW pc \in {"resolve", "find_open", "create", "persist", "done"}
  PROVE  /\ [eval EXCEPT ![e].pc = pc] \in [Evaluations -> EvalTask]
         /\ [eval EXCEPT ![e].pc = pc, ![e].verdict = v] \in [Evaluations -> EvalTask]
<1>1. eval \in [Evaluations -> EvalTask] /\ eval[e] \in EvalTask
  BY DEF TypeOK
<1>2. /\ [eval[e] EXCEPT !.pc = pc] \in EvalTask
      /\ [eval[e] EXCEPT !.pc = pc, !.verdict = v] \in EvalTask
  BY <1>1 DEF EvalTask
<1> QED
  BY <1>1, <1>2

LEMMA InitType == Init => TypeOK
  BY ConformityAssumption
     DEF Init, TypeOK, MovementRow, RequestRow, EditTask, EvalTask,
         ConformityStatus, Verdict

\* Creating, correcting and removing a movement.
LEMMA MovementsType ==
  ASSUME TypeOK, EditInv, NEW m \in Movements,
         \/ CreateMovement(m) \/ RemoveMovement(m)
         \/ \E d \in Edits : ReadForUpdate(d, m) \/ UpdateRegistration(d) \/ UpdateFindsNoRow(d)
  PROVE  TypeOK'
<1>1. CASE CreateMovement(m)
  BY <1>1, ConformityAssumption
     DEF CreateMovement, StartEvaluation, resolveInitialConformityStatus,
         TypeOK, MovementRow, EvalTask, ConformityStatus, Verdict
<1>2. CASE RemoveMovement(m)
  BY <1>2 DEF RemoveMovement, TypeOK, MovementRow
<1>3. ASSUME NEW d \in Edits, ReadForUpdate(d, m)
      PROVE  TypeOK'
  BY <1>3 DEF ReadForUpdate, TypeOK, EditTask, MovementRow
<1>4. ASSUME NEW d \in Edits, UpdateRegistration(d)
      PROVE  TypeOK'
  <2> DEFINE mv == edit[d].movement
  <2>1. mv \in Movements /\ edit[d].to \in Registrations
    BY <1>4 DEF UpdateRegistration, EditInv
  <2>2. PICK status \in ConformityStatus :
          movement' = [movement EXCEPT ![mv].registration = edit[d].to,
                                       ![mv].conformityStatus = status]
    BY <1>4, <2>1 DEF UpdateRegistration, TypeOK, MovementRow, ConformityStatus
  <2>3. movement' \in [Movements -> MovementRow]
    BY <2>1, <2>2 DEF TypeOK, MovementRow
  <2>4. eval' \in [Evaluations -> EvalTask]
    <3>1. \/ UNCHANGED eval
          \/ \E e \in Evaluations : StartEvaluation(e, mv, edit[d].to)
      BY <1>4 DEF UpdateRegistration
    <3> QED
      BY <2>1, <3>1, StartType DEF TypeOK
  <2>5. edit' \in [Edits -> EditTask]
    BY <1>4 DEF UpdateRegistration, TypeOK, EditTask
  <2>6. QED
    BY <1>4, <2>1, <2>3, <2>4, <2>5 DEF UpdateRegistration, TypeOK
<1>5. ASSUME NEW d \in Edits, UpdateFindsNoRow(d)
      PROVE  TypeOK'
  BY <1>5 DEF UpdateFindsNoRow, TypeOK, EditTask
<1>6. QED
  BY <1>1, <1>2, <1>3, <1>4, <1>5

\* Deciding and removing a landing request.
LEMMA RequestsType ==
  ASSUME TypeOK, NEW q \in Requests, DecideRequest(q) \/ RemoveRequest(q)
  PROVE  TypeOK'
<1>1. request \in [Requests -> RequestRow] /\ request[q] \in RequestRow
  BY DEF TypeOK
<1>2. /\ \A st \in {"APPROVED", "REJECTED"} : [request[q] EXCEPT !.status = st] \in RequestRow
      /\ [request[q] EXCEPT !.deleted = TRUE] \in RequestRow
  BY <1>1 DEF RequestRow
<1>3. request' \in [Requests -> RequestRow]
  BY <1>1, <1>2 DEF DecideRequest, RemoveRequest
<1> QED
  BY <1>3 DEF DecideRequest, RemoveRequest, TypeOK

\* The listeners.
LEMMA ListenersType ==
  ASSUME TypeOK, EvalInv, NEW e \in Evaluations,
         Handler(e) \/ EvaluationFails(e) \/ PersistFails(e)
  PROVE  TypeOK'
<1>1. eval' \in [Evaluations -> EvalTask]
  <2>2. \/ \E pc \in {"resolve", "find_open", "create", "done"} :
             eval' = [eval EXCEPT ![e].pc = pc]
        \/ \E v \in Verdict : eval' = [eval EXCEPT ![e].pc = "persist", ![e].verdict = v]
    BY DEF Handler, FindMatch, ResolveConformant, FindOpen, CreateEvent, EmitResolved,
       PersistVerdict, EvaluationFails, PersistFails, Verdict
  <2>3. CASE \E pc \in {"resolve", "find_open", "create", "done"} :
               eval' = [eval EXCEPT ![e].pc = pc]
    <3>1. PICK pc \in {"resolve", "find_open", "create", "done"} :
            eval' = [eval EXCEPT ![e].pc = pc]
      BY <2>3
    <3>2. [eval EXCEPT ![e].pc = pc] \in [Evaluations -> EvalTask]
      BY TaskType
    <3> QED
      BY <3>1, <3>2
  <2>4. CASE \E v \in Verdict : eval' = [eval EXCEPT ![e].pc = "persist", ![e].verdict = v]
    <3>1. PICK v \in Verdict : eval' = [eval EXCEPT ![e].pc = "persist", ![e].verdict = v]
      BY <2>4
    <3>2. [eval EXCEPT ![e].pc = "persist", ![e].verdict = v] \in [Evaluations -> EvalTask]
      BY TaskType
    <3> QED
      BY <3>1, <3>2
  <2> QED
    BY <2>2, <2>3, <2>4
<1>2. event' \in [Evaluations -> {"none", "OPEN", "RESOLVED"}]
  <2>1. event \in [Evaluations -> {"none", "OPEN", "RESOLVED"}]
    BY DEF TypeOK
  <2>2. ResolveOpenByMovement(e) \in [Evaluations -> {"none", "OPEN", "RESOLVED"}]
    BY <2>1 DEF ResolveOpenByMovement
  <2>3. event' \in {event, ResolveOpenByMovement(e), [event EXCEPT ![e] = "OPEN"]}
    BY DEF Handler, FindMatch, ResolveConformant, FindOpen, CreateEvent, PersistVerdict,
       EvaluationFails, PersistFails
  <2> QED
    BY <2>1, <2>2, <2>3
<1>3. movement' \in [Movements -> MovementRow]
  <2>1. CASE UNCHANGED movement
    BY <2>1 DEF TypeOK
  <2>2. CASE PersistVerdict(e)
    <3> DEFINE mv == eval[e].movement
    <3>1. mv \in Movements /\ eval[e].verdict \in Verdict
      BY <2>2 DEF PersistVerdict, EvalInv, EvalJustified, TypeOK, EvalTask, Verdict
    <3>2. movement \in [Movements -> MovementRow] /\ movement[mv] \in MovementRow
      BY <3>1 DEF TypeOK
    <3>3. PICK status \in ConformityStatus :
            movement' = [movement EXCEPT ![mv].conformityStatus = status]
      BY <2>2, <3>1, <3>2 DEF PersistVerdict, MovementRow, ConformityStatus
    <3>4. [movement[mv] EXCEPT !.conformityStatus = status] \in MovementRow
      BY <3>2 DEF MovementRow
    <3> QED
      BY <3>1, <3>2, <3>3, <3>4
  <2> QED
    BY <2>1, <2>2 DEF Handler, FindMatch, ResolveConformant, FindOpen, CreateEvent,
       EvaluationFails, PersistFails
<1>4. raced' \subseteq Movements /\ faults' \in Nat
  <2>1. eval[e].movement \in Movements \/ UNCHANGED <<raced, faults>>
    BY DEF Handler, FindMatch, ResolveConformant, FindOpen, CreateEvent, PersistVerdict,
       EvaluationFails, PersistFails, EvalInv, EvalJustified
  <2>2. UNCHANGED <<raced, faults>> \/ Fault(eval[e].movement)
    BY DEF Handler, FindMatch, ResolveConformant, FindOpen, CreateEvent, PersistVerdict,
       EvaluationFails, PersistFails
  <2> QED
    BY <2>1, <2>2 DEF Fault, TypeOK
<1>5. UNCHANGED <<request, edit>>
  BY DEF Handler, FindMatch, ResolveConformant, FindOpen, CreateEvent, PersistVerdict,
     EvaluationFails, PersistFails
<1> QED
  BY <1>1, <1>2, <1>3, <1>4, <1>5 DEF TypeOK

-----------------------------------------------------------------------------
(* The rows only go forward *)

LEMMA MovementsForward ==
  ASSUME TypeOK, EditInv, NEW m \in Movements,
         \/ CreateMovement(m) \/ RemoveMovement(m)
         \/ \E d \in Edits : ReadForUpdate(d, m) \/ UpdateRegistration(d) \/ UpdateFindsNoRow(d)
  PROVE  Forward
<1>1. CASE CreateMovement(m)
  BY <1>1 DEF CreateMovement, StartEvaluation, TypeOK, EvalTask, Forward
<1>2. CASE RemoveMovement(m)
  BY <1>2 DEF RemoveMovement, TypeOK, MovementRow, Forward
<1>3. ASSUME NEW d \in Edits, ReadForUpdate(d, m) \/ UpdateFindsNoRow(d)
      PROVE  Forward
  BY <1>3 DEF ReadForUpdate, UpdateFindsNoRow, Forward
<1>4. ASSUME NEW d \in Edits, UpdateRegistration(d)
      PROVE  Forward
  <2> DEFINE mv == edit[d].movement
  <2>1. PICK status :
          movement' = [movement EXCEPT ![mv].registration = edit[d].to,
                                       ![mv].conformityStatus = status]
    BY <1>4 DEF UpdateRegistration
  <2>2. /\ movement[mv].state = "active"
        /\ \A x \in Movements : /\ movement'[x].state = movement[x].state
                                /\ movement'[x].operationType = movement[x].operationType
                                /\ movement'[x].aerodrome = movement[x].aerodrome
                                /\ movement'[x].readingDatetime = movement[x].readingDatetime
    <3>1. movement[mv].state = "active"
      BY <1>4 DEF UpdateRegistration
    <3>2. movement \in [Movements -> MovementRow]
      BY DEF TypeOK
    <3> PICK row : row = [movement[mv] EXCEPT !.registration = edit[d].to,
                                              !.conformityStatus = status]
      OBVIOUS
    <3>3. mv \in Movements => /\ row.state = movement[mv].state
                              /\ row.operationType = movement[mv].operationType
                              /\ row.aerodrome = movement[mv].aerodrome
                              /\ row.readingDatetime = movement[mv].readingDatetime
      BY <3>2 DEF MovementRow
    <3>4. movement' = [movement EXCEPT ![mv] = row]
      BY <2>1
    <3> QED
      BY <3>1, <3>2, <3>3, <3>4
  <2>3. \A e \in Evaluations : eval[e].pc # "idle" => eval'[e] = eval[e]
    BY <1>4 DEF UpdateRegistration, StartEvaluation, TypeOK
  <2>4. QED
    BY <1>4, <2>2, <2>3 DEF UpdateRegistration, Forward
<1>5. QED
  BY <1>1, <1>2, <1>3, <1>4

LEMMA RequestsForward ==
  ASSUME TypeOK, NEW q \in Requests, DecideRequest(q) \/ RemoveRequest(q)
  PROVE  Forward
BY DEF TypeOK, RequestRow, DecideRequest, RemoveRequest, Forward

LEMMA ListenersForward ==
  ASSUME TypeOK, NEW e \in Evaluations,
         Handler(e) \/ EvaluationFails(e) \/ PersistFails(e)
  PROVE  Forward
<1>1. ASSUME UNCHANGED <<movement, request>>,
             \A o \in Evaluations : event[o] # "none" => event'[o] # "none",
             \E v : \E pc \in {"resolve", "find_open", "create", "persist", "done"} :
               eval' = [eval EXCEPT ![e].pc = pc, ![e].verdict = v]
      PROVE  Forward
  BY <1>1 DEF TypeOK, EvalTask, Forward
<1>2. CASE FindMatch(e)
  <2>1. \E pc \in {"resolve", "find_open"} :
          eval' = [eval EXCEPT ![e].pc = pc, ![e].verdict = eval[e].verdict]
    BY <1>2 DEF FindMatch, TypeOK, EvalTask
  <2>2. QED
    BY <1>1, <1>2, <2>1 DEF FindMatch
<1>3. CASE ResolveConformant(e)
  BY <1>1, <1>3 DEF ResolveConformant, EmitResolved, ResolveOpenByMovement
<1>4. CASE FindOpen(e)
  <2>1. \E v : \E pc \in {"create", "persist"} :
          eval' = [eval EXCEPT ![e].pc = pc, ![e].verdict = v]
    <3>1. [eval EXCEPT ![e].pc = "create"]
            = [eval EXCEPT ![e].pc = "create", ![e].verdict = eval[e].verdict]
      BY DEF TypeOK, EvalTask
    <3>2. QED
      BY <1>4, <3>1 DEF FindOpen, EmitResolved
  <2>2. QED
    BY <1>1, <1>4, <2>1 DEF FindOpen
<1>5. CASE CreateEvent(e)
  BY <1>1, <1>5 DEF CreateEvent, EmitResolved, TypeOK
<1>6. CASE PersistVerdict(e)
  <2>1. \E status : movement' = [movement EXCEPT ![eval[e].movement].conformityStatus = status]
    BY <1>6 DEF PersistVerdict
  <2>2. \A x \in Movements : /\ movement'[x].state = movement[x].state
                             /\ movement'[x].operationType = movement[x].operationType
                             /\ movement'[x].aerodrome = movement[x].aerodrome
                             /\ movement'[x].readingDatetime = movement[x].readingDatetime
    BY <2>1 DEF TypeOK, MovementRow
  <2>3. QED
    BY <1>6, <2>2 DEF PersistVerdict, TypeOK, EvalTask, Forward
<1>7. CASE EvaluationFails(e) \/ PersistFails(e)
  <2>1. eval' = [eval EXCEPT ![e].pc = "done", ![e].verdict = eval[e].verdict]
    BY <1>7 DEF EvaluationFails, PersistFails, TypeOK, EvalTask
  <2>2. \A o \in Evaluations : event[o] # "none" => event'[o] # "none"
    BY <1>7 DEF EvaluationFails, PersistFails, ResolveOpenByMovement, TypeOK
  <2>3. QED
    BY <1>1, <1>7, <2>1, <2>2 DEF EvaluationFails, PersistFails
<1>8. QED
  BY <1>2, <1>3, <1>4, <1>5, <1>6, <1>7 DEF Handler

\* What a forward step keeps: the reasons of the verdicts.
LEMMA ForwardKeepsReasons ==
  ASSUME EvalInv, Forward
  PROVE  /\ \A e \in Evaluations :
               eval[e].pc # "idle" /\ ApprovedFor(e) => ApprovedFor(e)'
         /\ \A m \in Movements : Registered(m) => Registered(m)'
         /\ \A m \in Movements :
               movement[m].state # "absent" => (Applicable(m)' <=> Applicable(m))
<1>1. ASSUME NEW e \in Evaluations, eval[e].pc # "idle", ApprovedFor(e)
      PROVE  ApprovedFor(e)'
  BY <1>1 DEF ApprovedFor, Covers, EvalInv, EvalJustified, Forward
<1>2. ASSUME NEW m \in Movements, Registered(m)
      PROVE  Registered(m)'
  <2>1. PICK o \in Evaluations : eval[o].movement = m /\ event[o] # "none"
    BY <1>2 DEF Registered
  <2>2. eval[o].pc # "idle"
    BY <2>1, ConformityAssumption DEF EvalInv, EvalJustified
  <2>3. QED
    BY <2>1, <2>2 DEF Forward, Registered
<1>3. QED
  BY <1>1, <1>2 DEF Forward, Applicable

-----------------------------------------------------------------------------
(* The reasons of the verdicts *)

\* An evaluation the step does not touch keeps its reason.
LEMMA UntouchedEvaluation ==
  ASSUME EvalInv, Forward, NEW e \in Evaluations, eval'[e] = eval[e]
  PROVE  EvalJustified(e)'
<1>1. eval[e].pc # "idle" /\ ApprovedFor(e) => ApprovedFor(e)'
  BY ForwardKeepsReasons
<1>2. \A m \in Movements : Registered(m) => Registered(m)'
  BY ForwardKeepsReasons
<1>3. \A m \in Movements :
         movement[m].state # "absent" => (Applicable(m)' <=> Applicable(m))
  BY ForwardKeepsReasons
<1>4. EvalJustified(e)
  BY DEF EvalInv
<1>5. CASE eval[e].pc = "idle"
  BY <1>4, <1>5 DEF EvalJustified
<1>6. CASE eval[e].pc # "idle"
  BY <1>1, <1>2, <1>3, <1>4, <1>6 DEF EvalJustified, Forward
<1>7. QED
  BY <1>5, <1>6

\* A movement whose status the step does not change keeps its reason.
LEMMA UntouchedStatus ==
  ASSUME EvalInv, StatusInv, Forward, NEW m \in Movements,
         movement'[m].conformityStatus = movement[m].conformityStatus,
         movement[m].state # "absent" \/ movement'[m].state = "absent"
  PROVE  StatusJustified(m)'
<1>1. StatusJustified(m)
  BY DEF StatusInv
<1>2. Registered(m) => Registered(m)'
  BY ForwardKeepsReasons
<1>3. movement[m].state # "absent" => (Applicable(m)' <=> Applicable(m))
  BY ForwardKeepsReasons
<1>4. ASSUME NEW e \in Evaluations, eval[e].movement = m, ApprovedFor(e)
      PROVE  eval'[e].movement = m /\ ApprovedFor(e)'
  <2>1. eval[e].pc # "idle"
    BY <1>4, ConformityAssumption DEF EvalInv, EvalJustified
  <2>2. QED
    BY <1>4, <2>1, ForwardKeepsReasons DEF Forward
<1>5. QED
  BY <1>1, <1>2, <1>3, <1>4 DEF StatusJustified

-----------------------------------------------------------------------------
(* Every step keeps the invariant *)

Reasons == AbsentInv /\ EditInv /\ EvalInv /\ StatusInv

\* Creating a movement: its status is PENDING or NOT_APPLICABLE, and the
\* evaluation it starts has decided nothing.
LEMMA CreateKeepsReasons ==
  ASSUME IInv, Forward, NEW m \in Movements, CreateMovement(m)
  PROVE  Reasons'
<1> USE DEF IInv
<1>1. PICK reg \in Registrations, type \in {"LANDING", "TAKEOFF"},
           icao \in Aerodromes \cup {Null}, at \in Times :
        /\ movement' = [movement EXCEPT ![m] =
             [state |-> "active", registration |-> reg, operationType |-> type,
              aerodrome |-> icao, readingDatetime |-> at,
              conformityStatus |-> resolveInitialConformityStatus(type, icao)]]
        /\ IF isConformityApplicable(type, icao)
             THEN \E e \in Evaluations : StartEvaluation(e, m, reg)
             ELSE UNCHANGED eval
  BY ListenerAgrees DEF CreateMovement
<1>2. /\ movement[m].state = "absent"
      /\ UNCHANGED <<request, event, edit>>
  BY DEF CreateMovement
<1>3. \A x \in Movements : x # m => movement'[x] = movement[x]
  BY <1>1 DEF TypeOK
<1>4. /\ movement'[m].state = "active"
      /\ movement'[m].conformityStatus \in {"PENDING", "NOT_APPLICABLE"}
      /\ Applicable(m)' <=> movement'[m].conformityStatus = "PENDING"
      /\ isConformityApplicable(type, icao) => Applicable(m)'
  BY <1>1 DEF TypeOK, Applicable, isConformityApplicable, resolveInitialConformityStatus
<1>5. AbsentInv'
  BY <1>3, <1>4 DEF AbsentInv
<1>6. EditInv'
  BY <1>2, <1>3, <1>4 DEF EditInv
<1>7. EvalInv'
  <2>1. ASSUME NEW e \in Evaluations, StartEvaluation(e, m, reg),
               isConformityApplicable(type, icao)
        PROVE  EvalInv'
    <3>1. \A o \in Evaluations : o # e => eval'[o] = eval[o]
      BY <2>1 DEF StartEvaluation, TypeOK
    <3>2. eval'[e].pc = "match" /\ eval'[e].movement = m /\ eval'[e].verdict = "none"
      BY <2>1 DEF StartEvaluation, TypeOK
    <3>3. EvalJustified(e)'
      BY <1>4, <2>1, <3>2 DEF EvalJustified
    <3>4. QED
      BY <3>1, <3>3, UntouchedEvaluation DEF EvalInv
  <2>2. CASE UNCHANGED eval
    BY <2>2, UntouchedEvaluation DEF EvalInv
  <2>3. QED
    BY <1>1, <2>1, <2>2
<1>8. StatusInv'
  <2>1. StatusJustified(m)'
    BY <1>4 DEF StatusJustified
  <2>2. QED
    BY <1>3, <2>1, UntouchedStatus DEF StatusInv
<1>9. QED
  BY <1>5, <1>6, <1>7, <1>8 DEF Reasons

\* A step that leaves the evaluations, the statuses and the corrections alone.
LEMMA QuietKeepsReasons ==
  ASSUME IInv, Forward, UNCHANGED <<edit, eval>>,
         \A m \in Movements :
           /\ movement'[m].conformityStatus = movement[m].conformityStatus
           /\ movement'[m].state = "absent" <=> movement[m].state = "absent"
  PROVE  Reasons'
<1>1. AbsentInv'
  BY DEF AbsentInv, IInv
<1>2. EditInv'
  BY DEF EditInv, IInv
<1>3. EvalInv'
  BY UntouchedEvaluation DEF EvalInv, IInv
<1>4. StatusInv'
  BY UntouchedStatus DEF StatusInv, IInv
<1>5. QED
  BY <1>1, <1>2, <1>3, <1>4 DEF Reasons

\* Reading a movement to correct it, and not finding it again.
LEMMA EditKeepsReasons ==
  ASSUME IInv, Forward, NEW d \in Edits, NEW m \in Movements,
         ReadForUpdate(d, m) \/ UpdateFindsNoRow(d)
  PROVE  Reasons'
<1>1. UNCHANGED <<movement, request, event, eval>>
  BY DEF ReadForUpdate, UpdateFindsNoRow
<1>2. EditInv'
  <2>1. CASE ReadForUpdate(d, m)
    BY <2>1 DEF ReadForUpdate, EditInv, IInv, TypeOK
  <2>2. CASE UpdateFindsNoRow(d)
    BY <2>2 DEF UpdateFindsNoRow, EditInv, IInv, TypeOK, EditTask
  <2>3. QED
    BY <2>1, <2>2
<1>3. AbsentInv'
  BY <1>1 DEF AbsentInv, IInv
<1>4. EvalInv'
  BY <1>1, UntouchedEvaluation DEF EvalInv, IInv
<1>5. StatusInv'
  BY <1>1, UntouchedStatus DEF StatusInv, IInv
<1>6. QED
  BY <1>2, <1>3, <1>4, <1>5 DEF Reasons

\* Writing the corrected registration: the status stays or goes back to PENDING
\* on a landing the rule applies to.
LEMMA UpdateKeepsReasons ==
  ASSUME IInv, Forward, NEW d \in Edits, UpdateRegistration(d)
  PROVE  Reasons'
<1> USE DEF IInv
<1>1. PICK mv \in Movements : mv = edit[d].movement /\ movement[mv].state = "active"
  BY DEF UpdateRegistration, EditInv
<1> DEFINE again == edit[d].to # edit[d].seen /\ Applicable(mv)
<1>2. PICK status :
        /\ movement' = [movement EXCEPT ![mv].registration = edit[d].to,
                                        ![mv].conformityStatus = status]
        /\ again => status = "PENDING"
        /\ ~again => status = movement[mv].conformityStatus
  BY <1>1 DEF UpdateRegistration, TypeOK, MovementRow
<1>3. \A x \in Movements : x # mv => movement'[x] = movement[x]
  BY <1>2 DEF TypeOK
<1>4. /\ movement'[mv].state = "active"
      /\ movement'[mv].conformityStatus = status
  BY <1>1, <1>2 DEF TypeOK, MovementRow
<1>5. Applicable(mv)' <=> Applicable(mv)
  BY <1>1, ForwardKeepsReasons
<1>6. AbsentInv'
  BY <1>3, <1>4 DEF AbsentInv
<1>7. EditInv'
  <2>1. \A x \in Edits : /\ edit'[x].movement = edit[x].movement
                         /\ edit'[x].to = edit[x].to
                         /\ edit'[x].pc # "idle" => edit[x].pc # "idle"
    BY DEF UpdateRegistration, TypeOK, EditTask
  <2>2. QED
    BY <1>3, <1>4, <2>1 DEF EditInv
<1>8. EvalInv'
  <2>1. ASSUME NEW e \in Evaluations, StartEvaluation(e, mv, edit[d].to), Applicable(mv)
        PROVE  EvalInv'
    <3>1. \A o \in Evaluations : o # e => eval'[o] = eval[o]
      BY <2>1 DEF StartEvaluation, TypeOK
    <3>2. eval'[e].pc = "match" /\ eval'[e].movement = mv /\ eval'[e].verdict = "none"
      BY <2>1 DEF StartEvaluation, TypeOK
    <3>3. EvalJustified(e)'
      BY <1>1, <1>4, <1>5, <2>1, <3>2 DEF EvalJustified
    <3>4. QED
      BY <3>1, <3>3, UntouchedEvaluation DEF EvalInv
  <2>2. CASE UNCHANGED eval
    BY <2>2, UntouchedEvaluation DEF EvalInv
  <2>3. QED
    BY <1>1, <2>1, <2>2 DEF UpdateRegistration
<1>9. StatusInv'
  <2>1. CASE again
    <3>1. StatusJustified(mv)'
      BY <1>2, <1>4, <1>5, <2>1 DEF StatusJustified
    <3>2. QED
      BY <1>3, <3>1, UntouchedStatus DEF StatusInv
  <2>2. CASE ~again
    <3>1. StatusJustified(mv)'
      BY <1>1, <1>2, <1>4, <2>2, UntouchedStatus
    <3>2. QED
      BY <1>3, <3>1, UntouchedStatus DEF StatusInv
  <2>3. QED
    BY <2>1, <2>2
<1>10. QED
  BY <1>6, <1>7, <1>8, <1>9 DEF Reasons

\* A step of the evaluation e that leaves the movements alone.
LEMMA EvaluationKeepsReasons ==
  ASSUME IInv, Forward, NEW e \in Evaluations, UNCHANGED <<movement, edit>>,
         \A o \in Evaluations : o # e => eval'[o] = eval[o],
         EvalJustified(e)'
  PROVE  Reasons'
<1>1. AbsentInv'
  BY DEF AbsentInv, IInv
<1>2. EditInv'
  BY DEF EditInv, IInv
<1>3. EvalInv'
  BY UntouchedEvaluation DEF EvalInv, IInv
<1>4. StatusInv'
  BY UntouchedStatus DEF StatusInv, IInv
<1>5. QED
  BY <1>1, <1>2, <1>3, <1>4 DEF Reasons

\* The steps of the listeners.
LEMMA ListenersKeepReasons ==
  ASSUME IInv, Forward, NEW e \in Evaluations,
         Handler(e) \/ EvaluationFails(e) \/ PersistFails(e)
  PROVE  Reasons'
<1> USE DEF IInv
<1>1. \A o \in Evaluations : o # e => eval'[o] = eval[o]
  BY DEF Handler, FindMatch, ResolveConformant, FindOpen, CreateEvent, PersistVerdict,
         EvaluationFails, PersistFails, EmitResolved, TypeOK
<1>2. eval[e].pc # "idle"
  BY DEF Handler, FindMatch, ResolveConformant, FindOpen, CreateEvent, PersistVerdict,
         EvaluationFails, PersistFails
<1>3. PICK mv \in Movements : mv = eval[e].movement
  BY <1>2 DEF EvalInv, EvalJustified
<1> USE <1>3
<1>4. /\ eval'[e].pc # "idle"
      /\ eval'[e].movement = mv
      /\ eval'[e].registration = eval[e].registration
  BY <1>2 DEF Forward
<1>5. /\ movement[mv].state # "absent"
      /\ Applicable(mv)
      /\ EvalJustified(e)
  BY <1>2 DEF EvalInv, EvalJustified
<1>6. /\ ApprovedFor(e) => ApprovedFor(e)'
      /\ Registered(mv) => Registered(mv)'
      /\ Applicable(mv)'
      /\ movement'[mv].state # "absent"
  BY <1>2, <1>5, ForwardKeepsReasons DEF Forward
<1>7. ASSUME eval'[e].pc = "persist" => eval'[e].verdict # "none",
             (eval'[e].pc = "resolve" \/ eval'[e].verdict = "CONFORMANT") => ApprovedFor(e),
             eval'[e].verdict = "NON_CONFORMANT" => Registered(mv)'
      PROVE  EvalJustified(e)'
  BY <1>4, <1>5, <1>6, <1>7 DEF EvalJustified
<1>8. CASE FindMatch(e)
  <2>1. /\ eval'[e].pc = IF ApprovedMatches(eval[e].registration, mv) # {}
                           THEN "resolve" ELSE "find_open"
        /\ eval'[e].verdict = eval[e].verdict
    BY <1>8 DEF FindMatch, TypeOK, EvalTask
  <2>2. ApprovedMatches(eval[e].registration, mv) # {} => ApprovedFor(e)
    BY DEF ApprovedMatches, ApprovedFor
  <2>3. EvalJustified(e)'
    BY <1>5, <1>6, <1>7, <2>1, <2>2 DEF EvalJustified
  <2>4. QED
    BY <1>1, <1>8, <2>3, EvaluationKeepsReasons DEF FindMatch
<1>9. CASE ResolveConformant(e)
  <2>1. eval'[e].pc = "persist" /\ eval'[e].verdict = "CONFORMANT"
    BY <1>9 DEF ResolveConformant, EmitResolved, TypeOK, EvalTask
  <2>2. ApprovedFor(e)
    BY <1>5, <1>9 DEF ResolveConformant, EvalJustified
  <2>3. QED
    BY <1>1, <1>7, <1>9, <2>1, <2>2, EvaluationKeepsReasons DEF ResolveConformant
<1>10. CASE FindOpen(e)
  <2>1. CASE OpenEvents(mv) # {}
    <3>1. eval'[e].pc = "persist" /\ eval'[e].verdict = "NON_CONFORMANT"
      BY <1>10, <2>1 DEF FindOpen, EmitResolved, TypeOK, EvalTask
    <3>2. Registered(mv)
      BY <2>1 DEF OpenEvents, Registered
    <3>3. QED
      BY <1>1, <1>6, <1>7, <1>10, <3>1, <3>2, EvaluationKeepsReasons DEF FindOpen
  <2>2. CASE OpenEvents(mv) = {}
    <3>1. eval'[e].pc = "create" /\ eval'[e].verdict = eval[e].verdict
      BY <1>10, <2>2 DEF FindOpen, TypeOK, EvalTask
    <3>2. EvalJustified(e)'
      BY <1>5, <1>6, <1>7, <3>1 DEF EvalJustified
    <3>3. QED
      BY <1>1, <1>10, <3>2, EvaluationKeepsReasons DEF FindOpen
  <2>3. QED
    BY <2>1, <2>2
<1>11. CASE CreateEvent(e)
  <2>1. eval'[e].pc = "persist" /\ eval'[e].verdict = "NON_CONFORMANT"
    BY <1>11 DEF CreateEvent, EmitResolved, TypeOK, EvalTask
  <2>2. event'[e] = "OPEN"
    BY <1>11 DEF CreateEvent, TypeOK
  <2>3. Registered(mv)'
    BY <1>4, <2>2 DEF Registered
  <2>4. QED
    BY <1>1, <1>7, <1>11, <2>1, <2>3, EvaluationKeepsReasons DEF CreateEvent
<1>12. CASE EvaluationFails(e) \/ PersistFails(e)
  <2>1. eval'[e].pc = "done" /\ eval'[e].verdict = eval[e].verdict
    BY <1>12 DEF EvaluationFails, PersistFails, TypeOK, EvalTask
  <2>2. EvalJustified(e)'
    BY <1>5, <1>6, <1>7, <2>1 DEF EvalJustified
  <2>3. QED
    BY <1>1, <1>12, <2>2, EvaluationKeepsReasons DEF EvaluationFails, PersistFails
<1>13. CASE PersistVerdict(e)
  <2>1. UNCHANGED <<request, event, edit>>
    BY <1>13 DEF PersistVerdict
  <2>2. PICK status : /\ movement' = [movement EXCEPT ![mv].conformityStatus = status]
                      /\ status \in {movement[mv].conformityStatus, eval[e].verdict}
    BY <1>13 DEF PersistVerdict, TypeOK, MovementRow
  <2>3. \A x \in Movements : x # mv => movement'[x] = movement[x]
    BY <2>2 DEF TypeOK
  <2>4. /\ movement'[mv].state = movement[mv].state
        /\ movement'[mv].conformityStatus = status
    BY <1>5, <2>2 DEF TypeOK, MovementRow
  <2>5. AbsentInv'
    BY <1>5, <2>3, <2>4 DEF AbsentInv
  <2>6. EditInv'
    BY <1>5, <2>1, <2>3, <2>4 DEF EditInv
  <2>7. EvalInv'
    <3>1. eval'[e].pc = "done" /\ eval'[e].verdict = eval[e].verdict
      BY <1>13 DEF PersistVerdict, TypeOK, EvalTask
    <3>2. EvalJustified(e)'
      BY <1>5, <1>6, <1>7, <3>1 DEF EvalJustified
    <3>3. QED
      BY <1>1, <3>2, UntouchedEvaluation DEF EvalInv
  <2>8. StatusInv'
    <3>1. CASE status = movement[mv].conformityStatus
      BY <1>5, <2>3, <2>4, <3>1, UntouchedStatus DEF StatusInv
    <3>2. CASE status = eval[e].verdict
      <4>1. eval[e].verdict \in Verdict
        BY <1>5, <1>13 DEF PersistVerdict, EvalJustified, TypeOK, EvalTask
      <4>2. StatusJustified(mv)'
        BY <1>4, <1>5, <1>6, <2>4, <3>2, <4>1 DEF StatusJustified, EvalJustified, Verdict
      <4>3. QED
        BY <2>3, <4>2, UntouchedStatus DEF StatusInv
    <3>3. QED
      BY <2>2, <3>1, <3>2
  <2>9. QED
    BY <2>5, <2>6, <2>7, <2>8 DEF Reasons
<1>14. QED
  BY <1>8, <1>9, <1>10, <1>11, <1>12, <1>13 DEF Handler

-----------------------------------------------------------------------------
(* Theorems *)

LEMMA InitInv == Init => IInv
<1>1. ASSUME Init
      PROVE  AbsentInv /\ EditInv /\ EvalInv /\ StatusInv
  BY <1>1 DEF Init, AbsentInv, EditInv, EvalInv, EvalJustified, StatusInv, StatusJustified
<1>2. QED
  BY <1>1, InitType DEF IInv

LEMMA NextInv == IInv /\ [Next]_vars => IInv'
<1> SUFFICES ASSUME IInv, [Next]_vars
             PROVE  IInv'
  OBVIOUS
<1> USE DEF IInv
<1>1. ASSUME TypeOK', Reasons'
      PROVE  IInv'
  BY <1>1 DEF Reasons
<1>2. ASSUME NEW m \in Movements, CreateMovement(m)
      PROVE  IInv'
  BY <1>1, <1>2, MovementsType, MovementsForward, CreateKeepsReasons
<1>3. ASSUME NEW m \in Movements, RemoveMovement(m)
      PROVE  IInv'
  <2>1. TypeOK' /\ Forward
    BY <1>3, MovementsType, MovementsForward
  <2>2. /\ UNCHANGED <<edit, eval>>
        /\ \A x \in Movements :
             /\ movement'[x].conformityStatus = movement[x].conformityStatus
             /\ movement'[x].state = "absent" <=> movement[x].state = "absent"
    BY <1>3 DEF RemoveMovement, TypeOK, MovementRow
  <2>3. QED
    BY <1>1, <2>1, <2>2, QuietKeepsReasons
<1>4. ASSUME NEW d \in Edits, NEW m \in Movements, ReadForUpdate(d, m) \/ UpdateFindsNoRow(d)
      PROVE  IInv'
  BY <1>1, <1>4, MovementsType, MovementsForward, EditKeepsReasons
<1>5. ASSUME NEW d \in Edits, UpdateRegistration(d)
      PROVE  IInv'
  <2>1. PICK m \in Movements : m = edit[d].movement
    BY <1>5 DEF UpdateRegistration, EditInv
  <2>2. QED
    BY <1>1, <1>5, <2>1, MovementsType, MovementsForward, UpdateKeepsReasons
<1>6. ASSUME NEW d \in Edits, UpdateFindsNoRow(d)
      PROVE  IInv'
  <2>1. PICK m \in Movements : m = edit[d].movement
    BY <1>6 DEF UpdateFindsNoRow, EditInv
  <2>2. QED
    BY <1>4, <1>6, <2>1
<1>7. ASSUME NEW q \in Requests, DecideRequest(q) \/ RemoveRequest(q)
      PROVE  IInv'
  <2>1. TypeOK' /\ Forward
    BY <1>7, RequestsType, RequestsForward
  <2>2. UNCHANGED <<movement, edit, eval>>
    BY <1>7 DEF DecideRequest, RemoveRequest
  <2>3. QED
    BY <1>1, <2>1, <2>2, QuietKeepsReasons
<1>8. ASSUME NEW e \in Evaluations, Handler(e) \/ EvaluationFails(e) \/ PersistFails(e)
      PROVE  IInv'
  BY <1>1, <1>8, ListenersType, ListenersForward, ListenersKeepReasons
<1>9. CASE UNCHANGED vars
  <2>1. TypeOK' /\ Forward
    BY <1>9 DEF vars, TypeOK, Forward
  <2>2. QED
    BY <1>1, <1>9, <2>1, QuietKeepsReasons DEF vars
<1>10. QED
  BY <1>2, <1>3, <1>4, <1>5, <1>6, <1>7, <1>8, <1>9 DEF Next

\* The reasons are an invariant of the pipeline: of a verdict that was written, of
\* one about to be written, and of an evaluation about to close events.
THEOREM ReasonsInvariant == Spec => []IInv
BY InitInv, NextInv, PTL DEF Spec

\* Every table and every handler's local state keeps its type: in particular the
\* status of a movement is one of the four values of the enum ConformityStatus,
\* and a correction never writes a null registration.
THEOREM TypeCorrect == Spec => []TypeOK
<1>1. IInv => TypeOK
  BY DEF IInv
<1>2. QED
  BY <1>1, ReasonsInvariant, PTL

\* Every verdict has its reason in the database: CONFORMANT an approved landing
\* request covering the landing, NON_CONFORMANT an operational event of the
\* movement. For any number of concurrent creations, corrections, removals,
\* decisions and failed calls.
THEOREM VerdictsJustified == Spec => []VerdictJustified
<1>1. IInv => VerdictJustified
  <2>1. ASSUME IInv, NEW m \in Movements, movement[m].conformityStatus = "CONFORMANT"
        PROVE  \E e \in Evaluations, q \in Requests :
                 /\ eval[e].movement = m
                 /\ request[q].status = "APPROVED"
                 /\ Covers(q, eval[e].registration, m)
    <3>1. PICK e \in Evaluations : eval[e].movement = m /\ ApprovedFor(e)
      BY <2>1 DEF IInv, StatusInv, StatusJustified
    <3>2. QED
      BY <3>1 DEF ApprovedFor
  <2>2. ASSUME IInv, NEW m \in Movements, movement[m].conformityStatus = "NON_CONFORMANT"
        PROVE  Registered(m)
    BY <2>2 DEF IInv, StatusInv, StatusJustified
  <2>3. QED
    BY <2>1, <2>2 DEF VerdictJustified, Registered
<1>2. QED
  BY <1>1, ReasonsInvariant, PTL

\* The three places that apply the conformity rule (creation, correction,
\* listener) agree on the movements it concerns.
THEOREM ApplicabilityAgreesAlways == Spec => []ApplicabilityAgrees
<1>1. IInv => ApplicabilityAgrees
  BY ConformityAssumption
     DEF IInv, StatusInv, StatusJustified, EvalInv, EvalJustified, ApplicabilityAgrees
<1>2. QED
  BY <1>1, ReasonsInvariant, PTL

\* The row of a removed movement is never written again: neither by a correction
\* that read it before the removal nor by a verdict that arrives after it.
THEOREM RemovedRowsFrozen == Spec => RemovedRowFrozen
<1> DEFINE Frozen == \A m \in Movements :
                       movement[m].state = "removed" => movement'[m] = movement[m]
<1>1. IInv /\ [Next]_vars => [Frozen]_vars
  <2> SUFFICES ASSUME IInv, Next, NEW m \in Movements, movement[m].state = "removed"
               PROVE  movement'[m] = movement[m]
    BY DEF vars
  <2> USE DEF IInv, TypeOK
  <2>1. ASSUME NEW x \in Movements, CreateMovement(x) \/ RemoveMovement(x)
        PROVE  movement'[m] = movement[m]
    BY <2>1 DEF CreateMovement, RemoveMovement
  <2>2. ASSUME NEW d \in Edits, UpdateRegistration(d)
        PROVE  movement'[m] = movement[m]
    <3>1. edit[d].movement # m
      BY <2>2 DEF UpdateRegistration
    <3>2. QED
      BY <2>2, <3>1 DEF UpdateRegistration
  <2>3. ASSUME NEW e \in Evaluations, PersistVerdict(e)
        PROVE  movement'[m] = movement[m]
    <3>1. CASE eval[e].movement = m
      BY <2>3, <3>1 DEF PersistVerdict, MovementRow
    <3>2. CASE eval[e].movement # m
      BY <2>3, <3>2 DEF PersistVerdict
    <3>3. QED
      BY <3>1, <3>2
  <2>4. QED
    BY <2>1, <2>2, <2>3
       DEF Next, Handler, ReadForUpdate, UpdateFindsNoRow, DecideRequest, RemoveRequest,
           FindMatch, ResolveConformant, FindOpen, CreateEvent, EvaluationFails, PersistFails
<1>2. QED
  BY <1>1, ReasonsInvariant, PTL DEF Spec, RemovedRowFrozen

-----------------------------------------------------------------------------
(* Handlers one after the other *)

\* The evaluation e of m, and the correction d of m, are in progress.
Serving(e, m) == eval[e].movement = m /\ eval[e].pc # "done"
Correcting(d, m) == edit[d].movement = m /\ edit[d].pc = "update"

ApprovedNow(m) ==
  \E q \in Requests : request[q].status = "APPROVED" /\ Covers(q, movement[m].registration, m)

\* The verdict the register of non-conformities stands for.
RegisterVerdict(m) == IF OpenEvents(m) = {} THEN "CONFORMANT" ELSE "NON_CONFORMANT"

\* One handler of each kind at a time, and one open event.
OneByOne(m) ==
  /\ \A e, o \in Evaluations : Serving(e, m) /\ Serving(o, m) => e = o
  /\ \A d, x \in Edits : Correcting(d, m) /\ Correcting(x, m) => d = x
  /\ \A e, o \in OpenEvents(m) : e = o

\* What the handlers in progress hold agrees with the tables.
StageOK(e, m) ==
  /\ eval[e].registration = movement[m].registration
  /\ eval[e].pc = "create" => OpenEvents(m) = {}
  /\ eval[e].pc = "persist" => eval[e].verdict = RegisterVerdict(m)

CopyOK(d, m) == edit[d].seen = movement[m].registration

\* The status agrees with the register, and a conformant landing is covered under
\* the registration the row has.
Agreed(m) ==
  /\ movement[m].conformityStatus = RegisterVerdict(m)
  /\ movement[m].conformityStatus = "CONFORMANT" => ApprovedNow(m)

SerialOK(m) ==
  /\ OneByOne(m)
  /\ \A e \in Evaluations : Serving(e, m) => StageOK(e, m)
  /\ \A d \in Edits : Correcting(d, m) => CopyOK(d, m)
  /\ (/\ movement[m].state = "active" /\ Applicable(m)
      /\ \A e \in Evaluations : ~Serving(e, m)) => Agreed(m)

\* An evaluation that has not started has created no event.
FreshInv == \A e \in Evaluations : eval[e].pc = "idle" => event[e] = "none"

SerialInv == FreshInv /\ \A m \in Movements \ raced : SerialOK(m)

LEMMA NextFresh == IInv /\ FreshInv /\ [Next]_vars => FreshInv'
<1> SUFFICES ASSUME IInv, FreshInv, [Next]_vars, NEW e \in Evaluations,
                    eval'[e].pc = "idle"
             PROVE  event'[e] = "none"
  BY DEF FreshInv
<1> USE DEF IInv
<1>1. ASSUME UNCHANGED event, eval[e].pc = "idle" \/ UNCHANGED eval
      PROVE  event'[e] = "none"
  BY <1>1 DEF FreshInv
<1>2. ASSUME NEW m \in Movements, CreateMovement(m)
      PROVE  event'[e] = "none"
  BY <1>1, <1>2 DEF CreateMovement, StartEvaluation, TypeOK
<1>3. ASSUME NEW d \in Edits, UpdateRegistration(d)
      PROVE  event'[e] = "none"
  BY <1>1, <1>3 DEF UpdateRegistration, StartEvaluation, TypeOK
<1>4. ASSUME NEW o \in Evaluations, Handler(o) \/ EvaluationFails(o) \/ PersistFails(o)
      PROVE  event'[e] = "none"
  <2>1. /\ \A x \in Evaluations : x # o => eval'[x] = eval[x]
        /\ eval[o].pc # "idle"
    BY <1>4 DEF Handler, FindMatch, ResolveConformant, FindOpen, CreateEvent,
       PersistVerdict, EvaluationFails, PersistFails, EmitResolved, TypeOK
  <2>2. Forward
    BY <1>4, ListenersForward
  <2>3. e # o /\ eval[e].pc = "idle" /\ event[e] = "none"
    BY <2>1, <2>2 DEF Forward, FreshInv
  <2>4. event' \in {event, ResolveOpenByMovement(o), [event EXCEPT ![o] = "OPEN"]}
    BY <1>4 DEF Handler, FindMatch, ResolveConformant, FindOpen, CreateEvent,
       PersistVerdict, EvaluationFails, PersistFails
  <2>5. e \notin OpenEvents(eval[o].movement)
    BY <2>3 DEF OpenEvents
  <2>6. QED
    BY <2>3, <2>4, <2>5 DEF ResolveOpenByMovement, TypeOK
<1>5. ASSUME UNCHANGED <<event, eval>>
      PROVE  event'[e] = "none"
  BY <1>1, <1>5
<1>6. QED
  BY <1>2, <1>3, <1>4, <1>5
     DEF Next, vars, RemoveMovement, ReadForUpdate, UpdateFindsNoRow, DecideRequest,
         RemoveRequest

\* A movement whose row, evaluations, events and corrections the step leaves alone.
LEMMA UntouchedSerial ==
  ASSUME Forward, NEW m \in Movements, SerialOK(m),
         movement'[m] = movement[m],
         \A e \in Evaluations : eval[e].movement = m \/ eval'[e].movement = m =>
           eval'[e] = eval[e] /\ event'[e] = event[e],
         \A d \in Edits : Correcting(d, m)' => edit'[d] = edit[d]
  PROVE  SerialOK(m)'
<1>1. \A e \in Evaluations :
        /\ Serving(e, m)' <=> Serving(e, m)
        /\ Serving(e, m) => eval'[e] = eval[e]
  BY DEF Serving
<1>2. OpenEvents(m)' = OpenEvents(m) /\ RegisterVerdict(m)' = RegisterVerdict(m)
  <2>1. OpenEvents(m)' = OpenEvents(m)
    BY DEF OpenEvents
  <2>2. QED
    BY <2>1 DEF RegisterVerdict
<1>3. \A d \in Edits : Correcting(d, m)' => Correcting(d, m) /\ edit'[d] = edit[d]
  BY DEF Correcting
<1>4. OneByOne(m)'
  BY <1>1, <1>2, <1>3 DEF OneByOne, SerialOK
<1>5. \A e \in Evaluations : Serving(e, m)' => StageOK(e, m)'
  BY <1>1, <1>2 DEF StageOK, SerialOK
<1>6. \A d \in Edits : Correcting(d, m)' => CopyOK(d, m)'
  BY <1>3 DEF CopyOK, SerialOK
<1>7. ApprovedNow(m) => ApprovedNow(m)'
  BY DEF ApprovedNow, Covers, Forward
<1>8. Agreed(m) => Agreed(m)'
  BY <1>2, <1>7 DEF Agreed
<1>9. Applicable(m)' <=> Applicable(m)
  BY DEF Applicable
<1>10. QED
  BY <1>1, <1>4, <1>5, <1>6, <1>8, <1>9 DEF SerialOK

\* A landing that was just created, or whose evaluation was just requested: e is
\* the only evaluation and its payload is the registration of the row.
LEMMA StartedSerial ==
  ASSUME TypeOK, NEW m \in Movements, NEW e \in Evaluations,
         NEW reg \in Registrations, StartEvaluation(e, m, reg),
         \A o \in Evaluations : ~Serving(o, m),
         \A x, o \in OpenEvents(m) : x = o,
         event[e] = "none", event' = event,
         movement'[m].registration = reg,
         \A d \in Edits : ~Correcting(d, m)'
  PROVE  SerialOK(m)'
<1>1. /\ \A o \in Evaluations : o # e => eval'[o] = eval[o]
      /\ eval'[e].pc = "match" /\ eval'[e].movement = m /\ eval'[e].registration = reg
  BY DEF StartEvaluation, TypeOK
<1>2. \A o \in Evaluations : Serving(o, m)' <=> o = e
  BY <1>1 DEF Serving
<1>3. \A x \in OpenEvents(m)' : x \in OpenEvents(m)
  BY <1>1 DEF OpenEvents
<1>4. StageOK(e, m)'
  BY <1>1 DEF StageOK
<1>5. QED
  BY <1>2, <1>3, <1>4 DEF SerialOK, OneByOne

\* Creating m: nothing of it was there before.
LEMMA CreateSerial ==
  ASSUME IInv, FreshInv, Forward, NEW m \in Movements, CreateMovement(m)
  PROVE  /\ SerialOK(m)'
         /\ \A x \in Movements : x # m /\ SerialOK(x) => SerialOK(x)'
<1> USE DEF IInv
<1>1. PICK reg \in Registrations, type \in {"LANDING", "TAKEOFF"},
           icao \in Aerodromes \cup {Null}, at \in Times :
        /\ movement' = [movement EXCEPT ![m] =
             [state |-> "active", registration |-> reg, operationType |-> type,
              aerodrome |-> icao, readingDatetime |-> at,
              conformityStatus |-> resolveInitialConformityStatus(type, icao)]]
        /\ IF isConformityApplicable(type, icao)
             THEN \E e \in Evaluations : StartEvaluation(e, m, reg)
             ELSE UNCHANGED eval
  BY ListenerAgrees DEF CreateMovement
<1>2. /\ movement[m].state = "absent"
      /\ UNCHANGED <<event, edit>>
  BY DEF CreateMovement
<1>3. /\ \A x \in Movements : x # m => movement'[x] = movement[x]
      /\ movement'[m].registration = reg
      /\ Applicable(m)' <=> isConformityApplicable(type, icao)
  BY <1>1 DEF TypeOK, Applicable
<1>4. \A o \in Evaluations : eval[o].movement # m
  BY <1>2, ConformityAssumption DEF EvalInv, EvalJustified
<1>5. \A d \in Edits : ~Correcting(d, m)'
  BY <1>2 DEF Correcting, EditInv
<1>6. ASSUME NEW e \in Evaluations, StartEvaluation(e, m, reg)
      PROVE  /\ SerialOK(m)'
             /\ \A x \in Movements : x # m /\ SerialOK(x) => SerialOK(x)'
  <2>1. eval[e].movement = Null /\ event[e] = "none"
    BY <1>6 DEF StartEvaluation, EvalInv, EvalJustified, FreshInv
  <2>2. /\ \A o \in Evaluations : o # e => eval'[o] = eval[o]
        /\ eval'[e].movement = m
    BY <1>6 DEF StartEvaluation, TypeOK
  <2>3. \A o \in Evaluations : ~Serving(o, m) /\ o \notin OpenEvents(m)
    BY <1>4 DEF Serving, OpenEvents
  <2>4. \A x, o \in OpenEvents(m) : x = o
    BY <2>3 DEF OpenEvents
  <2>5. SerialOK(m)'
    BY <1>2, <1>3, <1>5, <1>6, <2>1, <2>3, <2>4, StartedSerial
  <2>6. ASSUME NEW x \in Movements, x # m, SerialOK(x)
        PROVE  SerialOK(x)'
    BY <1>2, <1>3, <2>1, <2>2, <2>6, ConformityAssumption, UntouchedSerial
  <2>7. QED
    BY <2>5, <2>6
<1>7. CASE UNCHANGED eval /\ ~isConformityApplicable(type, icao)
  <2>1. ~Applicable(m)'
    BY <1>3, <1>7
  <2>2. \A o \in Evaluations : ~Serving(o, m)' /\ o \notin OpenEvents(m)'
    BY <1>4, <1>7 DEF Serving, OpenEvents
  <2>3. OpenEvents(m)' = {}
    BY <2>2 DEF OpenEvents
  <2>4. SerialOK(m)'
    BY <1>5, <2>1, <2>2, <2>3 DEF SerialOK, OneByOne
  <2>5. ASSUME NEW x \in Movements, x # m, SerialOK(x)
        PROVE  SerialOK(x)'
    BY <1>2, <1>3, <1>7, <2>5, UntouchedSerial
  <2>6. QED
    BY <2>4, <2>5
<1>8. QED
  BY <1>1, <1>6, <1>7

\* Removing m.
LEMMA RemoveSerial ==
  ASSUME IInv, Forward, NEW m \in Movements, RemoveMovement(m)
  PROVE  \A x \in Movements : SerialOK(x) => SerialOK(x)'
<1> USE DEF IInv
<1>1. /\ UNCHANGED <<event, edit, eval>>
      /\ \A x \in Movements : x # m => movement'[x] = movement[x]
      /\ movement'[m].state = "removed"
      /\ movement'[m].registration = movement[m].registration
  BY DEF RemoveMovement, TypeOK, MovementRow
<1>2. ASSUME NEW x \in Movements, x # m, SerialOK(x)
      PROVE  SerialOK(x)'
  BY <1>1, <1>2, UntouchedSerial
<1>3. ASSUME SerialOK(m)
      PROVE  SerialOK(m)'
  <2>1. OpenEvents(m)' = OpenEvents(m) /\ RegisterVerdict(m)' = RegisterVerdict(m)
    BY <1>1 DEF OpenEvents, RegisterVerdict
  <2>2. OneByOne(m)'
    BY <1>1, <1>3, <2>1 DEF SerialOK, OneByOne, Serving, Correcting
  <2>3. \A e \in Evaluations : Serving(e, m)' => StageOK(e, m)'
    BY <1>1, <1>3, <2>1 DEF SerialOK, Serving, StageOK
  <2>4. \A d \in Edits : Correcting(d, m)' => CopyOK(d, m)'
    BY <1>1, <1>3 DEF SerialOK, Correcting, CopyOK
  <2>5. QED
    BY <1>1, <2>2, <2>3, <2>4 DEF SerialOK
<1>4. QED
  BY <1>2, <1>3

\* Reading m to correct it: the copy is the row, and unless m is raced from now on
\* it is the only one.
LEMMA ReadSerial ==
  ASSUME IInv, Forward, NEW d \in Edits, NEW m \in Movements, ReadForUpdate(d, m),
         NEW x \in Movements \ raced', SerialOK(x)
  PROVE  SerialOK(x)'
<1> USE DEF IInv
<1>1. /\ UNCHANGED <<movement, request, event, eval>>
      /\ \A o \in Edits : o # d => edit'[o] = edit[o]
      /\ edit'[d].movement = m /\ edit'[d].pc = "update"
      /\ edit'[d].seen = movement[m].registration
  BY DEF ReadForUpdate, TypeOK
<1>2. CASE x # m
  <2>1. \A o \in Edits : Correcting(o, x)' => edit'[o] = edit[o]
    BY <1>1, <1>2 DEF Correcting
  <2>2. QED
    BY <1>1, <2>1, UntouchedSerial
<1>3. CASE x = m
  <2>1. \A o \in Edits : ~Correcting(o, m)
    BY <1>3 DEF ReadForUpdate, Correcting
  <2>2. \A o \in Edits : Correcting(o, m)' => o = d
    BY <1>1, <2>1 DEF Correcting
  <2>3. OpenEvents(m)' = OpenEvents(m) /\ RegisterVerdict(m)' = RegisterVerdict(m)
    BY <1>1 DEF OpenEvents, RegisterVerdict
  <2>4. OneByOne(m)'
    BY <1>1, <1>3, <2>2, <2>3 DEF SerialOK, OneByOne, Serving
  <2>5. \A e \in Evaluations : Serving(e, m)' => StageOK(e, m)'
    BY <1>1, <1>3, <2>3 DEF SerialOK, Serving, StageOK
  <2>6. \A o \in Edits : Correcting(o, m)' => CopyOK(o, m)'
    BY <1>1, <2>2 DEF CopyOK
  <2>7. Agreed(m) => Agreed(m)'
    BY <1>1, <2>3 DEF Agreed, ApprovedNow, Covers
  <2>8. (/\ movement'[m].state = "active" /\ Applicable(m)'
         /\ \A e \in Evaluations : ~Serving(e, m)') => Agreed(m)'
    BY <1>1, <1>3, <2>7 DEF SerialOK, Serving, Applicable
  <2>9. QED
    BY <1>3, <2>4, <2>5, <2>6, <2>8 DEF SerialOK
<1>4. QED
  BY <1>2, <1>3

\* Writing a correction of mv, which nothing else overlaps: the copy it compares
\* with is the row, so either the registration stays or an evaluation of the new
\* one starts.
LEMMA UpdateSerial ==
  ASSUME IInv, FreshInv, Forward, NEW d \in Edits, UpdateRegistration(d),
         NEW x \in Movements \ raced', SerialOK(x)
  PROVE  SerialOK(x)'
<1> USE DEF IInv
<1>1. PICK mv \in Movements : mv = edit[d].movement
  BY DEF UpdateRegistration, EditInv
<1> DEFINE again == edit[d].to # edit[d].seen /\ Applicable(mv)
<1>2. PICK status :
        /\ movement' = [movement EXCEPT ![mv].registration = edit[d].to,
                                        ![mv].conformityStatus = status]
        /\ ~again => status = movement[mv].conformityStatus
  BY <1>1 DEF UpdateRegistration, TypeOK, MovementRow
<1>3. /\ movement[mv].state = "active"
      /\ UNCHANGED <<request, event>>
      /\ \A o \in Movements : o # mv => movement'[o] = movement[o]
      /\ movement'[mv].registration = edit[d].to
      /\ movement'[mv].conformityStatus = status
      /\ movement'[mv].state = "active"
      /\ edit[d].to \in Registrations
      /\ Correcting(d, mv)
  BY <1>1, <1>2 DEF UpdateRegistration, TypeOK, MovementRow, EditInv, Correcting
<1>4. /\ \A o \in Edits : o # d => edit'[o] = edit[o]
      /\ edit'[d].pc = "done"
  BY DEF UpdateRegistration, TypeOK, EditTask
<1>5. \/ again /\ \E e \in Evaluations : StartEvaluation(e, mv, edit[d].to)
      \/ ~again /\ UNCHANGED eval
  BY <1>1, ListenerAgrees DEF UpdateRegistration, Applicable
<1>6. CASE x # mv
  <2>1. \A e \in Evaluations : eval[e].movement = x \/ eval'[e].movement = x =>
           eval'[e] = eval[e] /\ event'[e] = event[e]
    <3>1. ASSUME NEW e \in Evaluations, StartEvaluation(e, mv, edit[d].to)
          PROVE  /\ \A o \in Evaluations : o # e => eval'[o] = eval[o]
                 /\ eval'[e].movement = mv /\ eval[e].movement = Null
      BY <3>1 DEF StartEvaluation, EvalInv, EvalJustified, TypeOK
    <3>2. QED
      BY <1>3, <1>5, <1>6, <3>1, ConformityAssumption
  <2>2. \A o \in Edits : Correcting(o, x)' => edit'[o] = edit[o]
    BY <1>4 DEF Correcting
  <2>3. QED
    BY <1>3, <1>6, <2>1, <2>2, UntouchedSerial
<1>7. CASE x = mv
  <2>1. \A e \in Evaluations : ~Serving(e, mv)
    BY <1>1, <1>7 DEF UpdateRegistration, Evaluating, Serving
  <2>2. /\ \A o \in Edits : ~Correcting(o, mv)'
        /\ edit[d].seen = movement[mv].registration
        /\ \A e, o \in OpenEvents(mv) : e = o
    BY <1>3, <1>4, <1>7 DEF SerialOK, OneByOne, Correcting, CopyOK
  <2>3. ASSUME NEW e \in Evaluations, StartEvaluation(e, mv, edit[d].to)
        PROVE  SerialOK(mv)'
    <3>1. event[e] = "none"
      BY <2>3 DEF StartEvaluation, FreshInv
    <3>2. QED
      BY <1>3, <2>1, <2>2, <2>3, <3>1, StartedSerial
  <2>4. ASSUME ~again, UNCHANGED eval
        PROVE  SerialOK(mv)'
    <3>1. \A e \in Evaluations : ~Serving(e, mv)'
      BY <2>1, <2>4 DEF Serving
    <3>2. OpenEvents(mv)' = OpenEvents(mv) /\ RegisterVerdict(mv)' = RegisterVerdict(mv)
      BY <1>3, <2>4 DEF OpenEvents, RegisterVerdict
    <3>3. Applicable(mv)' <=> Applicable(mv)
      BY <1>3, ForwardKeepsReasons
    <3>4. ASSUME Applicable(mv)'
          PROVE  Agreed(mv)'
      <4>1. Agreed(mv)
        BY <1>3, <1>7, <2>1, <3>3, <3>4 DEF SerialOK
      <4>2. /\ movement'[mv].registration = movement[mv].registration
            /\ movement'[mv].conformityStatus = movement[mv].conformityStatus
        BY <1>2, <1>3, <2>2, <2>4, <3>3, <3>4
      <4>3. ApprovedNow(mv) => ApprovedNow(mv)'
        BY <1>3, <4>2 DEF ApprovedNow, Covers, Forward
      <4>4. QED
        BY <3>2, <4>1, <4>2, <4>3 DEF Agreed
    <3>5. OneByOne(mv)'
      BY <2>2, <3>1, <3>2 DEF OneByOne
    <3>6. QED
      BY <2>2, <3>1, <3>4, <3>5 DEF SerialOK
  <2>5. QED
    BY <1>5, <1>7, <2>3, <2>4
<1>8. QED
  BY <1>6, <1>7

\* A step of the evaluation e that does not end it: m stays settled or not as it
\* was, and e has to agree with the tables again.
LEMMA AdvanceSerial ==
  ASSUME TypeOK, NEW m \in Movements, SerialOK(m), NEW e \in Evaluations,
         Serving(e, m), Serving(e, m)',
         UNCHANGED <<movement, edit>>,
         \A o \in Evaluations : o # e => eval'[o] = eval[o],
         eval'[e].registration = eval[e].registration,
         \A x, o \in OpenEvents(m)' : x = o,
         eval'[e].pc = "create" => OpenEvents(m)' = {},
         eval'[e].pc = "persist" => eval'[e].verdict = RegisterVerdict(m)'
  PROVE  SerialOK(m)'
<1>1. \A o \in Evaluations : Serving(o, m)' <=> o = e
  <2>1. \A o \in Evaluations : Serving(o, m) => o = e
    BY DEF SerialOK, OneByOne
  <2>2. QED
    BY <2>1 DEF Serving
<1>2. OneByOne(m)'
  BY <1>1 DEF SerialOK, OneByOne, Correcting
<1>3. StageOK(e, m)'
  BY DEF SerialOK, StageOK
<1>4. \A d \in Edits : Correcting(d, m)' => CopyOK(d, m)'
  BY DEF SerialOK, Correcting, CopyOK
<1>5. QED
  BY <1>1, <1>2, <1>3, <1>4 DEF SerialOK

\* The steps of the listeners, on the movement of the evaluation.
LEMMA ServeSerial ==
  ASSUME IInv, Forward, NEW e \in Evaluations, Handler(e),
         NEW m \in Movements, m = eval[e].movement, SerialOK(m)
  PROVE  SerialOK(m)'
<1> USE DEF IInv
<1>1. /\ \A o \in Evaluations : o # e => eval'[o] = eval[o]
      /\ eval[e].pc \notin {"idle", "done"}
  BY DEF Handler, FindMatch, ResolveConformant, FindOpen, CreateEvent, PersistVerdict,
     EmitResolved, TypeOK
<1>2. /\ Serving(e, m)
      /\ StageOK(e, m)
      /\ \A x, o \in OpenEvents(m) : x = o
      /\ eval'[e].movement = m
      /\ eval'[e].registration = eval[e].registration
  BY <1>1 DEF SerialOK, OneByOne, Serving, Forward
<1>3. CASE FindMatch(e)
  <2>1. /\ UNCHANGED <<movement, edit, event>>
        /\ eval'[e].pc \in {"resolve", "find_open"}
    BY <1>3 DEF FindMatch, TypeOK, EvalTask
  <2>2. OpenEvents(m)' = OpenEvents(m)
    BY <1>1, <1>2, <2>1 DEF OpenEvents, Serving
  <2>3. Serving(e, m)'
    BY <1>2, <2>1 DEF Serving
  <2>4. QED
    BY <1>1, <1>2, <2>1, <2>2, <2>3, AdvanceSerial
<1>4. CASE ResolveConformant(e)
  <2>1. /\ UNCHANGED <<movement, edit>>
        /\ event' = ResolveOpenByMovement(e)
        /\ eval'[e].pc = "persist" /\ eval'[e].verdict = "CONFORMANT"
    BY <1>4 DEF ResolveConformant, EmitResolved, TypeOK, EvalTask
  <2>2. \A x \in Evaluations : x \notin OpenEvents(m)'
    BY <1>1, <1>2, <2>1 DEF ResolveOpenByMovement, OpenEvents, Serving
  <2>3. OpenEvents(m)' = {}
    BY <2>2 DEF OpenEvents
  <2>4. Serving(e, m)'
    BY <1>2, <2>1 DEF Serving
  <2>5. RegisterVerdict(m)' = "CONFORMANT"
    BY <2>3 DEF RegisterVerdict
  <2>6. QED
    BY <1>1, <1>2, <2>1, <2>3, <2>4, <2>5, AdvanceSerial
<1>5. CASE FindOpen(e)
  <2>1. /\ UNCHANGED <<movement, edit, event>>
        /\ OpenEvents(m) # {} =>
             eval'[e].pc = "persist" /\ eval'[e].verdict = "NON_CONFORMANT"
        /\ OpenEvents(m) = {} => eval'[e].pc = "create"
    BY <1>5 DEF FindOpen, EmitResolved, TypeOK, EvalTask
  <2>2. OpenEvents(m)' = OpenEvents(m)
    BY <1>1, <1>2, <2>1 DEF OpenEvents, Serving
  <2>3. Serving(e, m)'
    BY <1>2, <2>1 DEF Serving
  <2>4. /\ eval'[e].pc = "create" => OpenEvents(m)' = {}
        /\ eval'[e].pc = "persist" => eval'[e].verdict = RegisterVerdict(m)'
    BY <2>1, <2>2 DEF RegisterVerdict
  <2>5. QED
    BY <1>1, <1>2, <2>1, <2>2, <2>3, <2>4, AdvanceSerial
<1>6. CASE CreateEvent(e)
  <2>1. /\ UNCHANGED <<movement, edit>>
        /\ event'[e] = "OPEN"
        /\ \A o \in Evaluations : o # e => event'[o] = event[o]
        /\ eval[e].pc = "create"
        /\ eval'[e].pc = "persist" /\ eval'[e].verdict = "NON_CONFORMANT"
    BY <1>6 DEF CreateEvent, EmitResolved, TypeOK, EvalTask
  <2>2. OpenEvents(m) = {}
    BY <1>2, <2>1 DEF StageOK
  <2>3. \A o \in Evaluations : o \in OpenEvents(m)' <=> o = e
    BY <1>1, <1>2, <2>1, <2>2 DEF OpenEvents, Serving
  <2>4. OpenEvents(m)' = {e}
    BY <2>3 DEF OpenEvents
  <2>5. Serving(e, m)'
    BY <1>2, <2>1 DEF Serving
  <2>6. RegisterVerdict(m)' = "NON_CONFORMANT"
    BY <2>4 DEF RegisterVerdict
  <2>7. \A x, o \in OpenEvents(m)' : x = o
    BY <2>4
  <2>8. QED
    BY <1>1, <1>2, <2>1, <2>5, <2>6, <2>7, AdvanceSerial
<1>7. CASE PersistVerdict(e)
  <2>1. /\ UNCHANGED <<request, event, edit>>
        /\ movement' = [movement EXCEPT ![m].conformityStatus =
                          IF movement[m].state = "active" THEN eval[e].verdict ELSE @]
        /\ eval'[e].pc = "done"
        /\ eval[e].pc = "persist"
    BY <1>7 DEF PersistVerdict, TypeOK, EvalTask
  <2>2. /\ movement'[m].state = movement[m].state
        /\ movement'[m].registration = movement[m].registration
        /\ movement[m].state = "active" => movement'[m].conformityStatus = eval[e].verdict
    BY <2>1 DEF TypeOK, MovementRow
  <2>3. OpenEvents(m)' = OpenEvents(m) /\ RegisterVerdict(m)' = RegisterVerdict(m)
    <3>1. OpenEvents(m)' = OpenEvents(m)
      BY <1>1, <1>2, <2>1 DEF OpenEvents, Serving
    <3>2. QED
      BY <3>1 DEF RegisterVerdict
  <2>4. \A o \in Evaluations : ~Serving(o, m)'
    <3>1. \A o \in Evaluations : Serving(o, m) => o = e
      BY <1>2 DEF SerialOK, OneByOne
    <3>2. QED
      BY <1>1, <2>1, <3>1 DEF Serving
  <2>5. ASSUME movement'[m].state = "active"
        PROVE  Agreed(m)'
    <3>1. movement'[m].conformityStatus = RegisterVerdict(m)'
      BY <1>2, <2>1, <2>2, <2>3, <2>5 DEF StageOK
    <3>2. ASSUME movement'[m].conformityStatus = "CONFORMANT"
          PROVE  ApprovedNow(m)'
      <4>1. eval[e].pc # "idle" /\ ApprovedFor(e)
        BY <2>1, <2>2, <2>5, <3>2 DEF EvalInv, EvalJustified
      <4>2. ApprovedFor(e)'
        BY <4>1, ForwardKeepsReasons
      <4>3. eval'[e].registration = movement'[m].registration
        BY <1>2, <2>2 DEF StageOK
      <4>4. QED
        BY <1>2, <4>2, <4>3 DEF ApprovedFor, ApprovedNow
    <3>3. QED
      BY <3>1, <3>2 DEF Agreed
  <2>6. OneByOne(m)'
    BY <1>2, <2>1, <2>3, <2>4 DEF SerialOK, OneByOne, Correcting
  <2>7. \A d \in Edits : Correcting(d, m)' => CopyOK(d, m)'
    BY <2>1, <2>2 DEF SerialOK, Correcting, CopyOK
  <2>8. QED
    BY <2>4, <2>5, <2>6, <2>7 DEF SerialOK
<1>8. QED
  BY <1>3, <1>4, <1>5, <1>6, <1>7 DEF Handler

\* An evaluation does not concern the other movements, and the one whose handler
\* fails is raced.
LEMMA ListenersSerial ==
  ASSUME IInv, NEW e \in Evaluations,
         Handler(e) \/ EvaluationFails(e) \/ PersistFails(e),
         NEW x \in Movements \ raced', SerialOK(x)
  PROVE  SerialOK(x)'
<1> USE DEF IInv
<1>1. Forward
  BY ListenersForward
<1>2. eval[e].pc # "idle" /\ \A o \in Evaluations : o # e => eval'[o] = eval[o]
  BY DEF Handler, FindMatch, ResolveConformant, FindOpen, CreateEvent, PersistVerdict,
     EvaluationFails, PersistFails, EmitResolved, TypeOK
<1>3. PICK m \in Movements : m = eval[e].movement
  BY <1>2 DEF EvalInv, EvalJustified
<1>4. eval'[e].movement = m
  BY <1>1, <1>2, <1>3 DEF Forward
<1>5. CASE x # m
  <2>1. movement'[x] = movement[x]
    BY <1>3, <1>5 DEF Handler, FindMatch, ResolveConformant, FindOpen, CreateEvent,
       PersistVerdict, EvaluationFails, PersistFails, TypeOK
  <2>2. ASSUME NEW o \in Evaluations, eval[o].movement = x \/ eval'[o].movement = x
        PROVE  eval'[o] = eval[o] /\ event'[o] = event[o]
    <3>1. o # e /\ eval'[o] = eval[o]
      BY <1>2, <1>3, <1>4, <1>5, <2>2
    <3>2. event' \in {event, ResolveOpenByMovement(e), [event EXCEPT ![e] = "OPEN"]}
      BY DEF Handler, FindMatch, ResolveConformant, FindOpen, CreateEvent,
         PersistVerdict, EvaluationFails, PersistFails
    <3>3. o \notin OpenEvents(m)
      BY <1>5, <2>2, <3>1 DEF OpenEvents
    <3>4. QED
      BY <1>3, <3>1, <3>2, <3>3 DEF ResolveOpenByMovement, TypeOK
  <2>3. UNCHANGED edit
    BY DEF Handler, FindMatch, ResolveConformant, FindOpen, CreateEvent, PersistVerdict,
       EvaluationFails, PersistFails
  <2>4. QED
    BY <1>1, <2>1, <2>2, <2>3, UntouchedSerial
<1>6. CASE x = m
  <2>1. Handler(e)
    BY <1>3, <1>6 DEF EvaluationFails, PersistFails, Fault
  <2>2. QED
    BY <1>1, <1>3, <1>6, <2>1, ServeSerial
<1>7. QED
  BY <1>5, <1>6

LEMMA NextSerial == IInv /\ SerialInv /\ [Next]_vars => SerialInv'
<1> SUFFICES ASSUME IInv, SerialInv, [Next]_vars
             PROVE  SerialInv'
  OBVIOUS
<1> USE DEF IInv
<1>1. FreshInv /\ FreshInv'
  BY NextFresh DEF SerialInv
<1>2. raced \subseteq raced'
  BY DEF Next, vars, CreateMovement, RemoveMovement, ReadForUpdate, UpdateRegistration,
     UpdateFindsNoRow, DecideRequest, RemoveRequest, Handler, FindMatch,
     ResolveConformant, FindOpen, CreateEvent, PersistVerdict, EvaluationFails,
     PersistFails, Fault
<1>3. SUFFICES ASSUME NEW x \in Movements \ raced'
               PROVE  SerialOK(x)'
  BY <1>1 DEF SerialInv
<1>4. SerialOK(x)
  BY <1>2 DEF SerialInv
<1>5. ASSUME NEW m \in Movements, CreateMovement(m)
      PROVE  SerialOK(x)'
  <2>1. Forward
    BY <1>5, MovementsForward
  <2>2. QED
    BY <1>1, <1>4, <1>5, <2>1, CreateSerial
<1>6. ASSUME NEW m \in Movements, RemoveMovement(m)
      PROVE  SerialOK(x)'
  BY <1>4, <1>6, MovementsForward, RemoveSerial
<1>7. ASSUME NEW d \in Edits, NEW m \in Movements, ReadForUpdate(d, m)
      PROVE  SerialOK(x)'
  BY <1>4, <1>7, MovementsForward, ReadSerial
<1>8. ASSUME NEW d \in Edits, UpdateRegistration(d)
      PROVE  SerialOK(x)'
  <2>1. Forward
    BY <1>8, MovementsForward
  <2>2. QED
    BY <1>1, <1>4, <1>8, <2>1, UpdateSerial
<1>9. ASSUME NEW d \in Edits, UpdateFindsNoRow(d)
      PROVE  SerialOK(x)'
  <2>1. Forward /\ UNCHANGED <<movement, event, eval>>
    BY <1>9, MovementsForward DEF UpdateFindsNoRow
  <2>2. \A o \in Edits : Correcting(o, x)' => edit'[o] = edit[o]
    BY <1>9 DEF UpdateFindsNoRow, Correcting, TypeOK, EditTask
  <2>3. QED
    BY <1>4, <2>1, <2>2, UntouchedSerial
<1>10. ASSUME NEW q \in Requests, DecideRequest(q) \/ RemoveRequest(q)
       PROVE  SerialOK(x)'
  <2>1. Forward /\ UNCHANGED <<movement, event, eval, edit>>
    BY <1>10, RequestsForward DEF DecideRequest, RemoveRequest
  <2>2. QED
    BY <1>4, <2>1, UntouchedSerial
<1>11. ASSUME NEW e \in Evaluations, Handler(e) \/ EvaluationFails(e) \/ PersistFails(e)
       PROVE  SerialOK(x)'
  BY <1>4, <1>11, ListenersSerial
<1>12. CASE UNCHANGED vars
  <2>1. Forward
    BY <1>12 DEF vars, Forward
  <2>2. QED
    BY <1>4, <1>12, <2>1, UntouchedSerial DEF vars
<1>13. QED
  BY <1>5, <1>6, <1>7, <1>8, <1>9, <1>10, <1>11, <1>12 DEF Next

\* As long as the handlers of a movement ran one after the other and none failed,
\* its status and the register of non-conformities agree once they are done.
THEOREM SettledVerdicts == Spec => []SettledVerdict
<1>1. Init => SerialInv
  <2>1. ASSUME Init, NEW m \in Movements
        PROVE  SerialOK(m)
    <3>1. /\ movement[m].state # "active"
          /\ \A e \in Evaluations : ~Serving(e, m) /\ e \notin OpenEvents(m)
          /\ \A d \in Edits : ~Correcting(d, m)
      BY <2>1, ConformityAssumption DEF Init, Serving, OpenEvents, Correcting
    <3>2. OneByOne(m)
      BY <3>1 DEF OneByOne, OpenEvents
    <3>3. QED
      BY <3>1, <3>2 DEF SerialOK
  <2>2. Init => FreshInv
    BY DEF Init, FreshInv
  <2>3. QED
    BY <2>1, <2>2 DEF SerialInv
<1>2. IInv /\ SerialInv => SettledVerdict
  <2> SUFFICES ASSUME IInv, SerialInv, NEW m \in Movements \ raced,
                      movement[m].state = "active", Applicable(m), ~Evaluating(m)
               PROVE  \/ /\ movement[m].conformityStatus = "CONFORMANT"
                         /\ OpenEvents(m) = {}
                         /\ \E q \in Requests :
                              /\ request[q].status = "APPROVED"
                              /\ Covers(q, movement[m].registration, m)
                      \/ /\ movement[m].conformityStatus = "NON_CONFORMANT"
                         /\ \E e \in Evaluations : OpenEvents(m) = {e}
    BY DEF SettledVerdict
  <2>1. /\ Agreed(m)
        /\ \A e, o \in OpenEvents(m) : e = o
    BY DEF SerialInv, SerialOK, OneByOne, Serving, Evaluating
  <2>2. CASE OpenEvents(m) = {}
    BY <2>1, <2>2 DEF Agreed, RegisterVerdict, ApprovedNow
  <2>3. CASE OpenEvents(m) # {}
    <3>1. PICK e \in OpenEvents(m) : TRUE
      BY <2>3
    <3>2. OpenEvents(m) = {e} /\ e \in Evaluations
      BY <2>1, <3>1 DEF OpenEvents
    <3>3. QED
      BY <2>1, <2>3, <3>2 DEF Agreed, RegisterVerdict
  <2>4. QED
    BY <2>2, <2>3
<1>3. QED
  BY <1>1, <1>2, NextSerial, ReasonsInvariant, PTL DEF Spec

-----------------------------------------------------------------------------
(* Nothing is forgotten *)

\* Every evaluation of m that was in progress still is.
StillServed(m) ==
  \A e \in Evaluations : Serving(e, m) => Serving(e, m)'

LEMMA StartServes ==
  ASSUME IInv, NEW e \in Evaluations, NEW m \in Movements, NEW reg, StartEvaluation(e, m, reg)
  PROVE  Evaluating(m)' /\ \A x \in Movements : StillServed(x)
<1>1. /\ eval[e].movement = Null
      /\ eval'[e].movement = m /\ eval'[e].pc = "match"
      /\ \A o \in Evaluations : o # e => eval'[o] = eval[o]
  BY DEF StartEvaluation, IInv, TypeOK, EvalInv, EvalJustified
<1> QED
  BY <1>1, ConformityAssumption DEF Evaluating, StillServed, Serving

\* An evaluation goes on until its verdict is written, or a call of it fails.
LEMMA HandlerServes ==
  ASSUME IInv, NEW e \in Evaluations, Handler(e), NEW m \in Movements
  PROVE  \/ StillServed(m) /\ movement'[m] = movement[m]
         \/ movement'[m].state = "active" => movement'[m].conformityStatus \in Verdict
<1>1. /\ eval \in [Evaluations -> EvalTask]
      /\ movement \in [Movements -> MovementRow]
  BY DEF IInv, TypeOK
<1>2. CASE FindMatch(e)
  BY <1>1, <1>2 DEF FindMatch, StillServed, Serving, EvalTask
<1>3. CASE ResolveConformant(e) \/ CreateEvent(e)
  BY <1>1, <1>3 DEF ResolveConformant, CreateEvent, EmitResolved, StillServed, Serving, EvalTask
<1>4. CASE FindOpen(e)
  BY <1>1, <1>4 DEF FindOpen, EmitResolved, StillServed, Serving, EvalTask
<1>5. CASE PersistVerdict(e)
  <2>1. /\ eval[e].movement \in Movements /\ eval[e].verdict \in Verdict
        /\ \A o \in Evaluations : o # e => eval'[o] = eval[o]
        /\ movement' = [movement EXCEPT ![eval[e].movement].conformityStatus =
             IF movement[eval[e].movement].state = "active" THEN eval[e].verdict ELSE @]
    BY <1>1, <1>5 DEF PersistVerdict, IInv, EvalInv, EvalJustified, EvalTask
  <2>2. CASE eval[e].movement = m
    BY <1>1, <2>1, <2>2 DEF MovementRow
  <2>3. CASE eval[e].movement # m
    BY <1>1, <2>1, <2>3 DEF StillServed, Serving
  <2> QED
    BY <2>2, <2>3
<1> QED
  BY <1>2, <1>3, <1>4, <1>5 DEF Handler

LEMMA NextServed == IInv /\ PendingIsServed /\ [Next]_vars => PendingIsServed'
<1> SUFFICES ASSUME IInv, PendingIsServed, [Next]_vars, faults' = 0, NEW m \in Movements,
                    movement'[m].state = "active", movement'[m].conformityStatus = "PENDING"
             PROVE  Evaluating(m)'
  BY DEF PendingIsServed
<1>0. /\ eval \in [Evaluations -> EvalTask] /\ edit \in [Edits -> EditTask]
      /\ movement \in [Movements -> MovementRow] /\ faults \in Nat
  BY DEF IInv, TypeOK
<1>1. ASSUME faults = 0, StillServed(m),
             movement'[m] = movement[m] \/ (/\ movement[m].state = "active"
                                            /\ movement[m].conformityStatus = "PENDING")
      PROVE  Evaluating(m)'
  BY <1>1 DEF PendingIsServed, Evaluating, StillServed, Serving
<1>2. ASSUME UNCHANGED eval
      PROVE  StillServed(m)
  BY <1>2 DEF StillServed, Serving
<1>3. ASSUME NEW n \in Movements, CreateMovement(n)
      PROVE  Evaluating(m)'
  <2>1. PICK reg \in Registrations, type \in {"LANDING", "TAKEOFF"},
             icao \in Aerodromes \cup {Null}, at \in Times :
          /\ movement' = [movement EXCEPT ![n] =
               [state |-> "active", registration |-> reg, operationType |-> type,
                aerodrome |-> icao, readingDatetime |-> at,
                conformityStatus |-> resolveInitialConformityStatus(type, icao)]]
          /\ IF isConformityApplicable(type, icao)
               THEN \E e \in Evaluations : StartEvaluation(e, n, reg)
               ELSE UNCHANGED eval
    BY <1>3, ListenerAgrees DEF CreateMovement
  <2>2. StillServed(m) /\ faults' = faults
    BY <1>2, <1>3, <2>1, StartServes DEF CreateMovement
  <2>3. CASE n = m
    <3>1. isConformityApplicable(type, icao)
      BY <1>0, <2>1, <2>3 DEF resolveInitialConformityStatus
    <3> QED
      BY <2>1, <2>3, <3>1, StartServes
  <2>4. CASE n # m
    BY <1>0, <1>1, <2>1, <2>2, <2>4
  <2> QED
    BY <2>3, <2>4
<1>4. ASSUME NEW n \in Movements, RemoveMovement(n)
      PROVE  Evaluating(m)'
  BY <1>0, <1>1, <1>2, <1>4 DEF RemoveMovement, MovementRow
<1>5. ASSUME NEW d \in Edits, UpdateRegistration(d)
      PROVE  Evaluating(m)'
  <2>1. PICK n \in Movements : n = edit[d].movement
    BY <1>5 DEF UpdateRegistration, IInv, EditInv
  <2> DEFINE again == edit[d].to # edit[d].seen /\ Applicable(n)
  <2>2. /\ movement' = [movement EXCEPT ![n].registration = edit[d].to,
                          ![n].conformityStatus = IF again THEN "PENDING" ELSE @]
        /\ IF again THEN \E e \in Evaluations : StartEvaluation(e, n, edit[d].to)
                    ELSE UNCHANGED eval
        /\ movement[n].state = "active" /\ faults' = faults
    BY <1>5, <2>1, ListenerAgrees DEF UpdateRegistration, Applicable
  <2>3. StillServed(m)
    BY <1>2, <2>2, StartServes
  <2>4. CASE n = m /\ again
    BY <2>2, <2>4, StartServes
  <2>5. CASE n = m /\ ~again
    <3>1. movement'[m].conformityStatus = movement[m].conformityStatus
      BY <1>0, <2>2, <2>5 DEF MovementRow
    <3> QED
      BY <1>1, <2>2, <2>3, <2>5, <3>1
  <2>6. CASE n # m
    BY <1>0, <1>1, <2>2, <2>3, <2>6
  <2> QED
    BY <2>4, <2>5, <2>6
<1>6. ASSUME UNCHANGED <<movement, eval, faults>>
      PROVE  Evaluating(m)'
  BY <1>1, <1>2, <1>6
<1>7. ASSUME NEW e \in Evaluations, Handler(e)
      PROVE  Evaluating(m)'
  <2>1. faults' = faults
    BY <1>7 DEF Handler, FindMatch, ResolveConformant, FindOpen, CreateEvent, PersistVerdict
  <2> QED
    BY <1>1, <1>7, <2>1, HandlerServes DEF Verdict
<1>8. ASSUME NEW e \in Evaluations, EvaluationFails(e) \/ PersistFails(e)
      PROVE  FALSE
  BY <1>0, <1>8 DEF EvaluationFails, PersistFails, Fault
<1>9. CASE UNCHANGED vars
  BY <1>6, <1>9 DEF vars
<1>10. CASE Next
  <2>1. ASSUME NEW d \in Edits, NEW n \in Movements, ReadForUpdate(d, n)
        PROVE  Evaluating(m)'
    BY <1>6, <2>1 DEF ReadForUpdate
  <2>2. ASSUME NEW d \in Edits, UpdateFindsNoRow(d)
        PROVE  Evaluating(m)'
    BY <1>6, <2>2 DEF UpdateFindsNoRow
  <2>3. ASSUME NEW q \in Requests, DecideRequest(q) \/ RemoveRequest(q)
        PROVE  Evaluating(m)'
    BY <1>6, <2>3 DEF DecideRequest, RemoveRequest
  <2> QED
    BY <1>3, <1>4, <1>5, <1>7, <1>8, <1>10, <2>1, <2>2, <2>3 DEF Next
<1> QED
  BY <1>9, <1>10

\* As long as nothing has failed, a landing that reads PENDING is being evaluated.
THEOREM PendingAlwaysServed == Spec => []PendingIsServed
<1>1. Init => PendingIsServed
  BY DEF Init, PendingIsServed
<1> QED
  BY <1>1, NextServed, ReasonsInvariant, PTL DEF Spec
=============================================================================
