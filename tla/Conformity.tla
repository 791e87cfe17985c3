----------------------------- MODULE Conformity -----------------------------
(***************************************************************************)
(* The operational-conformity pipeline of aerobi-api: modules `movements`  *)
(* (creation, correction and removal of a movement, persistence of the     *)
(* verdict), `conformity` (evaluation against the approved landing         *)
(* requests, register of non-conformities) and the part of                 *)
(* `landing-requests` the evaluation reads. The e-mail a new               *)
(* non-conformity causes is not modelled.                                  *)
(*                                                                         *)
(* HTTP handlers and event listeners are coroutines of one Node process.   *)
(* Each `await` on the database is a point where any other coroutine may   *)
(* run, so each handler is split into one action per awaited statement.    *)
(* EventEmitter2.emit runs a listener up to its first await, so an emit    *)
(* starts the listener within the step of the emitter.                     *)
(*                                                                         *)
(* An element of Evaluations identifies one run of ConformityListener, the *)
(* verdict write it starts (MovementConformityListener) and the            *)
(* operational event it may create (a run creates at most one).            *)
(***************************************************************************)
EXTENDS Integers

CONSTANTS
  Movements,      \* ids of movements
  Registrations,  \* canonical aircraft registrations
  Aerodromes,     \* ICAO codes
  Times,          \* instants at which a movement may have been read
  Requests,       \* landing requests: registration, icao and requestDate
  Window,         \* CONFORMITY_MATCH_WINDOW_HOURS, in units of Times
  Evaluations,    \* runs of the conformity listener (bounds their number)
  Edits,          \* PATCH /movements/:id calls (bounds their number)
  MaxFaults,      \* bound on the number of failed database calls
  Null

RequestData == [registration : Registrations, icao : Aerodromes, requestDate : Int]

ASSUME ConformityAssumption ==
  /\ Null \notin Movements \cup Registrations \cup Aerodromes
  /\ Times \subseteq Int
  /\ Requests \subseteq RequestData
  /\ Window \in Nat
  /\ MaxFaults \in Nat

VARIABLES
  movement,  \* table movement
  request,   \* decision state of each row of landing_requests
  event,     \* table operational_event, by the evaluation that created the row
  edit,      \* UpdateMovementService.execute in progress
  eval,      \* evaluate and the verdict write in progress
  raced,     \* history: movements with overlapping handlers or a failed one
  faults     \* number of failed database calls so far

vars == <<movement, request, event, edit, eval, raced, faults>>

Verdict == {"CONFORMANT", "NON_CONFORMANT"}
ConformityStatus == Verdict \cup {"PENDING", "NOT_APPLICABLE"}

MovementRow ==
  [state            : {"absent", "active", "removed"},
   registration     : Registrations \cup {Null},
   operationType    : {"LANDING", "TAKEOFF"},
   aerodrome        : Aerodromes \cup {Null},
   readingDatetime  : Int,
   conformityStatus : ConformityStatus]

RequestRow == [status : {"PENDING", "APPROVED", "REJECTED"}, deleted : BOOLEAN]

EditTask ==
  [pc       : {"idle", "update", "done"},
   movement : Movements \cup {Null},
   to       : Registrations \cup {Null},   \* the corrected registration
   seen     : Registrations \cup {Null}]   \* existing.registration

\* "persist": the verdict is emitted and its write is awaited.
EvalTask ==
  [pc           : {"idle", "match", "resolve", "find_open", "create", "persist", "done"},
   movement     : Movements \cup {Null},
   registration : Registrations \cup {Null},  \* payload of the domain event
   verdict      : Verdict \cup {"none"}]

\* An event is "none" when the evaluation has created no row. No code sets
\* ACKNOWLEDGED: OPEN is the only active status in use.
TypeOK ==
  /\ movement \in [Movements -> MovementRow]
  /\ request \in [Requests -> RequestRow]
  /\ event \in [Evaluations -> {"none", "OPEN", "RESOLVED"}]
  /\ edit \in [Edits -> EditTask]
  /\ eval \in [Evaluations -> EvalTask]
  /\ raced \subseteq Movements
  /\ faults \in Nat

Init ==
  /\ movement = [m \in Movements |->
                   [state |-> "absent", registration |-> Null,
                    operationType |-> "LANDING", aerodrome |-> Null,
                    readingDatetime |-> 0, conformityStatus |-> "NOT_APPLICABLE"]]
  /\ request = [q \in Requests |-> [status |-> "PENDING", deleted |-> FALSE]]
  /\ event = [e \in Evaluations |-> "none"]
  /\ edit = [d \in Edits |->
               [pc |-> "idle", movement |-> Null, to |-> Null, seen |-> Null]]
  /\ eval = [e \in Evaluations |->
               [pc |-> "idle", movement |-> Null, registration |-> Null,
                verdict |-> "none"]]
  /\ raced = {}
  /\ faults = 0

-----------------------------------------------------------------------------
(* Helpers *)

isConformityApplicable(operationType, aerodrome) ==
  operationType = "LANDING" /\ aerodrome # Null

Applicable(m) ==
  isConformityApplicable(movement[m].operationType, movement[m].aerodrome)

resolveInitialConformityStatus(operationType, aerodrome) ==
  IF isConformityApplicable(operationType, aerodrome) THEN "PENDING" ELSE "NOT_APPLICABLE"

\* Variant: the listener takes landings without an aerodrome, too.
EvaluatesAnyLanding(operationType, aerodrome) == operationType = "LANDING"

\* The filter of the listener repeats the rule: it does not call
\* isConformityApplicable.
Evaluates(operationType, aerodrome) == operationType = "LANDING" /\ aerodrome # Null

\* The landing request q covers a landing of m under the registration reg:
\* same aircraft and aerodrome, and within the window, both ends included.
Covers(q, reg, m) ==
  /\ q.registration = reg
  /\ q.icao = movement[m].aerodrome
  /\ movement[m].readingDatetime - Window <= q.requestDate
  /\ q.requestDate <= movement[m].readingDatetime + Window

\* The rows findApprovedLandingRequestMatch chooses the closest of. Only the
\* existence of a match matters to its caller.
ApprovedMatches(reg, m) ==
  {q \in Requests : /\ request[q].status = "APPROVED"
                    /\ ~request[q].deleted
                    /\ Covers(q, reg, m)}

\* The rows findOpenByMovement and resolveOpenByMovement select.
OpenEvents(m) ==
  {e \in Evaluations : event[e] = "OPEN" /\ eval[e].movement = m}

\* Some evaluation of m is between its first await and the end of its write.
Evaluating(m) ==
  \E e \in Evaluations : eval[e].movement = m /\ eval[e].pc # "done"

\* The listener starts; its payload carries the registration.
StartEvaluation(e, m, reg) ==
  /\ eval[e].pc = "idle"
  /\ eval' = [eval EXCEPT ![e] = [pc |-> "match", movement |-> m,
                                  registration |-> reg, verdict |-> "none"]]

\* One more database call of a handler of m is refused.
Fault(m) ==
  /\ faults < MaxFaults
  /\ faults' = faults + 1
  /\ raced' = raced \cup {m}

-----------------------------------------------------------------------------
(* Movements *)

\* CreateMovementService: the insert, then movement.created. A listener that
\* the rule does not concern returns before its first await.
CreateMovement(m) ==
  /\ movement[m].state = "absent"
  /\ \E reg \in Registrations, type \in {"LANDING", "TAKEOFF"},
        icao \in Aerodromes \cup {Null}, at \in Times :
       /\ movement' = [movement EXCEPT ![m] =
            [state |-> "active", registration |-> reg, operationType |-> type,
             aerodrome |-> icao, readingDatetime |-> at,
             conformityStatus |-> resolveInitialConformityStatus(type, icao)]]
       /\ IF Evaluates(type, icao)
            THEN \E e \in Evaluations : StartEvaluation(e, m, reg)
            ELSE UNCHANGED eval
  /\ UNCHANGED <<request, event, edit, raced, faults>>

\* UpdateMovementService up to its last read: `existing` is now a copy.
ReadForUpdate(d, m) ==
  /\ edit[d].pc = "idle"
  /\ movement[m].state = "active"
  /\ \E reg \in Registrations :
       edit' = [edit EXCEPT ![d] =
         [pc |-> "update", movement |-> m, to |-> reg,
          seen |-> movement[m].registration]]
  /\ raced' = IF \E o \in Edits : edit[o].pc = "update" /\ edit[o].movement = m
                THEN raced \cup {m} ELSE raced
  /\ UNCHANGED <<movement, request, event, eval, faults>>

\* Variant: the correction resets the status but requests no evaluation.
UpdateRegistrationWithoutRequest(d) ==
  LET m == edit[d].movement IN
  /\ edit[d].pc = "update"
  /\ movement[m].state = "active"
  /\ edit' = [edit EXCEPT ![d].pc = "done"]
  /\ movement' = [movement EXCEPT
       ![m].registration = edit[d].to,
       ![m].conformityStatus =
         IF edit[d].to # edit[d].seen /\ Applicable(m) THEN "PENDING" ELSE @]
  /\ UNCHANGED <<request, event, eval, raced, faults>>

\* The update and movement.conformity_requested. Whether the registration
\* changed is decided on the copy. The where clause only meets active rows.
UpdateRegistration(d) ==
  LET m == edit[d].movement
      shouldReevaluate == edit[d].to # edit[d].seen /\ Applicable(m)
  IN
  /\ edit[d].pc = "update"
  /\ movement[m].state = "active"
  /\ edit' = [edit EXCEPT ![d].pc = "done"]
  /\ movement' = [movement EXCEPT
       ![m].registration = edit[d].to,
       ![m].conformityStatus = IF shouldReevaluate THEN "PENDING" ELSE @]
  /\ IF shouldReevaluate /\ Evaluates(movement[m].operationType, movement[m].aerodrome)
       THEN \E e \in Evaluations : StartEvaluation(e, m, edit[d].to)
       ELSE UNCHANGED eval
  /\ raced' = IF Evaluating(m) THEN raced \cup {m} ELSE raced
  /\ UNCHANGED <<request, event, faults>>

\* The movement was removed after it was read: P2025, answered with an error.
UpdateFindsNoRow(d) ==
  /\ edit[d].pc = "update"
  /\ movement[edit[d].movement].state = "removed"
  /\ edit' = [edit EXCEPT ![d].pc = "done"]
  /\ UNCHANGED <<movement, request, event, eval, raced, faults>>

\* RemoveMovementService: softDelete.
RemoveMovement(m) ==
  /\ movement[m].state = "active"
  /\ movement' = [movement EXCEPT ![m].state = "removed"]
  /\ UNCHANGED <<request, event, edit, eval, raced, faults>>

-----------------------------------------------------------------------------
(* Landing requests, as far as the evaluation sees them *)

\* DecideLandingRequestService: updateIfPending.
DecideRequest(q) ==
  /\ request[q].status = "PENDING" /\ ~request[q].deleted
  /\ \E decision \in {"APPROVED", "REJECTED"} :
       request' = [request EXCEPT ![q].status = decision]
  /\ UNCHANGED <<movement, event, edit, eval, raced, faults>>

\* RemoveLandingRequestService: softDelete, whatever the decision was.
RemoveRequest(q) ==
  /\ ~request[q].deleted
  /\ request' = [request EXCEPT ![q].deleted = TRUE]
  /\ UNCHANGED <<movement, event, edit, eval, raced, faults>>

-----------------------------------------------------------------------------
(* ConformityListener.evaluate *)

FindMatch(e) ==
  /\ eval[e].pc = "match"
  /\ eval' = [eval EXCEPT ![e].pc =
       IF ApprovedMatches(eval[e].registration, eval[e].movement) # {}
         THEN "resolve" ELSE "find_open"]
  /\ UNCHANGED <<movement, request, event, edit, raced, faults>>

\* Variant: a match leaves the movement's open non-conformities as they are.
ResolveNothing(e) == event

\* resolveOpenByMovement: the table once the open events of e's movement are
\* closed.
ResolveOpenByMovement(e) ==
  [x \in Evaluations |->
     IF x \in OpenEvents(eval[e].movement) THEN "RESOLVED" ELSE event[x]]

\* Variant: the status of the landing request is emitted as the verdict.
EmitRequestStatus(e, status) ==
  eval' = [eval EXCEPT ![e].pc = "persist",
             ![e].verdict = IF status = "CONFORMANT" THEN "APPROVED" ELSE status]

\* emitResolved: movement.conformity_resolved starts the verdict write.
EmitResolved(e, status) ==
  eval' = [eval EXCEPT ![e].pc = "persist", ![e].verdict = status]

\* handleConformant
ResolveConformant(e) ==
  /\ eval[e].pc = "resolve"
  /\ event' = ResolveOpenByMovement(e)
  /\ EmitResolved(e, "CONFORMANT")
  /\ UNCHANGED <<movement, request, edit, raced, faults>>

\* Variant: the listener returns without a verdict when an event is open.
FindOpenWithoutVerdict(e) ==
  /\ eval[e].pc = "find_open"
  /\ eval' = [eval EXCEPT ![e].pc =
                IF OpenEvents(eval[e].movement) # {} THEN "done" ELSE "create"]
  /\ UNCHANGED <<movement, request, event, edit, raced, faults>>

\* handleNonConformant up to findOpenByMovement: an event that is already open
\* justifies the verdict.
FindOpen(e) ==
  /\ eval[e].pc = "find_open"
  /\ IF OpenEvents(eval[e].movement) # {}
       THEN EmitResolved(e, "NON_CONFORMANT")
       ELSE eval' = [eval EXCEPT ![e].pc = "create"]
  /\ UNCHANGED <<movement, request, event, edit, raced, faults>>

\* Variant: a failed insert is ignored and the verdict emitted all the same.
CreateEventBestEffort(e) ==
  /\ eval[e].pc = "create"
  /\ \E made \in BOOLEAN : event' = IF made THEN [event EXCEPT ![e] = "OPEN"] ELSE event
  /\ EmitResolved(e, "NON_CONFORMANT")
  /\ UNCHANGED <<movement, request, edit, raced, faults>>

\* handleNonConformant: the insert, then the verdict (and the e-mail event).
CreateEvent(e) ==
  /\ eval[e].pc = "create"
  /\ event' = [event EXCEPT ![e] = "OPEN"]
  /\ EmitResolved(e, "NON_CONFORMANT")
  /\ UNCHANGED <<movement, request, edit, raced, faults>>

\* The catch block: logged, neither rethrown nor retried. The refused call may
\* have taken effect (the answer, not the statement, is what was lost). A crash
\* of the process ends an evaluation the same way.
EvaluationFails(e) ==
  /\ eval[e].pc \in {"match", "resolve", "find_open", "create"}
  /\ eval' = [eval EXCEPT ![e].pc = "done"]
  /\ \/ UNCHANGED event
     \/ eval[e].pc = "resolve" /\ event' = ResolveOpenByMovement(e)
     \/ eval[e].pc = "create" /\ event' = [event EXCEPT ![e] = "OPEN"]
  /\ Fault(eval[e].movement)
  /\ UNCHANGED <<movement, request, edit>>

-----------------------------------------------------------------------------
(* MovementConformityListener *)

\* Variant: the write meets removed rows too.
PersistVerdictOfRemoved(e) ==
  /\ eval[e].pc = "persist"
  /\ movement' = [movement EXCEPT ![eval[e].movement].conformityStatus = eval[e].verdict]
  /\ eval' = [eval EXCEPT ![e].pc = "done"]
  /\ UNCHANGED <<request, event, edit, raced, faults>>

\* updateConformityStatus: an updateMany over active rows, silent if none.
PersistVerdict(e) ==
  LET m == eval[e].movement IN
  /\ eval[e].pc = "persist"
  /\ movement' = [movement EXCEPT ![m].conformityStatus =
                    IF movement[m].state = "active" THEN eval[e].verdict ELSE @]
  /\ eval' = [eval EXCEPT ![e].pc = "done"]
  /\ UNCHANGED <<request, event, edit, raced, faults>>

PersistFails(e) ==
  /\ eval[e].pc = "persist"
  /\ eval' = [eval EXCEPT ![e].pc = "done"]
  /\ Fault(eval[e].movement)
  /\ UNCHANGED <<movement, request, event, edit>>

-----------------------------------------------------------------------------

Handler(e) ==
  \/ FindMatch(e) \/ ResolveConformant(e) \/ FindOpen(e) \/ CreateEvent(e)
  \/ PersistVerdict(e)

Next ==
  \/ \E m \in Movements : CreateMovement(m) \/ RemoveMovement(m)
  \/ \E d \in Edits, m \in Movements : ReadForUpdate(d, m)
  \/ \E d \in Edits : UpdateRegistration(d) \/ UpdateFindsNoRow(d)
  \/ \E q \in Requests : DecideRequest(q) \/ RemoveRequest(q)
  \/ \E e \in Evaluations : Handler(e) \/ EvaluationFails(e) \/ PersistFails(e)

Spec == Init /\ [][Next]_vars

\* The event loop resumes every coroutine whose awaited call was answered.
FairSpec == Spec /\ \A e \in Evaluations : WF_vars(Handler(e))

-----------------------------------------------------------------------------
(* Properties *)

\* Whatever the interleaving and the failures, a verdict has its reason in the
\* database: CONFORMANT an approved landing request (possibly removed since)
\* covering the landing under a registration it was evaluated with, and
\* NON_CONFORMANT an operational event of that movement ("o movimento nao fica
\* marcado nao conforme sem o evento que o justifica", conformity.listener.ts).
VerdictJustified ==
  \A m \in Movements :
    /\ movement[m].conformityStatus = "CONFORMANT" =>
         \E e \in Evaluations, q \in Requests :
           /\ eval[e].movement = m
           /\ request[q].status = "APPROVED"
           /\ Covers(q, eval[e].registration, m)
    /\ movement[m].conformityStatus = "NON_CONFORMANT" =>
         \E e \in Evaluations : eval[e].movement = m /\ event[e] # "none"

\* The classification made at creation, the filter of the listener and the one
\* of the correction agree: a movement outside the rule stays NOT_APPLICABLE and
\* is never evaluated, a movement inside it is never NOT_APPLICABLE.
ApplicabilityAgrees ==
  \A m \in Movements :
    movement[m].state # "absent" =>
      /\ Applicable(m) <=> movement[m].conformityStatus # "NOT_APPLICABLE"
      /\ ~Applicable(m) => \A e \in Evaluations : eval[e].movement # m

\* Handlers of one movement that ran one after the other and did not fail leave
\* the two tables in agreement once they are done: the status is a verdict on the
\* registration the row now has, and it is NON_CONFORMANT exactly when the
\* movement has an open event, which is then the only one.
SettledVerdict ==
  \A m \in Movements \ raced :
    (movement[m].state = "active" /\ Applicable(m) /\ ~Evaluating(m)) =>
      \/ /\ movement[m].conformityStatus = "CONFORMANT"
         /\ OpenEvents(m) = {}
         /\ \E q \in Requests : /\ request[q].status = "APPROVED"
                                /\ Covers(q, movement[m].registration, m)
      \/ /\ movement[m].conformityStatus = "NON_CONFORMANT"
         /\ \E e \in Evaluations : OpenEvents(m) = {e}

\* Without failures a landing that reads PENDING has an evaluation on its way,
\* however the corrections of it and their evaluations overlap: a status reset on
\* a copy that was stale is not forgotten.
PendingIsServed ==
  faults = 0 =>
    \A m \in Movements :
      movement[m].state = "active" /\ movement[m].conformityStatus = "PENDING" => Evaluating(m)

\* A removed movement keeps the row it had: neither a correction read before the
\* removal nor a verdict that arrives after it writes to it.
RemovedRowFrozen ==
  [][\A m \in Movements :
       movement[m].state = "removed" => movement'[m] = movement[m]]_vars

\* Without failures no landing stays PENDING, whatever corrections interleave:
\* every correction that resets the status also starts an evaluation, and every
\* evaluation ends in a verdict.
PendingResolved ==
  \A m \in Movements :
    (movement[m].state = "active" /\ movement[m].conformityStatus = "PENDING")
      ~> (movement[m].state = "removed" \/ movement[m].conformityStatus \in Verdict)

(* What the documentation says and the code does not guarantee *)

\* "OperationalEvent, deduplicada por movimento" (conformity.listener.ts): a
\* movement has at most one open non-conformity.
OneOpenEvent ==
  \A e, o \in Evaluations :
    (event[e] = "OPEN" /\ event[o] = "OPEN" /\ eval[e].movement = eval[o].movement)
      => e = o

\* "Quando a matricula muda e a regra se aplica, o status volta a PENDING na mesma
\* transacao" (update-movement.service.ts).
RegistrationChangeResetsStatus ==
  [][\A m \in Movements :
       (/\ movement[m].state = "active"
        /\ Applicable(m)
        /\ movement'[m].registration # movement[m].registration)
         => movement'[m].conformityStatus = "PENDING"]_vars
=============================================================================
