--------------------------- MODULE LandingRequests ---------------------------
(***************************************************************************)
(* Module landing-requests: the public creation of a request, whose receipt*)
(* must reach the pilot or the request is deleted again, the decision of   *)
(* the staff and the removal by an administrator, with their e-mails and   *)
(* their entries in the audit trail.                                       *)
(*                                                                         *)
(* Each action is one awaited statement. Everything a call checks before   *)
(* its first write and that no other call changes (schedule, registration, *)
(* licence, scope) is left out: a refused call does nothing. The e-mail to *)
(* the staff changes nothing and nobody waits for it.                      *)
(***************************************************************************)
EXTENDS Naturals

CONSTANTS
  Requests,   \* each is created by one call (bounds their number)
  Reviews,    \* calls of DecideLandingRequestService (bounds their number)
  Removals,   \* calls of RemoveLandingRequestService (bounds their number)
  MaxFaults,  \* bound on the number of calls that break off
  Null

ASSUME LandingRequestsAssumption ==
  /\ MaxFaults \in Nat
  /\ Null \notin Requests \cup Removals \cup Reviews
  /\ Null \notin {"PENDING", "APPROVED", "REJECTED"}
  /\ "system" \notin Removals \cup {Null}

VARIABLES
  request,    \* table landing_requests
  creation,   \* where the call that creates each request is
  confirmed,  \* requests whose receipt was sent
  review,     \* decisions in progress
  removal,    \* removals in progress
  told,       \* decisions each requester was told by e-mail
  trail,      \* table audit_logs, by the call that wrote the entry
  broken,     \* history: requests whose creation broke off
  faults      \* number of calls that broke off

vars == <<request, creation, confirmed, review, removal, told, trail, broken, faults>>

Decision == {"APPROVED", "REJECTED"}
LandingRequestStatus == Decision \cup {"PENDING"}

RequestRow ==
  [status    : LandingRequestStatus \cup {"absent"},
   deletedBy : Removals \cup {"system", Null}]

\* seen and after are the status in `existing` and in `updated`.
Review ==
  [pc       : {"idle", "update", "reread", "audit", "notify", "done"},
   request  : Requests \cup {Null},
   decision : Decision \cup {Null},
   seen     : LandingRequestStatus \cup {Null},
   after    : LandingRequestStatus \cup {Null}]

Removal ==
  [pc : {"idle", "delete", "audit", "done"}, request : Requests \cup {Null}]

AuditEntry ==
  [action : {"CREATE", "UPDATE", "DELETE"},
   request : Requests,
   by     : Reviews \cup Removals \cup {Null},
   before : LandingRequestStatus \cup {Null},
   after  : LandingRequestStatus \cup {Null}]

TypeOK ==
  /\ request \in [Requests -> RequestRow]
  /\ creation \in [Requests -> {"idle", "receipt", "compensate", "audit", "done"}]
  /\ confirmed \subseteq Requests
  /\ review \in [Reviews -> Review]
  /\ \A v \in Reviews : review[v].pc # "idle" =>
       /\ review[v].request \in Requests
       /\ review[v].decision \in Decision
       /\ review[v].seen # Null
       /\ review[v].pc \in {"audit", "notify"} => review[v].after # Null
  /\ removal \in [Removals -> Removal]
  /\ \A x \in Removals : removal[x].pc # "idle" => removal[x].request \in Requests
  /\ told \in [Requests -> SUBSET Decision]
  /\ trail \subseteq AuditEntry
  /\ broken \subseteq Requests
  /\ faults \in Nat

Init ==
  /\ request = [q \in Requests |-> [status |-> "absent", deletedBy |-> Null]]
  /\ creation = [q \in Requests |-> "idle"]
  /\ confirmed = {}
  /\ review = [v \in Reviews |-> [pc |-> "idle", request |-> Null, decision |-> Null,
                                  seen |-> Null, after |-> Null]]
  /\ removal = [x \in Removals |-> [pc |-> "idle", request |-> Null]]
  /\ told = [q \in Requests |-> {}]
  /\ trail = {}
  /\ broken = {}
  /\ faults = 0

-----------------------------------------------------------------------------
(* Helpers *)

\* activeWhere
Active(q) == request[q].status # "absent" /\ request[q].deletedBy = Null

\* AuditRecorderService.record
Record(action, q, by, before, after) ==
  trail' = trail \cup
    {[action |-> action, request |-> q, by |-> by, before |-> before, after |-> after]}

\* softDelete
SoftDelete(q, by) == request' = [request EXCEPT ![q].deletedBy = by]

-----------------------------------------------------------------------------
(* CreateLandingRequestService *)

Create(q) ==
  /\ creation[q] = "idle"
  /\ request' = [request EXCEPT ![q].status = "PENDING"]
  /\ creation' = [creation EXCEPT ![q] = "receipt"]
  /\ UNCHANGED <<confirmed, review, removal, told, trail, broken, faults>>

ReceiptSent(q) ==
  /\ creation[q] = "receipt"
  /\ confirmed' = confirmed \cup {q}
  /\ creation' = [creation EXCEPT ![q] = "audit"]
  /\ UNCHANGED <<request, review, removal, told, trail, broken, faults>>

\* Variant: the answer of the mail server is ignored.
ReceiptIgnored(q) ==
  /\ creation[q] = "receipt"
  /\ creation' = [creation EXCEPT ![q] = "audit"]
  /\ UNCHANGED <<request, confirmed, review, removal, told, trail, broken, faults>>

ReceiptFails(q) ==
  /\ creation[q] = "receipt"
  /\ creation' = [creation EXCEPT ![q] = "compensate"]
  /\ UNCHANGED <<request, confirmed, review, removal, told, trail, broken, faults>>

\* Variant: deletedBy is the actor of the creation.
CompensateAsPublic(q) ==
  /\ creation[q] = "compensate"
  /\ creation' = [creation EXCEPT ![q] = "done"]
  /\ SoftDelete(q, "public")
  /\ UNCHANGED <<confirmed, review, removal, told, trail, broken, faults>>

\* compensateFailedReceipt. A request somebody removed meanwhile is not found, and
\* the error is caught.
Compensate(q) ==
  /\ creation[q] = "compensate"
  /\ creation' = [creation EXCEPT ![q] = "done"]
  /\ \/ Active(q) /\ SoftDelete(q, "system")
     \/ ~Active(q) /\ UNCHANGED request
  /\ UNCHANGED <<confirmed, review, removal, told, trail, broken, faults>>

AuditCreate(q) ==
  /\ creation[q] = "audit"
  /\ Record("CREATE", q, Null, Null, "PENDING")
  /\ creation' = [creation EXCEPT ![q] = "done"]
  /\ UNCHANGED <<request, confirmed, review, removal, told, broken, faults>>

\* The process ends, or the compensating delete or the audit fails (both caught).
CreationBreaks(q) ==
  /\ creation[q] \notin {"idle", "done"}
  /\ faults < MaxFaults
  /\ faults' = faults + 1
  /\ broken' = broken \cup {q}
  /\ creation' = [creation EXCEPT ![q] = "done"]
  /\ UNCHANGED <<request, confirmed, review, removal, told, trail>>

-----------------------------------------------------------------------------
(* DecideLandingRequestService *)

ReviewGoto(v, pc) == review' = [review EXCEPT ![v].pc = pc]

DecideRead(v, q) ==
  /\ review[v].pc = "idle" /\ Active(q)
  /\ \E d \in Decision :
       review' = [review EXCEPT ![v] =
         [pc |-> "update", request |-> q, decision |-> d,
          seen |-> request[q].status, after |-> Null]]
  /\ UNCHANGED <<request, creation, confirmed, removal, told, trail, broken, faults>>

\* Variant: the status is compared in the copy read before.
UpdateIfSeenPending(v) ==
  LET q == review[v].request IN
  /\ review[v].pc = "update"
  /\ \/ /\ review[v].seen = "PENDING" /\ Active(q)
        /\ request' = [request EXCEPT ![q].status = review[v].decision]
        /\ ReviewGoto(v, "reread")
     \/ /\ ~(review[v].seen = "PENDING" /\ Active(q))
        /\ ReviewGoto(v, "done")
        /\ UNCHANGED request
  /\ UNCHANGED <<creation, confirmed, removal, told, trail, broken, faults>>

\* updateIfPending; 409 when no row was updated.
UpdateIfPending(v) ==
  LET q == review[v].request IN
  /\ review[v].pc = "update"
  /\ \/ /\ request[q].status = "PENDING" /\ Active(q)
        /\ request' = [request EXCEPT ![q].status = review[v].decision]
        /\ ReviewGoto(v, "reread")
     \/ /\ ~(request[q].status = "PENDING" /\ Active(q))
        /\ ReviewGoto(v, "done")
        /\ UNCHANGED request
  /\ UNCHANGED <<creation, confirmed, removal, told, trail, broken, faults>>

\* findById, or the first copy if the request was removed meanwhile.
Reread(v) ==
  LET q == review[v].request IN
  /\ review[v].pc = "reread"
  /\ review' = [review EXCEPT ![v].pc = "audit",
       ![v].after = IF Active(q) THEN request[q].status ELSE review[v].seen]
  /\ UNCHANGED <<request, creation, confirmed, removal, told, trail, broken, faults>>

AuditDecision(v) ==
  /\ review[v].pc = "audit"
  /\ Record("UPDATE", review[v].request, v, review[v].seen, review[v].after)
  /\ ReviewGoto(v, "notify")
  /\ UNCHANGED <<request, creation, confirmed, removal, told, broken, faults>>

\* record swallows the error of the database.
AuditLost(v) ==
  /\ review[v].pc = "audit"
  /\ faults < MaxFaults
  /\ faults' = faults + 1
  /\ ReviewGoto(v, "notify")
  /\ UNCHANGED <<request, creation, confirmed, removal, told, trail, broken>>

\* notifyRequester; an e-mail that cannot be sent is ignored.
Notify(v) ==
  /\ review[v].pc = "notify"
  /\ \/ told' = [told EXCEPT ![review[v].request] = @ \cup {review[v].decision}]
     \/ UNCHANGED told
  /\ ReviewGoto(v, "done")
  /\ UNCHANGED <<request, creation, confirmed, removal, trail, broken, faults>>

ReviewBreaks(v) ==
  /\ review[v].pc \notin {"idle", "done"}
  /\ faults < MaxFaults
  /\ faults' = faults + 1
  /\ ReviewGoto(v, "done")
  /\ UNCHANGED <<request, creation, confirmed, removal, told, trail, broken>>

-----------------------------------------------------------------------------
(* RemoveLandingRequestService *)

RemovalGoto(x, pc) == removal' = [removal EXCEPT ![x].pc = pc]

RemoveRead(x, q) ==
  /\ removal[x].pc = "idle" /\ Active(q)
  /\ removal' = [removal EXCEPT ![x] = [pc |-> "delete", request |-> q]]
  /\ UNCHANGED <<request, creation, confirmed, review, told, trail, broken, faults>>

\* Variant: a request that was removed already is removed again.
RemoveAgain(x) ==
  /\ removal[x].pc = "delete"
  /\ SoftDelete(removal[x].request, x)
  /\ RemovalGoto(x, "audit")
  /\ UNCHANGED <<creation, confirmed, review, told, trail, broken, faults>>

\* softDelete finds active rows only; otherwise it throws.
RemoveWrite(x) ==
  LET q == removal[x].request IN
  /\ removal[x].pc = "delete"
  /\ \/ Active(q) /\ SoftDelete(q, x) /\ RemovalGoto(x, "audit")
     \/ ~Active(q) /\ UNCHANGED request /\ RemovalGoto(x, "done")
  /\ UNCHANGED <<creation, confirmed, review, told, trail, broken, faults>>

\* The snapshot `before` is of the copy read first; only who and what matters here.
AuditRemoval(x) ==
  /\ removal[x].pc = "audit"
  /\ Record("DELETE", removal[x].request, x, Null, Null)
  /\ RemovalGoto(x, "done")
  /\ UNCHANGED <<request, creation, confirmed, review, told, broken, faults>>

RemovalBreaks(x) ==
  /\ removal[x].pc \notin {"idle", "done"}
  /\ faults < MaxFaults
  /\ faults' = faults + 1
  /\ RemovalGoto(x, "done")
  /\ UNCHANGED <<request, creation, confirmed, review, told, trail, broken>>

-----------------------------------------------------------------------------

Next ==
  \/ \E q \in Requests :
       \/ Create(q) \/ ReceiptSent(q) \/ ReceiptFails(q) \/ Compensate(q)
       \/ AuditCreate(q) \/ CreationBreaks(q)
  \/ \E v \in Reviews :
       \/ \E q \in Requests : DecideRead(v, q)
       \/ UpdateIfPending(v) \/ Reread(v) \/ AuditDecision(v) \/ AuditLost(v)
       \/ Notify(v) \/ ReviewBreaks(v)
  \/ \E x \in Removals :
       \/ \E q \in Requests : RemoveRead(x, q)
       \/ RemoveWrite(x) \/ AuditRemoval(x) \/ RemovalBreaks(x)

Spec == Init /\ [][Next]_vars

\* The answer of the mail server (or its timeout) and of the database arrives, and
\* the event loop resumes the creation that awaits it.
FairSpec ==
  /\ Spec
  /\ \A q \in Requests : WF_vars(ReceiptSent(q) \/ ReceiptFails(q) \/ Compensate(q))

-----------------------------------------------------------------------------
(* Properties *)

Book == INSTANCE RequestBook WITH
  status <- [q \in Requests |-> request[q].status],
  withdrawn <- {q \in Requests : request[q].deletedBy # Null}

\* Whoever creates, decides, removes and compensates at the same time, the requests
\* are the book of RequestBook: "travamos a re-decisao com 409"
\* (decide-landing-request.service.ts), and e-mails tell the decision that stands.
ImplementsBook == Book!Spec

\* The audit trail agrees with the rows: at most one decision per request, made from
\* PENDING and the one the row has, also after a removal; a removal by the one call
\* that removed the row; a creation only of a request whose receipt was sent ("um
\* create compensado nao deve deixar um CREATE orfao na trilha",
\* create-landing-request.service.ts).
TrailMatchesRows ==
  \A a \in trail :
    /\ a.action = "UPDATE" =>
         /\ a.before = "PENDING"
         /\ a.by \in Reviews /\ review[a.by].decision = request[a.request].status
         /\ \A b \in trail : b.action = "UPDATE" /\ b.request = a.request => b = a
    /\ a.action = "DELETE" => request[a.request].deletedBy = a.by
    /\ a.action = "CREATE" => a.request \in confirmed

\* A request whose receipt could not be sent does not stay ("a solicitacao nao fica
\* orfa sem confirmacao ao piloto"), unless its creation broke off.
ReceiptOrRemoval ==
  \A q \in Requests : Active(q) ~> q \in confirmed \cup broken \/ ~Active(q)

\* "A auditoria registra a transicao (UPDATE)" (decide-landing-request.service.ts):
\* the entry of a decision shows the status it led to.
TrailShowsTransition ==
  \A a \in trail : a.action = "UPDATE" => a.after = review[a.by].decision
=============================================================================
