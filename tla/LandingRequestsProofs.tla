------------------------ MODULE LandingRequestsProofs ------------------------
(***************************************************************************)
(* For any number of requests, calls and failures: LandingRequests         *)
(* implements RequestBook, and the audit trail agrees with the rows. The   *)
(* argument for both: the one call that found the row PENDING when it      *)
(* wrote is the only one past its update, and nobody else writes the       *)
(* status; the one removal that found the row active signed it.            *)
(***************************************************************************)
EXTENDS LandingRequests, TLAPS

\* v has decided its request.
Decided(v) == review[v].pc \in {"reread", "audit", "notify"}

DeciderOK(v) ==
  /\ review[v].pc # "idle" => request[review[v].request].status # "absent"
  /\ review[v].pc # "idle" /\ request[review[v].request].status = "PENDING" =>
       review[v].seen = "PENDING"
  /\ Decided(v) =>
       /\ request[review[v].request].status = review[v].decision
       /\ review[v].seen = "PENDING"

\* Nobody decides a request that was decided before: of the calls past the update
\* and the entries of the trail there is one per request.
DeciderInv ==
  /\ \A v \in Reviews : DeciderOK(v)
  /\ \A v, w \in Reviews :
       Decided(v) /\ Decided(w) /\ review[v].request = review[w].request => v = w

RemoverInv ==
  \A x \in Removals :
    /\ removal[x].pc = "audit" => request[removal[x].request].deletedBy = x
    /\ removal[x].pc # "idle" => request[removal[x].request].status # "absent"

\* The entry of a call is written once and as the call says.
EntryOK(a) ==
  /\ a.action = "UPDATE" =>
       /\ a.by \in Reviews
       /\ review[a.by].request = a.request
       /\ review[a.by].pc \in {"notify", "done"}
       /\ \A v \in Reviews : Decided(v) /\ review[v].request = a.request => v = a.by
       /\ request[a.request].status # "PENDING"
  /\ a.action = "DELETE" => a.by \in Removals

TrailInv == TrailMatchesRows /\ \A a \in trail : EntryOK(a)

CreationInv ==
  \A q \in Requests :
    /\ creation[q] = "audit" => q \in confirmed
    /\ creation[q] = "idle" <=> request[q].status = "absent"
    /\ request[q].status = "absent" => request[q].deletedBy = Null

IInv == TypeOK /\ DeciderInv /\ RemoverInv /\ TrailInv /\ CreationInv

-----------------------------------------------------------------------------

LEMMA InitInv == Init => IInv
<1> SUFFICES ASSUME Init PROVE IInv
  OBVIOUS
<1>1. TypeOK
  BY LandingRequestsAssumption DEF Init, TypeOK, RequestRow, Review, Removal,
     LandingRequestStatus, Decision
<1> QED
  BY <1>1 DEF Init, IInv, DeciderInv, DeciderOK, Decided, RemoverInv, TrailInv, TrailMatchesRows,
     CreationInv

-----------------------------------------------------------------------------
(* What the statements do to the rows *)

LEMMA SoftDeleteRows ==
  ASSUME TypeOK, NEW q \in Requests, NEW by \in Removals \cup {"system"}, SoftDelete(q, by)
  PROVE  /\ request' \in [Requests -> RequestRow]
         /\ request'[q].status = request[q].status /\ request'[q].deletedBy = by
         /\ \A r \in Requests : r # q => request'[r] = request[r]
<1> PICK row : row = [request[q] EXCEPT !.deletedBy = by]
  OBVIOUS
<1>1. request[q] \in RequestRow /\ request \in [Requests -> RequestRow]
  BY DEF TypeOK
<1>2. row \in RequestRow /\ row.status = request[q].status /\ row.deletedBy = by
  BY <1>1 DEF RequestRow
<1>3. request' = [request EXCEPT ![q] = row]
  BY DEF SoftDelete
<1> QED
  BY <1>1, <1>2, <1>3

LEMMA StatusRows ==
  ASSUME TypeOK, NEW q \in Requests, NEW s \in LandingRequestStatus,
         request' = [request EXCEPT ![q].status = s]
  PROVE  /\ request' \in [Requests -> RequestRow]
         /\ request'[q].status = s /\ request'[q].deletedBy = request[q].deletedBy
         /\ \A r \in Requests : r # q => request'[r] = request[r]
<1> PICK row : row = [request[q] EXCEPT !.status = s]
  OBVIOUS
<1>1. request[q] \in RequestRow /\ request \in [Requests -> RequestRow]
  BY DEF TypeOK
<1>2. row \in RequestRow /\ row.status = s /\ row.deletedBy = request[q].deletedBy
  BY <1>1 DEF RequestRow
<1>3. request' = [request EXCEPT ![q] = row]
  OBVIOUS
<1> QED
  BY <1>1, <1>2, <1>3

LEMMA ReviewGotoRows ==
  ASSUME TypeOK, NEW v \in Reviews,
         NEW pc \in {"reread", "audit", "notify", "done"}, ReviewGoto(v, pc)
  PROVE  /\ review' \in [Reviews -> Review] /\ review'[v].pc = pc
         /\ review'[v].request = review[v].request /\ review'[v].decision = review[v].decision
         /\ review'[v].seen = review[v].seen /\ review'[v].after = review[v].after
         /\ \A w \in Reviews : w # v => review'[w] = review[w]
<1> PICK row : row = [review[v] EXCEPT !.pc = pc]
  OBVIOUS
<1>1. review[v] \in Review /\ review \in [Reviews -> Review]
  BY DEF TypeOK
<1>2. /\ row \in Review /\ row.pc = pc
      /\ row.request = review[v].request /\ row.decision = review[v].decision
      /\ row.seen = review[v].seen /\ row.after = review[v].after
  BY <1>1 DEF Review
<1>3. review' = [review EXCEPT ![v] = row]
  BY DEF ReviewGoto
<1> QED
  BY <1>1, <1>2, <1>3

LEMMA RemovalGotoRows ==
  ASSUME TypeOK, NEW x \in Removals, NEW pc \in {"audit", "done"}, RemovalGoto(x, pc)
  PROVE  /\ removal' \in [Removals -> Removal] /\ removal'[x].pc = pc
         /\ removal'[x].request = removal[x].request
         /\ \A y \in Removals : y # x => removal'[y] = removal[y]
<1> PICK row : row = [removal[x] EXCEPT !.pc = pc]
  OBVIOUS
<1>1. removal[x] \in Removal /\ removal \in [Removals -> Removal]
  BY DEF TypeOK
<1>2. row \in Removal /\ row.pc = pc /\ row.request = removal[x].request
  BY <1>1 DEF Removal
<1>3. removal' = [removal EXCEPT ![x] = row]
  BY DEF RemovalGoto
<1> QED
  BY <1>1, <1>2, <1>3

\* A removal of an active row, by anyone, or none: nobody's decision changes, and
\* no row that was removed before.
LEMMA WithdrawalKeeps ==
  ASSUME IInv, NEW q \in Requests, NEW by \in Removals \cup {"system"},
         (Active(q) /\ SoftDelete(q, by)) \/ UNCHANGED request,
         UNCHANGED <<confirmed, review, trail>>
  PROVE  /\ request' \in [Requests -> RequestRow]
         /\ \A r \in Requests : request'[r].status = request[r].status
         /\ \A r \in Requests : request[r].deletedBy # Null => request'[r] = request[r]
         /\ \A r \in Requests : request[r].status = "absent" => request'[r] = request[r]
         /\ \A r \in Requests : r # q => request'[r] = request[r]
         /\ DeciderInv' /\ TrailInv'
<1> USE LandingRequestsAssumption
<1>0. TypeOK /\ DeciderInv /\ TrailInv
  BY DEF IInv
<1>1. /\ request' \in [Requests -> RequestRow]
      /\ \A r \in Requests : request'[r].status = request[r].status
      /\ \A r \in Requests : request[r].deletedBy # Null => request'[r] = request[r]
      /\ \A r \in Requests : request[r].status = "absent" => request'[r] = request[r]
      /\ \A r \in Requests : r # q => request'[r] = request[r]
  <2>1. CASE UNCHANGED request
    BY <2>1, <1>0 DEF TypeOK
  <2>2. CASE Active(q) /\ SoftDelete(q, by)
    BY <2>2, <1>0, SoftDeleteRows DEF Active
  <2> QED
    BY <2>1, <2>2
<1>2. DeciderInv'
  <2>1. \A v \in Reviews : review[v].pc # "idle" =>
          request'[review[v].request].status = request[review[v].request].status
    BY <1>0, <1>1 DEF TypeOK
  <2>2. \A v \in Reviews : DeciderOK(v)'
    BY <2>1, <1>0 DEF DeciderInv, DeciderOK, Decided
  <2> QED
    BY <2>2, <1>0 DEF DeciderInv, Decided
<1>3. \A a \in trail :
        /\ request'[a.request].status = request[a.request].status
        /\ request[a.request].deletedBy # Null => request'[a.request] = request[a.request]
  BY <1>0, <1>1 DEF TypeOK, AuditEntry
<1>4. \A a \in trail : EntryOK(a)'
  BY <1>0, <1>3 DEF TrailInv, EntryOK, Decided
<1>5. TrailMatchesRows'
  <2>1. \A a \in trail : a.action = "DELETE" => request'[a.request].deletedBy = a.by
    BY <1>0, <1>3 DEF TrailInv, TrailMatchesRows, EntryOK
  <2> QED
    BY <2>1, <1>0, <1>3 DEF TrailInv, TrailMatchesRows
<1> QED
  BY <1>1, <1>2, <1>4, <1>5 DEF TrailInv

-----------------------------------------------------------------------------
(* Creation *)

LEMMA CreateInv ==
  ASSUME IInv, NEW q \in Requests, Create(q) PROVE IInv'
<1> USE LandingRequestsAssumption DEF IInv
<1>a. /\ creation[q] = "idle" /\ request[q].status = "absent"
      /\ UNCHANGED <<confirmed, review, removal, told, trail, broken, faults>>
  BY DEF Create, CreationInv
<1>b. /\ request' \in [Requests -> RequestRow]
      /\ request'[q].status = "PENDING" /\ request'[q].deletedBy = request[q].deletedBy
      /\ \A r \in Requests : r # q => request'[r] = request[r]
      /\ creation' = [creation EXCEPT ![q] = "receipt"]
  BY DEF Create, TypeOK, RequestRow, LandingRequestStatus
<1>1. TypeOK'
  BY <1>a, <1>b DEF TypeOK
<1>2. DeciderInv'
  BY <1>a, <1>b DEF DeciderInv, DeciderOK, Decided, TypeOK
<1>3. RemoverInv'
  BY <1>a, <1>b DEF RemoverInv, TypeOK
<1>4. TrailInv'
  <2> SUFFICES ASSUME NEW a \in trail
               PROVE a.request # q \/ a.action # "UPDATE"
    BY <1>a, <1>b DEF TrailInv, TrailMatchesRows, EntryOK, Decided, TypeOK, AuditEntry
  <2> QED
    BY <1>a DEF TrailInv, TrailMatchesRows, EntryOK, TypeOK, DeciderInv, DeciderOK
<1>5. CreationInv'
  BY <1>a, <1>b DEF CreationInv, TypeOK
<1> QED
  BY <1>1, <1>2, <1>3, <1>4, <1>5

LEMMA CompensateInv ==
  ASSUME IInv, NEW q \in Requests, Compensate(q) PROVE IInv'
<1> USE LandingRequestsAssumption DEF IInv
<1>a. /\ creation[q] = "compensate" /\ creation' = [creation EXCEPT ![q] = "done"]
      /\ UNCHANGED <<confirmed, review, removal, told, trail, broken, faults>>
  BY DEF Compensate
<1>b. (Active(q) /\ SoftDelete(q, "system")) \/ UNCHANGED request
  BY DEF Compensate
<1>c. /\ request' \in [Requests -> RequestRow]
      /\ \A r \in Requests : request'[r].status = request[r].status
      /\ \A r \in Requests : request[r].deletedBy # Null => request'[r] = request[r]
      /\ \A r \in Requests : request[r].status = "absent" => request'[r] = request[r]
      /\ DeciderInv' /\ TrailInv'
  BY <1>a, <1>b, WithdrawalKeeps
<1>1. TypeOK'
  BY <1>a, <1>c DEF TypeOK
<1>3. RemoverInv'
  <2>1. \A x \in Removals : removal[x].pc # "idle" => removal[x].request \in Requests
    BY DEF TypeOK
  <2> QED
    BY <2>1, <1>a, <1>c DEF RemoverInv, TypeOK
<1>5. CreationInv'
  <2>1. request[q].status # "absent"
    BY <1>a DEF CreationInv
  <2> QED
    BY <2>1, <1>a, <1>c DEF CreationInv, TypeOK
<1> QED
  BY <1>1, <1>c, <1>3, <1>5

\* The steps of a creation that leave the request as it is.
LEMMA ReceiptInv ==
  ASSUME IInv, NEW q \in Requests,
         ReceiptSent(q) \/ ReceiptFails(q) \/ AuditCreate(q) \/ CreationBreaks(q)
  PROVE IInv'
<1> USE LandingRequestsAssumption DEF IInv
<1>a. /\ UNCHANGED <<request, review, removal, told>>
      /\ confirmed \subseteq confirmed' /\ confirmed' \subseteq confirmed \cup {q}
      /\ broken' \subseteq Requests /\ faults' \in Nat
      /\ creation[q] # "idle"
      /\ \E pc \in {"compensate", "audit", "done"} :
           creation' = [creation EXCEPT ![q] = pc] /\ (pc = "audit" => q \in confirmed')
  BY DEF ReceiptSent, ReceiptFails, AuditCreate, CreationBreaks, TypeOK
<1>b. /\ trail \subseteq trail' /\ trail' \subseteq AuditEntry
      /\ \A a \in trail' \ trail : a.action = "CREATE" /\ a.request = q /\ q \in confirmed
  <2>1. CASE UNCHANGED trail
    BY <2>1 DEF TypeOK
  <2>2. CASE AuditCreate(q)
    BY <2>2 DEF AuditCreate, Record, TypeOK, AuditEntry, LandingRequestStatus, CreationInv
  <2> QED
    BY <2>1, <2>2 DEF ReceiptSent, ReceiptFails, CreationBreaks
<1>1. TypeOK'
  BY <1>a, <1>b DEF TypeOK
<1>2. DeciderInv'
  BY <1>a DEF DeciderInv, DeciderOK, Decided
<1>3. RemoverInv'
  BY <1>a DEF RemoverInv
<1>4. TrailInv'
  BY <1>a, <1>b DEF TrailInv, TrailMatchesRows, EntryOK, Decided
<1>5. CreationInv'
  BY <1>a DEF CreationInv, TypeOK
<1> QED
  BY <1>1, <1>2, <1>3, <1>4, <1>5

-----------------------------------------------------------------------------
(* Decision *)

LEMMA DecideReadInv ==
  ASSUME IInv, NEW v \in Reviews, NEW q \in Requests, DecideRead(v, q) PROVE IInv'
<1> USE LandingRequestsAssumption DEF IInv
<1>a. /\ review[v].pc = "idle" /\ Active(q)
      /\ UNCHANGED <<request, creation, confirmed, removal, told, trail, broken, faults>>
  BY DEF DecideRead
<1>p. PICK d \in Decision :
        review' = [review EXCEPT ![v] =
          [pc |-> "update", request |-> q, decision |-> d,
           seen |-> request[q].status, after |-> Null]]
  BY DEF DecideRead
<1>c. request[q].status \in LandingRequestStatus /\ request[q].status # Null
  BY <1>a DEF Active, TypeOK, RequestRow, LandingRequestStatus, Decision
<1>b. /\ review' \in [Reviews -> Review]
      /\ review'[v] = [pc |-> "update", request |-> q, decision |-> d,
                       seen |-> request[q].status, after |-> Null]
      /\ \A w \in Reviews : w # v => review'[w] = review[w]
  BY <1>p, <1>c DEF TypeOK, Review
<1>1. TypeOK'
  BY <1>a, <1>b, <1>c DEF TypeOK
<1>2. DeciderInv'
  BY <1>a, <1>b, <1>c DEF DeciderInv, DeciderOK, Decided, Active
<1>3. RemoverInv' /\ CreationInv'
  BY <1>a DEF RemoverInv, CreationInv
<1>4. TrailInv'
  BY <1>a, <1>b DEF TrailInv, TrailMatchesRows, EntryOK, Decided
<1> QED
  BY <1>1, <1>2, <1>3, <1>4

LEMMA UpdateIfPendingInv ==
  ASSUME IInv, NEW v \in Reviews, UpdateIfPending(v) PROVE IInv'
<1> USE LandingRequestsAssumption DEF IInv
<1> PICK q : q = review[v].request
  OBVIOUS
<1>a. /\ review[v].pc = "update" /\ q \in Requests
      /\ UNCHANGED <<creation, confirmed, removal, told, trail, broken, faults>>
  BY DEF UpdateIfPending, TypeOK
<1>1. CASE request[q].status = "PENDING" /\ Active(q)
  <2>a. /\ request' = [request EXCEPT ![q].status = review[v].decision]
        /\ ReviewGoto(v, "reread")
    BY <1>1 DEF UpdateIfPending
  <2>b. /\ request' \in [Requests -> RequestRow]
        /\ request'[q].status = review[v].decision /\ review[v].decision \in Decision
        /\ request'[q].deletedBy = request[q].deletedBy
        /\ \A r \in Requests : r # q => request'[r] = request[r]
    <3>1. review[v].decision \in Decision
      BY <1>a DEF TypeOK
    <3> QED
      BY <1>a, <2>a, <3>1, StatusRows DEF LandingRequestStatus
  <2>c. /\ review' \in [Reviews -> Review]
        /\ review'[v].pc = "reread"
        /\ \A w \in Reviews : /\ review'[w].request = review[w].request
                              /\ review'[w].decision = review[w].decision
                              /\ review'[w].seen = review[w].seen
                              /\ w # v => review'[w] = review[w]
    BY <2>a, ReviewGotoRows
  <2>d. \A w \in Reviews : Decided(w) => review[w].request # q
    BY <1>1 DEF DeciderInv, DeciderOK, Decided, TypeOK, Decision
  <2>e. review[v].decision # "PENDING" /\ review[v].decision # "absent"
    BY <2>b DEF Decision
  <2>1. TypeOK'
    BY <1>a, <2>b, <2>c DEF TypeOK
  <2>2. DeciderInv'
    <3>1. DeciderOK(v)'
      <4>1. review[v].seen = "PENDING"
        BY <1>1, <1>a DEF DeciderInv, DeciderOK
      <4> QED
        BY <4>1, <1>a, <2>b, <2>c, <2>e DEF DeciderOK, Decided
    <3>2. ASSUME NEW w \in Reviews, w # v PROVE DeciderOK(w)'
      <4>1. review'[w] = review[w] /\ DeciderOK(w)
        BY <3>2, <2>c DEF DeciderInv
      <4>2. CASE review[w].request = q
        BY <4>1, <4>2, <2>b, <2>d, <2>e DEF DeciderOK, Decided
      <4>3. CASE review[w].request # q
        <5>1. review[w].pc # "idle" => request'[review[w].request] = request[review[w].request]
          BY <4>3, <2>b DEF TypeOK
        <5> QED
          BY <4>1, <5>1 DEF DeciderOK, Decided
      <4> QED
        BY <4>2, <4>3
    <3>3. ASSUME NEW w \in Reviews, NEW z \in Reviews, Decided(w)', Decided(z)',
                 review'[w].request = review'[z].request
          PROVE  w = z
      <4>1. w # v => Decided(w) /\ review[w].request # q
        BY <3>3, <2>c, <2>d DEF Decided
      <4>2. z # v => Decided(z) /\ review[z].request # q
        BY <3>3, <2>c, <2>d DEF Decided
      <4>3. review[w].request = review[z].request
        BY <3>3, <2>c
      <4> QED
        BY <4>1, <4>2, <4>3 DEF DeciderInv
    <3>4. \A w \in Reviews : DeciderOK(w)'
      BY <3>1, <3>2
    <3> QED
      BY <3>3, <3>4 DEF DeciderInv, Decided
  <2>3. RemoverInv'
    <3>1. \A x \in Removals : removal[x].pc # "idle" =>
            /\ request'[removal[x].request].deletedBy = request[removal[x].request].deletedBy
            /\ request[removal[x].request].status # "absent" =>
                 request'[removal[x].request].status # "absent"
      BY <2>b, <2>e DEF TypeOK
    <3> QED
      BY <3>1, <1>a DEF RemoverInv
  <2>4. TrailInv'
    <3>1. ASSUME NEW a \in trail, a.action = "UPDATE"
          PROVE  a.request # q /\ request'[a.request] = request[a.request]
      BY <3>1, <1>1, <2>b DEF TrailInv, EntryOK, TypeOK, AuditEntry
    <3>2. \A a \in trail : request'[a.request].deletedBy = request[a.request].deletedBy
      BY <2>b DEF TypeOK, AuditEntry
    <3>3. TrailMatchesRows'
      BY <3>1, <3>2, <1>a, <2>c DEF TrailInv, TrailMatchesRows
    <3>4. ASSUME NEW a \in trail PROVE EntryOK(a)'
      <4>1. CASE a.action = "UPDATE"
        <5>1. /\ a.by \in Reviews /\ review[a.by].request = a.request
              /\ review[a.by].pc \in {"notify", "done"}
              /\ \A w \in Reviews : Decided(w) /\ review[w].request = a.request => w = a.by
              /\ request[a.request].status # "PENDING"
          BY <4>1 DEF TrailInv, EntryOK
        <5>2. \A w \in Reviews : Decided(w)' /\ review'[w].request = a.request => w = a.by
          BY <5>1, <3>1, <4>1, <2>c DEF Decided
        <5>3. review'[a.by].request = a.request /\ review'[a.by].pc \in {"notify", "done"}
          BY <5>1, <1>a, <2>c
        <5> QED
          BY <4>1, <5>1, <5>2, <5>3, <3>1 DEF EntryOK, Decided
      <4>2. CASE a.action # "UPDATE"
        BY <4>2 DEF TrailInv, EntryOK
      <4> QED
        BY <4>1, <4>2
    <3> QED
      BY <3>3, <3>4, <1>a DEF TrailInv
  <2>5. CreationInv'
    BY <1>1, <1>a, <2>b DEF CreationInv, Decision
  <2> QED
    BY <2>1, <2>2, <2>3, <2>4, <2>5
<1>2. CASE ~(request[q].status = "PENDING" /\ Active(q))
  <2>a. ReviewGoto(v, "done") /\ UNCHANGED request
    BY <1>2 DEF UpdateIfPending
  <2>c. /\ review' \in [Reviews -> Review]
        /\ review'[v].pc = "done"
        /\ \A w \in Reviews : /\ review'[w].request = review[w].request
                              /\ review'[w].decision = review[w].decision
                              /\ review'[w].seen = review[w].seen
                              /\ w # v => review'[w] = review[w]
    BY <2>a DEF ReviewGoto, TypeOK, Review
  <2>1. TypeOK'
    BY <1>a, <2>a, <2>c DEF TypeOK
  <2>2. DeciderInv'
    BY <1>a, <2>a, <2>c DEF DeciderInv, DeciderOK, Decided
  <2>3. RemoverInv' /\ CreationInv'
    BY <1>a, <2>a DEF RemoverInv, CreationInv
  <2>4. TrailInv'
    BY <1>a, <2>a, <2>c DEF TrailInv, TrailMatchesRows, EntryOK, Decided
  <2> QED
    BY <2>1, <2>2, <2>3, <2>4
<1> QED
  BY <1>1, <1>2

\* The steps of a decision after its update.
LEMMA ReviewInv ==
  ASSUME IInv, NEW v \in Reviews,
         Reread(v) \/ AuditDecision(v) \/ AuditLost(v) \/ Notify(v) \/ ReviewBreaks(v)
  PROVE IInv'
<1> USE LandingRequestsAssumption DEF IInv
<1>a. /\ UNCHANGED <<request, creation, confirmed, removal, broken>>
      /\ faults' \in Nat
  BY DEF Reread, AuditDecision, AuditLost, Notify, ReviewBreaks, TypeOK
<1>b. /\ review' \in [Reviews -> Review]
      /\ review[v].pc # "idle"
      /\ review'[v].pc \in {"audit", "notify", "done"}
      /\ Decided(v)' => Decided(v)
      /\ review'[v].pc \in {"audit", "notify"} => review'[v].after # Null
      /\ review[v].pc \in {"notify", "done"} => review'[v].pc \in {"notify", "done"}
      /\ \A w \in Reviews : /\ review'[w].request = review[w].request
                            /\ review'[w].decision = review[w].decision
                            /\ review'[w].seen = review[w].seen
                            /\ w # v => review'[w] = review[w]
  <2>1. CASE Reread(v)
    <3>1. request[review[v].request].status \in LandingRequestStatus \/ ~Active(review[v].request)
      BY <2>1 DEF Reread, TypeOK, RequestRow, Active
    <3>2. PICK s : s = IF Active(review[v].request) THEN request[review[v].request].status
                       ELSE review[v].seen
      OBVIOUS
    <3>3. s \in LandingRequestStatus
      BY <3>1, <3>2, <2>1 DEF Reread, TypeOK, Review
    <3>4. review' = [review EXCEPT ![v].pc = "audit", ![v].after = s] /\ review[v].pc = "reread"
      BY <2>1, <3>2 DEF Reread
    <3>5. s # Null
      BY <3>3 DEF LandingRequestStatus, Decision
    <3> PICK row : row = [review[v] EXCEPT !.pc = "audit", !.after = s]
      OBVIOUS
    <3>6. /\ row \in Review /\ row.pc = "audit" /\ row.after = s
          /\ row.request = review[v].request /\ row.decision = review[v].decision
          /\ row.seen = review[v].seen
      <4>1. review[v] \in Review
        BY DEF TypeOK
      <4>2. "audit" \in {"idle", "update", "reread", "audit", "notify", "done"}
        OBVIOUS
      <4> QED
        BY <3>3, <4>1, <4>2 DEF Review
    <3>7. review' = [review EXCEPT ![v] = row]
      BY <3>4
    <3> QED
      BY <3>4, <3>5, <3>6, <3>7 DEF TypeOK, Decided
  <2>2. CASE AuditDecision(v) \/ AuditLost(v)
    <3>1. review[v].pc = "audit" /\ ReviewGoto(v, "notify")
      BY <2>2 DEF AuditDecision, AuditLost
    <3> QED
      BY <3>1, ReviewGotoRows DEF TypeOK, Decided
  <2>3. CASE Notify(v) \/ ReviewBreaks(v)
    <3>1. review[v].pc # "idle" /\ ReviewGoto(v, "done")
      BY <2>3 DEF Notify, ReviewBreaks
    <3> QED
      BY <3>1, ReviewGotoRows DEF Decided
  <2> QED
    BY <2>1, <2>2, <2>3
<1>c. told' \in [Requests -> SUBSET Decision]
  <2>1. CASE Notify(v)
    BY <2>1 DEF Notify, TypeOK
  <2> QED
    BY <2>1 DEF Reread, AuditDecision, AuditLost, ReviewBreaks, TypeOK
<1>2. DeciderInv'
  BY <1>a, <1>b DEF DeciderInv, DeciderOK, Decided
<1>3. RemoverInv' /\ CreationInv'
  BY <1>a DEF RemoverInv, CreationInv
<1>4. trail' \subseteq AuditEntry /\ TrailInv'
  <2>1. CASE UNCHANGED trail
    BY <2>1, <1>a, <1>b DEF TrailInv, TrailMatchesRows, EntryOK, Decided, TypeOK
  <2>2. CASE AuditDecision(v)
    <3> PICK q : q = review[v].request
      OBVIOUS
    <3> PICK new : new = [action |-> "UPDATE", request |-> q, by |-> v,
                          before |-> review[v].seen, after |-> review[v].after]
      OBVIOUS
    <3>1. /\ trail' = trail \cup {new} /\ review[v].pc = "audit" /\ review'[v].pc = "notify"
          /\ q \in Requests
      BY <2>2 DEF AuditDecision, Record, ReviewGoto, TypeOK
    <3>2. new \in AuditEntry
      BY <3>1 DEF TypeOK, Review, AuditEntry
    <3>3. /\ new.action = "UPDATE" /\ new.request = q /\ new.by = v
          /\ new.before = review[v].seen
      OBVIOUS
    <3>4. /\ review[v].seen = "PENDING"
          /\ request[q].status = review[v].decision /\ review[v].decision \in Decision
          /\ \A w \in Reviews : Decided(w) /\ review[w].request = q => w = v
      BY <3>1 DEF DeciderInv, DeciderOK, Decided, TypeOK
    <3>5. \A b \in trail : b.action = "UPDATE" => b.request # q
      BY <3>1 DEF TrailInv, EntryOK, Decided
    <3>6. EntryOK(new)'
      <4>1. /\ review'[v].request = q /\ review'[v].pc \in {"notify", "done"}
            /\ review'[v].decision = request'[q].status
            /\ request'[q].status # "PENDING"
        BY <3>1, <3>4, <1>a, <1>b DEF Decision
      <4>2. \A w \in Reviews : Decided(w)' /\ review'[w].request = q => w = v
        BY <3>4, <1>b DEF Decided
      <4> QED
        BY <3>3, <4>1, <4>2 DEF EntryOK, Decided
    <3>7. \A b \in trail : EntryOK(b)'
      BY <1>a, <1>b DEF TrailInv, EntryOK, Decided
    <3>8. TrailMatchesRows'
      <4> DEFINE Matches(a, t) ==
            /\ a.action = "UPDATE" =>
                 /\ a.before = "PENDING"
                 /\ a.by \in Reviews /\ review[a.by].decision = request[a.request].status
                 /\ \A b \in t : b.action = "UPDATE" /\ b.request = a.request => b = a
            /\ a.action = "DELETE" => request[a.request].deletedBy = a.by
            /\ a.action = "CREATE" => a.request \in confirmed
      <4>1. \A a \in trail : Matches(a, trail)
        BY DEF TrailInv, TrailMatchesRows
      <4>2. \A a \in trail : Matches(a, trail')
        BY <4>1, <3>1, <3>3, <3>5
      <4>3. Matches(new, trail')
        BY <3>1, <3>3, <3>4, <3>5
      <4>4. \A a \in trail' : Matches(a, trail')
        BY <4>2, <4>3, <3>1
      <4> QED
        BY <4>4, <1>a, <1>b DEF TrailMatchesRows
    <3>9. trail' \subseteq AuditEntry /\ \A a \in trail' : EntryOK(a)'
      BY <3>1, <3>2, <3>6, <3>7 DEF TypeOK, EntryOK
    <3> QED
      BY <3>8, <3>9 DEF TrailInv, EntryOK
  <2> QED
    BY <2>1, <2>2 DEF Reread, AuditLost, Notify, ReviewBreaks
<1>1. TypeOK'
  BY <1>a, <1>b, <1>c, <1>4 DEF TypeOK
<1> QED
  BY <1>1, <1>2, <1>3, <1>4

-----------------------------------------------------------------------------
(* Removal *)

LEMMA RemoveWriteInv ==
  ASSUME IInv, NEW x \in Removals, RemoveWrite(x) PROVE IInv'
<1> USE LandingRequestsAssumption DEF IInv
<1> PICK q : q = removal[x].request
  OBVIOUS
<1>a. /\ removal[x].pc = "delete" /\ q \in Requests
      /\ UNCHANGED <<creation, confirmed, review, told, trail, broken, faults>>
  BY DEF RemoveWrite, TypeOK
<1>b. (Active(q) /\ SoftDelete(q, x)) \/ UNCHANGED request
  BY DEF RemoveWrite
<1>d. /\ request' \in [Requests -> RequestRow]
      /\ \A r \in Requests : request'[r].status = request[r].status
      /\ \A r \in Requests : request[r].deletedBy # Null => request'[r] = request[r]
      /\ \A r \in Requests : request[r].status = "absent" => request'[r] = request[r]
      /\ \A r \in Requests : r # q => request'[r] = request[r]
      /\ DeciderInv' /\ TrailInv'
  BY <1>a, <1>b, WithdrawalKeeps
<1>c. /\ removal' \in [Removals -> Removal]
      /\ removal'[x].pc \in {"audit", "done"}
      /\ removal'[x].pc = "audit" => request'[q].deletedBy = x
      /\ \A y \in Removals : removal'[y].request = removal[y].request
      /\ \A y \in Removals : y # x => removal'[y] = removal[y]
  <2>1. CASE Active(q) /\ SoftDelete(q, x) /\ RemovalGoto(x, "audit")
    <3>1. request'[q].deletedBy = x
      BY <2>1, <1>a, SoftDeleteRows
    <3> QED
      BY <2>1, <3>1, RemovalGotoRows
  <2>2. CASE RemovalGoto(x, "done")
    BY <2>2, RemovalGotoRows
  <2> QED
    BY <2>1, <2>2 DEF RemoveWrite
<1>1. TypeOK'
  BY <1>a, <1>d, <1>c DEF TypeOK
<1>3. RemoverInv'
  <2>1. \A y \in Removals : removal[y].pc # "idle" =>
          /\ removal[y].request \in Requests
          /\ request[removal[y].request].status # "absent"
          /\ removal[y].pc = "audit" => request[removal[y].request].deletedBy = y
    BY DEF TypeOK, RemoverInv
  <2>2. \A y \in Removals : removal[y].pc = "audit" =>
          request'[removal[y].request] = request[removal[y].request]
    BY <2>1, <1>d
  <2> QED
    BY <2>1, <2>2, <1>a, <1>c, <1>d DEF RemoverInv
<1>5. CreationInv'
  BY <1>a, <1>d DEF CreationInv
<1> QED
  BY <1>1, <1>d, <1>3, <1>5

LEMMA RemovalInv ==
  ASSUME IInv, NEW x \in Removals,
         (\E q \in Requests : RemoveRead(x, q)) \/ AuditRemoval(x) \/ RemovalBreaks(x)
  PROVE IInv'
<1> USE LandingRequestsAssumption DEF IInv
<1>a. /\ UNCHANGED <<request, creation, confirmed, review, told, broken>>
      /\ faults' \in Nat
  BY DEF RemoveRead, AuditRemoval, RemovalBreaks, TypeOK
<1>b. /\ removal' \in [Removals -> Removal]
      /\ removal'[x].pc \in {"delete", "done"}
      /\ removal'[x].request \in Requests
      /\ request[removal'[x].request].status # "absent"
      /\ \A y \in Removals : y # x => removal'[y] = removal[y]
  <2>1. ASSUME NEW q \in Requests, RemoveRead(x, q)
        PROVE  /\ removal' = [removal EXCEPT ![x] = [pc |-> "delete", request |-> q]]
               /\ [pc |-> "delete", request |-> q] \in Removal
               /\ request[q].status # "absent"
    BY <2>1 DEF RemoveRead, Active, Removal
  <2>2. CASE \E q \in Requests : RemoveRead(x, q)
    <3>1. PICK q \in Requests : RemoveRead(x, q)
      BY <2>2
    <3>2. PICK row : row = [pc |-> "delete", request |-> q]
      OBVIOUS
    <3>3. /\ row \in Removal /\ row.pc = "delete" /\ row.request = q
          /\ request[q].status # "absent" /\ removal' = [removal EXCEPT ![x] = row]
      BY <2>1, <3>1, <3>2
    <3>4. removal \in [Removals -> Removal]
      BY DEF TypeOK
    <3> QED
      BY <3>3, <3>4
  <2>3. CASE AuditRemoval(x) \/ RemovalBreaks(x)
    <3>1. /\ RemovalGoto(x, "done") /\ removal[x].request \in Requests
          /\ request[removal[x].request].status # "absent"
      BY <2>3 DEF AuditRemoval, RemovalBreaks, TypeOK, RemoverInv
    <3> QED
      BY <3>1, RemovalGotoRows
  <2> QED
    BY <2>2, <2>3
<1>2. DeciderInv' /\ CreationInv'
  BY <1>a DEF DeciderInv, DeciderOK, Decided, CreationInv
<1>3. RemoverInv'
  BY <1>a, <1>b DEF RemoverInv
<1>4. trail' \subseteq AuditEntry /\ TrailInv'
  <2>1. CASE UNCHANGED trail
    BY <2>1, <1>a DEF TrailInv, TrailMatchesRows, EntryOK, Decided, TypeOK
  <2>2. CASE AuditRemoval(x)
    BY <2>2, <1>a DEF AuditRemoval, Record, TrailInv, TrailMatchesRows, EntryOK, Decided, TypeOK,
       AuditEntry, RemoverInv
  <2> QED
    BY <2>1, <2>2 DEF RemoveRead, RemovalBreaks
<1>1. TypeOK'
  BY <1>a, <1>b, <1>4 DEF TypeOK
<1> QED
  BY <1>1, <1>2, <1>3, <1>4

-----------------------------------------------------------------------------

\* Every step preserves the invariant.
LEMMA NextInv ==
  ASSUME IInv, [Next]_vars PROVE IInv'
<1>1. CASE UNCHANGED vars
  BY <1>1 DEF vars, IInv, TypeOK, DeciderInv, DeciderOK, Decided, RemoverInv, TrailInv,
     TrailMatchesRows, EntryOK, CreationInv
<1> QED
  BY <1>1, CreateInv, CompensateInv, ReceiptInv, DecideReadInv, UpdateIfPendingInv, ReviewInv,
     RemoveWriteInv, RemovalInv DEF Next

\* The invariant holds in every reachable state.
THEOREM RequestsInvariant == Spec => []IInv
<1>1. Init => IInv
  BY InitInv
<1>2. IInv /\ [Next]_vars => IInv'
  BY NextInv
<1> QED
  BY <1>1, <1>2, PTL DEF Spec

\* Rows, calls and entries of the trail have the values of their types.
THEOREM RequestsTypeCorrect == Spec => []TypeOK
<1>1. IInv => TypeOK
  BY DEF IInv
<1> QED
  BY <1>1, RequestsInvariant, PTL

\* What the audit trail says of decisions, removals and creations is what the rows
\* and the receipts say.
THEOREM TrailAgreesWithRows == Spec => []TrailMatchesRows
<1>1. IInv => TrailMatchesRows
  BY DEF IInv, TrailInv
<1> QED
  BY <1>1, RequestsInvariant, PTL
-----------------------------------------------------------------------------
(* Refinement *)

\* The book after a step that leaves the rows and the e-mails alone is the same.
LEMMA SameBook ==
  ASSUME UNCHANGED <<request, told>>
  PROVE  UNCHANGED <<[q \in Requests |-> request[q].status],
                     {q \in Requests : request[q].deletedBy # Null}, told>>
OBVIOUS

\* A soft delete of an active row, by anyone, is a withdrawal.
LEMMA SoftDeleteIsWithdrawal ==
  ASSUME TypeOK, NEW q \in Requests, NEW by \in Removals \cup {"system"},
         Active(q), SoftDelete(q, by), UNCHANGED told
  PROVE  Book!Withdraw(q)
<1>1. /\ request' = [request EXCEPT ![q].deletedBy = by] /\ by # Null
      /\ request[q].status # "absent" /\ told' = told
  BY LandingRequestsAssumption DEF SoftDelete, Active
<1>2. /\ \A r \in Requests : request'[r].status = request[r].status
      /\ request'[q].deletedBy = by
      /\ \A r \in Requests : r # q => request'[r].deletedBy = request[r].deletedBy
  BY <1>1 DEF TypeOK, RequestRow
<1>3. {r \in Requests : request'[r].deletedBy # Null}
        = {r \in Requests : request[r].deletedBy # Null} \cup {q}
  BY <1>1, <1>2
<1> QED
  BY <1>1, <1>2, <1>3 DEF Book!Withdraw

\* Where the request is still PENDING and active, the update decides it; elsewhere
\* nothing changes.
LEMMA UpdateIsDecision ==
  ASSUME IInv, NEW v \in Reviews, UpdateIfPending(v)
  PROVE  (\E q \in Requests : Book!Decide(q)) \/ UNCHANGED <<request, told>>
<1> PICK q : q = review[v].request
  OBVIOUS
<1>1. /\ q \in Requests /\ review[v].decision \in Decision /\ told' = told
  BY DEF UpdateIfPending, IInv, TypeOK
<1>2. CASE UNCHANGED request
  BY <1>1, <1>2
<1>3. CASE /\ request[q].status = "PENDING" /\ Active(q)
           /\ request' = [request EXCEPT ![q].status = review[v].decision]
  <2>1. /\ request'[q].status = review[v].decision
        /\ \A r \in Requests : r # q => request'[r].status = request[r].status
        /\ \A r \in Requests : request'[r].deletedBy = request[r].deletedBy
    BY <1>1, <1>3 DEF IInv, TypeOK, RequestRow
  <2>2. [r \in Requests |-> request'[r].status]
          = [[r \in Requests |-> request[r].status] EXCEPT ![q] = review[v].decision]
    BY <2>1, <1>1
  <2>3. {r \in Requests : request'[r].deletedBy # Null}
          = {r \in Requests : request[r].deletedBy # Null}
    BY <2>1
  <2>4. review[v].decision \in Book!Decision
    BY <1>1 DEF Decision, Book!Decision
  <2> QED
    BY <1>1, <1>3, <2>2, <2>3, <2>4 DEF Book!Decide, Active
<1> QED
  BY <1>2, <1>3 DEF UpdateIfPending

\* An e-mail tells the decision of the row: its sender is past the update, and
\* nobody decides after it.
LEMMA NotifyTells ==
  ASSUME IInv, NEW v \in Reviews, Notify(v)
  PROVE  (\E q \in Requests : Book!Tell(q)) \/ UNCHANGED <<request, told>>
<1> PICK q : q = review[v].request
  OBVIOUS
<1>1. /\ q \in Requests /\ review[v].decision \in Decision /\ request' = request
      /\ request[q].status = review[v].decision
  BY DEF Notify, IInv, TypeOK, DeciderInv, DeciderOK, Decided
<1>2. CASE told' = [told EXCEPT ![q] = @ \cup {review[v].decision}]
  BY <1>1, <1>2 DEF Book!Tell, Decision, Book!Decision
<1> QED
  BY <1>1, <1>2 DEF Notify

\* Every step of the service is a step of the book or leaves it alone.
LEMMA StepOfTheBook ==
  ASSUME IInv, [Next]_vars
  PROVE  \/ Book!Next
         \/ UNCHANGED <<[q \in Requests |-> request[q].status],
                        {q \in Requests : request[q].deletedBy # Null}, told>>
<1> USE DEF Book!Next
<1>1. ASSUME NEW q \in Requests, Create(q) PROVE Book!File(q)
  <2>1. /\ request[q].status = "absent" /\ told' = told
        /\ request' = [request EXCEPT ![q].status = "PENDING"]
    BY <1>1 DEF Create, IInv, CreationInv
  <2>2. /\ request'[q].status = "PENDING"
        /\ \A r \in Requests : r # q => request'[r].status = request[r].status
        /\ \A r \in Requests : request'[r].deletedBy = request[r].deletedBy
    BY <2>1 DEF IInv, TypeOK, RequestRow
  <2> QED
    BY <2>1, <2>2 DEF Book!File
<1>2. ASSUME NEW q \in Requests, Compensate(q)
      PROVE Book!Withdraw(q) \/ UNCHANGED <<request, told>>
  BY <1>2, SoftDeleteIsWithdrawal DEF Compensate, IInv
<1>3. ASSUME NEW q \in Requests,
             ReceiptSent(q) \/ ReceiptFails(q) \/ AuditCreate(q) \/ CreationBreaks(q)
      PROVE  UNCHANGED <<request, told>>
  BY <1>3 DEF ReceiptSent, ReceiptFails, AuditCreate, CreationBreaks
<1>4. ASSUME NEW v \in Reviews,
             \/ \E q \in Requests : DecideRead(v, q)
             \/ Reread(v) \/ AuditDecision(v) \/ AuditLost(v) \/ ReviewBreaks(v)
      PROVE  UNCHANGED <<request, told>>
  BY <1>4 DEF DecideRead, Reread, AuditDecision, AuditLost, ReviewBreaks
<1>5. ASSUME NEW x \in Removals, RemoveWrite(x)
      PROVE (\E q \in Requests : Book!Withdraw(q)) \/ UNCHANGED <<request, told>>
  <2>1. removal[x].request \in Requests
    BY <1>5 DEF RemoveWrite, IInv, TypeOK
  <2> QED
    BY <1>5, <2>1, SoftDeleteIsWithdrawal DEF RemoveWrite, IInv
<1>6. ASSUME NEW x \in Removals,
             (\E q \in Requests : RemoveRead(x, q)) \/ AuditRemoval(x) \/ RemovalBreaks(x)
      PROVE  UNCHANGED <<request, told>>
  BY <1>6 DEF RemoveRead, AuditRemoval, RemovalBreaks
<1>7. CASE UNCHANGED vars
  BY <1>7, SameBook DEF vars
<1>8. CASE Next
  <2>1. Book!Next \/ UNCHANGED <<request, told>>
    BY <1>8, <1>1, <1>2, <1>3, <1>4, <1>5, <1>6, UpdateIsDecision, NotifyTells DEF Next
  <2> QED
    BY <2>1, SameBook
<1> QED
  BY <1>7, <1>8

\* For any requests, calls and failures, landing-requests keeps what RequestBook
\* promises.
THEOREM RequestsImplementBook == Spec => ImplementsBook
<1>1. Init => Book!Init
  BY DEF Init, Book!Init
<1>2. IInv /\ [Next]_vars =>
        [Book!Next]_<<[q \in Requests |-> request[q].status],
                      {q \in Requests : request[q].deletedBy # Null}, told>>
  BY StepOfTheBook
<1> QED
  BY <1>1, <1>2, RequestsInvariant, PTL DEF Spec, ImplementsBook, Book!Spec
=============================================================================
