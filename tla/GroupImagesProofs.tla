------------------------- MODULE GroupImagesProofs -------------------------
(***************************************************************************)
(* For any number of uploads, removals, attempts, failures and crashes:    *)
(* the group has at most one active image, imageKey is its key, a removed  *)
(* group has none, and rows and files go together as far as the code can   *)
(* tell. Every transaction that commits has written the row of the group,  *)
(* so of two that overlap one is refused, or waits for the other. Hence    *)
(* imageKey is the slot of ImageSlot: a commit fills, clears or retires    *)
(* it, and nothing else touches it.                                        *)
(***************************************************************************)
EXTENDS GroupImages, TLAPS

Serializable(c) == c \in Uploads \cup Removals

\* A call whose row is r, whatever the others do.
Good(c, r) ==
  /\ r.pc \in {"supersede", "compensate"} => c \in Uploads
  /\ r.pc = "delete" => c \in Removals
  /\ r.pc = "images" => c \in GroupRemovals
  /\ r.pc = "sync" => Serializable(c)
  /\ r.pc \notin {"sync", "images", "commit"} => r.locks = {}
  /\ r.pc = "sync" => Group \notin r.locks
  /\ c \in GroupRemovals => r.next = Null
  /\ c \in Uploads /\ r.pc \in {"supersede", "sync", "commit"} => r.next = c
  /\ c \in Uploads /\ r.pc \in {"sync", "commit"} => r.sees \subseteq r.locks
  /\ r.pc = "delete" => r.next \in r.sees
  /\ c \in Removals /\ r.pc \in {"sync", "commit"} =>
       \E u \in r.sees \cap r.locks : r.next \in Fallback(r.sees \ {u})
  /\ r.pc \in {"images", "commit"} => Group \in r.locks

\* What it knows about the committed tables: a snapshot older than the row of the group
\* is stale, and at the commit it is not.
Knows(c, r) ==
  /\ Serializable(c) /\ r.pc \in {"supersede", "delete", "sync", "commit"} =>
       Group \in r.stale \/ r.sees = Active
  /\ Serializable(c) /\ r.pc = "commit" => Group \notin r.stale /\ ~group.deleted
  /\ c \in GroupRemovals /\ r.pc = "commit" => Active \subseteq r.locks
  /\ \A u \in Uploads : u \in r.sees \cup r.locks => image[u] # "none"

\* The file of an upload whose row is r.
Filed(u, r) ==
  /\ r.pc = "idle" => image[u] = "none" /\ u \notin store
  /\ r.pc \in {"begin", "supersede", "sync", "commit"} => image[u] = "none" /\ u \in store
  /\ r.pc = "compensate" => image[u] = "none" \/ u \in unanswered
  /\ image[u] # "none" => u \in store \cup unanswered
  /\ u \in store /\ image[u] = "none" => r.pc \notin {"idle", "done", "failed"} \/ u \in broken

GroupLocked ==
  \A c, d \in Calls : c # d /\ Group \in call[c].locks => Group \notin call[d].locks

IInv ==
  /\ TypeOK /\ GroupLocked /\ KeyIsActiveImage /\ RemovedGroupIsBare
  /\ \A c \in Calls : Good(c, call[c]) /\ Knows(c, call[c])
  /\ \A u \in Uploads : Filed(u, call[u])

-----------------------------------------------------------------------------
(* Steps of one call that leave the tables alone *)

Resting == {"idle", "begin", "compensate", "done", "failed"}

LEMMA AtRow ==
  ASSUME NEW pc \in Resting
  PROVE  /\ At(pc) \in Call
         /\ At(pc).pc = pc /\ At(pc).locks = {} /\ At(pc).sees = {} /\ At(pc).next = Null
BY GroupImagesAssumption DEF At, Call, Resting

LEMMA Retried ==
  ASSUME NEW c \in Calls, call[c] \in Call, call[c].attempt < MaxAttempts
  PROVE  LET row == [At("begin") EXCEPT !.attempt = call[c].attempt + 1]
         IN  /\ row \in Call
             /\ row.pc = "begin" /\ row.locks = {} /\ row.sees = {} /\ row.next = Null
<1> PICK n : n = call[c].attempt + 1
  OBVIOUS
<1>1. n \in 1..MaxAttempts
  BY GroupImagesAssumption DEF Call
<1>2. At("begin") \in Call /\ At("begin").pc = "begin" /\ At("begin").locks = {}
      /\ At("begin").sees = {} /\ At("begin").next = Null
  BY AtRow DEF Resting
<1>3. [At("begin") EXCEPT !.attempt = n] \in Call
      /\ [At("begin") EXCEPT !.attempt = n].pc = "begin"
      /\ [At("begin") EXCEPT !.attempt = n].locks = {}
      /\ [At("begin") EXCEPT !.attempt = n].sees = {}
      /\ [At("begin") EXCEPT !.attempt = n].next = Null
  BY <1>1, <1>2 DEF Call
<1> QED
  BY <1>3

LEMMA Quiet ==
  ASSUME IInv, NEW c \in Calls, NEW row \in Call, call' = [call EXCEPT ![c] = row],
         UNCHANGED <<group, image, unanswered>>, faults' \in Nat,
         store' \in SUBSET Uploads, broken' \in SUBSET Uploads, broken \subseteq broken',
         \A u \in Uploads : u # c => (u \in store' <=> u \in store),
         Good(c, row), Knows(c, row), c \in Uploads => Filed(c, row)',
         Group \in row.locks => \A d \in Calls \ {c} : Group \notin call[d].locks
  PROVE  IInv'
<1>1. TypeOK /\ GroupLocked /\ KeyIsActiveImage /\ RemovedGroupIsBare
  BY DEF IInv
<1>2. /\ call' \in [Calls -> Call] /\ call'[c] = row
      /\ \A d \in Calls : d # c => call'[d] = call[d]
  BY <1>1 DEF TypeOK
<1>3. TypeOK'
  BY <1>1, <1>2 DEF TypeOK
<1>4. KeyIsActiveImage' /\ RemovedGroupIsBare'
  BY <1>1 DEF KeyIsActiveImage, RemovedGroupIsBare, Active
<1>5. GroupLocked'
  BY <1>1, <1>2 DEF GroupLocked
<1>6. ASSUME NEW d \in Calls PROVE Good(d, call[d])' /\ Knows(d, call[d])'
  <2> PICK r : r = call'[d]
    OBVIOUS
  <2>1. Good(d, r) /\ Knows(d, r)
    BY <1>2 DEF IInv
  <2>2. Good(d, call[d])'
    BY <2>1 DEF Good
  <2>3. Knows(d, call[d])'
    BY <2>1 DEF Knows, Active
  <2> QED
    BY <2>2, <2>3
<1>7. ASSUME NEW u \in Uploads PROVE Filed(u, call[u])'
  <2>1. CASE u = c
    BY <2>1, <1>2 DEF Filed
  <2>2. CASE u # c
    <3>1. Filed(u, call[u]) /\ u \in Calls
      BY DEF IInv, Calls
    <3>2. call'[u] = call[u] /\ (u \in store' <=> u \in store)
      BY <2>2, <3>1, <1>2
    <3> QED
      BY <3>1, <3>2 DEF Filed
  <2> QED
    BY <2>1, <2>2
<1> QED
  BY <1>3, <1>4, <1>5, <1>6, <1>7 DEF IInv

\* A call that goes on to a state outside of a transaction.
LEMMA Leaves ==
  ASSUME IInv, NEW c \in Calls, NEW row \in Call, call' = [call EXCEPT ![c] = row],
         row.pc \in Resting, row.locks = {}, row.sees = {}, row.next = Null,
         row.pc = "compensate" => c \in Uploads,
         UNCHANGED <<group, image, unanswered>>, faults' \in Nat,
         store' \in SUBSET Uploads, broken' \in SUBSET Uploads, broken \subseteq broken',
         \A u \in Uploads : u # c => (u \in store' <=> u \in store),
         c \in Uploads => Filed(c, row)'
  PROVE  IInv'
<1>1. Good(c, row)
  BY DEF Good, Resting
<1>2. Knows(c, row)
  BY DEF Knows, Resting
<1> QED
  BY <1>1, <1>2, Quiet

\* Before its commit an upload has a file and no row.
LEMMA Uploading ==
  ASSUME IInv, NEW u \in Uploads, call[u].pc = "begin" \/ InTransaction(u)
  PROVE  image[u] = "none" /\ u \in store
<1>1. u \in Calls /\ u \notin Removals /\ u \notin GroupRemovals
  BY GroupImagesAssumption DEF Calls
<1>2. Good(u, call[u]) /\ Filed(u, call[u])
  BY <1>1 DEF IInv
<1>3. call[u].pc \in {"begin", "supersede", "sync", "commit"}
  BY <1>1, <1>2 DEF Good, InTransaction
<1> QED
  BY <1>2, <1>3 DEF Filed

\* The transaction is rolled back.
LEMMA RolledBack ==
  ASSUME IInv, NEW c \in Calls, Refused(c) \/ Fails(c),
         call[c].pc = "begin" \/ InTransaction(c),
         UNCHANGED <<group, image, store, unanswered, broken>>, faults' \in Nat
  PROVE  IInv'
<1>0. TypeOK
  BY DEF IInv
<1>1. /\ call[c] \in Call /\ store \in SUBSET Uploads /\ broken \in SUBSET Uploads
  BY <1>0 DEF TypeOK
<1>2. c \in Uploads =>
        /\ image[c] = "none" /\ c \in store
  BY Uploading
<1>3. ASSUME NEW row \in Call, call' = [call EXCEPT ![c] = row],
             row.pc = "begin" \/ row.pc = (IF c \in Uploads THEN "compensate" ELSE "failed"),
             row.locks = {}, row.sees = {}, row.next = Null
      PROVE  IInv'
  <2>1. c \in Uploads => Filed(c, row)'
    BY <1>2, <1>3 DEF Filed
  <2>2. row.pc \in Resting /\ (row.pc = "compensate" => c \in Uploads)
    BY <1>3 DEF Resting
  <2> QED
    BY <1>1, <1>3, <2>1, <2>2, Leaves
<1>4. CASE Fails(c)
  <2> PICK row : row = At(IF c \in Uploads THEN "compensate" ELSE "failed")
    OBVIOUS
  <2>1. /\ row \in Call /\ row.locks = {} /\ row.sees = {} /\ row.next = Null
        /\ row.pc = IF c \in Uploads THEN "compensate" ELSE "failed"
    BY AtRow DEF Resting
  <2>2. call' = [call EXCEPT ![c] = row]
    BY <1>4 DEF Fails, Goto
  <2> QED
    BY <1>3, <2>1, <2>2
<1>5. CASE /\ call[c].attempt < MaxAttempts
           /\ call' = [call EXCEPT ![c] = [At("begin") EXCEPT !.attempt = call[c].attempt + 1]]
  <2> PICK row : row = [At("begin") EXCEPT !.attempt = call[c].attempt + 1]
    OBVIOUS
  <2>1. row \in Call /\ row.pc = "begin" /\ row.locks = {} /\ row.sees = {} /\ row.next = Null
    BY <1>1, <1>5, Retried
  <2> QED
    BY <1>3, <1>5, <2>1
<1> QED
  BY <1>4, <1>5 DEF Refused

-----------------------------------------------------------------------------
(* The steps *)

LEMMA InitInv == Init => IInv
<1> SUFFICES ASSUME Init PROVE IInv
  OBVIOUS
<1> PICK row : row = At("idle")
  OBVIOUS
<1>1. \A c \in Calls : call[c] = row
  BY DEF Init
<1>2. row \in Call /\ row.pc = "idle" /\ row.locks = {} /\ row.sees = {} /\ row.next = Null
  BY AtRow DEF Resting
<1>3. TypeOK
  <2>1. call \in [Calls -> Call]
    BY <1>2 DEF Init
  <2> QED
    BY <2>1 DEF Init, TypeOK
<1>4. KeyIsActiveImage /\ RemovedGroupIsBare /\ GroupLocked
  BY <1>1, <1>2 DEF Init, KeyIsActiveImage, RemovedGroupIsBare, Active, GroupLocked
<1>5. \A c \in Calls : Good(c, call[c]) /\ Knows(c, call[c])
  BY <1>1, <1>2 DEF Good, Knows
<1>6. \A u \in Uploads : Filed(u, call[u])
  BY <1>1, <1>2 DEF Init, Filed, Calls
<1> QED
  BY <1>3, <1>4, <1>5, <1>6 DEF IInv

\* Steps to a state outside of a transaction that are written with Goto.
LEMMA GoesTo ==
  ASSUME IInv, NEW c \in Calls, NEW pc \in Resting, Goto(c, pc),
         pc = "compensate" => c \in Uploads,
         UNCHANGED <<group, image, unanswered>>, faults' \in Nat,
         store' \in SUBSET Uploads, broken' \in SUBSET Uploads, broken \subseteq broken',
         \A u \in Uploads : u # c => (u \in store' <=> u \in store),
         c \in Uploads => \A row : row.pc = pc => Filed(c, row)'
  PROVE  IInv'
<1> PICK row : row = At(pc)
  OBVIOUS
<1>1. row \in Call /\ row.pc = pc /\ row.locks = {} /\ row.sees = {} /\ row.next = Null
  BY AtRow
<1>2. call' = [call EXCEPT ![c] = row]
  BY DEF Goto
<1>3. c \in Uploads => Filed(c, row)'
  BY <1>1
<1> QED
  BY <1>1, <1>2, <1>3, Leaves

\* What is known of the row of a call, and how a step that goes further is shown.
LEMMA Known ==
  ASSUME IInv, NEW c \in Calls
  PROVE  /\ TypeOK /\ GroupLocked /\ KeyIsActiveImage /\ RemovedGroupIsBare
         /\ call \in [Calls -> Call] /\ call[c] \in Call
         /\ store \in SUBSET Uploads /\ broken \in SUBSET Uploads /\ faults \in Nat
         /\ Good(c, call[c]) /\ Knows(c, call[c])
         /\ c \in Uploads => Filed(c, call[c])
BY DEF IInv, TypeOK

LEMMA GoesOn ==
  ASSUME IInv, NEW c \in Calls, NEW row \in Call, call' = [call EXCEPT ![c] = row],
         UNCHANGED <<group, image, store, unanswered, broken, faults>>,
         row.pc \in {"supersede", "delete", "images", "sync", "commit"},
         call[c].pc = "begin" \/ InTransaction(c),
         Good(c, row), Knows(c, row),
         Group \in row.locks => \A d \in Calls \ {c} : Group \notin call[d].locks
  PROVE  IInv'
<1>1. /\ faults' \in Nat /\ store' \in SUBSET Uploads /\ broken' \in SUBSET Uploads
      /\ broken \subseteq broken'
      /\ \A u \in Uploads : u # c => (u \in store' <=> u \in store)
  BY Known
<1>2. ASSUME c \in Uploads PROVE Filed(c, row)'
  <2>1. image[c] = "none" /\ c \in store
    BY <1>2, Uploading
  <2> QED
    BY <2>1 DEF Filed
<1> QED
  BY <1>1, <1>2, Quiet

LEMMA StoreInv ==
  ASSUME IInv, NEW u \in Uploads, Store(u) PROVE IInv'
<1>1. u \in Calls
  BY DEF Calls
<1>2. /\ store \in SUBSET Uploads /\ broken \in SUBSET Uploads /\ faults \in Nat
      /\ image[u] = "none"
  BY <1>1, Known DEF Store, Filed
<1>3. /\ Goto(u, "begin") /\ store' = store \cup {u}
      /\ UNCHANGED <<group, image, unanswered, broken, faults>>
  BY DEF Store
<1>4. \A row : row.pc = "begin" => Filed(u, row)'
  BY <1>2, <1>3 DEF Filed
<1>5. "begin" \in Resting
  BY DEF Resting
<1> QED
  BY <1>1, <1>2, <1>3, <1>4, <1>5, GoesTo

LEMMA StoreFailsInv ==
  ASSUME IInv, NEW u \in Uploads, StoreFails(u) PROVE IInv'
<1>1. u \in Calls
  BY DEF Calls
<1>2. /\ store \in SUBSET Uploads /\ broken \in SUBSET Uploads /\ faults \in Nat
      /\ image[u] = "none"
  BY <1>1, Known DEF StoreFails, Filed
<1>3. /\ Goto(u, "failed") /\ store' \in {store, store \cup {u}}
      /\ broken' = broken \cup {u} /\ faults' = faults + 1
      /\ UNCHANGED <<group, image, unanswered>>
  BY DEF StoreFails, Fault
<1>4. \A row : row.pc = "failed" => Filed(u, row)'
  BY <1>2, <1>3 DEF Filed
<1>5. "failed" \in Resting
  BY DEF Resting
<1> QED
  BY <1>1, <1>2, <1>3, <1>4, <1>5, GoesTo

LEMMA CompensateInv ==
  ASSUME IInv, NEW u \in Uploads, Compensate(u) PROVE IInv'
<1>1. u \in Calls
  BY DEF Calls
<1>2. /\ store \in SUBSET Uploads /\ broken \in SUBSET Uploads /\ faults \in Nat
      /\ image[u] = "none" \/ u \in unanswered
  BY <1>1, Known DEF Compensate, Filed
<1>3. /\ Goto(u, "failed") /\ store' = store \ {u}
      /\ UNCHANGED <<group, image, unanswered, broken, faults>>
  BY DEF Compensate
<1>4. \A row : row.pc = "failed" => Filed(u, row)'
  BY <1>2, <1>3 DEF Filed
<1>5. "failed" \in Resting
  BY DEF Resting
<1> QED
  BY <1>1, <1>2, <1>3, <1>4, <1>5, GoesTo

LEMMA DeleteFailsInv ==
  ASSUME IInv, NEW u \in Uploads, DeleteFails(u) PROVE IInv'
<1>1. u \in Calls
  BY DEF Calls
<1>2. /\ store \in SUBSET Uploads /\ broken \in SUBSET Uploads /\ faults \in Nat
      /\ image[u] # "none" => u \in store \cup unanswered
  BY <1>1, Known DEF DeleteFails, Filed
<1>3. /\ Goto(u, "failed") /\ broken' = broken \cup {u} /\ faults' = faults + 1
      /\ UNCHANGED <<group, image, store, unanswered>>
  BY DEF DeleteFails, Fault
<1>4. \A row : row.pc = "failed" => Filed(u, row)'
  BY <1>2, <1>3 DEF Filed
<1>5. "failed" \in Resting
  BY DEF Resting
<1> QED
  BY <1>1, <1>2, <1>3, <1>4, <1>5, GoesTo

LEMMA CheckInv ==
  ASSUME IInv, NEW c \in Removals \cup GroupRemovals, Check(c) PROVE IInv'
<1>1. c \in Calls /\ c \notin Uploads
  BY GroupImagesAssumption DEF Calls
<1>2. store \in SUBSET Uploads /\ broken \in SUBSET Uploads /\ faults \in Nat
  BY <1>1, Known
<1>3. Goto(c, "begin") /\ UNCHANGED <<group, image, store, unanswered, broken, faults>>
  BY DEF Check
<1>4. "begin" \in Resting
  BY DEF Resting
<1> QED
  BY <1>1, <1>2, <1>3, <1>4, GoesTo

LEMMA InsertInv ==
  ASSUME IInv, NEW u \in Uploads, Insert(u) PROVE IInv'
<1>1. u \in Calls /\ u \notin Removals /\ u \notin GroupRemovals
  BY GroupImagesAssumption DEF Calls
<1>2. call[u] \in Call /\ call \in [Calls -> Call] /\ Good(u, call[u]) /\ Knows(u, call[u])
  BY <1>1, Known
<1>3. /\ call[u].pc = "begin"
      /\ call' = [call EXCEPT ![u].pc = "supersede", ![u].sees = Active, ![u].stale = {},
                              ![u].next = u]
      /\ UNCHANGED <<group, image, store, unanswered, broken, faults>>
  BY DEF Insert
<1> PICK row : row = [call[u] EXCEPT !.pc = "supersede", !.sees = Active, !.stale = {}, !.next = u]
  OBVIOUS
<1>4. Active \in SUBSET Uploads /\ \A x \in Active : image[x] # "none"
  BY DEF Active
<1>5. /\ row \in Call /\ row.pc = "supersede" /\ row.sees = Active /\ row.next = u
      /\ row.locks = call[u].locks
  BY <1>2, <1>4 DEF Call
<1>6. row.locks = {}
  BY <1>2, <1>3, <1>5 DEF Good
<1>7. call' = [call EXCEPT ![u] = row]
  BY <1>2, <1>3, <1>1
<1>8. Good(u, row)
  BY <1>1, <1>5, <1>6 DEF Good
<1>9. Knows(u, row)
  BY <1>1, <1>4, <1>5, <1>6 DEF Knows
<1> QED
  BY <1>1, <1>3, <1>5, <1>6, <1>7, <1>8, <1>9, GoesOn

LEMMA SupersedeInv ==
  ASSUME IInv, NEW u \in Uploads, Supersede(u) PROVE IInv'
<1>1. u \in Calls /\ u \notin Removals /\ u \notin GroupRemovals /\ Group \notin Uploads
  BY GroupImagesAssumption DEF Calls
<1>2. call[u] \in Call /\ call \in [Calls -> Call] /\ Good(u, call[u]) /\ Knows(u, call[u])
      /\ faults \in Nat
  BY <1>1, Known
<1>3. /\ call[u].pc = "supersede" /\ InTransaction(u) /\ Targets(u) = call[u].sees
      /\ UNCHANGED <<group, image, store, unanswered, broken, faults>>
  BY DEF Supersede, InTransaction, Targets
<1>4. CASE Refused(u)
  BY <1>1, <1>2, <1>3, <1>4, RolledBack
<1>5. CASE call' = [call EXCEPT ![u].pc = "sync", ![u].locks = Targets(u)]
  <2> PICK row : row = [call[u] EXCEPT !.pc = "sync", !.locks = call[u].sees]
    OBVIOUS
  <2>1. /\ row \in Call /\ row.pc = "sync" /\ row.locks = call[u].sees
        /\ row.sees = call[u].sees /\ row.stale = call[u].stale /\ row.next = call[u].next
    BY <1>2 DEF Call, Rows
  <2>2. call' = [call EXCEPT ![u] = row]
    BY <1>1, <1>2, <1>3, <1>5
  <2>3. Group \notin row.locks
    BY <1>1, <1>2, <2>1 DEF Call
  <2>4. Good(u, row)
    BY <1>1, <1>2, <1>3, <2>1, <2>3 DEF Good, Serializable
  <2>5. Knows(u, row)
    BY <1>1, <1>2, <1>3, <2>1 DEF Knows
  <2> QED
    BY <1>1, <1>3, <2>1, <2>2, <2>3, <2>4, <2>5, GoesOn
<1> QED
  BY <1>4, <1>5 DEF Supersede

LEMMA SyncInv ==
  ASSUME IInv, NEW c \in Calls, Sync(c) PROVE IInv'
<1>2. call[c] \in Call /\ call \in [Calls -> Call] /\ Good(c, call[c]) /\ Knows(c, call[c])
      /\ faults \in Nat
  BY Known
<1>3. /\ call[c].pc = "sync" /\ InTransaction(c) /\ Free(c, {Group})
      /\ UNCHANGED <<group, image, store, unanswered, broken, faults>>
  BY DEF Sync, InTransaction
<1>4. CASE Refused(c) \/ Fails(c)
  BY <1>2, <1>3, <1>4, RolledBack
<1>5. CASE /\ Group \notin call[c].stale /\ ~group.deleted
           /\ call' = [call EXCEPT ![c].pc = "commit", ![c].locks = @ \cup {Group}]
  <2> PICK row : row = [call[c] EXCEPT !.pc = "commit", !.locks = @ \cup {Group}]
    OBVIOUS
  <2>1. /\ row \in Call /\ row.pc = "commit" /\ row.locks = call[c].locks \cup {Group}
        /\ row.sees = call[c].sees /\ row.stale = call[c].stale /\ row.next = call[c].next
    BY <1>2 DEF Call, Rows
  <2>2. call' = [call EXCEPT ![c] = row]
    BY <1>2, <1>5
  <2>3. Good(c, row)
    BY <1>2, <1>3, <2>1 DEF Good
  <2>4. c \notin GroupRemovals
    BY <1>2, <1>3, GroupImagesAssumption DEF Good, Serializable
  <2>5. Knows(c, row)
    BY <1>2, <1>3, <1>5, <2>1, <2>4, GroupImagesAssumption DEF Knows
  <2>6. \A d \in Calls \ {c} : Group \notin call[d].locks
    BY <1>3 DEF Free
  <2> QED
    BY <1>3, <2>1, <2>2, <2>3, <2>5, <2>6, GoesOn
<1> QED
  BY <1>4, <1>5 DEF Sync

LEMMA FindActiveInv ==
  ASSUME IInv, NEW m \in Removals, FindActive(m) PROVE IInv'
<1>1. m \in Calls /\ m \notin Uploads /\ m \notin GroupRemovals
  BY GroupImagesAssumption DEF Calls
<1>2. call[m] \in Call /\ call \in [Calls -> Call] /\ Good(m, call[m]) /\ Knows(m, call[m])
      /\ store \in SUBSET Uploads /\ broken \in SUBSET Uploads /\ faults \in Nat
  BY <1>1, Known
<1>3. /\ call[m].pc = "begin"
      /\ UNCHANGED <<group, image, store, unanswered, broken, faults>>
  BY DEF FindActive
<1>4. CASE Goto(m, "failed")
  <2>1. "failed" \in Resting
    BY DEF Resting
  <2> QED
    BY <1>1, <1>2, <1>3, <1>4, <2>1, GoesTo
<1>5. ASSUME NEW u \in Active,
             call' = [call EXCEPT ![m].pc = "delete", ![m].sees = Active, ![m].stale = {},
                                  ![m].next = u]
      PROVE  IInv'
  <2> PICK row : row = [call[m] EXCEPT !.pc = "delete", !.sees = Active, !.stale = {}, !.next = u]
    OBVIOUS
  <2>1. Active \in SUBSET Uploads /\ u \in Uploads /\ \A x \in Active : image[x] # "none"
    BY DEF Active
  <2>2. /\ row \in Call /\ row.pc = "delete" /\ row.sees = Active /\ row.next = u
        /\ row.locks = call[m].locks
    BY <1>2, <2>1 DEF Call
  <2>3. row.locks = {}
    BY <1>2, <1>3, <2>2 DEF Good
  <2>4. call' = [call EXCEPT ![m] = row]
    BY <1>1, <1>2, <1>5
  <2>5. Good(m, row)
    BY <1>1, <2>2, <2>3 DEF Good
  <2>6. Knows(m, row)
    BY <1>1, <2>1, <2>2, <2>3 DEF Knows
  <2> QED
    BY <1>1, <1>3, <2>2, <2>3, <2>4, <2>5, <2>6, GoesOn
<1> QED
  BY <1>4, <1>5 DEF FindActive

LEMMA DeleteActiveInv ==
  ASSUME IInv, NEW m \in Removals, DeleteActive(m) PROVE IInv'
<1>1. m \in Calls /\ m \notin Uploads /\ m \notin GroupRemovals /\ Group \notin Uploads
  BY GroupImagesAssumption DEF Calls
<1>2. call[m] \in Call /\ call \in [Calls -> Call] /\ Good(m, call[m]) /\ Knows(m, call[m])
      /\ faults \in Nat
  BY <1>1, Known
<1>3. /\ call[m].pc = "delete" /\ InTransaction(m) /\ Targets(m) = {call[m].next}
      /\ UNCHANGED <<group, image, store, unanswered, broken, faults>>
  BY DEF DeleteActive, InTransaction, Targets
<1>4. CASE Refused(m)
  BY <1>1, <1>2, <1>3, <1>4, RolledBack
<1>5. ASSUME NEW next \in Fallback(call[m].sees \ Targets(m)),
             call' = [call EXCEPT ![m].pc = "sync", ![m].locks = Targets(m), ![m].next = next]
      PROVE  IInv'
  <2> PICK found : found = call[m].next
    OBVIOUS
  <2>1. /\ found \in call[m].sees /\ call[m].sees \in SUBSET Uploads
        /\ next \in Uploads \cup {Null} /\ next \in Fallback(call[m].sees \ {found})
    BY <1>2, <1>3, <1>5 DEF Good, Call, Fallback
  <2> PICK row : row = [call[m] EXCEPT !.pc = "sync", !.locks = {found}, !.next = next]
    OBVIOUS
  <2>2. /\ row \in Call /\ row.pc = "sync" /\ row.locks = {found} /\ row.next = next
        /\ row.sees = call[m].sees /\ row.stale = call[m].stale
    <3> PICK locks \in SUBSET Rows : locks = {found}
      BY <2>1 DEF Rows
    <3>1. row = [call[m] EXCEPT !.pc = "sync", !.locks = locks, !.next = next]
      OBVIOUS
    <3> QED
      BY <1>2, <2>1, <3>1 DEF Call
  <2>3. call' = [call EXCEPT ![m] = row]
    BY <1>1, <1>2, <1>3, <1>5
  <2>4. Group \notin row.locks
    BY <1>1, <2>1, <2>2
  <2>5. Good(m, row)
    <3>1. \E u \in row.sees \cap row.locks : row.next \in Fallback(row.sees \ {u})
      BY <2>1, <2>2
    <3> QED
      BY <1>1, <2>2, <2>4, <3>1 DEF Good, Serializable
  <2>6. Knows(m, row)
    BY <1>1, <1>2, <1>3, <2>1, <2>2 DEF Knows
  <2> QED
    BY <1>1, <1>3, <2>2, <2>3, <2>4, <2>5, <2>6, GoesOn
<1> QED
  BY <1>4, <1>5 DEF DeleteActive

LEMMA RemoveGroupInv ==
  ASSUME IInv, NEW g \in GroupRemovals, RemoveGroup(g) PROVE IInv'
<1>1. g \in Calls /\ g \notin Uploads /\ g \notin Removals /\ Group \notin Uploads
  BY GroupImagesAssumption DEF Calls
<1>2. call[g] \in Call /\ call \in [Calls -> Call] /\ Good(g, call[g]) /\ Knows(g, call[g])
      /\ faults \in Nat /\ GroupLocked
  BY <1>1, Known
<1>3. /\ call[g].pc \in {"begin", "images"} /\ (call[g].pc = "begin" \/ InTransaction(g))
      /\ Free(g, Targets(g))
      /\ UNCHANGED <<group, image, store, unanswered, broken, faults>>
  BY DEF RemoveGroup, InTransaction
<1>4. CASE Fails(g)
  BY <1>1, <1>2, <1>3, <1>4, RolledBack
<1>5. CASE /\ call[g].pc = "begin"
           /\ call' = [call EXCEPT ![g].pc = "images", ![g].locks = {Group}]
  <2> PICK row : row = [call[g] EXCEPT !.pc = "images", !.locks = {Group}]
    OBVIOUS
  <2>1. /\ row \in Call /\ row.pc = "images" /\ row.locks = {Group}
        /\ row.sees = call[g].sees /\ row.next = call[g].next
    BY <1>2 DEF Call, Rows
  <2>2. call' = [call EXCEPT ![g] = row]
    BY <1>1, <1>2, <1>5
  <2>3. Good(g, row)
    BY <1>1, <1>2, <2>1 DEF Good
  <2>4. Knows(g, row)
    BY <1>1, <1>2, <2>1 DEF Knows, Serializable
  <2>5. \A d \in Calls \ {g} : Group \notin call[d].locks
    <3>1. Targets(g) = {Group}
      BY <1>5 DEF Targets
    <3> QED
      BY <1>3, <3>1 DEF Free
  <2> QED
    BY <1>1, <1>3, <2>1, <2>2, <2>3, <2>4, <2>5, GoesOn
<1>6. CASE /\ call[g].pc = "images"
           /\ call' = [call EXCEPT ![g].pc = "commit", ![g].locks = @ \cup Active]
  <2>1. Active \in SUBSET Uploads /\ \A x \in Active : image[x] # "none"
    BY DEF Active
  <2> PICK row : row = [call[g] EXCEPT !.pc = "commit", !.locks = @ \cup Active]
    OBVIOUS
  <2>2. /\ row \in Call /\ row.pc = "commit" /\ row.locks = call[g].locks \cup Active
        /\ row.sees = call[g].sees /\ row.next = call[g].next
    BY <1>2, <2>1 DEF Call, Rows
  <2>3. call' = [call EXCEPT ![g] = row]
    BY <1>1, <1>2, <1>6
  <2>4. Good(g, row)
    BY <1>1, <1>2, <1>6, <2>2 DEF Good
  <2>5. Knows(g, row)
    BY <1>1, <1>2, <2>1, <2>2 DEF Knows, Serializable
  <2>6. \A d \in Calls \ {g} : Group \notin call[d].locks
    BY <1>1, <1>2, <1>6 DEF Good, GroupLocked
  <2> QED
    BY <1>1, <1>3, <2>2, <2>3, <2>4, <2>5, <2>6, GoesOn
<1> QED
  BY <1>3, <1>4, <1>5, <1>6 DEF RemoveGroup

\* A transaction about to commit writes every active image, and imageKey becomes its
\* own image or, as a removal leaves none, Null.
LEMMA AboutToCommit ==
  ASSUME IInv, NEW c \in Calls, call[c].pc = "commit"
  PROVE  /\ Active \subseteq call[c].locks
         /\ call[c].next = IF c \in Uploads THEN c ELSE Null
         /\ c \in Removals => Active # {}
<1> USE GroupImagesAssumption
<1>1. KeyIsActiveImage /\ Good(c, call[c]) /\ Knows(c, call[c])
  BY Known
<1>2. CASE c \in GroupRemovals
  BY <1>1, <1>2 DEF Good, Knows
<1>3. CASE c \in Uploads
  BY <1>1, <1>3 DEF Good, Knows, Serializable
<1>4. CASE c \in Removals
  <2>1. call[c].sees = Active
    BY <1>1, <1>4 DEF Knows, Serializable
  <2>2. PICK u \in Active \cap call[c].locks : call[c].next \in Fallback(Active \ {u})
    BY <1>1, <1>4, <2>1 DEF Good
  <2>3. Active = {u}
    BY <1>1, <2>2 DEF KeyIsActiveImage
  <2>4. call[c].next = Null
    BY <2>2, <2>3 DEF Fallback
  <2> QED
    BY <1>4, <2>2, <2>3, <2>4
<1> QED
  BY <1>2, <1>3, <1>4 DEF Calls

\* A commit. Nobody else holds the row of the group, so nobody else is about to commit,
\* and every snapshot taken before is stale from now on.
LEMMA WriteInv ==
  ASSUME IInv, NEW c \in Calls, NEW pc \in {"done", "failed", "compensate"}, Write(c, pc),
         UNCHANGED <<store, broken>>, unanswered \subseteq unanswered',
         unanswered' \in SUBSET Uploads, faults' \in Nat,
         c \in Uploads => pc = "done" \/ (pc = "compensate" /\ c \in unanswered'),
         pc = "compensate" => c \in Uploads
  PROVE  IInv'
<1> USE GroupImagesAssumption
<1>1. /\ TypeOK /\ GroupLocked /\ KeyIsActiveImage /\ RemovedGroupIsBare
      /\ call \in [Calls -> Call] /\ call[c] \in Call
      /\ Good(c, call[c]) /\ Knows(c, call[c]) /\ (c \in Uploads => Filed(c, call[c]))
  BY Known
<1>2. /\ call[c].pc = "commit"
      /\ image' = [u \in Uploads |->
           IF u = c THEN "active" ELSE IF u \in call[c].locks THEN "deleted" ELSE image[u]]
      /\ group' = [deleted |-> group.deleted \/ c \in GroupRemovals, imageKey |-> call[c].next]
      /\ call' = [d \in Calls |->
           IF d = c THEN At(pc) ELSE [call[d] EXCEPT !.stale = @ \cup call[c].locks]]
  BY DEF Write
<1> PICK locks \in SUBSET Rows : locks = call[c].locks
  BY <1>1 DEF Call
<1> PICK next \in Uploads \cup {Null} : next = call[c].next
  BY <1>1 DEF Call
<1>3. Group \in locks
  BY <1>1, <1>2 DEF Good
<1>4. /\ Active \subseteq locks
      /\ next = IF c \in Uploads THEN c ELSE Null
  BY <1>2, AboutToCommit
<1>5. \A u \in Uploads :
        image'[u] = IF u = c THEN "active" ELSE IF u \in locks THEN "deleted" ELSE image[u]
  BY <1>2
<1>6. Active' = {c} \cap Uploads
  <2>1. ASSUME NEW u \in Uploads, u # c PROVE image'[u] # "active"
    BY <2>1, <1>4, <1>5 DEF Active
  <2>2. c \in Uploads => image'[c] = "active"
    BY <1>5
  <2> QED
    BY <2>1, <2>2 DEF Active
<1>7. \A u \in Uploads : image[u] # "none" => image'[u] # "none"
  BY <1>5
<1>8. group'.imageKey = next /\ group'.deleted = (group.deleted \/ c \in GroupRemovals)
  BY <1>2
<1>9. KeyIsActiveImage'
  <2>1. CASE c \in Uploads
    BY <2>1, <1>4, <1>6, <1>8 DEF KeyIsActiveImage
  <2>2. CASE c \notin Uploads
    BY <2>2, <1>4, <1>6, <1>8 DEF KeyIsActiveImage
  <2> QED
    BY <2>1, <2>2
<1>10. RemovedGroupIsBare'
  <2>1. CASE c \in Uploads
    <3>1. ~group.deleted /\ c \notin GroupRemovals
      BY <2>1, <1>1, <1>2 DEF Knows, Serializable
    <3>2. group.deleted \in BOOLEAN
      BY <1>1 DEF TypeOK
    <3> QED
      BY <3>1, <3>2, <1>8 DEF RemovedGroupIsBare
  <2>2. CASE c \notin Uploads
    BY <2>2, <1>4, <1>6, <1>8 DEF RemovedGroupIsBare
  <2> QED
    BY <2>1, <2>2
<1> PICK row : row = At(pc)
  OBVIOUS
<1>11. row \in Call /\ row.pc = pc /\ row.locks = {} /\ row.sees = {} /\ row.next = Null
  BY AtRow DEF Resting
<1>12. call'[c] = row
  BY <1>2
<1>13. ASSUME NEW d \in Calls, d # c
       PROVE  /\ call'[d] \in Call
              /\ call'[d].pc = call[d].pc /\ call'[d].locks = call[d].locks
              /\ call'[d].sees = call[d].sees /\ call'[d].next = call[d].next
              /\ Group \in call'[d].stale
  <2>1. call'[d] = [call[d] EXCEPT !.stale = @ \cup locks]
    BY <1>2, <1>13
  <2>2. call[d] \in Call
    BY <1>1
  <2>3. call[d].stale \cup locks \in SUBSET Rows
    BY <2>2 DEF Call
  <2> QED
    BY <2>1, <2>2, <2>3, <1>3 DEF Call
<1>14. TypeOK'
  <2>1. image' \in [Uploads -> {"none", "active", "deleted"}]
    BY <1>1, <1>2 DEF TypeOK
  <2>2. group' \in [deleted : BOOLEAN, imageKey : Uploads \cup {Null}]
    <3>1. (group.deleted \/ c \in GroupRemovals) \in BOOLEAN
      BY <1>1 DEF TypeOK
    <3> QED
      BY <1>2, <3>1
  <2>3. call' \in [Calls -> Call]
    <3>1. \A d \in Calls : call'[d] \in Call
      BY <1>11, <1>12, <1>13
    <3>2. DOMAIN call' = Calls /\ call' = [d \in Calls |-> call'[d]]
      BY <1>2
    <3> QED
      BY <3>1, <3>2
  <2> QED
    BY <1>1, <2>1, <2>2, <2>3 DEF TypeOK
<1>15. GroupLocked'
  <2> SUFFICES ASSUME NEW d \in Calls, NEW e \in Calls, d # e, Group \in call'[d].locks
               PROVE  Group \notin call'[e].locks
    BY DEF GroupLocked
  <2>1. d # c /\ Group \in call[d].locks
    BY <1>11, <1>12, <1>13
  <2> QED
    BY <2>1, <1>1, <1>11, <1>12, <1>13 DEF GroupLocked
<1>16. ASSUME NEW d \in Calls PROVE Good(d, call[d])' /\ Knows(d, call[d])'
  <2>1. CASE d = c
    BY <2>1, <1>11, <1>12 DEF Good, Knows
  <2>2. CASE d # c
    <3>1. Good(d, call[d]) /\ Knows(d, call[d])
      BY DEF IInv
    <3>2. Good(d, call[d])'
      BY <2>2, <3>1, <1>13 DEF Good
    <3>3. Group \notin call[d].locks
      BY <2>2, <1>1, <1>3 DEF GroupLocked
    <3>4. call[d].pc # "commit"
      BY <3>1, <3>3 DEF Good
    <3>5. \A u \in Uploads : u \in call'[d].sees \cup call'[d].locks => image'[u] # "none"
      BY <2>2, <3>1, <1>7, <1>13 DEF Knows
    <3>6. Knows(d, call[d])'
      BY <2>2, <3>4, <3>5, <1>13 DEF Knows
    <3> QED
      BY <3>2, <3>6
  <2> QED
    BY <2>1, <2>2
<1>17. ASSUME NEW u \in Uploads PROVE Filed(u, call[u])'
  <2>1. u \in Calls /\ Filed(u, call[u])
    BY DEF IInv, Calls
  <2>2. CASE u = c
    <3>1. u \in store
      BY <2>1, <2>2, <1>2 DEF Filed
    <3>2. image'[u] = "active" /\ (pc = "done" \/ (pc = "compensate" /\ u \in unanswered'))
      BY <2>2, <1>5
    <3> QED
      BY <2>2, <3>1, <3>2, <1>11, <1>12 DEF Filed
  <2>3. CASE u # c
    <3>1. image'[u] = image[u] \/ (image[u] # "none" /\ image'[u] # "none")
      BY <2>3, <1>1, <1>5 DEF Knows
    <3>2. image'[u] = "none" <=> image[u] = "none"
      BY <3>1
    <3>3. call'[u].pc = call[u].pc
      BY <2>1, <2>3, <1>13
    <3> QED
      BY <2>1, <3>2, <3>3 DEF Filed
  <2> QED
    BY <2>2, <2>3
<1> QED
  BY <1>9, <1>10, <1>14, <1>15, <1>16, <1>17 DEF IInv

LEMMA CommitsInv ==
  ASSUME IInv, NEW c \in Calls, Commit(c) \/ CommitUnanswered(c) PROVE IInv'
<1>1. faults \in Nat /\ unanswered \in SUBSET Uploads
  BY DEF IInv, TypeOK
<1>2. CASE Commit(c)
  BY <1>1, <1>2, WriteInv DEF Commit
<1>3. CASE CommitUnanswered(c)
  <2> PICK pc \in {"failed", "compensate"} : pc = IF c \in Uploads THEN "compensate" ELSE "failed"
    OBVIOUS
  <2>1. /\ Write(c, pc) /\ unanswered' = unanswered \cup ({c} \cap Uploads)
        /\ faults' = faults + 1 /\ UNCHANGED <<store, broken>>
    BY <1>3 DEF CommitUnanswered, Fault
  <2> QED
    BY <1>1, <2>1, WriteInv
<1> QED
  BY <1>2, <1>3

LEMMA DeadlockInv ==
  ASSUME IInv, NEW c \in Calls, Deadlock(c) PROVE IInv'
<1>1. call[c].pc = "begin" \/ InTransaction(c)
  BY DEF Deadlock, WaitsFor, Targets, InTransaction
<1>2. faults \in Nat
  BY Known
<1> QED
  BY <1>1, <1>2, RolledBack DEF Deadlock

LEMMA ConflictInv ==
  ASSUME IInv, NEW c \in Calls, Conflict(c) \/ StatementFails(c) PROVE IInv'
<1>1. faults \in Nat
  BY Known
<1> QED
  BY <1>1, RolledBack DEF Conflict, StatementFails, Fault

LEMMA CrashInv ==
  ASSUME IInv, Crash PROVE IInv'
<1>1. /\ TypeOK /\ KeyIsActiveImage /\ RemovedGroupIsBare
      /\ \A c \in Calls : Good(c, call[c]) /\ Knows(c, call[c])
      /\ \A u \in Uploads : Filed(u, call[u])
  BY DEF IInv
<1>2. /\ call' = [c \in Calls |-> IF AtRest(c) THEN call[c] ELSE At("failed")]
      /\ broken' = broken \cup {u \in Uploads : ~AtRest(u)}
      /\ faults' = faults + 1 /\ UNCHANGED <<group, image, store, unanswered>>
  BY DEF Crash, Fault
<1> PICK row : row = At("failed")
  OBVIOUS
<1>3. row \in Call /\ row.pc = "failed" /\ row.locks = {} /\ row.sees = {} /\ row.next = Null
  BY AtRow DEF Resting
<1>4. \A c \in Calls : call'[c] = IF AtRest(c) THEN call[c] ELSE row
  BY <1>2
<1>5. TypeOK'
  <2>1. \A c \in Calls : (IF AtRest(c) THEN call[c] ELSE row) \in Call
    BY <1>1, <1>3 DEF TypeOK
  <2>2. call' \in [Calls -> Call]
    BY <1>2, <2>1
  <2> QED
    BY <1>1, <1>2, <2>2 DEF TypeOK
<1>6. KeyIsActiveImage' /\ RemovedGroupIsBare'
  BY <1>1, <1>2 DEF KeyIsActiveImage, RemovedGroupIsBare, Active
<1>7. \A c \in Calls : Good(c, call[c])' /\ Knows(c, call[c])' /\ call'[c].locks = {}
  <2> TAKE c \in Calls
  <2>1. CASE AtRest(c)
    <3>1. call'[c] = call[c] /\ call[c].pc \in {"idle", "done", "failed"}
      BY <2>1, <1>4 DEF AtRest
    <3>2. Good(c, call[c])' /\ call'[c].locks = {}
      BY <3>1, <1>1 DEF Good
    <3>3. Knows(c, call[c])'
      BY <3>1, <1>1, <1>2 DEF Knows, Active
    <3> QED
      BY <3>2, <3>3
  <2>2. CASE ~AtRest(c)
    BY <2>2, <1>3, <1>4 DEF Good, Knows
  <2> QED
    BY <2>1, <2>2
<1>8. GroupLocked'
  BY <1>7 DEF GroupLocked
<1>9. \A u \in Uploads : Filed(u, call[u])'
  <2> TAKE u \in Uploads
  <2>1. u \in Calls /\ Filed(u, call[u])
    BY <1>1 DEF Calls
  <2>2. CASE AtRest(u)
    BY <2>1, <2>2, <1>2, <1>4 DEF Filed
  <2>3. CASE ~AtRest(u)
    BY <2>1, <2>3, <1>2, <1>3, <1>4 DEF Filed
  <2> QED
    BY <2>2, <2>3
<1> QED
  BY <1>5, <1>6, <1>7, <1>8, <1>9 DEF IInv

LEMMA NextInv ==
  ASSUME IInv, [Next]_vars PROVE IInv'
<1>1. CASE UNCHANGED vars
  <2>1. UNCHANGED <<group, image, store, call, unanswered, broken, faults>>
    BY <1>1 DEF vars
  <2>2. TypeOK' /\ GroupLocked' /\ KeyIsActiveImage' /\ RemovedGroupIsBare'
    BY <2>1 DEF IInv, TypeOK, GroupLocked, KeyIsActiveImage, RemovedGroupIsBare, Active
  <2>3. ASSUME NEW c \in Calls PROVE Good(c, call[c])' /\ Knows(c, call[c])'
    <3>1. Good(c, call[c]) /\ Knows(c, call[c])
      BY DEF IInv
    <3>2. Good(c, call[c])'
      BY <2>1, <3>1 DEF Good
    <3>3. Knows(c, call[c])'
      BY <2>1, <3>1 DEF Knows, Active
    <3> QED
      BY <3>2, <3>3
  <2>4. \A u \in Uploads : Filed(u, call[u])'
    BY <2>1 DEF IInv, Filed
  <2> QED
    BY <2>2, <2>3, <2>4 DEF IInv
<1>2. CASE Next
  <2>1. ASSUME NEW u \in Uploads, Upload(u) PROVE IInv'
    BY <2>1, InsertInv, SupersedeInv, CompensateInv DEF Upload
  <2>2. ASSUME NEW m \in Removals, Removal(m) PROVE IInv'
    BY <2>2, FindActiveInv, DeleteActiveInv DEF Removal
  <2>3. ASSUME NEW c \in Calls, Continue(c) PROVE IInv'
    BY <2>1, <2>2, <2>3, RemoveGroupInv, SyncInv, CommitsInv, DeadlockInv DEF Continue
  <2>4. ASSUME NEW u \in Uploads, Store(u) \/ StoreFails(u) \/ DeleteFails(u) PROVE IInv'
    BY <2>4, StoreInv, StoreFailsInv, DeleteFailsInv
  <2> QED
    BY <1>2, <2>3, <2>4, CheckInv, ConflictInv, CommitsInv, CrashInv DEF Next
<1> QED
  BY <1>1, <1>2

-----------------------------------------------------------------------------
(* Theorems *)

\* The invariant holds in every reachable state.
THEOREM ImagesInvariant == Spec => []IInv
<1>1. IInv /\ [Next]_vars => IInv'
  BY NextInv
<1> QED
  BY InitInv, <1>1, PTL DEF Spec

\* Tables, files, calls and history have the values of their types; in particular no
\* upload is tried more often than MaxAttempts.
THEOREM ImagesTypeCorrect == Spec => []TypeOK
<1>1. IInv => TypeOK
  BY DEF IInv
<1> QED
  BY <1>1, ImagesInvariant, PTL

\* One active image at most, and imageKey is its key.
THEOREM OneActiveImage == Spec => []KeyIsActiveImage
<1>1. IInv => KeyIsActiveImage
  BY DEF IInv
<1> QED
  BY <1>1, ImagesInvariant, PTL

\* A removed group has no active image.
THEOREM RemovedGroupsAreBare == Spec => []RemovedGroupIsBare
<1>1. IInv => RemovedGroupIsBare
  BY DEF IInv
<1> QED
  BY <1>1, ImagesInvariant, PTL

\* Every row has its file, unless the answer to its commit was lost.
THEOREM RowsHaveFiles == Spec => []RowHasFile
<1>1. IInv => RowHasFile
  BY DEF IInv, Filed, RowHasFile
<1> QED
  BY <1>1, ImagesInvariant, PTL

\* No file is left without a row by a call that has ended and did not break off.
THEOREM NoOrphanIsLeft == Spec => []NoOrphan
<1>1. IInv => NoOrphan
  BY DEF IInv, TypeOK, Filed, NoOrphan, AtRest
<1> QED
  BY <1>1, ImagesInvariant, PTL

-----------------------------------------------------------------------------
(* The slot *)

\* The state of the slot: what imageKey shows, the rows there are, the uploads
\* answered with success.
Showing == {group.imageKey} \ {Null}
Published == {u \in Uploads : image[u] # "none"}
Succeeded == {u \in Uploads : call[u].pc = "done"}

Still == UNCHANGED <<Showing, Published, Succeeded, group.deleted>>

\* No call other than those of the action ends well, and none leaves that end.
NoneSucceeds == \A c \in Calls : call'[c].pc = "done" <=> call[c].pc = "done"

LEMMA QuietIsStill ==
  ASSUME NoneSucceeds, UNCHANGED <<group, image>>
  PROVE  Still
<1>1. Succeeded' = Succeeded
  BY DEF NoneSucceeds, Succeeded, Calls
<1>2. Showing' = Showing /\ Published' = Published /\ group'.deleted = group.deleted
  BY DEF Showing, Published
<1> QED
  BY <1>1, <1>2 DEF Still

LEMMA MovesOn ==
  ASSUME IInv, NEW c \in Calls, NEW row, row.pc # "done", call' = [call EXCEPT ![c] = row],
         call[c].pc # "done"
  PROVE  NoneSucceeds
<1>1. call \in [Calls -> Call]
  BY DEF IInv, TypeOK
<1> QED
  BY <1>1 DEF NoneSucceeds

\* Steps to a state outside of a transaction, and transactions rolled back.
LEMMA GoesQuietly ==
  ASSUME IInv, NEW c \in Calls, NEW pc \in Resting \ {"done"}, Goto(c, pc), call[c].pc # "done"
  PROVE  NoneSucceeds
<1> PICK row : row = At(pc)
  OBVIOUS
<1>1. row.pc # "done" /\ call' = [call EXCEPT ![c] = row]
  BY AtRow DEF Goto
<1> QED
  BY <1>1, MovesOn

LEMMA RefusedQuietly ==
  ASSUME IInv, NEW c \in Calls, Refused(c) \/ Fails(c), call[c].pc # "done"
  PROVE  NoneSucceeds
<1>1. call[c] \in Call
  BY Known
<1>2. CASE Fails(c)
  <2> PICK pc : pc = IF c \in Uploads THEN "compensate" ELSE "failed"
    OBVIOUS
  <2>1. pc \in Resting \ {"done"}
    BY DEF Resting
  <2>2. Goto(c, pc)
    BY <1>2 DEF Fails
  <2> QED
    BY <2>1, <2>2, GoesQuietly
<1>3. CASE /\ call[c].attempt < MaxAttempts
           /\ call' = [call EXCEPT ![c] = [At("begin") EXCEPT !.attempt = call[c].attempt + 1]]
  <2> PICK row : row = [At("begin") EXCEPT !.attempt = call[c].attempt + 1]
    OBVIOUS
  <2>1. row.pc = "begin"
    BY <1>1, <1>3, Retried
  <2> QED
    BY <1>3, <2>1, MovesOn
<1> QED
  BY <1>2, <1>3 DEF Refused

\* A statement that goes on within its transaction.
LEMMA StatementsAreQuiet ==
  ASSUME IInv, NEW c \in Calls,
         \/ Insert(c) \/ Supersede(c) \/ Sync(c) \/ FindActive(c) \/ DeleteActive(c)
         \/ RemoveGroup(c)
  PROVE  NoneSucceeds /\ UNCHANGED <<group, image>>
<1>1. call \in [Calls -> Call] /\ "failed" \in Resting \ {"done"}
  BY Known DEF Resting
<1>2. CASE Insert(c)
  BY <1>1, <1>2 DEF Insert, NoneSucceeds, Call
<1>3. CASE Supersede(c)
  <2>1. CASE Refused(c)
    BY <1>3, <2>1, RefusedQuietly DEF Supersede
  <2>2. CASE call' = [call EXCEPT ![c].pc = "sync", ![c].locks = Targets(c)]
    BY <1>1, <1>3, <2>2 DEF Supersede, NoneSucceeds, Call
  <2> QED
    BY <1>3, <2>1, <2>2 DEF Supersede
<1>4. CASE Sync(c)
  <2>1. CASE Refused(c) \/ Fails(c)
    BY <1>4, <2>1, RefusedQuietly DEF Sync
  <2>2. CASE call' = [call EXCEPT ![c].pc = "commit", ![c].locks = @ \cup {Group}]
    BY <1>1, <1>4, <2>2 DEF Sync, NoneSucceeds, Call
  <2> QED
    BY <1>4, <2>1, <2>2 DEF Sync
<1>5. CASE FindActive(c)
  <2>1. CASE Goto(c, "failed")
    BY <1>1, <1>5, <2>1, GoesQuietly DEF FindActive
  <2>2. ASSUME NEW u,
               call' = [call EXCEPT ![c].pc = "delete", ![c].sees = Active, ![c].stale = {},
                                    ![c].next = u]
        PROVE  NoneSucceeds
    <3> PICK row : row = [call[c] EXCEPT !.pc = "delete", !.sees = Active, !.stale = {},
                                         !.next = u]
      OBVIOUS
    <3>1. row.pc = "delete"
      BY <1>1 DEF Call
    <3>2. call' = [call EXCEPT ![c] = row] /\ call[c].pc = "begin"
      BY <1>1, <1>5, <2>2 DEF FindActive
    <3> QED
      BY <3>1, <3>2, MovesOn
  <2> QED
    BY <1>5, <2>1, <2>2 DEF FindActive
<1>6. CASE DeleteActive(c)
  <2>1. CASE Refused(c)
    BY <1>6, <2>1, RefusedQuietly DEF DeleteActive
  <2>2. ASSUME NEW next,
               call' = [call EXCEPT ![c].pc = "sync", ![c].locks = Targets(c), ![c].next = next]
        PROVE  NoneSucceeds
    BY <1>1, <1>6, <2>2 DEF DeleteActive, NoneSucceeds, Call
  <2> QED
    BY <1>6, <2>1, <2>2 DEF DeleteActive
<1>7. CASE RemoveGroup(c)
  <2>1. CASE Fails(c)
    BY <1>7, <2>1, RefusedQuietly DEF RemoveGroup
  <2>2. CASE call' = [call EXCEPT ![c].pc = "images", ![c].locks = {Group}]
    BY <1>1, <1>7, <2>2 DEF RemoveGroup, NoneSucceeds, Call
  <2>3. CASE call' = [call EXCEPT ![c].pc = "commit", ![c].locks = @ \cup Active]
    BY <1>1, <1>7, <2>3 DEF RemoveGroup, NoneSucceeds, Call
  <2> QED
    BY <1>7, <2>1, <2>2, <2>3 DEF RemoveGroup
<1> QED
  BY <1>2, <1>3, <1>4, <1>5, <1>6, <1>7
     DEF Insert, Supersede, Sync, FindActive, DeleteActive, RemoveGroup

\* Steps outside of transactions, and their ends other than a commit.
LEMMA EndsAreQuiet ==
  ASSUME IInv, NEW c \in Calls,
         \/ c \in Uploads /\ (Store(c) \/ StoreFails(c) \/ DeleteFails(c) \/ Compensate(c))
         \/ Check(c) \/ Deadlock(c) \/ Conflict(c) \/ StatementFails(c)
  PROVE  NoneSucceeds /\ UNCHANGED <<group, image>>
<1>1. {"begin", "failed"} \subseteq Resting \ {"done"}
  BY DEF Resting
<1>2. CASE c \in Uploads /\ Store(c)
  BY <1>1, <1>2, GoesQuietly DEF Store
<1>3. CASE c \in Uploads /\ (StoreFails(c) \/ DeleteFails(c) \/ Compensate(c))
  BY <1>1, <1>3, GoesQuietly DEF StoreFails, DeleteFails, Compensate
<1>4. CASE Check(c)
  BY <1>1, <1>4, GoesQuietly DEF Check
<1>5. CASE Deadlock(c)
  BY <1>5, RefusedQuietly DEF Deadlock, WaitsFor, Targets
<1>6. CASE Conflict(c) \/ StatementFails(c)
  BY <1>6, RefusedQuietly DEF Conflict, StatementFails, InTransaction
<1> QED
  BY <1>2, <1>3, <1>4, <1>5, <1>6

LEMMA CrashIsQuiet ==
  ASSUME Crash PROVE NoneSucceeds /\ UNCHANGED <<group, image>>
<1>1. At("failed").pc = "failed"
  BY DEF At
<1> QED
  BY <1>1 DEF Crash, NoneSucceeds, AtRest

\* A commit puts an image, clears the slot or retires it, or finds it retired.
LEMMA WriteFillsSlot ==
  ASSUME IInv, NEW c \in Calls, NEW pc \in Resting, Write(c, pc)
  PROVE  Slot!Next \/ Still
<1> USE GroupImagesAssumption
<1>1. /\ call[c].pc = "commit" /\ call \in [Calls -> Call]
      /\ KeyIsActiveImage /\ RemovedGroupIsBare /\ TypeOK
      /\ Good(c, call[c]) /\ Knows(c, call[c])
      /\ c \in Uploads => Filed(c, call[c])
  BY Known DEF Write
<1>2. /\ Active \subseteq call[c].locks
      /\ call[c].next = IF c \in Uploads THEN c ELSE Null
      /\ c \in Removals => Active # {}
  BY <1>1, AboutToCommit
<1>3. \A u \in Uploads :
        image'[u] = IF u = c THEN "active"
                    ELSE IF u \in call[c].locks THEN "deleted" ELSE image[u]
  BY DEF Write
<1>4. /\ group'.imageKey = IF c \in Uploads THEN c ELSE Null
      /\ group'.deleted = (group.deleted \/ c \in GroupRemovals)
  BY <1>2 DEF Write
<1>5. Published' = Published \cup ({c} \cap Uploads)
  <2>1. \A u \in Uploads : u \in call[c].locks => image[u] # "none"
    BY <1>1 DEF Knows
  <2> QED
    BY <2>1, <1>3 DEF Published
<1>6. Showing' = {c} \cap Uploads
  BY <1>4 DEF Showing
<1>7. /\ \A d \in Calls : d # c => call'[d].pc = call[d].pc
      /\ call'[c].pc = pc
  <2>1. At(pc).pc = pc
    BY DEF At
  <2>2. ASSUME NEW d \in Calls, d # c PROVE call'[d].pc = call[d].pc
    <3>1. call[d] \in Call /\ call'[d] = [call[d] EXCEPT !.stale = @ \cup call[c].locks]
      BY <1>1, <2>2 DEF Write
    <3> QED
      BY <3>1 DEF Call
  <2> QED
    BY <2>1, <2>2 DEF Write
<1>8. Succeeded' = IF pc = "done" THEN Succeeded \cup ({c} \cap Uploads) ELSE Succeeded
  BY <1>1, <1>7 DEF Succeeded, Calls
<1>9. CASE c \in Uploads
  <2>1. ~group.deleted /\ group'.deleted = group.deleted
    <3>1. ~group.deleted /\ group.deleted \in BOOLEAN /\ c \notin GroupRemovals
      BY <1>1, <1>9 DEF Knows, Serializable, TypeOK
    <3> QED
      BY <3>1, <1>4
  <2>2. c \notin Published
    BY <1>1, <1>9 DEF Filed, Published
  <2>3. /\ Showing' = {c} /\ Published' = Published \cup {c}
        /\ Succeeded' \in {Succeeded, Succeeded \cup {c}}
    BY <1>5, <1>6, <1>8, <1>9
  <2>4. Slot!Put(c)
    BY <2>1, <2>2, <2>3 DEF Slot!Put, Showing, Published, Succeeded
  <2> QED
    BY <1>9, <2>4 DEF Slot!Next
<1>10. CASE c \notin Uploads
  <2>1. Showing' = {} /\ Published' = Published /\ Succeeded' = Succeeded
    BY <1>5, <1>6, <1>8, <1>10
  <2>2. CASE c \in Removals
    <3>1. group'.deleted = group.deleted
      <4>1. c \notin GroupRemovals /\ group.deleted \in BOOLEAN
        BY <1>1, <2>2 DEF TypeOK
      <4> QED
        BY <4>1, <1>4
    <3>2. Showing # {}
      BY <1>1, <1>2, <2>2 DEF KeyIsActiveImage, Showing
    <3>3. Slot!Clear
      BY <2>1, <3>1, <3>2 DEF Slot!Clear, Showing, Published, Succeeded
    <3> QED
      BY <3>3 DEF Slot!Next
  <2>3. CASE c \in GroupRemovals /\ ~group.deleted
    <3>1. group'.deleted = TRUE
      BY <1>4, <2>3
    <3>2. Slot!Retire
      BY <2>1, <2>3, <3>1 DEF Slot!Retire, Showing, Published, Succeeded
    <3> QED
      BY <3>2 DEF Slot!Next
  <2>4. CASE c \in GroupRemovals /\ group.deleted
    <3>1. group'.deleted = group.deleted
      <4>1. group.deleted \in BOOLEAN
        BY <1>1 DEF TypeOK
      <4> QED
        BY <4>1, <1>4, <2>4
    <3>2. Showing = {}
      BY <1>1, <2>4 DEF RemovedGroupIsBare, Showing
    <3> QED
      BY <2>1, <3>1, <3>2 DEF Still
  <2> QED
    BY <1>10, <2>2, <2>3, <2>4 DEF Calls
<1> QED
  BY <1>9, <1>10

LEMMA StepOfTheSlot ==
  ASSUME IInv, [Next]_vars
  PROVE  Slot!Next \/ Still
<1>1. CASE UNCHANGED vars
  BY <1>1, QuietIsStill DEF vars, NoneSucceeds
<1>2. ASSUME NEW c \in Calls, Commit(c) \/ CommitUnanswered(c)
      PROVE  Slot!Next \/ Still
  <2>1. {"done", "compensate", "failed"} \subseteq Resting
    BY DEF Resting
  <2>2. CASE Commit(c)
    BY <2>1, <2>2, WriteFillsSlot DEF Commit
  <2>3. CASE CommitUnanswered(c)
    <3> PICK pc : pc = IF c \in Uploads THEN "compensate" ELSE "failed"
      OBVIOUS
    <3>1. pc \in Resting /\ Write(c, pc)
      BY <2>1, <2>3 DEF CommitUnanswered
    <3> QED
      BY <3>1, WriteFillsSlot
  <2> QED
    BY <1>2, <2>2, <2>3
<1>3. CASE Next
  <2>1. CASE Crash
    BY <2>1, CrashIsQuiet, QuietIsStill
  <2>2. ASSUME NEW c \in Calls, Continue(c), ~Commit(c) PROVE NoneSucceeds /\ UNCHANGED <<group, image>>
    BY <2>2, StatementsAreQuiet, EndsAreQuiet DEF Continue, Upload, Removal
  <2>3. ASSUME NEW u \in Uploads, Store(u) \/ StoreFails(u) \/ DeleteFails(u)
        PROVE  NoneSucceeds /\ UNCHANGED <<group, image>>
    BY <2>3, EndsAreQuiet DEF Calls
  <2>4. ASSUME NEW c \in Removals \cup GroupRemovals, Check(c)
        PROVE  NoneSucceeds /\ UNCHANGED <<group, image>>
    BY <2>4, EndsAreQuiet DEF Calls
  <2>5. ASSUME NEW c \in Calls, Conflict(c) \/ StatementFails(c)
        PROVE  NoneSucceeds /\ UNCHANGED <<group, image>>
    BY <2>5, EndsAreQuiet
  <2> QED
    BY <1>2, <1>3, <2>1, <2>2, <2>3, <2>4, <2>5, QuietIsStill DEF Next
<1> QED
  BY <1>1, <1>3

\* For any uploads, removals and failures, imageKey is the slot of ImageSlot.
THEOREM ImagesImplementSlot == Spec => ImplementsSlot
<1>1. Init => Slot!Init
  BY AtRow DEF Init, Slot!Init, Resting, Calls
<1>2. IInv /\ [Next]_vars =>
        [Slot!Next]_<<{group.imageKey} \ {Null}, {u \in Uploads : image[u] # "none"},
                      {u \in Uploads : call[u].pc = "done"}, group.deleted>>
  BY StepOfTheSlot DEF Still, Showing, Published, Succeeded
<1> QED
  BY <1>1, <1>2, ImagesInvariant, PTL DEF Spec, ImplementsSlot, Slot!Spec

-----------------------------------------------------------------------------
(* Waiting *)

Waits(c) == \E d \in Calls : WaitsFor(c, d)

\* Whenever somebody waits, a transaction has nothing to wait for, or two wait for each
\* other: the database, and Deadlock, need look for pairs only.
SomeoneGoesOn ==
  (\E c \in Calls : Waits(c)) =>
    \/ \E d \in Calls : InTransaction(d) /\ ~Waits(d)
    \/ \E d, e \in Calls : WaitsFor(d, e) /\ WaitsFor(e, d)

\* Locks are held by transactions past their first write, and the row of the group by
\* those past their last but one.
LEMMA Holders ==
  ASSUME IInv, NEW d \in Calls
  PROVE  /\ call[d].locks # {} => call[d].pc \in {"sync", "images", "commit"}
         /\ Group \in call[d].locks <=> call[d].pc \in {"images", "commit"}
BY Known DEF Good

LEMMA CommitWaitsForNobody ==
  ASSUME IInv, NEW d \in Calls, call[d].pc = "commit"
  PROVE  InTransaction(d) /\ ~Waits(d)
BY DEF InTransaction, Waits, WaitsFor, Targets

\* Who has the row of the group waits, if at all, for one that waits for that row.
LEMMA ImagesWaits ==
  ASSUME IInv, NEW d \in Calls, call[d].pc = "images", Waits(d)
  PROVE  \E e \in Calls : WaitsFor(d, e) /\ WaitsFor(e, d)
<1>1. PICK e \in Calls : WaitsFor(d, e)
  BY DEF Waits
<1>2. d # e /\ call[e].locks # {}
  BY <1>1 DEF WaitsFor
<1>3. Group \in call[d].locks
  BY Holders
<1>4. Group \notin call[e].locks
  BY <1>2, <1>3, Known DEF GroupLocked
<1>5. call[e].pc = "sync"
  BY <1>2, <1>4, Holders
<1>6. Targets(e) = {Group}
  BY <1>5 DEF Targets
<1> QED
  BY <1>1, <1>2, <1>3, <1>6 DEF WaitsFor

LEMMA SyncWaits ==
  ASSUME IInv, NEW d \in Calls, call[d].pc = "sync", Waits(d)
  PROVE  \E e \in Calls : call[e].pc \in {"images", "commit"}
<1>1. PICK e \in Calls : WaitsFor(d, e)
  BY DEF Waits
<1>2. Targets(d) = {Group}
  BY DEF Targets
<1>3. Group \in call[e].locks
  BY <1>1, <1>2 DEF WaitsFor
<1> QED
  BY <1>3, Holders

\* Nobody waits in vain.
THEOREM WaitsEnd == Spec => []SomeoneGoesOn
<1>1. IInv => SomeoneGoesOn
  <2> SUFFICES ASSUME IInv, NEW c \in Calls, Waits(c)
               PROVE  \/ \E d \in Calls : InTransaction(d) /\ ~Waits(d)
                      \/ \E d, e \in Calls : WaitsFor(d, e) /\ WaitsFor(e, d)
    BY DEF SomeoneGoesOn
  <2>1. PICK d \in Calls : call[d].locks # {}
    BY DEF Waits, WaitsFor
  <2>2. call[d].pc \in {"sync", "images", "commit"}
    BY <2>1, Holders
  <2>3. CASE \E e \in Calls : call[e].pc \in {"images", "commit"}
    BY <2>3, CommitWaitsForNobody, ImagesWaits DEF InTransaction
  <2>4. CASE call[d].pc = "sync"
    BY <2>3, <2>4, SyncWaits DEF InTransaction
  <2> QED
    BY <2>2, <2>3, <2>4
<1> QED
  BY <1>1, ImagesInvariant, PTL
=============================================================================
