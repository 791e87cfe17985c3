----------------------------- MODULE StoredFiles -----------------------------
(***************************************************************************)
(* Files that a row of the database refers to: the documents of an         *)
(* aerodrome (module documents), the image of a movement and those of a    *)
(* technical visit. A call stores its file, then inserts its row, and      *)
(* deletes the file again when the insert is answered with an error.       *)
(*                                                                         *)
(* The dedicated upload of an aerodrome keeps one active document per      *)
(* type: a SERIALIZABLE transaction inserts the new row and soft-deletes   *)
(* the active ones. After the upload of a KML the map of the aerodrome is  *)
(* derived from it (module geojsons), best effort and outside of the       *)
(* transaction.                                                            *)
(*                                                                         *)
(* The transaction is two steps here, its snapshot and its commit. The     *)
(* locks it takes in between make others wait, which is the order in which *)
(* they come after the commit; a deadlock is one more reason to refuse it. *)
(***************************************************************************)
EXTENDS Naturals

CONSTANTS
  Uploads,      \* calls of UploadAerodromeFileService; also their files and rows
  Inserts,      \* calls that insert one row on its own; also their files and rows
  Types,        \* DocumentType
  Kml,          \* the type a map is derived from
  MaxAttempts,  \* SERIALIZATION_MAX_ATTEMPTS
  MaxFaults,    \* bound on failures and crashes
  Null

Files == Uploads \cup Inserts

\* What the file of a call is: a document of some type, or another image.
Kinds == Types \cup {"movement", "visit_image"}

ASSUME StoredFilesAssumption ==
  /\ Uploads \cap Inserts = {}
  /\ Null \notin Uploads
  /\ Kml \in Types /\ {"movement", "visit_image"} \cap Types = {}
  /\ MaxAttempts \in Nat \ {0}
  /\ MaxFaults \in Nat

VARIABLES
  kind,        \* what each caller sends
  open,        \* the aerodrome is not removed
  row,         \* the rows of the three tables, as committed
  geojson,     \* the row of geojsons of the aerodrome
  store,       \* files in the object store
  call,        \* the calls
  unanswered,  \* history: calls whose row was inserted and the answer lost
  broken,      \* history: calls that broke off, or whose file could not be deleted
  crossed,     \* history: uploads that overlapped another's map, or got none
  faults       \* number of failures and crashes

vars == <<kind, open, row, geojson, store, call, unanswered, broken, crossed, faults>>

\* sees are the active documents of the type in the snapshot, stale the rows other
\* calls have written since.
Call ==
  [pc      : {"idle", "insert", "commit", "geojson", "compensate", "done", "failed"},
   attempt : 1..MaxAttempts,
   sees    : SUBSET Files,
   stale   : SUBSET Files]

Geojson ==
  [state  : {"none", "active", "deleted"},
   source : Uploads \cup {Null},
   status : {"READY", "ERROR"}]

\* A deleted row was superseded by an upload, or removed by a user.
TypeOK ==
  /\ kind \in [Files -> Kinds]
  /\ \A u \in Uploads : kind[u] \in Types
  /\ open \in BOOLEAN
  /\ row \in [Files -> {"none", "active", "superseded", "removed"}]
  /\ geojson \in Geojson
  /\ store \in SUBSET Files
  /\ call \in [Files -> Call]
  /\ unanswered \in SUBSET Files
  /\ broken \in SUBSET Files
  /\ crossed \in SUBSET Uploads
  /\ faults \in Nat

At(pc) == [pc |-> pc, attempt |-> 1, sees |-> {}, stale |-> {}]

Init ==
  /\ kind \in {k \in [Files -> Kinds] : \A u \in Uploads : k[u] \in Types}
  /\ open = TRUE
  /\ row = [f \in Files |-> "none"]
  /\ geojson = [state |-> "none", source |-> Null, status |-> "READY"]
  /\ store = {}
  /\ call = [f \in Files |-> At("idle")]
  /\ unanswered = {}
  /\ broken = {}
  /\ crossed = {}
  /\ faults = 0

-----------------------------------------------------------------------------
(* Helpers *)

Document(f) == kind[f] \in Types
ActiveOf(t) == {f \in Files : row[f] = "active" /\ kind[f] = t}
AtRest(f) == call[f].pc \in {"idle", "done", "failed"}

Goto(f, pc) == call' = [call EXCEPT ![f] = At(pc)]

\* The open transactions have an old snapshot of these rows.
Outdates(calls, rows) ==
  [f \in Files |-> IF calls[f].pc = "commit"
                     THEN [calls[f] EXCEPT !.stale = @ \cup rows] ELSE calls[f]]

Fault == faults < MaxFaults /\ faults' = faults + 1

\* Variant: a conflict is answered at once, and the file left in the store.
RefusedInPlace(u) == Goto(u, "failed")

\* Variant: one attempt too many.
RefusedLate(u) ==
  IF call[u].attempt <= MaxAttempts
    THEN call' = [call EXCEPT ![u] = [At("insert") EXCEPT !.attempt = call[u].attempt + 1]]
    ELSE Goto(u, "compensate")

\* A conflict (P2034) rolls the transaction back: createSupersedingActive starts it
\* again after a pause; the last one is an error like any other.
Refused(u) ==
  IF call[u].attempt < MaxAttempts
    THEN call' = [call EXCEPT ![u] = [At("insert") EXCEPT !.attempt = call[u].attempt + 1]]
    ELSE Goto(u, "compensate")

-----------------------------------------------------------------------------
(* Store, insert, compensate: all callers *)

\* storage.upload. A document needs its aerodrome; movements and visits are not
\* removed here.
Store(f) ==
  /\ call[f].pc = "idle"
  /\ Document(f) => open
  /\ store' = store \cup {f}
  /\ Goto(f, "insert")
  /\ UNCHANGED <<kind, open, row, geojson, unanswered, broken, crossed, faults>>

\* Nothing is deleted when storage.upload fails, even if it stored the file.
StoreFails(f) ==
  /\ call[f].pc = "idle"
  /\ Document(f) => open
  /\ store' \in {store, store \cup {f}}
  /\ Goto(f, "failed")
  /\ broken' = broken \cup {f}
  /\ Fault
  /\ UNCHANGED <<kind, open, row, geojson, unanswered, crossed>>

\* One statement, committed on its own. The active documents stay as they are.
InsertRow(f) ==
  /\ call[f].pc = "insert"
  /\ row' = [row EXCEPT ![f] = "active"]
  /\ Goto(f, "done")
  /\ UNCHANGED <<kind, open, geojson, store, unanswered, broken, crossed, faults>>

\* CreateDocumentService.execute
CreateDocument(f) == f \in Inserts /\ Document(f) /\ InsertRow(f)

\* CreateMovementService.persist, when the reading has an image.
PersistMovement(f) == f \in Inserts /\ kind[f] = "movement" /\ InsertRow(f)

\* Variant: an error after the insert, in the audit or the answer, also goes to the
\* catch block.
AnswerVisitImageInTry(f) ==
  /\ f \in Inserts /\ kind[f] = "visit_image"
  /\ \/ InsertRow(f)
     \/ /\ call[f].pc = "insert"
        /\ row' = [row EXCEPT ![f] = "active"]
        /\ Goto(f, "compensate")
        /\ UNCHANGED <<kind, open, geojson, store, unanswered, broken, crossed, faults>>

\* AddTechnicalVisitImageService.execute: what follows the insert in the try block
\* does not throw (record) or is not awaited in it (toApiRow).
AddVisitImage(f) == f \in Inserts /\ kind[f] = "visit_image" /\ InsertRow(f)

\* The insert is answered with an error; it may have taken effect all the same.
InsertFails(f) ==
  /\ f \in Inserts /\ call[f].pc = "insert"
  /\ \/ UNCHANGED <<row, unanswered>>
     \/ /\ row' = [row EXCEPT ![f] = "active"]
        /\ unanswered' = unanswered \cup {f}
  /\ Goto(f, "compensate")
  /\ Fault
  /\ UNCHANGED <<kind, open, geojson, store, broken, crossed>>

\* storage.delete in the catch block of the callers
Compensate(f) ==
  /\ call[f].pc = "compensate"
  /\ store' = store \ {f}
  /\ Goto(f, "failed")
  /\ UNCHANGED <<kind, open, row, geojson, unanswered, broken, crossed, faults>>

\* It fails, which is only logged.
DeleteFails(f) ==
  /\ call[f].pc = "compensate"
  /\ Goto(f, "failed")
  /\ broken' = broken \cup {f}
  /\ Fault
  /\ UNCHANGED <<kind, open, row, geojson, store, unanswered, crossed>>

-----------------------------------------------------------------------------
(* The dedicated upload: createSupersedingActive *)

\* Variant: the map is derived before the transaction.
BeginWithMap(u) ==
  /\ u \in Uploads /\ call[u].pc = "insert"
  /\ call' = [call EXCEPT ![u].pc = "commit", ![u].sees = ActiveOf(kind[u]), ![u].stale = {}]
  /\ geojson' = [state |-> "active", source |-> u, status |-> "READY"]
  /\ UNCHANGED <<kind, open, row, store, unanswered, broken, crossed, faults>>

\* The first statement takes the snapshot; nobody else sees the row yet.
Begin(u) ==
  /\ u \in Uploads /\ call[u].pc = "insert"
  /\ call' = [call EXCEPT ![u].pc = "commit", ![u].sees = ActiveOf(kind[u]), ![u].stale = {}]
  /\ UNCHANGED <<kind, open, row, geojson, store, unanswered, broken, crossed, faults>>

\* Variant: at READ COMMITTED nothing is refused.
ConflictsNever(u) == FALSE

\* What PostgreSQL must refuse: an active document of the snapshot was written since,
\* or another upload of the type has committed, so that neither saw the other's row.
\* Rows inserted outside of a serializable transaction are not tracked.
Conflicts(u) ==
  \/ call[u].sees \cap call[u].stale # {}
  \/ \E v \in call[u].stale \cap Uploads : kind[v] = kind[u]

\* Variant: the new row is not excepted from the active ones.
SupersededAll(u) ==
  [f \in Files |-> IF f \in call[u].sees \cup {u} THEN "superseded" ELSE row[f]]

\* The rows once the transaction of u has committed.
Superseded(u) ==
  [f \in Files |-> IF f = u THEN "active"
                   ELSE IF f \in call[u].sees THEN "superseded" ELSE row[f]]

\* The transaction of u takes effect. Its map comes next, if it has one; another one
\* may still be on its way.
Commits(u, pc) ==
  /\ u \in Uploads /\ call[u].pc = "commit"
  /\ ~Conflicts(u)
  /\ row' = Superseded(u)
  /\ call' = Outdates([call EXCEPT ![u] = At(pc)], call[u].sees \cup {u})
  /\ crossed' = IF \E v \in Uploads : call[v].pc = "geojson" THEN crossed \cup {u} ELSE crossed
  /\ UNCHANGED <<kind, open, geojson, store, broken>>

\* Variant: a map is derived only from the first KML of the aerodrome.
CommitFirstMap(u) ==
  /\ Commits(u, IF kind[u] = Kml /\ geojson.state = "none" THEN "geojson" ELSE "done")
  /\ UNCHANGED <<unanswered, faults>>

Commit(u) ==
  /\ Commits(u, IF kind[u] = Kml THEN "geojson" ELSE "done")
  /\ UNCHANGED <<unanswered, faults>>

\* The commit takes effect and the connection is lost before the answer.
CommitUnanswered(u) ==
  /\ Commits(u, "compensate")
  /\ unanswered' = unanswered \cup {u}
  /\ Fault

\* Refused for a conflict, or because the database suspects one.
Conflict(u) ==
  /\ u \in Uploads /\ call[u].pc = "commit"
  /\ Refused(u)
  /\ UNCHANGED <<kind, open, row, geojson, store, unanswered, broken, crossed, faults>>

TransactionFails(u) ==
  /\ u \in Uploads /\ call[u].pc \in {"insert", "commit"}
  /\ Goto(u, "compensate")
  /\ Fault
  /\ UNCHANGED <<kind, open, row, geojson, store, unanswered, broken, crossed>>

-----------------------------------------------------------------------------
(* Maps *)

\* upsertByAerodromeId: the row is made, or written again and restored if deleted.
Upsert(source) ==
  \E status \in {"READY", "ERROR"} :
    geojson' = [state |-> "active", source |-> source, status |-> status]

\* GenerateGeojsonService.execute for an upload; skipped for an aerodrome that was
\* removed, unless it was there when it was checked.
Generate(u) ==
  /\ u \in Uploads /\ call[u].pc = "geojson"
  /\ Upsert(u) \/ (~open /\ UNCHANGED geojson)
  /\ Goto(u, "done")
  /\ UNCHANGED <<kind, open, row, store, unanswered, broken, crossed, faults>>

\* It fails, possibly after the upsert: logged, and the upload goes on.
GenerateFails(u) ==
  /\ u \in Uploads /\ call[u].pc = "geojson"
  /\ Upsert(u) \/ UNCHANGED geojson
  /\ Goto(u, "done")
  /\ crossed' = crossed \cup {u}
  /\ Fault
  /\ UNCHANGED <<kind, open, row, store, unanswered, broken>>

\* GenerateGeojsonController, with a file of its own. The aerodrome was there when it
\* was checked.
Regenerate ==
  /\ Upsert(Null)
  /\ UNCHANGED <<kind, open, row, store, call, unanswered, broken, crossed, faults>>

\* RemoveGeojsonService.execute
RemoveGeojson ==
  /\ geojson.state = "active"
  /\ geojson' = [geojson EXCEPT !.state = "deleted"]
  /\ UNCHANGED <<kind, open, row, store, call, unanswered, broken, crossed, faults>>

-----------------------------------------------------------------------------
(* Removal and renaming. What was read before the write does not matter: the write
   only meets active rows. *)

\* RemoveDocumentService.execute; images of movements and visits likewise. The file
\* is kept.
Remove(f) ==
  /\ row[f] = "active"
  /\ row' = [row EXCEPT ![f] = "removed"]
  /\ call' = Outdates(call, {f})
  /\ UNCHANGED <<kind, open, geojson, store, unanswered, broken, crossed, faults>>

\* UpdateDocumentService.execute
Rename(f) ==
  /\ row[f] = "active" /\ Document(f)
  /\ call' = Outdates(call, {f})
  /\ UNCHANGED <<kind, open, row, geojson, store, unanswered, broken, crossed, faults>>

\* RemoveAerodromeService.execute: nothing goes with the aerodrome.
RemoveAerodrome ==
  /\ open
  /\ open' = FALSE
  /\ UNCHANGED <<kind, row, geojson, store, call, unanswered, broken, crossed, faults>>

\* The process ends; the database rolls back what is not committed.
Crash ==
  /\ \E f \in Files : ~AtRest(f)
  /\ call' = [f \in Files |-> IF AtRest(f) THEN call[f] ELSE At("failed")]
  /\ broken' = broken \cup {f \in Files : ~AtRest(f)}
  /\ Fault
  /\ UNCHANGED <<kind, open, row, geojson, store, unanswered, crossed>>

-----------------------------------------------------------------------------

Upload(u) ==
  \/ Begin(u) \/ Commit(u) \/ CommitUnanswered(u) \/ Conflict(u) \/ TransactionFails(u)
  \/ Generate(u) \/ GenerateFails(u)

Insert(f) ==
  CreateDocument(f) \/ PersistMovement(f) \/ AddVisitImage(f) \/ InsertFails(f)

Next ==
  \/ \E f \in Files : \/ Store(f) \/ StoreFails(f) \/ Compensate(f) \/ DeleteFails(f)
                      \/ Upload(f) \/ Insert(f) \/ Remove(f) \/ Rename(f)
  \/ Regenerate \/ RemoveGeojson \/ RemoveAerodrome \/ Crash

Spec == Init /\ [][Next]_vars

-----------------------------------------------------------------------------
(* Properties *)

\* Concurrent uploads of a type never leave two of their documents active ("nunca
\* deixa o tipo com 0 ou 2 ativos", upload-aerodrome-file.service.ts), although two
\* that find no active document write no row in common. Those of POST /documents come
\* on top, by design.
OneActive ==
  \A u, v \in Uploads :
    row[u] = "active" /\ row[v] = "active" /\ kind[u] = kind[v] => u = v

\* Nor none: uploads that supersede each other, removals and renamings in between, and
\* refused transactions leave the last upload active, unless a user removed it.
NeverBare ==
  \A f \in Files :
    row[f] = "superseded" =>
      \E u \in Uploads : kind[u] = kind[f] /\ row[u] \in {"active", "removed"}

\* A row, also a deleted one, has its file ("o objeto no storage dos anteriores e
\* preservado"), unless the answer to its insert was lost: then the file is deleted as
\* if there were no row.
RowHasFile == \A f \in Files : row[f] # "none" => f \in store \cup unanswered

\* A file without a row is one of a call that is going on, or broke off.
NoOrphan == \A f \in store : row[f] = "none" => ~AtRest(f) \/ f \in broken

\* The map follows the plan: once the upload of the active KML is done, the map is the
\* one derived from it or one an administrator made, never that of a document it
\* superseded. Two uploads at a time, or a failed derivation, do not guarantee it.
MapIsCurrent ==
  \A u \in Uploads \ crossed :
    (kind[u] = Kml /\ row[u] = "active" /\ call[u].pc = "done" /\ open) =>
      geojson.state # "none" /\ geojson.source \in {u, Null}

\* The file a map names as its source is that of a row, never one that was deleted
\* again because its upload failed.
MapHasSource == geojson.source # Null => row[geojson.source] # "none"
=============================================================================
