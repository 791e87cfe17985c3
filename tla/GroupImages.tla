---------------------------- MODULE GroupImages ----------------------------
(***************************************************************************)
(* The image of a group of aerodromes: uploaded, replaced and removed by   *)
(* transactions that PostgreSQL runs at isolation SERIALIZABLE, and swept  *)
(* away with the group by one that runs at READ COMMITTED (module groups). *)
(* The file goes to the object store before the transaction, and is        *)
(* deleted again when the transaction fails.                               *)
(*                                                                         *)
(* One action per statement. A statement waits for rows another            *)
(* transaction has written and not committed. A serializable transaction   *)
(* reads the snapshot of its first statement, and is refused when it       *)
(* writes a row that was written since; PostgreSQL may refuse it at any    *)
(* other moment too.                                                       *)
(***************************************************************************)
EXTENDS Naturals

CONSTANTS
  Uploads,       \* calls of UploadGroupImageService; also their files and rows
  Removals,      \* calls of RemoveGroupImageService
  GroupRemovals, \* calls of RemoveGroupService
  Group,         \* the row of the group
  MaxAttempts,   \* SERIALIZATION_MAX_ATTEMPTS
  MaxFaults,     \* bound on failures and crashes
  Null

Calls == Uploads \cup Removals \cup GroupRemovals
Rows == Uploads \cup {Group}

ASSUME GroupImagesAssumption ==
  /\ Uploads \cap Removals = {}
  /\ (Uploads \cup Removals) \cap GroupRemovals = {}
  /\ Group \notin Uploads /\ Null \notin Uploads
  /\ MaxAttempts \in Nat \ {0}
  /\ MaxFaults \in Nat

VARIABLES
  group,       \* the row of the group: deletedAt and imageKey
  image,       \* the rows of group_images, as committed
  store,       \* files in the object store
  call,        \* calls, with the transaction each has open
  unanswered,  \* history: uploads whose commit took effect and was not answered
  broken,      \* history: uploads that broke off, or whose file could not be deleted
  faults       \* number of failures and crashes

vars == <<group, image, store, call, unanswered, broken, faults>>

\* sees are the active images of the snapshot, stale the rows other transactions have
\* committed since, locks the rows written and next the imageKey to be written.
Call ==
  [pc      : {"idle", "begin", "supersede", "delete", "images", "sync", "commit",
              "compensate", "done", "failed"},
   attempt : 1..MaxAttempts,
   sees    : SUBSET Uploads,
   stale   : SUBSET Rows,
   locks   : SUBSET Rows,
   next    : Uploads \cup {Null}]

TypeOK ==
  /\ group \in [deleted : BOOLEAN, imageKey : Uploads \cup {Null}]
  /\ image \in [Uploads -> {"none", "active", "deleted"}]
  /\ store \in SUBSET Uploads
  /\ call \in [Calls -> Call]
  /\ unanswered \in SUBSET Uploads
  /\ broken \in SUBSET Uploads
  /\ faults \in Nat

At(pc) ==
  [pc |-> pc, attempt |-> 1, sees |-> {}, stale |-> {}, locks |-> {}, next |-> Null]

Init ==
  /\ group = [deleted |-> FALSE, imageKey |-> Null]
  /\ image = [u \in Uploads |-> "none"]
  /\ store = {}
  /\ call = [c \in Calls |-> At("idle")]
  /\ unanswered = {}
  /\ broken = {}
  /\ faults = 0

-----------------------------------------------------------------------------
(* Helpers *)

Active == {u \in Uploads : image[u] = "active"}
AtRest(c) == call[c].pc \in {"idle", "done", "failed"}
InTransaction(c) == call[c].pc \in {"supersede", "delete", "images", "sync", "commit"}

Goto(c, pc) == call' = [call EXCEPT ![c] = At(pc)]

\* Nobody else has written these rows without having committed.
Free(c, targets) == \A d \in Calls \ {c} : call[d].locks \cap targets = {}

\* The rows the next statement of c writes.
Targets(c) ==
  CASE call[c].pc = "supersede" -> call[c].sees
    [] call[c].pc = "delete" -> {call[c].next}
    [] call[c].pc = "sync" -> {Group}
    [] call[c].pc = "images" -> Active
    [] call[c].pc = "begin" /\ c \in GroupRemovals -> {Group}
    [] OTHER -> {}

WaitsFor(c, d) == c # d /\ Targets(c) \cap call[d].locks # {}

\* The transaction of c is rolled back by an error that is not a conflict: an upload
\* goes on to delete its file, the others answer the error.
Fails(c) == Goto(c, IF c \in Uploads THEN "compensate" ELSE "failed")

\* Variant: one attempt too many.
RefusedLate(c) ==
  IF c \in Uploads /\ call[c].attempt <= MaxAttempts
    THEN call' = [call EXCEPT ![c] = [At("begin") EXCEPT !.attempt = call[c].attempt + 1]]
    ELSE Fails(c)

\* Variant: attempts are not counted.
RefusedAgain(c) ==
  IF c \in Uploads /\ call[c].attempt < MaxAttempts
    THEN Goto(c, "begin")
    ELSE Fails(c)

\* Variant: a conflict that is left after the retries is answered and the file stays.
RefusedInPlace(c) ==
  IF c \in Uploads /\ call[c].attempt < MaxAttempts
    THEN call' = [call EXCEPT ![c] = [At("begin") EXCEPT !.attempt = call[c].attempt + 1]]
    ELSE Goto(c, "failed")

\* It is rolled back by a conflict (P2034): createActiveImage starts it again after a
\* pause, up to its last attempt; the removals do not.
Refused(c) ==
  IF c \in Uploads /\ call[c].attempt < MaxAttempts
    THEN call' = [call EXCEPT ![c] = [At("begin") EXCEPT !.attempt = call[c].attempt + 1]]
    ELSE Fails(c)

-----------------------------------------------------------------------------
(* UploadGroupImageService.execute, createActiveImage *)

\* findById and storage.upload.
Store(u) ==
  /\ call[u].pc = "idle" /\ ~group.deleted
  /\ store' = store \cup {u}
  /\ Goto(u, "begin")
  /\ UNCHANGED <<group, image, unanswered, broken, faults>>

\* tx.groupImage.create; nobody else sees the row before the commit.
Insert(u) ==
  /\ call[u].pc = "begin"
  /\ call' = [call EXCEPT ![u].pc = "supersede", ![u].sees = Active, ![u].stale = {},
                           ![u].next = u]
  /\ UNCHANGED <<group, image, store, unanswered, broken, faults>>

\* Variant: the files of the rows that are superseded are deleted at once.
SupersedeAndClean(u) ==
  /\ call[u].pc = "supersede"
  /\ Free(u, Targets(u))
  /\ IF Targets(u) \cap call[u].stale # {}
       THEN Refused(u) /\ UNCHANGED store
       ELSE /\ call' = [call EXCEPT ![u].pc = "sync", ![u].locks = Targets(u)]
            /\ store' = store \ Targets(u)
  /\ UNCHANGED <<group, image, unanswered, broken, faults>>

\* tx.groupImage.updateMany
Supersede(u) ==
  /\ call[u].pc = "supersede"
  /\ Free(u, Targets(u))
  /\ IF Targets(u) \cap call[u].stale # {}
       THEN Refused(u)
       ELSE call' = [call EXCEPT ![u].pc = "sync", ![u].locks = Targets(u)]
  /\ UNCHANGED <<group, image, store, unanswered, broken, faults>>

\* Variant: at READ COMMITTED the row is written again, whoever wrote it before.
SyncReadCommitted(c) ==
  /\ call[c].pc = "sync"
  /\ Free(c, {Group})
  /\ IF group.deleted
       THEN Fails(c)
       ELSE call' = [call EXCEPT ![c].pc = "commit", ![c].locks = @ \cup {Group}]
  /\ UNCHANGED <<group, image, store, unanswered, broken, faults>>

\* tx.group.update of an active group: P2025 when the snapshot has none.
Sync(c) ==
  /\ call[c].pc = "sync"
  /\ Free(c, {Group})
  /\ IF Group \in call[c].stale
       THEN Refused(c)
       ELSE IF group.deleted
         THEN Fails(c)
         ELSE call' = [call EXCEPT ![c].pc = "commit", ![c].locks = @ \cup {Group}]
  /\ UNCHANGED <<group, image, store, unanswered, broken, faults>>

\* storage.delete, whose failure is only logged.
Compensate(u) ==
  /\ call[u].pc = "compensate"
  /\ store' = store \ {u}
  /\ Goto(u, "failed")
  /\ UNCHANGED <<group, image, unanswered, broken, faults>>

-----------------------------------------------------------------------------
(* RemoveGroupImageService.execute, removeActiveImage *)

\* findById, of both removals.
Check(c) ==
  /\ call[c].pc = "idle" /\ ~group.deleted
  /\ Goto(c, "begin")
  /\ UNCHANGED <<group, image, store, unanswered, broken, faults>>

\* tx.groupImage.findFirst: the newest active image. None: 404.
FindActive(m) ==
  /\ call[m].pc = "begin"
  /\ \/ /\ Active = {}
        /\ Goto(m, "failed")
     \/ \E u \in Active :
          call' = [call EXCEPT ![m].pc = "delete", ![m].sees = Active, ![m].stale = {},
                               ![m].next = u]
  /\ UNCHANGED <<group, image, store, unanswered, broken, faults>>

\* The image imageKey falls back to: an active one of the snapshot that is left.
Fallback(rest) == IF rest = {} THEN {Null} ELSE rest

\* Variant: the next image is looked for before the row is deleted.
DeleteAfterNext(m) ==
  /\ call[m].pc = "delete"
  /\ Free(m, Targets(m))
  /\ IF call[m].next \in call[m].stale
       THEN Refused(m)
       ELSE \E next \in Fallback(call[m].sees) :
              call' = [call EXCEPT ![m].pc = "sync", ![m].locks = Targets(m), ![m].next = next]
  /\ UNCHANGED <<group, image, store, unanswered, broken, faults>>

\* tx.groupImage.update by id, and the second findFirst, which reads the same snapshot.
DeleteActive(m) ==
  /\ call[m].pc = "delete"
  /\ Free(m, Targets(m))
  /\ IF call[m].next \in call[m].stale
       THEN Refused(m)
       ELSE \E next \in Fallback(call[m].sees \ Targets(m)) :
              call' = [call EXCEPT ![m].pc = "sync", ![m].locks = Targets(m), ![m].next = next]
  /\ UNCHANGED <<group, image, store, unanswered, broken, faults>>

-----------------------------------------------------------------------------
(* RemoveGroupService.execute, softDeleteWithCascade: each statement sees what is
   committed when it runs *)

\* Variant: the images first, then the group.
RemoveGroupLast(g) ==
  /\ call[g].pc \in {"begin", "images"}
  /\ IF call[g].pc = "begin"
       THEN /\ Free(g, Active)
            /\ call' = [call EXCEPT ![g].pc = "images", ![g].locks = Active]
       ELSE /\ Free(g, {Group})
            /\ IF group.deleted
                 THEN Fails(g)
                 ELSE call' = [call EXCEPT ![g].pc = "commit", ![g].locks = @ \cup {Group}]
  /\ UNCHANGED <<group, image, store, unanswered, broken, faults>>

\* tx.group.update: P2025 when somebody else removed the group; then
\* tx.groupImage.updateMany.
RemoveGroup(g) ==
  /\ call[g].pc \in {"begin", "images"}
  /\ Free(g, Targets(g))
  /\ IF call[g].pc = "begin"
       THEN IF group.deleted
         THEN Fails(g)
         ELSE call' = [call EXCEPT ![g].pc = "images", ![g].locks = {Group}]
       ELSE call' = [call EXCEPT ![g].pc = "commit", ![g].locks = @ \cup Active]
  /\ UNCHANGED <<group, image, store, unanswered, broken, faults>>

-----------------------------------------------------------------------------
(* The end of a transaction *)

\* What c wrote becomes visible, and the snapshots of the others old.
Write(c, pc) ==
  /\ call[c].pc = "commit"
  /\ image' = [u \in Uploads |->
       IF u = c THEN "active" ELSE IF u \in call[c].locks THEN "deleted" ELSE image[u]]
  /\ group' = [deleted  |-> group.deleted \/ c \in GroupRemovals,
               imageKey |-> call[c].next]
  /\ call' = [d \in Calls |->
       IF d = c THEN At(pc) ELSE [call[d] EXCEPT !.stale = @ \cup call[c].locks]]

Commit(c) ==
  /\ Write(c, "done")
  /\ UNCHANGED <<store, unanswered, broken, faults>>

\* Of two transactions that wait for each other the database ends one. Whether Prisma
\* reports a conflict depends on its driver.
Deadlock(c) ==
  /\ \E d \in Calls : WaitsFor(c, d) /\ WaitsFor(d, c)
  /\ Refused(c) \/ Fails(c)
  /\ UNCHANGED <<group, image, store, unanswered, broken, faults>>

\* A serializable transaction is refused for what it read. This costs an attempt.
Conflict(c) ==
  /\ c \notin GroupRemovals /\ InTransaction(c)
  /\ Refused(c)
  /\ UNCHANGED <<group, image, store, unanswered, broken, faults>>

-----------------------------------------------------------------------------
(* Failures *)

Fault == faults < MaxFaults /\ faults' = faults + 1

\* The upload fails and may have stored the file: nothing is deleted.
StoreFails(u) ==
  /\ call[u].pc = "idle" /\ ~group.deleted
  /\ store' \in {store, store \cup {u}}
  /\ Goto(u, "failed")
  /\ broken' = broken \cup {u}
  /\ Fault
  /\ UNCHANGED <<group, image, unanswered>>

StatementFails(c) ==
  /\ call[c].pc = "begin" \/ InTransaction(c)
  /\ Fails(c)
  /\ Fault
  /\ UNCHANGED <<group, image, store, unanswered, broken>>

\* The commit takes effect and the connection is lost before the answer.
CommitUnanswered(c) ==
  /\ Write(c, IF c \in Uploads THEN "compensate" ELSE "failed")
  /\ unanswered' = unanswered \cup ({c} \cap Uploads)
  /\ Fault
  /\ UNCHANGED <<store, broken>>

DeleteFails(u) ==
  /\ call[u].pc = "compensate"
  /\ Goto(u, "failed")
  /\ broken' = broken \cup {u}
  /\ Fault
  /\ UNCHANGED <<group, image, store, unanswered>>

\* The process ends; the database rolls back what is not committed.
Crash ==
  /\ \E c \in Calls : ~AtRest(c)
  /\ call' = [c \in Calls |-> IF AtRest(c) THEN call[c] ELSE At("failed")]
  /\ broken' = broken \cup {u \in Uploads : ~AtRest(u)}
  /\ Fault
  /\ UNCHANGED <<group, image, store, unanswered>>

-----------------------------------------------------------------------------

Upload(u) == Insert(u) \/ Supersede(u) \/ Compensate(u)
Removal(m) == FindActive(m) \/ DeleteActive(m)

Continue(c) ==
  \/ c \in Uploads /\ Upload(c)
  \/ c \in Removals /\ Removal(c)
  \/ c \in GroupRemovals /\ RemoveGroup(c)
  \/ Sync(c) \/ Commit(c) \/ Deadlock(c)

Next ==
  \/ \E u \in Uploads : Store(u) \/ StoreFails(u) \/ DeleteFails(u)
  \/ \E c \in Removals \cup GroupRemovals : Check(c)
  \/ \E c \in Calls : Continue(c) \/ Conflict(c) \/ StatementFails(c) \/ CommitUnanswered(c)
  \/ Crash

Spec == Init /\ [][Next]_vars

\* A statement is answered once it need not wait, and the database looks for deadlocks.
FairSpec == Spec /\ \A c \in Calls : WF_vars(Continue(c))

-----------------------------------------------------------------------------
(* Properties *)

\* The group has at most one active image and imageKey is its key: "Serializable
\* garante a invariante '1 imagem ativa por grupo'" (group-image.repository.ts).
KeyIsActiveImage == Active = {group.imageKey} \ {Null}

\* "sem imagem ativa para grupo inativo" (group.repository.ts), although the removal
\* of the group is not serializable: whoever updates the group row first, the other
\* one sees it.
RemovedGroupIsBare == group.deleted => Active = {} /\ group.imageKey = Null

\* A row, also a deleted one (remove-group-image.service.ts does not delete the object
\* either), has its file, unless the answer to its commit was lost: then the file is
\* deleted as if there were no row.
RowHasFile == \A u \in Uploads : image[u] # "none" => u \in store \cup unanswered

\* A file without a row is one of an upload that is going on, or broke off.
NoOrphan ==
  \A u \in store : image[u] = "none" => ~AtRest(u) \/ u \in broken

Slot == INSTANCE ImageSlot WITH
  Images <- Uploads,
  shown <- {group.imageKey} \ {Null},
  past <- {u \in Uploads : image[u] # "none"},
  confirmed <- {u \in Uploads : call[u].pc = "done"},
  removed <- group.deleted

\* What imageKey shows is the slot of ImageSlot, although uploads are tried again,
\* wait, deadlock and lose answers: no removal falls back to an image that was
\* replaced, and no upload that waited for the removal of the group comes after it.
ImplementsSlot == Slot!Spec

\* Retries, locks and deadlocks do not keep a call from its answer.
CallsAnswered == \A c \in Calls : (call[c].pc = "begin") ~> AtRest(c)
=============================================================================
