---------------------------- MODULE RegisterSync ----------------------------
(***************************************************************************)
(* The copies of the aviation authority's registers: modules rab,          *)
(* public-aerodromes and private-aerodromes, brought up to date by a cron  *)
(* and by an administrator. A sync asks for the headers of the file, then  *)
(* for the file, and upserts its rows chunk by chunk; the row of the sync  *)
(* state says which headers and which content were taken last and lets the *)
(* next sync skip the work.                                                *)
(*                                                                         *)
(* A version of the file is a number: it stands for its Last-Modified and  *)
(* Content-Length, its SHA-256 and its rows. Nothing keeps two syncs of    *)
(* one register apart.                                                     *)
(***************************************************************************)
EXTENDS Integers

CONSTANTS
  MaxVersion,  \* bound on the versions the authority publishes
  Keys,        \* natural keys of the rows, in the order of the file: one chunk each
  Holds,       \* the keys each version of the file has
  Cron,        \* the sync RabSyncCron starts
  Manual,      \* those of POST /rab/sync (bounds how many run at once)
  MaxFaults,   \* bound on failures and crashes
  Null

Versions == 1..MaxVersion
Calls == {Cron} \cup Manual

ASSUME RegisterSyncAssumption ==
  /\ MaxVersion \in Nat \ {0}
  /\ Keys \subseteq Nat
  /\ Holds \in [Versions -> SUBSET Keys]
  /\ MaxFaults \in Nat
  /\ Null \notin Versions

VARIABLES
  source,      \* which register it is, and whether its server sends the headers
  file,        \* the version the server has now
  state,       \* the row of the sync state
  rows,        \* the register: the version each row was taken from, 0 if none
  call,        \* syncs in progress
  overlapped,  \* history: a sync wrote while another ran, and no sync alone since
  faults       \* number of failures and crashes

vars == <<source, file, state, rows, call, overlapped, faults>>

SyncStatus == {"PENDING", "RUNNING", "SUCCESS", "FAILED"}

\* "PENDING" stands for the missing row. head is last_modified, content_length.
SyncState ==
  [status : SyncStatus, head : Versions \cup {Null}, hash : Versions \cup {Null}]

\* existing is the copy read in "find", next the keys that are not written yet.
Call ==
  [pc       : {"idle", "find", "get", "running", "upsert", "failed", "skipped", "synced"},
   force    : BOOLEAN,
   head     : Versions \cup {Null},
   existing : SyncState,
   got      : Versions \cup {Null},
   next     : SUBSET Keys,
   since    : Versions \cup {Null},  \* history: the file when the sync began
   alone    : BOOLEAN]               \* history: no other sync ran since then

TypeOK ==
  /\ source \in [dataset : {"rab", "aerodromes"}, headers : BOOLEAN]
  /\ file \in Versions
  /\ state \in SyncState
  /\ rows \in [Keys -> Versions \cup {0}]
  /\ call \in [Calls -> Call]
  /\ overlapped \in BOOLEAN
  /\ faults \in Nat

NoState == [status |-> "PENDING", head |-> Null, hash |-> Null]

Resting(pc) ==
  [pc |-> pc, force |-> FALSE, head |-> Null, existing |-> NoState, got |-> Null,
   next |-> {}, since |-> Null, alone |-> TRUE]

Init ==
  /\ source \in [dataset : {"rab", "aerodromes"}, headers : BOOLEAN]
  /\ file = 1
  /\ state = NoState
  /\ rows = [k \in Keys |-> 0]
  /\ call = [c \in Calls |-> Resting("idle")]
  /\ overlapped = FALSE
  /\ faults = 0

-----------------------------------------------------------------------------
(* Helpers *)

AtRest(c) == call[c].pc \in {"idle", "skipped", "synced"}

\* pickHeader
LastModified == IF source.headers THEN file ELSE Null

\* existing.lastModified === lastModified && existing.contentLength === contentLength.
\* A missing header is undefined in rab, which equals no column, and null elsewhere.
UnchangedHead(existing, head) ==
  /\ existing.head = head
  /\ source.dataset = "rab" => head # Null

\* The update leaves the column alone when its value is undefined.
StoredHead(head) ==
  IF source.dataset = "rab" /\ head = Null THEN state.head ELSE head

\* The rows of version v are in the register. An upsert removes no row.
Current(v) == \A k \in Holds[v] : rows[k] = v

End(c, pc) == call' = [call EXCEPT ![c] = Resting(pc)]

\* c writes to the database.
Writes(c) == overlapped' = (overlapped \/ ~call[c].alone)

-----------------------------------------------------------------------------
(* syncPeriod; execute of the other two services *)

\* The answer of HEAD. Whoever is running is not alone any more.
Head(c) ==
  /\ AtRest(c)
  /\ \E force \in (IF c = Cron THEN {FALSE} ELSE BOOLEAN) :
       call' = [x \in Calls |->
         IF x = c
           THEN [pc |-> "find", force |-> force, head |-> LastModified,
                 existing |-> NoState, got |-> Null, next |-> {}, since |-> file,
                 alone |-> \A y \in Calls \ {c} : AtRest(y)]
           ELSE IF AtRest(x) THEN call[x] ELSE [call[x] EXCEPT !.alone = FALSE]]
  /\ UNCHANGED <<source, file, state, rows, overlapped, faults>>

\* Variant: the status is not looked at.
FindIgnoringStatus(c) ==
  /\ call[c].pc = "find"
  /\ IF ~call[c].force /\ UnchangedHead(state, call[c].head)
       THEN End(c, "skipped")
       ELSE call' = [call EXCEPT ![c].pc = "get", ![c].existing = state]
  /\ UNCHANGED <<source, file, state, rows, overlapped, faults>>

\* Variant: a sync that seems to run already is left to finish.
FindUnlessRunning(c) ==
  /\ call[c].pc = "find"
  /\ IF state.status = "RUNNING"
        \/ (~call[c].force /\ state.status = "SUCCESS" /\ UnchangedHead(state, call[c].head))
       THEN End(c, "skipped")
       ELSE call' = [call EXCEPT ![c].pc = "get", ![c].existing = state]
  /\ UNCHANGED <<source, file, state, rows, overlapped, faults>>

\* findByPeriod, findByDatasetKey; unchanged_head.
Find(c) ==
  /\ call[c].pc = "find"
  /\ IF ~call[c].force /\ state.status = "SUCCESS" /\ UnchangedHead(state, call[c].head)
       THEN End(c, "skipped")
       ELSE call' = [call EXCEPT ![c].pc = "get", ![c].existing = state]
  /\ UNCHANGED <<source, file, state, rows, overlapped, faults>>

\* The answer of GET and its hash; unchanged_hash, by the copy read before.
Get(c) ==
  LET existing == call[c].existing IN
  /\ call[c].pc = "get"
  /\ IF ~call[c].force /\ existing.status = "SUCCESS" /\ existing.hash = file
       THEN End(c, "skipped")
       ELSE call' = [call EXCEPT ![c].pc = "running", ![c].got = file]
  /\ UNCHANGED <<source, file, state, rows, overlapped, faults>>

\* Variant: the row keeps the status of the last sync until this one is over.
UpsertHeadOnly(c) ==
  /\ call[c].pc = "running"
  /\ state' = [state EXCEPT !.head = StoredHead(call[c].head)]
  /\ call' = [call EXCEPT ![c].pc = "upsert", ![c].next = Holds[call[c].got]]
  /\ Writes(c)
  /\ UNCHANGED <<source, file, rows, faults>>

\* upsertRunning. The content hash of the last sync stays in its column.
UpsertRunning(c) ==
  /\ call[c].pc = "running"
  /\ state' = [state EXCEPT !.status = "RUNNING", !.head = StoredHead(call[c].head)]
  /\ call' = [call EXCEPT ![c].pc = "upsert", ![c].next = Holds[call[c].got]]
  /\ Writes(c)
  /\ UNCHANGED <<source, file, rows, faults>>

\* upsertBatch: one statement for each chunk, in the order of the file.
UpsertChunk(c) ==
  /\ call[c].pc = "upsert"
  /\ \E k \in call[c].next :
       /\ \A j \in call[c].next : k <= j
       /\ rows' = [rows EXCEPT ![k] = call[c].got]
       /\ call' = [call EXCEPT ![c].next = @ \ {k}]
  /\ Writes(c)
  /\ UNCHANGED <<source, file, state, faults>>

\* updateSuccess
UpdateSuccess(c) ==
  /\ call[c].pc = "upsert"
  /\ call[c].next = {}
  /\ state' = [state EXCEPT !.status = "SUCCESS", !.hash = call[c].got]
  /\ End(c, "synced")
  /\ overlapped' = ~call[c].alone
  /\ UNCHANGED <<source, file, rows, faults>>

\* Variant: the status says what went wrong.
UpdateError(c) ==
  /\ call[c].pc = "failed"
  /\ state' = [state EXCEPT !.status = "ERROR"]
  /\ End(c, "idle")
  /\ Writes(c)
  /\ UNCHANGED <<source, file, rows, faults>>

\* updateFailed, in the catch block.
UpdateFailed(c) ==
  /\ call[c].pc = "failed"
  /\ state' = [state EXCEPT !.status = "FAILED"]
  /\ End(c, "idle")
  /\ Writes(c)
  /\ UNCHANGED <<source, file, rows, faults>>

-----------------------------------------------------------------------------

Fault == faults < MaxFaults /\ faults' = faults + 1

\* A request or a statement fails, or the file cannot be parsed: inside the try
\* block the error goes to updateFailed, elsewhere to the caller.
SyncFails(c) ==
  /\ ~AtRest(c)
  /\ IF call[c].pc = "upsert"
       THEN call' = [call EXCEPT ![c].pc = "failed"]
       ELSE End(c, "idle")
  /\ Fault
  /\ UNCHANGED <<source, file, state, rows, overlapped>>

\* The process ends; what was written stays.
Crash ==
  /\ \E c \in Calls : ~AtRest(c)
  /\ call' = [c \in Calls |-> IF AtRest(c) THEN call[c] ELSE Resting("idle")]
  /\ Fault
  /\ UNCHANGED <<source, file, state, rows, overlapped>>

\* The authority publishes another version.
Publish ==
  /\ file < MaxVersion
  /\ file' = file + 1
  /\ UNCHANGED <<source, state, rows, call, overlapped, faults>>

Step(c) ==
  \/ Find(c) \/ Get(c) \/ UpsertRunning(c) \/ UpsertChunk(c) \/ UpdateSuccess(c)
  \/ UpdateFailed(c)

Next ==
  \/ \E c \in Calls : Head(c) \/ Step(c) \/ SyncFails(c)
  \/ Crash
  \/ Publish

Spec == Init /\ [][Next]_vars

\* The scheduler starts the cron every day ("Default: todo dia 05:00 UTC",
\* rab-sync.cron.ts), and whatever is awaited is answered or times out.
FairSpec ==
  /\ Spec
  /\ WF_vars(Head(Cron))
  /\ \A c \in Calls : WF_vars(Step(c))

-----------------------------------------------------------------------------
(* Properties *)

\* A server that sends neither header leaves the two registers of aerodromes blind:
\* null === null, and what was taken once is never asked for again.
Blind == source.dataset = "aerodromes" /\ ~source.headers

\* SUCCESS with a content hash says that every row of that file is in the register,
\* whatever failed or crashed before, unless syncs overlapped since the last one
\* that ran alone.
SuccessIsComplete ==
  state.status = "SUCCESS" /\ ~overlapped => state.hash # Null /\ Current(state.hash)

\* Also a sync that skips the work has the register hold a file no older than the
\* one the server had when it began: "HEAD no CSV; se Last-Modified e Content-Length
\* iguais ao estado, pula GET. Apos GET, hash SHA-256 evita reprocessar arquivo
\* identico" (rab-sync.service.ts).
AnswersFresh ==
  [][\A c \in Calls :
       /\ ~AtRest(c) /\ call'[c].pc \in {"skipped", "synced"}
       /\ ~overlapped' /\ ~Blind
       => \E v \in Versions : v >= call[c].since /\ Current(v)']_vars

\* The cron brings the register up to date with the last version, however many
\* syncs failed or were cut off before.
EventuallyCurrent == <>[](Current(file) \/ overlapped \/ Blind)
=============================================================================
