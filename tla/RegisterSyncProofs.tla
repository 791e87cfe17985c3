------------------------- MODULE RegisterSyncProofs -------------------------
(***************************************************************************)
(* For any register, file and number of syncs, failures and crashes: a     *)
(* sync state that says SUCCESS is one of a complete copy, and a sync that *)
(* answers leaves a copy as new as the file was when it began. Both need   *)
(* that syncs do not overlap, and one that runs alone makes up for those   *)
(* that did: nobody else writes the row of the state or the register while *)
(* it runs.                                                                *)
(***************************************************************************)
EXTENDS RegisterSync, TLAPS

\* What a sync in progress knows about the file.
KnowsFile(c) ==
  /\ ~AtRest(c) => call[c].since \in Versions /\ call[c].since <= file
  /\ ~AtRest(c) => call[c].head = IF source.headers THEN call[c].since ELSE Null
  /\ call[c].head # Null => call[c].head <= file
  /\ call[c].pc \in {"running", "upsert"} =>
       /\ call[c].got \in Versions
       /\ call[c].since <= call[c].got

\* What it knows about the state and the register, when it runs alone.
KnowsState(c) ==
  /\ call[c].pc = "get" /\ ~overlapped => call[c].existing = state
  /\ call[c].pc \in {"running", "upsert"} /\ call[c].alone =>
       \/ state.head = Null
       \/ state.head <= call[c].got
  /\ call[c].pc = "running" /\ call[c].head # Null => call[c].head <= call[c].got
  /\ call[c].pc = "upsert" /\ call[c].alone =>
       /\ state.status = "RUNNING"
       /\ \A k \in Holds[call[c].got] \ call[c].next : rows[k] = call[c].got

\* Two syncs in progress: neither is alone.
AloneInv ==
  \A c, d \in Calls : c # d /\ ~AtRest(c) /\ ~AtRest(d) => ~call[c].alone

StateInv ==
  /\ SuccessIsComplete
  /\ state.status = "SUCCESS" /\ ~overlapped => state.head = Null \/ state.head <= state.hash
  /\ state.head # Null => state.head <= file

IInv ==
  /\ TypeOK /\ AloneInv /\ StateInv
  /\ \A c \in Calls : KnowsFile(c) /\ KnowsState(c)

-----------------------------------------------------------------------------
(* Rows of calls *)

LEMMA RestingType ==
  ASSUME NEW pc \in {"idle", "skipped", "synced"}
  PROVE  /\ Resting(pc) \in Call
         /\ Resting(pc).pc = pc /\ Resting(pc).head = Null
BY DEF Resting, Call, NoState, SyncState, SyncStatus

LEMMA WithRow ==
  ASSUME TypeOK, NEW c \in Calls, NEW row \in Call, call' = [call EXCEPT ![c] = row]
  PROVE  /\ call' \in [Calls -> Call] /\ call'[c] = row
         /\ \A x \in Calls : x # c => call'[x] = call[x]
BY DEF TypeOK

\* Nobody starts: whoever was not alone stays so.
LEMMA AloneKept ==
  ASSUME AloneInv,
         \A x \in Calls : ~AtRest(x)' => ~AtRest(x) /\ call'[x].alone = call[x].alone
  PROVE  AloneInv'
BY DEF AloneInv

\* What a step of c leaves to the other syncs: if c writes, none of them is alone,
\* and neither is c.
LEMMA OthersKnow ==
  ASSUME IInv, NEW c \in Calls, ~AtRest(c), UNCHANGED <<source, file>>,
         \A x \in Calls : x # c => call'[x] = call[x],
         \/ UNCHANGED <<state, rows, overlapped>>
         \/ ~call[c].alone => overlapped'
  PROVE  \A d \in Calls : d # c => KnowsFile(d)' /\ KnowsState(d)'
<1> SUFFICES ASSUME NEW d \in Calls, d # c PROVE KnowsFile(d)' /\ KnowsState(d)'
  OBVIOUS
<1>1. call'[d] = call[d] /\ KnowsFile(d) /\ KnowsState(d)
  BY DEF IInv
<1>2. KnowsFile(d)'
  BY <1>1 DEF KnowsFile, AtRest
<1>3. CASE UNCHANGED <<state, rows, overlapped>>
  BY <1>1, <1>2, <1>3 DEF KnowsState
<1>4. CASE AtRest(d)
  BY <1>1, <1>2, <1>4 DEF KnowsState, AtRest
<1>5. CASE ~AtRest(d) /\ (~call[c].alone => overlapped')
  <2>1. overlapped' /\ ~call[d].alone
    BY <1>5 DEF IInv, AloneInv
  <2> QED
    BY <1>1, <1>2, <2>1 DEF KnowsState
<1> QED
  BY <1>3, <1>4, <1>5

\* A step of c that ends it: all that is left to show is about the state.
LEMMA EndKeeps ==
  ASSUME IInv, NEW c \in Calls, ~AtRest(c), NEW pc \in {"idle", "skipped", "synced"},
         End(c, pc), UNCHANGED <<source, file>>,
         \/ UNCHANGED <<state, rows, overlapped>>
         \/ ~call[c].alone => overlapped'
  PROVE  /\ call' \in [Calls -> Call] /\ AloneInv'
         /\ \A d \in Calls : KnowsFile(d)' /\ KnowsState(d)'
<1>1. TypeOK /\ AloneInv
  BY DEF IInv
<1> PICK row : row = Resting(pc)
  OBVIOUS
<1>2. /\ call' = [call EXCEPT ![c] = row] /\ row \in Call
      /\ row.pc \in {"idle", "skipped", "synced"} /\ row.head = Null
  BY RestingType DEF End
<1>3. /\ call' \in [Calls -> Call] /\ call'[c] = row
      /\ \A x \in Calls : x # c => call'[x] = call[x]
  BY <1>1, <1>2, WithRow
<1>4. AloneInv'
  <2>1. ASSUME NEW x \in Calls, ~AtRest(x)'
        PROVE  ~AtRest(x) /\ call'[x].alone = call[x].alone
    BY <2>1, <1>2, <1>3 DEF AtRest
  <2> QED
    BY <2>1, <1>1, AloneKept
<1>5. KnowsFile(c)' /\ KnowsState(c)'
  BY <1>2, <1>3 DEF KnowsFile, KnowsState, AtRest
<1>6. \A d \in Calls : d # c => KnowsFile(d)' /\ KnowsState(d)'
  BY <1>3, OthersKnow
<1> QED
  BY <1>3, <1>4, <1>5, <1>6

-----------------------------------------------------------------------------
(* The steps *)

LEMMA InitInv == Init => IInv
<1> SUFFICES ASSUME Init PROVE IInv
  OBVIOUS
<1>1. \A c \in Calls : call[c] = Resting("idle") /\ call[c] \in Call
                       /\ call[c].pc = "idle" /\ call[c].head = Null
  BY RestingType DEF Init
<1>2. TypeOK
  <2>1. call \in [Calls -> Call]
    BY <1>1 DEF Init
  <2>2. state \in SyncState /\ file \in Versions
    BY RegisterSyncAssumption DEF Init, NoState, SyncState, SyncStatus, Versions
  <2> QED
    BY <2>1, <2>2 DEF Init, TypeOK
<1>3. AloneInv /\ \A c \in Calls : KnowsFile(c) /\ KnowsState(c)
  BY <1>1 DEF AloneInv, KnowsFile, KnowsState, AtRest
<1>4. StateInv
  BY DEF Init, NoState, StateInv, SuccessIsComplete
<1> QED
  BY <1>2, <1>3, <1>4 DEF IInv

LEMMA HeadInv ==
  ASSUME IInv, NEW c \in Calls, Head(c) PROVE IInv'
<1> USE RegisterSyncAssumption
<1>0. TypeOK /\ AloneInv /\ StateInv
  BY DEF IInv
<1>1. UNCHANGED <<source, file, state, rows, overlapped, faults>>
  BY DEF Head
<1>2. PICK force \in BOOLEAN :
        call' = [x \in Calls |->
          IF x = c
            THEN [pc |-> "find", force |-> force, head |-> LastModified,
                  existing |-> NoState, got |-> Null, next |-> {}, since |-> file,
                  alone |-> \A y \in Calls \ {c} : AtRest(y)]
            ELSE IF AtRest(x) THEN call[x] ELSE [call[x] EXCEPT !.alone = FALSE]]
  BY DEF Head
<1> PICK quiet \in BOOLEAN : quiet = \A y \in Calls \ {c} : AtRest(y)
  OBVIOUS
<1> PICK row : row = [pc |-> "find", force |-> force, head |-> LastModified,
                      existing |-> NoState, got |-> Null, next |-> {}, since |-> file,
                      alone |-> quiet]
  OBVIOUS
<1>3. /\ file \in Versions /\ LastModified \in {file, Null} /\ file # Null
      /\ LastModified = IF source.headers THEN file ELSE Null
  BY <1>0 DEF TypeOK, LastModified
<1>4. /\ row \in Call /\ row.pc = "find" /\ row.head = LastModified /\ row.since = file
      /\ row.alone = quiet
  BY <1>3 DEF Call, NoState, SyncState, SyncStatus
<1>5. call'[c] = row
  BY <1>2
<1>6. ASSUME NEW x \in Calls, x # c
      PROVE  /\ call'[x] \in Call
             /\ call'[x].pc = call[x].pc /\ call'[x].head = call[x].head
             /\ call'[x].existing = call[x].existing /\ call'[x].got = call[x].got
             /\ call'[x].next = call[x].next /\ call'[x].since = call[x].since
             /\ ~AtRest(x) => ~call'[x].alone
  <2>1. call[x] \in Call
    BY <1>0 DEF TypeOK
  <2>2. call'[x] = IF AtRest(x) THEN call[x] ELSE [call[x] EXCEPT !.alone = FALSE]
    BY <1>2, <1>6
  <2> QED
    BY <2>1, <2>2 DEF Call
<1>7. TypeOK'
  <2>1. call' \in [Calls -> Call]
    <3>1. \A x \in Calls : call'[x] \in Call
      BY <1>4, <1>5, <1>6
    <3>2. DOMAIN call' = Calls /\ call' = [x \in Calls |-> call'[x]]
      BY <1>2
    <3> QED
      BY <3>1, <3>2
  <2> QED
    BY <2>1, <1>0, <1>1 DEF TypeOK
<1>8. AloneInv'
  <2> SUFFICES ASSUME NEW d \in Calls, NEW e \in Calls, d # e, ~AtRest(d)', ~AtRest(e)'
               PROVE  ~call'[d].alone
    BY DEF AloneInv
  <2>1. CASE d # c
    BY <2>1, <1>6 DEF AtRest
  <2>2. CASE d = c
    <3>1. ~AtRest(e)
      BY <2>2, <1>6 DEF AtRest
    <3> QED
      BY <2>2, <3>1, <1>4, <1>5
  <2> QED
    BY <2>1, <2>2
<1>9. StateInv'
  BY <1>0, <1>1 DEF StateInv, SuccessIsComplete, Current
<1>10. ASSUME NEW d \in Calls PROVE KnowsFile(d)' /\ KnowsState(d)'
  <2>1. CASE d = c
    <3>1. call'[d].pc = "find" /\ call'[d].head = LastModified /\ call'[d].since = file
      BY <2>1, <1>4, <1>5
    <3>2. file <= file
      BY <1>3 DEF Versions
    <3> QED
      BY <3>1, <3>2, <1>1, <1>3 DEF KnowsFile, KnowsState
  <2>2. CASE d # c
    <3>1. KnowsFile(d) /\ KnowsState(d)
      BY DEF IInv
    <3>2. KnowsFile(d)'
      BY <2>2, <3>1, <1>1, <1>6 DEF KnowsFile, AtRest
    <3>3. call[d].pc \in {"get", "running", "upsert"} => ~AtRest(d)
      BY DEF AtRest
    <3> QED
      BY <2>2, <3>1, <3>2, <3>3, <1>1, <1>6 DEF KnowsState
  <2> QED
    BY <2>1, <2>2
<1> QED
  BY <1>7, <1>8, <1>9, <1>10 DEF IInv

\* Once more: what a sync that ends without writing leaves as it was.
LEMMA QuietEnd ==
  ASSUME IInv, NEW c \in Calls, ~AtRest(c), NEW pc \in {"idle", "skipped", "synced"},
         End(c, pc), UNCHANGED <<source, file, state, rows, overlapped>>, faults' \in Nat
  PROVE  IInv'
<1>1. TypeOK /\ StateInv
  BY DEF IInv
<1>2. /\ call' \in [Calls -> Call] /\ AloneInv'
      /\ \A d \in Calls : KnowsFile(d)' /\ KnowsState(d)'
  BY EndKeeps
<1>3. TypeOK'
  BY <1>1, <1>2 DEF TypeOK
<1>4. StateInv'
  BY <1>1 DEF StateInv, SuccessIsComplete, Current
<1> QED
  BY <1>2, <1>3, <1>4 DEF IInv

\* A step of c that takes it further.
LEMMA MoveKeeps ==
  ASSUME IInv, NEW c \in Calls, ~AtRest(c), NEW row \in Call, row.alone = call[c].alone,
         call' = [call EXCEPT ![c] = row], UNCHANGED <<source, file>>,
         \/ UNCHANGED <<state, rows, overlapped>>
         \/ ~call[c].alone => overlapped'
  PROVE  /\ call' \in [Calls -> Call] /\ call'[c] = row /\ AloneInv'
         /\ \A d \in Calls : d # c => KnowsFile(d)' /\ KnowsState(d)'
<1>1. TypeOK /\ AloneInv
  BY DEF IInv
<1>2. /\ call' \in [Calls -> Call] /\ call'[c] = row
      /\ \A x \in Calls : x # c => call'[x] = call[x]
  BY <1>1, WithRow
<1>3. AloneInv'
  <2>1. ASSUME NEW x \in Calls, ~AtRest(x)'
        PROVE  ~AtRest(x) /\ call'[x].alone = call[x].alone
    BY <2>1, <1>2 DEF AtRest
  <2> QED
    BY <2>1, <1>1, AloneKept
<1> QED
  BY <1>2, <1>3, OthersKnow

LEMMA FindInv ==
  ASSUME IInv, NEW c \in Calls, Find(c) PROVE IInv'
<1>0. TypeOK /\ StateInv /\ KnowsFile(c) /\ KnowsState(c)
  BY DEF IInv
<1>1. /\ call[c].pc = "find" /\ ~AtRest(c) /\ faults' \in Nat
      /\ UNCHANGED <<source, file, state, rows, overlapped>>
  BY <1>0 DEF Find, AtRest, TypeOK
<1>2. CASE End(c, "skipped")
  BY <1>1, <1>2, QuietEnd
<1>3. CASE call' = [call EXCEPT ![c].pc = "get", ![c].existing = state]
  <2> PICK row : row = [call[c] EXCEPT !.pc = "get", !.existing = state]
    OBVIOUS
  <2>1. call[c] \in Call /\ call \in [Calls -> Call] /\ state \in SyncState
    BY <1>0 DEF TypeOK
  <2>2. /\ row \in Call /\ row.pc = "get" /\ row.existing = state
        /\ row.alone = call[c].alone /\ row.head = call[c].head /\ row.since = call[c].since
    BY <2>1 DEF Call
  <2>3. call' = [call EXCEPT ![c] = row]
    BY <1>3, <2>1
  <2>4. /\ call' \in [Calls -> Call] /\ call'[c] = row /\ AloneInv'
        /\ \A d \in Calls : d # c => KnowsFile(d)' /\ KnowsState(d)'
    BY <1>1, <2>2, <2>3, MoveKeeps
  <2>5. KnowsFile(c)' /\ KnowsState(c)'
    BY <1>0, <1>1, <2>2, <2>4 DEF KnowsFile, KnowsState, AtRest
  <2>6. TypeOK' /\ StateInv'
    BY <1>0, <1>1, <2>4 DEF TypeOK, StateInv, SuccessIsComplete, Current
  <2> QED
    BY <2>4, <2>5, <2>6 DEF IInv
<1> QED
  BY <1>2, <1>3 DEF Find

LEMMA GetInv ==
  ASSUME IInv, NEW c \in Calls, Get(c) PROVE IInv'
<1>0. TypeOK /\ StateInv /\ KnowsFile(c) /\ KnowsState(c)
  BY DEF IInv
<1>1. /\ call[c].pc = "get" /\ ~AtRest(c) /\ faults' \in Nat
      /\ UNCHANGED <<source, file, state, rows, overlapped>>
  BY <1>0 DEF Get, AtRest, TypeOK
<1>2. CASE End(c, "skipped")
  BY <1>1, <1>2, QuietEnd
<1>3. CASE call' = [call EXCEPT ![c].pc = "running", ![c].got = file]
  <2> PICK row : row = [call[c] EXCEPT !.pc = "running", !.got = file]
    OBVIOUS
  <2>1. call[c] \in Call /\ call \in [Calls -> Call] /\ file \in Versions
    BY <1>0 DEF TypeOK
  <2>2. /\ row \in Call /\ row.pc = "running" /\ row.got = file
        /\ row.alone = call[c].alone /\ row.head = call[c].head /\ row.since = call[c].since
    BY <2>1 DEF Call
  <2>3. call' = [call EXCEPT ![c] = row]
    BY <1>3, <2>1
  <2>4. /\ call' \in [Calls -> Call] /\ call'[c] = row /\ AloneInv'
        /\ \A d \in Calls : d # c => KnowsFile(d)' /\ KnowsState(d)'
    BY <1>1, <2>2, <2>3, MoveKeeps
  <2>5. KnowsFile(c)' /\ KnowsState(c)'
    BY <1>0, <1>1, <2>1, <2>2, <2>4 DEF KnowsFile, KnowsState, AtRest, StateInv
  <2>6. TypeOK' /\ StateInv'
    BY <1>0, <1>1, <2>4 DEF TypeOK, StateInv, SuccessIsComplete, Current
  <2> QED
    BY <2>4, <2>5, <2>6 DEF IInv
<1> QED
  BY <1>2, <1>3 DEF Get

LEMMA UpsertRunningInv ==
  ASSUME IInv, NEW c \in Calls, UpsertRunning(c) PROVE IInv'
<1>0. TypeOK /\ StateInv /\ KnowsFile(c) /\ KnowsState(c)
  BY DEF IInv
<1>1. /\ call[c].pc = "running" /\ ~AtRest(c)
      /\ UNCHANGED <<source, file, rows, faults>>
      /\ overlapped' = (overlapped \/ ~call[c].alone)
      /\ call' = [call EXCEPT ![c].pc = "upsert", ![c].next = Holds[call[c].got]]
      /\ state' = [state EXCEPT !.status = "RUNNING", !.head = StoredHead(call[c].head)]
  BY DEF UpsertRunning, AtRest, Writes
<1>2. /\ call[c] \in Call /\ call \in [Calls -> Call] /\ state \in SyncState
      /\ call[c].got \in Versions /\ Holds[call[c].got] \in SUBSET Keys
  BY <1>0, <1>1, RegisterSyncAssumption DEF TypeOK, KnowsFile
<1>3. StoredHead(call[c].head) \in {state.head, call[c].head}
  BY DEF StoredHead
<1>4. /\ state' \in SyncState /\ state'.status = "RUNNING"
      /\ state'.head \in {state.head, call[c].head}
  BY <1>1, <1>2, <1>3 DEF SyncState, SyncStatus, Call
<1> PICK row : row = [call[c] EXCEPT !.pc = "upsert", !.next = Holds[call[c].got]]
  OBVIOUS
<1>5. /\ row \in Call /\ row.pc = "upsert" /\ row.next = Holds[call[c].got]
      /\ row.alone = call[c].alone /\ row.head = call[c].head /\ row.since = call[c].since
      /\ row.got = call[c].got
  <2> PICK next \in SUBSET Keys : next = Holds[call[c].got]
    BY <1>2
  <2>1. row = [call[c] EXCEPT !.pc = "upsert", !.next = next]
    OBVIOUS
  <2>2. call[c] \in Call
    BY <1>2
  <2> QED
    BY <2>1, <2>2 DEF Call
<1>6. call' = [call EXCEPT ![c] = row]
  <2>1. call' = [call EXCEPT ![c].pc = "upsert", ![c].next = Holds[call[c].got]]
    BY <1>1
  <2>2. call \in [Calls -> Call]
    BY <1>2
  <2> QED
    BY <2>1, <2>2
<1>7. /\ call' \in [Calls -> Call] /\ call'[c] = row /\ AloneInv'
      /\ \A d \in Calls : d # c => KnowsFile(d)' /\ KnowsState(d)'
  <2>1. ~AtRest(c) /\ UNCHANGED <<source, file>> /\ (~call[c].alone => overlapped')
    BY <1>1
  <2>2. row \in Call /\ row.alone = call[c].alone
    BY <1>5
  <2> QED
    BY <2>1, <2>2, <1>6, MoveKeeps
<1>8. KnowsFile(c)'
  BY <1>0, <1>1, <1>5, <1>7 DEF KnowsFile, AtRest
<1>9. KnowsState(c)'
  BY <1>0, <1>1, <1>4, <1>5, <1>7 DEF KnowsState
<1>10. TypeOK'
  BY <1>0, <1>1, <1>4, <1>7 DEF TypeOK
<1>11. StateInv'
  BY <1>0, <1>1, <1>4 DEF StateInv, SuccessIsComplete, KnowsFile
<1> QED
  BY <1>7, <1>8, <1>9, <1>10, <1>11 DEF IInv

LEMMA UpsertChunkInv ==
  ASSUME IInv, NEW c \in Calls, UpsertChunk(c) PROVE IInv'
<1>0. TypeOK /\ StateInv /\ KnowsFile(c) /\ KnowsState(c)
  BY DEF IInv
<1>1. PICK k \in call[c].next :
        /\ rows' = [rows EXCEPT ![k] = call[c].got]
        /\ call' = [call EXCEPT ![c].next = @ \ {k}]
  BY DEF UpsertChunk
<1>2. /\ call[c].pc = "upsert" /\ ~AtRest(c)
      /\ UNCHANGED <<source, file, state, faults>>
      /\ overlapped' = (overlapped \/ ~call[c].alone)
  BY DEF UpsertChunk, AtRest, Writes
<1>3. /\ call[c] \in Call /\ call \in [Calls -> Call] /\ rows \in [Keys -> Versions \cup {0}]
      /\ call[c].got \in Versions /\ Holds[call[c].got] \in SUBSET Keys
  BY <1>0, <1>2, RegisterSyncAssumption DEF TypeOK, KnowsFile
<1>4. call[c].next \in SUBSET Keys
  BY <1>3 DEF Call
<1>5. /\ rows' \in [Keys -> Versions \cup {0}] /\ rows'[k] = call[c].got
      /\ \A j \in Keys : j # k => rows'[j] = rows[j]
  BY <1>1, <1>3, <1>4
<1> PICK row : row = [call[c] EXCEPT !.next = @ \ {k}]
  OBVIOUS
<1>6. /\ row \in Call /\ row.pc = "upsert" /\ row.next = call[c].next \ {k}
      /\ row.alone = call[c].alone /\ row.head = call[c].head /\ row.since = call[c].since
      /\ row.got = call[c].got
  BY <1>2, <1>3, <1>4 DEF Call
<1>7. call' = [call EXCEPT ![c] = row]
  BY <1>1, <1>3
<1>8. /\ call' \in [Calls -> Call] /\ call'[c] = row /\ AloneInv'
      /\ \A d \in Calls : d # c => KnowsFile(d)' /\ KnowsState(d)'
  BY <1>2, <1>6, <1>7, MoveKeeps
<1>9. KnowsFile(c)'
  BY <1>0, <1>2, <1>6, <1>8 DEF KnowsFile, AtRest
<1>10. KnowsState(c)'
  BY <1>0, <1>2, <1>3, <1>5, <1>6, <1>8 DEF KnowsState
<1>11. TypeOK'
  BY <1>0, <1>2, <1>5, <1>8 DEF TypeOK
<1>12. StateInv'
  <2>1. state.status = "SUCCESS" => overlapped'
    BY <1>0, <1>2 DEF KnowsState
  <2> QED
    BY <2>1, <1>0, <1>2 DEF StateInv, SuccessIsComplete
<1> QED
  BY <1>8, <1>9, <1>10, <1>11, <1>12 DEF IInv

LEMMA UpdateSuccessInv ==
  ASSUME IInv, NEW c \in Calls, UpdateSuccess(c)
  PROVE  /\ IInv'
         /\ ~overlapped' => \E v \in Versions : v >= call[c].since /\ Current(v)'
<1>0. TypeOK /\ StateInv /\ KnowsFile(c) /\ KnowsState(c)
  BY DEF IInv
<1>1. /\ call[c].pc = "upsert" /\ ~AtRest(c) /\ call[c].next = {}
      /\ UNCHANGED <<source, file, rows, faults>>
      /\ overlapped' = ~call[c].alone
      /\ state' = [state EXCEPT !.status = "SUCCESS", !.hash = call[c].got]
      /\ End(c, "synced")
  BY DEF UpdateSuccess, AtRest
<1>2. call[c].got \in Versions /\ state \in SyncState /\ Null \notin Versions
  BY <1>0, <1>1, RegisterSyncAssumption DEF TypeOK, KnowsFile
<1>3. /\ state' \in SyncState /\ state'.status = "SUCCESS" /\ state'.hash = call[c].got
      /\ state'.head = state.head
  BY <1>1, <1>2 DEF SyncState, SyncStatus
<1>4. /\ call' \in [Calls -> Call] /\ AloneInv'
      /\ \A d \in Calls : KnowsFile(d)' /\ KnowsState(d)'
  BY <1>1, EndKeeps
<1>5. call[c].alone =>
        /\ \A k \in Holds[call[c].got] : rows[k] = call[c].got
        /\ state.head = Null \/ state.head <= call[c].got
  BY <1>0, <1>1 DEF KnowsState
<1>6. TypeOK'
  BY <1>0, <1>1, <1>3, <1>4 DEF TypeOK
<1>7. StateInv'
  BY <1>0, <1>1, <1>2, <1>3, <1>5 DEF StateInv, SuccessIsComplete, Current
<1>8. ~overlapped' => \E v \in Versions : v >= call[c].since /\ Current(v)'
  <2> PICK v \in Versions : v = call[c].got
    BY <1>2
  <2>1. v >= call[c].since
    BY <1>0, <1>1 DEF KnowsFile, AtRest, Versions
  <2>2. ~overlapped' => Current(v)'
    BY <1>1, <1>5 DEF Current
  <2> QED
    BY <2>1, <2>2
<1> QED
  BY  <1>4, <1>6, <1>7, <1>8 DEF IInv

LEMMA UpdateFailedInv ==
  ASSUME IInv, NEW c \in Calls, UpdateFailed(c) PROVE IInv'
<1>0. TypeOK /\ StateInv
  BY DEF IInv
<1>1. /\ call[c].pc = "failed" /\ ~AtRest(c)
      /\ UNCHANGED <<source, file, rows, faults>>
      /\ overlapped' = (overlapped \/ ~call[c].alone)
      /\ state' = [state EXCEPT !.status = "FAILED"]
      /\ End(c, "idle")
  BY DEF UpdateFailed, AtRest, Writes
<1>2. state \in SyncState
  BY <1>0 DEF TypeOK
<1>3. state' \in SyncState /\ state'.status = "FAILED" /\ state'.head = state.head
  BY <1>1, <1>2 DEF SyncState, SyncStatus
<1>4. /\ call' \in [Calls -> Call] /\ AloneInv'
      /\ \A d \in Calls : KnowsFile(d)' /\ KnowsState(d)'
  BY <1>1, EndKeeps
<1>5. TypeOK'
  BY <1>0, <1>1, <1>3, <1>4 DEF TypeOK
<1>6. StateInv'
  BY <1>0, <1>1, <1>3 DEF StateInv, SuccessIsComplete
<1> QED
  BY <1>4, <1>5, <1>6 DEF IInv

LEMMA SyncFailsInv ==
  ASSUME IInv, NEW c \in Calls, SyncFails(c) PROVE IInv'
<1>0. TypeOK /\ StateInv /\ KnowsFile(c)
  BY DEF IInv
<1>1. ~AtRest(c) /\ faults' \in Nat /\ UNCHANGED <<source, file, state, rows, overlapped>>
  BY <1>0 DEF SyncFails, Fault, TypeOK
<1>2. CASE End(c, "idle")
  BY <1>1, <1>2, QuietEnd
<1>3. CASE call[c].pc = "upsert" /\ call' = [call EXCEPT ![c].pc = "failed"]
  <2> PICK row : row = [call[c] EXCEPT !.pc = "failed"]
    OBVIOUS
  <2>1. call[c] \in Call /\ call \in [Calls -> Call]
    BY <1>0 DEF TypeOK
  <2>2. /\ row \in Call /\ row.pc = "failed"
        /\ row.alone = call[c].alone /\ row.head = call[c].head /\ row.since = call[c].since
    BY <2>1 DEF Call
  <2>3. call' = [call EXCEPT ![c] = row]
    BY <1>3, <2>1
  <2>4. /\ call' \in [Calls -> Call] /\ call'[c] = row /\ AloneInv'
        /\ \A d \in Calls : d # c => KnowsFile(d)' /\ KnowsState(d)'
    BY <1>1, <2>2, <2>3, MoveKeeps
  <2>5. KnowsFile(c)' /\ KnowsState(c)'
    BY <1>0, <1>1, <2>2, <2>4 DEF KnowsFile, KnowsState, AtRest
  <2>6. TypeOK' /\ StateInv'
    BY <1>0, <1>1, <2>4 DEF TypeOK, StateInv, SuccessIsComplete, Current
  <2> QED
    BY <2>4, <2>5, <2>6 DEF IInv
<1> QED
  BY <1>2, <1>3 DEF SyncFails

LEMMA CrashInv ==
  ASSUME IInv, Crash PROVE IInv'
<1>0. TypeOK /\ StateInv
  BY DEF IInv
<1>1. /\ UNCHANGED <<source, file, state, rows, overlapped>> /\ faults' \in Nat
      /\ call' = [c \in Calls |-> IF AtRest(c) THEN call[c] ELSE Resting("idle")]
  BY <1>0 DEF Crash, Fault, TypeOK
<1>2. \A c \in Calls :
        /\ call'[c] \in Call /\ AtRest(c)'
        /\ call'[c].head # Null => call'[c].head <= file
  <2> TAKE c \in Calls
  <2>1. call[c] \in Call /\ KnowsFile(c)
    BY <1>0 DEF IInv, TypeOK
  <2>2. CASE AtRest(c)
    BY <2>1, <2>2, <1>1 DEF AtRest, KnowsFile
  <2>3. CASE ~AtRest(c)
    BY <2>3, <1>1, RestingType DEF AtRest
  <2> QED
    BY <2>2, <2>3
<1>3. TypeOK'
  BY <1>0, <1>1, <1>2 DEF TypeOK
<1>4. AloneInv' /\ \A c \in Calls : KnowsFile(c)' /\ KnowsState(c)'
  BY <1>1, <1>2 DEF AloneInv, KnowsFile, KnowsState, AtRest
<1>5. StateInv'
  BY <1>0, <1>1 DEF StateInv, SuccessIsComplete, Current
<1> QED
  BY <1>3, <1>4, <1>5 DEF IInv

LEMMA PublishInv ==
  ASSUME IInv, Publish PROVE IInv'
<1>0. TypeOK /\ StateInv /\ AloneInv
  BY DEF IInv
<1>1. /\ file \in Versions /\ file' = file + 1 /\ file' \in Versions
      /\ UNCHANGED <<source, state, rows, call, overlapped, faults>>
  BY <1>0, RegisterSyncAssumption DEF Publish, TypeOK, Versions
<1>2. \A v \in Versions : v <= file => v <= file'
  BY <1>1 DEF Versions
<1>3. TypeOK'
  BY <1>0, <1>1 DEF TypeOK
<1>4. ASSUME NEW c \in Calls PROVE KnowsFile(c)' /\ KnowsState(c)'
  <2>1. KnowsFile(c) /\ KnowsState(c) /\ call[c].head \in Versions \cup {Null}
    BY <1>0 DEF IInv, TypeOK, Call
  <2>2. KnowsFile(c)'
    BY <2>1, <1>1, <1>2 DEF KnowsFile, AtRest
  <2> QED
    BY <2>1, <2>2, <1>1 DEF KnowsState
<1>5. StateInv'
  <2>1. state.head \in Versions \cup {Null}
    BY <1>0 DEF TypeOK, SyncState
  <2> QED
    BY <2>1, <1>0, <1>1, <1>2 DEF StateInv, SuccessIsComplete, Current
<1>6. AloneInv'
  BY <1>0, <1>1 DEF AloneInv, AtRest
<1> QED
  BY <1>3, <1>4, <1>5, <1>6 DEF IInv

LEMMA NextInv ==
  ASSUME IInv, [Next]_vars PROVE IInv'
<1>1. CASE UNCHANGED vars
  BY <1>1 DEF vars, IInv, TypeOK, AloneInv, StateInv, SuccessIsComplete, Current, KnowsFile,
     KnowsState, AtRest
<1>2. CASE Next
  <2>1. ASSUME NEW c \in Calls, Step(c) PROVE IInv'
    BY <2>1, FindInv, GetInv, UpsertRunningInv, UpsertChunkInv, UpdateSuccessInv,
       UpdateFailedInv DEF Step
  <2> QED
    BY <1>2, <2>1, HeadInv, SyncFailsInv, CrashInv, PublishInv DEF Next
<1> QED
  BY <1>1, <1>2

-----------------------------------------------------------------------------
(* Theorems *)

\* The invariant holds in every reachable state.
THEOREM SyncInvariant == Spec => []IInv
<1>1. IInv /\ [Next]_vars => IInv'
  BY NextInv
<1> QED
  BY InitInv, <1>1, PTL DEF Spec

\* The register, the sync state and the calls have the values of their types.
THEOREM SyncTypeCorrect == Spec => []TypeOK
<1>1. IInv => TypeOK
  BY DEF IInv
<1> QED
  BY <1>1, SyncInvariant, PTL

\* SUCCESS says that the register holds every row of the file it names, unless
\* syncs overlapped since one ran alone.
THEOREM SuccessMeansComplete == Spec => []SuccessIsComplete
<1>1. IInv => SuccessIsComplete
  BY DEF IInv, StateInv
<1> QED
  BY <1>1, SyncInvariant, PTL

\* A sync that answers, whether it skips the work or does it, leaves a register as
\* new as the file was when it began.
LEMMA AnswerIsFresh ==
  ASSUME IInv, [Next]_vars, NEW c \in Calls,
         ~AtRest(c), call'[c].pc \in {"skipped", "synced"}, ~overlapped', ~Blind
  PROVE  \E v \in Versions : v >= call[c].since /\ Current(v)'
<1> USE RegisterSyncAssumption
<1>0. TypeOK /\ StateInv /\ KnowsFile(c) /\ KnowsState(c)
  BY DEF IInv
<1>1. call[c] \in Call /\ call \in [Calls -> Call] /\ state \in SyncState
  BY <1>0 DEF TypeOK
<1>2. call[c].since \in Versions /\ call[c].since <= file /\ file \in Versions
  BY <1>0 DEF KnowsFile, TypeOK
<1>3. Find(c) \/ Get(c) \/ UpdateSuccess(c)
  <2>1. ASSUME NEW d \in Calls, Head(d) PROVE FALSE
    <3>1. call'[c].pc \in {"find", call[c].pc}
      BY <2>1, <1>1 DEF Head, Call
    <3> QED
      BY <3>1 DEF AtRest
  <2>2. ASSUME NEW d \in Calls, UpsertRunning(d) \/ UpsertChunk(d) PROVE FALSE
    <3>1. call'[c].pc \in {"upsert", call[c].pc}
      BY <2>2, <1>1 DEF UpsertRunning, UpsertChunk, Call
    <3> QED
      BY <3>1 DEF AtRest
  <2>3. ASSUME NEW d \in Calls, UpdateFailed(d) \/ SyncFails(d) PROVE FALSE
    <3>1. call'[c].pc \in {"failed", "idle", call[c].pc}
      BY <2>3, <1>1 DEF UpdateFailed, SyncFails, End, Resting, Call
    <3> QED
      BY <3>1 DEF AtRest
  <2>4. ASSUME NEW d \in Calls, d # c, Find(d) \/ Get(d) \/ UpdateSuccess(d) PROVE FALSE
    <3>1. call'[c] = call[c]
      BY <2>4, <1>1 DEF Find, Get, UpdateSuccess, End
    <3> QED
      BY <3>1 DEF AtRest
  <2>5. ~Crash /\ ~Publish /\ ~UNCHANGED vars
    BY DEF Crash, Publish, vars, AtRest, Resting
  <2> QED
    BY <2>1, <2>2, <2>3, <2>4, <2>5 DEF Next, Step
<1>4. CASE Find(c)
  <2>1. /\ call[c].pc = "find" /\ UNCHANGED <<state, rows, overlapped>>
        /\ state.status = "SUCCESS" /\ UnchangedHead(state, call[c].head)
    <3>1. call'[c].pc # "get"
      OBVIOUS
    <3> QED
      BY <1>4, <1>1, <3>1 DEF Find, Call
  <2>2. state.hash \in Versions /\ Current(state.hash)
    BY <2>1, <1>0, <1>1 DEF StateInv, SuccessIsComplete, SyncState
  <2>3. call[c].head = call[c].since
    <3>1. source.headers
      <4>1. source \in [dataset : {"rab", "aerodromes"}, headers : BOOLEAN]
        BY <1>0 DEF TypeOK
      <4>2. CASE ~source.headers
        <5>1. source.dataset = "rab"
          BY <4>1, <4>2 DEF Blind
        <5>2. call[c].head = Null
          BY <4>2, <1>0 DEF KnowsFile
        <5> QED
          BY <5>1, <5>2, <2>1 DEF UnchangedHead
      <4> QED
        BY <4>2
    <3> QED
      BY <3>1, <1>0 DEF KnowsFile
  <2>4. state.head = call[c].since
    BY <2>1, <2>3 DEF UnchangedHead
  <2> PICK v \in Versions : v = state.hash
    BY <2>2
  <2>5. v >= call[c].since
    BY <2>1, <2>4, <1>0, <1>2 DEF StateInv, Versions
  <2>6. Current(v)'
    BY <2>1, <2>2 DEF Current
  <2> QED
    BY <2>5, <2>6
<1>5. CASE Get(c)
  <2>1. /\ call[c].pc = "get" /\ UNCHANGED <<state, rows, overlapped>>
        /\ call[c].existing.status = "SUCCESS" /\ call[c].existing.hash = file
    <3>1. call'[c].pc # "running"
      OBVIOUS
    <3> QED
      BY <1>5, <1>1, <3>1 DEF Get, Call
  <2>2. call[c].existing = state
    BY <2>1, <1>0 DEF KnowsState
  <2>3. Current(file)
    BY <2>1, <2>2, <1>0 DEF StateInv, SuccessIsComplete
  <2> PICK v \in Versions : v = file
    BY <1>2
  <2>4. v >= call[c].since
    BY <1>2 DEF Versions
  <2>5. Current(v)'
    BY <2>1, <2>3 DEF Current
  <2> QED
    BY <2>4, <2>5
<1>6. CASE UpdateSuccess(c)
  BY <1>6, UpdateSuccessInv
<1> QED
  BY <1>3, <1>4, <1>5, <1>6

THEOREM AnswersAreFresh == Spec => AnswersFresh
<1> DEFINE A == \A c \in Calls :
             /\ ~AtRest(c) /\ call'[c].pc \in {"skipped", "synced"}
             /\ ~overlapped' /\ ~Blind
             => \E v \in Versions : v >= call[c].since /\ Current(v)'
<1>1. IInv /\ [Next]_vars => [A]_vars
  BY AnswerIsFresh
<1>2. AnswersFresh <=> [][A]_vars
  BY DEF AnswersFresh
<1> QED
  BY <1>1, SyncInvariant, PTL DEF Spec, AnswersFresh
=============================================================================
