------------------------- MODULE StoredFilesProofs -------------------------
(***************************************************************************)
(* For any number of calls, types, attempts, failures and crashes: uploads *)
(* leave one active document per type, never none of their own accord,     *)
(* rows and files go together as far as the code can tell, and the map is  *)
(* that of the active KML. An open transaction knows of every active       *)
(* upload of its type: it sees it, or has an old snapshot of it and is     *)
(* refused.                                                                *)
(***************************************************************************)
EXTENDS StoredFiles, TLAPS

\* The file of a call whose state is r.
Filed(f, r) ==
  /\ r.pc = "idle" => row[f] = "none" /\ f \notin store
  /\ r.pc \in {"insert", "commit"} => row[f] = "none" /\ f \in store
  /\ r.pc = "compensate" => row[f] = "none" \/ f \in unanswered
  /\ r.pc \in {"geojson", "done"} => row[f] # "none"
  /\ row[f] # "none" => f \in store \cup unanswered
  /\ f \in store /\ row[f] = "none" => r.pc \notin {"idle", "done", "failed"} \/ f \in broken

\* What an open transaction knows of the committed rows.
Knows(f, r) ==
  /\ r.pc \in {"commit", "geojson"} => f \in Uploads
  /\ r.pc = "geojson" => kind[f] = Kml
  /\ r.pc = "commit" =>
       /\ \A v \in Uploads : row[v] = "active" /\ kind[v] = kind[f] => v \in r.sees \cup r.stale
       /\ \A g \in r.sees : kind[g] = kind[f] /\ row[g] # "none"

\* No map of another upload is on its way once the active one has been committed.
Fresh(u) ==
  u \notin crossed /\ kind[u] = Kml /\ row[u] = "active" /\ call[u].pc \in {"geojson", "done"}
    => \A v \in Uploads \ {u} : call[v].pc # "geojson"

IInv ==
  /\ TypeOK /\ OneActive /\ NeverBare /\ MapIsCurrent /\ MapHasSource
  /\ \A f \in Files : Filed(f, call[f]) /\ Knows(f, call[f])
  /\ \A u \in Uploads : Fresh(u)

-----------------------------------------------------------------------------
(* States of a call *)

Resting == {"idle", "insert", "compensate", "done", "failed"}

LEMMA AtRow ==
  ASSUME NEW pc \in Resting \cup {"geojson"}
  PROVE  At(pc) \in Call /\ At(pc).pc = pc
BY StoredFilesAssumption DEF At, Call, Resting

LEMMA Retried ==
  ASSUME NEW u \in Files, call[u] \in Call, call[u].attempt < MaxAttempts
  PROVE  LET r == [At("insert") EXCEPT !.attempt = call[u].attempt + 1]
         IN  r \in Call /\ r.pc = "insert"
<1> PICK n : n = call[u].attempt + 1
  OBVIOUS
<1>1. n \in 1..MaxAttempts
  BY StoredFilesAssumption DEF Call
<1>2. At("insert") \in Call /\ At("insert").pc = "insert"
  BY AtRow DEF Resting
<1>3. [At("insert") EXCEPT !.attempt = n] \in Call
      /\ [At("insert") EXCEPT !.attempt = n].pc = "insert"
  BY <1>1, <1>2 DEF Call
<1> QED
  BY <1>3

\* Outdates adds rows to what the open transactions have an old snapshot of.
LEMMA OutdatesRow ==
  ASSUME NEW calls \in [Files -> Call], NEW rows \in SUBSET Files
  PROVE  /\ Outdates(calls, rows) \in [Files -> Call]
         /\ \A f \in Files :
              /\ Outdates(calls, rows)[f].pc = calls[f].pc
              /\ Outdates(calls, rows)[f].sees = calls[f].sees
              /\ calls[f].stale \subseteq Outdates(calls, rows)[f].stale
              /\ calls[f].pc = "commit" => rows \subseteq Outdates(calls, rows)[f].stale
<1>1. ASSUME NEW f \in Files
      PROVE  LET r == Outdates(calls, rows)[f]
             IN  /\ r \in Call /\ r.pc = calls[f].pc /\ r.sees = calls[f].sees
                 /\ calls[f].stale \subseteq r.stale
                 /\ calls[f].pc = "commit" => rows \subseteq r.stale
  <2> PICK c : c = calls[f]
    OBVIOUS
  <2>1. c \in Call
    OBVIOUS
  <2> PICK r : r = Outdates(calls, rows)[f]
    OBVIOUS
  <2>2. r = IF c.pc = "commit" THEN [c EXCEPT !.stale = c.stale \cup rows] ELSE c
    BY DEF Outdates
  <2>3. r \in Call /\ r.pc = c.pc /\ r.sees = c.sees /\ c.stale \subseteq r.stale
        /\ (c.pc = "commit" => rows \subseteq r.stale)
    BY <2>1, <2>2 DEF Call
  <2> QED
    BY <2>3
<1>2. Outdates(calls, rows) \in [Files -> Call]
  BY <1>1 DEF Outdates
<1> QED
  BY <1>1, <1>2

LEMMA Known ==
  ASSUME IInv, NEW f \in Files
  PROVE  /\ TypeOK /\ OneActive /\ NeverBare /\ MapIsCurrent /\ MapHasSource
         /\ call \in [Files -> Call] /\ call[f] \in Call
         /\ row \in [Files -> {"none", "active", "superseded", "removed"}]
         /\ store \in SUBSET Files /\ broken \in SUBSET Files /\ faults \in Nat
         /\ Filed(f, call[f]) /\ Knows(f, call[f])
BY DEF IInv, TypeOK

-----------------------------------------------------------------------------
(* Steps of one call that leave rows and maps alone *)

LEMMA Quiet ==
  ASSUME IInv, NEW f \in Files, NEW r \in Call, call' = [call EXCEPT ![f] = r],
         UNCHANGED <<kind, open, row, geojson, unanswered, crossed>>, faults' \in Nat,
         store' \in SUBSET Files, broken' \in SUBSET Files, broken \subseteq broken',
         \A g \in Files : g # f => (g \in store' <=> g \in store),
         r.pc \in {"insert", "commit", "compensate", "failed"},
         Knows(f, r), Filed(f, r)'
  PROVE  IInv'
<1>1. TypeOK /\ OneActive /\ NeverBare /\ MapIsCurrent /\ MapHasSource
  BY DEF IInv
<1>2. /\ call' \in [Files -> Call] /\ call'[f] = r
      /\ \A g \in Files : g # f => call'[g] = call[g]
  BY <1>1 DEF TypeOK
<1>3. TypeOK'
  BY <1>1, <1>2 DEF TypeOK
<1>4. OneActive' /\ NeverBare' /\ MapHasSource'
  BY <1>1 DEF OneActive, NeverBare, MapHasSource
<1>5. MapIsCurrent'
  BY <1>1, <1>2 DEF MapIsCurrent, Files
<1>6. ASSUME NEW g \in Files PROVE Filed(g, call[g])' /\ Knows(g, call[g])'
  <2> PICK c : c = call'[g]
    OBVIOUS
  <2>1. Knows(g, c)
    BY <1>2 DEF IInv
  <2>2. Knows(g, call[g])'
    BY <2>1 DEF Knows
  <2>3. CASE g = f
    BY <2>2, <2>3, <1>2 DEF Filed
  <2>4. CASE g # f
    <3>1. Filed(g, c) /\ (g \in store' <=> g \in store)
      BY <2>4, <1>2 DEF IInv
    <3>2. Filed(g, call[g])'
      BY <3>1 DEF Filed
    <3> QED
      BY <2>2, <3>2
  <2> QED
    BY <2>3, <2>4
<1>7. ASSUME NEW u \in Uploads PROVE Fresh(u)'
  <2>1. Fresh(u)
    BY DEF IInv
  <2> QED
    BY <1>2, <2>1 DEF Fresh, Files
<1> QED
  BY <1>3, <1>4, <1>5, <1>6, <1>7 DEF IInv

\* Those written with Goto.
LEMMA GoesTo ==
  ASSUME IInv, NEW f \in Files, NEW pc \in {"insert", "compensate", "failed"}, Goto(f, pc),
         UNCHANGED <<kind, open, row, geojson, unanswered, crossed>>, faults' \in Nat,
         store' \in SUBSET Files, broken' \in SUBSET Files, broken \subseteq broken',
         \A g \in Files : g # f => (g \in store' <=> g \in store),
         \A r : r.pc = pc => Filed(f, r)'
  PROVE  IInv'
<1> PICK r : r = At(pc)
  OBVIOUS
<1>1. r \in Call /\ r.pc = pc
  BY AtRow DEF Resting
<1>2. call' = [call EXCEPT ![f] = r]
  BY DEF Goto
<1>3. Knows(f, r)
  BY <1>1 DEF Knows
<1>4. Filed(f, r)'
  BY <1>1
<1> QED
  BY <1>1, <1>2, <1>3, <1>4, Quiet

LEMMA StoreInv ==
  ASSUME IInv, NEW f \in Files, Store(f) PROVE IInv'
<1>1. store \in SUBSET Files /\ broken \in SUBSET Files /\ faults \in Nat /\ row[f] = "none"
  BY Known DEF Store, Filed
<1>2. /\ Goto(f, "insert") /\ store' = store \cup {f}
      /\ UNCHANGED <<kind, open, row, geojson, unanswered, broken, crossed, faults>>
  BY DEF Store
<1>3. \A r : r.pc = "insert" => Filed(f, r)'
  BY <1>1, <1>2 DEF Filed
<1> QED
  BY <1>1, <1>2, <1>3, GoesTo

LEMMA StoreFailsInv ==
  ASSUME IInv, NEW f \in Files, StoreFails(f) PROVE IInv'
<1>1. store \in SUBSET Files /\ broken \in SUBSET Files /\ faults \in Nat /\ row[f] = "none"
  BY Known DEF StoreFails, Filed
<1>2. /\ Goto(f, "failed") /\ store' \in {store, store \cup {f}}
      /\ broken' = broken \cup {f} /\ faults' = faults + 1
      /\ UNCHANGED <<kind, open, row, geojson, unanswered, crossed>>
  BY DEF StoreFails, Fault
<1>3. \A r : r.pc = "failed" => Filed(f, r)'
  BY <1>1, <1>2 DEF Filed
<1> QED
  BY <1>1, <1>2, <1>3, GoesTo

LEMMA CompensateInv ==
  ASSUME IInv, NEW f \in Files, Compensate(f) PROVE IInv'
<1>1. /\ store \in SUBSET Files /\ broken \in SUBSET Files /\ faults \in Nat
      /\ row[f] = "none" \/ f \in unanswered
  BY Known DEF Compensate, Filed
<1>2. /\ Goto(f, "failed") /\ store' = store \ {f}
      /\ UNCHANGED <<kind, open, row, geojson, unanswered, broken, crossed, faults>>
  BY DEF Compensate
<1>3. \A r : r.pc = "failed" => Filed(f, r)'
  BY <1>1, <1>2 DEF Filed
<1> QED
  BY <1>1, <1>2, <1>3, GoesTo

LEMMA DeleteFailsInv ==
  ASSUME IInv, NEW f \in Files, DeleteFails(f) PROVE IInv'
<1>1. /\ store \in SUBSET Files /\ broken \in SUBSET Files /\ faults \in Nat
      /\ Filed(f, call[f]) /\ call[f].pc = "compensate"
  BY Known DEF DeleteFails
<1>2. /\ Goto(f, "failed") /\ broken' = broken \cup {f} /\ faults' = faults + 1
      /\ UNCHANGED <<kind, open, row, geojson, store, unanswered, crossed>>
  BY DEF DeleteFails, Fault
<1>3. \A r : r.pc = "failed" => Filed(f, r)'
  BY <1>1, <1>2 DEF Filed
<1> QED
  BY <1>1, <1>2, <1>3, GoesTo

LEMMA TransactionFailsInv ==
  ASSUME IInv, NEW u \in Files, TransactionFails(u) PROVE IInv'
<1>1. /\ store \in SUBSET Files /\ broken \in SUBSET Files /\ faults \in Nat
      /\ row[u] = "none" /\ u \in store
  BY Known DEF TransactionFails, Filed
<1>2. /\ Goto(u, "compensate") /\ faults' = faults + 1
      /\ UNCHANGED <<kind, open, row, geojson, store, unanswered, broken, crossed>>
  BY DEF TransactionFails, Fault
<1>3. \A r : r.pc = "compensate" => Filed(u, r)'
  BY <1>1, <1>2 DEF Filed
<1> QED
  BY <1>1, <1>2, <1>3, GoesTo

LEMMA ConflictInv ==
  ASSUME IInv, NEW u \in Files, Conflict(u) PROVE IInv'
<1>1. /\ store \in SUBSET Files /\ broken \in SUBSET Files /\ faults \in Nat
      /\ row[u] = "none" /\ u \in store /\ call[u] \in Call
  BY Known DEF Conflict, Filed
<1>2. UNCHANGED <<kind, open, row, geojson, store, unanswered, broken, crossed, faults>>
  BY DEF Conflict
<1>3. CASE Goto(u, "compensate")
  <2>1. \A r : r.pc = "compensate" => Filed(u, r)'
    BY <1>1, <1>2 DEF Filed
  <2> QED
    BY <1>1, <1>2, <1>3, <2>1, GoesTo
<1>4. CASE /\ call[u].attempt < MaxAttempts
           /\ call' = [call EXCEPT ![u] = [At("insert") EXCEPT !.attempt = call[u].attempt + 1]]
  <2> PICK r : r = [At("insert") EXCEPT !.attempt = call[u].attempt + 1]
    OBVIOUS
  <2>1. r \in Call /\ r.pc = "insert"
    BY <1>1, <1>4, Retried
  <2>2. call' = [call EXCEPT ![u] = r]
    BY <1>4
  <2>3. Knows(u, r)
    BY <2>1 DEF Knows
  <2>4. Filed(u, r)'
    BY <1>1, <1>2, <2>1 DEF Filed
  <2> QED
    BY <1>1, <1>2, <2>1, <2>2, <2>3, <2>4, Quiet
<1> QED
  BY <1>3, <1>4 DEF Conflict, Refused

\* The snapshot holds every active upload of the type.
LEMMA BeginInv ==
  ASSUME IInv, NEW u \in Files, Begin(u) PROVE IInv'
<1>1. /\ store \in SUBSET Files /\ broken \in SUBSET Files /\ faults \in Nat
      /\ row[u] = "none" /\ u \in store /\ call[u] \in Call /\ u \in Uploads
  BY Known DEF Begin, Filed
<1>2. UNCHANGED <<kind, open, row, geojson, store, unanswered, broken, crossed, faults>>
  BY DEF Begin
<1> PICK c : c = call[u]
  OBVIOUS
<1> PICK r : r = [c EXCEPT !.pc = "commit", !.sees = ActiveOf(kind[u]), !.stale = {}]
  OBVIOUS
<1>3. call' = [call EXCEPT ![u] = r]
  BY DEF Begin
<1>4. r \in Call /\ r.pc = "commit" /\ r.sees = ActiveOf(kind[u])
  BY <1>1 DEF Call, ActiveOf
<1>5. Knows(u, r)
  BY <1>1, <1>4 DEF Knows, ActiveOf, Files
<1>6. Filed(u, r)'
  BY <1>1, <1>2, <1>4 DEF Filed
<1> QED
  BY <1>1, <1>2, <1>3, <1>4, <1>5, <1>6, Quiet

-----------------------------------------------------------------------------
(* Steps that change rows: f's own becomes active, or is removed; the states of the
   others only grow staler *)

\* What is left to show when the call of f goes on as r and the tables change.
LEMMA RowsChange ==
  ASSUME IInv, NEW f \in Files,
         call' \in [Files -> Call],
         \A g \in Files \ {f} : /\ call'[g].pc = call[g].pc
                                /\ call'[g].sees = call[g].sees
                                /\ call[g].stale \subseteq call'[g].stale,
         row' \in [Files -> {"none", "active", "superseded", "removed"}],
         \A g \in Files : row[g] # "none" => row'[g] # "none",
         \A g \in Files \ {f} : row'[g] # "none" => row[g] # "none",
         \A g \in Files \ {f} : row'[g] = "active" => row[g] = "active",
         UNCHANGED <<kind, open, geojson, store, broken>>, faults' \in Nat,
         unanswered \subseteq unanswered', unanswered' \in SUBSET Files,
         OneActive', NeverBare', MapIsCurrent', Knows(f, call[f])', Filed(f, call[f])',
         crossed' \in SUBSET Uploads,
         \A u \in Uploads : Fresh(u)',
         \A g \in Files \ {f} :
           call[g].pc = "commit" /\ f \in Uploads /\ row'[f] = "active" /\ kind[f] = kind[g]
             => f \in call'[g].sees \cup call'[g].stale
  PROVE  IInv'
<1>1. TypeOK /\ MapHasSource
  BY DEF IInv
<1>2. TypeOK'
  BY <1>1 DEF TypeOK
<1>3. MapHasSource'
  BY <1>1 DEF MapHasSource, TypeOK, Files, Geojson
<1>4. ASSUME NEW g \in Files PROVE Filed(g, call[g])' /\ Knows(g, call[g])'
  <2>1. CASE g = f
    BY <2>1
  <2>2. CASE g # f
    <3> PICK c : c = call[g]
      OBVIOUS
    <3> PICK d : d = call'[g]
      OBVIOUS
    <3>1. Filed(g, c) /\ Knows(g, c)
      BY DEF IInv
    <3>2. d.pc = c.pc /\ d.sees = c.sees /\ c.stale \subseteq d.stale
      BY <2>2
    <3>3. (row'[g] # "none" <=> row[g] # "none") /\ g \in Files \ {f}
      BY <2>2
    <3>4. Filed(g, call[g])'
      BY <3>1, <3>2, <3>3 DEF Filed
    <3>5. (d.pc \in {"commit", "geojson"} => g \in Uploads) /\ (d.pc = "geojson" => kind[g] = Kml)
      BY <3>1, <3>2 DEF Knows
    <3>6. ASSUME d.pc = "commit", NEW v \in Uploads, row'[v] = "active", kind[v] = kind[g]
          PROVE  v \in d.sees \cup d.stale
      <4>1. CASE v = f
        BY <3>2, <3>3, <3>6, <4>1
      <4>2. CASE v # f
        <5>1. v \in Files
          BY DEF Files
        <5>2. row[v] = "active"
          BY <3>6, <4>2, <5>1
        <5> QED
          BY <3>1, <3>2, <3>6, <5>2 DEF Knows
      <4> QED
        BY <4>1, <4>2
    <3>7. ASSUME d.pc = "commit", NEW h \in d.sees
          PROVE  kind[h] = kind[g] /\ row'[h] # "none"
      <4>1. kind[h] = kind[g] /\ row[h] # "none"
        BY <3>1, <3>2, <3>7 DEF Knows
      <4>2. d \in Call
        OBVIOUS
      <4>3. h \in Files
        BY <4>2, <3>7 DEF Call
      <4> QED
        BY <4>1, <4>3
    <3>8. Knows(g, call[g])'
      BY <3>5, <3>6, <3>7 DEF Knows
    <3> QED
      BY <3>4, <3>8
  <2> QED
    BY <2>1, <2>2
<1> QED
  BY <1>2, <1>3, <1>4 DEF IInv

\* A row that is inserted on its own: nothing is said of how many of those there are.
LEMMA Inserted ==
  ASSUME IInv, NEW f \in Inserts, NEW pc \in {"done", "compensate"},
         call[f].pc = "insert", Goto(f, pc), row' = [row EXCEPT ![f] = "active"],
         UNCHANGED <<kind, open, geojson, store, broken, crossed>>, faults' \in Nat,
         unanswered' \in {unanswered, unanswered \cup {f}},
         pc = "compensate" => f \in unanswered'
  PROVE  IInv'
<1> PICK r : r = At(pc)
  OBVIOUS
<1>1. r \in Call /\ r.pc = pc
  BY AtRow DEF Resting
<1>2. f \in Files /\ f \notin Uploads
  BY StoredFilesAssumption DEF Files
<1>3. Filed(f, call[f]) /\ TypeOK /\ OneActive /\ NeverBare /\ MapIsCurrent
  BY <1>2, Known
<1>4. row[f] = "none" /\ f \in store
  BY <1>3 DEF Filed
<1>5. /\ call' \in [Files -> Call] /\ call'[f] = r
      /\ \A g \in Files \ {f} : call'[g] = call[g] /\ row'[g] = row[g]
      /\ row' \in [Files -> {"none", "active", "superseded", "removed"}] /\ row'[f] = "active"
  BY <1>1, <1>2, <1>3 DEF Goto, TypeOK
<1>6. unanswered' \in SUBSET Files /\ crossed' \in SUBSET Uploads
  BY <1>2, <1>3 DEF TypeOK
<1>7. \A u \in Uploads : u \in Files \ {f}
  BY <1>2 DEF Files
<1>8. OneActive'
  BY <1>3, <1>5, <1>7 DEF OneActive
<1>9. NeverBare'
  BY <1>3, <1>5, <1>7 DEF NeverBare
<1>10. MapIsCurrent'
  BY <1>3, <1>5, <1>7 DEF MapIsCurrent
<1>11. Filed(f, call[f])'
  BY <1>1, <1>4, <1>5 DEF Filed
<1>12. Knows(f, call[f])'
  BY <1>1, <1>5 DEF Knows
<1>13. ASSUME NEW u \in Uploads PROVE Fresh(u)'
  <2>1. Fresh(u)
    BY DEF IInv
  <2> QED
    BY <1>5, <1>7, <2>1 DEF Fresh
<1> QED
  BY <1>2, <1>4, <1>5, <1>6, <1>8, <1>9, <1>10, <1>11, <1>12, <1>13, RowsChange

LEMMA InsertInv ==
  ASSUME IInv, NEW f \in Files, Insert(f) PROVE IInv'
<1>1. faults \in Nat /\ store \in SUBSET Files /\ broken \in SUBSET Files
  BY Known
<1>2. CASE CreateDocument(f) \/ PersistMovement(f) \/ AddVisitImage(f)
  <2>1. f \in Inserts /\ InsertRow(f)
    BY <1>2 DEF CreateDocument, PersistMovement, AddVisitImage
  <2>2. /\ call[f].pc = "insert" /\ Goto(f, "done") /\ row' = [row EXCEPT ![f] = "active"]
        /\ UNCHANGED <<kind, open, geojson, store, unanswered, broken, crossed, faults>>
    BY <2>1 DEF InsertRow
  <2>3. unanswered' \in {unanswered, unanswered \cup {f}} /\ faults' \in Nat
    BY <1>1, <2>2
  <2> QED
    BY <2>1, <2>2, <2>3, Inserted
<1>3. CASE InsertFails(f)
  <2>1. /\ f \in Inserts /\ call[f].pc = "insert" /\ Goto(f, "compensate")
        /\ faults' = faults + 1
        /\ UNCHANGED <<kind, open, geojson, store, broken, crossed>>
    BY <1>3 DEF InsertFails, Fault
  <2>2. CASE UNCHANGED <<row, unanswered>>
    <3>1. row[f] = "none" /\ f \in store
      BY <2>1, Known DEF Filed
    <3>2. \A r : r.pc = "compensate" => Filed(f, r)'
      BY <2>1, <2>2, <3>1 DEF Filed
    <3> QED
      BY <1>1, <2>1, <2>2, <3>2, GoesTo
  <2>3. CASE row' = [row EXCEPT ![f] = "active"] /\ unanswered' = unanswered \cup {f}
    <3>1. /\ unanswered' \in {unanswered, unanswered \cup {f}} /\ f \in unanswered'
          /\ row' = [row EXCEPT ![f] = "active"] /\ faults' \in Nat
      BY <1>1, <2>1, <2>3
    <3> QED
      BY <2>1, <3>1, Inserted
  <2> QED
    BY <1>3, <2>2, <2>3 DEF InsertFails
<1> QED
  BY <1>2, <1>3 DEF Insert

\* A removal leaves the document it removes, and what it superseded, accounted for.
LEMMA RemoveInv ==
  ASSUME IInv, NEW f \in Files, Remove(f) PROVE IInv'
<1>1. /\ row[f] = "active" /\ row' = [row EXCEPT ![f] = "removed"]
      /\ call' = Outdates(call, {f})
      /\ UNCHANGED <<kind, open, geojson, store, unanswered, broken, crossed, faults>>
  BY DEF Remove
<1>2. /\ Filed(f, call[f]) /\ Knows(f, call[f]) /\ TypeOK /\ OneActive /\ NeverBare
      /\ MapIsCurrent /\ call \in [Files -> Call] /\ faults \in Nat
      /\ row \in [Files -> {"none", "active", "superseded", "removed"}]
  BY Known
<1>3. /\ call' \in [Files -> Call]
      /\ \A g \in Files : /\ call'[g].pc = call[g].pc /\ call'[g].sees = call[g].sees
                          /\ call[g].stale \subseteq call'[g].stale
  BY <1>1, <1>2, OutdatesRow
<1>4. /\ row' \in [Files -> {"none", "active", "superseded", "removed"}] /\ row'[f] = "removed"
      /\ \A g \in Files \ {f} : row'[g] = row[g]
  BY <1>1, <1>2
<1>5. \A g \in Files : row'[g] = "active" => row[g] = "active"
  BY <1>4
<1>6. \A u \in Uploads : u \in Files
  BY DEF Files
<1>7. OneActive'
  BY <1>1, <1>2, <1>5, <1>6 DEF OneActive
<1>8. NeverBare'
  BY <1>1, <1>2, <1>4, <1>6 DEF NeverBare
<1>9. MapIsCurrent'
  BY <1>1, <1>2, <1>3, <1>5, <1>6 DEF MapIsCurrent
<1>10. Filed(f, call[f])'
  BY <1>1, <1>2, <1>3, <1>4 DEF Filed
<1>11. ASSUME NEW u \in Uploads PROVE Fresh(u)'
  <2>1. Fresh(u)
    BY DEF IInv
  <2> QED
    BY <1>1, <1>3, <1>5, <1>6, <2>1 DEF Fresh
<1>12. call[f].pc # "commit"
  BY <1>1, <1>2 DEF Filed
<1>13. Knows(f, call[f])'
  BY <1>1, <1>2, <1>3, <1>12 DEF Knows
<1>14. unanswered \in SUBSET Files /\ crossed \in SUBSET Uploads
  BY <1>2 DEF TypeOK
<1> QED
  BY <1>1, <1>2, <1>3, <1>4, <1>7, <1>8, <1>9, <1>10, <1>11, <1>13, <1>14, RowsChange

LEMMA RenameInv ==
  ASSUME IInv, NEW f \in Files, Rename(f) PROVE IInv'
<1>1. /\ row[f] = "active" /\ call' = Outdates(call, {f})
      /\ UNCHANGED <<kind, open, row, geojson, store, unanswered, broken, crossed, faults>>
  BY DEF Rename
<1>2. /\ Filed(f, call[f]) /\ Knows(f, call[f]) /\ TypeOK /\ OneActive /\ NeverBare
      /\ MapIsCurrent /\ call \in [Files -> Call] /\ faults \in Nat
      /\ row \in [Files -> {"none", "active", "superseded", "removed"}]
  BY Known
<1>3. /\ call' \in [Files -> Call]
      /\ \A g \in Files : /\ call'[g].pc = call[g].pc /\ call'[g].sees = call[g].sees
                          /\ call[g].stale \subseteq call'[g].stale
                          /\ call[g].pc = "commit" => f \in call'[g].stale
  BY <1>1, <1>2, OutdatesRow
<1>4. \A u \in Uploads : u \in Files
  BY DEF Files
<1>5. OneActive' /\ NeverBare'
  BY <1>1, <1>2 DEF OneActive, NeverBare
<1>6. MapIsCurrent'
  BY <1>1, <1>2, <1>3, <1>4 DEF MapIsCurrent
<1>7. Filed(f, call[f])'
  BY <1>1, <1>2, <1>3 DEF Filed
<1>8. call[f].pc # "commit"
  BY <1>1, <1>2 DEF Filed
<1>9. Knows(f, call[f])'
  BY <1>1, <1>2, <1>3, <1>8 DEF Knows
<1>10. ASSUME NEW u \in Uploads PROVE Fresh(u)'
  <2>1. Fresh(u)
    BY DEF IInv
  <2> QED
    BY <1>1, <1>3, <1>4, <2>1 DEF Fresh
<1>11. unanswered \in SUBSET Files /\ crossed \in SUBSET Uploads
  BY <1>2 DEF TypeOK
<1> QED
  BY <1>1, <1>2, <1>3, <1>5, <1>6, <1>7, <1>9, <1>10, <1>11, RowsChange

-----------------------------------------------------------------------------
(* The commit of an upload *)

LEMMA CommittedCalls ==
  ASSUME call \in [Files -> Call], NEW u \in Files, NEW r \in Call,
         NEW rows \in SUBSET Files, u \in rows,
         call' = Outdates([call EXCEPT ![u] = r], rows)
  PROVE  /\ call' \in [Files -> Call] /\ call'[u].pc = r.pc
         /\ \A g \in Files \ {u} :
              /\ call'[g].pc = call[g].pc /\ call'[g].sees = call[g].sees
              /\ call[g].stale \subseteq call'[g].stale
              /\ call[g].pc = "commit" => u \in call'[g].stale
<1>1. [call EXCEPT ![u] = r] \in [Files -> Call]
  OBVIOUS
<1>2. ASSUME NEW calls \in [Files -> Call], call' = Outdates(calls, rows),
             calls[u] = r, \A g \in Files \ {u} : calls[g] = call[g]
      PROVE  /\ call' \in [Files -> Call] /\ call'[u].pc = r.pc
             /\ \A g \in Files \ {u} :
                  /\ call'[g].pc = call[g].pc /\ call'[g].sees = call[g].sees
                  /\ call[g].stale \subseteq call'[g].stale
                  /\ call[g].pc = "commit" => u \in call'[g].stale
  <2>1. /\ Outdates(calls, rows) \in [Files -> Call]
        /\ \A g \in Files :
             LET next == Outdates(calls, rows)[g]
             IN  /\ next.pc = calls[g].pc /\ next.sees = calls[g].sees
                 /\ calls[g].stale \subseteq next.stale
                 /\ calls[g].pc = "commit" => rows \subseteq next.stale
    BY ONLY OutdatesRow, calls \in [Files -> Call], rows \in SUBSET Files
  <2> QED
    BY <1>2, <2>1
<1> QED
  BY <1>1, <1>2

\* Whatever becomes of the call afterwards. An active upload of the type that is not
\* superseded would have been a conflict.
LEMMA Committed ==
  ASSUME IInv, NEW u \in Files, NEW pc \in {"geojson", "done", "compensate"}, Commits(u, pc),
         faults' \in Nat, unanswered' \in {unanswered, unanswered \cup {u}},
         pc = "compensate" => u \in unanswered',
         pc = "geojson" <=> kind[u] = Kml /\ pc # "compensate"
  PROVE  IInv'
<1>1. /\ u \in Uploads /\ call[u].pc = "commit" /\ ~Conflicts(u)
      /\ row' = Superseded(u)
      /\ call' = Outdates([call EXCEPT ![u] = At(pc)], call[u].sees \cup {u})
      /\ crossed' = IF \E v \in Uploads : call[v].pc = "geojson" THEN crossed \cup {u} ELSE crossed
      /\ UNCHANGED <<kind, open, geojson, store, broken>>
  BY DEF Commits
<1>2. /\ Filed(u, call[u]) /\ Knows(u, call[u]) /\ TypeOK /\ OneActive /\ NeverBare
      /\ MapIsCurrent /\ call \in [Files -> Call] /\ call[u] \in Call
      /\ row \in [Files -> {"none", "active", "superseded", "removed"}]
  BY Known
<1> PICK c : c = call[u]
  OBVIOUS
<1> PICK r : r = At(pc)
  OBVIOUS
<1>3. r \in Call /\ r.pc = pc
  BY AtRow DEF Resting
<1>4. c.sees \subseteq Files /\ c.pc = "commit"
  BY <1>1, <1>2 DEF Call
<1>6. /\ call' \in [Files -> Call] /\ call'[u].pc = pc
      /\ \A g \in Files \ {u} :
           /\ call'[g].pc = call[g].pc /\ call'[g].sees = call[g].sees
           /\ call[g].stale \subseteq call'[g].stale
           /\ call[g].pc = "commit" => u \in call'[g].stale
  <2>1. c.sees \cup {u} \in SUBSET Files
    BY <1>4
  <2> PICK rows \in SUBSET Files : u \in rows /\ call' = Outdates([call EXCEPT ![u] = r], rows)
    BY <1>1, <2>1
  <2> QED
    BY <1>2, <1>3, CommittedCalls
<1>7. /\ row' \in [Files -> {"none", "active", "superseded", "removed"}] /\ row'[u] = "active"
      /\ \A g \in Files \ {u} :
           row'[g] = IF g \in c.sees THEN "superseded" ELSE row[g]
  BY <1>1, <1>2 DEF Superseded
<1>8. \A g \in c.sees : kind[g] = kind[u] /\ row[g] # "none"
  BY <1>1, <1>2, <1>4 DEF Knows
<1>9. row[u] = "none" /\ u \in store
  BY <1>1, <1>2 DEF Filed
<1>10. \A v \in Uploads : v \in Files
  BY DEF Files
<1>11. ASSUME NEW v \in Uploads \ {u}, row'[v] = "active", kind[v] = kind[u]
       PROVE  FALSE
  <2>1. row[v] = "active" /\ v \notin c.sees
    BY <1>7, <1>10, <1>11
  <2>2. v \in c.sees \cup c.stale
    BY <1>2, <1>4, <1>11, <2>1 DEF Knows
  <2> QED
    BY <1>1, <1>11, <2>1, <2>2 DEF Conflicts
<1>12. \A g \in Files \ {u} : row'[g] = "active" => row[g] = "active"
  BY <1>7
<1>13. OneActive'
  <2>1. ASSUME NEW v \in Uploads, NEW w \in Uploads, row'[v] = "active", row'[w] = "active",
               kind[v] = kind[w], v # w
        PROVE  FALSE
    <3>1. CASE v = u
      BY <1>11, <2>1, <3>1
    <3>2. CASE w = u
      BY <1>11, <2>1, <3>2
    <3>3. CASE v # u /\ w # u
      BY <1>2, <1>10, <1>12, <2>1, <3>3 DEF OneActive
    <3> QED
      BY <3>1, <3>2, <3>3
  <2> QED
    BY <1>1, <2>1 DEF OneActive
<1>14. NeverBare'
  <2>1. ASSUME NEW f \in Files, row'[f] = "superseded"
        PROVE  \E v \in Uploads : kind[v] = kind[f] /\ row'[v] \in {"active", "removed"}
    <3>1. CASE kind[f] = kind[u]
      BY <1>1, <1>7, <3>1
    <3>2. CASE kind[f] # kind[u]
      <4>1. f # u /\ f \notin c.sees /\ row[f] = "superseded"
        BY <1>7, <1>8, <2>1, <3>2
      <4>2. PICK v \in Uploads : kind[v] = kind[f] /\ row[v] \in {"active", "removed"}
        BY <1>2, <4>1 DEF NeverBare
      <4>3. v # u /\ v \notin c.sees
        BY <1>8, <3>2, <4>2
      <4> QED
        BY <1>7, <1>10, <4>2, <4>3
    <3> QED
      BY <3>1, <3>2
  <2> QED
    BY <1>1, <2>1 DEF NeverBare
<1>15. crossed \subseteq crossed' /\ crossed' \in SUBSET Uploads
  BY <1>1, <1>2 DEF TypeOK
<1>16. MapIsCurrent'
  <2>1. ASSUME NEW v \in Uploads \ crossed', kind[v] = Kml, row'[v] = "active",
               call'[v].pc = "done", open
        PROVE  geojson.state # "none" /\ geojson.source \in {v, Null}
    <3>1. v # u
      BY <1>6, <2>1
    <3> QED
      BY <1>2, <1>6, <1>10, <1>12, <1>15, <2>1, <3>1 DEF MapIsCurrent
  <2> QED
    BY <1>1, <2>1 DEF MapIsCurrent
<1>17. ASSUME NEW v \in Uploads PROVE Fresh(v)'
  <2>1. SUFFICES ASSUME v \notin crossed', kind[v] = Kml, row'[v] = "active",
                        call'[v].pc \in {"geojson", "done"},
                        NEW w \in Uploads \ {v}, call'[w].pc = "geojson"
                 PROVE  FALSE
    BY <1>1 DEF Fresh
  <2>2. CASE v = u
    <3>1. w \in Files \ {u} /\ call[w].pc = "geojson"
      BY <1>6, <1>10, <2>1, <2>2
    <3> QED
      BY <1>1, <2>1, <2>2, <3>1
  <2>3. CASE v # u
    <3>1. row[v] = "active" /\ call[v].pc \in {"geojson", "done"} /\ v \notin crossed
      BY <1>6, <1>10, <1>12, <1>15, <2>1, <2>3
    <3>2. CASE w = u
      BY <1>6, <1>11, <2>1, <2>3, <3>2
    <3>3. CASE w # u
      <4>1. call[w].pc = "geojson"
        BY <1>6, <1>10, <2>1, <3>3
      <4>2. Fresh(v)
        BY DEF IInv
      <4> QED
        BY <2>1, <3>1, <4>1, <4>2 DEF Fresh
    <3> QED
      BY <3>2, <3>3
  <2> QED
    BY <2>2, <2>3
<1>18. Filed(u, call[u])'
  BY <1>1, <1>6, <1>7, <1>9 DEF Filed
<1>19. Knows(u, call[u])'
  BY <1>1, <1>6 DEF Knows
<1>20. unanswered \subseteq unanswered' /\ unanswered' \in SUBSET Files
  BY <1>2 DEF TypeOK
<1>21. \A g \in Files : row[g] # "none" => row'[g] # "none"
  BY <1>7
<1>22. \A g \in Files \ {u} : row'[g] # "none" => row[g] # "none"
  BY <1>7, <1>8
<1> QED
  BY <1>1, <1>6, <1>7, <1>12, <1>13, <1>14, <1>15, <1>16, <1>17, <1>18, <1>19, <1>20, <1>21,
     <1>22, RowsChange

LEMMA CommitInv ==
  ASSUME IInv, NEW u \in Files, Commit(u) PROVE IInv'
<1> PICK pc : pc = IF kind[u] = Kml THEN "geojson" ELSE "done"
  OBVIOUS
<1>1. /\ Commits(u, pc) /\ UNCHANGED <<unanswered, faults>> /\ faults \in Nat
      /\ pc \in {"geojson", "done", "compensate"}
      /\ pc = "geojson" <=> kind[u] = Kml /\ pc # "compensate"
  BY Known DEF Commit
<1> QED
  BY <1>1, Committed

LEMMA CommitUnansweredInv ==
  ASSUME IInv, NEW u \in Files, CommitUnanswered(u) PROVE IInv'
<1>1. /\ Commits(u, "compensate") /\ unanswered' = unanswered \cup {u}
      /\ faults' \in Nat
  BY Known DEF CommitUnanswered, Fault
<1> QED
  BY <1>1, Committed

-----------------------------------------------------------------------------
(* Maps *)

\* What is left to show when the map changes and the calls of D end their derivation.
LEMMA MapChanges ==
  ASSUME IInv, NEW D \in SUBSET Files, call' \in [Files -> Call],
         \A f \in Files \ D : call'[f] = call[f],
         \A f \in D : call[f].pc = "geojson" /\ call'[f].pc = "done",
         UNCHANGED <<kind, open, row, store, unanswered, broken>>, faults' \in Nat,
         geojson' \in Geojson,
         crossed \subseteq crossed', crossed' \in SUBSET Uploads,
         MapIsCurrent', MapHasSource'
  PROVE  IInv'
<1>1. TypeOK /\ OneActive /\ NeverBare
  BY DEF IInv
<1>2. TypeOK'
  BY <1>1 DEF TypeOK
<1>3. OneActive' /\ NeverBare'
  BY <1>1 DEF OneActive, NeverBare
<1>4. ASSUME NEW f \in Files PROVE Filed(f, call[f])' /\ Knows(f, call[f])'
  <2> PICK c : c = call[f]
    OBVIOUS
  <2>1. Filed(f, c) /\ Knows(f, c)
    BY DEF IInv
  <2>2. CASE f \notin D
    <3>1. Filed(f, call[f])'
      BY <2>1, <2>2 DEF Filed
    <3>2. Knows(f, call[f])'
      BY <2>1, <2>2 DEF Knows
    <3> QED
      BY <3>1, <3>2
  <2>3. CASE f \in D
    <3>1. Filed(f, call[f])'
      BY <2>1, <2>3 DEF Filed
    <3>2. Knows(f, call[f])'
      BY <2>1, <2>3 DEF Knows
    <3> QED
      BY <3>1, <3>2
  <2> QED
    BY <2>2, <2>3
<1>5. ASSUME NEW u \in Uploads PROVE Fresh(u)'
  <2>1. Fresh(u)
    BY DEF IInv
  <2>2. \A v \in Uploads : v \in Files
    BY DEF Files
  <2> QED
    BY <2>1, <2>2 DEF Fresh
<1> QED
  BY <1>2, <1>3, <1>4, <1>5 DEF IInv

\* The derivation of u ends: with its map, or with none when the aerodrome is gone or
\* u is marked.
LEMMA Derived ==
  ASSUME IInv, NEW u \in Uploads, call[u].pc = "geojson", Goto(u, "done"),
         UNCHANGED <<kind, open, row, store, unanswered, broken>>, faults' \in Nat,
         Upsert(u) \/ UNCHANGED geojson,
         crossed' \in {crossed, crossed \cup {u}},
         Upsert(u) \/ ~open \/ u \in crossed'
  PROVE  IInv'
<1> PICK r : r = At("done")
  OBVIOUS
<1>1. r \in Call /\ r.pc = "done"
  BY AtRow DEF Resting
<1>2. u \in Files
  BY DEF Files
<1>3. /\ TypeOK /\ MapIsCurrent /\ MapHasSource /\ Filed(u, call[u]) /\ Knows(u, call[u])
      /\ call \in [Files -> Call]
  BY <1>2, Known
<1>4. /\ call' \in [Files -> Call] /\ call'[u] = r
      /\ \A f \in Files : f # u => call'[f] = call[f]
  BY <1>1, <1>2, <1>3 DEF Goto
<1>5. row[u] # "none" /\ kind[u] = Kml
  BY <1>3 DEF Filed, Knows
<1>6. geojson' \in Geojson
      /\ (geojson' = geojson \/ (geojson'.source = u /\ geojson'.state = "active"))
  BY <1>3 DEF Upsert, TypeOK, Geojson
<1>7. crossed \subseteq crossed' /\ crossed' \in SUBSET Uploads
  BY <1>3 DEF TypeOK
<1>8. MapHasSource'
  BY <1>3, <1>5, <1>6 DEF MapHasSource
<1>9. MapIsCurrent'
  <2>1. SUFFICES ASSUME NEW v \in Uploads \ crossed', kind[v] = Kml, row[v] = "active",
                        call'[v].pc = "done", open
                 PROVE  geojson'.state # "none" /\ geojson'.source \in {v, Null}
    BY DEF MapIsCurrent
  <2>2. CASE v = u
    BY <2>1, <2>2 DEF Upsert
  <2>3. CASE v # u
    <3>1. call[v].pc = "done" /\ v \notin crossed
      BY <1>4, <1>7, <2>1, <2>3 DEF Files
    <3>2. Fresh(v)
      BY DEF IInv
    <3> QED
      BY <2>1, <2>3, <3>1, <3>2 DEF Fresh
  <2> QED
    BY <2>2, <2>3
<1>10. /\ {u} \in SUBSET Files
       /\ \A f \in Files \ {u} : call'[f] = call[f]
       /\ \A f \in {u} : call[f].pc = "geojson" /\ call'[f].pc = "done"
  BY <1>1, <1>2, <1>4
<1> QED
  BY <1>4, <1>6, <1>7, <1>8, <1>9, <1>10, MapChanges

LEMMA GenerateInv ==
  ASSUME IInv, NEW u \in Files, Generate(u) \/ GenerateFails(u) PROVE IInv'
<1>1. faults \in Nat
  BY Known
<1>2. /\ u \in Uploads /\ call[u].pc = "geojson" /\ Goto(u, "done")
      /\ UNCHANGED <<kind, open, row, store, unanswered, broken>>
      /\ Upsert(u) \/ UNCHANGED geojson
  BY DEF Generate, GenerateFails
<1>3. CASE Generate(u)
  <2>1. UNCHANGED <<crossed, faults>> /\ (Upsert(u) \/ (~open /\ UNCHANGED geojson))
    BY <1>3 DEF Generate
  <2> QED
    BY <1>1, <1>2, <2>1, Derived
<1>4. CASE GenerateFails(u)
  <2>1. crossed' = crossed \cup {u} /\ faults' = faults + 1
    BY <1>4 DEF GenerateFails, Fault
  <2> QED
    BY <1>1, <1>2, <2>1, Derived
<1> QED
  BY <1>3, <1>4

LEMMA RegenerateInv ==
  ASSUME IInv, Regenerate \/ RemoveGeojson PROVE IInv'
<1>1. TypeOK /\ MapIsCurrent /\ MapHasSource
  BY DEF IInv
<1>2. UNCHANGED <<kind, open, row, store, call, unanswered, broken, crossed, faults>>
  BY DEF Regenerate, RemoveGeojson
<1>3. /\ geojson' \in Geojson
      /\ geojson'.state # "none"
      /\ geojson'.source = Null \/ (geojson.state # "none" /\ geojson'.source = geojson.source)
  BY <1>1 DEF Regenerate, RemoveGeojson, Upsert, TypeOK, Geojson
<1>4. MapIsCurrent'
  BY <1>1, <1>2, <1>3 DEF MapIsCurrent
<1>5. MapHasSource'
  BY <1>1, <1>2, <1>3 DEF MapHasSource
<1>6. /\ call' \in [Files -> Call] /\ faults' \in Nat
      /\ crossed' \in SUBSET Uploads /\ crossed \subseteq crossed'
  BY <1>1, <1>2 DEF TypeOK
<1>7. /\ {} \in SUBSET Files
      /\ \A f \in Files \ {} : call'[f] = call[f]
      /\ \A f \in {} : call[f].pc = "geojson" /\ call'[f].pc = "done"
  BY <1>2
<1>8. UNCHANGED <<kind, open, row, store, unanswered, broken>>
  BY <1>2
<1>9. geojson' \in Geojson
  BY <1>3
<1> QED
  BY <1>4, <1>5, <1>6, <1>7, <1>8, <1>9, MapChanges

-----------------------------------------------------------------------------
(* The other steps *)

LEMMA RemoveAerodromeInv ==
  ASSUME IInv, RemoveAerodrome PROVE IInv'
<1>1. /\ open' = FALSE
      /\ UNCHANGED <<kind, row, geojson, store, call, unanswered, broken, crossed, faults>>
  BY DEF RemoveAerodrome
<1>2. TypeOK /\ OneActive /\ NeverBare /\ MapHasSource
  BY DEF IInv
<1>3. TypeOK' /\ OneActive' /\ NeverBare' /\ MapHasSource'
  BY <1>1, <1>2 DEF TypeOK, OneActive, NeverBare, MapHasSource
<1>4. MapIsCurrent'
  BY <1>1 DEF MapIsCurrent
<1>5. ASSUME NEW f \in Files PROVE Filed(f, call[f])' /\ Knows(f, call[f])'
  <2>1. Filed(f, call[f]) /\ Knows(f, call[f])
    BY DEF IInv
  <2>2. Filed(f, call[f])'
    BY <1>1, <2>1 DEF Filed
  <2>3. Knows(f, call[f])'
    BY <1>1, <2>1 DEF Knows
  <2> QED
    BY <2>2, <2>3
<1>6. \A u \in Uploads : Fresh(u)'
  BY <1>1 DEF IInv, Fresh
<1> QED
  BY <1>3, <1>4, <1>5, <1>6 DEF IInv

LEMMA CrashInv ==
  ASSUME IInv, Crash PROVE IInv'
<1>1. /\ call' = [f \in Files |-> IF AtRest(f) THEN call[f] ELSE At("failed")]
      /\ broken' = broken \cup {f \in Files : ~AtRest(f)} /\ faults' = faults + 1
      /\ UNCHANGED <<kind, open, row, geojson, store, unanswered, crossed>>
  BY DEF Crash, Fault
<1> PICK r : r = At("failed")
  OBVIOUS
<1>2. r \in Call /\ r.pc = "failed"
  BY AtRow DEF Resting
<1>3. TypeOK /\ OneActive /\ NeverBare /\ MapIsCurrent /\ MapHasSource
  BY DEF IInv
<1>4. /\ call' \in [Files -> Call]
      /\ \A f \in Files : call'[f] = IF AtRest(f) THEN call[f] ELSE r
  BY <1>1, <1>2, <1>3 DEF TypeOK
<1>5. TypeOK'
  BY <1>1, <1>3, <1>4 DEF TypeOK
<1>6. OneActive' /\ NeverBare' /\ MapHasSource'
  BY <1>1, <1>3 DEF OneActive, NeverBare, MapHasSource
<1>7. \A u \in Uploads : u \in Files
  BY DEF Files
<1>8. MapIsCurrent'
  BY <1>1, <1>2, <1>3, <1>4, <1>7 DEF MapIsCurrent
<1>9. ASSUME NEW f \in Files PROVE Filed(f, call[f])' /\ Knows(f, call[f])'
  <2> PICK c : c = call[f]
    OBVIOUS
  <2>1. Filed(f, c) /\ Knows(f, c)
    BY DEF IInv
  <2>2. CASE AtRest(f)
    <3>1. call'[f] = c
      BY <1>4, <2>2
    <3>2. Filed(f, call[f])'
      BY <1>1, <2>1, <3>1 DEF Filed
    <3>3. Knows(f, call[f])'
      BY <1>1, <2>1, <2>2, <3>1 DEF Knows, AtRest
    <3> QED
      BY <3>2, <3>3
  <2>3. CASE ~AtRest(f)
    <3>1. call'[f] = r /\ f \in broken'
      BY <1>1, <1>4, <2>3
    <3>2. row[f] # "none" => f \in store \cup unanswered
      BY <2>1 DEF Filed
    <3>3. Filed(f, call[f])'
      BY <1>1, <1>2, <3>1, <3>2 DEF Filed
    <3>4. Knows(f, call[f])'
      BY <1>2, <3>1 DEF Knows
    <3> QED
      BY <3>3, <3>4
  <2> QED
    BY <2>2, <2>3
<1>10. ASSUME NEW u \in Uploads PROVE Fresh(u)'
  <2>1. Fresh(u)
    BY DEF IInv
  <2> QED
    BY <1>1, <1>2, <1>4, <1>7, <2>1 DEF Fresh
<1> QED
  BY <1>5, <1>6, <1>8, <1>9, <1>10 DEF IInv

LEMMA InitInv == Init => IInv
<1> SUFFICES ASSUME Init PROVE IInv
  OBVIOUS
<1> PICK r : r = At("idle")
  OBVIOUS
<1>1. r \in Call /\ r.pc = "idle"
  BY AtRow DEF Resting
<1>2. \A f \in Files : call[f] = r
  BY DEF Init
<1>3. \A u \in Uploads : u \in Files
  BY DEF Files
<1>4. call \in [Files -> Call]
  BY <1>1 DEF Init
<1>5. TypeOK
  BY <1>4 DEF Init, TypeOK, Geojson
<1>6. OneActive /\ NeverBare /\ MapIsCurrent /\ MapHasSource
  BY <1>3 DEF Init, OneActive, NeverBare, MapIsCurrent, MapHasSource
<1>7. ASSUME NEW f \in Files PROVE Filed(f, call[f]) /\ Knows(f, call[f])
  <2>1. call[f].pc = "idle" /\ row[f] = "none" /\ f \notin store
    BY <1>1, <1>2 DEF Init
  <2> QED
    BY <2>1 DEF Filed, Knows
<1>8. \A u \in Uploads : Fresh(u)
  BY <1>3 DEF Init, Fresh
<1> QED
  BY <1>5, <1>6, <1>7, <1>8 DEF IInv

LEMMA NextInv == IInv /\ [Next]_vars => IInv'
<1> SUFFICES ASSUME IInv, [Next]_vars PROVE IInv'
  OBVIOUS
<1>1. ASSUME NEW f \in Files, Store(f) \/ StoreFails(f) \/ Compensate(f) \/ DeleteFails(f)
      PROVE  IInv'
  BY <1>1, StoreInv, StoreFailsInv, CompensateInv, DeleteFailsInv
<1>2. ASSUME NEW f \in Files, Upload(f)
      PROVE  IInv'
  BY <1>2, BeginInv, CommitInv, CommitUnansweredInv, ConflictInv, TransactionFailsInv,
     GenerateInv DEF Upload
<1>3. ASSUME NEW f \in Files, Insert(f) \/ Remove(f) \/ Rename(f)
      PROVE  IInv'
  BY <1>3, InsertInv, RemoveInv, RenameInv
<1>4. CASE Regenerate \/ RemoveGeojson \/ RemoveAerodrome \/ Crash
  BY <1>4, RegenerateInv, RemoveAerodromeInv, CrashInv
<1>5. CASE UNCHANGED vars
  <2>1. UNCHANGED <<kind, open, row, geojson, store, call, unanswered, broken, crossed, faults>>
    BY <1>5 DEF vars
  <2>2. TypeOK' /\ OneActive' /\ NeverBare' /\ MapIsCurrent' /\ MapHasSource'
    BY <2>1 DEF IInv, TypeOK, OneActive, NeverBare, MapIsCurrent, MapHasSource
  <2>3. \A f \in Files : Filed(f, call[f])' /\ Knows(f, call[f])'
    BY <2>1 DEF IInv, Filed, Knows
  <2>4. \A u \in Uploads : Fresh(u)'
    BY <2>1 DEF IInv, Fresh
  <2> QED
    BY <2>2, <2>3, <2>4 DEF IInv
<1> QED
  BY <1>1, <1>2, <1>3, <1>4, <1>5 DEF Next

-----------------------------------------------------------------------------
(* The theorems *)

\* The inductive invariant holds of every execution (documents, geojsons and the calls
\* that store the image of a movement or a visit).
THEOREM FilesInvariant == Spec => []IInv
<1> QED
  BY InitInv, NextInv, PTL DEF Spec

\* Type correctness: in particular an upload makes no more attempts than
\* SERIALIZATION_MAX_ATTEMPTS (document.repository.ts).
THEOREM FilesTypeCorrect == Spec => []TypeOK
<1>1. IInv => TypeOK
  BY DEF IInv
<1> QED
  BY <1>1, FilesInvariant, PTL

\* Of the documents of one type that dedicated uploads made, one at most is active
\* (createSupersedingActive).
THEOREM OneActivePerType == Spec => []OneActive
<1>1. IInv => OneActive
  BY DEF IInv
<1> QED
  BY <1>1, FilesInvariant, PTL

\* Uploads leave a type without an active document only where a user removed it
\* (createSupersedingActive, RemoveDocumentService).
THEOREM TypesNeverBare == Spec => []NeverBare
<1>1. IInv => NeverBare
  BY DEF IInv
<1> QED
  BY <1>1, FilesInvariant, PTL

\* Every row has its file, up to lost answers (the catch blocks of the four callers).
THEOREM EveryRowHasFile == Spec => []RowHasFile
<1>1. IInv => RowHasFile
  BY DEF IInv, RowHasFile, Filed
<1> QED
  BY <1>1, FilesInvariant, PTL

\* No file is left without a row, but by calls that broke off (the same catch blocks).
THEOREM NoFileIsOrphan == Spec => []NoOrphan
<1>1. IInv => NoOrphan
  <2> SUFFICES ASSUME IInv, NEW f \in store, row[f] = "none"
               PROVE  ~AtRest(f) \/ f \in broken
    BY DEF NoOrphan
  <2>1. f \in Files
    BY DEF IInv, TypeOK
  <2>2. Filed(f, call[f])
    BY <2>1 DEF IInv
  <2> QED
    BY <2>2 DEF Filed, AtRest
<1> QED
  BY <1>1, FilesInvariant, PTL

\* The map is the one of the active KML (UploadAerodromeFileService,
\* GenerateGeojsonService), unless two uploads overlapped.
THEOREM MapFollowsKml == Spec => []MapIsCurrent
<1>1. IInv => MapIsCurrent
  BY DEF IInv
<1> QED
  BY <1>1, FilesInvariant, PTL

\* The map never names a file whose upload failed (GenerateGeojsonService).
THEOREM MapNamesARow == Spec => []MapHasSource
<1>1. IInv => MapHasSource
  BY DEF IInv
<1> QED
  BY <1>1, FilesInvariant, PTL
=============================================================================
