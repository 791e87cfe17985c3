--------------------------- MODULE SessionsProofs ---------------------------
(***************************************************************************)
(* Invariance proofs for Sessions, for any number of users, tokens, calls  *)
(* and failures. Two arguments. The chains: as long as no calls on one     *)
(* token overlap, exactly one token of a login has no successor (TailInv), *)
(* and only that one can be live. The cut: while no revocation of a user   *)
(* is due, neither is there a live token begun before the last one nor a   *)
(* call that may still create one unmarked (CutInv).                       *)
(***************************************************************************)
EXTENDS Sessions, FiniteSetTheorems, TLAPS

Rotating(c) == call[c].pc \in {"user", "rotate"}

\* The columns and the history of one token.
RowOK(t) ==
  /\ token[t].state = "none" =>
       origin[t].parent = Null /\ token[t].replacedBy = Null
  /\ token[t].state # "none" =>
       /\ token[t].user \in Users
       /\ origin[t].login \in Tokens
       /\ token[origin[t].login].state # "none"
  /\ t \in loggedOut => token[t].state # "none"

RowInv == \A t \in Tokens : RowOK(t)

\* What the chain says of a token and its successor, and of a token and the one
\* it replaced.
ChainOK(t) ==
  /\ token[t].replacedBy # Null =>
       /\ token[t].state = "revoked"
       /\ token[token[t].replacedBy].state # "none"
       /\ token[token[t].replacedBy].user = token[t].user
       /\ origin[token[t].replacedBy].parent = t
  /\ origin[t].parent # Null =>
       /\ token[t].state # "none"
       /\ token[origin[t].parent].state # "none"
       /\ origin[origin[t].parent].login = origin[t].login
       /\ origin[t].login \notin raced => token[origin[t].parent].replacedBy = t

ChainInv == \A t \in Tokens : ChainOK(t)

CallOK(c) ==
  /\ call[c].pc # "idle" => call[c].user \in Users
  /\ (Rotating(c) \/ call[c].pc = "revoke") =>
       /\ call[c].token \in Tokens
       /\ token[call[c].token].state # "none"
       /\ token[call[c].token].user = call[c].user

CallInv == \A c \in Calls : CallOK(c)

\* A token somebody is rotating has no successor and was not logged out, and
\* nobody else is rotating it, or its login is raced.
OverlapInv ==
  /\ \A c \in Calls : Rotating(c) /\ origin[call[c].token].login \notin raced =>
       /\ token[call[c].token].replacedBy = Null
       /\ origin[call[c].token].login \notin loggedOut
  /\ \A c, d \in Calls :
       Rotating(c) /\ Rotating(d) /\ c # d /\ call[c].token = call[d].token
         => origin[call[c].token].login \in raced

\* s and t are the same token if both are the last of the chain of one login.
OneTail(s, t) ==
  ( /\ token[s].state # "none" /\ token[s].replacedBy = Null
    /\ token[t].state # "none" /\ token[t].replacedBy = Null
    /\ origin[s].login = origin[t].login
    /\ origin[s].login \notin raced ) => s = t

TailInv == \A s, t \in Tokens : OneTail(s, t)

LogoutInv ==
  \A t \in Tokens : Live(t) /\ origin[t].login \notin raced => origin[t].login \notin loggedOut

IInv ==
  /\ TypeOK /\ RowInv /\ ChainInv /\ CallInv
  /\ OverlapInv /\ TailInv /\ LogoutInv

-----------------------------------------------------------------------------
(* Typing *)

LEMMA InitInv == Init => IInv
<1> SUFFICES ASSUME Init PROVE IInv
  OBVIOUS
<1>1. TypeOK
  BY SessionsAssumption DEF Init, TypeOK, TokenRow, Call, Origin
<1>2. RowInv /\ ChainInv
  BY DEF Init, RowInv, RowOK, ChainInv, ChainOK
<1>3. CallInv /\ OverlapInv
  BY DEF Init, CallInv, CallOK, OverlapInv, Rotating
<1>4. TailInv /\ LogoutInv
  BY DEF Init, TailInv, OneTail, LogoutInv, Live
<1>5. QED
  BY <1>1, <1>2, <1>3, <1>4 DEF IInv

LEMMA StartType ==
  ASSUME TypeOK, NEW c \in Calls, NEW u \in Users, NEW t \in Tokens \cup {Null},
         NEW pc \in {"issue", "user", "reuse", "revoke", "write", "remove"}, Start(c, pc, u, t)
  PROVE  call' \in [Calls -> Call]
BY DEF Start, TypeOK, Call

LEMMA GotoType ==
  ASSUME TypeOK, NEW c \in Calls, NEW pc \in {"rotate", "revoke_all", "done"}, Goto(c, pc)
  PROVE  call' \in [Calls -> Call]
BY DEF Goto, TypeOK, Call

\* The two rows a rotation writes.
Rotates(t, n, u) ==
  token' = [token EXCEPT ![n] = [state |-> "active", user |-> u, replacedBy |-> Null],
                         ![t].state = "revoked", ![t].replacedBy = n]

LEMMA RotateRows ==
  ASSUME TypeOK, NEW t \in Tokens, NEW n \in Tokens, t # n, NEW u \in Users,
         Rotates(t, n, u)
  PROVE  /\ token' \in [Tokens -> TokenRow]
         /\ \A x \in Tokens : x # n /\ x # t => token'[x] = token[x]
         /\ token'[n].state = "active" /\ token'[n].user = u /\ token'[n].replacedBy = Null
         /\ token'[t].state = "revoked" /\ token'[t].user = token[t].user
         /\ token'[t].replacedBy = n
<1> PICK new : new = [state |-> "active", user |-> u, replacedBy |-> Null]
  OBVIOUS
<1> PICK old : old = [token[t] EXCEPT !.state = "revoked", !.replacedBy = n]
  OBVIOUS
<1>1. new \in TokenRow /\ new.state = "active" /\ new.user = u /\ new.replacedBy = Null
  BY DEF TokenRow
<1>2. token \in [Tokens -> TokenRow] /\ token[t] \in TokenRow
  BY DEF TypeOK
<1>3. /\ old \in TokenRow /\ old.state = "revoked" /\ old.user = token[t].user
      /\ old.replacedBy = n
  BY <1>2 DEF TokenRow
<1>4. token' = [token EXCEPT ![n] = new, ![t] = old]
  BY <1>2 DEF Rotates
<1> QED
  BY <1>1, <1>2, <1>3, <1>4

LEMMA NextType ==
  ASSUME IInv, NEW c \in Calls,
         \/ \E u \in Users : LoginRead(c, u) \/ ReloginRead(c, u)
         \/ \E t \in Tokens : RefreshFind(c, t) \/ LogoutFind(c, t)
         \/ LoginIssue(c) \/ RefreshReadUser(c) \/ RefreshRotate(c) \/ LogoutRevoke(c)
         \/ ReloginWrite(c) \/ RevokeAll(c) \/ CallFails(c)
  PROVE  TypeOK'
<1> USE DEF IInv
<1>1. ASSUME NEW u \in Users, LoginRead(c, u) \/ ReloginRead(c, u)
      PROVE  TypeOK'
  BY <1>1, StartType DEF LoginRead, ReloginRead, TypeOK
<1>2. ASSUME NEW t \in Tokens, RefreshFind(c, t)
      PROVE  TypeOK'
  <2>1. token[t].user \in Users /\ origin[t].login \in Tokens
    BY <1>2 DEF RefreshFind, RowInv, RowOK
  <2>2. call' \in [Calls -> Call]
    BY <1>2, <2>1, StartType DEF RefreshFind
  <2>3. cut' \in [Users -> Nat]
    BY <1>2, <2>1 DEF RefreshFind, TypeOK
  <2>4. QED
    BY <1>2, <2>1, <2>2, <2>3 DEF RefreshFind, TypeOK
<1>3. ASSUME NEW t \in Tokens, LogoutFind(c, t)
      PROVE  TypeOK'
  <2>1. token[t].user \in Users
    BY <1>3 DEF LogoutFind, Live, RowInv, RowOK
  <2>2. QED
    BY <1>3, <2>1, StartType DEF LogoutFind, TypeOK
<1>4. ASSUME LoginIssue(c)
      PROVE  TypeOK'
  <2>1. call[c].user \in Users
    BY <1>4 DEF LoginIssue, CallInv, CallOK
  <2>2. token' \in [Tokens -> TokenRow] /\ origin' \in [Tokens -> Origin]
    BY <1>4, <2>1 DEF LoginIssue, TypeOK, TokenRow, Origin, Call
  <2>3. QED
    BY <1>4, <2>2, GotoType DEF LoginIssue, TypeOK
<1>5. ASSUME RefreshReadUser(c)
      PROVE  TypeOK'
  BY <1>5, GotoType DEF RefreshReadUser, TypeOK
<1>6. ASSUME RefreshRotate(c)
      PROVE  TypeOK'
  <2>1. /\ call[c].user \in Users /\ call[c].token \in Tokens
        /\ token[call[c].token].state # "none"
    BY <1>6 DEF RefreshRotate, Rotating, CallInv, CallOK
  <2> PICK t \in Tokens : t = call[c].token
    BY <2>1
  <2>a. PICK n \in Tokens :
          /\ token[n].state = "none"
          /\ token' = [token EXCEPT
               ![n] = [state |-> "active", user |-> call[c].user, replacedBy |-> Null],
               ![t].state = "revoked", ![t].replacedBy = n]
          /\ origin' = [origin EXCEPT ![n] =
               [login |-> origin[t].login, parent |-> t, since |-> origin[t].since,
                late |-> call[c].late \/ origin[t].late]]
    BY <1>6 DEF RefreshRotate
  <2>2. token' \in [Tokens -> TokenRow]
    <3>1. Rotates(t, n, call[c].user)
      BY <2>a DEF Rotates
    <3> QED
      BY <3>1, <2>a, <2>1, RotateRows
  <2>3. origin' \in [Tokens -> Origin]
    <3> PICK from : from = [login |-> origin[t].login, parent |-> t,
                            since |-> origin[t].since,
                            late |-> call[c].late \/ origin[t].late]
      OBVIOUS
    <3>1. origin \in [Tokens -> Origin] /\ origin[t] \in Origin /\ call[c].late \in BOOLEAN
      BY DEF TypeOK, Call
    <3>2. from \in Origin
      BY <3>1 DEF Origin
    <3> QED
      BY <2>a, <3>1, <3>2
  <2>4. QED
    BY <1>6, <2>2, <2>3, GotoType DEF RefreshRotate, TypeOK
<1>7. ASSUME LogoutRevoke(c)
      PROVE  TypeOK'
  <2>1. call[c].token \in Tokens /\ origin[call[c].token].login \in Tokens
    BY <1>7 DEF LogoutRevoke, CallInv, CallOK, RowInv, RowOK
  <2>2. token' \in [Tokens -> TokenRow]
    BY <1>7, <2>1 DEF LogoutRevoke, TypeOK, TokenRow
  <2>3. QED
    BY <1>7, <2>1, <2>2, GotoType DEF LogoutRevoke, TypeOK
<1>8. ASSUME ReloginWrite(c)
      PROVE  TypeOK'
  <2>1. call[c].user \in Users
    BY <1>8 DEF ReloginWrite, CallInv, CallOK
  <2>2. user' \in [Users -> {"active", "removed"}] /\ cut' \in [Users -> Nat]
    BY <1>8, <2>1 DEF ReloginWrite, TypeOK
  <2>3. QED
    BY <1>8, <2>2, GotoType DEF ReloginWrite, TypeOK
<1>9. ASSUME RevokeAll(c)
      PROVE  TypeOK'
  <2>1. token' \in [Tokens -> TokenRow]
    <3>1. \A t \in Tokens : [token[t] EXCEPT !.state = "revoked"] \in TokenRow
      BY DEF TypeOK, TokenRow
    <3> QED
      BY <1>9, <3>1 DEF RevokeAll, revokeAllForUser, TypeOK
  <2>2. call' \in [Calls -> Call]
    <3>1. ASSUME NEW x \in Calls
          PROVE  /\ [call[x] EXCEPT !.pc = "done"] \in Call
                 /\ [call[x] EXCEPT !.late = TRUE] \in Call
      <4>1. call[x] \in Call
        BY DEF TypeOK
      <4>2. "done" \in {"idle", "issue", "user", "rotate", "reuse", "revoke", "write",
                        "remove", "revoke_all", "done"}
        OBVIOUS
      <4> QED
        BY <4>1, <4>2 DEF Call
    <3>2. call \in [Calls -> Call]
      BY DEF TypeOK
    <3>3. call' = RevocationPasses(c, call[c].user)
      BY <1>9 DEF RevokeAll
    <3> QED
      BY <3>1, <3>2, <3>3 DEF RevocationPasses
  <2>3. QED
    BY <1>9, <2>1, <2>2 DEF RevokeAll, TypeOK
<1>10. ASSUME CallFails(c)
       PROVE  TypeOK'
  <2>1. call[c].user \in Users
    BY <1>10 DEF CallFails, CallInv, CallOK
  <2>2. QED
    BY <1>10, <2>1, GotoType DEF CallFails, TypeOK
<1>11. QED
  BY <1>1, <1>2, <1>3, <1>4, <1>5, <1>6, <1>7, <1>8, <1>9, <1>10

-----------------------------------------------------------------------------
(* The chains *)

Chains == RowInv /\ ChainInv /\ CallInv /\ OverlapInv /\ TailInv /\ LogoutInv

\* A step that leaves the tokens and their history alone and after which no call
\* rotates that did not before.
LEMMA QuietKeepsChains ==
  ASSUME IInv, UNCHANGED <<token, origin, raced, loggedOut>>,
         \A x \in Calls :
           /\ call'[x].pc # "idle" => call'[x].user \in Users
           /\ (Rotating(x)' \/ call'[x].pc = "revoke") =>
                \/ Rotating(x) /\ call'[x].token = call[x].token /\ call'[x].user = call[x].user
                \/ /\ call'[x].pc = "revoke"
                   /\ call'[x].token \in Tokens
                   /\ token[call'[x].token].state # "none"
                   /\ token[call'[x].token].user = call'[x].user
  PROVE  Chains'
<1> USE DEF IInv
<1>1. RowInv' /\ ChainInv'
  BY DEF RowInv, RowOK, ChainInv, ChainOK
<1>2. CallInv'
  BY DEF CallInv, CallOK, Rotating
<1>3. OverlapInv'
  BY DEF OverlapInv, Rotating
<1>4. TailInv' /\ LogoutInv'
  BY DEF TailInv, OneTail, LogoutInv, Live
<1>5. QED
  BY <1>1, <1>2, <1>3, <1>4 DEF Chains

\* Starting a call that does not rotate, and ending or advancing any call, are
\* quiet.
LEMMA CallsKeepChains ==
  ASSUME IInv, NEW c \in Calls,
         \/ \E u \in Users : LoginRead(c, u) \/ ReloginRead(c, u)
         \/ \E t \in Tokens : LogoutFind(c, t)
         \/ RefreshReadUser(c) \/ ReloginWrite(c) \/ CallFails(c)
  PROVE  Chains'
<1> USE DEF IInv
<1>1. UNCHANGED <<token, origin, raced, loggedOut>>
  BY DEF LoginRead, ReloginRead, LogoutFind, RefreshReadUser, ReloginWrite, CallFails
<1>2. \A x \in Calls : x # c => call'[x] = call[x]
  BY DEF LoginRead, ReloginRead, LogoutFind, RefreshReadUser, ReloginWrite, CallFails,
         Start, Goto, TypeOK
<1>3. \A x \in Calls : CallOK(x)
  BY DEF CallInv
<1>4. ASSUME NEW u \in Users, LoginRead(c, u) \/ ReloginRead(c, u)
      PROVE  call'[c].pc \in {"issue", "write", "remove"} /\ call'[c].user \in Users
  BY <1>4 DEF LoginRead, ReloginRead, Start, TypeOK
<1>5. ASSUME NEW t \in Tokens, LogoutFind(c, t)
      PROVE  /\ call'[c].pc = "revoke"
             /\ call'[c].token = t
             /\ call'[c].user = token[t].user
             /\ token[t].state # "none"
             /\ token[t].user \in Users
  BY <1>5 DEF LogoutFind, Start, Live, RowInv, RowOK, TypeOK
<1>6. ASSUME RefreshReadUser(c) \/ ReloginWrite(c) \/ CallFails(c)
      PROVE  /\ call'[c].token = call[c].token
             /\ call'[c].user = call[c].user
             /\ call[c].pc # "idle"
             /\ call'[c].pc # "revoke"
             /\ Rotating(c)' => Rotating(c)
  BY <1>6 DEF RefreshReadUser, ReloginWrite, CallFails, Goto, Rotating, TypeOK, Call
<1>7. \A x \in Calls :
        /\ call'[x].pc # "idle" => call'[x].user \in Users
        /\ (Rotating(x)' \/ call'[x].pc = "revoke") =>
             \/ Rotating(x) /\ call'[x].token = call[x].token /\ call'[x].user = call[x].user
             \/ /\ call'[x].pc = "revoke"
                /\ call'[x].token \in Tokens
                /\ token[call'[x].token].state # "none"
                /\ token[call'[x].token].user = call'[x].user
  BY <1>2, <1>3, <1>4, <1>5, <1>6 DEF CallOK, Rotating
<1>8. QED
  BY <1>1, <1>7, QuietKeepsChains

\* Presenting a token: if it is live it has no successor, and its login was not
\* logged out, or is raced.
LEMMA FindKeepsChains ==
  ASSUME IInv, NEW c \in Calls, NEW t \in Tokens, RefreshFind(c, t)
  PROVE  Chains'
<1> USE DEF IInv
<1>1. /\ UNCHANGED <<token, origin, loggedOut>>
      /\ token[t].state # "none"
      /\ token[t].user \in Users
      /\ raced \subseteq raced'
      /\ call[c].pc = "idle"
      /\ Live(t) /\ Refreshing(t) => origin[t].login \in raced'
  BY DEF RefreshFind, Start, RowInv, RowOK, TypeOK
<1>2. /\ \A x \in Calls : x # c => call'[x] = call[x]
      /\ call'[c].token = t
      /\ call'[c].user = token[t].user
      /\ call'[c].pc \in {"user", "reuse"}
      /\ call'[c].pc = "user" => Live(t)
  BY DEF RefreshFind, Start, TypeOK
<1>3. RowInv' /\ ChainInv'
  BY <1>1 DEF RowInv, RowOK, ChainInv, ChainOK
<1>4. CallInv'
  BY <1>1, <1>2 DEF CallInv, CallOK, Rotating
<1>5. OverlapInv'
  <2>1. ASSUME NEW x \in Calls, Rotating(x)', origin'[call'[x].token].login \notin raced'
        PROVE  /\ token'[call'[x].token].replacedBy = Null
               /\ origin'[call'[x].token].login \notin loggedOut'
    <3>1. CASE x = c
      <4>1. Live(t) /\ origin[t].login \notin raced
        BY <1>1, <1>2, <2>1, <3>1 DEF Rotating
      <4>2. token[t].replacedBy = Null
        BY <4>1 DEF ChainInv, ChainOK, Live
      <4>3. QED
        BY <1>1, <1>2, <3>1, <4>1, <4>2 DEF LogoutInv
    <3>2. CASE x # c
      BY <1>1, <1>2, <2>1, <3>2 DEF OverlapInv, Rotating
    <3>3. QED
      BY <3>1, <3>2
  <2>2. ASSUME NEW x \in Calls, NEW y \in Calls, Rotating(x)', Rotating(y)', x # y,
               call'[x].token = call'[y].token
        PROVE  origin'[call'[x].token].login \in raced'
    <3>1. CASE x # c /\ y # c
      BY <1>1, <1>2, <2>2, <3>1 DEF OverlapInv, Rotating
    <3>2. CASE x = c \/ y = c
      <4>1. Live(t) /\ Refreshing(t) /\ call'[x].token = t
        BY <1>2, <2>2, <3>2 DEF Refreshing, Rotating
      <4>2. QED
        BY <1>1, <4>1
    <3>3. QED
      BY <3>1, <3>2
  <2>3. QED
    BY <2>1, <2>2 DEF OverlapInv
<1>6. TailInv' /\ LogoutInv'
  BY <1>1 DEF TailInv, OneTail, LogoutInv, Live
<1>7. QED
  BY <1>3, <1>4, <1>5, <1>6 DEF Chains

\* Revoking every token of a user: tokens only stop being live.
LEMMA RevokeAllKeepsChains ==
  ASSUME IInv, NEW c \in Calls, RevokeAll(c)
  PROVE  Chains'
<1> USE DEF IInv
<1>1. /\ UNCHANGED <<origin, raced, loggedOut>>
      /\ \A t \in Tokens :
           /\ token'[t].user = token[t].user
           /\ token'[t].replacedBy = token[t].replacedBy
           /\ \/ token'[t].state = token[t].state
              \/ token[t].state = "active" /\ token'[t].state = "revoked"
  <2>1. UNCHANGED <<origin, raced, loggedOut>>
    BY DEF RevokeAll
  <2>2. ASSUME NEW t \in Tokens
        PROVE  /\ token'[t].user = token[t].user
               /\ token'[t].replacedBy = token[t].replacedBy
               /\ \/ token'[t].state = token[t].state
                  \/ token[t].state = "active" /\ token'[t].state = "revoked"
    <3>1. token[t] \in TokenRow
      BY DEF TypeOK
    <3>2. PICK u : token' = revokeAllForUser(u)
      BY DEF RevokeAll
    <3>3. CASE Live(t) /\ token[t].user = u
      <4>1. token'[t] = [token[t] EXCEPT !.state = "revoked"]
        BY <3>2, <3>3 DEF revokeAllForUser
      <4>2. QED
        BY <3>1, <3>3, <4>1 DEF TokenRow, Live
    <3>4. CASE ~(Live(t) /\ token[t].user = u)
      BY <3>2, <3>4 DEF revokeAllForUser, Live
    <3>5. QED
      BY <3>3, <3>4
  <2>3. QED
    BY <2>1, <2>2
<1>2. /\ \A x \in Calls :
           /\ call'[x].token = call[x].token
           /\ call'[x].user = call[x].user
           /\ (call'[x].pc = call[x].pc \/ call'[x].pc = "done")
      /\ call[c].pc # "idle"
      /\ \A x \in Calls : x # c => call'[x].pc = call[x].pc
  BY DEF RevokeAll, RevocationPasses, TypeOK, Call
<1>3. RowInv'
  BY <1>1 DEF RowInv, RowOK, TypeOK, Origin
<1>4. ChainInv'
  <2>1. ASSUME NEW t \in Tokens
        PROVE  ChainOK(t)'
    <3>1. ChainOK(t) /\ token[t].replacedBy \in Tokens \cup {Null}
                     /\ origin[t].parent \in Tokens \cup {Null}
      BY DEF ChainInv, TypeOK, TokenRow, Origin
    <3>2. QED
      BY <1>1, <3>1 DEF ChainOK
  <2>2. QED
    BY <2>1 DEF ChainInv
<1>5. CallInv'
  <2>1. ASSUME NEW x \in Calls
        PROVE  CallOK(x)'
    <3>1. CallOK(x)
      BY DEF CallInv
    <3>2. call'[x].pc # "idle" => call'[x].user \in Users
      <4>1. CASE x = c
        BY <1>2, <3>1, <4>1 DEF CallOK, Rotating
      <4>2. CASE x # c
        BY <1>2, <3>1, <4>2 DEF CallOK, Rotating
      <4>3. QED
        BY <4>1, <4>2
    <3>3. QED
      BY <1>1, <1>2, <3>1, <3>2 DEF CallOK, Rotating
  <2>2. QED
    BY <2>1 DEF CallInv
<1>6. OverlapInv'
  BY <1>1, <1>2 DEF OverlapInv, CallInv, CallOK, Rotating
<1>7. TailInv'
  BY <1>1 DEF TailInv, OneTail
<1>8. LogoutInv'
  BY <1>1 DEF LogoutInv, Live
<1>9. QED
  BY <1>3, <1>4, <1>5, <1>6, <1>7, <1>8 DEF Chains

\* A login: the new token is the only one of its login.
LEMMA IssueKeepsChains ==
  ASSUME IInv, NEW c \in Calls, LoginIssue(c)
  PROVE  Chains'
<1> USE DEF IInv
<1>1. PICK n \in Tokens :
        /\ token[n].state = "none"
        /\ token' = [token EXCEPT ![n] =
             [state |-> "active", user |-> call[c].user, replacedBy |-> Null]]
        /\ origin' = [origin EXCEPT ![n] =
             [login |-> n, parent |-> Null, since |-> call[c].since, late |-> call[c].late]]
  BY DEF LoginIssue
<1>2. /\ UNCHANGED <<raced, loggedOut>>
      /\ call[c].user \in Users
      /\ \A t \in Tokens : t # n => token'[t] = token[t] /\ origin'[t] = origin[t]
      /\ token'[n].state = "active" /\ token'[n].user \in Users /\ token'[n].replacedBy = Null
      /\ origin'[n].login = n /\ origin'[n].parent = Null
  BY <1>1 DEF LoginIssue, CallInv, CallOK, TypeOK
<1>3. /\ \A x \in Calls : x # c => call'[x] = call[x]
      /\ call'[c].pc = "done" /\ call'[c].user = call[c].user
  BY DEF LoginIssue, Goto, TypeOK, Call
<1>4. RowInv'
  BY <1>1, <1>2 DEF RowInv, RowOK
<1>5. ChainInv'
  <2>1. ASSUME NEW t \in Tokens
        PROVE  ChainOK(t)'
    <3>1. CASE t = n
      BY <1>2, <3>1 DEF ChainOK
    <3>2. CASE t # n
      <4>1. ChainOK(t) /\ token[t].replacedBy \in Tokens \cup {Null}
                       /\ origin[t].parent \in Tokens \cup {Null}
        BY DEF ChainInv, TypeOK, TokenRow, Origin
      <4>2. token[t].replacedBy # n /\ origin[t].parent # n
        BY <1>1, <4>1, SessionsAssumption DEF ChainOK
      <4>3. QED
        BY <1>2, <3>2, <4>1, <4>2 DEF ChainOK
    <3>3. QED
      BY <3>1, <3>2
  <2>2. QED
    BY <2>1 DEF ChainInv
<1>6. \A x \in Calls : (Rotating(x)' \/ call'[x].pc = "revoke") =>
         /\ x # c
         /\ Rotating(x)' <=> Rotating(x)
         /\ call'[x] = call[x]
         /\ call[x].token \in Tokens /\ call[x].token # n
  BY <1>1, <1>3 DEF CallInv, CallOK, Rotating
<1>7. CallInv'
  BY <1>2, <1>3, <1>6 DEF CallInv, CallOK, Rotating
<1>8. OverlapInv'
  BY <1>2, <1>6 DEF OverlapInv, Rotating
<1>9. TailInv'
  <2>1. \A t \in Tokens : t # n /\ token[t].state # "none" => origin[t].login # n
    BY <1>1 DEF RowInv, RowOK
  <2>2. QED
    BY <1>2, <2>1 DEF TailInv, OneTail
<1>10. LogoutInv'
  <2>1. n \notin loggedOut
    BY <1>1 DEF RowInv, RowOK
  <2>2. QED
    BY <1>2, <2>1 DEF LogoutInv, Live
<1>11. QED
  BY <1>4, <1>5, <1>7, <1>8, <1>9, <1>10 DEF Chains

\* Rotation: the token that is replaced was the tail of its login, and the new
\* one takes its place.
LEMMA RotateKeepsChains ==
  ASSUME IInv, NEW c \in Calls, RefreshRotate(c)
  PROVE  Chains'
<1> USE DEF IInv
<1>1. PICK t \in Tokens : t = call[c].token
  BY DEF RefreshRotate, CallInv, CallOK, Rotating
<1>2. PICK n \in Tokens :
        /\ token[n].state = "none"
        /\ token' = [token EXCEPT
             ![n] = [state |-> "active", user |-> call[c].user, replacedBy |-> Null],
             ![t].state = "revoked", ![t].replacedBy = n]
        /\ origin' = [origin EXCEPT ![n] =
             [login |-> origin[t].login, parent |-> t, since |-> origin[t].since,
              late |-> call[c].late \/ origin[t].late]]
  BY <1>1 DEF RefreshRotate
<1>3. /\ Rotating(c)
      /\ token[t].state # "none"
      /\ token[t].user = call[c].user
      /\ token[t].user \in Users
      /\ origin[t].login \in Tokens
      /\ token[origin[t].login].state # "none"
      /\ t # n
  BY <1>1, <1>2 DEF RefreshRotate, CallInv, CallOK, Rotating, RowInv, RowOK
<1>4. /\ UNCHANGED <<raced, loggedOut>>
      /\ \A x \in Tokens : x # n /\ x # t => token'[x] = token[x]
      /\ \A x \in Tokens : x # n => origin'[x] = origin[x]
      /\ token'[n].state = "active" /\ token'[n].user = token[t].user
      /\ token'[n].replacedBy = Null
      /\ token'[t].state = "revoked" /\ token'[t].user = token[t].user
      /\ token'[t].replacedBy = n
      /\ origin'[n].login = origin[t].login /\ origin'[n].parent = t
  <2>1. UNCHANGED <<raced, loggedOut>>
    BY DEF RefreshRotate
  <2>2. call[c].user \in Users
    BY <1>3
  <2>3. origin \in [Tokens -> Origin]
    BY DEF TypeOK
  <2>4. /\ \A x \in Tokens : x # n => origin'[x] = origin[x]
        /\ origin'[n].login = origin[t].login /\ origin'[n].parent = t
    BY <1>2, <2>3
  <2>5. token' = [token EXCEPT
          ![n] = [state |-> "active", user |-> call[c].user, replacedBy |-> Null],
          ![t].state = "revoked", ![t].replacedBy = n]
    BY <1>2
  <2>6. /\ \A x \in Tokens : x # n /\ x # t => token'[x] = token[x]
        /\ token'[n].state = "active" /\ token'[n].user = call[c].user
        /\ token'[n].replacedBy = Null
        /\ token'[t].state = "revoked" /\ token'[t].user = token[t].user
        /\ token'[t].replacedBy = n
    <3>1. t # n /\ TypeOK
      BY <1>3
    <3>2. PICK u \in Users : u = call[c].user
      BY <2>2
    <3>3. Rotates(t, n, u)
      BY <2>5, <3>2 DEF Rotates
    <3> HIDE DEF IInv
    <3>4. /\ \A x \in Tokens : x # n /\ x # t => token'[x] = token[x]
          /\ token'[n].state = "active" /\ token'[n].user = u
          /\ token'[n].replacedBy = Null
          /\ token'[t].state = "revoked" /\ token'[t].user = token[t].user
          /\ token'[t].replacedBy = n
      BY <3>1, <3>3, RotateRows
    <3> QED
      BY <3>2, <3>4
  <2> QED
    BY <1>3, <2>1, <2>4, <2>6
<1>5. /\ \A x \in Calls : x # c => call'[x] = call[x]
      /\ call'[c].pc = "done" /\ call'[c].user = call[c].user
  BY DEF RefreshRotate, Goto, TypeOK, Call
<1>6. \A x \in Tokens : x # n /\ token[x].state # "none" => token'[x].state # "none"
  BY <1>4
<1>7. origin[t].login \notin raced =>
        token[t].replacedBy = Null /\ origin[t].login \notin loggedOut
  BY <1>1, <1>3 DEF OverlapInv
<1>8. RowInv'
  <2>1. ASSUME NEW x \in Tokens
        PROVE  RowOK(x)'
    <3>1. RowOK(x) /\ RowOK(t)
      BY DEF RowInv
    <3>2. token'[origin[t].login].state # "none"
      BY <1>3, <1>6, <1>2
    <3>a. token[n].state = "none" /\ loggedOut' = loggedOut
      BY <1>2, <1>4
    <3>3. CASE x = n
      <4>1. /\ token'[x].state = "active" /\ token'[x].user \in Users
            /\ origin'[x].login = origin[t].login /\ origin[t].login \in Tokens
        BY <1>3, <1>4, <3>3
      <4> QED
        BY <4>1, <3>2 DEF RowOK
    <3>4. CASE x = t
      <4>1. /\ token'[x].state = "revoked" /\ token'[x].user \in Users
            /\ origin'[x] = origin[t] /\ origin[t].login \in Tokens
        BY <1>3, <1>4, <3>4
      <4> QED
        BY <4>1, <3>2 DEF RowOK
    <3>5. CASE x # n /\ x # t
      <4>1. token'[x] = token[x] /\ origin'[x] = origin[x]
        BY <1>4, <3>5
      <4>2. token[x].state # "none" => token'[origin[x].login].state # "none"
        BY <1>6, <3>1, <3>a DEF RowOK
      <4> QED
        BY <4>1, <4>2, <3>1, <3>a DEF RowOK
    <3>6. QED
      BY <3>3, <3>4, <3>5
  <2>2. QED
    BY <2>1 DEF RowInv
<1>9. ChainInv'
  <2>1. ASSUME NEW x \in Tokens
        PROVE  ChainOK(x)'
    <3>1. /\ ChainOK(x)
          /\ token[x].replacedBy \in Tokens \cup {Null}
          /\ origin[x].parent \in Tokens \cup {Null}
      BY DEF ChainInv, TypeOK, TokenRow, Origin
    <3>2. token[x].replacedBy # n /\ origin[x].parent # n
      BY <1>2, <3>1, SessionsAssumption DEF ChainOK
    <3>3. CASE x = n
      BY <1>3, <1>4, <3>3, SessionsAssumption DEF ChainOK
    <3>4. CASE x = t
      <4>1. token'[x].replacedBy # Null =>
              /\ token'[x].state = "revoked"
              /\ token'[token'[x].replacedBy].state # "none"
              /\ token'[token'[x].replacedBy].user = token'[x].user
              /\ origin'[token'[x].replacedBy].parent = x
        BY <1>4, <3>4
      <4>2. origin'[x].parent # Null =>
              /\ token'[x].state # "none"
              /\ token'[origin'[x].parent].state # "none"
              /\ origin'[origin'[x].parent].login = origin'[x].login
              /\ origin'[x].login \notin raced' => token'[origin'[x].parent].replacedBy = x
        BY <1>3, <1>4, <1>6, <1>7, <3>1, <3>2, <3>4, SessionsAssumption DEF ChainOK
      <4>3. QED
        BY <4>1, <4>2 DEF ChainOK
    <3>5. CASE x # n /\ x # t
      <4>1. token'[x].replacedBy # Null =>
              /\ token'[x].state = "revoked"
              /\ token'[token'[x].replacedBy].state # "none"
              /\ token'[token'[x].replacedBy].user = token'[x].user
              /\ origin'[token'[x].replacedBy].parent = x
        BY <1>4, <1>6, <3>1, <3>2, <3>5 DEF ChainOK
      <4>2. origin'[x].parent # Null =>
              /\ token'[x].state # "none"
              /\ token'[origin'[x].parent].state # "none"
              /\ origin'[origin'[x].parent].login = origin'[x].login
              /\ origin'[x].login \notin raced' => token'[origin'[x].parent].replacedBy = x
        BY <1>3, <1>4, <1>6, <1>7, <3>1, <3>2, <3>5, SessionsAssumption DEF ChainOK
      <4>3. QED
        BY <4>1, <4>2 DEF ChainOK
    <3>6. QED
      BY <3>3, <3>4, <3>5
  <2>2. QED
    BY <2>1 DEF ChainInv
<1>10. \A x \in Calls : (Rotating(x)' \/ call'[x].pc = "revoke") =>
          /\ x # c
          /\ Rotating(x)' <=> Rotating(x)
          /\ call'[x] = call[x]
          /\ call[x].token \in Tokens /\ call[x].token # n
  BY <1>2, <1>5 DEF CallInv, CallOK, Rotating
<1>11. CallInv'
  BY <1>3, <1>4, <1>5, <1>6, <1>10 DEF CallInv, CallOK, Rotating
<1>12. OverlapInv'
  <2>1. ASSUME NEW x \in Calls, Rotating(x)', origin'[call'[x].token].login \notin raced'
        PROVE  /\ token'[call'[x].token].replacedBy = Null
               /\ origin'[call'[x].token].login \notin loggedOut'
    <3>1. call[x].token # t
      BY <1>1, <1>3, <1>4, <1>10, <2>1 DEF OverlapInv
    <3>2. QED
      BY <1>4, <1>10, <2>1, <3>1 DEF OverlapInv
  <2>2. ASSUME NEW x \in Calls, NEW y \in Calls, Rotating(x)', Rotating(y)', x # y,
               call'[x].token = call'[y].token
        PROVE  origin'[call'[x].token].login \in raced'
    BY <1>4, <1>10, <2>2 DEF OverlapInv
  <2>3. QED
    BY <2>1, <2>2 DEF OverlapInv
<1>13. TailInv'
  <2>1. ASSUME NEW r \in Tokens, NEW s \in Tokens,
               token'[r].state # "none", token'[r].replacedBy = Null,
               token'[s].state # "none", token'[s].replacedBy = Null,
               origin'[r].login = origin'[s].login, origin'[r].login \notin raced'
        PROVE  r = s
    <3>1. r # t /\ s # t
      BY <1>4, <2>1, SessionsAssumption
    <3>2. \A x \in Tokens : x # n /\ x # t /\ token'[x].state # "none"
            /\ token'[x].replacedBy = Null /\ origin'[x].login \notin raced
              => origin'[x].login # origin[t].login
      BY <1>3, <1>4, <1>7 DEF TailInv, OneTail
    <3>3. CASE r = n \/ s = n
      BY <1>4, <2>1, <3>1, <3>2, <3>3
    <3>4. CASE r # n /\ s # n
      BY <1>4, <2>1, <3>1, <3>4 DEF TailInv, OneTail
    <3>5. QED
      BY <3>3, <3>4
  <2>2. QED
    BY <2>1 DEF TailInv, OneTail
<1>14. LogoutInv'
  BY <1>4, <1>7 DEF LogoutInv, Live
<1>15. QED
  BY <1>8, <1>9, <1>11, <1>12, <1>13, <1>14 DEF Chains

\* Logout: what is revoked is the tail of the login, or the login is raced.
LEMMA LogoutKeepsChains ==
  ASSUME IInv, NEW c \in Calls, LogoutRevoke(c)
  PROVE  Chains'
<1> USE DEF IInv
<1>1. PICK t \in Tokens : t = call[c].token
  BY DEF LogoutRevoke, CallInv, CallOK
<1>2. PICK l \in Tokens : l = origin[t].login
  BY <1>1 DEF LogoutRevoke, CallInv, CallOK, RowInv, RowOK
<1>3. /\ origin' = origin
      /\ token[t].state # "none"
      /\ token[l].state # "none"
      /\ raced \subseteq raced'
      /\ loggedOut' = loggedOut \cup {l}
      /\ l \notin raced' => ~Refreshing(t) /\ token[t].replacedBy = Null
  BY <1>1, <1>2 DEF LogoutRevoke, CallInv, CallOK, RowInv, RowOK
<1>4. /\ \A x \in Tokens : x # t => token'[x] = token[x]
      /\ token'[t].state = "revoked" /\ token'[t].user = token[t].user
      /\ token'[t].replacedBy = token[t].replacedBy
  BY <1>1 DEF LogoutRevoke, TypeOK, TokenRow
<1>5. /\ \A x \in Calls : x # c => call'[x] = call[x]
      /\ call[c].pc = "revoke" /\ call'[c].pc = "done" /\ call'[c].user = call[c].user
  BY DEF LogoutRevoke, Goto, TypeOK, Call
<1>6. \A x \in Tokens :
        /\ token'[x].state = "none" <=> token[x].state = "none"
        /\ token'[x].user = token[x].user
        /\ token'[x].replacedBy = token[x].replacedBy
        /\ token[x].state = "revoked" => token'[x].state = "revoked"
  BY <1>3, <1>4
<1>7. ASSUME NEW s \in Tokens, token[s].state # "none", token[s].replacedBy = Null,
             origin[s].login = l, l \notin raced'
      PROVE  s = t
  BY <1>2, <1>3, <1>7 DEF TailInv, OneTail
<1>8. RowInv'
  BY <1>3, <1>6 DEF RowInv, RowOK
<1>9. ChainInv'
  <2>1. ASSUME NEW x \in Tokens
        PROVE  ChainOK(x)'
    <3>1. /\ ChainOK(x)
          /\ token[x].replacedBy \in Tokens \cup {Null}
          /\ origin[x].parent \in Tokens \cup {Null}
      BY DEF ChainInv, TypeOK, TokenRow, Origin
    <3>2. QED
      BY <1>3, <1>6, <3>1 DEF ChainOK
  <2>2. QED
    BY <2>1 DEF ChainInv
<1>10. CallInv'
  BY <1>5, <1>6 DEF CallInv, CallOK, Rotating
<1>11. OverlapInv'
  <2>1. ASSUME NEW x \in Calls, Rotating(x)', origin'[call'[x].token].login \notin raced'
        PROVE  /\ token'[call'[x].token].replacedBy = Null
               /\ origin'[call'[x].token].login \notin loggedOut'
    <3>1. x # c /\ call'[x] = call[x] /\ Rotating(x)
      BY <1>5, <2>1 DEF Rotating
    <3>2. PICK s \in Tokens : s = call[x].token
      BY <3>1 DEF CallInv, CallOK
    <3>3. /\ token[s].state # "none" /\ token[s].replacedBy = Null
          /\ origin[s].login \notin loggedOut
      BY <1>3, <2>1, <3>1, <3>2 DEF OverlapInv, CallInv, CallOK
    <3>4. origin[s].login # l
      BY <1>3, <1>7, <2>1, <3>1, <3>2, <3>3 DEF Refreshing, Rotating
    <3>5. QED
      BY <1>3, <1>6, <3>1, <3>2, <3>3, <3>4
  <2>2. ASSUME NEW x \in Calls, NEW y \in Calls, Rotating(x)', Rotating(y)', x # y,
               call'[x].token = call'[y].token
        PROVE  origin'[call'[x].token].login \in raced'
    BY <1>3, <1>5, <2>2 DEF OverlapInv, Rotating
  <2>3. QED
    BY <2>1, <2>2 DEF OverlapInv
<1>12. TailInv'
  BY <1>3, <1>6 DEF TailInv, OneTail
<1>13. LogoutInv'
  <2>1. ASSUME NEW s \in Tokens, Live(s)', origin'[s].login \notin raced'
        PROVE  origin'[s].login \notin loggedOut'
    <3>1. s # t /\ Live(s)
      BY <1>4, <2>1 DEF Live
    <3>2. token[s].replacedBy = Null /\ origin[s].login \notin loggedOut
      BY <1>3, <2>1, <3>1 DEF Live, ChainInv, ChainOK, LogoutInv
    <3>3. origin[s].login # l
      BY <1>3, <1>7, <2>1, <3>1, <3>2 DEF Live
    <3>4. QED
      BY <1>3, <3>2, <3>3
  <2>2. QED
    BY <2>1 DEF LogoutInv
<1>14. QED
  BY <1>8, <1>9, <1>10, <1>11, <1>12, <1>13 DEF Chains

LEMMA NextInv == IInv /\ [Next]_vars => IInv'
<1> SUFFICES ASSUME IInv, [Next]_vars PROVE IInv'
  OBVIOUS
<1>1. ASSUME NEW c \in Calls,
             \/ \E u \in Users : LoginRead(c, u) \/ ReloginRead(c, u)
             \/ \E t \in Tokens : LogoutFind(c, t)
             \/ RefreshReadUser(c) \/ ReloginWrite(c) \/ CallFails(c)
      PROVE  IInv'
  BY <1>1, NextType, CallsKeepChains DEF Chains, IInv
<1>2. ASSUME NEW c \in Calls, NEW t \in Tokens, RefreshFind(c, t)
      PROVE  IInv'
  BY <1>2, NextType, FindKeepsChains DEF Chains, IInv
<1>3. ASSUME NEW c \in Calls, LoginIssue(c)
      PROVE  IInv'
  BY <1>3, NextType, IssueKeepsChains DEF Chains, IInv
<1>4. ASSUME NEW c \in Calls, RefreshRotate(c)
      PROVE  IInv'
  BY <1>4, NextType, RotateKeepsChains DEF Chains, IInv
<1>5. ASSUME NEW c \in Calls, LogoutRevoke(c)
      PROVE  IInv'
  BY <1>5, NextType, LogoutKeepsChains DEF Chains, IInv
<1>6. ASSUME NEW c \in Calls, RevokeAll(c)
      PROVE  IInv'
  BY <1>6, NextType, RevokeAllKeepsChains DEF Chains, IInv
<1>7. CASE UNCHANGED vars
  <2>1. TypeOK'
    BY <1>7 DEF vars, TypeOK, IInv
  <2>2. RowInv' /\ ChainInv' /\ CallInv'
    BY <1>7 DEF vars, IInv, RowInv, RowOK, ChainInv, ChainOK, CallInv, CallOK, Rotating
  <2>3. OverlapInv' /\ TailInv' /\ LogoutInv'
    BY <1>7 DEF vars, IInv, OverlapInv, Rotating, TailInv, OneTail, LogoutInv, Live
  <2>4. QED
    BY <2>1, <2>2, <2>3 DEF IInv
<1>8. CASE Next
  <2>1. PICK c \in Calls :
          \/ \E u \in Users : LoginRead(c, u) \/ ReloginRead(c, u)
          \/ \E t \in Tokens : RefreshFind(c, t) \/ LogoutFind(c, t)
          \/ LoginIssue(c) \/ RefreshReadUser(c) \/ RefreshRotate(c) \/ LogoutRevoke(c)
          \/ ReloginWrite(c) \/ RevokeAll(c) \/ CallFails(c)
    BY <1>8 DEF Next
  <2>2. QED
    BY <1>1, <1>2, <1>3, <1>4, <1>5, <1>6, <2>1
<1>9. QED
  BY <1>7, <1>8

-----------------------------------------------------------------------------
(* Theorems *)

\* The chains of tokens stay well formed under any interleaving of logins,
\* refreshes, logouts and revocations, with calls breaking off anywhere.
THEOREM ChainsInvariant == Spec => []IInv
<1>1. Init => IInv
  BY InitInv
<1>2. IInv /\ [Next]_vars => IInv'
  BY NextInv
<1>3. QED
  BY <1>1, <1>2, PTL DEF Spec

\* Every row, call and history entry keeps the values its type gives it.
THEOREM SessionsTypeCorrect == Spec => []TypeOK
<1>1. IInv => TypeOK
  BY DEF IInv
<1>2. QED
  BY <1>1, ChainsInvariant, PTL

\* Unless calls on one token overlap, a login has at most one live token whatever
\* is presented and replayed, and none once it was logged out.
THEOREM OneLiveTokenPerLogin == Spec => []OneLivePerLogin
<1>1. IInv => OneLivePerLogin
  <2> SUFFICES ASSUME IInv, NEW l \in Tokens \ raced
               PROVE  LET live == {t \in Tokens : Live(t) /\ origin[t].login = l}
                      IN  /\ Cardinality(live) <= 1
                          /\ l \in loggedOut => live = {}
    BY DEF OneLivePerLogin
  <2> DEFINE live == {t \in Tokens : Live(t) /\ origin[t].login = l}
  <2>1. ASSUME NEW s \in live, NEW t \in live
        PROVE  s = t
    BY DEF IInv, TailInv, OneTail, ChainInv, ChainOK, Live
  <2>2. l \in loggedOut => live = {}
    BY DEF IInv, LogoutInv
  <2>3. Cardinality(live) <= 1
    <3>1. CASE live = {}
      BY <3>1, FS_EmptySet
    <3>2. CASE live # {}
      <4>1. PICK t \in live : TRUE
        BY <3>2
      <4>2. live = {t}
        BY <2>1, <4>1
      <4>3. Cardinality({t}) = 1
        BY FS_Singleton
      <4> HIDE DEF live
      <4>4. QED
        BY <4>2, <4>3
    <3>3. QED
      BY <3>1, <3>2
  <2>4. QED
    BY <2>2, <2>3
<1>2. QED
  BY <1>1, ChainsInvariant, PTL

\* replacedById links the tokens of a login in one chain of revoked tokens, and
\* without overlapping refreshes no successor is missing from it.
THEOREM RotationChains == Spec => []RotationChain
<1>1. IInv => RotationChain
  BY DEF IInv, ChainInv, ChainOK, RotationChain
<1>2. QED
  BY <1>1, ChainsInvariant, PTL

\* Only its own rotation or logout, or a revocation of its user, ends a session.
THEOREM SessionsEndForTheirUser == Spec => SessionEndsForItsUser
<1> DEFINE Ends(t) ==
      (Live(t) /\ token'[t].state = "revoked") =>
         \E c \in Calls :
           /\ call[c].user = token[t].user
           /\ \/ call[c].token = t /\ call[c].pc \in {"rotate", "revoke"}
              \/ call[c].pc \in {"revoke_all", "reuse"}
           /\ call'[c].pc = "done"
<1>1. ASSUME IInv, NEW t \in Tokens, NEW c \in Calls, RefreshRotate(c)
      PROVE  Ends(t)
  <2>1. /\ call[c].token \in Tokens
        /\ token[call[c].token].user = call[c].user
        /\ call'[c].pc = "done"
    BY <1>1 DEF RefreshRotate, Goto, IInv, TypeOK, Call, CallInv, CallOK, Rotating
  <2>2. t # call[c].token /\ Live(t) => token'[t].state # "revoked"
    BY <1>1, <2>1 DEF RefreshRotate, IInv, TypeOK, Live
  <2>3. QED
    BY <1>1, <2>1, <2>2 DEF RefreshRotate
<1>2. ASSUME IInv, NEW t \in Tokens, NEW c \in Calls, LogoutRevoke(c)
      PROVE  Ends(t)
  <2>1. /\ call[c].token \in Tokens
        /\ token[call[c].token].user = call[c].user
        /\ call'[c].pc = "done"
    BY <1>2 DEF LogoutRevoke, Goto, IInv, TypeOK, Call, CallInv, CallOK
  <2>2. t # call[c].token /\ Live(t) => token'[t].state # "revoked"
    BY <1>2, <2>1 DEF LogoutRevoke, IInv, TypeOK, Live
  <2>3. QED
    BY <1>2, <2>1, <2>2 DEF LogoutRevoke
<1>3. ASSUME IInv, NEW t \in Tokens, NEW c \in Calls, RevokeAll(c)
      PROVE  Ends(t)
  <2>1. call'[c].pc = "done"
    BY <1>3 DEF RevokeAll, RevocationPasses, IInv, TypeOK, Call
  <2>2. token[t].user # call[c].user /\ Live(t) => token'[t].state # "revoked"
    BY <1>3 DEF RevokeAll, revokeAllForUser, Live
  <2>3. QED
    BY <1>3, <2>1, <2>2 DEF RevokeAll
<1>4. ASSUME IInv, NEW t \in Tokens, NEW c \in Calls, LoginIssue(c)
      PROVE  Ends(t)
  BY <1>4 DEF LoginIssue, IInv, TypeOK, Live
<1>5. ASSUME NEW t \in Tokens, NEW c \in Calls,
             \/ \E u \in Users : LoginRead(c, u) \/ ReloginRead(c, u)
             \/ \E x \in Tokens : RefreshFind(c, x) \/ LogoutFind(c, x)
             \/ RefreshReadUser(c) \/ ReloginWrite(c) \/ CallFails(c)
      PROVE  Ends(t)
  BY <1>5 DEF LoginRead, ReloginRead, RefreshFind, LogoutFind, RefreshReadUser,
              ReloginWrite, CallFails, Live
<1>6. IInv /\ [Next]_vars => [\A t \in Tokens : Ends(t)]_vars
  BY <1>1, <1>2, <1>3, <1>4, <1>5 DEF Next
<1>7. QED
  BY <1>6, ChainsInvariant, PTL DEF Spec, SessionEndsForItsUser

-----------------------------------------------------------------------------
(* The cut *)

\* The session of u that a login with counter s began did not have to end yet.
Current(u, s) == user[u] = "active" /\ s = cut[u]

\* While no revocation of u is due, whatever is live, and whatever a call may
\* still create on checks no revocation overtook, is current.
CutOK(u) ==
  ~RevocationDue(u) =>
    /\ \A t \in Tokens :
         Live(t) /\ token[t].user = u /\ ~origin[t].late => Current(u, origin[t].since)
    /\ \A c \in Calls :
         call[c].user = u /\ ~call[c].late =>
           /\ call[c].pc = "issue" => Current(u, call[c].since)
           /\ Rotating(c) /\ ~origin[call[c].token].late =>
                Current(u, origin[call[c].token].since)

CutInv == \A u \in Users : CutOK(u)

\* A step that ends no revocation of u: none was due if none is, and then neither
\* the row of u nor its counter has changed.
NoCut(u) ==
  ~RevocationDue(u)' => /\ ~RevocationDue(u)
                        /\ user'[u] = user[u]
                        /\ cut'[u] = cut[u]

\* Only the end of a revocation makes one no longer due.
LEMMA OnlyRevocationsEndIt ==
  ASSUME IInv, NEW c \in Calls, NEW u \in Users,
         \/ \E v \in Users : LoginRead(c, v) \/ ReloginRead(c, v)
         \/ \E t \in Tokens : RefreshFind(c, t) \/ LogoutFind(c, t)
         \/ LoginIssue(c) \/ RefreshReadUser(c) \/ RefreshRotate(c) \/ LogoutRevoke(c)
         \/ ReloginWrite(c) \/ CallFails(c)
  PROVE  NoCut(u)
<1> USE DEF IInv
<1>1. ASSUME UNCHANGED <<user, cut, unrevoked>>,
             call[c].pc \notin {"revoke_all", "reuse"},
             \A x \in Calls : x # c => call'[x] = call[x]
      PROVE  NoCut(u)
  BY <1>1 DEF NoCut, RevocationDue
<1>2. ASSUME NEW v \in Users, LoginRead(c, v) \/ ReloginRead(c, v)
      PROVE  NoCut(u)
  BY <1>1, <1>2 DEF LoginRead, ReloginRead, Start, TypeOK
<1>3. ASSUME LoginIssue(c) \/ RefreshReadUser(c) \/ RefreshRotate(c) \/ LogoutRevoke(c)
      PROVE  NoCut(u)
  BY <1>1, <1>3 DEF LoginIssue, RefreshReadUser, RefreshRotate, LogoutRevoke, Goto, TypeOK
<1>4. ASSUME NEW t \in Tokens, LogoutFind(c, t)
      PROVE  NoCut(u)
  BY <1>1, <1>4 DEF LogoutFind, Start, TypeOK
<1>5. ASSUME NEW t \in Tokens, RefreshFind(c, t)
      PROVE  NoCut(u)
  <2>1. \A x \in Calls : x # c => call'[x] = call[x]
    BY <1>5 DEF RefreshFind, Start, TypeOK
  <2>2. CASE Live(t)
    BY <1>1, <1>5, <2>1, <2>2 DEF RefreshFind, Start
  <2>3. CASE ~Live(t)
    <3>1. /\ call'[c].pc = "reuse" /\ call'[c].user = token[t].user
          /\ cut' = [cut EXCEPT ![token[t].user] = @ + 1]
          /\ UNCHANGED <<user, unrevoked>>
          /\ call[c].pc = "idle"
      BY <1>5, <2>3 DEF RefreshFind, Start, TypeOK
    <3>2. u # token[t].user => cut'[u] = cut[u]
      BY <3>1 DEF TypeOK
    <3>3. u = token[t].user => RevocationDue(u)'
      BY <3>1 DEF RevocationDue
    <3>4. ~RevocationDue(u)' => ~RevocationDue(u)
      BY <2>1, <3>1 DEF RevocationDue
    <3>5. QED
      BY <3>1, <3>2, <3>3, <3>4 DEF NoCut
  <2>4. QED
    BY <2>2, <2>3
<1>6. ASSUME ReloginWrite(c)
      PROVE  NoCut(u)
  <2>1. PICK v \in Users : v = call[c].user
    BY <1>6 DEF ReloginWrite, CallInv, CallOK
  <2>2. /\ \A x \in Calls : x # c => call'[x] = call[x]
        /\ call[c].pc \in {"write", "remove"}
        /\ call'[c].pc = "revoke_all" /\ call'[c].user = v
        /\ UNCHANGED unrevoked
    BY <1>6, <2>1 DEF ReloginWrite, Goto, TypeOK, Call
  <2>3. u # v => user'[u] = user[u] /\ cut'[u] = cut[u]
    BY <1>6, <2>1 DEF ReloginWrite, TypeOK
  <2>4. u = v => RevocationDue(u)'
    BY <2>2 DEF RevocationDue
  <2>5. ~RevocationDue(u)' => ~RevocationDue(u)
    BY <2>2 DEF RevocationDue
  <2>6. QED
    BY <2>3, <2>4, <2>5 DEF NoCut
<1>7. ASSUME CallFails(c)
      PROVE  NoCut(u)
  <2>1. /\ \A x \in Calls : x # c => call'[x] = call[x]
        /\ UNCHANGED <<user, cut>>
        /\ unrevoked \subseteq unrevoked'
        /\ call[c].pc \in {"revoke_all", "reuse"} => call[c].user \in unrevoked'
    BY <1>7 DEF CallFails, Goto, TypeOK
  <2>2. QED
    BY <2>1 DEF NoCut, RevocationDue
<1>8. QED
  BY <1>2, <1>3, <1>4, <1>5, <1>6, <1>7

\* What CutOK says of one token and of one call.
TokenCurrent(u, t) ==
  Live(t) /\ token[t].user = u /\ ~origin[t].late => Current(u, origin[t].since)

CallCurrent(u, c) ==
  call[c].user = u /\ ~call[c].late =>
    /\ call[c].pc = "issue" => Current(u, call[c].since)
    /\ Rotating(c) /\ ~origin[call[c].token].late =>
         Current(u, origin[call[c].token].since)

\* A call that makes no check keeps what CallCurrent says of it.
SameCheck(c) ==
  /\ call'[c].pc = "issue" => call'[c] = call[c]
  /\ Rotating(c)' => /\ Rotating(c)
                     /\ call'[c].user = call[c].user
                     /\ call'[c].token = call[c].token
                     /\ call'[c].late = call[c].late

\* A token that is live was live, with the same owner and history.
SameToken(t) ==
  Live(t)' => Live(t) /\ token'[t].user = token[t].user

\* Every step but a revocation: a token or a call it does not touch stays current,
\* so CutOK(u) depends on the one it does.
LEMMA UntouchedKeepCut ==
  ASSUME CallInv, NEW u \in Users, CutOK(u), NoCut(u),
         \A t \in Tokens : token[t].state # "none" => origin'[t] = origin[t],
         \A t \in Tokens : SameToken(t) \/ (~RevocationDue(u)' => TokenCurrent(u, t)'),
         \A c \in Calls : SameCheck(c) \/ (~RevocationDue(u)' => CallCurrent(u, c)')
  PROVE  CutOK(u)'
<1> SUFFICES ASSUME ~RevocationDue(u)'
             PROVE  /\ \A t \in Tokens : TokenCurrent(u, t)'
                    /\ \A c \in Calls : CallCurrent(u, c)'
  BY DEF CutOK, TokenCurrent, CallCurrent
<1>1. ~RevocationDue(u) /\ user'[u] = user[u] /\ cut'[u] = cut[u]
  BY DEF NoCut
<1>2. /\ \A t \in Tokens : TokenCurrent(u, t)
      /\ \A c \in Calls : CallCurrent(u, c)
  BY <1>1 DEF CutOK, TokenCurrent, CallCurrent
<1>3. ASSUME NEW t \in Tokens, SameToken(t)
      PROVE  TokenCurrent(u, t)'
  <2>1. Live(t)' => origin'[t] = origin[t] /\ token'[t].user = token[t].user /\ Live(t)
    BY <1>3 DEF SameToken, Live
  <2>2. QED
    BY <1>1, <1>2, <2>1 DEF TokenCurrent, Current
<1>4. ASSUME NEW c \in Calls, SameCheck(c)
      PROVE  CallCurrent(u, c)'
  <2>1. Rotating(c)' => /\ call[c].token \in Tokens
                        /\ origin'[call[c].token] = origin[call[c].token]
    BY <1>4 DEF SameCheck, CallInv, CallOK
  <2>2. QED
    BY <1>1, <1>2, <1>4, <2>1 DEF CallCurrent, SameCheck, Current
<1>5. QED
  BY <1>3, <1>4

\* Reading and revoking one token, and ending or advancing a call, make nothing
\* current that was not.
LEMMA QuietKeepsCut ==
  ASSUME IInv, NEW c \in Calls, NEW u \in Users, CutOK(u),
         \/ \E v \in Users : ReloginRead(c, v)
         \/ \E t \in Tokens : LogoutFind(c, t)
         \/ RefreshReadUser(c) \/ LogoutRevoke(c) \/ ReloginWrite(c) \/ CallFails(c)
  PROVE  CutOK(u)'
<1> USE DEF IInv
<1>1. NoCut(u)
  BY OnlyRevocationsEndIt
<1>2. origin' = origin
  BY DEF ReloginRead, LogoutFind, RefreshReadUser, LogoutRevoke, ReloginWrite, CallFails
<1>3. \A t \in Tokens : SameToken(t)
  <2>1. CASE LogoutRevoke(c)
    BY <2>1 DEF LogoutRevoke, SameToken, Live, TypeOK, TokenRow
  <2>2. CASE UNCHANGED token
    BY <2>2 DEF SameToken, Live
  <2>3. QED
    BY <2>1, <2>2 DEF ReloginRead, LogoutFind, RefreshReadUser, ReloginWrite, CallFails
<1>4. \A x \in Calls : x # c => call'[x] = call[x]
  BY DEF ReloginRead, LogoutFind, RefreshReadUser, LogoutRevoke, ReloginWrite, CallFails,
         Start, Goto, TypeOK
<1>5. SameCheck(c)
  <2>1. ASSUME NEW v \in Users, ReloginRead(c, v)
        PROVE  call'[c].pc \in {"write", "remove"}
    BY <2>1 DEF ReloginRead, Start, TypeOK
  <2>2. ASSUME NEW t \in Tokens, LogoutFind(c, t)
        PROVE  call'[c].pc = "revoke"
    BY <2>2 DEF LogoutFind, Start, TypeOK
  <2>3. ASSUME LogoutRevoke(c) \/ ReloginWrite(c) \/ CallFails(c)
        PROVE  call'[c].pc \in {"revoke_all", "done"}
    <3>1. Goto(c, "done") \/ Goto(c, "revoke_all")
      BY <2>3 DEF LogoutRevoke, ReloginWrite, CallFails
    <3>2. QED
      BY <3>1 DEF Goto, TypeOK, Call
  <2>4. ASSUME RefreshReadUser(c)
        PROVE  /\ call'[c].pc # "issue" /\ Rotating(c)
               /\ call'[c].user = call[c].user
               /\ call'[c].token = call[c].token
               /\ call'[c].late = call[c].late
    BY <2>4 DEF RefreshReadUser, Goto, Rotating, TypeOK, Call
  <2>5. QED
    BY <2>1, <2>2, <2>3, <2>4 DEF SameCheck, Rotating
<1>6. \A x \in Calls : SameCheck(x)
  BY <1>4, <1>5 DEF SameCheck, Rotating
<1>7. QED
  BY <1>1, <1>2, <1>3, <1>6, UntouchedKeepCut

\* A login is current when it reads the user, and a refresh when it finds the
\* token live.
LEMMA ChecksKeepCut ==
  ASSUME IInv, NEW c \in Calls, NEW u \in Users, CutOK(u),
         \/ \E v \in Users : LoginRead(c, v)
         \/ \E t \in Tokens : RefreshFind(c, t)
  PROVE  CutOK(u)'
<1> USE DEF IInv
<1>1. NoCut(u)
  BY OnlyRevocationsEndIt
<1>2. UNCHANGED <<origin, token>>
  BY DEF LoginRead, RefreshFind
<1>3. \A t \in Tokens : SameToken(t)
  BY <1>2 DEF SameToken, Live
<1>4. \A x \in Calls : x # c => SameCheck(x)
  BY DEF LoginRead, RefreshFind, Start, TypeOK, SameCheck, Rotating
<1>5. ASSUME NEW v \in Users, LoginRead(c, v), ~RevocationDue(u)'
      PROVE  CallCurrent(u, c)'
  <2>1. /\ call'[c].pc = "issue" /\ call'[c].user = v /\ call'[c].since = cut[v]
        /\ user[v] = "active"
        /\ UNCHANGED <<user, cut>>
    BY <1>5 DEF LoginRead, Start, TypeOK
  <2>2. QED
    BY <2>1 DEF CallCurrent, Current, Rotating
<1>6. ASSUME NEW t \in Tokens, RefreshFind(c, t), ~RevocationDue(u)'
      PROVE  CallCurrent(u, c)'
  <2>1. /\ call'[c].pc = IF Live(t) THEN "user" ELSE "reuse"
        /\ call'[c].user = token[t].user /\ call'[c].token = t
    BY <1>6 DEF RefreshFind, Start, TypeOK
  <2>2. /\ ~RevocationDue(u) /\ user'[u] = user[u] /\ cut'[u] = cut[u]
    BY <1>1, <1>6 DEF NoCut
  <2>3. Live(t) /\ token[t].user = u /\ ~origin[t].late => Current(u, origin[t].since)
    BY <2>2 DEF CutOK
  <2>4. QED
    BY <1>2, <2>1, <2>2, <2>3 DEF CallCurrent, Current, Rotating
<1>7. QED
  BY <1>1, <1>2, <1>3, <1>4, <1>5, <1>6, UntouchedKeepCut

\* The token a login creates is as current as the login.
LEMMA IssueKeepsCut ==
  ASSUME IInv, NEW c \in Calls, NEW u \in Users, CutOK(u), LoginIssue(c)
  PROVE  CutOK(u)'
<1> USE DEF IInv
<1>1. NoCut(u)
  BY OnlyRevocationsEndIt
<1>2. PICK n \in Tokens :
        /\ token[n].state = "none"
        /\ token' = [token EXCEPT ![n] =
             [state |-> "active", user |-> call[c].user, replacedBy |-> Null]]
        /\ origin' = [origin EXCEPT ![n] =
             [login |-> n, parent |-> Null, since |-> call[c].since, late |-> call[c].late]]
  BY DEF LoginIssue
<1>3. \A t \in Tokens : t # n => token'[t] = token[t] /\ origin'[t] = origin[t]
  BY <1>2 DEF TypeOK
<1>4. /\ token'[n].user = call[c].user
      /\ origin'[n].since = call[c].since /\ origin'[n].late = call[c].late
  BY <1>2 DEF TypeOK
<1>5. \A x \in Calls : SameCheck(x)
  BY DEF LoginIssue, Goto, TypeOK, Call, SameCheck, Rotating
<1>6. \A t \in Tokens : t # n => SameToken(t)
  BY <1>3 DEF SameToken, Live
<1>7. ~RevocationDue(u)' => TokenCurrent(u, n)'
  <2>1. ASSUME ~RevocationDue(u)'
        PROVE  /\ ~RevocationDue(u) /\ user'[u] = user[u] /\ cut'[u] = cut[u]
               /\ call[c].user = u /\ ~call[c].late => Current(u, call[c].since)
    BY <1>1, <2>1 DEF NoCut, CutOK, LoginIssue
  <2>2. QED
    BY <1>4, <2>1 DEF TokenCurrent, Current
<1>8. QED
  BY <1>1, <1>2, <1>3, <1>5, <1>6, <1>7, UntouchedKeepCut

\* The token a rotation creates is as current as the one it replaces.
LEMMA RotateKeepsCut ==
  ASSUME IInv, NEW c \in Calls, NEW u \in Users, CutOK(u), RefreshRotate(c)
  PROVE  CutOK(u)'
<1> USE DEF IInv
<1>1. NoCut(u)
  BY OnlyRevocationsEndIt
<1>2. PICK t \in Tokens : t = call[c].token
  BY DEF RefreshRotate, CallInv, CallOK, Rotating
<1>3. /\ call[c].pc = "rotate" /\ Rotating(c)
      /\ token[t].state # "none" /\ call[c].user \in Users
  BY <1>2 DEF RefreshRotate, CallInv, CallOK, Rotating
<1>4. PICK n \in Tokens :
        /\ token[n].state = "none"
        /\ Rotates(t, n, call[c].user)
        /\ origin' = [origin EXCEPT ![n] =
             [login |-> origin[t].login, parent |-> t, since |-> origin[t].since,
              late |-> call[c].late \/ origin[t].late]]
  BY <1>2 DEF RefreshRotate, Rotates
<1>5. /\ \A x \in Tokens : x # n /\ x # t => token'[x] = token[x]
      /\ token'[n].user = call[c].user
      /\ token'[t].state = "revoked"
  BY <1>3, <1>4, RotateRows
<1>6. /\ \A x \in Tokens : x # n => origin'[x] = origin[x]
      /\ origin'[n].since = origin[t].since
      /\ origin'[n].late = (call[c].late \/ origin[t].late)
  BY <1>4 DEF TypeOK
<1>7. \A x \in Calls : SameCheck(x)
  BY DEF RefreshRotate, Goto, TypeOK, Call, SameCheck, Rotating
<1>8. \A x \in Tokens : x # n => SameToken(x)
  BY <1>5 DEF SameToken, Live
<1>9. ~RevocationDue(u)' => TokenCurrent(u, n)'
  <2>1. ASSUME ~RevocationDue(u)'
        PROVE  /\ ~RevocationDue(u) /\ user'[u] = user[u] /\ cut'[u] = cut[u]
               /\ call[c].user = u /\ ~call[c].late /\ ~origin[t].late =>
                    Current(u, origin[t].since)
    BY <1>1, <1>2, <1>3, <2>1 DEF NoCut, CutOK
  <2>2. QED
    BY <1>5, <1>6, <2>1 DEF TokenCurrent, Current
<1>10. QED
  BY <1>1, <1>4, <1>6, <1>7, <1>8, <1>9, UntouchedKeepCut

\* A revocation leaves its user without live tokens, and marks every call of the
\* user that could still create one. It does not concern other users.
LEMMA RevokeAllKeepsCut ==
  ASSUME IInv, NEW c \in Calls, NEW u \in Users, CutOK(u), RevokeAll(c)
  PROVE  CutOK(u)'
<1> USE DEF IInv
<1>1. PICK v \in Users : v = call[c].user
  BY DEF RevokeAll, CallInv, CallOK, Rotating
<1>2. /\ UNCHANGED <<user, origin, cut>>
      /\ token' = revokeAllForUser(v)
      /\ call' = RevocationPasses(c, v)
      /\ unrevoked' = unrevoked \ {v}
      /\ call[c].pc \in {"revoke_all", "reuse"}
  BY <1>1 DEF RevokeAll
<1>3. \A t \in Tokens : /\ token'[t].user = token[t].user
                        /\ Live(t)' <=> Live(t) /\ token[t].user # v
  BY <1>2 DEF revokeAllForUser, Live, TypeOK, TokenRow
<1>4. \A x \in Calls : /\ call'[x].user = call[x].user
                       /\ call'[x].token = call[x].token
                       /\ x # c => call'[x].pc = call[x].pc
                       /\ x # c /\ call[x].user # v => call'[x] = call[x]
                       /\ x # c /\ call[x].user = v
                          /\ call[x].pc \in {"issue", "user", "rotate"} => call'[x].late
  BY <1>2 DEF RevocationPasses, TypeOK, Call
<1>5. call'[c].pc = "done"
  BY <1>2 DEF RevocationPasses, TypeOK, Call
<1>6. CASE u = v
  <2>1. \A t \in Tokens : ~(Live(t)' /\ token'[t].user = u)
    BY <1>3, <1>6
  <2>2. \A x \in Calls : call'[x].user = u /\ ~call'[x].late =>
                           call'[x].pc # "issue" /\ ~Rotating(x)'
    BY <1>4, <1>5, <1>6 DEF Rotating
  <2>3. QED
    BY <2>1, <2>2 DEF CutOK
<1>7. CASE u # v
  <2>1. NoCut(u)
    BY <1>1, <1>2, <1>4, <1>5, <1>7 DEF NoCut, RevocationDue
  <2>2. \A t \in Tokens : SameToken(t)
    BY <1>3 DEF SameToken
  <2>3. \A x \in Calls : SameCheck(x) \/ CallCurrent(u, x)'
    BY <1>1, <1>4, <1>5, <1>7 DEF SameCheck, CallCurrent, Rotating
  <2>4. QED
    BY <1>2, <2>1, <2>2, <2>3, UntouchedKeepCut
<1>8. QED
  BY <1>6, <1>7

LEMMA NextCut == IInv /\ CutInv /\ [Next]_vars => CutInv'
<1> SUFFICES ASSUME IInv, CutInv, [Next]_vars, NEW u \in Users
             PROVE  CutOK(u)'
  BY DEF CutInv
<1>1. CutOK(u)
  BY DEF CutInv
<1>2. CASE UNCHANGED vars
  BY <1>1, <1>2 DEF vars, CutOK, Current, RevocationDue, Rotating, Live
<1>3. CASE Next
  BY <1>1, <1>3, QuietKeepsCut, ChecksKeepCut, IssueKeepsCut, RotateKeepsCut,
     RevokeAllKeepsCut DEF Next
<1>4. QED
  BY <1>2, <1>3

\* Once the revocation a change of password, a change of e-mail, a removal or a
\* detected reuse decided on has run, no session begun before it is live, except
\* one written by a call that made its checks before the revocation ran.
THEOREM SessionsCutAlways == Spec => []SessionsCut
<1>1. Init => CutInv
  BY DEF Init, CutInv, CutOK, Live, Rotating
<1>2. IInv /\ CutInv => SessionsCut
  BY DEF IInv, RowInv, RowOK, Live, CutInv, CutOK, Current, SessionsCut
<1>3. QED
  BY <1>1, <1>2, NextCut, ChainsInvariant, PTL DEF Spec
=============================================================================
