------------------------------ MODULE Sessions ------------------------------
(***************************************************************************)
(* Sessions of aerobi-api: the refresh tokens of module `auth` (login,     *)
(* rotation, reuse detection, logout) and the operations of module `users` *)
(* that end every session of a user: change of password, confirmed reset   *)
(* of password, change of e-mail, removal.                                 *)
(*                                                                         *)
(* Each call is a coroutine: an action is the code between two awaits. A   *)
(* transaction is one action. A call that is refused without having        *)
(* written anything (wrong password, expired or unknown token) has no      *)
(* effect on this state and no action.                                     *)
(***************************************************************************)
EXTENDS Integers, FiniteSets

CONSTANTS
  Users,
  Tokens,     \* ids of refresh token rows (bounds their number)
  Calls,      \* HTTP calls (bounds their number)
  MaxFaults,  \* bound on the number of calls that break off
  Null

ASSUME SessionsAssumption ==
  /\ Null \notin Users \cup Tokens
  /\ MaxFaults \in Nat

VARIABLES
  user,       \* table user: active or soft-deleted
  token,      \* table refresh_tokens
  call,       \* the calls in progress
  origin,     \* history: where each token comes from
  cut,        \* history: how often the sessions of a user had to end
  unrevoked,  \* history: users whose revocation broke off
  raced,      \* history: logins with overlapping calls on one token
  loggedOut,  \* history: logins ended by a logout
  faults      \* number of calls that broke off

vars == <<user, token, call, origin, cut, unrevoked, raced, loggedOut, faults>>

TokenRow ==
  [state : {"none", "active", "revoked"},
   user : Users \cup {Null},
   replacedBy : Tokens \cup {Null}]

\* "issue": login about to create. "user", "rotate": refresh of a token found
\* active. "reuse": refresh of a token found revoked. "revoke": logout of a token
\* found active. "write", "remove": the user row is about to be written.
\* "revoke_all": it has been.
Call ==
  [pc : {"idle", "issue", "user", "rotate", "reuse", "revoke", "write", "remove",
         "revoke_all", "done"},
   user : Users \cup {Null},
   token : Tokens \cup {Null},
   since : Nat,     \* value of cut when the login read the user
   late : BOOLEAN]  \* a revocation ran since this call made its checks

\* login is the first token of the chain, parent the token this one replaced.
Origin ==
  [login : Tokens \cup {Null}, parent : Tokens \cup {Null}, since : Nat, late : BOOLEAN]

TypeOK ==
  /\ user \in [Users -> {"active", "removed"}]
  /\ token \in [Tokens -> TokenRow]
  /\ call \in [Calls -> Call]
  /\ origin \in [Tokens -> Origin]
  /\ cut \in [Users -> Nat]
  /\ unrevoked \subseteq Users
  /\ raced \subseteq Tokens
  /\ loggedOut \subseteq Tokens
  /\ faults \in Nat

Init ==
  /\ user = [u \in Users |-> "active"]
  /\ token = [t \in Tokens |-> [state |-> "none", user |-> Null, replacedBy |-> Null]]
  /\ call = [c \in Calls |-> [pc |-> "idle", user |-> Null, token |-> Null,
                              since |-> 0, late |-> FALSE]]
  /\ origin = [t \in Tokens |-> [login |-> Null, parent |-> Null,
                                 since |-> 0, late |-> FALSE]]
  /\ cut = [u \in Users |-> 0]
  /\ unrevoked = {}
  /\ raced = {}
  /\ loggedOut = {}
  /\ faults = 0

-----------------------------------------------------------------------------
(* Helpers *)

Live(t) == token[t].state = "active"

\* Some refresh found t active and has not rotated it yet.
Refreshing(t) == \E c \in Calls : call[c].token = t /\ call[c].pc \in {"user", "rotate"}

Start(c, pc, u, t) ==
  /\ call[c].pc = "idle"
  /\ call' = [call EXCEPT ![c] = [pc |-> pc, user |-> u, token |-> t,
                                  since |-> cut[u], late |-> FALSE]]

Goto(c, pc) == call' = [call EXCEPT ![c].pc = pc]

\* Calls of u that made their checks and may still create a token miss the
\* revocation c is making.
RevocationPasses(c, u) ==
  [x \in Calls |->
     IF x = c THEN [call[x] EXCEPT !.pc = "done"]
     ELSE IF call[x].user = u /\ call[x].pc \in {"issue", "user", "rotate"}
       THEN [call[x] EXCEPT !.late = TRUE]
       ELSE call[x]]

\* Variant: the filter on the user is missing.
RevokeAllForEverybody(u) ==
  [t \in Tokens |-> IF Live(t) THEN [token[t] EXCEPT !.state = "revoked"] ELSE token[t]]

\* Variant: the rows are soft-deleted instead of revoked.
RevokeAllBySoftDelete(u) ==
  [t \in Tokens |-> IF Live(t) /\ token[t].user = u
                      THEN [token[t] EXCEPT !.state = "deleted"] ELSE token[t]]

\* The table after an updateMany over the active tokens of u.
revokeAllForUser(u) ==
  [t \in Tokens |-> IF Live(t) /\ token[t].user = u
                      THEN [token[t] EXCEPT !.state = "revoked"] ELSE token[t]]

-----------------------------------------------------------------------------
(* Login *)

\* AuthLoginService up to the comparison of the password with the row it read.
LoginRead(c, u) ==
  /\ user[u] = "active"
  /\ Start(c, "issue", u, Null)
  /\ UNCHANGED <<user, token, origin, cut, unrevoked, raced, loggedOut, faults>>

\* IssueTokenPairService: the insert; nothing is checked again.
LoginIssue(c) ==
  /\ call[c].pc = "issue"
  /\ \E n \in Tokens :
       /\ token[n].state = "none"
       /\ token' = [token EXCEPT ![n] =
            [state |-> "active", user |-> call[c].user, replacedBy |-> Null]]
       /\ origin' = [origin EXCEPT ![n] =
            [login |-> n, parent |-> Null, since |-> call[c].since, late |-> call[c].late]]
  /\ Goto(c, "done")
  /\ UNCHANGED <<user, cut, unrevoked, raced, loggedOut, faults>>

-----------------------------------------------------------------------------
(* Refresh *)

\* Variant: a token found revoked is rotated like any other.
RefreshFindIgnoresReuse(c, t) ==
  LET u == token[t].user IN
  /\ token[t].state # "none"
  /\ Start(c, "user", u, t)
  /\ raced' = IF Refreshing(t) THEN raced \cup {origin[t].login} ELSE raced
  /\ UNCHANGED <<user, token, origin, cut, unrevoked, loggedOut, faults>>

\* AuthRefreshSessionService up to the read of the token: any token ever issued
\* may be presented, also twice and after it was replaced.
RefreshFind(c, t) ==
  LET u == token[t].user IN
  /\ token[t].state # "none"
  /\ Start(c, IF Live(t) THEN "user" ELSE "reuse", u, t)
  /\ cut' = IF Live(t) THEN cut ELSE [cut EXCEPT ![u] = @ + 1]
  /\ raced' = IF Live(t) /\ Refreshing(t) THEN raced \cup {origin[t].login} ELSE raced
  /\ UNCHANGED <<user, token, origin, unrevoked, loggedOut, faults>>

\* The read of the user.
RefreshReadUser(c) ==
  /\ call[c].pc = "user"
  /\ Goto(c, IF user[call[c].user] = "active" THEN "rotate" ELSE "done")
  /\ UNCHANGED <<user, token, origin, cut, unrevoked, raced, loggedOut, faults>>

\* Variant: the successor is created and the old token left as it is.
RefreshRotateWithoutRevoke(c) ==
  LET t == call[c].token IN
  /\ call[c].pc = "rotate"
  /\ \E n \in Tokens :
       /\ token[n].state = "none"
       /\ token' = [token EXCEPT
            ![n] = [state |-> "active", user |-> call[c].user, replacedBy |-> Null],
            ![t].replacedBy = n]
       /\ origin' = [origin EXCEPT ![n] =
            [login |-> origin[t].login, parent |-> t, since |-> origin[t].since,
             late |-> call[c].late \/ origin[t].late]]
  /\ Goto(c, "done")
  /\ UNCHANGED <<user, cut, unrevoked, raced, loggedOut, faults>>

\* rotate: one transaction. The update of the old token has no condition.
RefreshRotate(c) ==
  LET t == call[c].token IN
  /\ call[c].pc = "rotate"
  /\ \E n \in Tokens :
       /\ token[n].state = "none"
       /\ token' = [token EXCEPT
            ![n] = [state |-> "active", user |-> call[c].user, replacedBy |-> Null],
            ![t].state = "revoked", ![t].replacedBy = n]
       /\ origin' = [origin EXCEPT ![n] =
            [login |-> origin[t].login, parent |-> t, since |-> origin[t].since,
             late |-> call[c].late \/ origin[t].late]]
  /\ Goto(c, "done")
  /\ UNCHANGED <<user, cut, unrevoked, raced, loggedOut, faults>>

-----------------------------------------------------------------------------
(* Logout *)

LogoutFind(c, t) ==
  /\ Live(t)
  /\ Start(c, "revoke", token[t].user, t)
  /\ UNCHANGED <<user, token, origin, cut, unrevoked, raced, loggedOut, faults>>

\* revokeById: no condition either. A refresh of the same token that overlaps
\* carries the session on.
LogoutRevoke(c) ==
  LET t == call[c].token IN
  /\ call[c].pc = "revoke"
  /\ token' = [token EXCEPT ![t].state = "revoked"]
  /\ loggedOut' = loggedOut \cup {origin[t].login}
  /\ raced' = IF Refreshing(t) \/ token[t].replacedBy # Null
                THEN raced \cup {origin[t].login} ELSE raced
  /\ Goto(c, "done")
  /\ UNCHANGED <<user, origin, cut, unrevoked, faults>>

-----------------------------------------------------------------------------
(* Ending every session of a user *)

\* ChangePasswordService, ConfirmPasswordResetService, UpdateUserService with a
\* new e-mail ("write") and RemoveUserService ("remove"), up to their last read.
ReloginRead(c, u) ==
  /\ user[u] = "active"
  /\ \E pc \in {"write", "remove"} : Start(c, pc, u, Null)
  /\ UNCHANGED <<user, token, origin, cut, unrevoked, raced, loggedOut, faults>>

\* Variant: the row is written and the sessions are forgotten.
ReloginWriteOnly(c) ==
  LET u == call[c].user IN
  /\ call[c].pc \in {"write", "remove"}
  /\ user' = [user EXCEPT ![u] = IF call[c].pc = "remove" THEN "removed" ELSE @]
  /\ cut' = [cut EXCEPT ![u] = @ + 1]
  /\ Goto(c, "done")
  /\ UNCHANGED <<token, origin, unrevoked, raced, loggedOut, faults>>

\* The write of the row, by id alone.
ReloginWrite(c) ==
  LET u == call[c].user IN
  /\ call[c].pc \in {"write", "remove"}
  /\ user' = [user EXCEPT ![u] = IF call[c].pc = "remove" THEN "removed" ELSE @]
  /\ cut' = [cut EXCEPT ![u] = @ + 1]
  /\ Goto(c, "revoke_all")
  /\ UNCHANGED <<token, origin, unrevoked, raced, loggedOut, faults>>

\* revokeAllForUser, after the write or on reuse.
RevokeAll(c) ==
  LET u == call[c].user IN
  /\ call[c].pc \in {"revoke_all", "reuse"}
  /\ token' = revokeAllForUser(u)
  /\ call' = RevocationPasses(c, u)
  /\ unrevoked' = unrevoked \ {u}
  /\ UNCHANGED <<user, origin, cut, raced, loggedOut, faults>>

-----------------------------------------------------------------------------

\* A database error or a crash: the call ends and what it has written stays.
CallFails(c) ==
  /\ call[c].pc \notin {"idle", "done"}
  /\ faults < MaxFaults
  /\ faults' = faults + 1
  /\ unrevoked' = IF call[c].pc \in {"revoke_all", "reuse"}
                    THEN unrevoked \cup {call[c].user} ELSE unrevoked
  /\ Goto(c, "done")
  /\ UNCHANGED <<user, token, origin, cut, raced, loggedOut>>

Next ==
  \E c \in Calls :
    \/ \E u \in Users : LoginRead(c, u) \/ ReloginRead(c, u)
    \/ \E t \in Tokens : RefreshFind(c, t) \/ LogoutFind(c, t)
    \/ LoginIssue(c) \/ RefreshReadUser(c) \/ RefreshRotate(c) \/ LogoutRevoke(c)
    \/ ReloginWrite(c) \/ RevokeAll(c) \/ CallFails(c)

Spec == Init /\ [][Next]_vars

-----------------------------------------------------------------------------
(* Properties *)

\* A revocation of all sessions of u was decided and has not run yet, or broke
\* off and no other has run since.
RevocationDue(u) ==
  \/ u \in unrevoked
  \/ \E c \in Calls : call[c].user = u /\ call[c].pc \in {"revoke_all", "reuse"}

\* Once the revocation has run, no session begun before the change of password,
\* the change of e-mail, the removal or the detected reuse is left, whatever
\* rotations and logins interleave, except one written by a call that had made
\* its checks before the revocation ran.
SessionsCut ==
  \A t \in Tokens :
    (Live(t) /\ ~origin[t].late /\ ~RevocationDue(token[t].user)) =>
      /\ user[token[t].user] = "active"
      /\ origin[t].since = cut[token[t].user]

\* Rotation replaces a session and never multiplies it: unless calls on one token
\* overlap, a login has at most one live token, and none after its logout.
OneLivePerLogin ==
  \A l \in Tokens \ raced :
    LET live == {t \in Tokens : Live(t) /\ origin[t].login = l}
    IN  /\ Cardinality(live) <= 1
        /\ l \in loggedOut => live = {}

\* replacedById links the tokens of a login in a chain that leads from the login
\* to its last token: a replaced token is revoked, its successor is a token of
\* the same user that replaced this one, and unless refreshes of one token
\* overlap no successor is missing from the chain.
RotationChain ==
  \A t \in Tokens :
    /\ token[t].replacedBy # Null =>
         LET n == token[t].replacedBy
         IN  /\ token[t].state = "revoked"
             /\ token[n].state # "none"
             /\ token[n].user = token[t].user
             /\ origin[n].parent = t
    /\ (origin[t].parent # Null /\ origin[t].login \notin raced) =>
         token[origin[t].parent].replacedBy = t

\* A session ends only by its own rotation or logout, or because its user has to
\* log in again: nobody else's password, removal or replayed token ends it.
SessionEndsForItsUser ==
  [][\A t \in Tokens :
       (Live(t) /\ token'[t].state = "revoked") =>
         \E c \in Calls :
           /\ call[c].user = token[t].user
           /\ \/ call[c].token = t /\ call[c].pc \in {"rotate", "revoke"}
              \/ call[c].pc \in {"revoke_all", "reuse"}
           /\ call'[c].pc = "done"]_vars

(* What the documentation says and the code does not guarantee *)

\* "quando rotacionado, replacedById aponta ao sucessor e o registro antigo fica
\* revoked=true. Reuso de refresh ja revogado [...] revoga toda a familia"
\* (schema.prisma): a token that is already revoked gets no successor.
RotatesOnlyLive ==
  [][\A t \in Tokens : token'[t].replacedBy # token[t].replacedBy => Live(t)]_vars
=============================================================================
