----------------------------- MODULE Onboarding -----------------------------
(***************************************************************************)
(* The links with which a user sets a password: invitations and password   *)
(* resets, i.e. the one-time tokens of module `tokens` and the operations  *)
(* of module `users` that issue and redeem them. One user; the tokens of   *)
(* another are other rows of the same table, selected by subjectId.        *)
(*                                                                         *)
(* Each call is a coroutine and each action one awaited statement. A call  *)
(* that is refused has no further effect. The e-mail with the link is sent *)
(* after the token was created and changes no state, so any token that     *)
(* exists may be presented, at any endpoint and any number of times. What  *)
(* follows the redemption (a session for the invited user, the end of all  *)
(* sessions after a reset) is module Sessions.                             *)
(***************************************************************************)
EXTENDS Integers

CONSTANTS
  MaxTokens,  \* bound on the rows of the table, numbered in order of createdAt
  Calls,      \* HTTP calls (bounds their number)
  MaxFaults,  \* bound on the number of calls that break off
  Null

ASSUME OnboardingAssumption ==
  /\ MaxTokens \in Nat
  /\ MaxFaults \in Nat
  /\ Null \notin 1 .. MaxTokens
  /\ Null \notin {"INVITE", "PASSWORD_RESET"}

VARIABLES
  user,    \* the row of the user
  token,   \* table tokens
  call,    \* the calls in progress
  wrote,   \* history: calls that have set the password
  raced,   \* history: what was issued or redeemed by calls that overlapped
  faults   \* number of calls that broke off

vars == <<user, token, call, wrote, raced, faults>>

Tokens == 1 .. MaxTokens
TokenType == {"INVITE", "PASSWORD_RESET"}

\* "used": redeemed, or invalidated (used and soft-deleted).
TokenRow ==
  [state : {"none", "active", "expired", "used"}, type : TokenType \cup {Null}]

User ==
  [state : {"absent", "active", "removed"},
   accepted : BOOLEAN]          \* acceptedInviteAt is set

\* "invalidate", "insert": issuing. "validate", "password", "mark": redeeming.
Call ==
  [pc : {"idle", "invalidate", "insert", "validate", "password", "mark", "done"},
   type : TokenType \cup {Null},
   token : Tokens \cup {Null},  \* the token presented
   open : BOOLEAN]              \* history: it was active when the call began

\* Types with two links issued at once; tokens redeemed by two calls at once, or
\* by one that broke off before it could mark them; two acceptances at once.
Raced ==
  [types : SUBSET TokenType, tokens : SUBSET Tokens, acceptance : BOOLEAN]

TypeOK ==
  /\ user \in User
  /\ token \in [Tokens -> TokenRow]
  /\ \A t \in Tokens : token[t].state = "none" <=> token[t].type = Null
  /\ call \in [Calls -> Call]
  /\ \A c \in Calls : call[c].pc # "idle" => call[c].type # Null
  /\ \A c \in Calls : call[c].pc \in {"validate", "password", "mark"} =>
       call[c].token # Null
  /\ wrote \subseteq Calls
  /\ raced \in Raced
  /\ faults \in Nat

Init ==
  /\ user = [state |-> "absent", accepted |-> FALSE]
  /\ token = [t \in Tokens |-> [state |-> "none", type |-> Null]]
  /\ call = [c \in Calls |-> [pc |-> "idle", type |-> Null, token |-> Null,
                              open |-> FALSE]]
  /\ wrote = {}
  /\ raced = [types |-> {}, tokens |-> {}, acceptance |-> FALSE]
  /\ faults = 0

-----------------------------------------------------------------------------
(* Helpers *)

Start(c, pc, type, t) ==
  /\ call[c].pc = "idle"
  /\ call' = [call EXCEPT ![c] =
       [pc |-> pc, type |-> type, token |-> t,
        open |-> t \in Tokens /\ token[t].state = "active"]]

Goto(c, pc) == call' = [call EXCEPT ![c].pc = pc]

\* Rows that are not used, expired ones included.
Unused(type) ==
  {t \in Tokens : token[t].type = type /\ token[t].state \in {"active", "expired"}}

\* Variant: a token that was used is found too.
FindsUsed(t, type) == token[t].type = type /\ token[t].state \in {"active", "used"}

\* What findActiveBySubjectAndType selects: t is active and the newest such row.
findActiveBySubjectAndType(t, type) ==
  /\ token[t].type = type /\ token[t].state = "active"
  /\ \A n \in Tokens : (token[n].type = type /\ token[n].state = "active") => n <= t

\* Variant: only rows that have not expired are invalidated.
InvalidateUnexpired(type) ==
  [t \in Tokens |-> IF t \in Unused(type) /\ token[t].state = "active"
                      THEN [token[t] EXCEPT !.state = "used"] ELSE token[t]]

\* The table after the updateMany over the unused rows.
invalidateBySubjectAndType(type) ==
  [t \in Tokens |-> IF t \in Unused(type)
                      THEN [token[t] EXCEPT !.state = "used"] ELSE token[t]]

\* Another call of this type is in one of the places pcs.
Another(c, type, pcs) ==
  \E d \in Calls \ {c} : call[d].type = type /\ call[d].pc \in pcs

-----------------------------------------------------------------------------
(* Issuing a link *)

\* CreateUserService: the row of the user, without a password.
CreateUser(c) ==
  /\ user.state = "absent"
  /\ user' = [user EXCEPT !.state = "active"]
  /\ Start(c, "invalidate", "INVITE", Null)
  /\ UNCHANGED <<token, wrote, raced, faults>>

ResendInvite(c) ==
  /\ user.state = "active" /\ ~user.accepted
  /\ Start(c, "invalidate", "INVITE", Null)
  /\ UNCHANGED <<user, token, wrote, raced, faults>>

\* Variant: a reset is sent to users who have not accepted their invitation.
RequestResetOfAnyUser(c) ==
  /\ user.state = "active"
  /\ Start(c, "invalidate", "PASSWORD_RESET", Null)
  /\ UNCHANGED <<user, token, wrote, raced, faults>>

\* RequestPasswordResetService, also on behalf of an administrator.
RequestReset(c) ==
  /\ user.state = "active" /\ user.accepted
  /\ Start(c, "invalidate", "PASSWORD_RESET", Null)
  /\ UNCHANGED <<user, token, wrote, raced, faults>>

\* createInviteToken, createPasswordResetToken: first statement.
InvalidateOld(c) ==
  LET type == call[c].type IN
  /\ call[c].pc = "invalidate"
  /\ token' = invalidateBySubjectAndType(type)
  /\ raced' = [raced EXCEPT !.types =
       @ \cup {y \in {type} : Another(c, type, {"insert"})}]
  /\ Goto(c, "insert")
  /\ UNCHANGED <<user, wrote, faults>>

\* Variant: the type of the new token is forgotten.
InsertUntyped(c) ==
  /\ call[c].pc = "insert"
  /\ \E t \in Tokens :
       /\ token[t].state = "none"
       /\ \A o \in Tokens : token[o].state = "none" => t <= o
       /\ token' = [token EXCEPT ![t].state = "active"]
  /\ Goto(c, "done")
  /\ UNCHANGED <<user, wrote, raced, faults>>

\* Second statement.
InsertToken(c) ==
  /\ call[c].pc = "insert"
  /\ \E t \in Tokens :
       /\ token[t].state = "none"
       /\ \A o \in Tokens : token[o].state = "none" => t <= o
       /\ token' = [token EXCEPT ![t] = [state |-> "active", type |-> call[c].type]]
  /\ Goto(c, "done")
  /\ UNCHANGED <<user, wrote, raced, faults>>

\* Time passes.
Expire(t) ==
  /\ token[t].state = "active"
  /\ token' = [token EXCEPT ![t].state = "expired"]
  /\ UNCHANGED <<user, call, wrote, raced, faults>>

-----------------------------------------------------------------------------
(* Redeeming a link *)

\* Variant: an invitation may be accepted again.
AcceptAgainRead(c, t) ==
  /\ user.state = "active"
  /\ token[t].state # "none"
  /\ Start(c, "validate", "INVITE", t)
  /\ UNCHANGED <<user, token, wrote, raced, faults>>

\* AcceptInviteService up to the read of the user.
AcceptRead(c, t) ==
  /\ user.state = "active" /\ ~user.accepted
  /\ token[t].state # "none"
  /\ Start(c, "validate", "INVITE", t)
  /\ UNCHANGED <<user, token, wrote, raced, faults>>

\* ConfirmPasswordResetService up to the read of the user.
ResetRead(c, t) ==
  /\ user.state = "active"
  /\ token[t].state # "none"
  /\ Start(c, "validate", "PASSWORD_RESET", t)
  /\ UNCHANGED <<user, token, wrote, raced, faults>>

\* TokenValidationService.validate: the newest active token is compared with the
\* one presented. That its expiry is looked at again after the comparison could
\* only refuse a call that this action admits.
Validate(c) ==
  LET t == call[c].token IN
  /\ call[c].pc = "validate"
  /\ Goto(c, IF findActiveBySubjectAndType(t, call[c].type) THEN "password" ELSE "done")
  /\ raced' = [raced EXCEPT !.tokens = @ \cup
       {call[d].token : d \in {d \in Calls \ {c} :
                                call[d].token = t /\ call[d].pc \in {"password", "mark"}}}]
  /\ UNCHANGED <<user, token, wrote, faults>>

\* The write of the password, by the id of the user alone.
SetPassword(c) ==
  LET type == call[c].type IN
  /\ call[c].pc = "password"
  /\ user' = [user EXCEPT !.accepted = @ \/ type = "INVITE"]
  /\ wrote' = wrote \cup {c}
  /\ raced' = [raced EXCEPT !.acceptance =
       @ \/ (type = "INVITE" /\ Another(c, type, {"validate", "password"}))]
  /\ Goto(c, "mark")
  /\ UNCHANGED <<token, faults>>

\* Variant: the token is not marked.
ForgetToMark(c) ==
  /\ call[c].pc = "mark"
  /\ Goto(c, "done")
  /\ UNCHANGED <<user, token, wrote, raced, faults>>

MarkAsUsed(c) ==
  /\ call[c].pc = "mark"
  /\ token' = [token EXCEPT ![call[c].token].state = "used"]
  /\ Goto(c, "done")
  /\ UNCHANGED <<user, wrote, raced, faults>>

-----------------------------------------------------------------------------

\* RemoveUserService; its links are not invalidated.
RemoveUser ==
  /\ user.state = "active"
  /\ user' = [user EXCEPT !.state = "removed"]
  /\ UNCHANGED <<token, call, wrote, raced, faults>>

\* A database error or a crash: what the call has written stays. A token that was
\* redeemed and not marked remains active.
CallFails(c) ==
  /\ call[c].pc \notin {"idle", "done"}
  /\ faults < MaxFaults
  /\ faults' = faults + 1
  /\ raced' = [raced EXCEPT !.tokens =
       @ \cup {t \in {call[c].token} : call[c].pc = "mark"}]
  /\ Goto(c, "done")
  /\ UNCHANGED <<user, token, wrote>>

Next ==
  \/ \E c \in Calls :
       \/ CreateUser(c) \/ ResendInvite(c) \/ RequestReset(c)
       \/ InvalidateOld(c) \/ InsertToken(c)
       \/ \E t \in Tokens : AcceptRead(c, t) \/ ResetRead(c, t)
       \/ Validate(c) \/ SetPassword(c) \/ MarkAsUsed(c) \/ CallFails(c)
  \/ \E t \in Tokens : Expire(t)
  \/ RemoveUser

Spec == Init /\ [][Next]_vars

-----------------------------------------------------------------------------
(* Properties *)

\* "Token de uso unico (one-shot)" (schema.prisma): no two calls set the password
\* with one token, unless they redeem it at the same time or the first one broke
\* off before it could mark it.
OneUse ==
  \A c, d \in wrote : call[c].token = call[d].token => c = d \/ call[c].token \in raced.tokens

\* "emitir um novo convite invalida todos os anteriores" (invite-token.service.ts):
\* unless two links of one type are issued at the same time, the user has at most
\* one that was not used, expired ones included, and it is the newest.
OneOpenLink ==
  \A type \in TokenType \ raced.types : \A s \in Unused(type), t \in Tokens :
    token[t].type = type => t <= s

\* The first password comes from an invitation and no second one does: the
\* invitation is accepted once whatever links were sent again, unless two calls
\* accept at the same time, and a reset is only redeemed after it.
AcceptedOnce ==
  /\ ~raced.acceptance =>
       \A c, d \in wrote : call[c].type = "INVITE" /\ call[d].type = "INVITE" => c = d
  /\ wrote # {} => user.accepted /\ \E c \in wrote : call[c].type = "INVITE"

\* A link that is used, superseded or expired is dead: whoever presents it from
\* then on does not set the password.
DeadLinksStayDead == \A c \in wrote : call[c].open
=============================================================================
