-------------------------- MODULE OnboardingProofs --------------------------
(***************************************************************************)
(* Invariance proofs for Onboarding, for any number of tokens, calls and   *)
(* failures. The invariants of the four properties are independent of one  *)
(* another and each rests on the typing alone.                             *)
(***************************************************************************)
EXTENDS Onboarding, TLAPS

Issuing(c) == call[c].pc \in {"invalidate", "insert"}
Redeeming(c) == call[c].pc \in {"password", "mark"}

\* The rows in use are the first ones of the table.
TableInv ==
  /\ \A t, u \in Tokens : token[t].state = "none" /\ t <= u => token[u].state = "none"
  /\ \A c \in Calls : call[c].pc \in {"validate", "password", "mark"} =>
       token[call[c].token].state # "none"

\* Whoever has set the password is about to mark the token or done.
WroteInv == \A c \in wrote : call[c].pc \in {"mark", "done"} /\ call[c].token \in Tokens

\* The calls that redeem or have redeemed one token are one call, and once it is
\* done the token is used.
UseInv ==
  /\ \A c, d \in Calls :
       /\ c \in wrote \/ Redeeming(c)
       /\ d \in wrote \/ Redeeming(d)
       /\ call[c].token = call[d].token
       => c = d \/ call[c].token \in raced.tokens
  /\ \A c \in wrote : call[c].pc = "done" =>
       token[call[c].token].state = "used" \/ call[c].token \in raced.tokens

\* While a call is about to insert a link no link is open, and nobody else is.
LinkInv ==
  /\ OneOpenLink
  /\ \A c \in Calls : call[c].pc = "insert" /\ call[c].type \notin raced.types =>
       Unused(call[c].type) = {}
  /\ \A c, d \in Calls :
       /\ call[c].pc = "insert" /\ call[d].pc = "insert"
       /\ call[c].type = call[d].type
       /\ call[c].type \notin raced.types
       => c = d

\* Once the invitation was accepted nobody is accepting it, and links for a reset
\* are only issued and redeemed after that.
AcceptanceInv ==
  /\ AcceptedOnce
  /\ user.accepted =>
       /\ \E c \in wrote : call[c].type = "INVITE"
       /\ ~raced.acceptance => \A c \in Calls :
            ~(call[c].type = "INVITE" /\ call[c].pc \in {"validate", "password"})
  /\ \A t \in Tokens : token[t].type = "PASSWORD_RESET" => user.accepted
  /\ \A c \in Calls : call[c].type = "PASSWORD_RESET" =>
       (Issuing(c) \/ Redeeming(c) => user.accepted)

\* A token that is active now was active when the calls in progress began.
OpenInv ==
  /\ DeadLinksStayDead
  /\ \A c \in Calls : Redeeming(c) => call[c].open
  /\ \A c \in Calls :
       call[c].pc = "validate" /\ token[call[c].token].state = "active" => call[c].open

IInv ==
  /\ TypeOK /\ TableInv /\ WroteInv
  /\ UseInv /\ LinkInv /\ AcceptanceInv /\ OpenInv

-----------------------------------------------------------------------------

LEMMA InitInv == Init => IInv
<1> SUFFICES ASSUME Init PROVE IInv
  OBVIOUS
<1> USE OnboardingAssumption DEF Init
<1>1. TypeOK
  BY DEF TypeOK, User, TokenRow, Call, Raced, Tokens, TokenType
<1>2. TableInv /\ WroteInv /\ UseInv /\ OpenInv
  BY DEF TableInv, WroteInv, UseInv, OpenInv, DeadLinksStayDead, Redeeming, Tokens
<1>3. LinkInv
  BY DEF LinkInv, OneOpenLink, Unused, Tokens
<1>4. AcceptanceInv
  BY DEF AcceptanceInv, AcceptedOnce, Issuing, Redeeming, Tokens
<1> QED
  BY <1>1, <1>2, <1>3, <1>4 DEF IInv

-----------------------------------------------------------------------------
(* Calls that begin change one record of call, and the row of the user. *)

LEMMA StartInv ==
  ASSUME IInv, NEW c \in Calls, NEW pc, NEW type \in TokenType, NEW t \in Tokens \cup {Null},
         Start(c, pc, type, t), UNCHANGED <<token, wrote, raced, faults>>,
         user' \in User, user.accepted => user'.accepted, user'.accepted => user.accepted,
         \/ pc = "invalidate" /\ (type = "PASSWORD_RESET" => user.accepted)
         \/ /\ pc = "validate" /\ t \in Tokens /\ token[t].state # "none"
            /\ type = "INVITE" => ~user.accepted
  PROVE IInv'
<1> USE OnboardingAssumption DEF IInv
<1> DEFINE open == t \in Tokens /\ token[t].state = "active"
<1> DEFINE new == [pc |-> pc, type |-> type, token |-> t, open |-> open]
<1>a. call' = [call EXCEPT ![c] = new] /\ call[c].pc = "idle"
  BY DEF Start
<1>b. open \in BOOLEAN /\ (t \in Tokens /\ token[t].state = "active" => open)
  OBVIOUS
<1> HIDE DEF open
<1>c. /\ new.pc = pc /\ new.type = type /\ new.token = t
      /\ new.open = open
      /\ new \in Call
  BY <1>b DEF Call
<1> HIDE DEF new
<1>0. /\ call'[c] = new
      /\ \A d \in Calls : d # c => call'[d] = call[d]
      /\ c \notin wrote
  BY <1>a DEF TypeOK, WroteInv
<1>1. TypeOK'
  <2>1. call' \in [Calls -> Call]
    BY <1>a, <1>c DEF TypeOK
  <2>2. \A d \in Calls : call'[d].pc # "idle" => call'[d].type # Null
    BY <1>0, <1>c DEF TypeOK, TokenType
  <2>3. \A d \in Calls : call'[d].pc \in {"validate", "password", "mark"} =>
          call'[d].token # Null
    BY <1>0, <1>c DEF TypeOK, Tokens
  <2> QED
    BY <2>1, <2>2, <2>3 DEF TypeOK
<1>2. TableInv'
  BY <1>0, <1>c DEF TableInv, TypeOK
<1>3. WroteInv'
  BY <1>0, <1>c DEF WroteInv, TypeOK
<1>4. UseInv'
  BY <1>0, <1>c DEF UseInv, TypeOK, Redeeming
<1>5. LinkInv'
  <2>1. OneOpenLink'
    BY DEF LinkInv, OneOpenLink, Unused
  <2>2. \A d \in Calls : call'[d].pc = "insert" => call'[d] = call[d]
    BY <1>0, <1>c
  <2> QED
    BY <2>1, <2>2 DEF LinkInv, Unused
<1>6. AcceptanceInv'
  <2>1. AcceptedOnce'
    BY <1>0, <1>c DEF AcceptanceInv, AcceptedOnce, TypeOK
  <2>2. \A d \in Calls : call'[d].type = "PASSWORD_RESET" =>
          (Issuing(d)' \/ Redeeming(d)' => user'.accepted)
    BY <1>0, <1>c DEF AcceptanceInv, Issuing, Redeeming
  <2>3. ASSUME user'.accepted, ~raced.acceptance, NEW d \in Calls,
               call'[d].type = "INVITE", call'[d].pc \in {"validate", "password"}
        PROVE FALSE
    BY <1>0, <1>c, <2>3 DEF AcceptanceInv
  <2>4. user'.accepted => \E d \in wrote : call'[d].type = "INVITE"
    BY <1>0, <1>c DEF AcceptanceInv, TypeOK
  <2> QED
    BY <2>1, <2>2, <2>3, <2>4 DEF AcceptanceInv
<1>7. OpenInv'
  <2>1. DeadLinksStayDead'
    BY <1>0 DEF OpenInv, DeadLinksStayDead, TypeOK
  <2>2. \A d \in Calls : Redeeming(d)' => call'[d].open
    BY <1>0, <1>c DEF OpenInv, Redeeming
  <2>3. ASSUME NEW d \in Calls, call'[d].pc = "validate", token[call'[d].token].state = "active"
        PROVE call'[d].open
    <3>1. CASE d = c
      BY <3>1, <2>3, <1>0, <1>b, <1>c
    <3>2. CASE d # c
      BY <3>2, <2>3, <1>0 DEF OpenInv
    <3> QED
      BY <3>1, <3>2
  <2> QED
    BY <2>1, <2>2, <2>3 DEF OpenInv
<1> QED
  BY <1>1, <1>2, <1>3, <1>4, <1>5, <1>6, <1>7

-----------------------------------------------------------------------------
(* Issuing a link *)

\* A step of a call that changes nothing else of it than its place.
LEMMA GotoTyped ==
  ASSUME TypeOK, NEW c \in Calls, call[c].pc # "idle",
         NEW pc \in {"insert", "validate", "password", "mark", "done"},
         pc \in {"password", "mark"} => call[c].pc \in {"validate", "password"},
         pc # "validate", Goto(c, pc)
  PROVE /\ call' \in [Calls -> Call]
        /\ \A d \in Calls : call'[d].pc # "idle" => call'[d].type # Null
        /\ \A d \in Calls : call'[d].pc \in {"validate", "password", "mark"} =>
             call'[d].token # Null
        /\ call'[c].pc = pc
        /\ \A d \in Calls : /\ call'[d].type = call[d].type
                            /\ call'[d].token = call[d].token
                            /\ call'[d].open = call[d].open
                            /\ d # c => call'[d] = call[d]
                            /\ call[d] \in Call
<1>1. call \in [Calls -> Call] /\ call' = [call EXCEPT ![c].pc = pc]
  BY DEF TypeOK, Goto
<1>2. call' \in [Calls -> Call]
  BY <1>1 DEF Call
<1>3. /\ call'[c].pc = pc
      /\ \A d \in Calls : /\ call'[d].type = call[d].type
                          /\ call'[d].token = call[d].token
                          /\ call'[d].open = call[d].open
                          /\ d # c => call'[d] = call[d]
                          /\ call[d] \in Call
  BY <1>1 DEF Call
<1> QED
  BY <1>2, <1>3 DEF TypeOK

LEMMA InvalidateOldInv ==
  ASSUME IInv, NEW c \in Calls, InvalidateOld(c) PROVE IInv'
<1> USE OnboardingAssumption DEF IInv
<1> PICK type : type = call[c].type
  OBVIOUS
<1>a. /\ call[c].pc = "invalidate" /\ Goto(c, "insert")
      /\ token' = invalidateBySubjectAndType(type)
      /\ raced' = [raced EXCEPT !.types =
           @ \cup {y \in {type} : Another(c, type, {"insert"})}]
      /\ UNCHANGED <<user, wrote, faults>>
  BY DEF InvalidateOld
<1>b. /\ call' \in [Calls -> Call]
      /\ \A d \in Calls : call'[d].pc # "idle" => call'[d].type # Null
      /\ \A d \in Calls : call'[d].pc \in {"validate", "password", "mark"} =>
           call'[d].token # Null
      /\ call'[c].pc = "insert"
      /\ \A d \in Calls : /\ call'[d].type = call[d].type
                          /\ call'[d].token = call[d].token
                          /\ call'[d].open = call[d].open
                          /\ d # c => call'[d] = call[d]
                          /\ call[d] \in Call
  BY <1>a, GotoTyped
<1>c. type \in TokenType
  BY <1>a DEF TypeOK, Call
<1>d. /\ token' \in [Tokens -> TokenRow]
      /\ \A t \in Tokens : /\ token'[t].type = token[t].type
                           /\ token'[t].state = "none" <=> token[t].state = "none"
                           /\ token[t].state = "used" => token'[t].state = "used"
                           /\ token'[t].state = "active" => token[t].state = "active"
                           /\ t \in Unused(type) => token'[t].state = "used"
                           /\ t \notin Unused(type) => token'[t] = token[t]
  BY <1>a DEF invalidateBySubjectAndType, Unused, TypeOK, TokenRow
<1>e. /\ raced' \in Raced
      /\ raced'.tokens = raced.tokens /\ raced'.acceptance = raced.acceptance
      /\ raced.types \subseteq raced'.types
      /\ Another(c, type, {"insert"}) => type \in raced'.types
  BY <1>a, <1>c DEF TypeOK, Raced
<1>1. TypeOK'
  BY <1>a, <1>b, <1>d, <1>e DEF TypeOK
<1>2. TableInv'
  <2>1. \A t, u \in Tokens : token'[t].state = "none" /\ t <= u => token'[u].state = "none"
    BY <1>d DEF TableInv
  <2>2. ASSUME NEW d \in Calls, call'[d].pc \in {"validate", "password", "mark"}
        PROVE token'[call'[d].token].state # "none"
    <3>1. d # c /\ call'[d] = call[d] /\ call[d].token \in Tokens
      BY <2>2, <1>b DEF TypeOK, Call
    <3> QED
      BY <3>1, <2>2, <1>d DEF TableInv
  <2> QED
    BY <2>1, <2>2 DEF TableInv
<1>3. WroteInv'
  BY <1>a, <1>b DEF WroteInv, TypeOK
<1>4. UseInv'
  <2>1. ASSUME NEW d \in Calls, d \in wrote \/ Redeeming(d)'
        PROVE d \in wrote \/ Redeeming(d)
    BY <2>1, <1>b DEF Redeeming
  <2>2. ASSUME NEW d \in wrote, call'[d].pc = "done"
        PROVE token'[call'[d].token].state = "used" \/ call'[d].token \in raced'.tokens
    BY <2>2, <1>b, <1>d, <1>e DEF UseInv, WroteInv, TypeOK
  <2> QED
    BY <2>1, <2>2, <1>a, <1>b, <1>e DEF UseInv
<1>5. LinkInv'
  <2>1. Unused(type)' = {}
    BY <1>c, <1>d DEF Unused
  <2>2. \A y \in TokenType : Unused(y)' \subseteq Unused(y)
    BY <1>d DEF Unused
  <2>3. OneOpenLink'
    BY <2>2, <1>d, <1>e DEF LinkInv, OneOpenLink
  <2>4. ASSUME NEW d \in Calls, NEW y \in TokenType,
               call'[d].pc = "insert", call'[d].type = y, y \notin raced'.types
        PROVE Unused(y)' = {}
    <3>1. CASE d = c
      BY <3>1, <2>1, <2>4, <1>b
    <3>2. CASE d # c
      <4>1. Unused(y) = {}
        BY <3>2, <2>4, <1>b, <1>e DEF LinkInv
      <4> QED
        BY <4>1, <2>2
    <3> QED
      BY <3>1, <3>2
  <2>5. ASSUME NEW d \in Calls, NEW e \in Calls,
               call'[d].pc = "insert", call'[e].pc = "insert",
               call'[d].type = call'[e].type, call'[d].type \notin raced'.types
        PROVE d = e
    <3>1. CASE d # c /\ e # c
      BY <3>1, <2>5, <1>b, <1>e DEF LinkInv
    <3>2. CASE d # e /\ (d = c \/ e = c)
      <4>1. Another(c, type, {"insert"})
        BY <3>2, <2>5, <1>b DEF Another
      <4> QED
        BY <4>1, <3>2, <2>5, <1>b, <1>e
    <3> QED
      BY <3>1, <3>2
  <2>6. \A d \in Calls : call'[d].pc = "insert" => call'[d].type \in TokenType
    BY <1>b, <1>1 DEF TypeOK, Call
  <2>7. ASSUME NEW d \in Calls, call'[d].pc = "insert", call'[d].type \notin raced'.types
        PROVE Unused(call[d].type)'  = {}
    BY <2>4, <2>6, <2>7 DEF Unused
  <2> QED
    BY <2>3, <2>5, <2>7 DEF LinkInv
<1>6. AcceptanceInv'
  <2>1. AcceptedOnce'
    BY <1>a, <1>b, <1>e DEF AcceptanceInv, AcceptedOnce, TypeOK
  <2>2. user'.accepted =>
          /\ \E d \in wrote : call'[d].type = "INVITE"
          /\ ~raced'.acceptance => \A d \in Calls :
               ~(call'[d].type = "INVITE" /\ call'[d].pc \in {"validate", "password"})
    BY <1>a, <1>b, <1>e DEF AcceptanceInv, TypeOK
  <2>3. \A t \in Tokens : token'[t].type = "PASSWORD_RESET" => user'.accepted
    BY <1>a, <1>d DEF AcceptanceInv
  <2>4. \A d \in Calls : call'[d].type = "PASSWORD_RESET" =>
          (Issuing(d)' \/ Redeeming(d)' => user'.accepted)
    BY <1>a, <1>b DEF AcceptanceInv, Issuing, Redeeming
  <2> QED
    BY <2>1, <2>2, <2>3, <2>4, <1>a DEF AcceptanceInv
<1>7. OpenInv'
  <2>1. DeadLinksStayDead'
    BY <1>a, <1>b DEF OpenInv, DeadLinksStayDead, TypeOK
  <2>2. \A d \in Calls : Redeeming(d)' => call'[d].open
    BY <1>b DEF OpenInv, Redeeming
  <2>3. ASSUME NEW d \in Calls, call'[d].pc = "validate", token'[call'[d].token].state = "active"
        PROVE call'[d].open
    <3>1. d # c /\ call'[d] = call[d] /\ call[d].token \in Tokens
      BY <2>3, <1>b DEF TypeOK, Call
    <3> QED
      BY <3>1, <2>3, <1>d DEF OpenInv
  <2> QED
    BY <2>1, <2>2, <2>3 DEF OpenInv
<1> QED
  BY <1>1, <1>2, <1>3, <1>4, <1>5, <1>6, <1>7

LEMMA InsertTokenInv ==
  ASSUME IInv, NEW c \in Calls, InsertToken(c) PROVE IInv'
<1> USE OnboardingAssumption DEF IInv
<1> PICK type : type = call[c].type
  OBVIOUS
<1>p. PICK n \in Tokens :
       /\ token[n].state = "none"
       /\ \A o \in Tokens : token[o].state = "none" => n <= o
       /\ token' = [token EXCEPT ![n] = [state |-> "active", type |-> type]]
  BY DEF InsertToken
<1>a. /\ call[c].pc = "insert" /\ Goto(c, "done")
      /\ UNCHANGED <<user, wrote, raced, faults>>
  BY DEF InsertToken
<1>b. /\ call' \in [Calls -> Call]
      /\ \A d \in Calls : call'[d].pc # "idle" => call'[d].type # Null
      /\ \A d \in Calls : call'[d].pc \in {"validate", "password", "mark"} =>
           call'[d].token # Null
      /\ call'[c].pc = "done"
      /\ \A d \in Calls : /\ call'[d].type = call[d].type
                          /\ call'[d].token = call[d].token
                          /\ call'[d].open = call[d].open
                          /\ d # c => call'[d] = call[d]
                          /\ call[d] \in Call
  BY <1>a, GotoTyped
<1>c. type \in TokenType
  BY <1>a DEF TypeOK, Call
<1>d. /\ token' \in [Tokens -> TokenRow]
      /\ token'[n].state = "active" /\ token'[n].type = type
      /\ \A t \in Tokens : t # n => token'[t] = token[t]
  BY <1>p, <1>c DEF TypeOK, TokenRow
<1>1. TypeOK'
  BY <1>a, <1>b, <1>c, <1>d DEF TypeOK, TokenType
<1>2. TableInv'
  <2>1. \A t, u \in Tokens : token'[t].state = "none" /\ t <= u => token'[u].state = "none"
    BY <1>d, <1>p DEF TableInv, Tokens
  <2>2. ASSUME NEW d \in Calls, call'[d].pc \in {"validate", "password", "mark"}
        PROVE token'[call'[d].token].state # "none"
    <3>1. d # c /\ call'[d] = call[d] /\ call[d].token \in Tokens
      BY <2>2, <1>b DEF TypeOK, Call
    <3> QED
      BY <3>1, <2>2, <1>d DEF TableInv
  <2> QED
    BY <2>1, <2>2 DEF TableInv
<1>3. WroteInv'
  BY <1>a, <1>b DEF WroteInv, TypeOK
<1>4. UseInv'
  <2>1. ASSUME NEW d \in Calls, d \in wrote \/ Redeeming(d)'
        PROVE d \in wrote \/ Redeeming(d)
    BY <2>1, <1>b DEF Redeeming
  <2>2. ASSUME NEW d \in wrote, call'[d].pc = "done"
        PROVE token'[call'[d].token].state = "used" \/ call'[d].token \in raced'.tokens
    <3>1. d # c /\ d \in Calls
      BY <1>a DEF WroteInv, TypeOK
    <3> QED
      BY <3>1, <2>2, <1>a, <1>b, <1>d, <1>p DEF UseInv, WroteInv
  <2> QED
    BY <2>1, <2>2, <1>a, <1>b DEF UseInv
<1>5. LinkInv'
  <2>1. \A t \in Tokens : token[t].state # "none" => t < n
    BY <1>p DEF TableInv, Tokens
  <2>2. \A t \in Tokens : token[t].type \in TokenType => t < n
    BY <2>1 DEF TypeOK, TokenType
  <2>3. \A y \in TokenType : Unused(y)' = IF y = type THEN Unused(y) \cup {n} ELSE Unused(y)
    BY <1>c, <1>d, <1>p DEF Unused
  <2>4. ASSUME NEW y \in TokenType, y \notin raced.types, NEW s \in Unused(y)', NEW t \in Tokens,
               token'[t].type = y
        PROVE t <= s
    <3>1. CASE y = type
      <4>1. Unused(y) = {}
        BY <3>1, <2>4, <1>a DEF LinkInv
      <4>2. s = n
        BY <4>1, <3>1, <2>3
      <4>3. t = n \/ t < n
        BY <2>2, <2>4, <1>d
      <4> QED
        BY <4>2, <4>3 DEF Tokens
    <3>2. CASE y # type
      BY <3>2, <2>3, <2>4, <1>d DEF LinkInv, OneOpenLink
    <3> QED
      BY <3>1, <3>2
  <2>5. OneOpenLink'
    BY <2>4, <1>a DEF OneOpenLink
  <2>6. ASSUME NEW d \in Calls, call'[d].pc = "insert", call'[d].type \notin raced'.types
        PROVE Unused(call[d].type)' = {}
    <3>1. PICK y : y = call[d].type
      OBVIOUS
    <3>2. d # c /\ call[d].pc = "insert" /\ y \in TokenType /\ y \notin raced.types
      BY <3>1, <2>6, <1>a, <1>b DEF TypeOK, Call
    <3>3. y # type /\ Unused(y) = {}
      BY <3>1, <3>2, <1>a DEF LinkInv
    <3>4. Unused(y)' = {}
      BY <3>2, <3>3, <2>3
    <3> QED
      BY <3>1, <3>4, <1>b DEF Unused
  <2>7. ASSUME NEW d \in Calls, NEW e \in Calls,
               call'[d].pc = "insert", call'[e].pc = "insert",
               call'[d].type = call'[e].type, call'[d].type \notin raced'.types
        PROVE d = e
    BY <2>7, <1>a, <1>b DEF LinkInv
  <2> QED
    BY <2>5, <2>6, <2>7 DEF LinkInv
<1>6. AcceptanceInv'
  <2>1. AcceptedOnce'
    BY <1>a, <1>b DEF AcceptanceInv, AcceptedOnce, TypeOK
  <2>2. user'.accepted =>
          /\ \E d \in wrote : call'[d].type = "INVITE"
          /\ ~raced'.acceptance => \A d \in Calls :
               ~(call'[d].type = "INVITE" /\ call'[d].pc \in {"validate", "password"})
    BY <1>a, <1>b DEF AcceptanceInv, TypeOK
  <2>3. \A t \in Tokens : token'[t].type = "PASSWORD_RESET" => user'.accepted
    BY <1>a, <1>d DEF AcceptanceInv, Issuing
  <2>4. \A d \in Calls : call'[d].type = "PASSWORD_RESET" =>
          (Issuing(d)' \/ Redeeming(d)' => user'.accepted)
    BY <1>a, <1>b DEF AcceptanceInv, Issuing, Redeeming
  <2> QED
    BY <2>1, <2>2, <2>3, <2>4, <1>a DEF AcceptanceInv
<1>7. OpenInv'
  <2>1. DeadLinksStayDead'
    BY <1>a, <1>b DEF OpenInv, DeadLinksStayDead, TypeOK
  <2>2. \A d \in Calls : Redeeming(d)' => call'[d].open
    BY <1>b DEF OpenInv, Redeeming
  <2>3. ASSUME NEW d \in Calls, call'[d].pc = "validate", token'[call'[d].token].state = "active"
        PROVE call'[d].open
    <3>1. d # c /\ call'[d] = call[d] /\ call[d].token \in Tokens
      BY <2>3, <1>b DEF TypeOK, Call
    <3>2. call[d].token # n
      BY <3>1, <2>3, <1>p DEF TableInv
    <3> QED
      BY <3>1, <3>2, <2>3, <1>d DEF OpenInv
  <2> QED
    BY <2>1, <2>2, <2>3 DEF OpenInv
<1> QED
  BY <1>1, <1>2, <1>3, <1>4, <1>5, <1>6, <1>7

LEMMA ExpireInv ==
  ASSUME IInv, NEW n \in Tokens, Expire(n) PROVE IInv'
<1> USE OnboardingAssumption DEF IInv
<1>a. token[n].state = "active" /\ UNCHANGED <<user, call, wrote, raced, faults>>
  BY DEF Expire
<1>d. /\ token' \in [Tokens -> TokenRow]
      /\ token'[n].state = "expired"
      /\ \A t \in Tokens : token'[t].type = token[t].type
      /\ \A t \in Tokens : t # n => token'[t] = token[t]
  BY DEF Expire, TypeOK, TokenRow
<1>1. TypeOK'
  BY <1>a, <1>d DEF TypeOK
<1>2. TableInv'
  BY <1>a, <1>d DEF TableInv, TypeOK, Call
<1>3. WroteInv'
  BY <1>a DEF WroteInv
<1>4. UseInv'
  BY <1>a, <1>d DEF UseInv, WroteInv, Redeeming
<1>5. LinkInv'
  <2>1. \A y : Unused(y)' = Unused(y)
    BY <1>a, <1>d DEF Unused
  <2>2. OneOpenLink'
    BY <2>1, <1>a, <1>d DEF LinkInv, OneOpenLink
  <2>3. \A d \in Calls : Unused(call[d].type)' = Unused(call[d].type)
    BY <2>1, <1>a DEF Unused
  <2> QED
    BY <2>2, <2>3, <1>a DEF LinkInv
<1>6. AcceptanceInv'
  BY <1>a, <1>d DEF AcceptanceInv, AcceptedOnce, Issuing, Redeeming
<1>7. OpenInv'
  BY <1>a, <1>d DEF OpenInv, DeadLinksStayDead, Redeeming, TypeOK, Call
<1> QED
  BY <1>1, <1>2, <1>3, <1>4, <1>5, <1>6, <1>7

-----------------------------------------------------------------------------
(* Redeeming a link *)

LEMMA ValidateInv ==
  ASSUME IInv, NEW c \in Calls, Validate(c) PROVE IInv'
<1> USE OnboardingAssumption DEF IInv
<1> PICK t : t = call[c].token
  OBVIOUS
<1> PICK pc : pc = IF findActiveBySubjectAndType(t, call[c].type) THEN "password" ELSE "done"
  OBVIOUS
<1>a. /\ call[c].pc = "validate" /\ Goto(c, pc) /\ pc \in {"password", "done"}
      /\ UNCHANGED <<user, token, wrote, faults>>
  BY DEF Validate
<1>b. /\ call' \in [Calls -> Call]
      /\ \A d \in Calls : call'[d].pc # "idle" => call'[d].type # Null
      /\ \A d \in Calls : call'[d].pc \in {"validate", "password", "mark"} =>
           call'[d].token # Null
      /\ call'[c].pc = pc
      /\ \A d \in Calls : /\ call'[d].type = call[d].type
                          /\ call'[d].token = call[d].token
                          /\ call'[d].open = call[d].open
                          /\ d # c => call'[d] = call[d]
                          /\ call[d] \in Call
  BY <1>a, GotoTyped
<1>c. t \in Tokens /\ c \notin wrote
  BY <1>a DEF TypeOK, Call, WroteInv
<1>d. pc = "password" => token[t].type = call[c].type /\ token[t].state = "active"
  BY DEF findActiveBySubjectAndType
<1>e. /\ raced' \in Raced
      /\ raced'.types = raced.types /\ raced'.acceptance = raced.acceptance
      /\ raced.tokens \subseteq raced'.tokens
      /\ \A d \in Calls : d # c /\ call[d].token = t /\ Redeeming(d) => t \in raced'.tokens
  <2> DEFINE others == {d \in Calls \ {c} :
                         call[d].token = t /\ call[d].pc \in {"password", "mark"}}
             new == {call[d].token : d \in others}
  <2>1. raced' = [raced EXCEPT !.tokens = @ \cup new]
    BY DEF Validate
  <2>2. new \subseteq {t} /\ new \subseteq Tokens
    BY <1>c
  <2>3. \A d \in Calls : d # c /\ call[d].token = t /\ Redeeming(d) => t \in new
    BY DEF Redeeming
  <2> HIDE DEF new
  <2> QED
    BY <2>1, <2>2, <2>3 DEF TypeOK, Raced
<1>1. TypeOK'
  BY <1>a, <1>b, <1>e DEF TypeOK
<1>2. TableInv'
  BY <1>a, <1>b DEF TableInv, TypeOK
<1>3. WroteInv'
  BY <1>a, <1>b, <1>c DEF WroteInv, TypeOK
<1>4. UseInv'
  <2>1. ASSUME NEW d \in Calls, d # c, d \in wrote \/ Redeeming(d), call[d].token = t,
               pc = "password"
        PROVE t \in raced'.tokens
    <3>1. CASE Redeeming(d)
      BY <3>1, <2>1, <1>e
    <3>2. CASE d \in wrote /\ ~Redeeming(d)
      BY <3>2, <2>1, <1>d, <1>e DEF UseInv, WroteInv, Redeeming
    <3> QED
      BY <2>1, <3>1, <3>2
  <2>2. ASSUME NEW d \in Calls, NEW e \in Calls,
               d \in wrote' \/ Redeeming(d)', e \in wrote' \/ Redeeming(e)',
               call'[d].token = call'[e].token, d # e
        PROVE call'[d].token \in raced'.tokens
    <3>1. CASE d # c /\ e # c
      BY <3>1, <2>2, <1>a, <1>b, <1>e DEF UseInv, Redeeming
    <3>2. CASE d = c
      BY <3>2, <2>1, <2>2, <1>a, <1>b, <1>c DEF Redeeming
    <3>3. CASE e = c
      BY <3>3, <2>1, <2>2, <1>a, <1>b, <1>c DEF Redeeming
    <3> QED
      BY <3>1, <3>2, <3>3
  <2>3. ASSUME NEW d \in wrote', call'[d].pc = "done"
        PROVE token'[call'[d].token].state = "used" \/ call'[d].token \in raced'.tokens
    BY <2>3, <1>a, <1>b, <1>c, <1>e DEF UseInv, TypeOK
  <2> QED
    BY <2>2, <2>3 DEF UseInv
<1>5. LinkInv'
  <2>1. OneOpenLink'
    BY <1>a, <1>e DEF LinkInv, OneOpenLink, Unused
  <2>2. \A d \in Calls : call'[d].pc = "insert" => call'[d] = call[d]
    BY <1>a, <1>b
  <2> QED
    BY <2>1, <2>2, <1>a, <1>e DEF LinkInv, Unused
<1>6. AcceptanceInv'
  <2>1. AcceptedOnce'
    BY <1>a, <1>b, <1>e DEF AcceptanceInv, AcceptedOnce, TypeOK
  <2>2. user'.accepted =>
          /\ \E d \in wrote' : call'[d].type = "INVITE"
          /\ ~raced'.acceptance => \A d \in Calls :
               ~(call'[d].type = "INVITE" /\ call'[d].pc \in {"validate", "password"})
    BY <1>a, <1>b, <1>e DEF AcceptanceInv, TypeOK
  <2>3. \A d \in Calls : call'[d].type = "PASSWORD_RESET" =>
          (Issuing(d)' \/ Redeeming(d)' => user'.accepted)
    BY <1>a, <1>b, <1>c, <1>d DEF AcceptanceInv, Issuing, Redeeming
  <2> QED
    BY <2>1, <2>2, <2>3, <1>a DEF AcceptanceInv
<1>7. OpenInv'
  BY <1>a, <1>b, <1>d DEF OpenInv, DeadLinksStayDead, Redeeming, TypeOK
<1> QED
  BY <1>1, <1>2, <1>3, <1>4, <1>5, <1>6, <1>7

LEMMA SetPasswordInv ==
  ASSUME IInv, NEW c \in Calls, SetPassword(c) PROVE IInv'
<1> USE OnboardingAssumption DEF IInv
<1>a. /\ call[c].pc = "password" /\ Goto(c, "mark")
      /\ wrote' = wrote \cup {c}
      /\ UNCHANGED <<token, faults>>
  BY DEF SetPassword
<1>b. /\ call' \in [Calls -> Call]
      /\ \A d \in Calls : call'[d].pc # "idle" => call'[d].type # Null
      /\ \A d \in Calls : call'[d].pc \in {"validate", "password", "mark"} =>
           call'[d].token # Null
      /\ call'[c].pc = "mark"
      /\ \A d \in Calls : /\ call'[d].type = call[d].type
                          /\ call'[d].token = call[d].token
                          /\ call'[d].open = call[d].open
                          /\ d # c => call'[d] = call[d]
                          /\ call[d] \in Call
  BY <1>a, GotoTyped
<1>c. call[c].token \in Tokens /\ call[c].type \in TokenType
  BY <1>a DEF TypeOK, Call
<1>d. /\ user' \in User
      /\ user'.accepted <=> user.accepted \/ call[c].type = "INVITE"
  BY DEF SetPassword, TypeOK, User
<1>e. /\ raced' \in Raced
      /\ raced'.types = raced.types /\ raced'.tokens = raced.tokens
      /\ raced.acceptance => raced'.acceptance
      /\ call[c].type = "INVITE" /\ Another(c, "INVITE", {"validate", "password"})
           => raced'.acceptance
  <2> DEFINE more == call[c].type = "INVITE"
                       /\ Another(c, call[c].type, {"validate", "password"})
  <2>1. raced' = [raced EXCEPT !.acceptance = @ \/ more]
    BY DEF SetPassword
  <2>2. call[c].type = "INVITE" /\ Another(c, "INVITE", {"validate", "password"}) => more
    OBVIOUS
  <2> HIDE DEF more
  <2> QED
    BY <2>1, <2>2 DEF TypeOK, Raced
<1>1. TypeOK'
  BY <1>a, <1>b, <1>d, <1>e DEF TypeOK
<1>2. TableInv'
  BY <1>a, <1>b DEF TableInv, TypeOK
<1>3. WroteInv'
  BY <1>a, <1>b, <1>c DEF WroteInv, TypeOK
<1>4. UseInv'
  BY <1>a, <1>b, <1>e DEF UseInv, Redeeming, TypeOK
<1>5. LinkInv'
  <2>1. OneOpenLink'
    BY <1>a, <1>e DEF LinkInv, OneOpenLink, Unused
  <2>2. \A d \in Calls : call'[d].pc = "insert" => call'[d] = call[d]
    BY <1>a, <1>b
  <2> QED
    BY <2>1, <2>2, <1>a, <1>e DEF LinkInv, Unused
<1>6. AcceptanceInv'
  <2>1. \E d \in wrote' : call'[d].type = "INVITE"
    <3>1. CASE call[c].type = "INVITE"
      BY <3>1, <1>a, <1>b
    <3>2. CASE call[c].type = "PASSWORD_RESET"
      BY <3>2, <1>a, <1>b DEF AcceptanceInv, Redeeming, TypeOK
    <3> QED
      BY <3>1, <3>2, <1>c DEF TokenType
  <2>2. user'.accepted
    BY <1>a, <1>c, <1>d DEF AcceptanceInv, Redeeming, TokenType
  <2>3. ~raced'.acceptance => \A d \in Calls :
          ~(call'[d].type = "INVITE" /\ call'[d].pc \in {"validate", "password"})
    <3>1. SUFFICES ASSUME ~raced'.acceptance, NEW d \in Calls,
                          call'[d].type = "INVITE", call'[d].pc \in {"validate", "password"}
                   PROVE FALSE
      OBVIOUS
    <3>2. d # c /\ call[d].type = "INVITE" /\ call[d].pc \in {"validate", "password"}
      BY <3>1, <1>b
    <3>3. CASE call[c].type = "INVITE"
      BY <3>1, <3>2, <3>3, <1>e DEF Another
    <3>4. CASE call[c].type = "PASSWORD_RESET"
      BY <3>1, <3>2, <3>4, <1>a, <1>e DEF AcceptanceInv, Redeeming
    <3> QED
      BY <3>3, <3>4, <1>c DEF TokenType
  <2>4. ASSUME ~raced'.acceptance, NEW d \in wrote', NEW e \in wrote',
               call'[d].type = "INVITE", call'[e].type = "INVITE"
        PROVE d = e
    <3>1. wrote # {} /\ call[c].type = "INVITE" => raced.acceptance
      BY <1>a DEF AcceptanceInv, AcceptedOnce
    <3> QED
      BY <3>1, <2>4, <1>a, <1>b, <1>e DEF AcceptanceInv, AcceptedOnce, TypeOK
  <2>5. AcceptedOnce'
    BY <2>1, <2>2, <2>4 DEF AcceptedOnce
  <2> QED
    BY <2>1, <2>2, <2>3, <2>5 DEF AcceptanceInv
<1>7. OpenInv'
  BY <1>a, <1>b DEF OpenInv, DeadLinksStayDead, Redeeming, TypeOK
<1> QED
  BY <1>1, <1>2, <1>3, <1>4, <1>5, <1>6, <1>7

LEMMA MarkAsUsedInv ==
  ASSUME IInv, NEW c \in Calls, MarkAsUsed(c) PROVE IInv'
<1> USE OnboardingAssumption DEF IInv
<1>a. /\ call[c].pc = "mark" /\ Goto(c, "done")
      /\ UNCHANGED <<user, wrote, raced, faults>>
  BY DEF MarkAsUsed
<1>b. /\ call' \in [Calls -> Call]
      /\ \A d \in Calls : call'[d].pc # "idle" => call'[d].type # Null
      /\ \A d \in Calls : call'[d].pc \in {"validate", "password", "mark"} =>
           call'[d].token # Null
      /\ call'[c].pc = "done"
      /\ \A d \in Calls : /\ call'[d].type = call[d].type
                          /\ call'[d].token = call[d].token
                          /\ call'[d].open = call[d].open
                          /\ d # c => call'[d] = call[d]
                          /\ call[d] \in Call
  BY <1>a, GotoTyped
<1> PICK n : n = call[c].token
  OBVIOUS
<1>c. n \in Tokens
  BY <1>a DEF TypeOK, Call
<1>d. /\ token' \in [Tokens -> TokenRow]
      /\ token'[n].state = "used"
      /\ \A t \in Tokens : token'[t].type = token[t].type
      /\ \A t \in Tokens : t # n => token'[t] = token[t]
  BY <1>c DEF MarkAsUsed, TypeOK, TokenRow
<1>f. token[n].state # "none"
  BY <1>a DEF TableInv
<1>1. TypeOK'
  BY <1>a, <1>b, <1>c, <1>d, <1>f DEF TypeOK
<1>2. TableInv'
  <2>1. \A t, u \in Tokens : token'[t].state = "none" /\ t <= u => token'[u].state = "none"
    BY <1>c, <1>d, <1>f DEF TableInv
  <2>2. ASSUME NEW d \in Calls, call'[d].pc \in {"validate", "password", "mark"}
        PROVE token'[call'[d].token].state # "none"
    <3>1. d # c /\ call'[d] = call[d] /\ call[d].token \in Tokens
      BY <2>2, <1>b DEF TypeOK, Call
    <3> QED
      BY <3>1, <2>2, <1>d DEF TableInv
  <2> QED
    BY <2>1, <2>2 DEF TableInv
<1>3. WroteInv'
  BY <1>a, <1>b DEF WroteInv, TypeOK
<1>4. UseInv'
  <2>1. \A d, e \in Calls :
       /\ d \in wrote' \/ Redeeming(d)'
       /\ e \in wrote' \/ Redeeming(e)'
       /\ call'[d].token = call'[e].token
       => d = e \/ call'[d].token \in raced'.tokens
    BY <1>a, <1>b DEF UseInv, Redeeming, TypeOK
  <2>2. ASSUME NEW d \in wrote', call'[d].pc = "done"
        PROVE token'[call'[d].token].state = "used" \/ call'[d].token \in raced'.tokens
    <3>1. d \in wrote /\ d \in Calls
      BY <1>a DEF TypeOK
    <3>2. CASE call[d].token = n
      BY <3>2, <3>1, <1>b, <1>d
    <3>3. CASE call[d].token # n
      BY <3>3, <3>1, <2>2, <1>a, <1>b, <1>d DEF UseInv, WroteInv
    <3> QED
      BY <3>2, <3>3
  <2> QED
    BY <2>1, <2>2 DEF UseInv
<1>5. LinkInv'
  <2>1. \A y : Unused(y)' \subseteq Unused(y)
    BY <1>c, <1>d DEF Unused
  <2>2. OneOpenLink'
    BY <2>1, <1>a, <1>d DEF LinkInv, OneOpenLink
  <2>3. \A d \in Calls : call'[d].pc = "insert" => call'[d] = call[d]
    BY <1>b
  <2>4. ASSUME NEW d \in Calls, call'[d].pc = "insert", call'[d].type \notin raced'.types
        PROVE Unused(call[d].type)' = {}
    <3>1. PICK y : y = call[d].type
      OBVIOUS
    <3>2. Unused(y) = {}
      BY <3>1, <2>3, <2>4, <1>a DEF LinkInv
    <3>3. Unused(y)' = {}
      BY <3>2, <2>1
    <3> QED
      BY <3>1, <3>3, <1>b DEF Unused
  <2>5. ASSUME NEW d \in Calls, NEW e \in Calls,
               call'[d].pc = "insert", call'[e].pc = "insert",
               call'[d].type = call'[e].type, call'[d].type \notin raced'.types
        PROVE d = e
    BY <2>5, <2>3, <1>a DEF LinkInv
  <2> QED
    BY <2>2, <2>4, <2>5 DEF LinkInv
<1>6. AcceptanceInv'
  <2>1. AcceptedOnce'
    BY <1>a, <1>b DEF AcceptanceInv, AcceptedOnce, TypeOK
  <2> QED
    BY <2>1, <1>a, <1>b, <1>d DEF AcceptanceInv, Issuing, Redeeming, TypeOK
<1>7. OpenInv'
  <2>1. DeadLinksStayDead'
    BY <1>a, <1>b DEF OpenInv, DeadLinksStayDead, TypeOK
  <2>2. \A d \in Calls : Redeeming(d)' => call'[d].open
    BY <1>b DEF OpenInv, Redeeming
  <2>3. ASSUME NEW d \in Calls, call'[d].pc = "validate", token'[call'[d].token].state = "active"
        PROVE call'[d].open
    <3>1. d # c /\ call'[d] = call[d] /\ call[d].token \in Tokens
      BY <2>3, <1>b DEF TypeOK, Call
    <3> QED
      BY <3>1, <2>3, <1>d DEF OpenInv
  <2> QED
    BY <2>1, <2>2, <2>3 DEF OpenInv
<1> QED
  BY <1>1, <1>2, <1>3, <1>4, <1>5, <1>6, <1>7

-----------------------------------------------------------------------------

LEMMA RemoveUserInv ==
  ASSUME IInv, RemoveUser PROVE IInv'
<1> USE OnboardingAssumption DEF IInv
<1>a. /\ UNCHANGED <<token, call, wrote, raced, faults>>
      /\ user' \in User /\ user'.accepted = user.accepted
  BY DEF RemoveUser, TypeOK, User
<1>1. TypeOK' /\ TableInv' /\ WroteInv'
  BY <1>a DEF TypeOK, TableInv, WroteInv
<1>2. UseInv' /\ OpenInv'
  BY <1>a DEF UseInv, OpenInv, DeadLinksStayDead, Redeeming
<1>3. LinkInv'
  BY <1>a DEF LinkInv, OneOpenLink, Unused
<1>4. AcceptanceInv'
  BY <1>a DEF AcceptanceInv, AcceptedOnce, Issuing, Redeeming
<1> QED
  BY <1>1, <1>2, <1>3, <1>4

LEMMA CallFailsInv ==
  ASSUME IInv, NEW c \in Calls, CallFails(c) PROVE IInv'
<1> USE OnboardingAssumption DEF IInv
<1>a. /\ call[c].pc \notin {"idle", "done"} /\ Goto(c, "done")
      /\ faults' = faults + 1
      /\ UNCHANGED <<user, token, wrote>>
  BY DEF CallFails
<1>b. /\ call' \in [Calls -> Call]
      /\ \A d \in Calls : call'[d].pc # "idle" => call'[d].type # Null
      /\ \A d \in Calls : call'[d].pc \in {"validate", "password", "mark"} =>
           call'[d].token # Null
      /\ call'[c].pc = "done"
      /\ \A d \in Calls : /\ call'[d].type = call[d].type
                          /\ call'[d].token = call[d].token
                          /\ call'[d].open = call[d].open
                          /\ d # c => call'[d] = call[d]
                          /\ call[d] \in Call
  BY <1>a, GotoTyped
<1>e. /\ raced' \in Raced
      /\ raced'.types = raced.types /\ raced'.acceptance = raced.acceptance
      /\ raced.tokens \subseteq raced'.tokens
      /\ call[c].pc = "mark" => call[c].token \in raced'.tokens
  <2> DEFINE new == {t \in {call[c].token} : call[c].pc = "mark"}
  <2>1. raced' = [raced EXCEPT !.tokens = @ \cup new]
    BY DEF CallFails
  <2>2. /\ new \subseteq Tokens
        /\ call[c].pc = "mark" => call[c].token \in new
    BY DEF TypeOK, Call
  <2> HIDE DEF new
  <2> QED
    BY <2>1, <2>2 DEF TypeOK, Raced
<1>1. TypeOK'
  BY <1>a, <1>b, <1>e DEF TypeOK
<1>2. TableInv'
  BY <1>a, <1>b DEF TableInv, TypeOK
<1>3. WroteInv'
  BY <1>a, <1>b DEF WroteInv, TypeOK
<1>4. UseInv'
  BY <1>a, <1>b, <1>e DEF UseInv, WroteInv, Redeeming, TypeOK
<1>5. LinkInv'
  <2>1. OneOpenLink'
    BY <1>a, <1>e DEF LinkInv, OneOpenLink, Unused
  <2>2. \A d \in Calls : call'[d].pc = "insert" => call'[d] = call[d]
    BY <1>a, <1>b
  <2> QED
    BY <2>1, <2>2, <1>a, <1>e DEF LinkInv, Unused
<1>6. AcceptanceInv'
  <2>1. AcceptedOnce'
    BY <1>a, <1>b, <1>e DEF AcceptanceInv, AcceptedOnce, TypeOK
  <2> QED
    BY <2>1, <1>a, <1>b, <1>e DEF AcceptanceInv, Issuing, Redeeming, TypeOK
<1>7. OpenInv'
  BY <1>a, <1>b DEF OpenInv, DeadLinksStayDead, Redeeming, TypeOK
<1> QED
  BY <1>1, <1>2, <1>3, <1>4, <1>5, <1>6, <1>7

\* Every step preserves the invariant.
LEMMA NextInv ==
  ASSUME IInv, [Next]_vars PROVE IInv'
<1> USE OnboardingAssumption
<1>1. ASSUME NEW c \in Calls, CreateUser(c) \/ ResendInvite(c) \/ RequestReset(c)
      PROVE IInv'
  <2>1. CASE CreateUser(c)
    <3>1. user' \in User /\ user'.accepted = user.accepted
      BY <2>1 DEF CreateUser, IInv, TypeOK, User
    <3>2. Start(c, "invalidate", "INVITE", Null)
      BY <2>1 DEF CreateUser
    <3> QED
      BY <2>1, <3>1, <3>2, StartInv DEF CreateUser, TokenType
  <2>2. CASE ResendInvite(c)
    <3>1. Start(c, "invalidate", "INVITE", Null)
      BY <2>2 DEF ResendInvite
    <3>2. user' \in User
      BY <2>2 DEF ResendInvite, IInv, TypeOK
    <3> QED
      BY <2>2, <3>1, <3>2, StartInv DEF ResendInvite, TokenType
  <2>3. CASE RequestReset(c)
    <3>1. Start(c, "invalidate", "PASSWORD_RESET", Null)
      BY <2>3 DEF RequestReset
    <3>2. user' \in User
      BY <2>3 DEF RequestReset, IInv, TypeOK
    <3> QED
      BY <2>3, <3>1, <3>2, StartInv DEF RequestReset, TokenType
  <2> QED
    BY <1>1, <2>1, <2>2, <2>3
<1>2. ASSUME NEW c \in Calls, NEW t \in Tokens, AcceptRead(c, t) \/ ResetRead(c, t)
      PROVE IInv'
  <2>1. user' \in User /\ UNCHANGED <<user, token, wrote, raced, faults>>
    BY <1>2 DEF AcceptRead, ResetRead, IInv, TypeOK
  <2>2. CASE AcceptRead(c, t)
    <3>1. Start(c, "validate", "INVITE", t) /\ ~user.accepted /\ token[t].state # "none"
      BY <2>2 DEF AcceptRead
    <3> QED
      BY <2>1, <3>1, StartInv DEF TokenType
  <2>3. CASE ResetRead(c, t)
    <3>1. Start(c, "validate", "PASSWORD_RESET", t) /\ token[t].state # "none"
      BY <2>3 DEF ResetRead
    <3> QED
      BY <2>1, <3>1, StartInv DEF TokenType
  <2> QED
    BY <1>2, <2>2, <2>3
<1>3. CASE UNCHANGED vars
  BY <1>3 DEF vars, IInv, TypeOK, TableInv, WroteInv, UseInv, Redeeming, LinkInv, OneOpenLink,
              Unused, AcceptanceInv, AcceptedOnce, Issuing, OpenInv, DeadLinksStayDead
<1> QED
  BY <1>1, <1>2, <1>3, InvalidateOldInv, InsertTokenInv, ExpireInv, ValidateInv,
     SetPasswordInv, MarkAsUsedInv, RemoveUserInv, CallFailsInv DEF Next

\* The invariant holds in every reachable state.
THEOREM LinksInvariant == Spec => []IInv
<1>1. Init => IInv
  BY InitInv
<1>2. IInv /\ [Next]_vars => IInv'
  BY NextInv
<1> QED
  BY <1>1, <1>2, PTL DEF Spec

\* Every variable has its type, a row has a type of token exactly when it exists
\* and a call that redeems a token has one.
THEOREM OnboardingTypeCorrect == Spec => []TypeOK
<1>1. IInv => TypeOK
  BY DEF IInv
<1> QED
  BY <1>1, LinksInvariant, PTL

\* A link sets the password once (markAsUsed), whatever is issued meanwhile.
THEOREM LinksAreOneShot == Spec => []OneUse
<1>1. IInv => OneUse
  BY DEF IInv, UseInv, OneUse, TypeOK
<1> QED
  BY <1>1, LinksInvariant, PTL

\* createInviteToken and createPasswordResetToken leave one link open, the newest.
THEOREM NewestLinkIsTheOnlyOne == Spec => []OneOpenLink
<1>1. IInv => OneOpenLink
  BY DEF IInv, LinkInv
<1> QED
  BY <1>1, LinksInvariant, PTL

\* AcceptInviteService accepts once, and no reset precedes it.
THEOREM AcceptanceComesFirst == Spec => []AcceptedOnce
<1>1. IInv => AcceptedOnce
  BY DEF IInv, AcceptanceInv
<1> QED
  BY <1>1, LinksInvariant, PTL

\* TokenValidationService.validate refuses used, superseded and expired links.
THEOREM DeadLinksAreRefused == Spec => []DeadLinksStayDead
<1>1. IInv => DeadLinksStayDead
  BY DEF IInv, OpenInv
<1> QED
  BY <1>1, LinksInvariant, PTL
=============================================================================
