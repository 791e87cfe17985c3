----------------------------- MODULE RequestBook -----------------------------
(***************************************************************************)
(* What landing-requests promises about a request to the rest of the       *)
(* system, whoever acts at the same time: it is decided at most once and   *)
(* never after it was withdrawn, a withdrawn request does not come back,   *)
(* and its requester is only ever told the decision that stands.           *)
(***************************************************************************)
CONSTANT Requests

VARIABLES
  status,     \* "absent" until the request was filed
  withdrawn,  \* requests that were removed, decided or not
  told        \* the decisions the requester of each request was told

Decision == {"APPROVED", "REJECTED"}

Init ==
  /\ status = [q \in Requests |-> "absent"]
  /\ withdrawn = {}
  /\ told = [q \in Requests |-> {}]

File(q) ==
  /\ status[q] = "absent"
  /\ status' = [status EXCEPT ![q] = "PENDING"]
  /\ UNCHANGED <<withdrawn, told>>

Decide(q) ==
  /\ status[q] = "PENDING" /\ q \notin withdrawn
  /\ \E d \in Decision : status' = [status EXCEPT ![q] = d]
  /\ UNCHANGED <<withdrawn, told>>

Withdraw(q) ==
  /\ status[q] # "absent"
  /\ withdrawn' = withdrawn \cup {q}
  /\ UNCHANGED <<status, told>>

Tell(q) ==
  /\ status[q] \in Decision
  /\ told' = [told EXCEPT ![q] = @ \cup {status[q]}]
  /\ UNCHANGED <<status, withdrawn>>

Next == \E q \in Requests : File(q) \/ Decide(q) \/ Withdraw(q) \/ Tell(q)

Spec == Init /\ [][Next]_<<status, withdrawn, told>>
=============================================================================
