------------------------------ MODULE ImageSlot ------------------------------
(***************************************************************************)
(* What groups promises about the image of a group to those who read its   *)
(* imageKey and to those who upload: one image at a time, an upload is     *)
(* shown once and does not come back after it was replaced or removed,     *)
(* whoever is told that an upload succeeded had it shown, and a removed    *)
(* group shows nothing any more.                                           *)
(***************************************************************************)
CONSTANT Images

VARIABLES
  shown,      \* the image the group shows: none or one
  past,       \* the images that were ever shown
  confirmed,  \* the uploads that were answered with success
  removed     \* the group was removed

Init ==
  /\ shown = {}
  /\ past = {}
  /\ confirmed = {}
  /\ removed = FALSE

\* The answer may be lost.
Put(i) ==
  /\ ~removed /\ i \notin past
  /\ shown' = {i}
  /\ past' = past \cup {i}
  /\ confirmed' \in {confirmed, confirmed \cup {i}}
  /\ UNCHANGED removed

Clear ==
  /\ shown # {}
  /\ shown' = {}
  /\ UNCHANGED <<past, confirmed, removed>>

Retire ==
  /\ ~removed
  /\ removed' = TRUE
  /\ shown' = {}
  /\ UNCHANGED <<past, confirmed>>

Next == (\E i \in Images : Put(i)) \/ Clear \/ Retire

Spec == Init /\ [][Next]_<<shown, past, confirmed, removed>>
=============================================================================
