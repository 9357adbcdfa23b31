------------------------------- MODULE Claims -------------------------------
(***************************************************************************)
(* What README.md says of a badge and its code does not keep: a claim that *)
(* a small instance refutes.                                               *)
(***************************************************************************)
EXTENDS MCLoneBadge

VARIABLE collected  \* animations the badge has held and was not told to delete

cvars == <<lvars, collected>>

ClaimsNext ==
  /\ Next
  /\ collected' = (collected \cup Live(flash.files)) \ {DeleteOrdered}

ClaimsInit == LoneInit /\ collected = {}

ClaimsSpec == ClaimsInit /\ [][ClaimsNext]_cvars

(* README.md:5: "Animations you collect unlock and stay on the badge", so  *)
(* whenever no transfer is going on it holds what it held before, less     *)
(* what the controller had it delete.                                      *)
CollectedStays ==
  Running /\ link.state = "IDLE" => collected \subseteq Live(flash.files)
=============================================================================
