------------------------------- MODULE MCTasks -------------------------------
(* A small instance of Tasks: three animations of one frame, one that      *)
(* stays, one that can go and one that comes and goes, beside the two      *)
(* pictures of a transfer.  When the third has come its id is the first    *)
(* that the cache has no room for.                                         *)
EXTENDS Tasks, MCLoneBadge

AFrame == [op |-> "APPFILE", from |-> Peer, body |-> <<u3, 0>>]

(* Offers of u3, which the badge has, has locked or has not; deletions,    *)
(* also of a picture; and a frame.                                         *)
ChoiceMessages ==
  {From(Peer, "PUTFILE", Put(u3, l)) : l \in BOOLEAN}
    \cup {AFrame}
    \cup {From(Controller, "DELFILE", n) : n \in {u1, u3, recv}}
=============================================================================
