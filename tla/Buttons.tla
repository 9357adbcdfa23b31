------------------------------- MODULE Buttons -------------------------------
(***************************************************************************)
(* The three buttons: button_clock_swi (Startup/main.c) samples the pins   *)
(* on a periodic clock, takes a state of all of them for real when two     *)
(* samples in a row agree on it, and posts a UI event for every button let *)
(* go.  The pins change, and bounce, as they like between the samples.     *)
(*                                                                         *)
(* Beside the program an onlooker follows each button by itself: a click   *)
(* is two samples down and, with no two samples up before, two samples up. *)
(***************************************************************************)
EXTENDS Naturals

CONSTANT Button   \* SELECT, IMPORT, EXPORT

VARIABLES
  curr,    \* button_state_curr: the buttons held, as far as the badge knows
  last,    \* button_state_last: the buttons down in the previous sample
  posted,  \* the buttons whose event the last sample posted
  phase,   \* onlooker: what the samples so far have shown of each button
  owed,    \* onlooker: the buttons clicked since their last event
  alone    \* onlooker: the buttons down or just let go while no other has moved

bvars == <<curr, last, posted, phase, owed, alone>>

Phase == {"up", "down", "held", "rising", "clicked"}
Seen(b, down) ==
  IF down THEN (IF phase[b] \in {"up", "clicked"} THEN "down" ELSE "held")
  ELSE CASE phase[b] = "held" -> "rising"
         [] phase[b] = "rising" -> "clicked"
         [] OTHER -> "up"

ButtonsInit ==
  /\ curr = {} /\ last = {} /\ posted = {}
  /\ phase = [b \in Button |-> "up"] /\ owed = {} /\ alone = {}

AgreedOnce(next) == next # curr
(* Two samples agree on a state that is news.                              *)
Agreed(next) == next = last /\ next # curr

LetGoAllUp(next) == IF Agreed(next) /\ next = {} THEN curr ELSE {}
LetGo(next) == IF Agreed(next) THEN curr \ next ELSE {}

(* button_clock_swi, on a sample with the buttons "next" down.             *)
Sampled(next) ==
  /\ posted' = LetGo(next)
  /\ curr' = IF Agreed(next) THEN next ELSE curr
  /\ last' = next

Watched(next) ==
  /\ phase' = [b \in Button |-> Seen(b, b \in next)]
  /\ owed' = (owed \cup {b \in Button : phase'[b] = "clicked"}) \ posted'
  /\ alone' = {b \in Button :
                 /\ phase[b] \in {"up", "clicked"} \/ (b \in alone /\ next \ {b} = last \ {b})
                 /\ phase'[b] # "up"}

ButtonsNext == \E next \in SUBSET Button : Sampled(next) /\ Watched(next)

ButtonsSpec == ButtonsInit /\ [][ButtonsNext]_bvars

-----------------------------------------------------------------------------
(* A button event is posted only for a click of that button that had none: *)
(* no bounce, and no move of another button, makes an event or a second    *)
(* one.                                                                    *)
EventsAreClicks ==
  [][\A b \in posted' : b \in owed \/ phase'[b] = "clicked"]_bvars

(* A click during which the other buttons rest is answered at once, also   *)
(* while another button is held down.                                      *)
LoneClicksCount ==
  [][\A b \in alone' : phase'[b] = "clicked" => b \in posted']_bvars
=============================================================================
