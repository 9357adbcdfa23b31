------------------------------ MODULE PanelWire ------------------------------
(***************************************************************************)
(* The wire between the badge and its LED driver chip                      *)
(* (badge_drivers/tlc6983.c): commands are bit-banged on SIMO, of which    *)
(* the chip takes a sample at every edge of SCLK, and between commands the *)
(* PWM keeps the clock going.  A LOW sample starts a frame; a frame is a   *)
(* run of units of one word and a check bit; EndEdges HIGH samples end it, *)
(* so a word of ones must not look like the end, nor an end like a word.   *)
(***************************************************************************)
EXTENDS Integers, Sequences

CONSTANTS
  Bits,      \* bits of a word: 16
  Commands   \* what is sent: a command word and its payload words

EndEdges == Bits + 2
Word == [1..Bits -> BOOLEAN]
HIGH == TRUE
LOW == FALSE

ASSUME WireAssumption ==
  /\ Bits \in Nat \ {0}
  /\ Commands \subseteq Seq(Word) \ {<< >>}

VARIABLES
  tx,   \* the badge: what it is doing, the command, the unit, edges of that so far
  chip  \* the chip: in a frame?, HIGH samples in a row, the unit, the words so far

wvars == <<tx, chip>>

-----------------------------------------------------------------------------
(* The chip, as the badge takes it to work: it samples SIMO at an edge.    *)

NewFrame == [on |-> TRUE, highs |-> 0, n |-> 0, unit |-> chip.unit, words |-> << >>]

HighsAfter(level) == IF level = HIGH THEN chip.highs + 1 ELSE 0
UnitAfter(level) == IF chip.n < Bits THEN [chip.unit EXCEPT ![chip.n + 1] = level] ELSE chip.unit

(* A unit counts when its check bit is the inverse of its last data bit.   *)
WordsAfter(level) ==
  IF chip.n = Bits /\ level # chip.unit[Bits] THEN Append(chip.words, chip.unit) ELSE chip.words

Sample(level) ==
  chip' = IF ~chip.on THEN IF level = LOW THEN NewFrame ELSE chip
          ELSE [on    |-> HighsAfter(level) # EndEdges,
                highs |-> HighsAfter(level),
                n     |-> IF chip.n < Bits THEN chip.n + 1 ELSE 0,
                unit  |-> UnitAfter(level),
                words |-> WordsAfter(level)]

-----------------------------------------------------------------------------
(* The badge.  A step puts a level on SIMO and toggles SCLK.               *)

(* The PWM's clock, with SIMO left HIGH.                                   *)
Pwm == tx.at = "pwm" /\ Sample(HIGH) /\ UNCHANGED tx

(* ccsi_bb_start: two edges of a clean idle.                               *)
BbStart == tx.at = "pwm" /\ Sample(HIGH) /\ tx' = [tx EXCEPT !.at = "clean"]
BbStarted == tx.at = "clean" /\ Sample(HIGH) /\ tx' = [tx EXCEPT !.at = "ready"]

(* ccsi_tx.                                                                *)
TxStart ==
  /\ tx.at = "ready" /\ Sample(LOW)
  /\ \E f \in Commands : tx' = [at |-> "unit", frame |-> f, unit |-> 1, edge |-> 0]

CheckBitOmitted(w) == w[Bits]
CheckBit(w) == ~w[Bits]
Level(w, i) == IF i < Bits THEN w[i + 1] ELSE CheckBit(w)

(* ccsi_send_unit, one edge of it.                                         *)
TxBit ==
  /\ tx.at = "unit" /\ tx.edge < Bits
  /\ Sample(Level(tx.frame[tx.unit], tx.edge))
  /\ tx' = [tx EXCEPT !.edge = @ + 1]

TxCheck ==
  /\ tx.at = "unit" /\ tx.edge = Bits
  /\ Sample(Level(tx.frame[tx.unit], tx.edge))
  /\ tx' = IF tx.unit < Len(tx.frame) THEN [tx EXCEPT !.unit = @ + 1, !.edge = 0]
           ELSE [tx EXCEPT !.at = "stop", !.edge = 0]

StopEdgesOneFewer == EndEdges - 1
StopEdges == EndEdges
TxStop ==
  /\ tx.at = "stop" /\ Sample(HIGH)
  /\ tx' = IF tx.edge + 1 < StopEdges THEN [tx EXCEPT !.edge = @ + 1]
           ELSE [tx EXCEPT !.at = "ready", !.edge = 0]

(* ccsi_bb_end.                                                            *)
BbEnd == tx.at = "ready" /\ tx' = [tx EXCEPT !.at = "pwm"] /\ UNCHANGED chip

WireInit ==
  /\ tx = [at |-> "pwm", frame |-> << >>, unit |-> 1, edge |-> 0]
  /\ chip = [on |-> FALSE, highs |-> 0, n |-> 0,
             unit |-> [i \in 1..Bits |-> LOW], words |-> << >>]

WireNext ==
  \/ Pwm \/ BbStart \/ BbStarted \/ TxStart \/ TxBit \/ TxCheck \/ TxStop \/ BbEnd

WireSpec == WireInit /\ [][WireNext]_wvars

-----------------------------------------------------------------------------
Tx == [at : {"pwm", "clean", "ready", "unit", "stop"}, frame : Seq(Word),
       unit : Nat \ {0}, edge : 0..EndEdges]
Chip == [on : BOOLEAN, highs : 0..EndEdges, n : 0..Bits, unit : Word, words : Seq(Word)]

(* Both ends stay within a command of whole words.                         *)
WireTypeOK ==
  /\ tx \in Tx /\ chip \in Chip /\ (chip.on => chip.highs < EndEdges)
  /\ tx.at \in {"unit", "stop"} => tx.unit \in DOMAIN tx.frame

(* tlc6983.c:85: a unit never extends a run of HIGH into a premature end,  *)
(* and the edges behind a command always end it: the chip is in a frame    *)
(* while words are sent and out of it when the next command may start.     *)
FramesKeepBounds ==
  /\ tx.at = "unit" => chip.on
  /\ tx.at \in {"ready", "pwm", "clean"} => ~chip.on

(* What the chip has at the end of a frame is the command that was sent,   *)
(* word for word: the HIGH edges of the end are never taken for a word.    *)
CommandsArrive ==
  [][chip.on /\ ~chip'.on => tx.at = "stop" /\ chip'.words = tx.frame]_wvars
=============================================================================
