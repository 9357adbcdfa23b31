----------------------------- MODULE MCPanelWire -----------------------------
(* Small instances of PanelWire: every command of up to MaxWords words.    *)
EXTENDS PanelWire

CONSTANT MaxWords

AllCommands == UNION {[1..n -> [1..Bits -> BOOLEAN]] : n \in 1..MaxWords}
=============================================================================
