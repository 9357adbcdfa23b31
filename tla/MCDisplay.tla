------------------------------ MODULE MCDisplay ------------------------------
(* A small instance of Display: two stored animations, s1 of two frames and *)
(* s2 of one, a startup animation of two and one picture.                   *)
EXTENDS Display

CONSTANTS s1, s2, recv

MCAnimLen == [n \in Anims |-> IF n = Blank THEN 0 ELSE IF n \in {s1, Startup} THEN 2 ELSE 1]
=============================================================================
