----------------------------- MODULE MCAnimLoader -----------------------------
(* A small instance of AnimLoader: three preloaded animations, the last of *)
(* two frames, and one that is received later.                             *)
EXTENDS AnimLoader

CONSTANTS a1, a2, a3, x

MCAnimList == <<a1, a2, a3>>
MCAnimLen == [n \in Name |-> IF n = a3 THEN MaxFrames ELSE 1]
=============================================================================
