----------------------------- MODULE MCTwoBadges -----------------------------
(* Small instances of TwoBadges: u1 has MaxFrames frames, the others one. *)
EXTENDS TwoBadges

CONSTANTS u1, u2, send, recv

PairSystem == <<send, recv>>
TradeNames == {u1, u2, send, recv}
PairAnimLen == [n \in Name |-> IF n = u1 THEN MaxFrames ELSE 1]

Made(n, locked) == [name |-> n, len |-> PairAnimLen[n], delay |-> 1, id |-> 0,
                    unlocked |-> ~locked, direct |-> FALSE]
(* The near badge can give u1 away and has u2 locked; the far one can give *)
(* u2 away.                                                                *)
SeedNear == {Made(u1, FALSE), [Made(u2, TRUE) EXCEPT !.id = 1]}
SeedFar == {Made(u2, FALSE)}
=============================================================================
