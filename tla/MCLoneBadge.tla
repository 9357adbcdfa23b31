----------------------------- MODULE MCLoneBadge -----------------------------
(* Small instances of LoneBadge: two animations to trade, u1 of two frames *)
(* and u2 of one, beside the four of the firmware with one frame each.     *)
EXTENDS LoneBadge

CONSTANTS u1, u2, u3, send, recv, startup, wave, Peer, Third

MCSystemAnims == <<send, recv, startup, wave>>
System == {send, recv, startup, wave}
TwoAnims == <<send, recv>>
ManyNames == {u1, u2, u3, send, recv}
OneName == {u1} \cup System
MCAnimLen == [n \in Name |-> IF n = u1 THEN MaxFrames ELSE 1]

Put(n, locked) == [name |-> n, len |-> MCAnimLen[n], delay |-> 1, id |-> 0,
                   unlocked |-> ~locked, direct |-> FALSE]
Seeded(n, i, locked) == [Put(n, locked) EXCEPT !.id = i]

(* What the programmer leaves: u1 unlocked, or nothing, or everything.     *)
SeedOne == {Seeded(u1, 0, FALSE)}
SeedTwo == {Seeded(u1, 0, FALSE), Seeded(u2, 1, FALSE)}
SeedAll == {Seeded(MCSystemAnims[i], i - 1, TRUE) : i \in 1..4} \cup {Seeded(u1, 4, TRUE)}
From(s, op, body) == [op |-> op, from |-> s, body |-> body]
NamelessPut == [Put(u1, FALSE) EXCEPT !.name = Unterminated]
SlowPut == [Put(u1, FALSE) EXCEPT !.delay = 0]

(* The messages that change what a badge holds, and those that move a      *)
(* transfer on.                                                            *)
Traded == Name \cap {u1, u2, u3}

TradeMessages ==
  {From(Peer, "PUTFILE", Put(n, l)) : n \in Traded, l \in BOOLEAN}
    \cup {From(Peer, "APPFILE", <<u1, 0>>), From(Peer, "ACK", NoBody)}
    \cup {From(s, "DELFILE", n) : s \in {Controller, Peer}, n \in {u1}}
    \cup {From(Controller, "DELFILE", n) : n \in Traded \cup {wave}}

(* One animation on offer, and the frames that may follow.                 *)
FewMessages ==
  {From(Peer, "PUTFILE", Put(u1, FALSE)), From(Peer, "APPFILE", <<u1, 0>>),
   From(Peer, "ACK", NoBody)}

(* Everything a receiver tells apart, about one animation.                 *)
AnyMessage ==
  {From(s, "PUTFILE", Put(u1, l)) : s \in {Peer, Third}, l \in BOOLEAN}
    \cup {From(Peer, "PUTFILE", h) : h \in {NamelessPut, SlowPut}}
    \cup {From(Peer, "APPFILE", <<u1, 0>>), From(Third, "APPFILE", <<u1, 1>>),
          From(Peer, "ACK", NoBody), From(Peer, "NACK", NoBody), From(Third, "ACK", NoBody),
          From(Peer, "GETFILE", NoBody), From(Controller, "HELO", NoBody), Noise}
    \cup {From(Controller, "DELFILE", n) : n \in {u1, send, Unterminated}}
    \cup {From(Peer, "DELFILE", u1)}
=============================================================================
