------------------------------ MODULE TwoBadges ------------------------------
(***************************************************************************)
(* Two badges held near each other.  The variables of Badge are those of   *)
(* the near one; the far one is an instance of its own, and what one says  *)
(* is what the other hears.                                                *)
(***************************************************************************)
EXTENDS Badge

CONSTANTS
  Peer,        \* badge_id of the far badge
  PeerSeed,    \* what the programmer left on it
  Presses,     \* buttons that get pressed: "export", "import", "far export", "far import"
  MaxMishaps   \* bound: losses, garbled messages and power cuts in a behaviour

ASSUME PairAssumption ==
  /\ Peer \in Station \ {Self}
  /\ MaxMishaps \in Nat
  /\ PeerSeed \subseteq Anim
  /\ \A h \in PeerSeed : h.name \in Name /\ h.len = AnimLen[h.name] /\ ~h.direct
  /\ \A g, h \in PeerSeed : g # h => g.name # h.name /\ g.id # h.id

VARIABLES
  pboot, ppost, plink, pev, pflash, pindex, pled,  \* as in Badge, of the far one
  mishaps,   \* how many there have been
  misheard   \* history, read by properties only: a header has arrived garbled

nearVars == <<boot, post, link, ev, flash, index, led>>
farVars == <<pboot, ppost, plink, pev, pflash, pindex, pled>>
tvars == <<vars, farVars, mishaps, misheard>>
counts == <<mishaps, misheard>>

Far == INSTANCE Badge WITH
  Self <- Peer, Seed <- PeerSeed, boot <- pboot, post <- ppost, link <- plink,
  ev <- pev, flash <- pflash, index <- pindex, led <- pled, inq <- outq, outq <- inq

PairInit == Init /\ Far!Init /\ mishaps = 0 /\ misheard = FALSE

AirQuiet == inq = << >> /\ outq = << >>

(* The handlers of the near badge and of the far one.                      *)
NearReads == Receive /\ UNCHANGED <<farVars, counts>>
FarReads == Far!Receive /\ UNCHANGED <<nearVars, counts>>

NearBoots == Boot /\ UNCHANGED <<farVars, counts>>
FarBoots == Running /\ Far!Boot /\ UNCHANGED <<nearVars, counts>>

(* Bound: a transfer or a request starts when the last one has been heard. *)
NearStarts == AirQuiet /\ Start /\ UNCHANGED <<farVars, counts>>
FarStarts == AirQuiet /\ Far!Start /\ UNCHANGED <<nearVars, counts>>

(* No deadline of half a second passes while a message is under way: the   *)
(* longest takes 0.18 s at 19200 baud.                                     *)
NearGivesUp == AirQuiet /\ TimeOut /\ UNCHANGED <<farVars, counts>>
FarGivesUp == AirQuiet /\ Far!TimeOut /\ UNCHANGED <<nearVars, counts>>

(* Bound: nobody presses a button before both badges are up.               *)
OwnersPress ==
  /\ Running /\ Far!Running
  /\ \/ "export" \in Presses /\ Export /\ UNCHANGED farVars
     \/ "import" \in Presses /\ Import /\ UNCHANGED farVars
     \/ "far export" \in Presses /\ Far!Export /\ UNCHANGED nearVars
     \/ "far import" \in Presses /\ Far!Import /\ UNCHANGED nearVars
  /\ UNCHANGED counts

(* A badge that is off hears nothing.                                      *)
Unheard ==
  /\ \/ ~Running /\ inq # << >> /\ inq' = Tail(inq) /\ UNCHANGED outq
     \/ ~Far!Running /\ outq # << >> /\ outq' = Tail(outq) /\ UNCHANGED inq
  /\ UNCHANGED <<nearVars, farVars, counts>>

Mishap ==
  /\ mishaps < MaxMishaps /\ mishaps' = mishaps + 1
  /\ \/ /\ RxLost \/ RxGarbledPayload \/ (Running /\ PowerCut)
        /\ UNCHANGED <<farVars, misheard>>
     \/ /\ Far!RxLost \/ Far!RxGarbledPayload \/ (Far!Running /\ Far!PowerCut)
        /\ UNCHANGED <<nearVars, misheard>>
     \/ RxGarbledHeader /\ UNCHANGED farVars /\ misheard' = TRUE
     \/ Far!RxGarbledHeader /\ UNCHANGED nearVars /\ misheard' = TRUE

PairNext ==
  \/ NearBoots \/ FarBoots \/ NearReads \/ FarReads \/ NearStarts \/ FarStarts
  \/ NearGivesUp \/ FarGivesUp \/ OwnersPress \/ Unheard \/ Mishap

(* The IR task never stops: UART_read returns after a while whether or not *)
(* something came, and deadlines are looked at on every turn.  A deadline  *)
(* is not moved by messages the badge ignores, so it passes at a quiet     *)
(* moment however many of those there are.                                 *)
Fairness ==
  /\ WF_tvars(NearBoots) /\ WF_tvars(FarBoots) /\ WF_tvars(Unheard)
  /\ WF_tvars(NearReads) /\ WF_tvars(FarReads)
  /\ SF_tvars(NearGivesUp) /\ SF_tvars(FarGivesUp)

PairSpec == PairInit /\ [][PairNext]_tvars /\ Fairness

-----------------------------------------------------------------------------
(* What a file of a badge holds is the animation it names, frame by frame, *)
(* as long as no header has arrived garbled: no frame was stored twice,    *)
(* left out or taken from elsewhere.  Behind a garbled header the bytes of *)
(* a frame are heard as headers too (ir.c:859), the sender resends for     *)
(* each NACK (ir.c:734), and the receiver stores the frame each time.      *)
IntactOn(files) == \A n \in Live(files) : files[n].frames = FramesOf(n)
FilesIntact == ~misheard => IntactOn(flash.files) /\ IntactOn(pflash.files)

(* Whatever arrives garbled, a file starts with the first frame of the     *)
(* animation it names and holds its frames only, none before an earlier    *)
(* one.                                                                    *)
OrderedOn(files) ==
  \A n \in Live(files) :
    LET fs == files[n].frames
    IN /\ fs[1] = FramesOf(n)[1]
       /\ \A i, j \in DOMAIN fs : i <= j =>
            \E a, b \in DOMAIN FramesOf(n) :
              a <= b /\ fs[i] = FramesOf(n)[a] /\ fs[j] = FramesOf(n)[b]
FramesInOrder == OrderedOn(flash.files) /\ OrderedOn(pflash.files)

(* When a sender is told that its last frame was stored, the receiver has  *)
(* the animation, unlocked if the sender's was; again as long as no header *)
(* has arrived garbled, for then an ACK may be the answer to an earlier    *)
(* message than the sender takes it for.                                   *)
Has(files, h) == Valid(files[h.name]) /\ (h.unlocked => files[h.name].hdr.unlocked)
AcknowledgedIsHeld ==
  [][~misheard =>
       /\ RxAckLast => Has(pflash.files, link.header)
       /\ Far!RxAckLast => Has(flash.files, plink.header)]_tvars

(* Every transfer ends at both badges, whatever gets lost on the way.      *)
TransfersEnd ==
  /\ (link.state # "IDLE") ~> (link.state = "IDLE")
  /\ (plink.state # "IDLE") ~> (plink.state = "IDLE")

(* A send that reaches an idle badge delivers, if nothing goes wrong.      *)
Delivered(n) == Valid(pflash.files[n]) /\ pflash.files[n].hdr.unlocked
SendsArrive ==
  \A n \in Name :
    (/\ link.state = "FILE_TX" /\ link.header.name = n /\ link.header.unlocked /\ link.part = 0
     /\ Far!Running /\ plink.state = "IDLE" /\ outq # << >> /\ mishaps = 0)
      ~> (Delivered(n) \/ mishaps > 0)
=============================================================================
