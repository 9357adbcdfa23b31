------------------------------ MODULE LoneBadge ------------------------------
(***************************************************************************)
(* A badge in an environment that may send it any message at any time,     *)
(* press its buttons and cut its power.                                    *)
(***************************************************************************)
EXTENDS Badge

CONSTANTS
  PeerMessages,  \* what the stations around the badge may send
  MaxCuts        \* bound: power cuts in a behaviour

VARIABLE cuts   \* power cuts so far

lvars == <<vars, cuts>>

(* Animation names are meant to be globally unique, so everyone who offers *)
(* an animation of one name offers the same number of frames.              *)
ASSUME PeerAssumption ==
  /\ MaxCuts \in Nat
  /\ PeerMessages \subseteq Message
  /\ \A m \in PeerMessages :
       m.op = "PUTFILE" /\ Acceptable(m.body) => m.body.len = AnimLen[m.body.name]
  /\ \A m \in PeerMessages : m.op = "APPFILE" => m.body # Torn

PeerSends ==
  /\ Running
  /\ \E m \in PeerMessages : inq' = <<m>>
  /\ UNCHANGED <<boot, post, link, ev, flash, index, led, outq, cuts>>

PeerHears ==
  /\ outq # << >>
  /\ outq' = << >>
  /\ UNCHANGED <<boot, post, link, ev, flash, index, led, inq, cuts>>

BadgeMoves == (Boot \/ Start \/ TimeOut \/ Ui) /\ UNCHANGED cuts
BadgeHears == (Receive \/ AirFault) /\ UNCHANGED cuts
Cut == PowerCut /\ cuts < MaxCuts /\ cuts' = cuts + 1

(* Bound: a message is sent when the badge is about to read it, and what   *)
(* the badge answers is heard before anything else happens.  A message     *)
(* that waits longer is the same message sent later.                       *)
Next ==
  \/ inq = << >> /\ outq = << >> /\ (PeerSends \/ BadgeMoves \/ Cut)
  \/ inq # << >> /\ outq = << >> /\ (BadgeHears \/ Cut)
  \/ PeerHears

LoneInit == Init /\ cuts = 0

Spec == LoneInit /\ [][Next]_lvars

-----------------------------------------------------------------------------
(* The variables of the badge hold values of the program's types: ids that *)
(* were handed out, a resend count within SERIAL_MAX_TX_RESENDS, messages  *)
(* that can be put on the wire.                                            *)
TypeOK ==
  /\ boot \in 0..Booted /\ post \in {0, 1}
  /\ link \in Link /\ ev \subseteq {"SENDFILE", "GETFILE"}
  /\ flash \in Flash /\ index \in Index /\ led \in Led
  /\ inq \in Seq(Message) /\ outq \in Seq(Message)

(* serial_fd is open exactly while a real receive is going on and names    *)
(* the file that receive announced; the discard flag agrees with the       *)
(* state; nothing of a transaction survives into IDLE, or starts before    *)
(* the badge is up.  A leaked descriptor is one of four (serial_rx_done,   *)
(* serial_timeout).                                                        *)
LinkConsistent ==
  /\ link.state = "FILE_RX" => ~link.discard /\ link.fd = link.header.name /\ link.fd \in Name
  /\ link.state # "FILE_RX" => link.fd = NoName
  /\ link.state = "FILE_RX_DONE" => link.discard
  /\ link.state \in {"FILE_RX", "FILE_RX_DONE"} => link.peer # NoPeer
  /\ link.state = "IDLE" => link.peer = NoPeer /\ link.resends = 0
  /\ ~Running => link = NewLink

(* While a receive is going on its file carries the announced header and   *)
(* every frame acknowledged so far, is still short of complete, and has    *)
(* the id that the next completed animation takes; so a badge that loses   *)
(* power in the middle finds a file it does not mistake for an animation.  *)
InFlightFile ==
  link.state = "FILE_RX" =>
    LET f == flash.files[link.fd]
    IN /\ f.kind = "data" /\ f.hdr = link.header
       /\ link.header.id = index.nextId
       /\ link.part < link.header.len
       /\ (\A k \in 1..Len(f.frames) : f.frames[k] # Torn) => Len(f.frames) = link.part

(* No two stored animations share an id, and the next id is above all of   *)
(* them: two animations sharing an id shadow each other in the cache and   *)
(* in the choice of the next one.                                          *)
DistinctIds ==
  /\ \A m, n \in Live(flash.files) :
       m # n => flash.files[m].hdr.id # flash.files[n].hdr.id
  /\ boot # 0 /\ post = 0 =>
       \A n \in Live(flash.files) : flash.files[n].hdr.id < index.nextId

(* The cache names exactly the unlocked animations whose ids it covers, so *)
(* SELECT neither skips one nor lands on one that is locked or gone.       *)
CacheExact ==
  boot # 0 /\ post = 0 =>
    \A i \in 0..CacheSize - 1 :
      {n \in {index.cache[i]} : n # NoName} = UnlockedAt(flash.files, Live(flash.files), i)

StoredAs(a) ==
  ~a.direct /\ a.name # NoName =>
    Valid(flash.files[a.name]) /\ flash.files[a.name].hdr.id = a.id

(* The animation on display, or the one a transfer will put back, is still *)
(* on flash under the same id, whatever was received or deleted since.     *)
ShownIsStored == StoredAs(IF link.state = "IDLE" THEN led.ambient ELSE led.idle)

(* So is the one last chosen: the id that lands in /.animid does not name  *)
(* an animation that has been deleted (serial_leave_anim).                 *)
ChosenIsStored == StoredAs(led.chosen)

(* Once a badge with a working flash is up, every animation of the         *)
(* firmware is on it, also after a power cut in the middle of led_init.    *)
SystemAnimsPresent ==
  Running /\ post = 0 => SystemName \subseteq Live(flash.files)

(* Leaving a transfer puts the display back to where it was, or on the     *)
(* animation that was just received.                                       *)
DisplayComesBack ==
  [][link.state # "IDLE" /\ link'.state = "IDLE" /\ boot' = boot =>
       led'.ambient = led.idle \/ led'.ambient.name = link.header.name]_lvars

(* While a transaction has a peer, a valid message from anyone else leaves *)
(* the transaction, its buffer, the flash and the display alone.           *)
StrangersDoNotDisturb ==
  [][link.state # "IDLE" /\ link.peer # NoPeer /\ inq # << >> /\ inq' # inq /\ boot' = boot
       /\ Msg.op # "NOISE" /\ Msg.from # link.peer =>
       UNCHANGED <<link, flash, index, led>>]_lvars

(* The badge keeps the promise of AnimLibrary.                             *)
HoldingOf(f) == IF ~Valid(f) THEN "none" ELSE IF f.hdr.unlocked THEN "unlocked" ELSE "locked"

DeleteOrdered ==
  IF /\ Running /\ link.state = "IDLE" /\ inq # << >> /\ Msg.op = "DELFILE"
     /\ Msg.from = Controller /\ Msg.body \in Name
  THEN Msg.body ELSE NoName

Library == INSTANCE AnimLibrary WITH
  held <- [n \in Name |-> HoldingOf(flash.files[n])], order <- DeleteOrdered

LibraryKept == Library!Spec
=============================================================================
