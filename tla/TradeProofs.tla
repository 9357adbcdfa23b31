----------------------------- MODULE TradeProofs -----------------------------
(***************************************************************************)
(* Proofs about one badge of a trade: what a step of its own keeps of the  *)
(* agreement between its link, the link of the other badge and the one     *)
(* message under way.  The other badge, its station peer, its link other   *)
(* and its files theirs, does not move meanwhile.  PairProofs puts two     *)
(* such badges together.                                                   *)
(***************************************************************************)
EXTENDS LibraryProofs

-----------------------------------------------------------------------------
(* The invariant.                                                          *)

(* What is heard in a trade: no orders of a controller, no noise, and only *)
(* offers and frames of animations.                                        *)
Traded == {m \in Message :
  /\ m.op \in {"PUTFILE", "APPFILE", "ACK", "NACK", "GETFILE"}
  /\ m.op = "PUTFILE" => m.body.name \in Name /\ m.body.len = AnimLen[m.body.name]
  /\ m.op = "APPFILE" => m.body # Torn}

(* The badges take turns: one message at most is under way.                *)
OneOnAir(peer) ==
  \/ inq = << >> /\ outq = << >>
  \/ outq = << >> /\ \E m \in Traded : inq = <<m>> /\ m.from = peer
  \/ inq = << >> /\ \E m \in Traded : outq = <<m>> /\ m.from = Self

(* What a transfer is about has the length of the animation it names.      *)
TransferFits(l) ==
  l.state # "IDLE" => l.header.name \in Name /\ l.header.len = AnimLen[l.header.name]

(* A badge that sends has what it sends.                                   *)
SendsStored == link.state = "FILE_TX" => Valid(flash.files[link.header.name])

(* A badge that receives has stored the frames so far as they should be.   *)
TakesInOrder ==
  LET f == flash.files[link.header.name]
  IN link.state = "FILE_RX" /\ Whole(f) =>
       \A k \in 1..link.part : f.frames[k] = FramesOf(link.header.name)[k]

(* What holds of one badge of a trade.                                     *)
Half(peer) ==
  /\ IInv /\ StoreInv /\ Intact /\ LedFits /\ TransferFits(link) /\ SendsStored /\ TakesInOrder
  /\ link.peer \in {NoPeer, peer} /\ link.payload # Torn

Carries(q, op) == q # << >> /\ Head(q).op = op

(* The frame s sends is the one r waits for.                               *)
Sends(s, r) ==
  /\ s.part = r.part + 1 /\ s.header.name = r.header.name
  /\ s.payload = FramesOf(r.header.name)[s.part]

(* Between the link s of a sender and the link r of a receiver, and what   *)
(* one says and the other answers: an offer is for what s sends, a frame   *)
(* is the one r waits for, and an answer is for the frame last sent; one   *)
(* that refuses a frame leaves it to be sent again.                        *)
InStep(s, r, said, answered) ==
  /\ s.state = "FILE_TX" /\ Carries(said, "PUTFILE") => s.part = 0 /\ Head(said).body = s.header
  /\ r.state = "FILE_RX" /\ Carries(said, "APPFILE") =>
       /\ Head(said).body = FramesOf(r.header.name)[r.part + 1]
       /\ s.state = "FILE_TX" => Sends(s, r)
  /\ s.state = "FILE_TX" /\ r.state = "FILE_RX" =>
       /\ Carries(answered, "ACK") => s.part = r.part /\ s.header.name = r.header.name
       /\ Carries(answered, "NACK") => s.part = 0 \/ Sends(s, r)

(* The files fs have the animation h, unlocked if h is.                    *)
Owns(fs, h) == Valid(fs[h.name]) /\ (h.unlocked => fs[h.name].hdr.unlocked)

(* The receiver r takes what s sends, or has it.                           *)
Taking(s, r, fs) ==
  /\ r.state = "FILE_RX" => Whole(fs[r.header.name]) /\ (s.header.unlocked => r.header.unlocked)
  /\ r.state = "FILE_RX_DONE" => Owns(fs, s.header)

(* From the first ACK on the receiver r, with the files fs, takes what s   *)
(* sends; at the last it has it.                                           *)
Promise(s, r, fs, said, answered) ==
  s.state = "FILE_TX" =>
    /\ \/ Carries(said, "APPFILE") \/ Carries(answered, "ACK")
       \/ Carries(answered, "NACK") /\ s.part > 0
       => Taking(s, r, fs)
    /\ Carries(answered, "ACK") /\ s.part = s.header.len => Owns(fs, s.header)

(* What a badge of a trade does.  It starts and gives up when nothing is   *)
(* under way, and only its payloads get garbled.                           *)
Reads == Receive \/ RxLost \/ RxGarbledPayload
Quiet == inq = << >> /\ outq = << >>
TradeStep ==
  Boot \/ Reads \/ (Quiet /\ (Start \/ TimeOut)) \/ Export \/ Import \/ PowerCut

-----------------------------------------------------------------------------
(* What a read of the badge has in common.                                 *)

(* It is a step of LoneBadge.                                              *)
LEMMA TradeIsStep == ASSUME TradeStep PROVE Step
BY DEF TradeStep, Reads, Step, BadgeStep, AirFault, Ui

(* The handlers that act on a traded message.                              *)
Trades ==
  \/ RxIgnored \/ RxGetFile \/ RxLost \/ RxGarbledPayload
  \/ RxPutRefused \/ RxPutUnreadable \/ RxPutDiscarded \/ RxPutUnlocks \/ RxPutNew
  \/ RxFrame \/ RxLastFrame \/ RxFrameUnwritten
  \/ RxAck \/ RxAckLast \/ RxNackResends \/ RxNackGivesUp

(* A message of the other badge is the only one there is; it is taken, and *)
(* answered by one or none.                                                *)
LEMMA TradeReads ==
  ASSUME NEW CONSTANT peer, Half(peer), OneOnAir(peer), Reads
  PROVE /\ Trades /\ Running /\ boot' = boot
        /\ inq # << >> /\ Msg \in Traded /\ Msg \in Message /\ Msg.from = peer
        /\ inq' = << >> /\ outq = << >>
        /\ outq' = << >> \/ \E op, body : Say(op, body)
        /\ \A op, body : Say(op, body) =>
             /\ outq' = <<[op |-> op, from |-> Self, body |-> body]>>
             /\ outq' # << >> /\ Head(outq').op = op /\ Head(outq').body = body
<1>1. Receive \/ AirFault
  BY DEF Reads, AirFault
<1>2. inq # << >> /\ Running /\ boot' = boot /\ (outq' = outq \/ \E op, body : Say(op, body))
  BY <1>1, OneAnswer
<1>3. outq = << >> /\ \E m \in Traded : inq = <<m>> /\ m.from = peer
  BY <1>2 DEF OneOnAir
<1>4. Msg \in Traded /\ Msg.from = peer /\ Tail(inq) = << >>
  BY <1>3 DEF Msg
<1>5. Msg \in Message /\ Msg.op \in {"PUTFILE", "APPFILE", "ACK", "NACK", "GETFILE"}
  BY <1>4 DEF Traded
<1>6. FromPeer(Msg)
  BY <1>4 DEF Half, FromPeer
<1>7. ~RxRejected /\ ~RxNoise /\ ~RxHelo /\ ~RxDelete /\ ~RxDeleteRefused
  BY <1>5, <1>6 DEF RxRejected, RxNoise, RxHelo, RxDelete, RxDeleteRefused, Arrives
<1>8. Trades
  BY <1>7 DEF Reads, Receive, Trades
<1>9. Take
  BY <1>8 DEF Trades, RxIgnored, RxGetFile, RxLost, RxGarbledPayload, RxPutRefused, RxPutUnreadable,
              RxPutDiscarded, RxPutUnlocks, RxPutNew, Offered, RxFrame, RxLastFrame,
              RxFrameUnwritten, FrameArrives, RxAck, RxAckLast, RxNackResends, RxNackGivesUp, Sending
<1>10. inq' = << >>
  BY <1>4, <1>9 DEF Take
<1>11. ASSUME NEW op, NEW body, Say(op, body)
       PROVE /\ outq' = <<[op |-> op, from |-> Self, body |-> body]>>
             /\ outq' # << >> /\ Head(outq').op = op /\ Head(outq').body = body
  BY <1>3, <1>11 DEF Say
<1> QED
  BY <1>2, <1>3, <1>4, <1>5, <1>8, <1>10, <1>11

-----------------------------------------------------------------------------
(* The display and the link.                                               *)

(* Every step of a trade leaves what is on display of the right length.    *)
LEMMA LedStep ==
  ASSUME NEW CONSTANT peer, Half(peer), TradeStep, FilesSound'
  PROVE LedFits'
<1>1. TypeOK /\ FilesSound /\ LedFits /\ Step
  BY TradeIsStep DEF Half, IInv, StoreInv
<1>2. FilesFit /\ FilesFit'
  BY <1>1 DEF FilesSound, Sound, FilesFit, FileFits
<1> QED
  BY <1>1, <1>2, LedFitsStep

(* The frames a badge sends are those of the animation it sends, whole.    *)
LEMMA SentFrames ==
  ASSUME NEW CONSTANT peer, Half(peer), link.state = "FILE_TX"
  PROVE /\ link.header.name \in Name /\ link.header.len = AnimLen[link.header.name]
        /\ Frames = FramesOf(link.header.name)
        /\ Len(Frames) = AnimLen[link.header.name]
        /\ \A k \in 1..Len(Frames) : Frames[k] # Torn
<1>1. /\ link.header.name \in Name /\ link.header.len = AnimLen[link.header.name]
      /\ Valid(flash.files[link.header.name])
  BY DEF Half, TransferFits, SendsStored
<1>2. Frames = FramesOf(link.header.name) /\ Frames = flash.files[link.header.name].frames
  BY <1>1 DEF Half, Intact, Live, Frames
<1>3. Len(Frames) = AnimLen[link.header.name]
  BY <1>1, <1>2, FramesOfType
<1> QED
  BY <1>1, <1>2, <1>3 DEF Valid, Whole

(* The link goes on with the other badge alone, about an animation of its  *)
(* length, and no part of a frame gets into the buffer.                    *)
LinkKept(peer) == TransferFits(link) /\ link.peer \in {NoPeer, peer} /\ link.payload # Torn

(* The buffer takes whole frames only, and the link is else as it was.     *)
LEMMA BufferedTraded ==
  ASSUME NEW CONSTANT peer, Half(peer), OneOnAir(peer), Reads
  PROVE LET b == Buffered(link, Msg)
        IN /\ b \in Link /\ b.state = link.state /\ b.part = link.part /\ b.peer = link.peer
           /\ b.header = link.header /\ b.fd = link.fd /\ b.payload # Torn
<1>1. link \in Link /\ link.payload # Torn /\ Msg \in Traded /\ Msg \in Message
  BY TradeReads DEF Half, IInv, TypeOK
<1>2. /\ Msg.op = "APPFILE" => Msg.body # Torn
      /\ Junk # Torn
  BY <1>1 DEF Traded, Junk, Torn
<1>3. Buffered(link, Msg).payload # Torn
  BY <1>1, <1>2 DEF Buffered, Link
<1> QED
  BY <1>1, <1>3, BufferedKeeps

(* An offer that arrives, if the badge takes it or not.                    *)
LEMMA OfferLinkKept ==
  ASSUME NEW CONSTANT peer, Half(peer), OneOnAir(peer), Reads,
         RxPutRefused \/ RxPutUnreadable \/ RxPutDiscarded \/ RxPutUnlocks \/ RxPutNew
  PROVE LinkKept(peer)'
<1> DEFINE b == Buffered(link, Msg)
<1>1. /\ b \in Link /\ b.state = link.state /\ b.peer = link.peer /\ b.payload # Torn
      /\ Msg \in Message /\ Msg.from = peer /\ TypeOK /\ AirInv /\ link.peer \in {NoPeer, peer}
  BY BufferedTraded, TradeReads DEF Half, IInv, StoreInv
<1>2. CASE RxPutRefused
  <2>1. link' = [b EXCEPT !.header = Offer] /\ link.state = "IDLE"
    BY <1>2 DEF RxPutRefused
  <2> HIDE DEF b
  <2> QED
    BY <1>1, <2>1 DEF LinkKept, TransferFits, Link
<1>3. CASE ~RxPutRefused
  <2>1. Offered
    BY <1>3 DEF RxPutUnreadable, RxPutDiscarded, RxPutUnlocks, RxPutNew
  <2>2. /\ Offer \in Anim /\ Offer.name \in Name /\ Offer.len = AnimLen[Offer.name]
        /\ link.state = "IDLE"
    BY <1>1, <2>1, OfferedFacts, OfferLength
  <2>3. ASSUME NEW h, Declining(h) PROVE LinkKept(peer)'
    <3>1. link' = [[b EXCEPT !.header = h] EXCEPT !.state = "IDLE", !.peer = NoPeer, !.resends = 0]
      BY <2>3 DEF Declining, ToIdle
    <3> HIDE DEF b
    <3> QED
      BY <1>1, <3>1 DEF LinkKept, TransferFits, Link
  <2>4. ASSUME NEW h, NEW fd, Receiving(h, fd), h.name = Offer.name, h.len = Offer.len
        PROVE LinkKept(peer)'
    <3>1. link' = [b EXCEPT !.state = IF fd = NoName THEN "FILE_RX_DONE" ELSE "FILE_RX",
                     !.discard = fd = NoName, !.fd = fd, !.peer = Msg.from, !.part = 0,
                     !.header = h]
      BY <2>4 DEF Receiving
    <3> HIDE DEF b
    <3>2. link'.header = h /\ link'.peer = peer /\ link'.payload # Torn
      BY <1>1, <3>1 DEF Link
    <3> QED
      BY <2>2, <2>4, <3>2 DEF LinkKept, TransferFits
  <2>5. CASE RxPutUnreadable
    BY <2>3, <2>5 DEF RxPutUnreadable
  <2>6. CASE RxPutDiscarded
    <3> DEFINE h == [Offer EXCEPT !.id = Local.hdr.id, !.unlocked = Local.hdr.unlocked]
    <3>1. h.name = Offer.name /\ h.len = Offer.len /\ Receiving(h, NoName)
      BY <2>2, <2>6 DEF RxPutDiscarded, Anim
    <3> QED
      BY <2>4, <3>1
  <2>7. CASE RxPutUnlocks
    <3> DEFINE h == [Offer EXCEPT !.id = Local.hdr.id]
    <3>1. h.name = Offer.name /\ h.len = Offer.len
      BY <2>2 DEF Anim
    <3>2. Receiving(h, NoName) \/ Declining(h)
      BY <2>7 DEF RxPutUnlocks
    <3> QED
      BY <2>3, <2>4, <3>1, <3>2
  <2>8. CASE RxPutNew
    <3> DEFINE h == [Offer EXCEPT !.id = index.nextId]
    <3>1. h.name = Offer.name /\ h.len = Offer.len
      BY <2>2 DEF Anim
    <3>2. Receiving(h, h.name) \/ Declining(h)
      BY <2>8 DEF RxPutNew
    <3> QED
      BY <2>3, <2>4, <3>1, <3>2
  <2> QED
    BY <1>3, <2>5, <2>6, <2>7, <2>8
<1> QED
  BY <1>2, <1>3

(* So it is in every step.                                                 *)
LEMMA LinkKeptStep ==
  ASSUME NEW CONSTANT peer, Half(peer), OneOnAir(peer), TradeStep
  PROVE LinkKept(peer)'
<1>1. /\ LinkKept(peer) /\ TypeOK /\ link \in Link /\ LedFits /\ led.ambient \in Anim
      /\ LinkConsistent
  BY DEF Half, LinkKept, IInv, TypeOK, Led
<1>2. CASE link' = link
  BY <1>1, <1>2 DEF LinkKept, TransferFits
<1>3. CASE Boot \/ Export \/ Import
  BY <1>1, <1>2, <1>3, BootIsEarly DEF Export, Import, Press
<1>4. CASE PowerCut
  BY <1>4 DEF PowerCut, NewLink, LinkKept, TransferFits, Junk, Torn
<1>5. CASE EndSend \/ TimeoutReceiving
  BY <1>1, <1>5 DEF EndSend, TimeoutReceiving, ToIdle, LinkKept, TransferFits, Link
<1>6. CASE Start
  <2>1. CASE StartSend
    <3> DEFINE h == [led.ambient EXCEPT !.id = 0]
    <3>1. h.name = led.ambient.name /\ h.len = led.ambient.len
      BY <1>1 DEF Anim
    <3>2. /\ link' = [link EXCEPT !.state = "FILE_TX", !.header = h, !.part = 0, !.resends = 0]
          /\ led.ambient.name \in Name
      BY <2>1 DEF StartSend
    <3> HIDE DEF h
    <3>3. link'.header = h /\ link'.peer = link.peer /\ link'.payload = link.payload
      BY <1>1, <3>2 DEF Link
    <3> QED
      BY <1>1, <3>1, <3>2, <3>3 DEF LinkKept, TransferFits, LedFits, Fits
  <2>2. CASE StartSendDeclined
    BY <1>1, <1>2, <2>2 DEF StartSendDeclined, LinkKept, TransferFits, Link
  <2>3. CASE StartGet
    BY <1>2, <2>3 DEF StartGet
  <2> QED
    BY <1>6, <2>1, <2>2, <2>3 DEF Start
<1>7. CASE TimeOut
  BY <1>5, <1>7 DEF TimeOut, TimeoutSending
<1>8. CASE Reads
  <2> DEFINE b == Buffered(link, Msg)
  <2>1. /\ b \in Link /\ b.state = link.state /\ b.part = link.part /\ b.peer = link.peer
        /\ b.header = link.header /\ b.payload # Torn
    BY <1>8, BufferedTraded
  <2>2. Trades /\ Msg.from = peer
    BY <1>8, TradeReads
  <2>3. CASE RxIgnored \/ RxGetFile \/ RxLost \/ RxGarbledPayload \/ RxFrameUnwritten
    <3>1. link' = link \/ link' = b \/ link' = [link EXCEPT !.payload = Junk]
      BY <2>3 DEF RxIgnored, RxGetFile, RxLost, RxGarbledPayload, RxFrameUnwritten
    <3> HIDE DEF b
    <3> QED
      BY <1>1, <1>2, <2>1, <3>1 DEF LinkKept, TransferFits, Link, Junk, Torn
  <2>4. CASE RxPutRefused \/ RxPutUnreadable \/ RxPutDiscarded \/ RxPutUnlocks \/ RxPutNew
    BY <1>8, <2>4, OfferLinkKept
  <2>5. CASE RxFrame
    <3>1. link' = [b EXCEPT !.part = @ + 1]
      BY <2>5 DEF RxFrame
    <3> HIDE DEF b
    <3> QED
      BY <1>1, <2>1, <3>1 DEF LinkKept, TransferFits, Link
  <2>6. CASE RxLastFrame
    <3>1. link' = ToIdle([b EXCEPT !.part = @ + 1, !.fd = NoName])
      BY <2>6 DEF RxLastFrame
    <3> HIDE DEF b
    <3> QED
      BY <1>1, <2>1, <3>1 DEF LinkKept, TransferFits, Link, ToIdle
  <2>7. CASE RxAck
    <3>1. link.state = "FILE_TX"
      BY <2>7 DEF RxAck, Sending
    <3>2. PICK q \in {NoPeer, peer} : Acked = [link EXCEPT !.peer = q, !.resends = 0]
      BY <1>1, <2>2 DEF Acked, LinkKept
    <3>3. \/ link' = Acked \/ link' = [Acked EXCEPT !.payload = Junk]
          \/ /\ link.part < Len(Frames)
             /\ link' = [Acked EXCEPT !.payload = Frames[link.part + 1], !.part = @ + 1]
      BY <2>7 DEF RxAck
    <3>4. link.part < Len(Frames) => Frames[link.part + 1] # Torn
      <4>1. Len(Frames) \in Nat /\ link.part \in Nat
        BY <1>1, FramesType, LenProperties DEF Link
      <4> QED
        BY <3>1, <4>1, SentFrames
    <3> HIDE DEF Acked
    <3>5. /\ Acked \in Link /\ Acked.state = link.state /\ Acked.header = link.header
          /\ Acked.peer = q /\ Acked.payload # Torn
      <4>1. q \in Station \cup {NoPeer} /\ 0 \in 0..MaxResends
        BY <1>1, <1>8, <2>2, LimitAssumption, TradeReads, MessageParts DEF Half
      <4> QED
        BY <1>1, <3>2, <4>1 DEF Link, LinkKept
    <3>6. /\ link'.state = link.state /\ link'.header = link.header /\ link'.peer = q
          /\ link'.payload # Torn
      <4>1. CASE link' = Acked
        BY <3>5, <4>1
      <4>2. ASSUME NEW f, f # Torn,
                   \/ link' = [Acked EXCEPT !.payload = f]
                   \/ link' = [Acked EXCEPT !.payload = f, !.part = @ + 1]
            PROVE /\ link'.state = link.state /\ link'.header = link.header /\ link'.peer = q
                  /\ link'.payload # Torn
        BY <3>5, <4>2 DEF Link
      <4>3. Junk # Torn
        BY DEF Junk, Torn
      <4> QED
        BY <3>3, <3>4, <4>1, <4>2, <4>3
    <3> QED
      BY <1>1, <3>6 DEF LinkKept, TransferFits
  <2>8. CASE RxNackResends
    BY <1>1, <2>8 DEF RxNackResends, LinkKept, TransferFits, Link
  <2>9. CASE RxAckLast \/ RxNackGivesUp
    BY <1>5, <2>9 DEF RxAckLast, RxNackGivesUp
  <2> QED
    BY <2>2, <2>3, <2>4, <2>5, <2>6, <2>7, <2>8, <2>9 DEF Trades
<1> QED
  BY <1>3, <1>4, <1>6, <1>7, <1>8 DEF TradeStep

-----------------------------------------------------------------------------
(* The files.                                                              *)

(* This badge and the link of the other one, which waits meanwhile.        *)
Agree(l, other, in, out) == InStep(l, other, out, in) /\ InStep(other, l, in, out)
Trading(peer, other) ==
  /\ Half(peer) /\ OneOnAir(peer) /\ other \in Link /\ TransferFits(other)
  /\ Agree(link, other, inq, outq)

(* What a badge sends stays where it is.                                   *)
LEMMA SendsStoredStep ==
  ASSUME NEW CONSTANT peer, Half(peer), OneOnAir(peer), TradeStep
  PROVE SendsStored'
<1>1. Step /\ IInv /\ TypeOK /\ LinkConsistent /\ SendsStored
  BY TradeIsStep DEF Half, IInv
<1>2. Stays \/ Starts \/ Finishes
  BY <1>1, StateSteps
<1>3. CASE Finishes
  BY <1>3 DEF Finishes, SendsStored
<1>4. CASE Starts
  <2>1. CASE StartSend
    <3> DEFINE h == [led.ambient EXCEPT !.id = 0]
    <3>1. led.ambient \in Anim /\ link \in Link
      BY <1>1 DEF TypeOK, Led
    <3>2. h.name = led.ambient.name
      BY <3>1 DEF Anim
    <3>3. /\ link' = [link EXCEPT !.state = "FILE_TX", !.header = h, !.part = 0, !.resends = 0]
          /\ Valid(flash.files[led.ambient.name]) /\ flash' = flash
      BY <2>1 DEF StartSend
    <3> HIDE DEF h
    <3>4. link'.header = h
      BY <3>1, <3>3 DEF Link
    <3> QED
      BY <3>2, <3>3, <3>4 DEF SendsStored
  <2>2. CASE RxPutDiscarded \/ RxPutUnlocks \/ RxPutNew
    <3>1. Msg \in Message
      BY <1>1, <2>2, OfferedFacts DEF RxPutDiscarded, RxPutUnlocks, RxPutNew
    <3>2. link'.state # "FILE_TX"
      BY <1>1, <2>2, <3>1, ReceivingFacts DEF RxPutDiscarded, RxPutUnlocks, RxPutNew
    <3> QED
      BY <3>2 DEF SendsStored
  <2> QED
    BY <1>4, <2>1, <2>2 DEF Starts
<1>5. CASE Stays
  <2>1. SUFFICES ASSUME link.state = "FILE_TX", link'.state = "FILE_TX" PROVE SendsStored'
    BY <1>5 DEF Stays, SendsStored
  <2>2. Running
    BY <1>1, <2>1 DEF LinkConsistent, NewLink
  <2>3. flash'.files = flash.files
    BY <1>1, <2>1, <2>2, OtherSteps, BootIsEarly
    DEF PowerCut, NewLink, RxDelete, RxPutUnlocks, RxPutNew, Offered, RxFrame, RxLastFrame,
        RxFrameUnwritten, FrameArrives, TimeoutReceiving
  <2> QED
    BY <1>1, <1>5, <2>1, <2>3 DEF Stays, SendsStored
<1> QED
  BY <1>2, <1>3, <1>4, <1>5

(* A frame that is stored is the next one of its animation.                *)
LEMMA FrameLands ==
  ASSUME NEW CONSTANT peer, NEW CONSTANT other, Trading(peer, other), Reads,
         RxFrame \/ RxLastFrame, link.state = "FILE_RX"
  PROVE LET n == link.header.name
            new == flash'.files[n]
        IN /\ n \in Name /\ link.header.len = AnimLen[n] /\ link.fd = n /\ ~link.discard
           /\ Puts(n, new) /\ new \in File /\ new.hdr = link.header
           /\ Whole(new) => /\ Whole(flash.files[n]) /\ Len(new.frames) = link.part + 1
                            /\ \A k \in 1..link.part + 1 : new.frames[k] = FramesOf(n)[k]
<1> DEFINE n == link.header.name
           old == flash.files[n]
           new == flash'.files[n]
<1>1. /\ IInv /\ TypeOK /\ LinkConsistent /\ InFlightFile /\ TransferFits(link) /\ TakesInOrder
      /\ inq # << >> /\ Msg \in Message
  BY TradeReads DEF Trading, Half, IInv
<1>2. /\ n \in Name /\ link.header.len = AnimLen[n] /\ link.fd = n /\ ~link.discard
      /\ link.part \in Nat
  BY <1>1 DEF TransferFits, LinkConsistent, TypeOK, Link
<1>3. FrameArrives /\ FrameStored
  BY DEF RxFrame, RxLastFrame
<1>4. flash' = AppendFrame(Msg.body) /\ Msg.op = "APPFILE" /\ Msg.body \in Frame
  BY <1>1, <1>2, <1>3, MessageParts DEF FrameStored, FrameArrives, Arrives
<1>5. Msg.body = FramesOf(n)[link.part + 1]
  BY <1>1, <1>4 DEF Trading, Agree, InStep, Carries, Msg
<1>6. /\ old \in File /\ old.frames \in Seq(Frame) /\ old.hdr = link.header
      /\ Whole(old) => Len(old.frames) = link.part
  BY <1>1, <1>2, HeaderType DEF InFlightFile, TypeOK, Flash, Whole
<1>7. Puts(n, [old EXCEPT !.frames = Append(old.frames, Msg.body)])
  BY <1>1, <1>2, <1>4, AppendPuts
<1>8. new = [old EXCEPT !.frames = Append(old.frames, Msg.body)]
  BY <1>1, <1>2, <1>7, PutsFacts
<1>9. Puts(n, new) /\ Whole(old) => \A k \in 1..link.part : old.frames[k] = FramesOf(n)[k]
  BY <1>1, <1>7, <1>8 DEF TakesInOrder
<1> DEFINE m == Msg.body
           s == old.frames
<1>10. m \in Frame /\ s \in Seq(Frame)
  BY <1>4, <1>6
<1> HIDE DEF m, s
<1>11. /\ Append(s, m) \in Seq(Frame) /\ Len(s) \in Nat /\ Len(Append(s, m)) = Len(s) + 1
       /\ Append(s, m)[Len(s) + 1] = m /\ \A k \in 1..Len(s) : Append(s, m)[k] = s[k]
  BY <1>10, AppendProperties, AppendKeeps
<1> HIDE DEF new, old
<1>12. new \in File /\ new.hdr = link.header /\ new.frames = Append(s, m)
  BY <1>6, <1>8, <1>11 DEF File, m, s
<1>13. ASSUME Whole(new)
       PROVE /\ Whole(old) /\ Len(new.frames) = link.part + 1
             /\ \A k \in 1..link.part + 1 : new.frames[k] = FramesOf(n)[k]
  <2>1. Whole(old)
    <3>1. \A k \in 1..Len(s) : k \in 1..Len(new.frames) /\ new.frames[k] = s[k]
      BY <1>11, <1>12
    <3> QED
      BY <1>13, <3>1 DEF Whole, s
  <2>2. Len(s) = link.part /\ \A k \in 1..link.part : s[k] = FramesOf(n)[k]
    BY <1>6, <1>9, <1>7, <1>8, <2>1 DEF s
  <2>3. ASSUME NEW k \in 1..link.part + 1 PROVE new.frames[k] = FramesOf(n)[k]
    <3>1. CASE k = link.part + 1
      BY <1>5, <1>11, <1>12, <2>2, <3>1 DEF m
    <3>2. CASE k # link.part + 1
      BY <1>2, <1>11, <1>12, <2>2, <3>2
    <3> QED
      BY <3>1, <3>2
  <2> QED
    BY <1>11, <1>12, <2>1, <2>2, <2>3
<1> QED
  BY <1>2, <1>7, <1>8, <1>12, <1>13 DEF new, old

(* The last frame completes the animation.                                 *)
LEMMA LastFrameLands ==
  ASSUME NEW CONSTANT peer, NEW CONSTANT other, Trading(peer, other), Reads,
         RxLastFrame, link.state = "FILE_RX", Whole(flash'.files[link.header.name])
  PROVE flash'.files[link.header.name].frames = FramesOf(link.header.name)
<1> DEFINE n == link.header.name
           new == flash'.files[n]
<1>1. /\ n \in Name /\ link.header.len = AnimLen[n] /\ link.fd = n /\ new \in File
      /\ Len(new.frames) = link.part + 1
      /\ \A k \in 1..link.part + 1 : new.frames[k] = FramesOf(n)[k]
  BY FrameLands
<1>2. link.part + 1 >= link.header.len /\ link.part < link.header.len /\ link.part \in Nat
      /\ link.header.len \in Nat
  BY DEF RxLastFrame, Trading, Half, IInv, InFlightFile, TypeOK, Link, Anim
<1>3. Len(new.frames) = AnimLen[n] /\ new.frames \in Seq(Frame)
  BY <1>1, <1>2, HeaderType
<1>4. FramesOf(n) \in Seq(Frame) /\ Len(FramesOf(n)) = AnimLen[n]
  BY <1>1, FramesOfType
<1>5. \A k \in 1..AnimLen[n] : new.frames[k] = FramesOf(n)[k]
  BY <1>1, <1>2
<1> HIDE DEF n, new
<1> QED
  BY <1>3, <1>4, <1>5, SeqEqual DEF n, new

(* What is stored stays the animation it names.                            *)
LEMMA IntactStep ==
  ASSUME NEW CONSTANT peer, NEW CONSTANT other, Trading(peer, other), TradeStep
  PROVE Intact'
<1>1. /\ Step /\ IInv /\ TypeOK /\ LinkConsistent /\ InFlightFile /\ Intact
      /\ StoreInv /\ AirInv /\ FilesSound
  BY TradeIsStep DEF Trading, Half, IInv, StoreInv
<1>2. CASE flash'.files = flash.files
  BY <1>1, <1>2 DEF Intact, Live
<1>3. ASSUME NEW n \in Name, NEW f, Puts(n, f), ~Valid(f) PROVE Intact'
  BY <1>1, <1>3, PutsIntact
<1>4. CASE Boot
  <2>1. CASE \A n \in Name : flash'.files[n] = Absent
    BY <2>1, BareFiles DEF Intact, Live
  <2>2. CASE LedInitSaves
    <3>1. PICK n \in Name : \E f \in SavedDirect(n) : flash' = PutFile(n, f)
      BY <2>2, SystemAssumption DEF LedInitSaves
    <3>2. PICK f \in SavedDirect(n) : flash' = PutFile(n, f)
      BY <3>1
    <3>3. Puts(n, f) /\ (Valid(f) => f.frames = FramesOf(n))
      BY <1>1, <3>2, PutFilePuts, SeedIntact DEF TypeOK
    <3> QED
      BY <1>1, <3>3, PutsIntact
  <2> QED
    BY <1>1, <1>2, <1>4, <2>1, <2>2, BootFiles
<1>5. CASE PowerCut
  BY <1>1, <1>2, <1>3, <1>5, CutPuts, BareFiles
<1>6. CASE RxDelete
  BY <1>1, <1>3, <1>6, DeletePuts, BareFiles
<1>7. CASE RxPutUnlocks
  <2>1. CASE flash' = flash
    BY <1>2, <2>1
  <2>2. CASE flash' # flash
    <3> DEFINE h == [Offer EXCEPT !.id = Local.hdr.id]
               f == Stored(h, Local.frames)
    <3>1. Offer \in Anim /\ Offer.name \in Name /\ Valid(Local) /\ h.name = Offer.name
      BY <1>1, <1>7, OfferedFacts DEF RxPutUnlocks, Saved, Anim
    <3>2. flash' = PutFile(Offer.name, f)
      BY <1>7, <2>2, <3>1 DEF RxPutUnlocks
    <3>3. Puts(Offer.name, f)
      BY <1>1, <3>1, <3>2, PutFilePuts DEF TypeOK
    <3>4. f.frames = FramesOf(Offer.name)
      BY <1>1, <3>1 DEF Intact, Live, Stored, Local
    <3> QED
      BY <1>1, <3>1, <3>3, <3>4, PutsIntact
  <2> QED
    BY <2>1, <2>2
<1>8. CASE RxPutNew
  BY <1>1, <1>2, <1>3, <1>8, NewPuts
<1>9. CASE RxLastFrame
  <2>1. Reads
    BY <1>9 DEF Reads, Receive
  <2>2. CASE link.discard
    BY <1>2, <1>9, <2>2 DEF RxLastFrame, FrameStored
  <2>3. CASE ~link.discard
    <3>1. link.state = "FILE_RX"
      BY <1>1, <1>9, <2>3 DEF RxLastFrame, FrameArrives, LinkConsistent
    <3>2. /\ link.header.name \in Name
          /\ Puts(link.header.name, flash'.files[link.header.name])
      BY <1>9, <2>1, <3>1, FrameLands
    <3>3. Whole(flash'.files[link.header.name])
            => flash'.files[link.header.name].frames = FramesOf(link.header.name)
      BY <1>9, <2>1, <3>1, LastFrameLands
    <3> QED
      BY <1>1, <3>2, <3>3, PutsIntact DEF Valid
  <2> QED
    BY <2>2, <2>3
<1>10. CASE (RxFrame \/ RxFrameUnwritten) /\ ~RxLastFrame
  <2>1. CASE link.fd \in Name /\ Lengthens
    BY <1>3, <1>10, <2>1 DEF Lengthens
  <2> QED
    BY <1>1, <1>2, <1>10, <2>1, FramePuts
<1>11. CASE TimeoutReceiving
  BY <1>1, <1>2, <1>3, <1>11, TimeoutPuts, BareFiles
<1> QED
  BY <1>1, <1>2, <1>4, <1>5, <1>6, <1>7, <1>8, <1>9, <1>10, <1>11, OtherSteps

(* A receive goes on in order.                                             *)
LEMMA InOrderStep ==
  ASSUME NEW CONSTANT peer, NEW CONSTANT other, Trading(peer, other), TradeStep
  PROVE TakesInOrder'
<1>1. /\ Step /\ Half(peer) /\ OneOnAir(peer) /\ IInv /\ TypeOK /\ LinkConsistent /\ InFlightFile
      /\ TakesInOrder /\ StoreInv /\ link \in Link
  BY TradeIsStep DEF Trading, Half, IInv, TypeOK
<1>2. SUFFICES ASSUME link'.state = "FILE_RX" PROVE TakesInOrder'
  BY DEF TakesInOrder
<1>3. Stays \/ Starts
  BY <1>1, <1>2, StateSteps DEF Finishes
<1>4. CASE Starts
  <2>1. RxPutUnlocks \/ RxPutNew \/ RxPutDiscarded
    BY <1>1, <1>2, <1>4, StartsReceive DEF Receives
  <2>2. link \in Link /\ Msg \in Message /\ Buffered(link, Msg) \in Link
    BY <1>1, <2>1, OfferedFacts, BufferedKeeps DEF RxPutUnlocks, RxPutNew, RxPutDiscarded
  <2>3. ASSUME NEW h, NEW fd, Receiving(h, fd) PROVE link'.part = 0
    <3> DEFINE b == Buffered(link, Msg)
    <3>1. link' = [b EXCEPT !.state = IF fd = NoName THEN "FILE_RX_DONE" ELSE "FILE_RX",
                     !.discard = fd = NoName, !.fd = fd, !.peer = Msg.from, !.part = 0,
                     !.header = h]
      BY <2>3 DEF Receiving
    <3> HIDE DEF b
    <3> QED
      BY <2>2, <3>1 DEF Link, b
  <2>4. ASSUME NEW h, Declining(h) PROVE FALSE
    BY <1>2, <1>1, <2>2, <2>4, ReceivingFacts
  <2>5. link'.part = 0
    BY <2>1, <2>3, <2>4 DEF RxPutUnlocks, RxPutNew, RxPutDiscarded
  <2> QED
    BY <2>5 DEF TakesInOrder
<1>5. CASE Stays
  <2>1. link.state = "FILE_RX" /\ link'.header = link.header /\ Running
    BY <1>1, <1>2, <1>5 DEF Stays, LinkConsistent, NewLink
  <2>2. CASE flash' = flash /\ link'.part = link.part
    BY <1>1, <2>1, <2>2 DEF TakesInOrder
  <2>3. CASE Reads
    <3> DEFINE b == Buffered(link, Msg)
    <3>1. Trades /\ inq # << >> /\ Msg \in Message
      BY <1>1, <2>3, TradeReads
    <3>2. b \in Link /\ b.part = link.part
      BY <1>1, <2>3, BufferedTraded
    <3>3. RxIgnored \/ RxLost \/ RxGarbledPayload \/ RxFrame \/ RxLastFrame \/ RxFrameUnwritten
      BY <2>1, <3>1 DEF Trades, RxGetFile, RxPutRefused, RxPutUnreadable, RxPutDiscarded,
                        RxPutUnlocks, RxPutNew, Offered, RxAck, RxAckLast, RxNackResends,
                        RxNackGivesUp, Sending
    <3>4. CASE RxIgnored \/ RxLost \/ RxGarbledPayload
      <4>1. flash' = flash /\ (link' = b \/ link' = link \/ link' = [link EXCEPT !.payload = Junk])
        BY <3>4 DEF RxIgnored, RxLost, RxGarbledPayload
      <4> QED
        BY <1>1, <2>2, <3>2, <4>1 DEF Link
    <3>5. CASE RxLastFrame
      <4>1. link' = ToIdle([b EXCEPT !.part = @ + 1, !.fd = NoName])
        BY <3>5 DEF RxLastFrame
      <4> HIDE DEF b
      <4> QED
        BY <1>2, <3>2, <4>1 DEF ToIdle, Link
    <3>6. CASE RxFrame
      <4>1. link' = [b EXCEPT !.part = @ + 1]
        BY <3>6 DEF RxFrame
      <4> HIDE DEF b
      <4>2. link'.part = link.part + 1
        BY <3>2, <4>1 DEF Link
      <4> QED
        BY <2>1, <2>3, <3>6, <4>2, FrameLands DEF TakesInOrder
    <3>7. CASE RxFrameUnwritten
      <4>1. link' = b /\ (flash' = flash \/ flash' = AppendFrame(Torn))
        BY <3>7 DEF RxFrameUnwritten
      <4>2. CASE flash' = AppendFrame(Torn)
        <5> DEFINE n == link.header.name
                   old == flash.files[n]
                   new == flash'.files[n]
        <5>1. n \in Name /\ link.fd = n
          BY <1>1, <2>1 DEF LinkConsistent
        <5>2. Puts(n, [old EXCEPT !.frames = Append(old.frames, Torn)])
          BY <1>1, <4>2, <5>1, AppendPuts
        <5>3. new = [old EXCEPT !.frames = Append(old.frames, Torn)] /\ old \in File
          BY <1>1, <5>1, <5>2, PutsFacts DEF TypeOK, Flash
        <5>4. old.frames \in Seq(Frame)
          BY <5>3, HeaderType
        <5> DEFINE s == old.frames
        <5> HIDE DEF old, new
        <5>5. new.frames = Append(s, Torn)
          BY <5>3 DEF File
        <5>6. s \in Seq(Frame) /\ Torn \in Frame
          BY <5>4, ValueTypes
        <5> HIDE DEF s
        <5>7. /\ Len(s) \in Nat /\ Len(Append(s, Torn)) = Len(s) + 1
              /\ Append(s, Torn)[Len(s) + 1] = Torn
          BY <5>6, AppendProperties, LenProperties
        <5>8. ~Whole(new)
          BY <5>5, <5>7 DEF Whole
        <5> QED
          BY <2>1, <5>8 DEF TakesInOrder, new
      <4> QED
        BY <2>2, <3>2, <4>1, <4>2
    <3> QED
      BY <3>3, <3>4, <3>5, <3>6, <3>7
  <2>4. CASE Boot
    BY <1>1, <2>1, <2>4, BootIsEarly
  <2>5. CASE PowerCut
    BY <1>2, <2>5 DEF PowerCut, NewLink
  <2>6. CASE Start \/ TimeOut
    <3>1. TimeOut
      BY <2>1, <2>6 DEF Start, StartSend, StartSendDeclined, StartGet, TimeOut
    <3> QED
      BY <1>1, <1>2, <2>1, <3>1 DEF TimeOut, TimeoutSending, TimeoutReceiving, EndSend, ToIdle, Link
  <2>7. CASE Export \/ Import
    BY <2>2, <2>7 DEF Export, Import, Press
  <2> QED
    BY <2>3, <2>4, <2>5, <2>6, <2>7 DEF TradeStep
<1> QED
  BY <1>3, <1>4, <1>5

(* All of it together.                                                     *)
LEMMA HalfStep ==
  ASSUME NEW CONSTANT peer, NEW CONSTANT other, Trading(peer, other), TradeStep
  PROVE Half(peer)'
<1>1. /\ Step /\ Half(peer) /\ OneOnAir(peer) /\ IInv /\ TypeOK /\ LinkConsistent /\ InFlightFile
      /\ StoreInv /\ AirInv
  BY TradeIsStep DEF Trading, Half, IInv, StoreInv
<1>2. IInv'
  BY <1>1, TypeStep, LinkStep, FlightStep DEF IInv
<1>3. FilesSound' /\ StoreInv'
  BY <1>1, AirStep, SoundStep, PostStep, DiscardStep DEF StoreInv
<1>4. LedFits' /\ LinkKept(peer)' /\ SendsStored' /\ Intact' /\ TakesInOrder'
  BY <1>1, <1>3, LedStep, LinkKeptStep, SendsStoredStep, IntactStep, InOrderStep
<1> QED
  BY <1>2, <1>3, <1>4 DEF Half, LinkKept

-----------------------------------------------------------------------------
(* What is under way, and what both badges make of it.                     *)

(* When nothing is under way there is nothing to agree on.                 *)
LEMMA QuietAgrees == ASSUME NEW l, NEW other PROVE Agree(l, other, << >>, << >>)
BY DEF Agree, InStep, Carries

(* Of a message of this badge there are three things to show.              *)
LEMMA SaidAgrees ==
  ASSUME NEW l, NEW other, NEW m,
         l.state = "FILE_TX" /\ m.op = "PUTFILE" => l.part = 0 /\ m.body = l.header,
         other.state = "FILE_RX" /\ m.op = "APPFILE" =>
           /\ m.body = FramesOf(other.header.name)[other.part + 1]
           /\ l.state = "FILE_TX" => Sends(l, other),
         other.state = "FILE_TX" /\ l.state = "FILE_RX" =>
           /\ m.op = "ACK" => other.part = l.part /\ other.header.name = l.header.name
           /\ m.op = "NACK" => other.part = 0 \/ Sends(other, l)
  PROVE Agree(l, other, << >>, <<m>>)
<1>1. Head(<<m>>) = m /\ <<m>> # << >>
  OBVIOUS
<1> QED
  BY <1>1 DEF Agree, InStep, Carries

(* What a badge of a trade says.                                           *)
LEMMA SaysTraded ==
  ASSUME NEW op, NEW body,
         \/ op \in {"ACK", "NACK", "GETFILE"} /\ body = NoBody
         \/ op = "PUTFILE" /\ body \in Anim /\ body.name \in Name /\ body.len = AnimLen[body.name]
         \/ op = "APPFILE" /\ body \in Frame /\ body # Torn
  PROVE [op |-> op, from |-> Self, body |-> body] \in Traded
BY StationAssumption DEF Traded, Message, Bare

(* What there is between the badges after this one read.                   *)
StillAgree(peer, other) == OneOnAir(peer)' /\ Agree(link', other, inq', outq')

(* Nothing is answered.                                                    *)
LEMMA AgreeQuietly ==
  ASSUME NEW CONSTANT peer, NEW CONSTANT other, inq' = << >>, outq' = << >>
  PROVE StillAgree(peer, other)
BY QuietAgrees DEF StillAgree, OneOnAir

(* One message is, and is all there is.                                    *)
LEMMA AgreeAnswered ==
  ASSUME NEW CONSTANT peer, NEW CONSTANT other, inq' = << >>, NEW m \in Traded,
         outq' = <<m>>, m.from = Self, Agree(link', other, << >>, <<m>>)
  PROVE StillAgree(peer, other)
BY DEF StillAgree, OneOnAir

(* An offer or a frame that arrives.                                       *)
LEMMA ReceiverAgrees ==
  ASSUME NEW CONSTANT peer, NEW CONSTANT other, Trading(peer, other), Reads,
         \/ RxPutUnreadable \/ RxPutDiscarded \/ RxPutUnlocks \/ RxPutNew
         \/ RxFrame \/ RxLastFrame
  PROVE StillAgree(peer, other)
<1> DEFINE b == Buffered(link, Msg)
<1>1. /\ Half(peer) /\ OneOnAir(peer) /\ TypeOK /\ link \in Link /\ AirInv
      /\ Agree(link, other, inq, outq)
  BY DEF Trading, Half, IInv, TypeOK, StoreInv
<1>2. /\ inq' = << >> /\ inq # << >> /\ Msg \in Message
      /\ \A op, body : Say(op, body) => outq' = <<[op |-> op, from |-> Self, body |-> body]>>
      /\ b \in Link /\ b.state = link.state /\ b.part = link.part /\ b.header = link.header
  BY <1>1, TradeReads, BufferedTraded
<1> HIDE DEF b
<1>3. ASSUME NEW op \in {"ACK", "NACK"}, Reply(op),
             op = "ACK" /\ link'.state = "FILE_RX" /\ other.state = "FILE_TX"
               => other.part = link'.part /\ other.header.name = link'.header.name,
             op = "NACK" => link'.state = "IDLE",
             link'.state # "FILE_TX"
      PROVE StillAgree(peer, other)
  <2> DEFINE m == [op |-> op, from |-> Self, body |-> NoBody]
  <2>1. outq' = <<m>> /\ m \in Traded /\ m.from = Self /\ m.op = op
    BY <1>2, <1>3, SaysTraded DEF Reply
  <2> HIDE DEF m
  <2>2. Agree(link', other, << >>, <<m>>)
    BY <1>3, <2>1, SaidAgrees
  <2> QED
    BY <1>2, <2>1, <2>2, AgreeAnswered
<1>4. CASE RxPutUnreadable \/ RxPutDiscarded \/ RxPutUnlocks \/ RxPutNew
  <2>1. Offered /\ Msg.op = "PUTFILE"
    BY <1>4 DEF RxPutUnreadable, RxPutDiscarded, RxPutUnlocks, RxPutNew, Offered, Arrives
  <2>2. /\ other.state = "FILE_TX" => other.part = 0 /\ other.header.name = Offer.name
        /\ Offer \in Anim
    BY <1>1, <1>2, <2>1, OfferLength, OfferedFacts DEF Agree, InStep, Carries, Msg
  <2>3. ASSUME NEW h, NEW fd, Receiving(h, fd), h.name = Offer.name PROVE StillAgree(peer, other)
    <3>1. link' = [b EXCEPT !.state = IF fd = NoName THEN "FILE_RX_DONE" ELSE "FILE_RX",
                     !.discard = fd = NoName, !.fd = fd, !.peer = Msg.from, !.part = 0,
                     !.header = h]
      BY <2>3 DEF Receiving, b
    <3>2. link'.part = 0 /\ link'.header = h /\ link'.state # "FILE_TX"
      BY <1>2, <3>1 DEF Link
    <3> QED
      BY <1>3, <2>2, <2>3, <3>2 DEF Receiving
  <2>4. ASSUME NEW h, Declining(h) PROVE StillAgree(peer, other)
    BY <1>1, <1>2, <1>3, <2>4, ReceivingFacts DEF Declining
  <2>5. CASE RxPutUnreadable
    BY <2>4, <2>5 DEF RxPutUnreadable
  <2>6. CASE RxPutDiscarded
    <3> DEFINE h == [Offer EXCEPT !.id = Local.hdr.id, !.unlocked = Local.hdr.unlocked]
    <3>1. h.name = Offer.name /\ Receiving(h, NoName)
      BY <2>2, <2>6 DEF RxPutDiscarded, Anim
    <3> QED
      BY <2>3, <3>1
  <2>7. CASE RxPutUnlocks
    <3> DEFINE h == [Offer EXCEPT !.id = Local.hdr.id]
    <3>1. h.name = Offer.name /\ (Receiving(h, NoName) \/ Declining(h))
      BY <2>2, <2>7 DEF RxPutUnlocks, Anim
    <3> QED
      BY <2>3, <2>4, <3>1
  <2>8. CASE RxPutNew
    <3> DEFINE h == [Offer EXCEPT !.id = index.nextId]
    <3>1. h.name = Offer.name /\ (Receiving(h, h.name) \/ Declining(h))
      BY <2>2, <2>8 DEF RxPutNew, Anim
    <3> QED
      BY <2>3, <2>4, <3>1
  <2> QED
    BY <1>4, <2>5, <2>6, <2>7, <2>8
<1>5. CASE RxFrame
  <2>1. /\ Reply("ACK") /\ Msg.op = "APPFILE" /\ link' = [b EXCEPT !.part = @ + 1]
        /\ link.state \in {"FILE_RX", "FILE_RX_DONE"}
    BY <1>5 DEF RxFrame, FrameStored, FrameArrives, Arrives, b
  <2>2. link'.part = link.part + 1 /\ link'.header = link.header /\ link'.state = link.state
    BY <1>2, <2>1 DEF Link
  <2>3. other.state = "FILE_TX" /\ link.state = "FILE_RX" => Sends(other, link)
    BY <1>1, <1>2, <2>1 DEF Agree, InStep, Carries, Msg
  <2> QED
    BY <1>3, <2>1, <2>2, <2>3 DEF Sends
<1>6. CASE RxLastFrame
  <2>1. Reply("ACK") /\ link' = ToIdle([b EXCEPT !.part = @ + 1, !.fd = NoName])
    BY <1>6 DEF RxLastFrame, FrameStored, b
  <2>2. link'.state = "IDLE"
    BY <1>2, <2>1 DEF ToIdle, Link
  <2> QED
    BY <1>3, <2>1, <2>2
<1> QED
  BY <1>4, <1>5, <1>6

(* An answer that arrives at a sender, or anything garbled.                *)
LEMMA SenderAgrees ==
  ASSUME NEW CONSTANT peer, NEW CONSTANT other, Trading(peer, other), Reads,
         RxAck \/ RxNackResends \/ RxGarbledPayload
  PROVE StillAgree(peer, other)
<1>1. /\ Half(peer) /\ OneOnAir(peer) /\ TypeOK /\ link \in Link /\ Agree(link, other, inq, outq)
      /\ link.payload # Torn /\ TransferFits(link) /\ link.header \in Anim /\ link.payload \in Frame
      /\ link.part \in Nat
  BY DEF Trading, Half, IInv, TypeOK, Link
<1>2. /\ inq' = << >> /\ outq = << >> /\ inq # << >> /\ Msg \in Traded
      /\ outq' = << >> \/ \E op, body : Say(op, body)
      /\ \A op, body : Say(op, body) => outq' = <<[op |-> op, from |-> Self, body |-> body]>>
  BY <1>1, TradeReads
<1>3. ASSUME NEW op, NEW body, Say(op, body),
             [op |-> op, from |-> Self, body |-> body] \in Traded,
             Agree(link', other, << >>, <<[op |-> op, from |-> Self, body |-> body]>>)
      PROVE StillAgree(peer, other)
  <2> DEFINE m == [op |-> op, from |-> Self, body |-> body]
  <2>1. outq' = <<m>> /\ m.from = Self
    BY <1>2, <1>3
  <2>2. m \in Traded /\ Agree(link', other, << >>, <<m>>)
    BY <1>3
  <2> HIDE DEF m
  <2> QED
    BY <1>2, <2>1, <2>2, AgreeAnswered
<1>4. CASE RxAck
  <2>1. Msg.op = "ACK" /\ link.state = "FILE_TX"
    BY <1>4 DEF RxAck, Sending, Arrives
  <2>2. CASE outq' = outq
    BY <1>2, <2>2, AgreeQuietly
  <2>3. CASE outq' # outq
    <3> DEFINE f == Frames[link.part + 1]
               m == [op |-> "APPFILE", from |-> Self, body |-> f]
    <3>1. /\ link.part < Len(Frames) /\ Say("APPFILE", f)
          /\ link' = [Acked EXCEPT !.payload = f, !.part = @ + 1]
      BY <1>4, <2>3 DEF RxAck
    <3>2. link'.part = link.part + 1 /\ link'.header = link.header /\ link'.payload = f
      BY <1>1, <3>1 DEF Acked, Link
    <3>3. /\ link.header.name \in Name /\ Frames = FramesOf(link.header.name)
          /\ Len(Frames) \in Nat /\ Frames \in Seq(Frame)
          /\ \A k \in 1..Len(Frames) : Frames[k] # Torn
      BY <1>1, <2>1, SentFrames, FramesType, LenProperties
    <3>4. f \in Frame /\ f # Torn
      <4>1. link.part + 1 \in 1..Len(Frames)
        BY <1>1, <3>1, <3>3
      <4> DEFINE s == Frames
      <4> HIDE DEF s
      <4>2. s \in Seq(Frame) /\ link.part + 1 \in 1..Len(s) => s[link.part + 1] \in Frame
        BY ElementOfSeq
      <4> QED
        BY <3>3, <4>1, <4>2 DEF s
    <3>5. m \in Traded
      BY <3>4, SaysTraded
    <3>6. other.state = "FILE_RX" =>
            link.part = other.part /\ link.header.name = other.header.name
      BY <1>1, <1>2, <2>1 DEF Agree, InStep, Carries, Msg
    <3>7. m.op = "APPFILE" /\ m.body = f
      OBVIOUS
    <3>8. f = FramesOf(link.header.name)[link.part + 1]
      BY <3>3
    <3> HIDE DEF f, m
    <3>9. Agree(link', other, << >>, <<m>>)
      BY <3>2, <3>6, <3>7, <3>8, SaidAgrees DEF Sends
    <3> QED
      BY <1>3, <3>1, <3>5, <3>9 DEF m
  <2> QED
    BY <2>2, <2>3
<1>5. CASE RxNackResends
  <2>1. Msg.op = "NACK" /\ link.state = "FILE_TX" /\ link' = [link EXCEPT !.resends = @ + 1]
    BY <1>5 DEF RxNackResends, Sending, Arrives
  <2>2. /\ link'.state = link.state /\ link'.part = link.part /\ link'.header = link.header
        /\ link'.payload = link.payload
    BY <1>1, <2>1 DEF Link
  <2>3. CASE link.part = 0
    <3> DEFINE m == [op |-> "PUTFILE", from |-> Self, body |-> link.header]
    <3>1. Say("PUTFILE", link.header) /\ m \in Traded
      BY <1>1, <1>5, <2>1, <2>3, SaysTraded DEF RxNackResends, TransferFits
    <3>2. m.op = "PUTFILE" /\ m.body = link.header
      OBVIOUS
    <3> HIDE DEF m
    <3>3. Agree(link', other, << >>, <<m>>)
      BY <2>2, <2>3, <3>2, SaidAgrees
    <3> QED
      BY <1>3, <3>1, <3>3 DEF m
  <2>4. CASE link.part # 0
    <3> DEFINE m == [op |-> "APPFILE", from |-> Self, body |-> link.payload]
    <3>1. Say("APPFILE", link.payload) /\ m \in Traded
      BY <1>1, <1>5, <2>4, SaysTraded DEF RxNackResends
    <3>2. other.state = "FILE_RX" => Sends(link, other)
      BY <1>1, <1>2, <2>1, <2>4 DEF Agree, InStep, Carries, Msg
    <3>3. m.op = "APPFILE" /\ m.body = link.payload
      OBVIOUS
    <3> HIDE DEF m
    <3>4. Agree(link', other, << >>, <<m>>)
      BY <2>2, <3>2, <3>3, SaidAgrees DEF Sends
    <3> QED
      BY <1>3, <3>1, <3>4 DEF m
  <2> QED
    BY <2>3, <2>4
<1>6. CASE RxGarbledPayload
  <2> DEFINE m == [op |-> "NACK", from |-> Self, body |-> NoBody]
  <2>1. Reply("NACK") /\ link' = [link EXCEPT !.payload = Junk] /\ HasPayload(Msg)
    BY <1>6 DEF RxGarbledPayload
  <2>2. link'.state = link.state /\ link'.part = link.part /\ link'.header = link.header
    BY <1>1, <2>1 DEF Link
  <2>3. Msg.op \in {"PUTFILE", "APPFILE"}
    BY <1>2, <2>1 DEF HasPayload, Traded
  <2>4. other.state = "FILE_TX" /\ link.state = "FILE_RX" => other.part = 0 \/ Sends(other, link)
    BY <1>1, <1>2, <2>3 DEF Agree, InStep, Carries, Msg
  <2>5. m \in Traded /\ m.op = "NACK"
    BY SaysTraded
  <2>6. Say("NACK", NoBody)
    BY <2>1 DEF Reply
  <2> HIDE DEF m
  <2>7. Agree(link', other, << >>, <<m>>)
    BY <2>2, <2>4, <2>5, SaidAgrees DEF Sends
  <2> QED
    BY <1>3, <2>5, <2>6, <2>7 DEF m
<1> QED
  BY <1>4, <1>5, <1>6

(* The start of a transfer.                                                *)
LEMMA StartAgrees ==
  ASSUME NEW CONSTANT peer, NEW CONSTANT other, Trading(peer, other), Quiet,
         StartSend \/ StartGet
  PROVE StillAgree(peer, other)
<1>1. /\ TypeOK /\ link \in Link /\ LedFits /\ led.ambient \in Anim /\ LinkConsistent
  BY DEF Trading, Half, IInv, TypeOK, Led
<1>2. /\ inq' = << >>
      /\ \A op, body : Say(op, body) => outq' = <<[op |-> op, from |-> Self, body |-> body]>>
  BY DEF Quiet, StartSend, StartGet, Say
<1>3. CASE StartSend
  <2> DEFINE h == [led.ambient EXCEPT !.id = 0]
             m == [op |-> "PUTFILE", from |-> Self, body |-> h]
  <2>1. /\ link' = [link EXCEPT !.state = "FILE_TX", !.header = h, !.part = 0, !.resends = 0]
        /\ led.ambient.name \in Name /\ Say("PUTFILE", h)
    BY <1>3 DEF StartSend
  <2>2. h \in Anim /\ h.name = led.ambient.name /\ h.len = led.ambient.len
    BY <1>1, BoundAssumption DEF Anim
  <2>3. outq' = <<m>> /\ m.op = "PUTFILE" /\ m.from = Self /\ m.body = h
    BY <1>2, <2>1
  <2> HIDE DEF h
  <2>4. m \in Traded
    BY <1>1, <2>1, <2>2, SaysTraded DEF LedFits, Fits
  <2>5. link'.part = 0 /\ link'.header = h
    BY <1>1, <2>1 DEF Link
  <2> HIDE DEF m
  <2>6. Agree(link', other, << >>, <<m>>)
    BY <2>3, <2>5, SaidAgrees
  <2> QED
    BY <1>2, <2>3, <2>4, <2>6, AgreeAnswered
<1>4. CASE StartGet
  <2> DEFINE m == [op |-> "GETFILE", from |-> Self, body |-> NoBody]
  <2>1. outq' = <<m>> /\ m.op = "GETFILE" /\ m.from = Self /\ m \in Traded
    BY <1>2, <1>4, SaysTraded DEF StartGet, Reply
  <2> HIDE DEF m
  <2>2. Agree(link', other, << >>, <<m>>)
    BY <2>1, SaidAgrees
  <2> QED
    BY <1>2, <2>1, <2>2, AgreeAnswered
<1> QED
  BY <1>3, <1>4

(* Every step of a trade leaves the badges agreed.                         *)
LEMMA AgreeStep ==
  ASSUME NEW CONSTANT peer, NEW CONSTANT other, Trading(peer, other), TradeStep
  PROVE StillAgree(peer, other)
<1>1. /\ Half(peer) /\ OneOnAir(peer) /\ TypeOK /\ LinkConsistent /\ Agree(link, other, inq, outq)
  BY DEF Trading, Half, IInv
<1>2. CASE UNCHANGED <<link, inq, outq>>
  BY <1>1, <1>2 DEF StillAgree, OneOnAir
<1>3. CASE Boot
  <2>1. UNCHANGED <<link, inq, outq>>
    BY <1>3 DEF Boot, StorageInit, StorageInitFails, StorageInitFormats, Mounted,
                LedInitKeeps, LedInitSaves, LedInitShows
  <2> QED
    BY <1>2, <2>1
<1>4. CASE Export \/ Import
  BY <1>2, <1>4 DEF Export, Import, Press
<1>5. CASE PowerCut
  <2>1. link'.state = "IDLE" /\ inq' = << >> /\ outq' = outq
    BY <1>5 DEF PowerCut, NewLink
  <2>2. OneOnAir(peer)'
    BY <1>1, <2>1 DEF OneOnAir
  <2>3. Agree(link', other, inq', outq')
    BY <1>1, <2>1 DEF Agree, InStep, Carries
  <2> QED
    BY <2>2, <2>3 DEF StillAgree
<1>6. CASE Quiet /\ (StartSendDeclined \/ TimeOut)
  BY <1>6, AgreeQuietly
  DEF Quiet, StartSendDeclined, TimeOut, TimeoutSending, TimeoutReceiving
<1>7. CASE Quiet /\ (StartSend \/ StartGet)
  BY <1>7, StartAgrees
<1>8. CASE Reads
  <2>1. Trades /\ inq' = << >> /\ outq = << >>
    BY <1>1, <1>8, TradeReads
  <2>2. CASE outq' = outq
    BY <2>1, <2>2, AgreeQuietly
  <2>3. CASE outq' # outq
    <3>1. \/ RxPutUnreadable \/ RxPutDiscarded \/ RxPutUnlocks \/ RxPutNew \/ RxFrame \/ RxLastFrame
          \/ RxAck \/ RxNackResends \/ RxGarbledPayload
      BY <2>1, <2>3 DEF Trades, RxIgnored, RxGetFile, RxLost, RxPutRefused, RxFrameUnwritten,
                        RxAckLast, RxNackGivesUp
    <3> QED
      BY <1>8, <3>1, ReceiverAgrees, SenderAgrees
  <2> QED
    BY <2>2, <2>3
<1> QED
  BY <1>3, <1>4, <1>5, <1>6, <1>7, <1>8 DEF TradeStep, Start

-----------------------------------------------------------------------------
(* What was acknowledged.                                                  *)

(* Both badges keep what their answers promised; theirs are the files of   *)
(* the other one.                                                          *)
Pledges(l, other, fs, theirs, in, out) ==
  Promise(l, other, theirs, out, in) /\ Promise(other, l, fs, in, out)
StillPledged(other, theirs) == Pledges(link', other, flash'.files, theirs, inq', outq')

(* Where readings work and nothing gets formatted, an animation survives   *)
(* power cuts and boots.                                                   *)
LEMMA OwnsKept ==
  ASSUME NEW CONSTANT peer, Half(peer), ReadsWork, NeverFormats, Boot \/ PowerCut,
         NEW h, h.name \in Name, Owns(flash.files, h)
  PROVE Owns(flash'.files, h)
<1>1. TypeOK /\ StoreInv
  BY DEF Half, IInv
<1>2. CASE flash'.files = flash.files
  BY <1>2 DEF Owns
<1>3. ASSUME NEW n \in Name, ~Valid(flash.files[n]), NEW f, Puts(n, f)
      PROVE Owns(flash'.files, h)
  <2>1. n # h.name
    BY <1>3 DEF Owns
  <2> QED
    BY <1>1, <1>3, <2>1, PutsFacts DEF Owns
<1>4. CASE Boot
  <2>1. ~StorageInitFormats
    BY DEF StorageInitFormats, NeverFormats
  <2>2. CASE LedInitSaves
    BY <1>1, <1>3, <2>2, SeedPuts
  <2> QED
    BY <1>1, <1>2, <1>4, <2>1, <2>2, BootFiles
<1>5. CASE PowerCut
  BY <1>1, <1>2, <1>3, <1>5, CutPuts
<1> QED
  BY <1>4, <1>5

(* An offer that is taken.                                                 *)
LEMMA OfferPledged ==
  ASSUME NEW CONSTANT peer, NEW CONSTANT other, Trading(peer, other), Reads,
         other.state = "FILE_TX",
         RxPutUnreadable \/ RxPutDiscarded \/ RxPutUnlocks \/ RxPutNew
  PROVE Promise(other, link', flash'.files, inq', outq')
<1>1. /\ Half(peer) /\ OneOnAir(peer) /\ TypeOK /\ link \in Link /\ AirInv /\ FilesSound
      /\ Agree(link, other, inq, outq) /\ TransferFits(other) /\ other \in Link
  BY DEF Trading, Half, IInv, TypeOK, StoreInv
<1>2. /\ inq' = << >> /\ inq # << >> /\ Msg \in Message
      /\ \A op, body : Say(op, body) => Head(outq').op = op
  BY <1>1, TradeReads
<1>3. Offered /\ Msg.op = "PUTFILE"
  BY DEF RxPutUnreadable, RxPutDiscarded, RxPutUnlocks, RxPutNew, Offered, Arrives
<1>4. /\ other.part = 0 /\ other.header = Msg.body
      /\ Offer \in Anim /\ Offer.name \in Name /\ Offer.name = other.header.name
      /\ Offer.unlocked = other.header.unlocked
  <2>1. other.part = 0 /\ other.header = Msg.body
    BY <1>1, <1>2, <1>3 DEF Agree, InStep, Carries, Msg
  <2>2. Offer \in Anim /\ Offer.name \in Name /\ Msg.body \in Anim
    BY <1>1, <1>2, <1>3, OfferedFacts, MessageParts
  <2>3. Offer.name = Msg.body.name /\ Offer.unlocked = Msg.body.unlocked
    BY <2>2 DEF Offer, Anim
  <2> QED
    BY <2>1, <2>2, <2>3
<1>5. other.part # other.header.len
  BY <1>1, <1>4, BoundAssumption DEF TransferFits
<1>6. ~Carries(inq', "APPFILE")
  BY <1>2 DEF Carries
<1>7. ASSUME NEW h, Declining(h) PROVE Promise(other, link', flash'.files, inq', outq')
  <2>1. link'.state = "IDLE"
    BY <1>1, <1>2, <1>7, ReceivingFacts
  <2> QED
    BY <1>5, <2>1 DEF Promise, Taking
<1>8. ASSUME Taking(other, link', flash'.files)
      PROVE Promise(other, link', flash'.files, inq', outq')
  BY <1>5, <1>8 DEF Promise
<1>9. CASE RxPutDiscarded
  <2>1. PICK h : Receiving(h, NoName)
    BY <1>9 DEF RxPutDiscarded
  <2>2. link'.state = "FILE_RX_DONE" /\ flash' = flash
    BY <1>1, <1>2, <1>9, <2>1, ReceivingFacts DEF RxPutDiscarded
  <2>3. Owns(flash.files, other.header)
    BY <1>4, <1>9 DEF RxPutDiscarded, Saved, Local, Owns
  <2> QED
    BY <1>8, <2>2, <2>3 DEF Taking
<1>10. CASE RxPutUnlocks
  <2>1. CASE flash' = flash /\ \E h : Declining(h)
    BY <1>7, <2>1
  <2>2. CASE flash' # flash \/ ~\E h : Declining(h)
    <3> DEFINE h == [Offer EXCEPT !.id = Local.hdr.id]
    <3>1. flash' = PutFile(h.name, Stored(h, Local.frames)) /\ Receiving(h, NoName)
      BY <1>10, <2>2 DEF RxPutUnlocks
    <3>2. h.name = Offer.name /\ h.unlocked = Offer.unlocked /\ Offer.unlocked
      BY <1>4, <1>10 DEF RxPutUnlocks, Anim
    <3>3. link'.state = "FILE_RX_DONE"
      BY <1>1, <1>2, <3>1, ReceivingFacts
    <3>4. Puts(Offer.name, Stored(h, Local.frames))
      BY <1>1, <1>4, <3>1, <3>2, PutFilePuts DEF TypeOK
    <3>5. flash'.files[Offer.name] = Stored(h, Local.frames)
      BY <1>1, <1>4, <3>4, PutsFacts
    <3>6. Valid(Stored(h, Local.frames)) /\ Stored(h, Local.frames).hdr = h
      <4>1. Valid(Local) /\ Local.hdr.len = AnimLen[Offer.name]
        BY <1>1, <1>4, <1>10 DEF RxPutUnlocks, Saved, Valid, Local, FilesSound, Sound
      <4>2. h.len = AnimLen[Offer.name]
        BY <1>1, <1>3, <1>4, OfferLength DEF Anim
      <4> HIDE DEF h
      <4> QED
        BY <4>1, <4>2 DEF Valid, Whole, Stored
    <3> HIDE DEF h
    <3>7. Owns(flash'.files, other.header)
      BY <1>4, <3>2, <3>5, <3>6 DEF Owns
    <3> QED
      BY <1>8, <3>3, <3>7 DEF Taking
  <2> QED
    BY <2>1, <2>2
<1>11. CASE RxPutNew
  <2>1. CASE \E h : Declining(h)
    BY <1>7, <2>1
  <2>2. CASE ~\E h : Declining(h)
    <3> DEFINE h == [Offer EXCEPT !.id = index.nextId]
    <3>1. flash' = PutFile(h.name, Stored(h, << >>)) /\ Receiving(h, h.name)
      BY <1>11, <2>2 DEF RxPutNew
    <3>2. h.name = Offer.name /\ h.unlocked = Offer.unlocked
      BY <1>4 DEF Anim
    <3>3. link'.state = "FILE_RX" /\ link'.header = h
      BY <1>1, <1>2, <1>4, <3>1, <3>2, ReceivingFacts, NameAssumption
    <3>4. Puts(Offer.name, Stored(h, << >>))
      BY <1>1, <1>4, <3>1, <3>2, PutFilePuts DEF TypeOK
    <3>5. flash'.files[Offer.name] = Stored(h, << >>)
      BY <1>1, <1>4, <3>4, PutsFacts
    <3>6. Whole(Stored(h, << >>))
      BY DEF Whole, Stored
    <3> HIDE DEF h
    <3> QED
      BY <1>4, <1>8, <3>2, <3>3, <3>5, <3>6 DEF Taking
  <2> QED
    BY <2>1, <2>2
<1>12. CASE RxPutUnreadable
  BY <1>7, <1>12 DEF RxPutUnreadable
<1> QED
  BY <1>9, <1>10, <1>11, <1>12

(* A frame that is stored.                                                 *)
LEMMA FramePledged ==
  ASSUME NEW CONSTANT peer, NEW CONSTANT other, NEW CONSTANT theirs, Trading(peer, other), Reads,
         Pledges(link, other, flash.files, theirs, inq, outq), other.state = "FILE_TX",
         RxFrame \/ RxLastFrame
  PROVE Promise(other, link', flash'.files, inq', outq')
<1> DEFINE n == link.header.name
           old == flash.files[n]
           new == flash'.files[n]
           b == Buffered(link, Msg)
<1>1. /\ Half(peer) /\ OneOnAir(peer) /\ TypeOK /\ LinkConsistent /\ InFlightFile /\ link \in Link
      /\ AirInv /\ TransferFits(link) /\ Agree(link, other, inq, outq) /\ TransferFits(other)
      /\ link.part \in Nat /\ link.header.len \in Nat
  BY DEF Trading, Half, IInv, TypeOK, StoreInv, Link, Anim
<1>2. /\ inq' = << >> /\ inq # << >> /\ Msg \in Message
      /\ \A op, body : Say(op, body) => Head(outq').op = op
      /\ b \in Link /\ b.state = link.state /\ b.part = link.part /\ b.header = link.header
  BY <1>1, TradeReads, BufferedTraded
<1> HIDE DEF b
<1>3. /\ FrameArrives /\ FrameStored /\ Msg.op = "APPFILE"
      /\ link.state \in {"FILE_RX", "FILE_RX_DONE"} /\ Head(outq').op = "ACK"
  BY <1>2 DEF RxFrame, RxLastFrame, FrameArrives, FrameStored, Arrives, Reply
<1>4. /\ Taking(other, link, flash.files)
      /\ link.state = "FILE_RX" => Sends(other, link)
  BY <1>1, <1>2, <1>3 DEF Pledges, Promise, Agree, InStep, Carries, Msg
<1>5. ~Carries(inq', "APPFILE") /\ ~Carries(outq', "NACK")
  BY <1>2, <1>3 DEF Carries
<1>6. CASE link.state = "FILE_RX_DONE"
  <2>1. flash' = flash
    BY <1>1, <1>3, <1>6 DEF LinkConsistent, FrameStored
  <2>2. Owns(flash'.files, other.header)
    BY <1>4, <1>6, <2>1 DEF Taking
  <2>3. link'.state # "FILE_RX"
    <3>1. CASE RxFrame
      <4>1. link' = [b EXCEPT !.part = @ + 1]
        BY <3>1 DEF RxFrame, b
      <4> QED
        BY <1>2, <1>6, <4>1 DEF Link
    <3>2. CASE RxLastFrame
      <4>1. link' = ToIdle([b EXCEPT !.part = @ + 1, !.fd = NoName])
        BY <3>2 DEF RxLastFrame, b
      <4> QED
        BY <1>2, <4>1 DEF Link, ToIdle
    <3> QED
      BY <3>1, <3>2
  <2> QED
    BY <2>2, <2>3 DEF Promise, Taking
<1>7. CASE link.state = "FILE_RX"
  <2>1. /\ n \in Name /\ link.fd = n /\ ~link.discard /\ new.hdr = link.header /\ new \in File
        /\ Whole(new) => Len(new.frames) = link.part + 1
        /\ link.header.len = AnimLen[n]
    BY <1>7, FrameLands
  <2>2. /\ Whole(old) /\ (other.header.unlocked => link.header.unlocked)
        /\ other.header.name = n /\ other.part = link.part + 1
        /\ other.header.len = link.header.len
    BY <1>1, <1>4, <1>7, <2>1 DEF Taking, Sends, TransferFits
  <2>3. Whole(new) /\ new.kind = "data"
    <3>1. flash' = AppendFrame(Msg.body) /\ Msg.body \in Frame /\ Msg.body # Torn
      BY <1>1, <1>2, <1>3, <2>1, FrameWhole, MessageParts DEF FrameStored
    <3>2. Puts(n, [old EXCEPT !.frames = Append(old.frames, Msg.body)])
      BY <1>1, <2>1, <3>1, AppendPuts
    <3>3. /\ new = [old EXCEPT !.frames = Append(old.frames, Msg.body)] /\ old \in File
          /\ old.frames \in Seq(Frame) /\ old.kind = "data"
      <4>1. old \in File /\ old.kind = "data"
        BY <1>1, <1>7, <2>1 DEF TypeOK, Flash, InFlightFile
      <4> QED
        BY <1>1, <2>1, <3>2, <4>1, PutsFacts, HeaderType
    <3> DEFINE s == old.frames
               m == Msg.body
    <3> HIDE DEF old, new
    <3>4. new.frames = Append(s, m) /\ new.kind = "data"
      BY <3>3 DEF File
    <3>5. s \in Seq(Frame) /\ m \in Frame /\ m # Torn /\ \A k \in 1..Len(s) : s[k] # Torn
      BY <2>2, <3>1, <3>3 DEF Whole
    <3> HIDE DEF s, m
    <3>6. /\ Len(s) \in Nat /\ Len(Append(s, m)) = Len(s) + 1 /\ Append(s, m)[Len(s) + 1] = m
          /\ \A k \in 1..Len(s) : Append(s, m)[k] = s[k]
      BY <3>5, AppendProperties, AppendKeeps
    <3>7. \A k \in 1..Len(s) + 1 : k \in 1..Len(s) \/ k = Len(s) + 1
      BY <3>6
    <3> QED
      BY <3>4, <3>5, <3>6, <3>7 DEF Whole
  <2>4. CASE RxFrame
    <3>1. link' = [b EXCEPT !.part = @ + 1] /\ link.part + 1 < link.header.len
      BY <2>4 DEF RxFrame, b
    <3>2. link'.header = link.header /\ link'.state = "FILE_RX"
      BY <1>2, <1>7, <3>1 DEF Link
    <3>3. Taking(other, link', flash'.files)
      BY <2>2, <2>3, <3>2 DEF Taking
    <3>4. other.part # other.header.len
      BY <1>1, <2>2, <3>1
    <3> QED
      BY <3>3, <3>4 DEF Promise
  <2>5. CASE RxLastFrame
    <3>1. /\ link' = ToIdle([b EXCEPT !.part = @ + 1, !.fd = NoName])
          /\ link.part + 1 >= link.header.len
      BY <2>5 DEF RxLastFrame, b
    <3>2. link'.state = "IDLE"
      BY <1>2, <3>1 DEF Link, ToIdle
    <3>3. Len(new.frames) = link.header.len
      <4>1. link.part < link.header.len /\ Len(new.frames) = link.part + 1
        BY <1>1, <1>7, <2>1, <2>3 DEF InFlightFile
      <4> QED
        BY <1>1, <3>1, <4>1
    <3>4. Owns(flash'.files, other.header)
      BY <2>1, <2>2, <2>3, <3>3 DEF Owns, Valid
    <3> QED
      BY <3>2, <3>4 DEF Promise, Taking
  <2> QED
    BY <2>4, <2>5
<1> QED
  BY <1>3, <1>6, <1>7

(* What is sent was promised to be taken.                                  *)
LEMMA SendPledged ==
  ASSUME NEW CONSTANT peer, NEW CONSTANT other, NEW CONSTANT theirs, Trading(peer, other), Reads,
         Pledges(link, other, flash.files, theirs, inq, outq)
  PROVE Promise(link', other, theirs, outq', inq')
<1>1. /\ Half(peer) /\ OneOnAir(peer) /\ link \in Link
      /\ Promise(link, other, theirs, outq, inq)
  BY DEF Trading, Half, IInv, TypeOK, Pledges
<1>2. /\ Trades /\ inq' = << >> /\ outq = << >> /\ inq # << >> /\ Msg \in Message
      /\ outq' = << >> \/ \E op, body : Say(op, body)
      /\ \A op, body : Say(op, body) => Head(outq').op = op
  BY <1>1, TradeReads
<1>3. SUFFICES ASSUME link'.state = "FILE_TX", Carries(outq', "APPFILE")
               PROVE Taking(link', other, theirs)
  BY <1>2 DEF Promise, Carries
<1>4. RxAck \/ RxNackResends
  <2>1. Head(outq').op = "APPFILE" /\ outq' # << >>
    BY <1>3 DEF Carries
  <2>2. ~Reply("ACK") /\ ~Reply("NACK")
    BY <1>2, <2>1 DEF Reply
  <2>3. outq' # outq
    BY <1>2, <2>1
  <2> QED
    BY <1>2, <2>2, <2>3
    DEF Trades, RxIgnored, RxGetFile, RxLost, RxGarbledPayload, RxPutRefused, RxPutUnreadable,
        RxPutDiscarded, RxPutUnlocks, RxPutNew, RxFrame, RxLastFrame, RxFrameUnwritten,
        FrameStored, Receiving, Declining, RxAckLast, RxNackGivesUp
<1>5. link.state = "FILE_TX" /\ Msg.op \in {"ACK", "NACK"}
  BY <1>4 DEF RxAck, RxNackResends, Sending, Arrives
<1>6. link'.header = link.header
  <2>1. Step /\ TypeOK /\ LinkConsistent
    BY TradeIsStep DEF TradeStep, Trading, Half, IInv
  <2>2. Stays \/ Starts \/ Finishes
    BY <2>1, StateSteps
  <2> QED
    BY <1>3, <1>5, <2>2 DEF Stays, Starts, Finishes
<1>7. Taking(link, other, theirs)
  <2>1. CASE RxAck
    <3>1. Carries(inq, "ACK")
      BY <1>2, <2>1 DEF RxAck, Sending, Arrives, Carries, Msg
    <3> QED
      BY <1>1, <1>5, <3>1 DEF Promise
  <2>2. CASE RxNackResends
    <3>1. Carries(inq, "NACK")
      BY <1>2, <2>2 DEF RxNackResends, Sending, Arrives, Carries, Msg
    <3>2. link.part # 0
      <4>1. link.part = 0 => Head(outq').op = "PUTFILE"
        BY <1>2, <2>2 DEF RxNackResends
      <4> QED
        BY <1>3, <4>1 DEF Carries
    <3>3. link.part > 0
      BY <1>1, <3>2 DEF Link
    <3> QED
      BY <1>1, <1>5, <3>1, <3>3 DEF Promise
  <2> QED
    BY <1>4, <2>1, <2>2
<1> QED
  BY <1>6, <1>7 DEF Taking

(* Every step of a trade keeps the promises.                               *)
LEMMA PledgeStep ==
  ASSUME NEW CONSTANT peer, NEW CONSTANT other, NEW CONSTANT theirs,
         ReadsWork, NeverFormats, Trading(peer, other), TradeStep,
         Pledges(link, other, flash.files, theirs, inq, outq)
  PROVE StillPledged(other, theirs)
<1>1. /\ Half(peer) /\ OneOnAir(peer) /\ TypeOK /\ LinkConsistent /\ TransferFits(other)
      /\ Promise(link, other, theirs, outq, inq) /\ Promise(other, link, flash.files, inq, outq)
  BY DEF Trading, Half, IInv, Pledges
<1>2. CASE inq' = << >> /\ outq' = << >>
  BY <1>2 DEF StillPledged, Pledges, Promise, Carries
<1>3. CASE Boot \/ PowerCut
  <2>1. link'.state = "IDLE" /\ outq' = outq
    <3>1. CASE Boot
      <4>1. UNCHANGED <<link, outq>>
        BY <3>1 DEF Boot, StorageInit, StorageInitFails, StorageInitFormats, Mounted,
                    LedInitKeeps, LedInitSaves, LedInitShows
      <4> QED
        BY <1>1, <3>1, <4>1, BootIsEarly DEF LinkConsistent, NewLink
    <3>2. CASE PowerCut
      BY <3>2 DEF PowerCut, NewLink
    <3> QED
      BY <1>3, <3>1, <3>2
  <2>2. other.state = "FILE_TX" /\ Owns(flash.files, other.header) => Owns(flash'.files, other.header)
    BY <1>1, <1>3, OwnsKept DEF TransferFits
  <2>3. Promise(other, link', flash'.files, inq', outq')
    BY <1>1, <2>1, <2>2 DEF Promise, Taking
  <2>4. Promise(link', other, theirs, outq', inq')
    BY <2>1 DEF Promise
  <2> QED
    BY <2>3, <2>4 DEF StillPledged, Pledges
<1>4. CASE Export \/ Import
  <2>1. UNCHANGED <<link, flash, inq, outq>>
    BY <1>4 DEF Export, Import, Press
  <2> QED
    BY <2>1 DEF StillPledged, Pledges
<1>5. CASE Quiet /\ (StartSendDeclined \/ TimeOut)
  BY <1>2, <1>5 DEF Quiet, StartSendDeclined, TimeOut, TimeoutSending, TimeoutReceiving
<1>6. CASE Quiet /\ (StartSend \/ StartGet)
  <2>1. inq' = << >> /\ \E op \in {"PUTFILE", "GETFILE"} : \E body : Say(op, body)
    BY <1>6 DEF Quiet, StartSend, StartGet, Reply
  <2>2. outq' # << >> /\ Head(outq').op \in {"PUTFILE", "GETFILE"}
    BY <1>6, <2>1 DEF Quiet, Say
  <2> QED
    BY <2>1, <2>2 DEF StillPledged, Pledges, Promise, Carries
<1>7. CASE Reads
  <2>1. /\ Trades /\ inq' = << >> /\ outq = << >> /\ inq # << >> /\ Msg \in Traded
        /\ \A op, body : Say(op, body) => Head(outq').op = op
    BY <1>1, <1>7, TradeReads
  <2>2. Promise(link', other, theirs, outq', inq')
    BY <1>7, SendPledged
  <2>3. Promise(other, link', flash'.files, inq', outq')
    <3>1. SUFFICES ASSUME other.state = "FILE_TX", outq' # << >>
                   PROVE Promise(other, link', flash'.files, inq', outq')
      BY <2>1 DEF Promise, Carries
    <3>2. \/ RxPutUnreadable \/ RxPutDiscarded \/ RxPutUnlocks \/ RxPutNew \/ RxFrame \/ RxLastFrame
          \/ RxAck \/ RxNackResends \/ RxGarbledPayload
      BY <2>1, <3>1 DEF Trades, RxIgnored, RxGetFile, RxLost, RxPutRefused, RxFrameUnwritten,
                        RxAckLast, RxNackGivesUp
    <3>3. CASE RxAck \/ RxNackResends
      <4>1. Head(outq').op \in {"PUTFILE", "APPFILE"}
        BY <2>1, <3>1, <3>3 DEF RxAck, RxNackResends
      <4> QED
        BY <2>1, <4>1 DEF Promise, Carries
    <3>4. CASE RxGarbledPayload
      <4>1. /\ Head(outq').op = "NACK" /\ flash' = flash /\ link' = [link EXCEPT !.payload = Junk]
            /\ Msg.op \in {"PUTFILE", "APPFILE"}
        BY <2>1, <3>4 DEF RxGarbledPayload, Reply, HasPayload, Traded
      <4>2. link'.state = link.state /\ link'.header = link.header /\ link'.part = link.part
        BY <1>1, <4>1 DEF TypeOK, Link
      <4>3. other.part > 0 => Taking(other, link, flash.files)
        BY <1>1, <2>1, <3>1, <4>1 DEF Trading, Agree, InStep, Promise, Carries, Msg
      <4> QED
        BY <2>1, <4>1, <4>2, <4>3 DEF Promise, Taking, Carries
    <3> QED
      BY <1>7, <3>1, <3>2, <3>3, <3>4, OfferPledged, FramePledged
  <2> QED
    BY <2>2, <2>3 DEF StillPledged, Pledges
<1> QED
  BY <1>3, <1>4, <1>5, <1>6, <1>7 DEF TradeStep, Start

(* So the last ACK finds the animation where it was sent.                  *)
LEMMA LastAckIsTrue ==
  ASSUME NEW CONSTANT other, NEW CONSTANT theirs,
         Pledges(link, other, flash.files, theirs, inq, outq), RxAckLast
  PROVE Owns(theirs, link.header)
<1>1. link.state = "FILE_TX" /\ Carries(inq, "ACK") /\ link.part = link.header.len
  BY DEF RxAckLast, Sending, Arrives, Carries, Msg
<1> QED
  BY <1>1 DEF Pledges, Promise

-----------------------------------------------------------------------------
(* A badge that rests, and one that is off.                                *)

(* While the other badge moves, this one has what it had.                  *)
LEMMA HalfRests ==
  ASSUME NEW CONSTANT peer, Half(peer), OneOnAir(peer)', Traded \subseteq PeerMessages,
         UNCHANGED <<boot, post, link, ev, flash, index, led>>
  PROVE Half(peer)'
<1>1. /\ TypeOK /\ LinkConsistent /\ InFlightFile /\ StoreInv
  BY DEF Half, IInv
<1>2. inq' \in Seq(Message) /\ outq' \in Seq(Message) /\ inq' \in Seq(OnAir)
  <2>1. ASSUME NEW m \in Traded PROVE <<m>> \in Seq(Message) /\ <<m>> \in Seq(OnAir)
    <3>1. m \in Message /\ m \in OnAir
      BY <2>1 DEF Traded, OnAir
    <3> QED
      BY <3>1
  <2>2. << >> \in Seq(Message) /\ << >> \in Seq(OnAir)
    OBVIOUS
  <2> QED
    BY <2>1, <2>2 DEF OneOnAir
<1>3. TypeOK'
  BY <1>1, <1>2 DEF TypeOK
<1>4. LinkConsistent' /\ InFlightFile'
  BY <1>1 DEF LinkConsistent, InFlightFile, Running
<1>5. StoreInv'
  BY <1>1, <1>2 DEF StoreInv, AirInv, FilesSound, PostInv, DiscardInv
<1>6. /\ Intact' /\ LedFits' /\ TransferFits(link') /\ SendsStored' /\ TakesInOrder'
      /\ link'.peer \in {NoPeer, peer} /\ link'.payload # Torn
  BY DEF Half, Intact, LedFits, TransferFits, SendsStored, TakesInOrder, Fits
<1> QED
  BY <1>3, <1>4, <1>5, <1>6 DEF Half, IInv

(* A badge as it comes from the programmer.                                *)
LEMMA InitHalf == ASSUME NEW CONSTANT peer, Init PROVE Half(peer)
<1>1. IInv /\ StoreInv
  BY InitIInv, InitStoreInv
<1>2. Intact
  <2>1. ASSUME NEW n \in Name, Valid(flash.files[n]) PROVE flash.files[n].frames = FramesOf(n)
    <3>1. flash.files[n] = SeededFile(n)
      BY DEF Init
    <3>2. PICK h \in Seed : SeededFile(n) = Stored(h, FramesOf(n))
      BY <2>1, <3>1, SeededSound DEF Valid
    <3> QED
      BY <3>1, <3>2 DEF Stored
  <2> QED
    BY <2>1 DEF Intact, Live
<1>3. /\ link.state = "IDLE" /\ link.peer = NoPeer /\ link.payload # Torn
      /\ LedFits
  BY NameAssumption DEF Init, NewLink, NewLed, ZeroAnim, LedFits, Fits, Junk, Torn
<1> QED
  BY <1>1, <1>2, <1>3 DEF Half, TransferFits, SendsStored, TakesInOrder
=============================================================================
