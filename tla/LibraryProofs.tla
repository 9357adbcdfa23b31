---------------------------- MODULE LibraryProofs ----------------------------
(***************************************************************************)
(* Proofs about what the badge of LoneBadge holds: its animations, their   *)
(* ids, the cache that names them, the display that shows them and the     *)
(* promise of AnimLibrary.  They rest on the invariant of BadgeProofs.     *)
(***************************************************************************)
EXTENDS BadgeProofs

(* The faults that the theorems exclude.  A read that fails makes the      *)
(* firmware take an animation for missing and truncate it; one that is     *)
(* written in part is neither there nor gone.                              *)
ReadsWork == "read" \notin IoFaults
NeverFormats == "format" \notin IoFaults
WritesWork == IoFaults \subseteq {"mount", "format", "remove"}

-----------------------------------------------------------------------------
(* What may be on the air, and what that says about offers and frames.     *)

(* The input of the badge holds what stations send, and noise.             *)
OnAir == PeerMessages \cup {Noise}
AirInv == inq \in Seq(OnAir)

(* Reading takes something of the input; the sync words in a payload that  *)
(* nobody reads then stand in front.  Every other step of the badge leaves *)
(* the input alone or empties it.                                          *)
Consumes ==
  inq # << >> /\ (Take \/ TakeHeaderOnly \/ \E k \in {2, 3} : inq' = SubSeq(inq, k, Len(inq)))
Drains == inq' = inq \/ inq' = << >> \/ Consumes
InqMoves == Drains \/ \E m \in PeerMessages : inq' = <<m>>

LEMMA ReadsConsume == ASSUME Receive \/ AirFault PROVE Consumes
<1> USE DEF Consumes
<1>1. CASE AirFault
  BY <1>1 DEF AirFault, RxLost, RxGarbledHeader, RxGarbledPayload
<1>2. CASE RxIgnored \/ RxRejected \/ RxNoise \/ RxGetFile \/ RxHelo \/ RxDelete \/ RxDeleteRefused
             \/ RxPutRefused
  BY <1>2 DEF RxIgnored, RxRejected, RxNoise, RxGetFile, RxHelo, RxDelete, RxDeleteRefused,
              RxPutRefused, Arrives
<1>3. CASE RxPutUnreadable \/ RxPutDiscarded \/ RxPutUnlocks \/ RxPutNew
  BY <1>3 DEF RxPutUnreadable, RxPutDiscarded, RxPutUnlocks, RxPutNew, Offered, Arrives
<1>4. CASE RxFrame \/ RxLastFrame \/ RxFrameUnwritten
  BY <1>4 DEF RxFrame, RxLastFrame, RxFrameUnwritten, FrameArrives, Arrives
<1>5. CASE RxAck \/ RxAckLast \/ RxNackResends \/ RxNackGivesUp
  BY <1>5 DEF RxAck, RxAckLast, RxNackResends, RxNackGivesUp, Sending, Arrives
<1> QED
  BY <1>1, <1>2, <1>3, <1>4, <1>5 DEF Receive

LEMMA BadgeDrains == ASSUME BadgeStep PROVE Drains
<1>1. CASE Boot
  BY <1>1 DEF Boot, StorageInit, StorageInitFails, StorageInitFormats, Mounted, LedInitKeeps,
              LedInitSaves, LedInitShows, Drains
<1>2. CASE Ui \/ PowerCut
  BY <1>2 DEF Ui, Export, Import, Press, Select, WriteId, FallBack, PowerCut, Drains
<1>3. CASE Start \/ TimeOut
  BY <1>3 DEF Start, StartSend, StartSendDeclined, StartGet, TimeOut, TimeoutSending,
              TimeoutReceiving, Drains
<1> QED
  BY <1>1, <1>2, <1>3, ReadsConsume DEF BadgeStep, Drains

LEMMA InqChanges == ASSUME Step PROVE InqMoves
<1>1. UNCHANGED vars \/ PeerHears => inq' = inq
  BY DEF vars, PeerHears
<1>2. PeerSends => \E m \in PeerMessages : inq' = <<m>>
  BY DEF PeerSends
<1> QED
  BY <1>1, <1>2, BadgeDrains DEF Step, InqMoves, Drains

(* What is left is messages that were there before, and noise.             *)
LEMMA DrainsTyped ==
  ASSUME NEW S, Noise \in S, inq \in Seq(S), Drains
  PROVE inq' \in Seq(S)
<1>1. CASE inq' = inq \/ inq' = << >>
  BY <1>1, EmptySeq
<1>2. CASE inq # << >> /\ Take
  BY <1>2, HeadTailProperties DEF Take
<1>3. CASE inq # << >> /\ TakeHeaderOnly
  <2>1. PICK k \in Nat : inq' = [i \in 1..k |-> Noise] \o Tail(inq)
    <3>1. (IF HasPayload(Msg) THEN 0..Residue ELSE {0}) \subseteq Nat
      BY LimitAssumption
    <3> QED
      BY <1>3, <3>1 DEF TakeHeaderOnly
  <2>2. [i \in 1..k |-> Noise] \in Seq(S)
    BY IsASeq
  <2>3. Tail(inq) \in Seq(S)
    BY <1>3, HeadTailProperties
  <2> QED
    BY <2>1, <2>2, <2>3, ConcatProperties
<1>4. CASE inq # << >> /\ \E k \in {2, 3} : inq' = SubSeq(inq, k, Len(inq))
  BY <1>4, SubSeqProperties, LenProperties, EmptySeq
<1> QED
  BY <1>1, <1>2, <1>3, <1>4 DEF Drains, Consumes

(* Of a single message only noise is left, and that only of its payload.   *)
LEMMA ConsumedOne ==
  ASSUME NEW m \in Message, inq = <<m>>, Consumes
  PROVE /\ inq' \in Seq({Noise})
        /\ ~HasPayload(m) \/ ~TakeHeaderOnly => inq' = << >>
<1>1. Msg = m /\ Tail(inq) = << >> /\ Len(inq) = 1
  BY DEF Msg
<1>2. CASE Take
  BY <1>1, <1>2, EmptySeq DEF Take
<1>3. CASE TakeHeaderOnly
  <2>1. PICK k \in (IF HasPayload(m) THEN 0..Residue ELSE {0}) :
          inq' = [i \in 1..k |-> Noise] \o << >>
    BY <1>1, <1>3 DEF TakeHeaderOnly
  <2>2. k \in Nat /\ (~HasPayload(m) => k = 0)
    BY LimitAssumption
  <2>3. [i \in 1..k |-> Noise] \in Seq({Noise})
    BY <2>2, IsASeq
  <2>4. inq' = [i \in 1..k |-> Noise]
    BY <2>1, <2>3, ConcatEmptySeq
  <2>5. k = 0 => [i \in 1..k |-> Noise] = << >>
    OBVIOUS
  <2> QED
    BY <1>3, <2>2, <2>3, <2>4, <2>5
<1>4. CASE \E k \in {2, 3} : inq' = SubSeq(inq, k, Len(inq))
  <2>1. \A k \in {2, 3} : SubSeq(inq, k, 1) = << >>
    OBVIOUS
  <2> QED
    BY <1>1, <1>4, <2>1, EmptySeq
<1> QED
  BY <1>2, <1>3, <1>4 DEF Consumes

(* What is on the air stays what peers send, and sync words in payloads.   *)
LEMMA AirMoves == ASSUME AirInv, InqMoves PROVE AirInv'
<1>1. CASE Drains
  BY <1>1, DrainsTyped DEF AirInv, OnAir
<1>2. CASE \E m \in PeerMessages : inq' = <<m>>
  BY <1>2 DEF AirInv, OnAir
<1> QED
  BY <1>1, <1>2 DEF InqMoves

(* So it does in every step.                                               *)
LEMMA AirStep == ASSUME AirInv, Step PROVE AirInv'
BY AirMoves, InqChanges

(* An offer that the badge acts on is for as many frames as the animation  *)
(* of that name has.                                                       *)
LEMMA OfferLength ==
  ASSUME TypeOK, AirInv, Offered
  PROVE Offer.len = AnimLen[Offer.name] /\ ~Offer.direct /\ Offer.name = Msg.body.name
<1>1. Msg \in OnAir /\ Msg.op = "PUTFILE" /\ Msg \in Message
  BY HeadTailProperties, OfferedFacts DEF Msg, AirInv, Offered, Arrives
<1>2. Msg \in PeerMessages /\ Msg.body \in Anim
  BY <1>1, MessageParts DEF OnAir, Noise
<1>3. /\ Offer.len = Msg.body.len /\ Offer.name = Msg.body.name /\ ~Offer.direct
      /\ Offer.delay = Msg.body.delay
  BY <1>2 DEF Offer, Anim
<1>4. Acceptable(Msg.body)
  BY <1>3 DEF Acceptable, Offered
<1> QED
  BY <1>1, <1>2, <1>3, <1>4, PeerAssumption

(* A frame that arrives is no part of one.                                 *)
LEMMA FrameWhole == ASSUME AirInv, FrameArrives PROVE Msg.body # Torn
<1>1. Msg \in OnAir /\ Msg.op = "APPFILE"
  BY HeadTailProperties DEF Msg, AirInv, FrameArrives, Arrives
<1> QED
  BY <1>1, PeerAssumption DEF OnAir, Noise

-----------------------------------------------------------------------------
(* The files of the badge, and the states in which it uses them.           *)

(* A file with a header belongs to the name in it and announces the frames *)
(* the animation has; where frame writes work it holds whole frames only.  *)
Sound(n, f) ==
  /\ f.kind = "data" => f.hdr.name = n /\ f.hdr.len = AnimLen[n] /\ ~f.hdr.direct
  /\ "frame" \notin IoFaults => Whole(f) /\ Len(f.frames) <= AnimLen[n]

FilesSound == \A n \in Name : Sound(n, flash.files[n])

(* Seeding and receiving need a flash that mounted.                        *)
Receives(l) == l.state \in {"FILE_RX", "FILE_RX_DONE"}

PostInv ==
  /\ boot \in 0..Len(SystemAnims) => post = 0
  /\ Receives(link) => post = 0

(* Frames are discarded only for an animation that is there.               *)
DiscardInv ==
  link.state = "FILE_RX_DONE" =>
    link.header.name \in Name /\ flash.files[link.header.name].kind = "data"

(* What IInv does not say and the theorems need: it holds in every         *)
(* behaviour, whatever fails.                                              *)
StoreInv == AirInv /\ FilesSound /\ PostInv /\ DiscardInv

(* One file changes.                                                       *)
Puts(n, f) == flash'.files = [flash.files EXCEPT ![n] = f]

(* The outcomes of a call without a filesystem, and with one.              *)
LEMMA OutcomeFacts == ASSUME NEW op PROVE
  /\ Can(op) <=> post = 0
  /\ MayFail(op) <=> post # 0 \/ op \in IoFaults
BY DEF Can, MayFail, Outcomes

(* Writing a file through PutFile changes that file.                       *)
LEMMA PutFilePuts ==
  ASSUME flash \in Flash, NEW n \in Name, NEW f, flash' = PutFile(n, f)
  PROVE Puts(n, f)
BY DEF PutFile, Puts, Flash

(* After it the file is there and the others are what they were.           *)
LEMMA PutsFacts ==
  ASSUME TypeOK, NEW n \in Name, NEW f, Puts(n, f)
  PROVE flash'.files[n] = f /\ \A m \in Name \ {n} : flash'.files[m] = flash.files[m]
BY DEF TypeOK, Flash, Puts

(* Appending a frame changes the open file.                                *)
LEMMA AppendPuts ==
  ASSUME TypeOK, link.fd \in Name, NEW f, flash' = AppendFrame(f)
  PROVE Puts(link.fd, [flash.files[link.fd] EXCEPT !.frames = Append(@, f)])
BY DEF AppendFrame, Puts, TypeOK, Flash, File

(* Files without a header or frames are sound, and no animations.          *)
LEMMA BareFiles == ASSUME NEW n \in Name PROVE
  /\ Sound(n, Absent) /\ Sound(n, Stub)
  /\ ~Valid(Absent) /\ ~Valid(Stub)
BY BoundAssumption DEF Sound, Absent, Stub, Whole, Valid

(* A file that was just created under an offer has no frame yet.           *)
LEMMA FreshFile ==
  ASSUME NEW n \in Name, NEW h, h.name = n, h.len = AnimLen[n], ~h.direct
  PROVE Sound(n, Stored(h, << >>)) /\ ~Valid(Stored(h, << >>))
BY BoundAssumption DEF Sound, Stored, Whole, Valid

(* The frames the firmware writes are frames of the animation.             *)
LEMMA OwnFrames == ASSUME NEW n \in Name, NEW h PROVE
  /\ Len(FramesOf(n)) = AnimLen[n]
  /\ Whole(Stored(h, FramesOf(n)))
<1>1. \A k \in 1..Len(FramesOf(n)) : FramesOf(n)[k] # Torn
  <2>1. Len(FramesOf(n)) = AnimLen[n]
    BY FramesOfType
  <2>2. \A k \in 1..AnimLen[n] : FramesOf(n)[k] = <<n, k - 1>>
    BY DEF FramesOf
  <2> QED
    BY <2>1, <2>2, NameAssumption DEF Torn
<1> QED
  BY <1>1, FramesOfType DEF Whole, Stored

(* What storage_save_direct_anim leaves of a file that was no animation:   *)
(* a sound file, and where it passes for an animation a locked one with    *)
(* the next id.                                                            *)
LEMMA SavedDirectFacts ==
  ASSUME TypeOK, post = 0, NEW n \in Name, NEW f \in SavedDirect(n), Sound(n, flash.files[n])
  PROVE /\ Sound(n, f)
        /\ f = flash.files[n] \/ ~Valid(f) \/ (f.hdr.id = index.nextId /\ ~f.hdr.unlocked)
        /\ WritesWork => Valid(f)
<1> DEFINE h == [name |-> n, len |-> AnimLen[n], delay |-> MinDelay,
                 id |-> index.nextId, unlocked |-> FALSE, direct |-> FALSE]
           old == flash.files[n]
           tail == SubSeq(old.frames, Len(FramesOf(n)) + 1, Len(old.frames))
           torn == [FramesOf(n) EXCEPT ![AnimLen[n]] = Torn]
<1>1. /\ old \in File /\ old.frames \in Seq(Frame) /\ Len(old.frames) \in Nat
      /\ FramesOf(n) \in Seq(Frame) /\ Len(FramesOf(n)) = AnimLen[n]
      /\ AnimLen[n] \in Nat \ {0}
  BY FramesOfType, HeaderType, LenProperties, BoundAssumption DEF TypeOK, Flash
<1>2. \/ f = Overlaid(old, h, FramesOf(n))
      \/ f \in {old, Stub} /\ (MayFail("open") \/ MayFail("header"))
      \/ f = Stored(h, torn) /\ MayFail("frame")
  BY DEF SavedDirect
<1>3. CASE f = Overlaid(old, h, FramesOf(n))
  <2>1. f.kind = "data" /\ f.hdr = h /\ f.frames = FramesOf(n) \o tail
    BY <1>3 DEF Overlaid, Stored
  <2>2. ASSUME "frame" \notin IoFaults PROVE f.frames = FramesOf(n)
    <3>1. Len(old.frames) <= AnimLen[n]
      BY <2>2 DEF Sound
    <3>2. tail = << >>
      BY <1>1, <3>1, SubSeqProperties
    <3> QED
      BY <1>1, <2>1, <3>2, ConcatEmptySeq
  <2>3. ASSUME "frame" \notin IoFaults PROVE Whole(f) /\ Len(f.frames) = AnimLen[n]
    BY <1>1, <2>2, <2>3, OwnFrames DEF Whole, Stored
  <2>4. h.name = n /\ h.len = AnimLen[n] /\ ~h.direct /\ h.id = index.nextId /\ ~h.unlocked
    OBVIOUS
  <2> HIDE DEF h, old, tail, torn
  <2>5. Sound(n, f)
    BY <1>1, <2>1, <2>3, <2>4 DEF Sound
  <2>6. WritesWork => Valid(f)
    BY <2>1, <2>3, <2>4 DEF WritesWork, Valid
  <2> QED
    BY <2>1, <2>4, <2>5, <2>6 DEF old
<1>4. CASE f \in {old, Stub} /\ (MayFail("open") \/ MayFail("header"))
  BY <1>4, BareFiles, OutcomeFacts DEF WritesWork
<1>5. CASE f = Stored(h, torn) /\ MayFail("frame")
  <2>1. f.kind = "data" /\ f.hdr = h /\ f.frames = torn
    BY <1>5 DEF Stored
  <2>2. Len(torn) = AnimLen[n] /\ torn[AnimLen[n]] = Torn
    <3>1. AnimLen[n] \in 1..Len(FramesOf(n)) /\ Torn \in Frame
      BY <1>1, ValueTypes
    <3> QED
      BY <1>1, <3>1, ExceptSeq
  <2>3. ~Valid(f)
    BY <1>1, <2>1, <2>2 DEF Valid, Whole
  <2>4. "frame" \in IoFaults
    BY <1>5, OutcomeFacts
  <2> QED
    BY <2>1, <2>3, <2>4 DEF Sound, WritesWork
<1> QED
  BY <1>2, <1>3, <1>4, <1>5

-----------------------------------------------------------------------------
(* What each handler that writes does to the files.                        *)

(* A receive in progress has no animation yet.                             *)
LEMMA InFlightIsNone ==
  ASSUME InFlightFile, link.state = "FILE_RX"
  PROVE ~Valid(flash.files[link.fd])
<1> DEFINE f == flash.files[link.fd]
<1>1. f.hdr = link.header /\ (Whole(f) => Len(f.frames) = link.part)
  BY DEF InFlightFile, Whole
<1>2. ASSUME Valid(f) PROVE FALSE
  <2>1. Len(f.frames) = link.part /\ Len(f.frames) = link.header.len
    BY <1>1, <1>2 DEF Valid
  <2> QED
    BY <2>1 DEF InFlightFile
<1> QED
  BY <1>2

(* Deleting removes one animation, the one the controller asked for.       *)
LEMMA DeletePuts == ASSUME TypeOK, RxDelete PROVE
  /\ Msg.body \in Name \ SystemName /\ Puts(Msg.body, Absent) /\ DeleteOrdered = Msg.body
  /\ index' = [index EXCEPT !.cache = Uncached(index.cache, Msg.body)]
<1>1. Msg.body \in Name \ SystemName
  <2>1. Msg \in Message
    BY TakeType DEF RxDelete, Arrives, TypeOK
  <2> QED
    BY <2>1, MessageParts DEF RxDelete, Arrives, Deletable
<1>2. Puts(Msg.body, Absent)
  BY <1>1, PutFilePuts DEF RxDelete, TypeOK
<1>3. DeleteOrdered = Msg.body
  BY <1>1 DEF RxDelete, Arrives, Deletable, DeleteOrdered
<1> QED
  BY <1>1, <1>2, <1>3 DEF RxDelete

(* An offer that unlocks keeps the animation under its id.                 *)
LEMMA UnlockPuts ==
  ASSUME TypeOK, AirInv, FilesSound, RxPutUnlocks
  PROVE LET n == Offer.name
            old == flash.files[n]
        IN /\ n \in Name /\ Valid(old) /\ ~old.hdr.unlocked /\ post = 0
           /\ index' = [index EXCEPT !.cache = Cached(index.cache, old.hdr.id, n)]
           /\ \/ flash' = flash /\ ~WritesWork
              \/ \E f : /\ Puts(n, f) /\ Sound(n, f) /\ Valid(f)
                        /\ f.hdr.unlocked /\ f.hdr.id = old.hdr.id
<1> DEFINE n == Offer.name
           old == flash.files[n]
           h == [Offer EXCEPT !.id = Local.hdr.id]
           f == Stored(h, old.frames)
<1>1. Offered /\ Saved /\ ~Local.hdr.unlocked /\ Offer.unlocked
  BY DEF RxPutUnlocks
<1>2. Offer \in Anim /\ n \in Name /\ Offer.len = AnimLen[n] /\ ~Offer.direct /\ Local = old
  BY <1>1, OfferedFacts, OfferLength DEF Local
<1>3. Valid(old) /\ post = 0 /\ Sound(n, old)
  BY <1>1, <1>2, OutcomeFacts DEF Saved, FilesSound
<1>4. /\ h.name = n /\ h.len = AnimLen[n] /\ ~h.direct /\ h.unlocked /\ h.id = old.hdr.id
  BY <1>1, <1>2 DEF Anim
<1>5. /\ index' = [index EXCEPT !.cache = Cached(index.cache, h.id, h.name)]
      /\ \/ flash' = PutFile(h.name, Stored(h, Local.frames))
         \/ flash' = flash /\ (MayFail("open") \/ MayFail("header"))
  BY DEF RxPutUnlocks
<1>6. f.kind = "data" /\ f.hdr = h /\ f.frames = old.frames
  BY DEF Stored
<1> HIDE DEF h, f
<1>7. Sound(n, f)
  BY <1>3, <1>4, <1>6 DEF Sound, Whole
<1>8. Valid(f)
  <2>1. old.hdr.len = AnimLen[n]
    BY <1>3 DEF Sound, Valid
  <2> QED
    BY <1>3, <1>4, <1>6, <2>1 DEF Valid, Whole
<1>9. \/ flash' = flash /\ ~WritesWork
      \/ Puts(n, f)
  BY <1>2, <1>3, <1>4, <1>5, OutcomeFacts, PutFilePuts DEF WritesWork, TypeOK, f
<1> QED
  BY <1>1, <1>2, <1>3, <1>4, <1>5, <1>6, <1>7, <1>8, <1>9

(* An offer of an animation the badge lacks leaves none behind.            *)
LEMMA NewPuts ==
  ASSUME TypeOK, AirInv, RxPutNew
  PROVE LET n == Offer.name
        IN /\ n \in Name /\ (~Valid(flash.files[n]) \/ MayFail("read"))
           /\ \/ flash' = flash /\ index' = index
              \/ /\ post = 0 /\ \E f : Puts(n, f) /\ Sound(n, f) /\ ~Valid(f)
                 /\ index' \in {index, [index EXCEPT !.cache = Uncached(index.cache, n)]}
<1> DEFINE n == Offer.name
           h == [Offer EXCEPT !.id = index.nextId]
<1>1. Offered /\ (~Valid(Local) \/ MayFail("read")) /\ index.nextId \in 0..MaxId
  BY BoundAssumption DEF RxPutNew, TypeOK, Index
<1>2. Offer \in Anim /\ n \in Name /\ Offer.len = AnimLen[n] /\ ~Offer.direct
  BY <1>1, OfferedFacts, OfferLength
<1>3. h.name = n /\ h.len = AnimLen[n] /\ ~h.direct
  BY <1>2 DEF Anim
<1>4. \/ flash' = flash /\ index' = index
      \/ /\ Can("open") /\ index' \in {index, [index EXCEPT !.cache = Uncached(index.cache, h.name)]}
         /\ flash' \in {PutFile(h.name, f) : f \in {Stored(h, << >>), Absent, Stub}}
  BY DEF RxPutNew
<1> HIDE DEF h
<1>5. ASSUME NEW f \in {Stored(h, << >>), Absent, Stub} PROVE Sound(n, f) /\ ~Valid(f)
  BY <1>2, <1>3, FreshFile, BareFiles
<1>6. flash' = flash \/ \E f \in {Stored(h, << >>), Absent, Stub} : Puts(n, f)
  BY <1>2, <1>3, <1>4, PutFilePuts DEF TypeOK
<1>7. \/ flash' = flash /\ index' = index
      \/ /\ post = 0 /\ \E f : Puts(n, f) /\ Sound(n, f) /\ ~Valid(f)
         /\ index' \in {index, [index EXCEPT !.cache = Uncached(index.cache, n)]}
  <2>1. CASE flash' = flash /\ index' = index
    BY <2>1
  <2>2. CASE /\ Can("open") /\ index' \in {index, [index EXCEPT !.cache = Uncached(index.cache, h.name)]}
             /\ flash' \in {PutFile(h.name, f) : f \in {Stored(h, << >>), Absent, Stub}}
    <3>1. \E f \in {Stored(h, << >>), Absent, Stub} : Puts(n, f)
      BY <1>2, <1>3, <2>2, PutFilePuts DEF TypeOK
    <3> QED
      BY <1>3, <1>5, <2>2, <3>1, OutcomeFacts
  <2> QED
    BY <1>4, <2>1, <2>2
<1> QED
  BY <1>1, <1>2, <1>7 DEF Local

(* Giving up a receive removes what there is of it, or fails to.           *)
LEMMA TimeoutPuts ==
  ASSUME TypeOK, LinkConsistent, InFlightFile, TimeoutReceiving
  PROVE LET n == link.header.name
        IN /\ n \in Name /\ ~Valid(flash.files[n])
           /\ \/ flash' = flash /\ index' = index
              \/ /\ Puts(n, Absent)
                 /\ index' = [index EXCEPT !.cache = Uncached(index.cache, n)]
<1>1. link.state = "FILE_RX" /\ link.header.name \in Name /\ link.fd = link.header.name
  BY DEF TimeoutReceiving, LinkConsistent
<1>2. ~Valid(flash.files[link.header.name])
  BY <1>1, InFlightIsNone
<1>3. \/ flash' = flash /\ index' = index
      \/ /\ flash' = PutFile(link.header.name, Absent)
         /\ index' = [index EXCEPT !.cache = Uncached(index.cache, link.header.name)]
  BY DEF TimeoutReceiving
<1> QED
  BY <1>1, <1>2, <1>3, PutFilePuts DEF TypeOK

(* A frame that is stored lengthens the file of the receive; it makes an   *)
(* animation of it only if it is the last one, and then always unless an   *)
(* earlier write failed.                                                   *)
Lengthens ==
  /\ ~Valid(flash.files[link.fd])
  /\ \E f : /\ Puts(link.fd, f) /\ Sound(link.fd, f)
            /\ f.kind = "data" /\ f.hdr = link.header
            /\ Valid(f) => RxLastFrame
            /\ WritesWork /\ RxLastFrame => Valid(f)

(* So it does.                                                             *)
LEMMA FramePuts ==
  ASSUME TypeOK, LinkConsistent, InFlightFile, StoreInv, RxFrame \/ RxLastFrame \/ RxFrameUnwritten
  PROVE \/ flash' = flash /\ (link.discard \/ RxFrameUnwritten)
        \/ ~link.discard /\ link.state = "FILE_RX" /\ link.fd \in Name /\ Lengthens
<1>1. FrameArrives
  BY DEF RxFrame, RxLastFrame, RxFrameUnwritten
<1>2. /\ Msg \in Message /\ Msg.body \in Frame /\ Msg.body # Torn
      /\ ~link.discard => link.state = "FILE_RX" /\ link.fd \in Name
  BY <1>1, FrameFacts, FrameWhole DEF StoreInv
<1>3. CASE flash' = flash /\ (link.discard \/ RxFrameUnwritten)
  BY <1>3
<1>4. ASSUME NEW g \in Frame, flash' = AppendFrame(g), ~link.discard,
             \/ g = Msg.body /\ (RxFrame \/ RxLastFrame)
             \/ g = Torn /\ RxFrameUnwritten /\ "frame" \in IoFaults
      PROVE Lengthens
  <2> DEFINE old == flash.files[link.fd]
             f == [old EXCEPT !.frames = Append(old.frames, g)]
  <2>1. link.state = "FILE_RX" /\ link.fd \in Name /\ link.fd = link.header.name
    BY <1>2, <1>4 DEF LinkConsistent
  <2>2. /\ old \in File /\ old.frames \in Seq(Frame) /\ old.kind = "data" /\ old.hdr = link.header
        /\ link.part \in Nat /\ link.header.len \in Nat /\ link.part < link.header.len
        /\ Whole(old) => Len(old.frames) = link.part
    BY <2>1, HeaderType DEF InFlightFile, TypeOK, Flash, Link, Anim, Whole
  <2>3. Puts(link.fd, f)
    BY <1>4, <2>1, AppendPuts
  <2>4. /\ f.kind = "data" /\ f.hdr = link.header /\ f.frames = Append(old.frames, g)
        /\ Len(old.frames) \in Nat
        /\ Len(f.frames) = Len(old.frames) + 1 /\ f.frames[Len(old.frames) + 1] = g
        /\ \A k \in 1..Len(old.frames) : f.frames[k] = old.frames[k]
    <3>1. f.kind = "data" /\ f.hdr = link.header /\ f.frames = Append(old.frames, g)
      BY <2>2 DEF File
    <3> DEFINE s == old.frames
    <3>2. s \in Seq(Frame) /\ g \in Frame
      BY <1>4, <2>2
    <3> HIDE DEF s
    <3>3. /\ Len(s) \in Nat /\ Len(Append(s, g)) = Len(s) + 1 /\ Append(s, g)[Len(s) + 1] = g
          /\ \A k \in 1..Len(s) : Append(s, g)[k] = s[k]
      BY <3>2, AppendProperties, AppendKeeps
    <3> QED
      BY <3>1, <3>3 DEF s
  <2>5. Sound(link.fd, old)
    BY <2>1 DEF StoreInv, FilesSound
  <2> HIDE DEF f, old
  <2>6. Whole(f) <=> Whole(old) /\ g # Torn
    <3>1. \A k : k \in 1..Len(f.frames) <=> k \in 1..Len(old.frames) \/ k = Len(old.frames) + 1
      BY <2>4
    <3> QED
      BY <2>4, <3>1 DEF Whole
  <2>7. Valid(f) => Len(f.frames) = link.part + 1 /\ link.part + 1 >= link.header.len
    BY <2>2, <2>4, <2>6 DEF Valid
  <2>8. Valid(f) => RxLastFrame
    <3>1. RxFrame => link.part + 1 < link.header.len
      BY DEF RxFrame
    <3>2. Valid(f) => g # Torn
      BY <2>6 DEF Valid
    <3> QED
      BY <1>4, <2>2, <2>7, <3>1, <3>2
  <2>9. ASSUME "frame" \notin IoFaults
        PROVE Whole(f) /\ Len(f.frames) = link.part + 1 /\ Len(f.frames) <= link.header.len
    BY <1>2, <1>4, <2>2, <2>4, <2>5, <2>6, <2>9 DEF Sound
  <2>10. Sound(link.fd, f)
    BY <2>2, <2>4, <2>5, <2>9 DEF Sound
  <2>11. WritesWork /\ RxLastFrame => Valid(f)
    <3>1. RxLastFrame => link.part + 1 >= link.header.len
      BY DEF RxLastFrame
    <3>2. ASSUME WritesWork, RxLastFrame PROVE Len(f.frames) = link.header.len /\ Whole(f)
      BY <2>2, <2>9, <3>1, <3>2 DEF WritesWork
    <3> QED
      BY <2>4, <3>2 DEF Valid
  <2>12. ~Valid(old)
    BY <2>1, InFlightIsNone DEF old
  <2> QED
    BY <2>3, <2>4, <2>8, <2>10, <2>11, <2>12 DEF old, Lengthens
<1>5. CASE RxFrame \/ RxLastFrame
  <2>1. flash' = (IF link.discard THEN flash ELSE AppendFrame(Msg.body))
    BY <1>5 DEF RxFrame, RxLastFrame, FrameStored
  <2>2. CASE link.discard
    BY <2>1, <2>2
  <2>3. CASE ~link.discard
    <3>1. flash' = AppendFrame(Msg.body)
      BY <2>1, <2>3
    <3>2. Lengthens
      BY <1>2, <1>4, <1>5, <2>3, <3>1
    <3> QED
      BY <1>2, <2>3, <3>2
  <2> QED
    BY <2>2, <2>3
<1>6. CASE RxFrameUnwritten
  <2>1. flash' = flash \/ flash' = AppendFrame(Torn)
    BY <1>6 DEF RxFrameUnwritten
  <2>2. ~link.discard /\ MayFail("frame") /\ post = 0
    BY <1>1, <1>2, <1>6 DEF RxFrameUnwritten, StoreInv, PostInv, Receives
  <2> QED
    BY <1>2, <1>4, <1>6, <2>1, <2>2, OutcomeFacts, ValueTypes
<1> QED
  BY <1>5, <1>6

(* led_init writes an animation of the firmware that does not read back.   *)
LEMMA SeedPuts ==
  ASSUME TypeOK, StoreInv, LedInitSaves
  PROVE LET n == SystemAnims[boot]
        IN /\ n \in Name /\ post = 0 /\ boot \in 1..Len(SystemAnims) /\ boot' = boot + 1
           /\ ~Valid(flash.files[n]) \/ ~ReadsWork
           /\ index' = [index EXCEPT !.nextId = index.nextId + 1]
           /\ \E f : /\ Puts(n, f) /\ Sound(n, f)
                     /\ f = flash.files[n] \/ ~Valid(f)
                          \/ (f.hdr.id = index.nextId /\ ~f.hdr.unlocked)
                     /\ WritesWork => Valid(f)
<1> DEFINE n == SystemAnims[boot]
<1>1. boot \in 1..Len(SystemAnims) /\ n \in Name /\ post = 0
  <2>1. boot \in 1..Len(SystemAnims)
    BY SystemAssumption DEF LedInitSaves
  <2>2. boot \in 0..Len(SystemAnims)
    BY <2>1, SystemAssumption
  <2> QED
    BY <2>1, <2>2, SystemAssumption DEF StoreInv, PostInv
<1>2. PICK f \in SavedDirect(n) : flash' = PutFile(n, f)
  BY DEF LedInitSaves
<1>3. Sound(n, flash.files[n])
  BY <1>1 DEF StoreInv, FilesSound
<1>4. /\ Sound(n, f)
      /\ WritesWork => Valid(f)
      /\ f = flash.files[n] \/ ~Valid(f) \/ (f.hdr.id = index.nextId /\ ~f.hdr.unlocked)
  BY <1>1, <1>2, <1>3, SavedDirectFacts
<1>5. Puts(n, f)
  BY <1>1, <1>2, PutFilePuts DEF TypeOK
<1>6. ~Valid(flash.files[n]) \/ ~ReadsWork
  BY <1>1, OutcomeFacts DEF LedInitSaves, ReadsWork
<1>7. boot' = boot + 1 /\ index' = [index EXCEPT !.nextId = index.nextId + 1]
  BY DEF LedInitSaves
<1> QED
  BY <1>1, <1>4, <1>5, <1>6, <1>7

(* A cut tears a file that was no animation, or none.                      *)
LEMMA CutPuts ==
  ASSUME TypeOK, PowerCut
  PROVE \/ flash'.files = flash.files
        \/ \E n \in Name : ~Valid(flash.files[n]) /\ Puts(n, Stub)
<1>1. CASE flash' = flash \/ flash' = [flash EXCEPT !.animid = << >>]
  BY <1>1 DEF TypeOK, Flash
<1>2. CASE Seeding /\ flash' = PutFile(SystemAnims[boot], Stub)
  <2>1. SystemAnims[boot] \in Name /\ ~Valid(flash.files[SystemAnims[boot]])
    BY <1>2, SystemAssumption DEF Seeding
  <2> QED
    BY <1>2, <2>1, PutFilePuts DEF TypeOK
<1>3. CASE Truncating /\ flash' = PutFile(Offer.name, Stub)
  <2>1. Offer.name \in Name /\ ~Valid(flash.files[Offer.name])
    BY <1>3 DEF Truncating, Local
  <2> QED
    BY <1>3, <2>1, PutFilePuts DEF TypeOK
<1> QED
  BY <1>1, <1>2, <1>3 DEF PowerCut

(* The other steps write nothing but the chosen id.                        *)
LEMMA OtherSteps ==
  ASSUME TypeOK, Step
  PROVE \/ Boot \/ PowerCut \/ RxDelete \/ RxPutUnlocks \/ RxPutNew \/ RxFrame \/ RxLastFrame
        \/ RxFrameUnwritten \/ TimeoutReceiving
        \/ /\ flash'.files = flash.files /\ index' = index
           /\ boot' = boot /\ post' = post
<1>1. CASE \/ UNCHANGED vars \/ PeerSends \/ PeerHears
  BY <1>1 DEF vars, PeerSends, PeerHears
<1>2. CASE Ui
  BY <1>2 DEF Ui, Export, Import, Press, Select, WriteId, FallBack, TypeOK, Flash
<1>3. CASE Start \/ TimeoutSending
  BY <1>3 DEF Start, StartSend, StartSendDeclined, StartGet, TimeoutSending
<1>4. CASE AirFault
  BY <1>4 DEF AirFault, RxLost, RxGarbledHeader, RxGarbledPayload
<1>5. CASE RxIgnored \/ RxRejected \/ RxNoise \/ RxGetFile \/ RxHelo \/ RxDeleteRefused \/ RxPutRefused
  BY <1>5 DEF RxIgnored, RxRejected, RxNoise, RxGetFile, RxHelo, RxDeleteRefused, RxPutRefused
<1>6. CASE RxPutUnreadable \/ RxPutDiscarded
  BY <1>6 DEF RxPutUnreadable, RxPutDiscarded, Offered
<1>7. CASE RxAck \/ RxAckLast \/ RxNackResends \/ RxNackGivesUp
  BY <1>7 DEF RxAck, RxAckLast, RxNackResends, RxNackGivesUp, Sending
<1> QED
  BY <1>1, <1>2, <1>3, <1>4, <1>5, <1>6, <1>7 DEF Step, BadgeStep, Receive, TimeOut

(* Only booting and a cut change the boot state and post_errors.           *)
LEMMA BootPost ==
  ASSUME Step
  PROVE Boot \/ PowerCut \/ (boot' = boot /\ post' = post)
<1>1. CASE UNCHANGED vars \/ PeerSends \/ PeerHears \/ Ui
  BY <1>1 DEF vars, PeerSends, PeerHears, Ui, Export, Import, Press, Select, WriteId, FallBack
<1>2. CASE Start \/ TimeOut \/ AirFault
  BY <1>2 DEF Start, StartSend, StartSendDeclined, StartGet, TimeOut, TimeoutSending,
              TimeoutReceiving, AirFault, RxLost, RxGarbledHeader, RxGarbledPayload
<1>3. CASE Receive
  BY <1>3 DEF Receive, RxIgnored, RxRejected, RxNoise, RxGetFile, RxHelo, RxDelete,
              RxDeleteRefused, RxPutRefused, RxPutUnreadable, RxPutDiscarded, RxPutUnlocks,
              RxPutNew, Offered, RxFrame, RxLastFrame, RxFrameUnwritten, FrameArrives, RxAck,
              RxAckLast, RxNackResends, RxNackGivesUp, Sending
<1> QED
  BY <1>1, <1>2, <1>3 DEF Step, BadgeStep

(* Entering a receive state, or declining to.                              *)
LEMMA ReceivingFacts ==
  ASSUME TypeOK, Msg \in Message, NEW h, NEW fd
  PROVE /\ Receiving(h, fd) =>
             /\ link'.state = (IF fd = NoName THEN "FILE_RX_DONE" ELSE "FILE_RX")
             /\ link'.header = h /\ link'.fd = fd
        /\ Declining(h) => link'.state = "IDLE"
<1>1. PICK p : Buffered(link, Msg) = [link EXCEPT !.payload = p]
  BY BufferedType DEF TypeOK
<1>2. CASE Receiving(h, fd)
  <2>1. link' = [[link EXCEPT !.payload = p] EXCEPT
                   !.state = IF fd = NoName THEN "FILE_RX_DONE" ELSE "FILE_RX",
                   !.discard = fd = NoName, !.fd = fd,
                   !.peer = Msg.from, !.part = 0, !.header = h]
    BY <1>1, <1>2 DEF Receiving
  <2>2. /\ link'.state = (IF fd = NoName THEN "FILE_RX_DONE" ELSE "FILE_RX")
        /\ link'.header = h /\ link'.fd = fd
    BY <2>1 DEF TypeOK, Link
  <2>3. Declining(h) => link'.state = "IDLE"
    <3>1. ASSUME Declining(h) PROVE link' = ToIdle([[link EXCEPT !.payload = p] EXCEPT !.header = h])
      BY <1>1, <3>1 DEF Declining
    <3> QED
      BY <3>1 DEF ToIdle, TypeOK, Link
  <2> QED
    BY <2>2, <2>3
<1>3. CASE ~Receiving(h, fd)
  <2>1. ASSUME Declining(h) PROVE link' = ToIdle([[link EXCEPT !.payload = p] EXCEPT !.header = h])
    BY <1>1, <2>1 DEF Declining
  <2> QED
    BY <1>3, <2>1 DEF ToIdle, TypeOK, Link
<1> QED
  BY <1>2, <1>3

(* A step leaves the state of the link alone, starts a transaction or ends *)
(* one.                                                                    *)
Stays ==
  /\ link'.state = link.state
  /\ link.state # "IDLE" => link'.header = link.header
Starts == link.state = "IDLE" /\ (RxPutDiscarded \/ RxPutUnlocks \/ RxPutNew \/ StartSend)
Finishes == link'.state = "IDLE" /\ (PowerCut \/ RxLastFrame \/ RxAckLast \/ RxNackGivesUp \/ TimeOut)

(* There is no other.                                                      *)
LEMMA StateSteps ==
  ASSUME TypeOK, LinkConsistent, Step
  PROVE Stays \/ Starts \/ Finishes
<1>1. link \in Link
  BY DEF TypeOK
<1>2. CASE \/ UNCHANGED vars \/ PeerSends \/ PeerHears \/ Ui
           \/ RxRejected \/ RxNoise \/ RxGetFile \/ RxHelo \/ RxLost \/ RxGarbledHeader
  <2>1. link' = link
    BY <1>2 DEF vars, PeerSends, PeerHears, Ui, Export, Import, Press, Select, WriteId,
                FallBack, RxRejected, RxNoise, RxGetFile, RxHelo, RxLost, RxGarbledHeader
  <2> QED
    BY <2>1 DEF Stays
<1>3. CASE Boot
  BY <1>3, BootIsEarly DEF Stays
<1>4. CASE PowerCut
  BY <1>4 DEF PowerCut, NewLink, Finishes
<1>5. CASE RxLastFrame \/ RxFrame \/ RxFrameUnwritten \/ RxIgnored \/ RxDelete \/ RxDeleteRefused
             \/ RxGarbledPayload \/ RxPutRefused
  <2>1. inq # << >>
    BY <1>5 DEF RxLastFrame, RxFrame, RxFrameUnwritten, FrameArrives, RxIgnored, RxDelete,
                RxDeleteRefused, RxGarbledPayload, RxPutRefused, Arrives
  <2>2. Msg \in Message
    BY <2>1, TakeType DEF TypeOK
  <2>3. PICK p : Buffered(link, Msg) = [link EXCEPT !.payload = p]
    BY <2>2, BufferedType DEF TypeOK
  <2>4. CASE RxLastFrame
    <3>1. link' = ToIdle([[link EXCEPT !.payload = p] EXCEPT !.part = @ + 1, !.fd = NoName])
      BY <2>3, <2>4 DEF RxLastFrame
    <3> QED
      BY <1>1, <2>4, <3>1 DEF ToIdle, Link, Finishes
  <2>5. CASE RxFrame
    <3>1. link' = [[link EXCEPT !.payload = p] EXCEPT !.part = @ + 1]
      BY <2>3, <2>5 DEF RxFrame
    <3> QED
      BY <1>1, <3>1 DEF Link, Stays
  <2>6. CASE RxFrameUnwritten \/ RxIgnored \/ RxDelete \/ RxDeleteRefused \/ RxGarbledPayload
    <3>1. \E q : link' = [link EXCEPT !.payload = q]
      BY <2>3, <2>6 DEF RxFrameUnwritten, RxIgnored, RxDelete, RxDeleteRefused, RxGarbledPayload
    <3> QED
      BY <1>1, <3>1 DEF Link, Stays
  <2>7. CASE RxPutRefused
    <3>1. link' = [[link EXCEPT !.payload = p] EXCEPT !.header = Offer] /\ link.state = "IDLE"
      BY <2>3, <2>7 DEF RxPutRefused
    <3> QED
      BY <1>1, <3>1 DEF Link, Stays
  <2> QED
    BY <1>5, <2>4, <2>5, <2>6, <2>7
<1>6. CASE RxPutUnreadable \/ RxPutDiscarded \/ RxPutUnlocks \/ RxPutNew
  <2>1. Offered
    BY <1>6 DEF RxPutUnreadable, RxPutDiscarded, RxPutUnlocks, RxPutNew
  <2>2. Msg \in Message /\ link.state = "IDLE"
    BY <2>1, OfferedFacts
  <2>3. CASE RxPutUnreadable
    BY <2>2, <2>3, ReceivingFacts DEF RxPutUnreadable, Stays
  <2> QED
    BY <1>6, <2>2, <2>3 DEF Starts
<1>7. CASE Start
  <2>1. CASE StartSend
    BY <2>1 DEF StartSend, Starts
  <2>2. CASE StartSendDeclined \/ StartGet
    BY <1>1, <2>2 DEF StartSendDeclined, StartGet, Link, Stays
  <2> QED
    BY <1>7, <2>1, <2>2 DEF Start
<1>8. CASE RxAck
  <2>1. link'.state = Acked.state /\ link'.header = Acked.header
    BY <1>1, <1>8 DEF RxAck, Acked, Link
  <2> QED
    BY <1>1, <2>1 DEF Acked, Link, Stays
<1>9. CASE RxNackResends
  BY <1>1, <1>9 DEF RxNackResends, Link, Stays
<1>10. CASE RxAckLast \/ RxNackGivesUp \/ TimeOut
  BY <1>1, <1>10 DEF RxAckLast, RxNackGivesUp, TimeOut, TimeoutSending, TimeoutReceiving, EndSend,
                     ToIdle, Link, Finishes
<1> QED
  BY <1>2, <1>3, <1>4, <1>5, <1>6, <1>7, <1>8, <1>9, <1>10 DEF Step, BadgeStep, Receive, AirFault

(* A receive that starts is for the animation on offer, on a flash that    *)
(* works: with a new file for it, or for one that is there already.        *)
LEMMA StartsReceive ==
  ASSUME TypeOK, Starts, Receives(link')
  PROVE /\ RxPutDiscarded \/ RxPutUnlocks \/ RxPutNew
        /\ Offer.name \in Name /\ link'.header.name = Offer.name /\ post = 0
        /\ link'.state = "FILE_RX" => RxPutNew
        /\ link'.state = "FILE_RX_DONE" =>
             Valid(Local) /\ (flash' = flash \/ \E f : Puts(Offer.name, f) /\ f.kind = "data")
<1>1. RxPutDiscarded \/ RxPutUnlocks \/ RxPutNew
  <2>1. StartSend => link'.state = "FILE_TX"
    BY DEF StartSend, TypeOK, Link
  <2> QED
    BY <2>1 DEF Starts, Receives
<1>2. Offered
  BY <1>1 DEF RxPutDiscarded, RxPutUnlocks, RxPutNew
<1>3. Msg \in Message /\ Offer \in Anim /\ Offer.name \in Name /\ Offer.name # NoName
  BY <1>2, OfferedFacts, NameAssumption
<1>4. CASE RxPutDiscarded
  <2>1. PICK h : Receiving(h, NoName) /\ h = [Offer EXCEPT !.id = Local.hdr.id, !.unlocked = Local.hdr.unlocked]
    BY <1>4 DEF RxPutDiscarded
  <2>2. h.name = Offer.name
    BY <1>3, <2>1 DEF Anim
  <2>3. link'.state = "FILE_RX_DONE" /\ link'.header = h
    BY <1>3, <2>1, ReceivingFacts
  <2> QED
    BY <1>3, <1>4, <2>2, <2>3, OutcomeFacts DEF RxPutDiscarded, Saved
<1>5. CASE RxPutUnlocks
  <2> DEFINE h == [Offer EXCEPT !.id = Local.hdr.id]
  <2>1. h.name = Offer.name
    BY <1>3 DEF Anim
  <2>2. /\ Saved
        /\ \/ flash' = PutFile(h.name, Stored(h, Local.frames)) /\ Receiving(h, NoName)
           \/ flash' = flash /\ Declining(h)
    BY <1>5 DEF RxPutUnlocks
  <2> HIDE DEF h
  <2>3. ~Declining(h)
    BY <1>3, ReceivingFacts DEF Receives
  <2>4. link'.state = "FILE_RX_DONE" /\ link'.header = h
    BY <1>3, <2>2, <2>3, ReceivingFacts
  <2>5. Puts(Offer.name, Stored(h, Local.frames)) /\ Stored(h, Local.frames).kind = "data"
    BY <1>3, <2>1, <2>2, <2>3, PutFilePuts DEF Stored, TypeOK
  <2> QED
    BY <1>3, <1>5, <2>1, <2>2, <2>4, <2>5, OutcomeFacts DEF Saved
<1>6. CASE RxPutNew
  <2> DEFINE h == [Offer EXCEPT !.id = index.nextId]
  <2>1. h.name = Offer.name
    BY <1>3 DEF Anim
  <2>2. \/ Can("open") /\ Receiving(h, h.name)
        \/ Declining(h)
    BY <1>6 DEF RxPutNew
  <2> HIDE DEF h
  <2>3. ~Declining(h)
    BY <1>3, ReceivingFacts DEF Receives
  <2>4. link'.state = "FILE_RX" /\ link'.header = h
    BY <1>3, <2>1, <2>2, <2>3, ReceivingFacts
  <2> QED
    BY <1>3, <1>6, <2>1, <2>2, <2>3, <2>4, OutcomeFacts
<1> QED
  BY <1>1, <1>4, <1>5, <1>6

-----------------------------------------------------------------------------
(* StoreInv is an invariant.                                               *)

(* What booting does to the files.                                         *)
LEMMA BootFiles ==
  ASSUME TypeOK, Boot
  PROVE \/ StorageInitFormats /\ \A n \in Name : flash'.files[n] = Absent
        \/ LedInitSaves
        \/ ~LedInitSaves /\ flash'.files = flash.files
<1>1. CASE StorageInit \/ StorageInitFormats
  <2>1. boot = 0
    BY <1>1 DEF StorageInit, StorageInitFormats, Mounted
  <2>2. ~LedInitSaves
    BY <2>1, SystemAssumption DEF LedInitSaves
  <2>3. CASE StorageInit
    BY <2>2, <2>3 DEF StorageInit, Mounted, TypeOK, Flash
  <2>4. CASE StorageInitFormats
    BY <2>4 DEF StorageInitFormats, Mounted
  <2> QED
    BY <1>1, <2>3, <2>4
<1>2. CASE StorageInitFails \/ LedInitKeeps \/ LedInitShows
  BY <1>2 DEF StorageInitFails, LedInitKeeps, LedInitShows
<1> QED
  BY <1>1, <1>2 DEF Boot

(* A step that puts a sound file keeps the files sound.                    *)
LEMMA PutsSound ==
  ASSUME TypeOK, FilesSound, NEW n \in Name, NEW f, Puts(n, f), Sound(n, f)
  PROVE FilesSound'
BY PutsFacts DEF FilesSound, Sound

(* So every step does.                                                     *)
LEMMA SoundStep ==
  ASSUME IInv, StoreInv, Step
  PROVE FilesSound'
<1>1. TypeOK /\ LinkConsistent /\ InFlightFile /\ FilesSound /\ AirInv
  BY DEF IInv, StoreInv
<1>2. ASSUME flash'.files = flash.files PROVE FilesSound'
  BY <1>1, <1>2 DEF FilesSound, Sound
<1>3. CASE Boot
  <2>1. CASE \A n \in Name : flash'.files[n] = Absent
    BY <2>1, BareFiles DEF FilesSound
  <2>2. CASE LedInitSaves
    BY <1>1, <2>2, SeedPuts, PutsSound
  <2> QED
    BY <1>1, <1>2, <1>3, <2>1, <2>2, BootFiles
<1>4. CASE PowerCut
  BY <1>1, <1>2, <1>4, CutPuts, PutsSound, BareFiles
<1>5. CASE RxDelete
  BY <1>1, <1>5, DeletePuts, PutsSound, BareFiles
<1>6. CASE RxPutUnlocks
  BY <1>1, <1>2, <1>6, UnlockPuts, PutsSound
<1>7. CASE RxPutNew
  BY <1>1, <1>2, <1>7, NewPuts, PutsSound
<1>8. CASE RxFrame \/ RxLastFrame \/ RxFrameUnwritten
  BY <1>1, <1>2, <1>8, FramePuts, PutsSound DEF Lengthens
<1>9. CASE TimeoutReceiving
  BY <1>1, <1>2, <1>9, TimeoutPuts, PutsSound, BareFiles
<1> QED
  BY <1>1, <1>2, <1>3, <1>4, <1>5, <1>6, <1>7, <1>8, <1>9, OtherSteps

(* Seeding and receiving go on needing a flash that mounted.               *)
LEMMA PostStep ==
  ASSUME IInv, StoreInv, Step
  PROVE PostInv'
<1>1. TypeOK /\ LinkConsistent /\ InFlightFile /\ PostInv
  BY DEF IInv, StoreInv
<1>2. DOMAIN SystemAnims = 1..Len(SystemAnims) /\ Len(SystemAnims) \in Nat
  BY SystemAssumption
<1>3. boot' \in 0..Len(SystemAnims) => post' = 0
  <2>1. CASE Boot
    <3>1. CASE StorageInit \/ StorageInitFormats \/ LedInitKeeps \/ LedInitSaves
      <4>1. boot \in 0..Len(SystemAnims) /\ post' = post
        BY <1>2, <3>1 DEF StorageInit, StorageInitFormats, Mounted, LedInitKeeps, LedInitSaves
      <4> QED
        BY <1>1, <4>1 DEF PostInv
    <3>2. CASE StorageInitFails \/ LedInitShows
      <4>1. boot' = Len(SystemAnims) + 1 \/ boot' = Len(SystemAnims) + 2
        <5>1. boot' = Booted - 1 \/ boot' = Booted
          BY <3>2 DEF StorageInitFails, LedInitShows
        <5> QED
          BY <1>2, <5>1 DEF Booted
      <4> QED
        BY <1>2, <4>1
    <3> QED
      BY <2>1, <3>1, <3>2 DEF Boot
  <2>2. CASE PowerCut
    BY <2>2 DEF PowerCut
  <2> QED
    BY <1>1, <2>1, <2>2, BootPost DEF PostInv
<1>4. Receives(link') => post' = 0
  <2>1. CASE Boot
    BY <1>1, <2>1, BootIsEarly DEF LinkConsistent, NewLink, Receives
  <2>2. CASE PowerCut
    BY <2>2 DEF PowerCut
  <2>3. CASE boot' = boot /\ post' = post
    <3>1. CASE Stays
      BY <1>1, <2>3, <3>1 DEF Stays, PostInv, Receives
    <3>2. CASE Starts
      BY <1>1, <2>3, <3>2, StartsReceive
    <3>3. CASE Finishes
      BY <3>3 DEF Finishes, Receives
    <3> QED
      BY <1>1, <3>1, <3>2, <3>3, StateSteps
  <2> QED
    BY <2>1, <2>2, <2>3, BootPost
<1> QED
  BY <1>3, <1>4 DEF PostInv, Receives

(* While frames are discarded, nothing else happens to the files.          *)
LEMMA DiscardStep ==
  ASSUME IInv, StoreInv, Step
  PROVE DiscardInv'
<1>1. TypeOK /\ LinkConsistent /\ InFlightFile /\ DiscardInv
  BY DEF IInv, StoreInv
<1>2. SUFFICES ASSUME link'.state = "FILE_RX_DONE"
      PROVE link'.header.name \in Name /\ flash'.files[link'.header.name].kind = "data"
  BY DEF DiscardInv
<1>3. CASE Stays
  <2>1. link.state = "FILE_RX_DONE" /\ link'.header = link.header /\ link.discard /\ link # NewLink
    BY <1>1, <1>2, <1>3 DEF Stays, LinkConsistent, NewLink
  <2>2. ~Boot /\ ~PowerCut
    BY <1>1, <1>2, <2>1, BootIsEarly DEF LinkConsistent, PowerCut, NewLink
  <2>3. ~RxDelete /\ ~RxPutUnlocks /\ ~RxPutNew /\ ~TimeoutReceiving /\ ~RxFrameUnwritten
    BY <2>1 DEF RxDelete, RxPutUnlocks, RxPutNew, Offered, TimeoutReceiving, RxFrameUnwritten
  <2>4. flash'.files = flash.files
    BY <1>1, <2>1, <2>2, <2>3, FramePuts, OtherSteps
  <2> QED
    BY <1>1, <2>1, <2>4 DEF DiscardInv
<1>4. CASE Starts
  <2>1. /\ Offer.name \in Name /\ link'.header.name = Offer.name /\ Valid(Local)
        /\ flash' = flash \/ \E f : Puts(Offer.name, f) /\ f.kind = "data"
    BY <1>1, <1>2, <1>4, StartsReceive DEF Receives
  <2> QED
    BY <1>1, <2>1, PutsFacts DEF Local, Valid
<1>5. CASE Finishes
  BY <1>2, <1>5 DEF Finishes
<1> QED
  BY <1>1, <1>3, <1>4, <1>5, StateSteps

(* The files the programmer left are animations, each under its own name.  *)
LEMMA SeededSound == ASSUME NEW n \in Name PROVE
  /\ Sound(n, SeededFile(n))
  /\ SeededFile(n).kind = "data" =>
       \E h \in Seed : h.name = n /\ SeededFile(n) = Stored(h, FramesOf(n))
<1>1. CASE \E h \in Seed : h.name = n
  <2>1. PICK h \in Seed : h.name = n /\ SeededFile(n) = Stored(h, FramesOf(n))
    BY <1>1 DEF SeededFile
  <2>2. /\ SeededFile(n).hdr = h /\ SeededFile(n).frames = FramesOf(n)
        /\ h.name = n /\ h.len = AnimLen[n] /\ ~h.direct /\ Whole(SeededFile(n))
    BY <2>1, SeedAssumption, OwnFrames DEF Stored
  <2>3. Len(SeededFile(n).frames) <= AnimLen[n]
    BY <2>2, OwnFrames, BoundAssumption
  <2> QED
    BY <2>1, <2>2, <2>3 DEF Sound
<1>2. CASE ~ \E h \in Seed : h.name = n
  BY <1>2, BareFiles DEF SeededFile, Absent
<1> QED
  BY <1>1, <1>2

(* StoreInv holds when the badge is first switched on.                     *)
LEMMA InitStoreInv == ASSUME Init PROVE StoreInv
<1>1. AirInv
  BY EmptySeq DEF Init, AirInv
<1>2. FilesSound
  BY SeededSound DEF Init, FilesSound
<1>3. PostInv /\ DiscardInv
  BY DEF Init, PostInv, DiscardInv, Receives, NewLink
<1> QED
  BY <1>1, <1>2, <1>3 DEF StoreInv

(* Whatever fails and whatever is heard, the air carries what peers send,  *)
(* every file that has a header belongs to the name in it, and a receive   *)
(* has a flash under it.                                                   *)
LEMMA StoreInvariance == Spec => [](IInv /\ StoreInv)
<1>1. LoneInit => StoreInv
  BY InitStoreInv DEF LoneInit
<1>2. IInv /\ StoreInv /\ [Next]_lvars => StoreInv'
  BY NextIsStep, AirStep, SoundStep, PostStep, DiscardStep DEF StoreInv
<1> QED
  BY <1>1, <1>2, Invariance, PTL DEF Spec

-----------------------------------------------------------------------------
(* The display and the peer of a transaction.                              *)

(* A message of a station that is not the peer of the transaction is only  *)
(* answered.                                                               *)
LEMMA StrangerStep ==
  ASSUME [Next]_lvars, link.state # "IDLE", link.peer # NoPeer, inq # << >>, inq' # inq,
         boot' = boot, Msg.op # "NOISE", Msg.from # link.peer
  PROVE UNCHANGED <<link, flash, index, led>>
<1>1. ~FromPeer(Msg)
  BY DEF FromPeer
<1>2. Receive \/ AirFault
  <2>1. ~UNCHANGED lvars /\ ~PeerHears /\ ~PowerCut
    BY DEF lvars, vars, PeerHears, PowerCut
  <2> QED
    BY <2>1 DEF Next, BadgeHears, Cut
<1>3. CASE Receive
  <2>1. RxRejected \/ RxNoise
    BY <1>1, <1>3 DEF Receive, RxIgnored, RxGetFile, RxHelo, RxDelete, RxDeleteRefused, RxPutRefused,
                      RxPutUnreadable, RxPutDiscarded, RxPutUnlocks, RxPutNew, Offered, RxFrame,
                      RxLastFrame, RxFrameUnwritten, FrameArrives, RxAck, RxAckLast, RxNackResends,
                      RxNackGivesUp, Sending, Arrives
  <2> QED
    BY <2>1 DEF RxRejected, RxNoise
<1>4. CASE AirFault
  BY <1>1, <1>4 DEF AirFault, RxLost, RxGarbledHeader, RxGarbledPayload
<1> QED
  BY <1>2, <1>3, <1>4

(* In every behaviour, whatever fails, a station other than the peer of a  *)
(* transaction cannot end it, change its buffer or touch what the badge    *)
(* holds and shows (validate_header, ir.c).                                *)
THEOREM StrangersLeaveAlone == Spec => StrangersDoNotDisturb
<1>1. [Next]_lvars =>
        [link.state # "IDLE" /\ link.peer # NoPeer /\ inq # << >> /\ inq' # inq /\ boot' = boot
           /\ Msg.op # "NOISE" /\ Msg.from # link.peer =>
           UNCHANGED <<link, flash, index, led>>]_lvars
  BY StrangerStep
<1> QED
  BY <1>1, PTL DEF Spec, StrangersDoNotDisturb

(* A file that is there loads.                                             *)
LEMMA ShowsStored ==
  ASSUME ReadsWork, post = 0, NEW fs, NEW n \in Name, fs[n].kind = "data", NEW old,
         NEW a \in AfterSetAnim(fs, n, old)
  PROVE a = fs[n].hdr
BY OutcomeFacts DEF AfterSetAnim, ReadsWork, Outcomes

(* The last frame puts the animation it completes on display.              *)
LEMMA LastFrameShows ==
  ASSUME ReadsWork, IInv, StoreInv, FilesSound', RxLastFrame
  PROVE /\ link.header.name \in Name
        /\ led'.ambient = flash'.files[link.header.name].hdr
        /\ led'.ambient.name = link.header.name
<1>1. TypeOK /\ LinkConsistent /\ InFlightFile
  BY DEF IInv
<1>2. FrameArrives /\ Receives(link) /\ post = 0
  BY DEF RxLastFrame, FrameArrives, Receives, StoreInv, PostInv
<1>3. link.header.name \in Name /\ flash'.files[link.header.name].kind = "data"
  <2>1. CASE link.state = "FILE_RX"
    <3>1. link.fd = link.header.name /\ link.fd \in Name /\ ~link.discard
      BY <1>1, <2>1 DEF LinkConsistent
    <3>2. flash' = AppendFrame(Msg.body)
      BY <3>1 DEF RxLastFrame, FrameStored
    <3>3. flash.files[link.fd].kind = "data" /\ flash.files[link.fd] \in File
      BY <1>1, <2>1, <3>1 DEF InFlightFile, TypeOK, Flash
    <3>4. PICK fr : Puts(link.fd, [flash.files[link.fd] EXCEPT !.frames = fr])
      BY <1>1, <3>1, <3>2, AppendPuts
    <3>5. flash'.files[link.fd].kind = "data"
      BY <1>1, <3>1, <3>3, <3>4, PutsFacts DEF File
    <3> QED
      BY <3>1, <3>5
  <2>2. CASE link.state = "FILE_RX_DONE"
    <3>1. flash' = flash
      BY <1>1, <2>2 DEF LinkConsistent, RxLastFrame, FrameStored
    <3> QED
      BY <2>2, <3>1 DEF StoreInv, DiscardInv
  <2> QED
    BY <1>2, <2>1, <2>2 DEF Receives
<1>4. PICK a \in AfterSetAnim(flash'.files, link.header.name, led.ambient) :
        led' = [led EXCEPT !.ambient = a, !.animId = a.id]
  BY DEF RxLastFrame
<1>5. a = flash'.files[link.header.name].hdr
  BY <1>2, <1>3, <1>4, ShowsStored
<1>6. led'.ambient = a
  BY <1>1, <1>4 DEF TypeOK, Led
<1>7. a.name = link.header.name
  BY <1>3, <1>5 DEF FilesSound, Sound
<1> QED
  BY <1>3, <1>5, <1>6, <1>7

(* In every behaviour in which reads succeed, a badge that leaves a        *)
(* transaction shows again what it showed before it, or the animation that *)
(* it was about (serial_state_transition, serial_rx_done, serial_timeout). *)
THEOREM DisplayReturns == ASSUME ReadsWork PROVE Spec => DisplayComesBack
<1>1. IInv /\ StoreInv /\ FilesSound' /\ [Next]_lvars =>
        [link.state # "IDLE" /\ link'.state = "IDLE" /\ boot' = boot =>
           led'.ambient = led.idle \/ led'.ambient.name = link.header.name]_lvars
  <2> SUFFICES ASSUME IInv, StoreInv, FilesSound', [Next]_lvars,
                      link.state # "IDLE", link'.state = "IDLE", boot' = boot
               PROVE led'.ambient = led.idle \/ led'.ambient.name = link.header.name
    OBVIOUS
  <2>1. TypeOK /\ LinkConsistent
    BY DEF IInv
  <2>2. ~PowerCut
    BY DEF PowerCut
  <2>3. RxLastFrame \/ RxAckLast \/ RxNackGivesUp \/ TimeOut
    BY <2>1, <2>2, NextIsStep, StateSteps DEF Stays, Starts, Finishes
  <2>4. CASE RxLastFrame
    BY <2>4, LastFrameShows
  <2>5. CASE RxAckLast \/ RxNackGivesUp \/ TimeOut
    BY <2>1, <2>5 DEF RxAckLast, RxNackGivesUp, TimeOut, TimeoutSending, TimeoutReceiving, EndSend,
                      TypeOK, Led
  <2> QED
    BY <2>3, <2>4, <2>5
<1>2. StoreInv => FilesSound
  BY DEF StoreInv
<1> QED
  BY <1>1, <1>2, StoreInvariance, PTL DEF Spec, DisplayComesBack

-----------------------------------------------------------------------------
(* What a step does to the animations, the ids and the cache.              *)

(* The animation of a name is as it was, or there still is none.           *)
AnimKept(m) ==
  LET a == flash.files[m]
      b == flash'.files[m]
  IN /\ Valid(b) <=> Valid(a)
     /\ Valid(a) => b.hdr.id = a.hdr.id /\ b.hdr.unlocked = a.hdr.unlocked

(* All animations are as they were, or all but one.                        *)
AllKept == \A m \in Name : AnimKept(m)
OthersKept(n) == \A m \in Name \ {n} : AnimKept(m)

(* A name that is no animation may leave the cache, where it was not.      *)
CacheTrims ==
  \/ index'.cache = index.cache
  \/ \E n \in Name : ~Valid(flash.files[n]) /\ index'.cache = Uncached(index.cache, n)

(* Nothing appears or goes, no id is given back.                           *)
Keeps == AllKept /\ index'.nextId >= index.nextId /\ (WritesWork => CacheTrims)

(* An animation appears under the next id, which is used up.               *)
Collects(n) ==
  LET b == flash'.files[n]
  IN /\ ~Valid(flash.files[n]) /\ Valid(b) /\ OthersKept(n) /\ post = 0 /\ boot # 0
     /\ b.hdr.id = index.nextId /\ index'.nextId = index.nextId + 1
     /\ index'.cache = IF b.hdr.unlocked THEN Cached(index.cache, b.hdr.id, n) ELSE index.cache

(* A locked animation is unlocked under its id and enters the cache.       *)
Unlocks(n) ==
  LET a == flash.files[n]
      b == flash'.files[n]
  IN /\ Valid(a) /\ ~a.hdr.unlocked /\ OthersKept(n) /\ post = 0
     /\ Valid(b) /\ b.hdr.unlocked /\ b.hdr.id = a.hdr.id
     /\ index' = [index EXCEPT !.cache = Cached(index.cache, a.hdr.id, n)]

(* The animation the controller named is gone, and so is its cache entry.  *)
Removes(n) ==
  /\ n = DeleteOrdered /\ n \notin SystemName /\ OthersKept(n) /\ ~Valid(flash'.files[n])
  /\ index' = [index EXCEPT !.cache = Uncached(index.cache, n)]

(* A mount recomputes the ids and the cache; every other step does one of  *)
(* these things.                                                           *)
Mounts == StorageInit \/ StorageInitFails \/ StorageInitFormats
Moves == Keeps \/ \E n \in Name : Collects(n) \/ Unlocks(n) \/ Removes(n)

(* A step that puts one file keeps the animations of the other names, and  *)
(* all of them when neither the old file nor the new one is an animation.  *)
LEMMA PutsKeeps ==
  ASSUME TypeOK, NEW n \in Name, NEW f, Puts(n, f)
  PROVE /\ OthersKept(n) /\ flash'.files[n] = f
        /\ ~Valid(flash.files[n]) /\ ~Valid(f) => AllKept
        /\ f = flash.files[n] => AllKept
BY PutsFacts DEF OthersKept, AllKept, AnimKept

(* Files that stay as they are keep every animation.                       *)
LEMMA SameKeeps == ASSUME flash'.files = flash.files PROVE AllKept
BY DEF AllKept, AnimKept

(* The next id is a number, and so is the id of a stored animation.        *)
LEMMA IdTypes == ASSUME TypeOK PROVE
  /\ index.nextId \in Nat /\ index.cache \in Cache
  /\ \A n \in Name : flash.files[n].hdr.id \in 0..MaxId /\ flash.files[n].hdr \in Anim
<1>1. index.nextId \in Nat /\ index.cache \in Cache
  BY BoundAssumption DEF TypeOK, Index
<1>2. \A n \in Name : flash.files[n].hdr \in Anim
  BY HeaderType DEF TypeOK, Flash
<1> QED
  BY <1>1, <1>2 DEF Anim

(* An index that stays, or loses a name that was no animation.             *)
LEMMA IndexKeeps ==
  ASSUME TypeOK, AllKept,
         \/ index' = index
         \/ \E n \in Name : /\ ~Valid(flash.files[n])
                            /\ index' = [index EXCEPT !.cache = Uncached(index.cache, n)]
  PROVE Keeps
<1>1. index.nextId \in Nat
  BY IdTypes
<1>2. index'.nextId = index.nextId
  BY DEF TypeOK, Index
<1>3. CacheTrims
  BY DEF CacheTrims, TypeOK, Index
<1> QED
  BY <1>1, <1>2, <1>3 DEF Keeps

(* A frame that arrives keeps the animations, or collects one.             *)
LEMMA FrameMoves ==
  ASSUME ReadsWork, IInv, StoreInv, RxFrame \/ RxLastFrame \/ RxFrameUnwritten, FilesSound'
  PROVE Moves
<1>1. TypeOK /\ LinkConsistent /\ InFlightFile
  BY DEF IInv
<1>2. RxFrame \/ RxFrameUnwritten => index' = index
  BY DEF RxFrame, RxFrameUnwritten
<1>3. RxLastFrame => index' = IF link.discard THEN index
                     ELSE [nextId |-> index.nextId + 1,
                           cache  |-> IF link.header.unlocked
                                      THEN Cached(index.cache, led'.ambient.id, link.header.name)
                                      ELSE index.cache]
  <2> SUFFICES ASSUME RxLastFrame
               PROVE index' = IF link.discard THEN index
                     ELSE [nextId |-> index.nextId + 1,
                           cache  |-> IF link.header.unlocked
                                      THEN Cached(index.cache, led'.ambient.id, link.header.name)
                                      ELSE index.cache]
    OBVIOUS
  <2>1. PICK a \in AfterSetAnim(flash'.files, link.header.name, led.ambient) :
          /\ led' = [led EXCEPT !.ambient = a, !.animId = a.id]
          /\ index' = IF link.discard THEN index
                      ELSE [nextId |-> index.nextId + 1,
                            cache  |-> IF link.header.unlocked
                                       THEN Cached(index.cache, a.id, link.header.name)
                                       ELSE index.cache]
    BY DEF RxLastFrame
  <2>2. led'.ambient = a
    BY <1>1, <2>1 DEF TypeOK, Led
  <2> QED
    BY <2>1, <2>2
<1>4. CASE flash' = flash /\ (link.discard \/ RxFrameUnwritten)
  <2>1. index' = index
    BY <1>2, <1>3, <1>4
  <2> QED
    BY <1>1, <1>4, <2>1, SameKeeps, IndexKeeps DEF Moves
<1>5. CASE ~link.discard /\ link.state = "FILE_RX" /\ link.fd \in Name /\ Lengthens
  <2>1. PICK f : /\ Puts(link.fd, f) /\ Sound(link.fd, f) /\ f.hdr = link.header
                 /\ Valid(f) => RxLastFrame
                 /\ WritesWork /\ RxLastFrame => Valid(f)
    BY <1>5 DEF Lengthens
  <2>2. link.fd = link.header.name /\ ~Valid(flash.files[link.fd])
    BY <1>1, <1>5 DEF LinkConsistent, Lengthens
  <2>3. flash'.files[link.fd] = f /\ OthersKept(link.fd) /\ (~Valid(f) => AllKept)
    BY <1>1, <1>5, <2>1, <2>2, PutsKeeps
  <2>4. CASE ~RxLastFrame
    BY <1>1, <1>2, <2>1, <2>3, <2>4, IndexKeeps DEF Moves
  <2>5. CASE RxLastFrame /\ ~Valid(f)
    <3>1. index'.nextId = index.nextId + 1 /\ index.nextId \in Nat
      BY <1>1, <1>3, <1>5, <2>5, IdTypes
    <3> QED
      BY <2>1, <2>3, <2>5, <3>1 DEF Moves, Keeps
  <2>6. CASE RxLastFrame /\ Valid(f)
    <3>1. led'.ambient = f.hdr
      BY <2>2, <2>3, <2>6, LastFrameShows
    <3>2. f.hdr.id = index.nextId /\ post = 0 /\ boot # 0
      <4>1. Running
        BY <1>1, <1>5 DEF LinkConsistent, NewLink
      <4> QED
        BY <1>1, <1>5, <2>1, <4>1, SystemTypes DEF InFlightFile, StoreInv, PostInv, Receives, Running
    <3>3. /\ index'.nextId = index.nextId + 1
          /\ index'.cache = IF f.hdr.unlocked THEN Cached(index.cache, f.hdr.id, link.fd)
                            ELSE index.cache
      BY <1>3, <1>5, <2>1, <2>2, <2>6, <3>1
    <3>4. Collects(link.fd)
      BY <2>2, <2>3, <2>6, <3>2, <3>3 DEF Collects
    <3> QED
      BY <1>5, <3>4 DEF Moves
  <2> QED
    BY <2>4, <2>5, <2>6
<1> QED
  BY <1>1, <1>4, <1>5, FramePuts

(* When reads succeed, every step but mounting keeps the animations, or    *)
(* collects, unlocks or removes one.                                       *)
LEMMA AnimSteps ==
  ASSUME ReadsWork, IInv, StoreInv, Step
  PROVE \/ Mounts
        \/ PowerCut /\ AllKept
        \/ Moves /\ post' = post /\ (boot' # 0 => boot # 0)
<1>1. TypeOK /\ LinkConsistent /\ InFlightFile /\ FilesSound /\ AirInv
  BY DEF IInv, StoreInv
<1>2. FilesSound'
  BY SoundStep
<1>3. CASE PowerCut
  <2>1. AllKept
    BY <1>1, <1>3, CutPuts, SameKeeps, PutsKeeps, BareFiles
  <2> QED
    BY <1>3, <2>1
<1>4. CASE LedInitKeeps \/ LedInitShows
  <2>1. boot # 0
    <3>1. boot \in DOMAIN SystemAnims \/ boot = Booted - 1
      BY <1>4 DEF LedInitKeeps, LedInitShows
    <3>2. DOMAIN SystemAnims = 1..Len(SystemAnims) /\ Len(SystemAnims) \in Nat
      BY SystemAssumption
    <3> QED
      BY <3>1, <3>2, SystemTypes
  <2>2. flash' = flash /\ index' = index /\ post' = post
    BY <1>4 DEF LedInitKeeps, LedInitShows
  <2> QED
    BY <1>1, <2>1, <2>2, SameKeeps, IndexKeeps DEF Moves
<1>5. CASE LedInitSaves
  <2> DEFINE n == SystemAnims[boot]
  <2>1. /\ n \in Name /\ post = 0 /\ boot \in 1..Len(SystemAnims) /\ ~Valid(flash.files[n])
        /\ index' = [index EXCEPT !.nextId = index.nextId + 1]
    BY <1>1, <1>5, SeedPuts
  <2>2. PICK f : /\ Puts(n, f)
                 /\ f = flash.files[n] \/ ~Valid(f) \/ (f.hdr.id = index.nextId /\ ~f.hdr.unlocked)
    BY <1>1, <1>5, SeedPuts
  <2>3. /\ flash'.files[n] = f /\ OthersKept(n)
        /\ ~Valid(f) => AllKept
    BY <1>1, <2>1, <2>2, PutsKeeps
  <2>4. /\ index'.nextId = index.nextId + 1 /\ index'.cache = index.cache
        /\ index.nextId \in Nat
    BY <1>1, <2>1, IdTypes DEF TypeOK, Index
  <2>5. boot # 0 /\ post' = post
    BY <1>5, <2>1 DEF LedInitSaves
  <2>6. CASE ~Valid(f)
    BY <2>3, <2>4, <2>5, <2>6 DEF Moves, Keeps, CacheTrims
  <2>7. CASE Valid(f)
    BY <2>1, <2>2, <2>3, <2>4, <2>5, <2>7 DEF Moves, Collects
  <2> QED
    BY <2>6, <2>7
<1>6. CASE ~Boot /\ ~PowerCut
  <2>1. boot' = boot /\ post' = post
    BY <1>6, BootPost
  <2>2. CASE RxDelete
    BY <1>1, <2>1, <2>2, DeletePuts, PutsKeeps, BareFiles DEF Moves, Removes
  <2>3. CASE RxPutUnlocks
    <3> DEFINE n == Offer.name
               old == flash.files[n]
    <3>1. /\ n \in Name /\ Valid(old) /\ ~old.hdr.unlocked /\ post = 0
          /\ index' = [index EXCEPT !.cache = Cached(index.cache, old.hdr.id, n)]
          /\ \/ flash' = flash /\ ~WritesWork
             \/ \E f : Puts(n, f) /\ Valid(f) /\ f.hdr.unlocked /\ f.hdr.id = old.hdr.id
      BY <1>1, <2>3, UnlockPuts
    <3>2. CASE flash' = flash /\ ~WritesWork
      <4>1. index'.nextId = index.nextId /\ index.nextId \in Nat
        BY <1>1, <3>1, IdTypes DEF TypeOK, Index
      <4> QED
        BY <2>1, <3>2, <4>1, SameKeeps DEF Moves, Keeps
    <3>3. CASE \E f : Puts(n, f) /\ Valid(f) /\ f.hdr.unlocked /\ f.hdr.id = old.hdr.id
      BY <1>1, <2>1, <3>1, <3>3, PutsKeeps DEF Moves, Unlocks
    <3> QED
      BY <3>1, <3>2, <3>3
  <2>4. CASE RxPutNew
    <3> DEFINE n == Offer.name
    <3>1. /\ n \in Name /\ (~Valid(flash.files[n]) \/ MayFail("read"))
          /\ \/ flash' = flash /\ index' = index
             \/ /\ post = 0 /\ \E f : Puts(n, f) /\ ~Valid(f)
                /\ index' \in {index, [index EXCEPT !.cache = Uncached(index.cache, n)]}
      BY <1>1, <2>4, NewPuts
    <3>2. CASE flash' = flash /\ index' = index
      BY <1>1, <2>1, <3>2, SameKeeps, IndexKeeps DEF Moves
    <3>3. CASE /\ post = 0 /\ \E f : Puts(n, f) /\ ~Valid(f)
               /\ index' \in {index, [index EXCEPT !.cache = Uncached(index.cache, n)]}
      <4>1. ~Valid(flash.files[n])
        BY <3>1, <3>3, OutcomeFacts DEF ReadsWork
      <4> QED
        BY <1>1, <2>1, <3>1, <3>3, <4>1, PutsKeeps, IndexKeeps DEF Moves
    <3> QED
      BY <3>1, <3>2, <3>3
  <2>5. CASE RxFrame \/ RxLastFrame \/ RxFrameUnwritten
    BY <1>2, <2>1, <2>5, FrameMoves
  <2>6. CASE TimeoutReceiving
    BY <1>1, <2>1, <2>6, TimeoutPuts, SameKeeps, PutsKeeps, IndexKeeps, BareFiles DEF Moves
  <2>7. CASE flash'.files = flash.files /\ index' = index
    BY <1>1, <2>1, <2>7, SameKeeps, IndexKeeps DEF Moves
  <2> QED
    BY <1>1, <1>6, <2>2, <2>3, <2>4, <2>5, <2>6, <2>7, OtherSteps
<1> QED
  BY <1>3, <1>4, <1>5, <1>6 DEF Boot, Mounts

-----------------------------------------------------------------------------
(* Ids are distinct.                                                       *)

(* A mount that succeeds reads the animations that are there.              *)
LEMMA MountFacts ==
  ASSUME ReadsWork, TypeOK, PostInv, StorageInit \/ StorageInitFormats
  PROVE /\ flash'.files \in [Name -> File] /\ post' = 0
        /\ index' = Scanned(flash'.files, Live(flash'.files))
<1>1. PICK fl \in Flash : Mounted(fl)
  <2>1. [files |-> [n \in Name |-> Absent], animid |-> << >>] \in Flash
    BY ValueTypes DEF Flash
  <2> QED
    BY <2>1 DEF StorageInit, StorageInitFormats, TypeOK
<1>2. post = 0 /\ post' = 0
  BY <1>1, SystemAssumption DEF Mounted, PostInv
<1>3. Readings(fl.files) = {Live(fl.files)}
  BY <1>2, OutcomeFacts DEF Readings, ReadsWork
<1>4. flash'.files = fl.files /\ index' = Scanned(fl.files, Live(fl.files))
  BY <1>1, <1>3 DEF Mounted, Flash
<1> QED
  BY <1>2, <1>4 DEF Flash

(* A mount that fails leaves the files, and a badge without a flash.       *)
LEMMA MountFails == ASSUME StorageInitFails PROVE
  flash' = flash /\ post' = 1
BY DEF StorageInitFails

(* Moving from one holding to another keeps the ids of the animations apart *)
(* and below the next.                                                     *)
LEMMA MovesIds ==
  ASSUME TypeOK, TypeOK', DistinctIds, Moves, post' = post, boot' # 0 => boot # 0
  PROVE DistinctIds'
<1> DEFINE Id(n) == flash.files[n].hdr.id
<1>1. /\ \A m, n \in Live(flash.files) : m # n => Id(m) # Id(n)
      /\ boot # 0 /\ post = 0 => \A n \in Live(flash.files) : Id(n) < index.nextId
  BY DEF DistinctIds
<1>2. index.nextId \in Nat /\ \A n \in Name : Id(n) \in Nat
  BY IdTypes, BoundAssumption
<1>3. \A n \in Name : n \in Live(flash.files) <=> Valid(flash.files[n])
  BY DEF Live
<1>4. \A n \in Name : n \in Live(flash'.files) <=> Valid(flash'.files[n])
  BY DEF Live
<1>5. Live(flash'.files) \subseteq Name
  BY DEF Live
<1>6. ASSUME AllKept PROVE \A n \in Live(flash'.files) : n \in Live(flash.files) /\ flash'.files[n].hdr.id = Id(n)
  BY <1>3, <1>4, <1>5, <1>6 DEF AllKept, AnimKept
<1>7. ASSUME NEW n \in Name, OthersKept(n)
      PROVE \A m \in Live(flash'.files) \ {n} : m \in Live(flash.files) /\ flash'.files[m].hdr.id = Id(m)
  BY <1>3, <1>4, <1>5, <1>7 DEF OthersKept, AnimKept
<1>8. index'.nextId \in Nat
  BY BoundAssumption DEF TypeOK, Index
<1>9. CASE Keeps
  BY <1>1, <1>2, <1>5, <1>6, <1>8, <1>9 DEF Keeps, DistinctIds
<1>10. ASSUME NEW n \in Name, Collects(n) PROVE DistinctIds'
  <2>1. /\ OthersKept(n) /\ flash'.files[n].hdr.id = index.nextId /\ post = 0 /\ boot # 0
        /\ index'.nextId = index.nextId + 1
    BY <1>10 DEF Collects
  <2>2. \A m \in Live(flash'.files) \ {n} : flash'.files[m].hdr.id < index.nextId
    BY <1>1, <1>7, <2>1
  <2>3. \A m \in Live(flash'.files) : m \in Name /\ (m # n => flash'.files[m].hdr.id \in Nat)
    BY <1>2, <1>5, <1>7, <2>1
  <2>4. \A l, m \in Live(flash'.files) : l # m => flash'.files[l].hdr.id # flash'.files[m].hdr.id
    BY <1>1, <1>2, <1>7, <2>1, <2>2, <2>3
  <2>5. \A m \in Live(flash'.files) : flash'.files[m].hdr.id < index'.nextId
    BY <1>2, <2>1, <2>2, <2>3
  <2> QED
    BY <2>4, <2>5 DEF DistinctIds
<1>11. ASSUME NEW n \in Name, Unlocks(n) PROVE DistinctIds'
  <2>1. /\ OthersKept(n) /\ flash'.files[n].hdr.id = Id(n) /\ n \in Live(flash.files)
        /\ index'.nextId = index.nextId
    BY <1>1, <1>3, <1>11 DEF Unlocks, TypeOK, Index
  <2>2. \A m \in Live(flash'.files) : m \in Live(flash.files) /\ flash'.files[m].hdr.id = Id(m)
    BY <1>7, <2>1
  <2> QED
    BY <1>1, <2>1, <2>2 DEF DistinctIds
<1>12. ASSUME NEW n \in Name, Removes(n) PROVE DistinctIds'
  <2>1. /\ OthersKept(n) /\ n \notin Live(flash'.files) /\ index'.nextId = index.nextId
    BY <1>1, <1>4, <1>12 DEF Removes, TypeOK, Index
  <2>2. \A m \in Live(flash'.files) : m \in Live(flash.files) /\ flash'.files[m].hdr.id = Id(m)
    BY <1>7, <2>1
  <2> QED
    BY <1>1, <2>1, <2>2 DEF DistinctIds
<1> QED
  BY <1>9, <1>10, <1>11, <1>12 DEF Moves

(* So does every step.                                                     *)
LEMMA IdsStep ==
  ASSUME ReadsWork, IInv, StoreInv, DistinctIds, Step
  PROVE DistinctIds'
<1> DEFINE Id(n) == flash.files[n].hdr.id
<1>1. /\ \A m, n \in Live(flash.files) : m # n => Id(m) # Id(n)
      /\ boot # 0 /\ post = 0 => \A n \in Live(flash.files) : Id(n) < index.nextId
      /\ TypeOK /\ PostInv
  BY DEF DistinctIds, IInv, StoreInv
<1>2. Live(flash'.files) \subseteq Name
  BY DEF Live
<1>3. ASSUME AllKept PROVE \A n \in Live(flash'.files) : n \in Live(flash.files) /\ flash'.files[n].hdr.id = Id(n)
  BY <1>3 DEF AllKept, AnimKept, Live
<1>4. CASE Mounts
  <2>1. CASE StorageInitFails
    BY <1>1, <2>1, MountFails DEF DistinctIds
  <2>2. CASE StorageInit \/ StorageInitFormats
    <3>1. \A n \in Live(flash'.files) : flash'.files[n].hdr.id < index'.nextId
      BY <1>1, <1>2, <2>2, MountFacts, NextIdAbove, ScannedType
    <3>2. \/ flash'.files = flash.files
          \/ \A n \in Name : flash'.files[n] = Absent
      BY <1>1, <2>2 DEF StorageInit, StorageInitFormats, Mounted, TypeOK, Flash
    <3>3. (\A n \in Name : flash'.files[n] = Absent) => Live(flash'.files) = {}
      BY BareFiles DEF Live
    <3> QED
      BY <1>1, <3>1, <3>2, <3>3 DEF DistinctIds
  <2> QED
    BY <1>4, <2>1, <2>2 DEF Mounts
<1>5. CASE PowerCut /\ AllKept
  BY <1>1, <1>3, <1>5 DEF DistinctIds, PowerCut
<1>6. CASE Moves /\ post' = post /\ (boot' # 0 => boot # 0)
  BY <1>1, <1>6, TypeStep, MovesIds DEF IInv
<1> QED
  BY <1>4, <1>5, <1>6, AnimSteps

(* No two animations that the programmer leaves share an id.               *)
LEMMA InitDistinctIds == ASSUME Init PROVE DistinctIds
<1>1. ASSUME NEW m \in Live(flash.files), NEW n \in Live(flash.files), m # n
      PROVE flash.files[m].hdr.id # flash.files[n].hdr.id
  <2>1. m \in Name /\ n \in Name /\ flash.files[m].kind = "data" /\ flash.files[n].kind = "data"
    BY DEF Live, Valid
  <2>2. flash.files[m] = SeededFile(m) /\ flash.files[n] = SeededFile(n)
    BY <2>1 DEF Init
  <2>3. PICK g \in Seed : g.name = m /\ flash.files[m] = Stored(g, FramesOf(m))
    BY <2>1, <2>2, SeededSound
  <2>4. PICK h \in Seed : h.name = n /\ flash.files[n] = Stored(h, FramesOf(n))
    BY <2>1, <2>2, SeededSound
  <2>5. g.id # h.id
    BY <1>1, <2>3, <2>4, SeedAssumption
  <2> QED
    BY <2>3, <2>4, <2>5 DEF Stored
<1> QED
  BY <1>1 DEF Init, DistinctIds

(* In every behaviour in which reads succeed no two stored animations ever *)
(* share an id, and the next id is above all of them: whatever writes fail *)
(* and wherever the power goes (storage_init, storage_save_direct_anim,    *)
(* serial_rx_done).                                                        *)
THEOREM IdsStayDistinct == ASSUME ReadsWork PROVE Spec => []DistinctIds
<1>1. LoneInit => DistinctIds
  BY InitDistinctIds DEF LoneInit
<1>2. IInv /\ StoreInv /\ DistinctIds /\ [Next]_lvars => DistinctIds'
  BY NextIsStep, IdsStep
<1> QED
  BY <1>1, <1>2, StoreInvariance, PTL DEF Spec

-----------------------------------------------------------------------------
(* The promise of AnimLibrary is kept.                                     *)

(* Every step of a badge is one that AnimLibrary allows.                   *)
LEMMA LibraryStep ==
  ASSUME ReadsWork, NeverFormats, IInv, StoreInv, [Next]_lvars
  PROVE [Library!Next]_(Library!vars)
<1> DEFINE held == [n \in Name |-> HoldingOf(flash.files[n])]
           heldNext == [n \in Name |-> HoldingOf(flash'.files[n])]
<1>1. /\ Library!vars = <<held, DeleteOrdered>>
      /\ Library!vars' = <<heldNext, DeleteOrdered'>>
  BY DEF Library!vars
<1>2. DeleteOrdered' \in Name \cup {NoName}
  BY DEF DeleteOrdered
<1>3. SUFFICES \/ heldNext = held
               \/ \E n \in Name :
                    \/ held[n] = "none" /\ heldNext \in {[held EXCEPT ![n] = h] : h \in {"locked", "unlocked"}}
                    \/ held[n] = "locked" /\ heldNext = [held EXCEPT ![n] = "unlocked"]
                    \/ /\ held[n] # "none" /\ DeleteOrdered = n /\ n \notin SystemName
                       /\ heldNext = [held EXCEPT ![n] = "none"]
  BY <1>2 DEF Library!Next, Library!Collect, Library!Unlock, Library!Remove
<1>4. ASSUME NEW n \in Name, AnimKept(n) PROVE heldNext[n] = held[n]
  BY <1>4 DEF AnimKept, HoldingOf
<1>5. ASSUME AllKept PROVE heldNext = held
  BY <1>4, <1>5 DEF AllKept
<1>6. ASSUME NEW n \in Name, OthersKept(n) PROVE heldNext = [held EXCEPT ![n] = HoldingOf(flash'.files[n])]
  BY <1>4, <1>6 DEF OthersKept
<1>7. CASE Mounts
  <2>1. flash'.files = flash.files
    BY <1>7, MountFails DEF Mounts, StorageInitFormats, NeverFormats, StorageInit, Mounted, IInv, TypeOK, Flash
  <2> QED
    BY <1>5, <2>1, SameKeeps
<1>8. CASE Keeps
  BY <1>5, <1>8 DEF Keeps
<1>9. ASSUME NEW n \in Name, Collects(n) \/ Unlocks(n) \/ Removes(n)
      PROVE \/ heldNext = held
            \/ held[n] = "none" /\ heldNext \in {[held EXCEPT ![n] = h] : h \in {"locked", "unlocked"}}
            \/ held[n] = "locked" /\ heldNext = [held EXCEPT ![n] = "unlocked"]
            \/ /\ held[n] # "none" /\ DeleteOrdered = n /\ n \notin SystemName
               /\ heldNext = [held EXCEPT ![n] = "none"]
  <2>1. heldNext = [held EXCEPT ![n] = HoldingOf(flash'.files[n])]
    BY <1>6, <1>9 DEF Collects, Unlocks, Removes
  <2>2. CASE Collects(n)
    BY <2>1, <2>2 DEF Collects, HoldingOf
  <2>3. CASE Unlocks(n)
    BY <2>1, <2>3 DEF Unlocks, HoldingOf
  <2>4. CASE Removes(n)
    <3>1. heldNext = [held EXCEPT ![n] = "none"] /\ DeleteOrdered = n /\ n \notin SystemName
      BY <2>1, <2>4 DEF Removes, HoldingOf
    <3>2. held[n] = "none" => heldNext = held
      BY <3>1
    <3> QED
      BY <3>1, <3>2
  <2> QED
    BY <1>9, <2>2, <2>3, <2>4
<1> QED
  BY <1>5, <1>7, <1>8, <1>9, NextIsStep, AnimSteps DEF Moves

(* In every behaviour in which reads succeed and no mount formats the      *)
(* flash, the badge keeps the promise of AnimLibrary: it collects and      *)
(* unlocks, and loses an animation only to an order of the controller,     *)
(* never one of the firmware; neither a failed write nor a power cut in    *)
(* the middle of one takes an animation away.                              *)
THEOREM LibraryIsKept == ASSUME ReadsWork, NeverFormats PROVE Spec => LibraryKept
<1>1. LoneInit => Library!Init
  BY DEF LoneInit, Init, NewLink, Running, Booted, Library!Init, Library!Holding, HoldingOf, DeleteOrdered
<1>2. IInv /\ StoreInv /\ [Next]_lvars => [Library!Next]_(Library!vars)
  BY LibraryStep
<1> QED
  BY <1>1, <1>2, StoreInvariance, PTL DEF Spec, LibraryKept, Library!Spec

-----------------------------------------------------------------------------
(* The cache, and the animations of the firmware, where writes succeed.    *)

(* Among what WritesWork excludes are failed reads.                        *)
LEMMA WritesNeedReads == WritesWork => ReadsWork
BY DEF WritesWork, ReadsWork

(* What CacheExact says of files and a cache, name by name.                *)
Exact(fs, cache) ==
  \A i \in 0..CacheSize - 1 : {n \in {cache[i]} : n # NoName} = UnlockedAt(fs, Live(fs), i)

(* The animation of a name is there, unlocked, under an id.                *)
Unlocked(fs, n, i) ==
  n \in Name /\ Valid(fs[n]) /\ fs[n].hdr.unlocked /\ fs[n].hdr.id = i

(* A slot that names exactly the unlocked animation of its id, if any.     *)
LEMMA ExactByName == ASSUME NEW fs, NEW cache PROVE
  Exact(fs, cache) <=>
    \A i \in 0..CacheSize - 1 : \A n : (n = cache[i] /\ n # NoName) <=> Unlocked(fs, n, i)
<1>1. \A i, n : n \in UnlockedAt(fs, Live(fs), i) <=> Unlocked(fs, n, i)
  BY DEF UnlockedAt, Live, Unlocked
<1>2. \A i, n : n \in {k \in {cache[i]} : k # NoName} <=> n = cache[i] /\ n # NoName
  OBVIOUS
<1> QED
  BY <1>1, <1>2 DEF Exact

(* The scan of storage_init caches every unlocked animation, since no two  *)
(* compete for a slot.                                                     *)
LEMMA ScanExact ==
  ASSUME NEW fs, \A m, n \in Live(fs) : m # n => fs[m].hdr.id # fs[n].hdr.id
  PROVE Exact(fs, Scanned(fs, Live(fs)).cache)
<1> DEFINE cache == Scanned(fs, Live(fs)).cache
           At(i) == UnlockedAt(fs, Live(fs), i)
<1>1. \A i \in 0..CacheSize - 1 :
        cache[i] = IF At(i) = {} THEN NoName ELSE CHOOSE n \in At(i) : TRUE
  BY DEF Scanned
<1>2. \A i : \A m, n \in At(i) : m = n
  BY DEF UnlockedAt
<1>3. \A i : At(i) \subseteq Name
  BY DEF UnlockedAt, Live
<1>4. ASSUME NEW i \in 0..CacheSize - 1 PROVE {n \in {cache[i]} : n # NoName} = At(i)
  <2>1. CASE At(i) = {}
    BY <1>1, <2>1
  <2>2. CASE At(i) # {}
    <3>1. PICK n : n \in At(i)
      BY <2>2
    <3>2. cache[i] \in At(i)
      BY <1>1, <2>2
    <3>3. cache[i] # NoName
      BY <1>3, <3>2, NameAssumption
    <3> HIDE DEF cache, At
    <3> QED
      BY <1>2, <3>2, <3>3
  <2> QED
    BY <2>1, <2>2
<1> QED
  BY <1>4 DEF Exact

(* Keeping, collecting, unlocking and removing leave the cache exact.      *)
LEMMA MovesExact ==
  ASSUME WritesWork, TypeOK, DistinctIds, Exact(flash.files, index.cache),
         Moves, post = 0, boot # 0
  PROVE Exact(flash'.files, index'.cache)
<1> DEFINE Slot == 0..CacheSize - 1
           Was(n, i) == Unlocked(flash.files, n, i)
           Is(n, i) == Unlocked(flash'.files, n, i)
           cache == index.cache
           cacheNext == index'.cache
<1>1. \A i \in Slot : \A n : (n = cache[i] /\ n # NoName) <=> Was(n, i)
  BY ExactByName
<1>2. SUFFICES \A i \in Slot : \A n : (n = cacheNext[i] /\ n # NoName) <=> Is(n, i)
  BY ExactByName
<1>3. cache \in [Slot -> Name \cup {NoName}] /\ index.nextId \in Nat
  BY IdTypes DEF Cache
<1>4. ASSUME NEW m \in Name, AnimKept(m) PROVE \A i : Is(m, i) <=> Was(m, i)
  BY <1>4 DEF AnimKept, Unlocked
<1>5. \A m, i : m \notin Name => ~Is(m, i) /\ ~Was(m, i)
  BY DEF Unlocked
<1>6. ASSUME AllKept PROVE \A m, i : Is(m, i) <=> Was(m, i)
  BY <1>4, <1>5, <1>6 DEF AllKept
<1>7. ASSUME NEW n \in Name, OthersKept(n) PROVE \A m, i : m # n => (Is(m, i) <=> Was(m, i))
  BY <1>4, <1>5, <1>7 DEF OthersKept
<1>8. ASSUME NEW n \in Name
      PROVE \A i \in Slot : Uncached(cache, n)[i] = IF cache[i] = n THEN NoName ELSE cache[i]
  BY <1>3 DEF Uncached
<1>9. ASSUME NEW n \in Name, NEW id
      PROVE \A i \in Slot : Cached(cache, id, n)[i] = IF i = id /\ id < CacheSize THEN n ELSE cache[i]
  BY <1>3 DEF Cached
<1>10. NoName \notin Name
  BY NameAssumption
<1>11. \A i \in Slot : i < CacheSize
  BY BoundAssumption
<1>12. CASE Keeps
  <2>1. CacheTrims /\ \A m, i : Is(m, i) <=> Was(m, i)
    BY <1>6, <1>12 DEF Keeps
  <2>2. CASE cacheNext = cache
    BY <1>1, <2>1, <2>2
  <2>3. ASSUME NEW n \in Name, ~Valid(flash.files[n]), cacheNext = Uncached(cache, n)
        PROVE \A i \in Slot : cacheNext[i] = cache[i]
    <3>1. \A i : ~Was(n, i)
      BY <2>3 DEF Unlocked
    <3> HIDE DEF Was, Is, cache, cacheNext
    <3> QED
      BY <1>1, <1>8, <1>10, <2>3, <3>1
  <2> QED
    BY <1>1, <2>1, <2>2, <2>3 DEF CacheTrims
<1>13. ASSUME NEW n \in Name, Collects(n) \/ Unlocks(n)
       PROVE \A i \in Slot : \A m : (m = cacheNext[i] /\ m # NoName) <=> Is(m, i)
  <2> DEFINE id == flash'.files[n].hdr.id
  <2>1. \A m, i : m # n => (Is(m, i) <=> Was(m, i))
    BY <1>7, <1>13 DEF Collects, Unlocks
  <2>2. \A i : ~Was(n, i)
    BY <1>13 DEF Collects, Unlocks, Unlocked
  <2>3. \A i : Is(n, i) <=> flash'.files[n].hdr.unlocked /\ i = id
    BY <1>13 DEF Collects, Unlocks, Unlocked
  <2>4. cacheNext = IF flash'.files[n].hdr.unlocked THEN Cached(cache, id, n) ELSE cache
    <3>1. CASE Collects(n)
      BY <3>1 DEF Collects
    <3>2. CASE Unlocks(n)
      BY <3>2 DEF Unlocks, TypeOK, Index
    <3> QED
      BY <1>13, <3>1, <3>2
  <2>5. \A m : m # n => ~Was(m, id)
    <3>1. CASE Collects(n)
      <4>1. \A m \in Live(flash.files) : flash.files[m].hdr.id < index.nextId
        BY DEF DistinctIds
      <4>2. id = index.nextId
        BY <3>1 DEF Collects
      <4> QED
        BY <1>3, <4>1, <4>2 DEF Unlocked, Live
    <3>2. CASE Unlocks(n)
      <4>1. n \in Live(flash.files) /\ id = flash.files[n].hdr.id
        BY <3>2 DEF Unlocks, Live
      <4>2. \A m \in Live(flash.files) : m # n => flash.files[m].hdr.id # id
        BY <4>1 DEF DistinctIds
      <4> QED
        BY <4>2 DEF Unlocked, Live
    <3> QED
      BY <1>13, <3>1, <3>2
  <2> HIDE DEF Was, Is, cache, cacheNext, id
  <2>6. CASE ~flash'.files[n].hdr.unlocked
    BY <1>1, <2>1, <2>2, <2>3, <2>4, <2>6
  <2>7. CASE flash'.files[n].hdr.unlocked
    <3>1. \A i \in Slot : cacheNext[i] = IF i = id THEN n ELSE cache[i]
      BY <1>9, <1>11, <2>4, <2>7
    <3> QED
      BY <1>1, <1>10, <2>1, <2>2, <2>3, <2>5, <2>7, <3>1
  <2> QED
    BY <2>6, <2>7
<1>14. ASSUME NEW n \in Name, Removes(n)
       PROVE \A i \in Slot : \A m : (m = cacheNext[i] /\ m # NoName) <=> Is(m, i)
  <2>1. \A m, i : m # n => (Is(m, i) <=> Was(m, i))
    BY <1>7, <1>14 DEF Removes
  <2>2. \A i : ~Is(n, i)
    BY <1>14 DEF Removes, Unlocked
  <2>3. cacheNext = Uncached(cache, n)
    BY <1>14 DEF Removes, TypeOK, Index
  <2> HIDE DEF Was, Is, cache, cacheNext
  <2> QED
    BY <1>1, <1>8, <1>10, <2>1, <2>2, <2>3
<1> QED
  BY <1>12, <1>13, <1>14 DEF Moves

(* Every step leaves it exact.                                             *)
LEMMA CacheStep ==
  ASSUME WritesWork, IInv, StoreInv, DistinctIds, CacheExact, Step
  PROVE CacheExact'
<1>1. TypeOK /\ PostInv /\ ReadsWork
  BY WritesNeedReads DEF IInv, StoreInv
<1>2. CacheExact <=> (boot # 0 /\ post = 0 => Exact(flash.files, index.cache))
  BY DEF CacheExact, Exact
<1>3. SUFFICES ASSUME boot' # 0, post' = 0 PROVE Exact(flash'.files, index'.cache)
  BY DEF CacheExact, Exact
<1>4. CASE Mounts
  <2>1. StorageInit \/ StorageInitFormats
    BY <1>3, <1>4, MountFails DEF Mounts
  <2>2. DistinctIds'
    BY <1>1, IdsStep
  <2> QED
    BY <1>1, <2>1, <2>2, MountFacts, ScanExact DEF DistinctIds
<1>5. CASE PowerCut
  BY <1>3, <1>5 DEF PowerCut
<1>6. CASE Moves /\ post' = post /\ (boot' # 0 => boot # 0)
  BY <1>1, <1>2, <1>3, <1>6, MovesExact
<1> QED
  BY <1>1, <1>4, <1>5, <1>6, AnimSteps

(* In every behaviour in which what is written reads back, the cache names *)
(* exactly the unlocked animations of the ids it has slots for, after any  *)
(* reception, unlocking, deletion, timeout and reboot: SELECT skips none   *)
(* and lands on none that is locked or gone (storage_cache_anim_name,      *)
(* storage_uncache_anim_name_by_name).                                     *)
THEOREM CacheStaysExact == ASSUME WritesWork PROVE Spec => []CacheExact
<1>1. LoneInit => CacheExact
  BY DEF LoneInit, Init, CacheExact
<1>2. IInv /\ StoreInv /\ DistinctIds /\ CacheExact /\ [Next]_lvars => CacheExact'
  BY NextIsStep, CacheStep
<1> QED
  BY <1>1, <1>2, StoreInvariance, IdsStayDistinct, WritesNeedReads, PTL DEF Spec

(* led_init has seeded the animations of the firmware that it has passed.  *)
SeededInv ==
  boot # 0 /\ post = 0 =>
    \A i \in DOMAIN SystemAnims : i < boot => Valid(flash.files[SystemAnims[i]])

(* Moving from one holding to another takes no animation of the firmware.  *)
LEMMA MovesSeeded ==
  ASSUME Moves, NEW m \in Name, m \in SystemName, Valid(flash.files[m])
  PROVE Valid(flash'.files[m])
<1>1. CASE Keeps
  BY <1>1 DEF Keeps, AllKept, AnimKept
<1>2. ASSUME NEW n \in Name, Collects(n) \/ Unlocks(n) \/ Removes(n)
      PROVE Valid(flash'.files[m])
  <2>1. CASE m = n
    BY <1>2, <2>1 DEF Collects, Unlocks, Removes
  <2>2. CASE m # n
    BY <1>2, <2>2 DEF Collects, Unlocks, Removes, OthersKept, AnimKept
  <2> QED
    BY <2>1, <2>2
<1> QED
  BY <1>1, <1>2 DEF Moves

(* led_init passes none without, and no other step takes one away.         *)
LEMMA SeededStep ==
  ASSUME WritesWork, IInv, StoreInv, SeededInv, Step
  PROVE SeededInv'
<1>1. TypeOK /\ LinkConsistent /\ PostInv /\ ReadsWork
  BY WritesNeedReads DEF IInv, StoreInv
<1>2. /\ DOMAIN SystemAnims = 1..Len(SystemAnims) /\ Len(SystemAnims) \in Nat
      /\ \A i \in DOMAIN SystemAnims : SystemAnims[i] \in Name /\ SystemAnims[i] \in SystemName
  BY SystemAssumption DEF SystemName
<1>3. SUFFICES ASSUME boot' # 0, post' = 0, NEW i \in DOMAIN SystemAnims, i < boot'
      PROVE Valid(flash'.files[SystemAnims[i]])
  BY DEF SeededInv
<1>4. CASE Mounts
  <2>1. boot' = 1
    BY <1>3, <1>4, MountFails DEF Mounts, StorageInit, StorageInitFormats, Mounted
  <2> QED
    BY <1>2, <1>3, <2>1
<1>5. CASE PowerCut
  BY <1>3, <1>5 DEF PowerCut
<1>6. CASE Moves /\ post' = post /\ (boot' # 0 => boot # 0)
  <2>1. ASSUME Valid(flash.files[SystemAnims[i]]) PROVE Valid(flash'.files[SystemAnims[i]])
    BY <1>2, <1>6, <2>1, MovesSeeded
  <2>2. CASE i < boot
    BY <1>3, <1>6, <2>1, <2>2 DEF SeededInv
  <2>3. CASE ~(i < boot)
    <3>1. boot' # boot /\ boot \in Nat
      BY <1>1, <1>3, <2>3, SystemTypes DEF TypeOK
    <3>2. Boot
      BY <1>3, <3>1, BootPost DEF PowerCut
    <3>3. CASE LedInitSaves
      <4>1. PICK f : Puts(SystemAnims[boot], f) /\ Valid(f)
        BY <1>1, <3>3, SeedPuts
      <4>2. boot' = boot + 1 /\ SystemAnims[boot] \in Name
        BY <1>1, <3>3, SeedPuts
      <4>3. i = boot
        BY <1>2, <1>3, <2>3, <3>1, <4>2
      <4> QED
        BY <1>1, <4>1, <4>2, <4>3, PutsFacts
    <3>4. CASE LedInitKeeps
      <4>1. i = boot /\ flash' = flash
        BY <1>2, <1>3, <2>3, <3>1, <3>4 DEF LedInitKeeps
      <4> QED
        BY <3>4, <4>1 DEF LedInitKeeps
    <3>5. CASE LedInitShows
      <4>1. boot = Booted - 1
        BY <3>5 DEF LedInitShows
      <4> QED
        BY <1>2, <2>3, <4>1 DEF Booted
    <3>6. ~Mounts
      BY <1>6, <3>2, <1>3 DEF Mounts, StorageInit, StorageInitFails, StorageInitFormats, Mounted
    <3> QED
      BY <3>2, <3>3, <3>4, <3>5, <3>6 DEF Boot, Mounts
  <2> QED
    BY <2>2, <2>3
<1> QED
  BY <1>1, <1>4, <1>5, <1>6, AnimSteps

(* In every behaviour in which what is written reads back, a badge that is *)
(* up with a working flash has every animation of the firmware, also after *)
(* a format, a refused deletion or a power cut in the middle of led_init   *)
(* (led_init, storage_save_direct_anim).                                   *)
THEOREM FirmwareAnimsPresent == ASSUME WritesWork PROVE Spec => []SystemAnimsPresent
<1>1. LoneInit => SeededInv
  BY DEF LoneInit, Init, SeededInv
<1>2. IInv /\ StoreInv /\ SeededInv /\ [Next]_lvars => SeededInv'
  BY NextIsStep, SeededStep
<1>3. SeededInv => SystemAnimsPresent
  <2> SUFFICES ASSUME SeededInv, Running, post = 0, NEW n \in SystemName
               PROVE n \in Live(flash.files)
    BY DEF SystemAnimsPresent
  <2>1. /\ DOMAIN SystemAnims = 1..Len(SystemAnims) /\ Len(SystemAnims) \in Nat
        /\ boot = Len(SystemAnims) + 2 /\ n \in Name
    BY SystemAssumption, SystemTypes DEF Running, Booted
  <2>2. PICK i \in DOMAIN SystemAnims : n = SystemAnims[i]
    BY DEF SystemName
  <2>3. i < boot /\ boot # 0
    BY <2>1, <2>2
  <2> QED
    BY <2>1, <2>2, <2>3 DEF SeededInv, Live
<1> QED
  BY <1>1, <1>2, <1>3, StoreInvariance, PTL DEF Spec

-----------------------------------------------------------------------------
(* The frames of the animations.                                           *)

(* What the badge holds is the animation it names.                         *)
Intact == \A n \in Live(flash.files) : flash.files[n].frames = FramesOf(n)

(* A file that changes leaves the others as they are.                      *)
LEMMA PutsIntact ==
  ASSUME TypeOK, Intact, NEW n \in Name, NEW f, Puts(n, f),
         Valid(f) => f.frames = FramesOf(n)
  PROVE Intact'
BY PutsFacts DEF Intact, Live

(* The first k frames and the one behind them.                             *)
LEMMA OneFrameMore ==
  ASSUME NEW n \in Name, NEW k \in 1..AnimLen[n]
  PROVE /\ Append(SubSeq(FramesOf(n), 1, k - 1), FramesOf(n)[k]) = SubSeq(FramesOf(n), 1, k)
        /\ SubSeq(FramesOf(n), 1, AnimLen[n]) = FramesOf(n)
<1> DEFINE fs == FramesOf(n)
<1>1. fs \in Seq(Frame) /\ Len(fs) = AnimLen[n] /\ AnimLen[n] \in Nat
  BY FramesOfType, BoundAssumption
<1> HIDE DEF fs
<1>2. k \in 1..Len(fs)
  BY <1>1
<1>3. SubSeq(fs, 1, Len(fs)) = fs
  BY <1>1
<1>4. Append(SubSeq(fs, 1, k - 1), fs[k]) = SubSeq(fs, 1, k)
  <2>1. SubSeq(fs, 1, k - 1) \in Seq(Frame) /\ Len(SubSeq(fs, 1, k - 1)) = k - 1
    BY <1>1, <1>2
  <2>2. SubSeq(fs, 1, k) \in Seq(Frame) /\ Len(SubSeq(fs, 1, k)) = k
    BY <1>1, <1>2
  <2>3. fs[k] \in Frame
    BY <1>1, <1>2, ElementOfSeq
  <2>4. \A i \in 1..k : Append(SubSeq(fs, 1, k - 1), fs[k])[i] = SubSeq(fs, 1, k)[i]
    BY <1>1, <1>2, <2>3
  <2>5. /\ Append(SubSeq(fs, 1, k - 1), fs[k]) \in Seq(Frame)
        /\ Len(Append(SubSeq(fs, 1, k - 1), fs[k])) = k
    BY <1>2, <2>1, <2>3, AppendProperties
  <2> QED
    BY <1>2, <2>2, <2>4, <2>5, SeqEqual
<1> QED
  BY <1>1, <1>3, <1>4 DEF fs

(* What led_init writes over a file is the whole of its animation, or is   *)
(* no animation.                                                           *)
LEMMA SeedIntact ==
  ASSUME TypeOK, Intact, NEW n \in Name, NEW f \in SavedDirect(n)
  PROVE /\ Valid(f) => f.frames = FramesOf(n)
        /\ Len(flash.files[n].frames) <= AnimLen[n] => Len(f.frames) <= AnimLen[n]
<1> DEFINE h == [name |-> n, len |-> AnimLen[n], delay |-> MinDelay,
                 id |-> index.nextId, unlocked |-> FALSE, direct |-> FALSE]
           old == flash.files[n]
           tail == SubSeq(old.frames, Len(FramesOf(n)) + 1, Len(old.frames))
           torn == [FramesOf(n) EXCEPT ![AnimLen[n]] = Torn]
<1>1. /\ old.frames \in Seq(Frame) /\ Len(old.frames) \in Nat
      /\ FramesOf(n) \in Seq(Frame) /\ Len(FramesOf(n)) = AnimLen[n]
      /\ AnimLen[n] \in Nat \ {0}
  BY FramesOfType, HeaderType, LenProperties, BoundAssumption DEF TypeOK, Flash
<1>2. f = Overlaid(old, h, FramesOf(n)) \/ f = old \/ f = Stub \/ f = Stored(h, torn)
  BY DEF SavedDirect
<1>3. CASE f = Overlaid(old, h, FramesOf(n))
  <2>1. f.hdr = h /\ f.frames = FramesOf(n) \o tail
    BY <1>3 DEF Overlaid, Stored
  <2>2. h.len = AnimLen[n]
    OBVIOUS
  <2>3. CASE Len(old.frames) <= AnimLen[n]
    <3>1. tail = << >>
      BY <1>1, <2>3, SubSeqProperties
    <3>2. f.frames = FramesOf(n)
      BY <1>1, <2>1, <3>1, ConcatEmptySeq
    <3> QED
      BY <1>1, <3>2
  <2>4. CASE ~(Len(old.frames) <= AnimLen[n])
    <3>1. tail \in Seq(Frame) /\ Len(tail) = Len(old.frames) - AnimLen[n]
      <4> DEFINE all  == old.frames
                 from == Len(FramesOf(n)) + 1
      <4>1. all \in Seq(Frame) /\ from \in 1..Len(all) /\ Len(all) \in Nat
        BY <1>1, <2>4
      <4>2. tail = SubSeq(all, from, Len(all))
        OBVIOUS
      <4> HIDE DEF all, from, tail
      <4>3. tail \in Seq(Frame) /\ Len(tail) = Len(all) - from + 1
        BY <4>1, <4>2, SubSeqProperties
      <4> QED
        BY <1>1, <4>1, <4>3 DEF all, from
    <3> HIDE DEF tail, h
    <3>2. Len(f.frames) = AnimLen[n] + Len(tail)
      <4> DEFINE body == FramesOf(n)
      <4>1. body \in Seq(Frame) /\ Len(body) = AnimLen[n] /\ f.frames = body \o tail
        BY <1>1, <2>1
      <4> HIDE DEF body
      <4>2. Len(body \o tail) = Len(body) + Len(tail)
        BY <3>1, <4>1, ConcatProperties
      <4> QED
        BY <4>1, <4>2
    <3>3. ~Valid(f)
      BY <1>1, <2>1, <2>2, <2>4, <3>1, <3>2 DEF Valid
    <3> QED
      BY <2>4, <3>3
  <2> QED
    BY <2>3, <2>4
<1>4. CASE f = old
  BY <1>4 DEF Intact, Live
<1>5. CASE f = Stub
  BY <1>1, <1>5 DEF Stub, Valid
<1>6. CASE f = Stored(h, torn)
  <2>1. f.frames = torn
    BY <1>6 DEF Stored
  <2>2. Len(torn) = AnimLen[n] /\ torn[AnimLen[n]] = Torn
    <3>1. AnimLen[n] \in 1..Len(FramesOf(n)) /\ Torn \in Frame
      BY <1>1, ValueTypes
    <3> QED
      BY <1>1, <3>1, ExceptSeq
  <2>3. ~Valid(f)
    BY <1>1, <2>1, <2>2 DEF Valid, Whole
  <2> QED
    BY <1>1, <2>1, <2>2, <2>3
<1> QED
  BY <1>2, <1>3, <1>4, <1>5, <1>6

-----------------------------------------------------------------------------
(* Lengths.                                                                *)

(* Whatever is or was on display has the length of the animation it names, *)
(* and so has every file with a header, which is in the file of its name.  *)
Fits(a) == a.name \in Name => a.len = AnimLen[a.name]
LedFits == Fits(led.ambient) /\ Fits(led.idle) /\ Fits(led.chosen)
FileFits(n, f) == f.kind = "data" => f.hdr.name = n /\ f.hdr.len = AnimLen[n]
FilesFit == \A n \in Name : FileFits(n, flash.files[n])

LEMMA SoundFits == FilesSound => FilesFit
BY DEF FilesSound, Sound, FilesFit, FileFits

(* A file with a header, and an animation of the firmware, fits.           *)
LEMMA FitsFacts == ASSUME FilesFit PROVE
  /\ \A n \in Name : flash.files[n].kind = "data" => Fits(flash.files[n].hdr)
  /\ Fits(ZeroAnim) /\ Fits(SendAnim) /\ Fits(RecvAnim) /\ Fits(StartupAnim)
BY NameAssumption
DEF FilesFit, FileFits, Fits, ZeroAnim, Direct, SendAnim, RecvAnim, StartupAnim

(* So does what led_set_anim shows.                                        *)
LEMMA SetAnimFits ==
  ASSUME FilesFit, NEW n, NEW old, Fits(old), NEW a \in AfterSetAnim(flash.files, n, old)
  PROVE Fits(a)
BY FitsFacts DEF AfterSetAnim

(* So does what is on display while an offer is received.                  *)
LEMMA ReceivingFits ==
  ASSUME TypeOK, LedFits, NEW h, NEW fd, Receiving(h, fd) \/ Declining(h)
  PROVE LedFits'
<1>1. \/ led' = [led EXCEPT !.idle = led.ambient, !.ambient = RecvAnim]
      \/ led' = [led EXCEPT !.idle = led.ambient]
  BY DEF Receiving, Declining
<1>2. Fits(RecvAnim)
  BY DEF Fits, RecvAnim, Direct
<1> QED
  BY <1>1, <1>2 DEF LedFits, TypeOK, Led, Fits

(* Booting shows what is stored, or nothing.                               *)
LEMMA MountedFits ==
  ASSUME NEW fl, \A n \in Name : fl.files[n].kind = "data" => Fits(fl.files[n].hdr), Mounted(fl)
  PROVE LedFits'
<1>1. PICK seen \in Readings(fl.files), got \in Outcomes("read") :
        LET readable == got /\ fl.animid # << >>
            id == IF readable THEN fl.animid[1] ELSE 0
            hits == {n \in seen : fl.files[n].hdr.id = id}
        IN \E shown \in (IF hits = {} THEN {ZeroAnim} ELSE {fl.files[n].hdr : n \in hits}),
              cur \in {IF id < index'.nextId THEN id ELSE 0} :
             led' = [ambient |-> shown, idle |-> ZeroAnim, chosen |-> shown,
                     animId |-> cur, written |-> cur]
  BY DEF Mounted
<1>2. seen \subseteq Name /\ \A n \in seen : fl.files[n].kind = "data"
  BY ReadingsAreLive DEF Live, Valid
<1>3. Fits(ZeroAnim)
  BY NameAssumption DEF Fits, ZeroAnim
<1>4. PICK shown, cur :
        /\ Fits(shown)
        /\ led' = [ambient |-> shown, idle |-> ZeroAnim, chosen |-> shown,
                   animId |-> cur, written |-> cur]
  BY <1>1, <1>2, <1>3
<1> QED
  BY <1>3, <1>4 DEF LedFits, Fits

(* Leaving a deleted animation shows another one that is stored.           *)
LEMMA LeavingFits ==
  ASSUME TypeOK, LedFits, FilesFit', NEW n, led' \in AfterLeaving(n, flash'.files, index')
  PROVE LedFits'
<1>1. Fits(RecvAnim) /\ led \in Led
  BY DEF Fits, RecvAnim, Direct, TypeOK
<1>2. CASE led' = led \/ led' = [led EXCEPT !.chosen = led.ambient]
  BY <1>1, <1>2 DEF LedFits, Led, Fits
<1>3. ASSUME NEW next, NEW a \in AfterSetAnim(flash'.files, next, RecvAnim) \cup {RecvAnim},
             led' = [led EXCEPT !.ambient = a, !.animId = a.id, !.chosen = a]
      PROVE LedFits'
  <2>1. a = RecvAnim \/ (\E m \in Name : flash'.files[m].kind = "data" /\ a = flash'.files[m].hdr)
    BY <1>3 DEF AfterSetAnim
  <2>2. Fits(a)
    BY <1>1, <2>1 DEF FilesFit, FileFits, Fits
  <2> QED
    BY <1>1, <1>3, <2>2 DEF LedFits, Led, Fits
<1>4. CASE led.ambient.name # n
  BY <1>2, <1>4 DEF AfterLeaving
<1>5. CASE led.ambient.name = n
  <2> DEFINE nexts == {NextName(flash'.files, seen, index', led.animId) :
                         seen \in Readings(flash'.files)}
             shown(next) == IF next # NoName /\ next # n
                            THEN AfterSetAnim(flash'.files, next, RecvAnim) ELSE {RecvAnim}
  <2>1. PICK a \in UNION {shown(next) : next \in nexts} :
          led' = [led EXCEPT !.ambient = a, !.animId = a.id, !.chosen = a]
    BY <1>5 DEF AfterLeaving
  <2>2. PICK next \in nexts : a \in shown(next)
    OBVIOUS
  <2> QED
    BY <1>3, <2>1, <2>2
<1> QED
  BY <1>4, <1>5

(* So every step leaves the display fitting.                               *)
LEMMA LedFitsStep ==
  ASSUME TypeOK, FilesFit, LedFits, Step, FilesFit'
  PROVE LedFits'
<1>1. led \in Led
  BY DEF TypeOK
<1>2. CASE led' = led
  BY <1>2 DEF LedFits, Fits
<1>3. CASE Boot
  <2>1. CASE StorageInit
    BY <2>1, FitsFacts, MountedFits DEF StorageInit
  <2>2. CASE StorageInitFormats
    BY <2>2, MountedFits DEF StorageInitFormats, Absent
  <2>3. CASE LedInitShows
    <3>1. CASE led' = [led EXCEPT !.ambient = StartupAnim]
      BY <1>1, <3>1, FitsFacts DEF LedFits, Led, Fits
    <3>2. ASSUME NEW a \in AfterSetAnim(flash.files, led.ambient.name, led.ambient),
                 led' = [led EXCEPT !.ambient = a, !.chosen = a]
          PROVE LedFits'
      <4>1. Fits(a)
        BY SetAnimFits DEF LedFits
      <4> QED
        BY <1>1, <3>2, <4>1 DEF LedFits, Led, Fits
    <3> QED
      BY <2>3, <3>1, <3>2 DEF LedInitShows
  <2> QED
    BY <1>2, <1>3, <2>1, <2>2, <2>3 DEF Boot, StorageInitFails, LedInitKeeps, LedInitSaves
<1>4. CASE RxPutUnreadable \/ RxPutDiscarded \/ RxPutUnlocks \/ RxPutNew
  BY <1>4, ReceivingFits DEF RxPutUnreadable, RxPutDiscarded, RxPutUnlocks, RxPutNew
<1>5. CASE RxLastFrame
  <2>1. PICK a \in AfterSetAnim(flash'.files, link.header.name, led.ambient) :
          led' = [led EXCEPT !.ambient = a, !.animId = a.id]
    BY <1>5 DEF RxLastFrame
  <2>2. a = led.ambient \/ (\E n \in Name : flash'.files[n].kind = "data" /\ a = flash'.files[n].hdr)
    BY <2>1 DEF AfterSetAnim
  <2>3. Fits(a)
    BY <2>2 DEF LedFits, FilesFit, FileFits, Fits
  <2> QED
    BY <1>1, <2>1, <2>3 DEF LedFits, Led, Fits
<1>6. CASE EndSend \/ TimeoutReceiving
  BY <1>1, <1>6 DEF EndSend, TimeoutReceiving, LedFits, Led, Fits
<1>7. CASE StartSend
  <2>1. led' = [led EXCEPT !.idle = led.ambient, !.ambient = SendAnim]
    BY <1>7 DEF StartSend
  <2> QED
    BY <1>1, <2>1, FitsFacts DEF LedFits, Led, Fits
<1>8. CASE PowerCut
  BY <1>8, FitsFacts DEF PowerCut, NewLed, LedFits, Fits
<1>9. CASE RxDelete
  BY <1>9, LeavingFits DEF RxDelete
<1>10. CASE Select
  <2>1. ASSUME NEW n, NEW a \in AfterSetAnim(flash.files, n, led.ambient), NEW id,
               \/ led' = [led EXCEPT !.ambient = a, !.animId = id]
               \/ led' = [led EXCEPT !.ambient = a, !.animId = id, !.chosen = a]
        PROVE LedFits'
    <3>1. Fits(a)
      BY <2>1, SetAnimFits DEF LedFits
    <3> QED
      BY <1>1, <2>1, <3>1 DEF LedFits, Led, Fits
  <2>2. CASE \E a \in AfterSetAnim(flash.files, led.chosen.name, led.ambient) :
               led' = [led EXCEPT !.ambient = a, !.animId = led.chosen.id]
    BY <2>1, <2>2
  <2>3. CASE \E next : \E a \in AfterSetAnim(flash.files, next, led.ambient) :
               led' = [led EXCEPT !.ambient = a, !.animId = a.id, !.chosen = a]
    BY <2>1, <2>3
  <2> QED
    BY <1>10, <2>2, <2>3 DEF Select
<1>11. CASE WriteId \/ FallBack
  BY <1>1, <1>11, FitsFacts DEF WriteId, FallBack, LedFits, Led, Fits
<1>12. \/ led' = led \/ Boot \/ RxPutUnreadable \/ RxPutDiscarded \/ RxPutUnlocks \/ RxPutNew
       \/ RxLastFrame \/ EndSend \/ TimeoutReceiving \/ StartSend \/ PowerCut \/ RxDelete
       \/ Select \/ WriteId \/ FallBack
  <2>1. CASE UNCHANGED vars \/ PeerSends \/ PeerHears \/ Ui \/ Start \/ TimeOut
    BY <2>1 DEF vars, PeerSends, PeerHears, Ui, Export, Import, Press, Start, StartSendDeclined,
                StartGet, TimeOut, TimeoutSending
  <2>2. CASE Receive \/ AirFault
    BY <2>2 DEF Receive, AirFault, RxLost, RxGarbledHeader, RxGarbledPayload, RxIgnored,
                RxRejected, RxNoise, RxGetFile, RxHelo, RxDeleteRefused, RxPutRefused, RxFrame,
                RxFrameUnwritten, RxAck, RxAckLast, RxNackResends, RxNackGivesUp
  <2> QED
    BY <2>1, <2>2 DEF Step, BadgeStep
<1> QED
  BY <1>2, <1>3, <1>4, <1>5, <1>6, <1>7, <1>8, <1>9, <1>10, <1>11, <1>12

(* A step that puts a file that fits keeps the files fitting.              *)
LEMMA PutsFit ==
  ASSUME TypeOK, FilesFit, NEW n \in Name, NEW f, Puts(n, f), FileFits(n, f)
  PROVE FilesFit'
BY PutsFacts DEF FilesFit, FileFits

(* So every step does, provided that the offers do that are acted on.      *)
LEMMA FilesFitStep ==
  ASSUME IInv, FilesFit, Step, Offered => Offer.len = AnimLen[Offer.name]
  PROVE FilesFit'
<1>1. TypeOK /\ LinkConsistent /\ InFlightFile
  BY DEF IInv
<1>2. ASSUME flash'.files = flash.files PROVE FilesFit'
  BY <1>2 DEF FilesFit, FileFits
<1>3. \A n \in Name : FileFits(n, Absent) /\ FileFits(n, Stub)
  BY DEF FileFits, Absent, Stub
<1>4. CASE Boot
  <2>1. CASE \A n \in Name : flash'.files[n] = Absent
    BY <1>3, <2>1 DEF FilesFit
  <2>2. CASE LedInitSaves
    <3> DEFINE n == SystemAnims[boot]
    <3>1. n \in Name
      BY <2>2, SystemAssumption DEF LedInitSaves
    <3>2. PICK f \in SavedDirect(n) : Puts(n, f)
      BY <1>1, <2>2, <3>1, PutFilePuts DEF LedInitSaves, TypeOK
    <3> HIDE DEF n
    <3>3. FileFits(n, flash.files[n])
      BY <3>1 DEF FilesFit
    <3>4. FileFits(n, f)
      BY <1>3, <3>1, <3>2, <3>3 DEF SavedDirect, FileFits, Overlaid, Stored
    <3> QED
      BY <1>1, <3>1, <3>2, <3>4, PutsFit
  <2> QED
    BY <1>1, <1>2, <1>4, <2>1, <2>2, BootFiles
<1>5. CASE PowerCut
  BY <1>1, <1>2, <1>3, <1>5, CutPuts, PutsFit
<1>6. CASE RxDelete
  BY <1>1, <1>3, <1>6, DeletePuts, PutsFit
<1>7. CASE RxPutUnlocks \/ RxPutNew
  <2>1. Offered /\ Offer \in Anim /\ Offer.name \in Name /\ Offer.len = AnimLen[Offer.name]
    BY <1>1, <1>7, OfferedFacts DEF RxPutUnlocks, RxPutNew
  <2>2. ASSUME NEW id, NEW f, NEW frames, f \in {Stored([Offer EXCEPT !.id = id], frames), Absent, Stub},
               flash' = PutFile(Offer.name, f)
        PROVE FilesFit'
    <3>1. FileFits(Offer.name, f)
      BY <1>3, <2>1, <2>2 DEF Stored, FileFits, Anim
    <3> QED
      BY <1>1, <2>1, <2>2, <3>1, PutFilePuts, PutsFit DEF TypeOK
  <2>3. \A id : [Offer EXCEPT !.id = id].name = Offer.name
    BY <2>1 DEF Anim
  <2>4. CASE RxPutUnlocks
    <3> DEFINE h == [Offer EXCEPT !.id = Local.hdr.id]
    <3>1. flash' = flash \/ flash' = PutFile(h.name, Stored(h, Local.frames))
      BY <2>4 DEF RxPutUnlocks
    <3> QED
      BY <1>2, <2>2, <2>3, <3>1
  <2>5. CASE RxPutNew
    <3> DEFINE h == [Offer EXCEPT !.id = index.nextId]
    <3>1. \/ flash' = flash
          \/ \E f \in {Stored(h, << >>), Absent, Stub} : flash' = PutFile(h.name, f)
      BY <2>5 DEF RxPutNew
    <3>2. h.name = Offer.name
      BY <2>3
    <3> QED
      BY <1>2, <2>2, <3>1, <3>2
  <2> QED
    BY <1>7, <2>4, <2>5
<1>8. CASE RxFrame \/ RxLastFrame \/ RxFrameUnwritten
  <2>1. FrameArrives /\ (flash' = flash \/ (~link.discard /\ \E f : flash' = AppendFrame(f)))
    BY <1>8 DEF RxFrame, RxLastFrame, RxFrameUnwritten, FrameStored
  <2>2. ASSUME NEW f, flash' = AppendFrame(f), link.fd \in Name
        PROVE FilesFit'
    <3> DEFINE old == flash.files[link.fd]
               new == [old EXCEPT !.frames = Append(old.frames, f)]
    <3>1. Puts(link.fd, new)
      BY <1>1, <2>2, AppendPuts
    <3>2. new.kind = old.kind /\ new.hdr = old.hdr
      BY <1>1, <2>2 DEF TypeOK, Flash, File
    <3>3. FileFits(link.fd, old)
      BY <2>2 DEF FilesFit
    <3> HIDE DEF old, new
    <3>4. FileFits(link.fd, new)
      BY <3>2, <3>3 DEF FileFits
    <3> QED
      BY <1>1, <2>2, <3>1, <3>4, PutsFit
  <2> QED
    BY <1>1, <1>2, <2>1, <2>2, FrameFacts
<1>9. CASE TimeoutReceiving
  BY <1>1, <1>2, <1>3, <1>9, TimeoutPuts, PutsFit
<1> QED
  BY <1>1, <1>2, <1>4, <1>5, <1>6, <1>7, <1>8, <1>9, OtherSteps

-----------------------------------------------------------------------------
(* One message, and one answer.                                            *)

(* One message is a queue of one.                                          *)
LEMMA OneMessage == ASSUME NEW m \in Message PROVE
  /\ <<m>> \in Seq(Message) /\ <<m>> # << >> /\ Head(<<m>>) = m /\ Tail(<<m>>) = << >>
OBVIOUS

LEMMA NoMessage == << >> \in Seq(Message)
BY EmptySeq

(* Whatever it makes of a message, it says one thing or nothing.           *)
LEMMA OneAnswer ==
  ASSUME Receive \/ AirFault
  PROVE /\ outq' = outq \/ \E op, body : Say(op, body)
        /\ boot' = boot /\ Running /\ inq # << >>
        /\ ev' = ev \/ ev' = ev \cup {"SENDFILE"}
<1>1. CASE RxIgnored \/ RxRejected \/ RxNoise \/ RxGetFile \/ RxHelo \/ AirFault
  BY <1>1 DEF RxIgnored, RxRejected, RxNoise, RxGetFile, RxHelo, AirFault, RxLost,
              RxGarbledHeader, RxGarbledPayload, Arrives, Reply
<1>2. CASE RxDelete \/ RxDeleteRefused \/ RxPutRefused
  BY <1>2 DEF RxDelete, RxDeleteRefused, RxPutRefused, Arrives, Reply
<1>3. CASE RxPutUnreadable \/ RxPutDiscarded \/ RxPutUnlocks \/ RxPutNew
  BY <1>3 DEF RxPutUnreadable, RxPutDiscarded, RxPutUnlocks, RxPutNew, Offered, Arrives, Reply,
              Receiving, Declining
<1>4. CASE RxFrame \/ RxLastFrame \/ RxFrameUnwritten
  BY <1>4 DEF RxFrame, RxLastFrame, RxFrameUnwritten, FrameArrives, FrameStored, Arrives, Reply
<1>5. CASE RxAck \/ RxAckLast \/ RxNackResends \/ RxNackGivesUp
  BY <1>5 DEF RxAck, RxAckLast, RxNackResends, RxNackGivesUp, Sending, Arrives
<1> QED
  BY <1>1, <1>2, <1>3, <1>4, <1>5 DEF Receive

(* The buffer, for messages without a payload.                             *)
LEMMA BufferedKeeps ==
  ASSUME link \in Link, Msg \in Message
  PROVE LET b == Buffered(link, Msg)
        IN /\ b.state = link.state /\ b.part = link.part /\ b.peer = link.peer
           /\ b.header = link.header /\ (HasPayload(Msg) \/ b.payload = link.payload)
           /\ b.fd = link.fd /\ b.discard = link.discard
           /\ b \in Link
<1>1. PICK p \in Frame : Buffered(link, Msg) = [link EXCEPT !.payload = p]
  BY BufferedType
<1>2. HasPayload(Msg) \/ Buffered(link, Msg).payload = link.payload
  BY DEF Buffered, HasPayload, Link
<1> QED
  BY <1>1, <1>2 DEF Link
=============================================================================
