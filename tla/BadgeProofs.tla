----------------------------- MODULE BadgeProofs -----------------------------
(***************************************************************************)
(* Proofs about LoneBadge, for every set of names, stations and peer       *)
(* messages, every seed and every choice of faults.                        *)
(***************************************************************************)
EXTENDS LoneBadge, WellFoundedInduction, SequenceTheorems, TLAPS

-----------------------------------------------------------------------------
(* Facts about the operators of AnimStore and Badge.                       *)

(* The frames of an animation form a sequence of frames.                   *)
LEMMA FramesOfType == ASSUME NEW n \in Name PROVE
  FramesOf(n) \in Seq(Frame) /\ Len(FramesOf(n)) = AnimLen[n]
<1>1. AnimLen[n] \in Nat /\ AnimLen[n] <= MaxFrames /\ MaxFrames \in Nat
  BY BoundAssumption
<1>2. \A k \in 1..AnimLen[n] : <<n, k - 1>> \in Frame
  BY <1>1 DEF Frame
<1>3. FramesOf(n) \in [1..AnimLen[n] -> Frame]
  BY <1>2 DEF FramesOf
<1> QED
  BY <1>1, <1>3, IsASeq, LenProperties

(* A set of naturals that is not empty has its least element.              *)
LEMMA MinIsLeast == ASSUME NEW S \in SUBSET Nat, S # {} PROVE
  Min(S) \in S /\ \A k \in S : Min(S) <= k
<1> DEFINE Below == {ss \in Nat \X Nat : ss[1] < ss[2]}
<1>1. IsWellFoundedOn(Below, Nat)
  BY NatLessThanWellFounded DEF OpToRel
<1>2. PICK x \in S : \A y \in S : ~(<<y, x>> \in Below)
  BY <1>1, WFMin
<1>3. ASSUME NEW y \in S PROVE x <= y
  <2>1. x \in Nat /\ y \in Nat
    OBVIOUS
  <2>2. <<y, x>>[1] = y /\ <<y, x>>[2] = x /\ <<y, x>> \in Nat \X Nat
    BY <2>1
  <2>3. ~(y < x)
    BY <1>2, <2>2
  <2> QED
    BY <2>1, <2>3
<1> QED
  BY <1>3 DEF Min

(* A frame appended to others leaves them where they were.                 *)
LEMMA AppendKeeps == ASSUME NEW s \in Seq(Frame), NEW f \in Frame PROVE
  Len(Append(s, f)) = Len(s) + 1 /\ Len(s) \in Nat /\ \A k \in 1..Len(s) : Append(s, f)[k] = s[k]
BY AppendProperties, LenProperties

(* The scan of storage_init leaves the next id above every id it has seen. *)
LEMMA NextIdAbove ==
  ASSUME NEW fs \in [Name -> File], NEW seen \in SUBSET Name
  PROVE /\ NextIdAfter(fs, seen) \in 0..MaxId + 1
        /\ \A n \in seen : fs[n].hdr.id < NextIdAfter(fs, seen)
<1> DEFINE S == {k \in 0..MaxId + 1 : \A n \in seen : fs[n].hdr.id < k}
<1>1. \A n \in seen : fs[n].hdr.id \in 0..MaxId
  BY DEF File, Anim
<1>2. MaxId + 1 \in S
  BY <1>1, BoundAssumption
<1>3. S \in SUBSET Nat
  BY BoundAssumption
<1>4. Min(S) \in S
  BY <1>2, <1>3, MinIsLeast
<1> QED
  BY <1>4 DEF NextIdAfter

(* The values the model names are values of their types.                   *)
LEMMA ValueTypes ==
  /\ Torn \in Frame /\ Junk \in Frame
  /\ ZeroAnim \in Anim /\ Absent \in File /\ Stub \in File
  /\ NewLink \in Link /\ NewLed \in Led /\ NoIndex \in Index
  /\ Noise \in Message
<1>1. Torn \in Frame /\ Junk \in Frame
  BY BoundAssumption DEF Torn, Junk, Frame
<1>2. ZeroAnim \in Anim
  BY BoundAssumption DEF ZeroAnim, Anim
<1>3. Absent \in File /\ Stub \in File
  BY <1>2, EmptySeq DEF Absent, Stub, File
<1>4. NewLink \in Link
  BY <1>1, <1>2, LimitAssumption DEF NewLink, Link, State
<1>5. NewLed \in Led
  BY <1>2, BoundAssumption DEF NewLed, Led
<1>6. NoIndex \in Index
  BY BoundAssumption DEF NoIndex, Index, Cache
<1>7. Noise \in Message
  BY StationAssumption DEF Noise, Message, Bare
<1> QED
  BY <1>1, <1>2, <1>3, <1>4, <1>5, <1>6, <1>7

(* The animations of the firmware have names, and their descriptors types. *)
LEMMA SystemTypes ==
  /\ SystemName \subseteq Name
  /\ SendAnim \in Anim /\ RecvAnim \in Anim /\ StartupAnim \in Anim
  /\ Booted \in Nat /\ Booted > 1
<1>1. SystemName \subseteq Name /\ Len(SystemAnims) \in Nat
  BY SystemAssumption DEF SystemName
<1>2. ASSUME NEW n \in Name PROVE Direct(n) \in Anim
  BY BoundAssumption, LimitAssumption DEF Direct, Anim
<1> QED
  BY <1>1, <1>2, SystemAssumption DEF SendAnim, RecvAnim, StartupAnim, Booted

(* The index it leaves is one.                                             *)
LEMMA ScannedType ==
  ASSUME NEW fs \in [Name -> File], NEW seen \in SUBSET Name
  PROVE Scanned(fs, seen) \in Index /\ Scanned(fs, seen).nextId = NextIdAfter(fs, seen)
<1>1. \A i \in 0..CacheSize - 1 :
        (IF UnlockedAt(fs, seen, i) = {} THEN NoName
         ELSE CHOOSE n \in UnlockedAt(fs, seen, i) : TRUE) \in Name \cup {NoName}
  BY DEF UnlockedAt
<1> QED
  BY <1>1, NextIdAbove DEF Scanned, Index, Cache

(* What led_set_anim shows is an animation.                                *)
LEMMA AfterSetAnimType ==
  ASSUME NEW fs \in [Name -> File], NEW n, NEW old \in Anim, NEW a \in AfterSetAnim(fs, n, old)
  PROVE a \in Anim
BY DEF AfterSetAnim, File

(* A scan reads back stored animations.                                    *)
LEMMA ReadingsAreLive ==
  ASSUME NEW fs, NEW seen \in Readings(fs)
  PROVE seen \subseteq Live(fs) /\ seen \subseteq Name
BY DEF Readings, Live

-----------------------------------------------------------------------------
(* What the helpers of the handlers return.                                *)

(* The parts of a message.                                                 *)
LEMMA MessageParts == ASSUME NEW m \in Message PROVE
  /\ m.from \in Station
  /\ m.op = "PUTFILE" => m.body \in Anim
  /\ m.op = "APPFILE" => m.body \in Frame
  /\ m.op = "DELFILE" => m.body \in Name \cup {NoName, Unterminated}
BY DEF Message, Bare

(* Buffering a payload changes the buffer of a link and nothing else.      *)
LEMMA BufferedType == ASSUME NEW l \in Link, NEW m \in Message PROVE
  \E p \in Frame : Buffered(l, m) = [l EXCEPT !.payload = p]
<1> DEFINE p == IF m.op = "APPFILE" THEN m.body ELSE IF HasPayload(m) THEN Junk ELSE l.payload
<1>1. p \in Frame
  BY MessageParts, ValueTypes DEF Link
<1>2. Buffered(l, m) = [l EXCEPT !.payload = p]
  BY DEF Buffered
<1> QED
  BY <1>1, <1>2

(* Going idle keeps a link a link.                                         *)
LEMMA ToIdleType == ASSUME NEW l \in Link PROVE
  ToIdle(l) \in Link
<1>1. 0 \in 0..MaxResends
  BY LimitAssumption
<1> QED
  BY <1>1 DEF ToIdle, Link, State

(* Writing a file keeps the flash a flash.                                 *)
LEMMA PutFileType ==
  ASSUME flash \in Flash, NEW n \in Name, NEW f \in File
  PROVE PutFile(n, f) \in Flash
BY DEF PutFile, Flash

(* Saying a message keeps outq a sequence of messages.                     *)
LEMMA SayType ==
  ASSUME outq \in Seq(Message), NEW op, NEW body, Say(op, body),
         \/ op \in Bare /\ body = NoBody
         \/ op = "PUTFILE" /\ body \in Anim
         \/ op = "APPFILE" /\ body \in Frame
  PROVE outq' \in Seq(Message)
<1> DEFINE m == [op |-> op, from |-> Self, body |-> body]
<1>1. m \in Message
  BY StationAssumption DEF Message
<1> HIDE DEF m
<1>2. Append(outq, m) \in Seq(Message)
  BY <1>1, AppendProperties
<1> QED
  BY <1>2 DEF Say, m

(* Taking a message, or its header only, leaves messages.                  *)
LEMMA TakeType ==
  ASSUME inq \in Seq(Message), inq # << >>
  PROVE /\ Msg \in Message
        /\ Take => inq' \in Seq(Message)
        /\ TakeHeaderOnly => inq' \in Seq(Message)
<1>1. Head(inq) \in Message /\ Tail(inq) \in Seq(Message)
  BY HeadTailProperties
<1>2. ASSUME NEW k \in Nat PROVE [i \in 1..k |-> Noise] \o Tail(inq) \in Seq(Message)
  <2>1. [i \in 1..k |-> Noise] \in Seq(Message)
    BY ValueTypes, IsASeq
  <2> QED
    BY <1>1, <2>1, ConcatProperties
<1>3. TakeHeaderOnly => \E k \in Nat : inq' = [i \in 1..k |-> Noise] \o Tail(inq)
  <2>1. (IF HasPayload(Msg) THEN 0..Residue ELSE {0}) \subseteq Nat
    BY LimitAssumption
  <2> QED
    BY <2>1 DEF TakeHeaderOnly
<1> QED
  BY <1>1, <1>2, <1>3 DEF Msg, Take

-----------------------------------------------------------------------------
(* Every step of the badge preserves TypeOK.                               *)

(* The header of a stored animation is one.                                *)
LEMMA HeaderType == ASSUME NEW f \in File PROVE f.hdr \in Anim /\ f.frames \in Seq(Frame)
BY DEF File

(* Overwriting /.animid with an id keeps it an id or empty.                *)
LEMMA OverwrittenType ==
  ASSUME NEW id \in 0..MaxId, NEW old \in {<< >>} \cup {<<i>> : i \in 0..MaxId},
         NEW kept \in OverwrittenId(old, id)
  PROVE kept \in {<< >>} \cup {<<i>> : i \in 0..MaxId}
BY DEF OverwrittenId

(* storage_init and the start of led_init.                                 *)
LEMMA MountedType ==
  ASSUME TypeOK, NEW fl \in Flash, Mounted(fl)
  PROVE TypeOK'
<1>1. PICK seen \in Readings(fl.files), got \in Outcomes("read") :
        LET readable == got /\ fl.animid # << >>
            id == IF readable THEN fl.animid[1] ELSE 0
            hits == {n \in seen : fl.files[n].hdr.id = id}
        IN /\ index' = Scanned(fl.files, seen)
           /\ \E kept \in (IF readable THEN {fl.animid} ELSE OverwrittenId(fl.animid, 0)) :
                flash' = [fl EXCEPT !.animid = kept]
           /\ \E shown \in (IF hits = {} THEN {ZeroAnim} ELSE {fl.files[n].hdr : n \in hits}),
                 cur \in {IF id < index'.nextId THEN id ELSE 0} :
                led' = [ambient |-> shown, idle |-> ZeroAnim, chosen |-> shown,
                        animId |-> cur, written |-> cur]
  BY DEF Mounted
<1> DEFINE readable == got /\ fl.animid # << >>
           id == IF readable THEN fl.animid[1] ELSE 0
           hits == {n \in seen : fl.files[n].hdr.id = id}
<1>2. seen \in SUBSET Name /\ fl.files \in [Name -> File]
  BY ReadingsAreLive DEF Flash
<1>3. index' \in Index
  BY <1>1, <1>2, ScannedType
<1>4. id \in 0..MaxId
  BY BoundAssumption DEF Flash
<1>5. 0 \in 0..MaxId
  BY BoundAssumption
<1>6. flash' \in Flash
  <2>1. PICK kept \in (IF readable THEN {fl.animid} ELSE OverwrittenId(fl.animid, 0)) :
          flash' = [fl EXCEPT !.animid = kept]
    BY <1>1
  <2>2. kept \in {<< >>} \cup {<<i>> : i \in 0..MaxId}
    BY <1>5, OverwrittenType DEF Flash
  <2> QED
    BY <2>1, <2>2 DEF Flash
<1>7. led' \in Led
  <2>1. PICK shown \in (IF hits = {} THEN {ZeroAnim} ELSE {fl.files[n].hdr : n \in hits}),
             cur \in {IF id < index'.nextId THEN id ELSE 0} :
          led' = [ambient |-> shown, idle |-> ZeroAnim, chosen |-> shown,
                  animId |-> cur, written |-> cur]
    BY <1>1
  <2>2. shown \in Anim
    BY <1>2, HeaderType, ValueTypes
  <2>3. cur \in 0..MaxId
    BY <1>4, <1>5
  <2> QED
    BY <2>1, <2>2, <2>3, ValueTypes DEF Led
<1>8. boot' \in 0..Booted
  BY SystemTypes DEF Mounted
<1> QED
  BY <1>3, <1>6, <1>7, <1>8 DEF Mounted, TypeOK

(* storage_save_direct_anim leaves a file behind, whatever fails in it.    *)
LEMMA SavedDirectType ==
  ASSUME flash \in Flash, index \in Index, index.nextId <= MaxId,
         NEW n \in Name, NEW f \in SavedDirect(n)
  PROVE f \in File
<1> DEFINE h == [name |-> n, len |-> AnimLen[n], delay |-> MinDelay,
                 id |-> index.nextId, unlocked |-> FALSE, direct |-> FALSE]
           old == flash.files[n]
           tail == SubSeq(old.frames, Len(FramesOf(n)) + 1, Len(old.frames))
           torn == [FramesOf(n) EXCEPT ![AnimLen[n]] = Torn]
<1>1. h \in Anim
  BY BoundAssumption, LimitAssumption DEF Anim, Index
<1>2. old \in File /\ Stub \in File /\ Torn \in Frame
  BY ValueTypes DEF Flash
<1>3. FramesOf(n) \o tail \in Seq(Frame)
  <2>1. old.frames \in Seq(Frame) /\ FramesOf(n) \in Seq(Frame)
    BY <1>2, FramesOfType, HeaderType
  <2>2. Len(FramesOf(n)) + 1 \in 1..Len(old.frames) + 1 \/ tail = << >>
    BY <2>1, LenProperties, SubSeqProperties, EmptySeq
  <2>3. tail \in Seq(Frame)
    BY <2>1, <2>2, SubSeqProperties, LenProperties, EmptySeq
  <2> QED
    BY <2>1, <2>3, ConcatProperties
<1>4. torn \in Seq(Frame)
  <2>1. FramesOf(n) \in Seq(Frame)
    BY FramesOfType
  <2> QED
    <3>1. Len(FramesOf(n)) = AnimLen[n] /\ AnimLen[n] \in 1..Len(FramesOf(n))
      BY FramesOfType, BoundAssumption
    <3> QED
      BY <2>1, <3>1, <1>2, ExceptSeq
<1>5. f \in {Overlaid(old, h, FramesOf(n)), old, Stub, Stored(h, torn)}
  BY DEF SavedDirect
<1> HIDE DEF h, old, tail, torn
<1>6. Stored(h, torn) \in File /\ Stored(h, FramesOf(n) \o tail) \in File
  BY <1>1, <1>3, <1>4 DEF Stored, File
<1>7. Overlaid(old, h, FramesOf(n)) = Stored(h, FramesOf(n) \o tail)
  BY DEF Overlaid, tail
<1> QED
  BY <1>2, <1>5, <1>6, <1>7

(* Booting keeps the types: a scan and the writes of led_init give files,  *)
(* ids and an index of their types.                                        *)
LEMMA BootType == ASSUME TypeOK, Boot PROVE TypeOK'
<1>1. CASE StorageInit
  BY <1>1, MountedType DEF StorageInit, TypeOK
<1>2. CASE StorageInitFails
  BY <1>2, SystemTypes DEF StorageInitFails, TypeOK
<1>3. CASE StorageInitFormats
  <2>1. [files |-> [n \in Name |-> Absent], animid |-> << >>] \in Flash
    BY ValueTypes DEF Flash
  <2> QED
    BY <1>3, <2>1, MountedType DEF StorageInitFormats
<1>4. CASE LedInitKeeps
  BY <1>4, SystemAssumption DEF LedInitKeeps, TypeOK, Booted
<1>5. CASE LedInitSaves
  <2>1. SystemAnims[boot] \in Name /\ boot' \in 0..Booted
    BY <1>5, SystemAssumption DEF LedInitSaves, Booted
  <2>2. PICK f \in SavedDirect(SystemAnims[boot]) : flash' = PutFile(SystemAnims[boot], f)
    BY <1>5 DEF LedInitSaves
  <2>3. flash' \in Flash
    BY <1>5, <2>1, <2>2, SavedDirectType, PutFileType DEF LedInitSaves, TypeOK
  <2>4. index' \in Index
    <3>1. index \in Index /\ index' = [index EXCEPT !.nextId = index.nextId + 1]
      BY <1>5 DEF LedInitSaves, TypeOK
    <3>2. index.nextId + 1 \in 0..MaxId + 1
      BY <1>5, BoundAssumption DEF LedInitSaves, TypeOK, Index
    <3> QED
      BY <3>1, <3>2 DEF Index
  <2> QED
    BY <1>5, <2>1, <2>3, <2>4 DEF LedInitSaves, TypeOK
<1>6. CASE LedInitShows
  <2>1. led' \in Led
    <3>1. CASE post # 0 /\ led' = [led EXCEPT !.ambient = StartupAnim]
      BY <3>1, SystemTypes DEF TypeOK, Led
    <3>2. CASE \E a \in AfterSetAnim(flash.files, led.ambient.name, led.ambient) :
                 led' = [led EXCEPT !.ambient = a, !.chosen = a]
      <4>1. PICK a \in AfterSetAnim(flash.files, led.ambient.name, led.ambient) :
              led' = [led EXCEPT !.ambient = a, !.chosen = a]
        BY <3>2
      <4>2. a \in Anim
        BY AfterSetAnimType DEF TypeOK, Led, Flash
      <4> QED
        BY <4>1, <4>2 DEF TypeOK, Led
    <3> QED
      BY <1>6, <3>1, <3>2 DEF LedInitShows
  <2>2. boot' \in 0..Booted
    <3>1. boot' = Booted
      BY <1>6 DEF LedInitShows
    <3> QED
      BY <3>1, SystemTypes
  <2> QED
    BY <1>6, <2>1, <2>2 DEF LedInitShows, TypeOK
<1> QED
  BY <1>1, <1>2, <1>3, <1>4, <1>5, <1>6 DEF Boot

(* A reply without a body.                                                 *)
LEMMA ReplyType ==
  ASSUME outq \in Seq(Message), NEW op \in Bare, Reply(op)
  PROVE outq' \in Seq(Message)
BY SayType DEF Reply

(* Removing an animation from the cache, or adding one, leaves a cache.    *)
LEMMA CacheType ==
  ASSUME NEW cache \in Cache, NEW id \in 0..MaxId, NEW n \in Name
  PROVE Cached(cache, id, n) \in Cache /\ Uncached(cache, n) \in Cache
BY BoundAssumption DEF Cached, Uncached, Cache

(* Messages the badge only reads and answers.                              *)
LEMMA ReadOnlyType ==
  ASSUME TypeOK, RxIgnored \/ RxRejected \/ RxNoise \/ RxGetFile \/ RxHelo
                   \/ RxDeleteRefused \/ RxPutRefused \/ AirFault
  PROVE TypeOK'
<1>1. inq # << >> /\ inq \in Seq(Message) /\ outq \in Seq(Message) /\ link \in Link
  BY DEF RxIgnored, RxRejected, RxNoise, RxGetFile, RxHelo, RxDeleteRefused, RxPutRefused,
         AirFault, RxLost, RxGarbledHeader, RxGarbledPayload, Offered, Arrives, TypeOK
<1>2. Msg \in Message /\ (Take => inq' \in Seq(Message)) /\ (TakeHeaderOnly => inq' \in Seq(Message))
  BY <1>1, TakeType
<1>3. PICK p \in Frame : Buffered(link, Msg) = [link EXCEPT !.payload = p]
  BY <1>1, <1>2, BufferedType
<1>4. (Reply("ACK") \/ Reply("NACK") \/ Reply("VERSION")) => outq' \in Seq(Message)
  BY <1>1, ReplyType DEF Bare
<1>5. [link EXCEPT !.payload = p] \in Link
  BY <1>1 DEF Link
<1>6. CASE RxIgnored
  BY <1>2, <1>3, <1>5, <1>6 DEF RxIgnored, TypeOK
<1>7. CASE RxRejected
  BY <1>2, <1>4, <1>7 DEF RxRejected, TypeOK
<1>8. CASE RxNoise
  <2>1. PICK k \in {2, 3} : inq' = SubSeq(inq, k, Len(inq))
    BY <1>8 DEF RxNoise
  <2>2. inq' \in Seq(Message)
    BY <1>1, <2>1, SubSeqProperties, LenProperties, EmptySeq
  <2> QED
    BY <1>4, <1>8, <2>2 DEF RxNoise, TypeOK
<1>9. CASE RxGetFile
  BY <1>2, <1>9 DEF RxGetFile, TypeOK
<1>10. CASE RxHelo
  BY <1>2, <1>4, <1>10 DEF RxHelo, TypeOK
<1>11. CASE RxDeleteRefused
  BY <1>2, <1>3, <1>4, <1>5, <1>11 DEF RxDeleteRefused, TypeOK
<1>12. CASE RxPutRefused
  <2>1. Offer \in Anim
    BY <1>2, <1>12, MessageParts DEF RxPutRefused, Arrives, Offer, Anim
  <2>2. link' = [[link EXCEPT !.payload = p] EXCEPT !.header = Offer]
    BY <1>3, <1>12 DEF RxPutRefused
  <2>3. link' \in Link
    BY <1>1, <2>1, <2>2 DEF Link
  <2> QED
    BY <1>2, <1>12, <2>3 DEF RxPutRefused, TypeOK
<1>13. CASE RxLost
  BY <1>2, <1>13 DEF RxLost, TypeOK
<1>14. CASE RxGarbledHeader
  BY <1>2, <1>4, <1>14 DEF RxGarbledHeader, TypeOK
<1>15. CASE RxGarbledPayload
  <2>1. link' \in Link
    BY <1>1, <1>15, ValueTypes DEF RxGarbledPayload, Link
  <2> QED
    BY <1>2, <1>4, <1>15, <2>1 DEF RxGarbledPayload, TypeOK
<1> QED
  BY <1>6, <1>7, <1>8, <1>9, <1>10, <1>11, <1>12, <1>13, <1>14, <1>15 DEF AirFault

(* Deleting, and leaving the animation deleted.                            *)
LEMMA DeleteType == ASSUME TypeOK, RxDelete PROVE TypeOK'
<1>1. inq # << >> /\ inq \in Seq(Message) /\ outq \in Seq(Message) /\ link \in Link
  BY DEF RxDelete, Arrives, TypeOK
<1>2. Msg \in Message /\ inq' \in Seq(Message)
  BY <1>1, TakeType DEF RxDelete
<1>3. Msg.body \in Name
  BY <1>2, MessageParts DEF RxDelete, Arrives, Deletable
<1>4. flash' \in Flash
  BY <1>3, PutFileType, ValueTypes DEF RxDelete, TypeOK
<1>5. index' \in Index
  <2>1. Uncached(index.cache, Msg.body) \in Cache
    BY <1>3, CacheType, BoundAssumption DEF TypeOK, Index
  <2>2. index' = [index EXCEPT !.cache = Uncached(index.cache, Msg.body)]
    BY DEF RxDelete
  <2> QED
    BY <2>1, <2>2 DEF TypeOK, Index
<1>6. link' \in Link
  <2>1. PICK p \in Frame : link' = [link EXCEPT !.payload = p]
    BY <1>1, <1>2, BufferedType DEF RxDelete
  <2> QED
    BY <1>1, <2>1 DEF Link
<1>7. led' \in Led
  <2>1. led' \in AfterLeaving(Msg.body, flash'.files, index') /\ led \in Led
    BY DEF RxDelete, TypeOK
  <2>2. CASE led.ambient.name # Msg.body
    BY <2>1, <2>2 DEF AfterLeaving, Led
  <2>3. CASE led.ambient.name = Msg.body
    <3> DEFINE nexts == {NextName(flash'.files, seen, index', led.animId) :
                           seen \in Readings(flash'.files)}
               shown(next) == IF next # NoName /\ next # Msg.body
                              THEN AfterSetAnim(flash'.files, next, RecvAnim) ELSE {RecvAnim}
    <3>1. PICK a \in UNION {shown(next) : next \in nexts} :
            led' = [led EXCEPT !.ambient = a, !.animId = a.id, !.chosen = a]
      BY <2>1, <2>3 DEF AfterLeaving
    <3>2. PICK next \in nexts : a \in shown(next)
      OBVIOUS
    <3>3. a \in Anim
      BY <1>4, <3>2, AfterSetAnimType, SystemTypes DEF Flash
    <3> QED
      BY <2>1, <3>1, <3>3 DEF Led, Anim
  <2> QED
    BY <2>2, <2>3
<1>8. outq' \in Seq(Message)
  BY <1>1, ReplyType DEF RxDelete, Bare
<1> QED
  BY <1>2, <1>4, <1>5, <1>6, <1>7, <1>8 DEF RxDelete, TypeOK

(* What every handler of an acceptable offer starts from.                  *)
LEMMA OfferedFacts ==
  ASSUME TypeOK, Offered
  PROVE /\ Msg \in Message /\ inq' \in Seq(Message)
        /\ Offer \in Anim /\ Offer.name \in Name /\ Offer.len >= 1
        /\ Local \in File /\ Local.hdr \in Anim
        /\ link.state = "IDLE" /\ Running
<1>1. inq # << >> /\ inq \in Seq(Message) /\ Msg.op = "PUTFILE"
  BY DEF Offered, Arrives, TypeOK
<1>2. Msg \in Message /\ inq' \in Seq(Message)
  BY <1>1, TakeType DEF Offered
<1>3. Offer \in Anim
  BY <1>1, <1>2, MessageParts DEF Offer, Anim
<1>4. Offer.name \in Name /\ Offer.len >= 1
  BY DEF Offered, Acceptable
<1>5. Local \in File /\ Local.hdr \in Anim
  BY <1>4, HeaderType DEF Local, TypeOK, Flash
<1> QED
  BY <1>2, <1>3, <1>4, <1>5 DEF Offered, Arrives

(* Entering a receive state, or declining to.                              *)
LEMMA ReceivingType ==
  ASSUME TypeOK, Msg \in Message, NEW h \in Anim, NEW fd \in Name \cup {NoName},
         Receiving(h, fd) \/ Declining(h)
  PROVE link' \in Link /\ led' \in Led /\ outq' \in Seq(Message)
<1>1. PICK p \in Frame : Buffered(link, Msg) = [link EXCEPT !.payload = p]
  BY BufferedType DEF TypeOK
<1>2. Msg.from \in Station
  BY MessageParts
<1>3. outq' \in Seq(Message)
  BY ReplyType DEF Receiving, Declining, TypeOK, Bare
<1>4. CASE Receiving(h, fd)
  <2>1. link' \in Link
    <3>1. link' = [[link EXCEPT !.payload = p] EXCEPT
                     !.state = IF fd = NoName THEN "FILE_RX_DONE" ELSE "FILE_RX",
                     !.discard = fd = NoName, !.fd = fd,
                     !.peer = Msg.from, !.part = 0, !.header = h]
      BY <1>1, <1>4 DEF Receiving
    <3>2. (fd = NoName) \in BOOLEAN
      OBVIOUS
    <3> QED
      BY <1>2, <3>1, <3>2 DEF TypeOK, Link, State
  <2>2. led' \in Led
    BY <1>4, SystemTypes DEF Receiving, TypeOK, Led
  <2> QED
    BY <1>3, <2>1, <2>2
<1>5. CASE Declining(h)
  <2>1. [[link EXCEPT !.payload = p] EXCEPT !.header = h] \in Link
    BY DEF TypeOK, Link
  <2>2. link' \in Link
    BY <1>1, <1>5, <2>1, ToIdleType DEF Declining
  <2>3. led' \in Led
    BY <1>5 DEF Declining, TypeOK, Led
  <2> QED
    BY <1>3, <2>2, <2>3
<1> QED
  BY <1>4, <1>5

(* Every handler of an acceptable offer.                                   *)
LEMMA PutType ==
  ASSUME TypeOK, RxPutUnreadable \/ RxPutDiscarded \/ RxPutUnlocks \/ RxPutNew
  PROVE TypeOK'
<1>1. Offered
  BY DEF RxPutUnreadable, RxPutDiscarded, RxPutUnlocks, RxPutNew
<1>2. /\ Msg \in Message /\ inq' \in Seq(Message)
      /\ Offer \in Anim /\ Offer.name \in Name
      /\ Local \in File /\ Local.hdr \in Anim
  BY <1>1, OfferedFacts
<1>3. boot' = boot /\ post' = post /\ ev' = ev
  BY <1>1 DEF Offered
<1>4. CASE RxPutUnreadable
  <2>1. link' \in Link /\ led' \in Led /\ outq' \in Seq(Message)
    BY <1>2, <1>4, ReceivingType DEF RxPutUnreadable
  <2> QED
    BY <1>2, <1>3, <1>4, <2>1 DEF RxPutUnreadable, TypeOK
<1>5. CASE RxPutDiscarded
  <2>1. [Offer EXCEPT !.id = Local.hdr.id, !.unlocked = Local.hdr.unlocked] \in Anim
    BY <1>2 DEF Anim
  <2>2. link' \in Link /\ led' \in Led /\ outq' \in Seq(Message)
    BY <1>2, <1>5, <2>1, ReceivingType DEF RxPutDiscarded
  <2> QED
    BY <1>2, <1>3, <1>5, <2>2 DEF RxPutDiscarded, TypeOK
<1>6. CASE RxPutUnlocks
  <2> DEFINE h == [Offer EXCEPT !.id = Local.hdr.id]
  <2>1. h \in Anim /\ h.name = Offer.name /\ h.id \in 0..MaxId
    BY <1>2 DEF Anim
  <2>2. /\ index' = [index EXCEPT !.cache = Cached(@, h.id, h.name)]
        /\ \/ flash' = PutFile(h.name, Stored(h, Local.frames)) /\ Receiving(h, NoName)
           \/ flash' = flash /\ Declining(h)
    BY <1>6 DEF RxPutUnlocks
  <2> HIDE DEF h
  <2>3. link' \in Link /\ led' \in Led /\ outq' \in Seq(Message)
    BY <1>2, <2>1, <2>2, ReceivingType
  <2>4. Stored(h, Local.frames) \in File
    BY <1>2, <2>1, HeaderType DEF Stored, File
  <2>5. flash' \in Flash
    BY <1>2, <2>1, <2>2, <2>4, PutFileType DEF TypeOK
  <2>6. index' \in Index
    <3>1. Cached(index.cache, h.id, h.name) \in Cache
      BY <1>2, <2>1, CacheType DEF TypeOK, Index
    <3> QED
      BY <2>2, <3>1 DEF TypeOK, Index
  <2> QED
    BY <1>2, <1>3, <2>3, <2>5, <2>6 DEF TypeOK
<1>7. CASE RxPutNew
  <2> DEFINE h == [Offer EXCEPT !.id = index.nextId]
  <2>1. index.nextId \in 0..MaxId
    BY <1>7, BoundAssumption DEF RxPutNew, TypeOK, Index
  <2>2. h \in Anim /\ h.name = Offer.name
    BY <1>2, <2>1 DEF Anim
  <2>3. /\ Receiving(h, h.name) \/ Declining(h)
        /\ \/ flash' \in {PutFile(h.name, f) : f \in {Stored(h, << >>), Absent, Stub}}
           \/ flash' = flash
        /\ index' \in {index, [index EXCEPT !.cache = Uncached(@, h.name)]}
    BY <1>7 DEF RxPutNew
  <2> HIDE DEF h
  <2>4. link' \in Link /\ led' \in Led /\ outq' \in Seq(Message)
    BY <1>2, <2>2, <2>3, ReceivingType
  <2>5. Stored(h, << >>) \in File /\ Absent \in File /\ Stub \in File
    BY <2>2, ValueTypes, EmptySeq DEF Stored, File
  <2>6. flash' \in Flash
    BY <1>2, <2>2, <2>3, <2>5, PutFileType DEF TypeOK
  <2>7. index' \in Index
    <3>1. Uncached(index.cache, h.name) \in Cache
      BY <1>2, <2>2, CacheType, BoundAssumption DEF TypeOK, Index
    <3> QED
      BY <2>3, <3>1 DEF TypeOK, Index
  <2> QED
    BY <1>2, <1>3, <2>4, <2>6, <2>7 DEF TypeOK
<1> QED
  BY <1>4, <1>5, <1>6, <1>7

(* Appending a frame to the file being received.                           *)
LEMMA AppendFrameType ==
  ASSUME flash \in Flash, link.fd \in Name, NEW f \in Frame
  PROVE AppendFrame(f) \in Flash
<1> DEFINE file == flash.files[link.fd]
           new == [file EXCEPT !.frames = Append(file.frames, f)]
<1>1. file \in File /\ file.frames \in Seq(Frame)
  BY HeaderType DEF Flash
<1>2. Append(file.frames, f) \in Seq(Frame)
  BY <1>1, AppendProperties
<1>3. new \in File
  BY <1>1, <1>2 DEF File
<1>4. AppendFrame(f) = [flash EXCEPT !.files = [flash.files EXCEPT ![link.fd] = new]]
  BY DEF AppendFrame, Flash
<1> HIDE DEF new
<1>5. [flash.files EXCEPT ![link.fd] = new] \in [Name -> File]
  BY <1>3 DEF Flash
<1> QED
  BY <1>4, <1>5 DEF Flash

(* What every handler of a frame starts from.                              *)
LEMMA FrameFacts ==
  ASSUME TypeOK, LinkConsistent, FrameArrives
  PROVE /\ Msg \in Message /\ Msg.body \in Frame /\ inq' \in Seq(Message)
        /\ link.state \in {"FILE_RX", "FILE_RX_DONE"} /\ link.fd \in Name \cup {NoName}
        /\ ~link.discard => link.state = "FILE_RX" /\ link.fd \in Name
<1>1. inq # << >> /\ inq \in Seq(Message) /\ Msg.op = "APPFILE"
  BY DEF FrameArrives, Arrives, TypeOK
<1>2. Msg \in Message /\ inq' \in Seq(Message)
  BY <1>1, TakeType DEF FrameArrives
<1> QED
  BY <1>1, <1>2, MessageParts DEF FrameArrives, LinkConsistent, TypeOK, Link

(* Storing an acknowledged frame.                                          *)
LEMMA FrameStoredType ==
  ASSUME TypeOK, LinkConsistent, FrameArrives, FrameStored
  PROVE flash' \in Flash /\ outq' \in Seq(Message)
<1>1. flash' \in Flash
  BY FrameFacts, AppendFrameType DEF FrameStored, TypeOK
<1>2. outq' \in Seq(Message)
  BY ReplyType DEF FrameStored, TypeOK, Bare
<1> QED
  BY <1>1, <1>2

(* Every handler of a frame.                                               *)
LEMMA FrameType ==
  ASSUME TypeOK, LinkConsistent, InFlightFile, RxFrame \/ RxLastFrame \/ RxFrameUnwritten
  PROVE TypeOK'
<1>1. FrameArrives
  BY DEF RxFrame, RxLastFrame, RxFrameUnwritten
<1>2. /\ Msg \in Message /\ Msg.body \in Frame /\ inq' \in Seq(Message)
      /\ link.state \in {"FILE_RX", "FILE_RX_DONE"} /\ link.fd \in Name \cup {NoName}
      /\ ~link.discard => link.state = "FILE_RX" /\ link.fd \in Name
  BY <1>1, FrameFacts
<1>3. boot' = boot /\ post' = post /\ ev' = ev
  BY <1>1 DEF FrameArrives
<1>4. PICK p \in Frame : Buffered(link, Msg) = [link EXCEPT !.payload = p]
  BY <1>2, BufferedType DEF TypeOK
<1>9. link \in Link /\ link.part + 1 \in Nat
  BY DEF TypeOK, Link
<1>5. CASE RxFrame
  <2>1. link' = [[link EXCEPT !.payload = p] EXCEPT !.part = link.part + 1]
    BY <1>4, <1>5 DEF RxFrame, TypeOK, Link
  <2>2. link' \in Link
    BY <1>9, <2>1 DEF Link
  <2> QED
    BY <1>1, <1>2, <1>3, <1>5, <2>2, FrameStoredType DEF RxFrame, TypeOK
<1>6. CASE RxLastFrame
  <2>1. [[link EXCEPT !.payload = p] EXCEPT !.part = link.part + 1, !.fd = NoName] \in Link
    BY <1>9 DEF Link
  <2>2. link' = ToIdle([[link EXCEPT !.payload = p] EXCEPT !.part = link.part + 1, !.fd = NoName])
    BY <1>4, <1>6 DEF RxLastFrame, TypeOK, Link
  <2>3. link' \in Link
    BY <2>1, <2>2, ToIdleType
  <2>4. flash' \in Flash /\ outq' \in Seq(Message)
    BY <1>1, <1>6, FrameStoredType DEF RxLastFrame
  <2>5. PICK a \in AfterSetAnim(flash'.files, link.header.name, led.ambient) :
          /\ led' = [led EXCEPT !.ambient = a, !.animId = a.id]
          /\ index' = IF link.discard THEN index
                      ELSE [nextId |-> index.nextId + 1,
                            cache  |-> IF link.header.unlocked
                                       THEN Cached(index.cache, a.id, link.header.name)
                                       ELSE index.cache]
    BY <1>6 DEF RxLastFrame
  <2>6. a \in Anim /\ a.id \in 0..MaxId
    <3>1. led.ambient \in Anim /\ flash'.files \in [Name -> File]
      BY <2>4 DEF TypeOK, Led, Flash
    <3>2. a \in Anim
      BY <3>1, AfterSetAnimType
    <3> QED
      BY <3>2 DEF Anim
  <2>7. led' \in Led
    BY <2>5, <2>6 DEF TypeOK, Led
  <2>8. index' \in Index
    <3>1. CASE link.discard
      BY <2>5, <3>1 DEF TypeOK
    <3>2. CASE ~link.discard
      <4>1. link.header.name \in Name /\ index.nextId = link.header.id /\ link.header \in Anim
        BY <1>2, <3>2 DEF LinkConsistent, InFlightFile, TypeOK, Link
      <4>2. index.nextId + 1 \in 0..MaxId + 1
        BY <4>1, BoundAssumption DEF Anim
      <4>3. Cached(index.cache, a.id, link.header.name) \in Cache /\ index.cache \in Cache
        BY <2>6, <4>1, CacheType DEF TypeOK, Index
      <4> QED
        BY <2>5, <3>2, <4>2, <4>3 DEF Index
    <3> QED
      BY <3>1, <3>2 DEF TypeOK, Link
  <2> QED
    BY <1>2, <1>3, <2>3, <2>4, <2>7, <2>8 DEF TypeOK
<1>7. CASE RxFrameUnwritten
  <2>1. link' \in Link
    BY <1>4, <1>7 DEF RxFrameUnwritten, TypeOK, Link
  <2>2. flash' \in Flash
    BY <1>2, <1>7, AppendFrameType, ValueTypes DEF RxFrameUnwritten, TypeOK
  <2> QED
    BY <1>2, <1>3, <1>7, <2>1, <2>2 DEF RxFrameUnwritten, TypeOK
<1> QED
  BY <1>5, <1>6, <1>7

(* Starting to send, or asking for an animation.                           *)
LEMMA StartType == ASSUME TypeOK, Start PROVE TypeOK'
<1>1. led \in Led /\ led.ambient \in Anim /\ link \in Link /\ 0 \in 0..MaxId /\ 0 \in 0..MaxResends
  BY BoundAssumption, LimitAssumption DEF TypeOK, Led
<1> DEFINE h == [led.ambient EXCEPT !.id = 0]
<1>2. h \in Anim
  BY <1>1 DEF Anim
<1>3. CASE StartSend
  <2>1. link' = [link EXCEPT !.state = "FILE_TX", !.header = h, !.part = 0, !.resends = 0]
    BY <1>3 DEF StartSend
  <2>2. Say("PUTFILE", h)
    BY <1>3 DEF StartSend
  <2> HIDE DEF h
  <2>3. link' \in Link
    BY <1>1, <1>2, <2>1 DEF Link, State
  <2>4. outq' \in Seq(Message)
    BY <1>2, <2>2, SayType DEF TypeOK
  <2>5. led' \in Led
    BY <1>1, <1>3, SystemTypes DEF StartSend, Led
  <2> QED
    BY <1>3, <2>3, <2>4, <2>5 DEF StartSend, TypeOK
<1>4. CASE StartSendDeclined
  <2>1. link' = link \/ link' = [link EXCEPT !.header = h, !.part = 0]
    BY <1>4 DEF StartSendDeclined
  <2> HIDE DEF h
  <2>2. link' \in Link
    <3>1. CASE link' = link
      BY <1>1, <3>1
    <3>2. CASE link' = [link EXCEPT !.header = h, !.part = 0]
      BY <1>1, <1>2, <3>2 DEF Link
    <3> QED
      BY <2>1, <3>1, <3>2
  <2> QED
    BY <1>4, <2>2 DEF StartSendDeclined, TypeOK
<1>5. CASE StartGet
  <2>1. outq' \in Seq(Message)
    BY <1>5, ReplyType DEF StartGet, TypeOK, Bare
  <2> QED
    BY <1>5, <2>1 DEF StartGet, TypeOK
<1> QED
  BY <1>3, <1>4, <1>5 DEF Start

(* Ending a send, or a discarded receive.                                  *)
LEMMA EndSendType == ASSUME TypeOK, EndSend PROVE link' \in Link /\ led' \in Led
<1>1. link' \in Link
  BY ToIdleType DEF EndSend, TypeOK
<1>2. led' \in Led
  BY DEF EndSend, TypeOK, Led
<1> QED
  BY <1>1, <1>2

(* The frames of the animation being sent.                                 *)
LEMMA FramesType == ASSUME TypeOK PROVE Frames \in Seq(Frame)
<1>1. CASE link.header.name \in Name
  BY <1>1, HeaderType DEF Frames, TypeOK, Flash
<1>2. CASE link.header.name \notin Name
  BY <1>2, EmptySeq DEF Frames
<1> QED
  BY <1>1, <1>2

(* What a sender makes of the answers.                                     *)
LEMMA SendType ==
  ASSUME TypeOK, RxAck \/ RxAckLast \/ RxNackResends \/ RxNackGivesUp
  PROVE TypeOK'
<1>1. \E op \in {"ACK", "NACK"} : Sending(op)
  BY DEF RxAck, RxAckLast, RxNackResends, RxNackGivesUp
<1>2. inq # << >> /\ inq \in Seq(Message) /\ outq \in Seq(Message)
  BY <1>1 DEF Sending, Arrives, TypeOK
<1>3. /\ Msg \in Message /\ inq' \in Seq(Message)
      /\ boot' = boot /\ post' = post /\ ev' = ev /\ flash' = flash /\ index' = index
  BY <1>1, <1>2, TakeType DEF Sending
<1>4. Acked \in Link /\ Acked.part = link.part
  <2>1. Msg.from \in Station /\ 0 \in 0..MaxResends
    BY <1>3, MessageParts, LimitAssumption
  <2> QED
    BY <2>1 DEF Acked, TypeOK, Link
<1>5. CASE RxAckLast
  BY <1>3, <1>5, EndSendType DEF RxAckLast, TypeOK
<1>6. CASE RxAck
  <2>1. CASE /\ link.part < Len(Frames)
             /\ link' = [Acked EXCEPT !.payload = Frames[link.part + 1], !.part = @ + 1]
             /\ Say("APPFILE", Frames[link.part + 1])
    <3>1. link.part \in Nat
      BY DEF TypeOK, Link
    <3>2. link.part + 1 \in 1..Len(Frames)
      BY <2>1, <3>1, FramesType, LenProperties
    <3>3. Frames[link.part + 1] \in Frame
      BY <3>2, FramesType, ElementOfSeq
    <3>4. link' \in Link
      <4>1. link' = [Acked EXCEPT !.payload = Frames[link.part + 1], !.part = link.part + 1]
        BY <1>4, <2>1 DEF Link
      <4>2. link.part + 1 \in Nat
        BY <3>1
      <4> QED
        BY <1>4, <3>3, <4>1, <4>2 DEF Link
    <3>5. outq' \in Seq(Message)
      BY <1>2, <2>1, <3>3, SayType
    <3> QED
      BY <1>3, <1>6, <3>4, <3>5 DEF RxAck, TypeOK
  <2>2. CASE link' \in {Acked, [Acked EXCEPT !.payload = Junk]} /\ UNCHANGED outq
    <3>1. link' \in Link
      BY <1>4, <2>2, ValueTypes DEF Link
    <3> QED
      BY <1>3, <1>6, <2>2, <3>1 DEF RxAck, TypeOK
  <2> QED
    BY <1>6, <2>1, <2>2 DEF RxAck
<1>7. CASE RxNackResends
  <2>1. link' \in Link
    <3>1. link.resends + 1 \in 0..MaxResends
      BY <1>7, LimitAssumption DEF RxNackResends, TypeOK, Link
    <3> QED
      BY <1>7, <3>1 DEF RxNackResends, TypeOK, Link
  <2>2. link.header \in Anim /\ link.payload \in Frame
    BY DEF TypeOK, Link
  <2>3. outq' \in Seq(Message)
    BY <1>2, <1>7, <2>2, SayType DEF RxNackResends
  <2> QED
    BY <1>3, <1>7, <2>1, <2>3 DEF RxNackResends, TypeOK
<1>8. CASE RxNackGivesUp
  BY <1>3, <1>8, EndSendType DEF RxNackGivesUp, TypeOK
<1> QED
  BY <1>5, <1>6, <1>7, <1>8

(* Giving up on a transaction.                                             *)
LEMMA TimeOutType == ASSUME TypeOK, LinkConsistent, TimeOut PROVE TypeOK'
<1>1. CASE TimeoutSending
  BY <1>1, EndSendType DEF TimeoutSending, TypeOK
<1>2. CASE TimeoutReceiving
  <2>1. link.header.name \in Name
    BY <1>2 DEF TimeoutReceiving, LinkConsistent
  <2>2. link' \in Link
    BY <1>2, ToIdleType DEF TimeoutReceiving, TypeOK, Link
  <2>3. led' \in Led
    BY <1>2 DEF TimeoutReceiving, TypeOK, Led
  <2>4. flash' \in Flash
    BY <1>2, <2>1, PutFileType, ValueTypes DEF TimeoutReceiving, TypeOK
  <2>5. index' \in Index
    <3>1. Uncached(index.cache, link.header.name) \in Cache
      BY <2>1, CacheType, BoundAssumption DEF TypeOK, Index
    <3>2. index' \in {index, [index EXCEPT !.cache = Uncached(index.cache, link.header.name)]}
      BY <1>2 DEF TimeoutReceiving
    <3> QED
      BY <3>1, <3>2 DEF TypeOK, Index
  <2> QED
    BY <1>2, <2>2, <2>3, <2>4, <2>5 DEF TimeoutReceiving, TypeOK
<1> QED
  BY <1>1, <1>2 DEF TimeOut

(* The buttons, the saved id and the display.                              *)
LEMMA UiType == ASSUME TypeOK, Ui PROVE TypeOK'
<1>1. led \in Led /\ led.ambient \in Anim /\ led.chosen.id \in 0..MaxId
      /\ flash.files \in [Name -> File]
  BY DEF TypeOK, Led, Flash, Anim
<1>2. CASE Export \/ Import
  BY <1>2 DEF Export, Import, Press, TypeOK
<1>3. CASE Select
  <2>1. led' \in Led
    <3>1. CASE \E a \in AfterSetAnim(flash.files, led.chosen.name, led.ambient) :
                 led' = [led EXCEPT !.ambient = a, !.animId = led.chosen.id]
      <4>1. PICK a \in AfterSetAnim(flash.files, led.chosen.name, led.ambient) :
              led' = [led EXCEPT !.ambient = a, !.animId = led.chosen.id]
        BY <3>1
      <4>2. a \in Anim
        BY <1>1, AfterSetAnimType
      <4> QED
        BY <1>1, <4>1, <4>2 DEF Led
    <3>2. CASE \E next : \E a \in AfterSetAnim(flash.files, next, led.ambient) :
                 led' = [led EXCEPT !.ambient = a, !.animId = a.id, !.chosen = a]
      <4>1. PICK next : \E a \in AfterSetAnim(flash.files, next, led.ambient) :
              led' = [led EXCEPT !.ambient = a, !.animId = a.id, !.chosen = a]
        BY <3>2
      <4>2. PICK a \in AfterSetAnim(flash.files, next, led.ambient) :
              led' = [led EXCEPT !.ambient = a, !.animId = a.id, !.chosen = a]
        BY <4>1
      <4>3. a \in Anim /\ a.id \in 0..MaxId
        <5>1. a \in Anim
          BY <1>1, AfterSetAnimType
        <5> QED
          BY <5>1 DEF Anim
      <4> QED
        BY <1>1, <4>2, <4>3 DEF Led
    <3> QED
      BY <1>3, <3>1, <3>2 DEF Select
  <2> QED
    BY <1>3, <2>1 DEF Select, TypeOK
<1>4. CASE WriteId
  <2>1. PICK kept \in OverwrittenId(flash.animid, led.chosen.id) :
          flash' = [flash EXCEPT !.animid = kept]
    BY <1>4 DEF WriteId
  <2>2. kept \in {<< >>} \cup {<<i>> : i \in 0..MaxId}
    BY <1>1, <2>1, OverwrittenType DEF TypeOK, Flash
  <2>3. flash' \in Flash
    BY <2>1, <2>2 DEF TypeOK, Flash
  <2>4. led' \in Led
    BY <1>1, <1>4 DEF WriteId, Led
  <2> QED
    BY <1>4, <2>3, <2>4 DEF WriteId, TypeOK
<1>5. CASE FallBack
  <2>1. led' \in Led
    BY <1>1, <1>5, SystemTypes DEF FallBack, Led
  <2> QED
    BY <1>5, <2>1 DEF FallBack, TypeOK
<1> QED
  BY <1>2, <1>3, <1>4, <1>5 DEF Ui

(* Losing power, also in the middle of a write.                            *)
LEMMA PowerCutType == ASSUME TypeOK, PowerCut PROVE TypeOK'
<1>1. flash' \in Flash
  <2>1. CASE flash' = flash
    BY <2>1 DEF TypeOK
  <2>2. CASE Seeding /\ flash' = PutFile(SystemAnims[boot], Stub)
    <3>1. SystemAnims[boot] \in Name
      BY <2>2, SystemAssumption DEF Seeding
    <3> QED
      BY <2>2, <3>1, PutFileType, ValueTypes DEF TypeOK
  <2>3. CASE Truncating /\ flash' = PutFile(Offer.name, Stub)
    <3>1. Offer.name \in Name
      BY <2>3 DEF Truncating
    <3> QED
      BY <2>3, <3>1, PutFileType, ValueTypes DEF TypeOK
  <2>4. CASE flash' = [flash EXCEPT !.animid = << >>]
    BY <2>4 DEF TypeOK, Flash
  <2> QED
    BY <2>1, <2>2, <2>3, <2>4 DEF PowerCut
<1>2. 0 \in 0..Booted
  BY SystemTypes
<1>3. << >> \in Seq(Message)
  BY EmptySeq
<1> QED
  BY <1>1, <1>2, <1>3, ValueTypes DEF PowerCut, TypeOK

(* The stations around the badge.                                          *)
LEMMA AirType == ASSUME TypeOK, PeerSends \/ PeerHears PROVE TypeOK'
<1>1. CASE PeerSends
  <2>1. PICK m \in PeerMessages : inq' = <<m>>
    BY <1>1 DEF PeerSends
  <2>2. m \in Message
    BY PeerAssumption
  <2>3. <<m>> \in Seq(Message)
    BY <2>2
  <2> QED
    BY <1>1, <2>1, <2>3 DEF PeerSends, TypeOK
<1>2. CASE PeerHears
  <2>1. outq' \in Seq(Message)
    BY <1>2, EmptySeq DEF PeerHears
  <2> QED
    BY <1>2, <2>1 DEF PeerHears, TypeOK
<1> QED
  BY <1>1, <1>2

(* A step of the badge or of the stations around it, whenever it happens.  *)
Step == UNCHANGED vars \/ PeerSends \/ PeerHears \/ BadgeStep

(* The steps of the whole are some of these.                               *)
LEMMA NextIsStep == ASSUME [Next]_lvars PROVE Step
<1>1. CASE UNCHANGED lvars
  BY <1>1 DEF lvars, Step
<1>2. CASE Next
  BY <1>2 DEF Next, BadgeMoves, BadgeHears, Cut, BadgeStep, Step
<1> QED
  BY <1>1, <1>2

(* Every step keeps the types.  The receive steps need the link and its file *)
(* to agree: only then is there a file of a name to write to.              *)
LEMMA TypeStep ==
  ASSUME TypeOK, LinkConsistent, InFlightFile, Step
  PROVE TypeOK'
<1>1. CASE UNCHANGED vars
  BY <1>1 DEF vars, TypeOK
<1>2. CASE PeerSends \/ PeerHears
  BY <1>2, AirType
<1>3. CASE BadgeStep
  <2>1. CASE Boot
    BY <2>1, BootType
  <2>2. CASE Receive
    BY <2>2, ReadOnlyType, DeleteType, PutType, FrameType, SendType DEF Receive
  <2>3. CASE AirFault
    BY <2>3, ReadOnlyType
  <2>4. CASE Start
    BY <2>4, StartType
  <2>5. CASE TimeOut
    BY <2>5, TimeOutType
  <2>6. CASE Ui
    BY <2>6, UiType
  <2>7. CASE PowerCut
    BY <2>7, PowerCutType
  <2> QED
    BY <1>3, <2>1, <2>2, <2>3, <2>4, <2>5, <2>6, <2>7 DEF BadgeStep
<1> QED
  BY <1>1, <1>2, <1>3 DEF Step

-----------------------------------------------------------------------------
(* LinkConsistent is preserved.                                            *)

(* Boot leaves the link alone, and the badge is not running then.          *)
LEMMA BootIsEarly ==
  ASSUME TypeOK, Boot
  PROVE ~Running /\ link' = link
<1>1. boot = 0 \/ boot \in DOMAIN SystemAnims \/ boot = Booted - 1
  BY DEF Boot, StorageInit, StorageInitFails, StorageInitFormats, Mounted, LedInitKeeps,
         LedInitSaves, LedInitShows
<1>2. DOMAIN SystemAnims = 1..Len(SystemAnims) /\ Len(SystemAnims) \in Nat
  BY SystemAssumption
<1>3. boot # Booted
  BY <1>1, <1>2 DEF Booted
<1> QED
  BY <1>3 DEF Boot, StorageInit, StorageInitFails, StorageInitFormats, Mounted, LedInitKeeps,
              LedInitSaves, LedInitShows, Running

(* The handlers of a running badge that move its link.                     *)
Handler == Receive \/ AirFault \/ Start \/ TimeOut

(* They run only once the badge is up, and do not reboot it.               *)
LEMMA HandlersRun == ASSUME Handler PROVE Running /\ boot' = boot
BY DEF Handler, Receive, AirFault, Start, TimeOut, RxIgnored, RxRejected, RxNoise, RxGetFile, RxHelo,
       RxDelete, RxDeleteRefused, RxPutRefused, RxPutUnreadable, RxPutDiscarded, RxPutUnlocks,
       RxPutNew, RxFrame, RxLastFrame, RxFrameUnwritten, RxAck, RxAckLast, RxNackResends,
       RxNackGivesUp, RxLost, RxGarbledHeader, RxGarbledPayload, StartSend, StartSendDeclined,
       StartGet, TimeoutSending, TimeoutReceiving, Offered, FrameArrives, Sending, Arrives

(* A handler that leaves the state, the descriptor, the discard flag, the  *)
(* peer and the resend count alone.                                        *)
LEMMA QuietLink ==
  ASSUME LinkConsistent, Handler,
         link'.state = link.state, link'.fd = link.fd, link'.discard = link.discard,
         link'.peer = link.peer, link'.resends = link.resends,
         link.state = "FILE_RX" => link'.header.name = link.header.name
  PROVE LinkConsistent'
BY HandlersRun DEF LinkConsistent, Running

(* A handler that goes idle.                                               *)
LEMMA IdleLink ==
  ASSUME Handler, NEW l \in Link, link' = ToIdle(l), l.fd = NoName
  PROVE LinkConsistent'
BY HandlersRun DEF LinkConsistent, Running, ToIdle, Link

(* A handler that changes the buffer only.                                 *)
LEMMA BufferLink ==
  ASSUME TypeOK, LinkConsistent, Handler, Msg \in Message,
         link' = Buffered(link, Msg) \/ link' = [link EXCEPT !.payload = Junk]
  PROVE LinkConsistent'
<1>1. PICK p : link' = [link EXCEPT !.payload = p]
  BY BufferedType DEF TypeOK
<1>2. /\ link'.state = link.state /\ link'.fd = link.fd /\ link'.discard = link.discard
      /\ link'.peer = link.peer /\ link'.resends = link.resends /\ link'.header = link.header
  BY <1>1 DEF TypeOK, Link
<1> QED
  BY <1>2, QuietLink

(* Whatever a PUTFILE leads to, the link stays consistent.                 *)
LEMMA OfferLink ==
  ASSUME TypeOK, LinkConsistent,
         RxPutRefused \/ RxPutUnreadable \/ RxPutDiscarded \/ RxPutUnlocks \/ RxPutNew
  PROVE LinkConsistent'
<1>1. link.state = "IDLE" /\ inq # << >> /\ Handler
  BY DEF RxPutRefused, RxPutUnreadable, RxPutDiscarded, RxPutUnlocks, RxPutNew, Offered, Arrives,
         Handler, Receive
<1>2. Msg \in Message /\ Msg.from \in Station
  BY <1>1, TakeType, MessageParts DEF TypeOK
<1>3. PICK p \in Frame : Buffered(link, Msg) = [link EXCEPT !.payload = p]
  BY <1>2, BufferedType DEF TypeOK
<1>4. CASE RxPutRefused
  <2>1. link' = [[link EXCEPT !.payload = p] EXCEPT !.header = Offer]
    BY <1>3, <1>4 DEF RxPutRefused
  <2>2. /\ link'.state = link.state /\ link'.fd = link.fd /\ link'.discard = link.discard
        /\ link'.peer = link.peer /\ link'.resends = link.resends
    BY <2>1 DEF TypeOK, Link
  <2> QED
    BY <1>1, <2>2, QuietLink
<1>5. ASSUME NEW h \in Anim, Declining(h) PROVE LinkConsistent'
  <2> DEFINE l == [[link EXCEPT !.payload = p] EXCEPT !.header = h]
  <2>1. l \in Link /\ l.fd = NoName
    BY <1>1 DEF TypeOK, Link, LinkConsistent
  <2>2. link' = ToIdle(l)
    BY <1>3, <1>5 DEF Declining
  <2> QED
    BY <1>1, <2>1, <2>2, IdleLink
<1>6. ASSUME NEW h \in Anim, NEW fd \in {NoName, h.name}, h.name \in Name, Receiving(h, fd)
      PROVE LinkConsistent'
  <2>1. link' = [[link EXCEPT !.payload = p] EXCEPT
                   !.state = IF fd = NoName THEN "FILE_RX_DONE" ELSE "FILE_RX",
                   !.discard = fd = NoName, !.fd = fd,
                   !.peer = Msg.from, !.part = 0, !.header = h]
    BY <1>3, <1>6 DEF Receiving
  <2>2. /\ link'.state = (IF fd = NoName THEN "FILE_RX_DONE" ELSE "FILE_RX")
        /\ link'.discard = (fd = NoName) /\ link'.fd = fd /\ link'.peer = Msg.from
        /\ link'.header = h
    BY <2>1 DEF TypeOK, Link
  <2>3. Running'
    BY <1>1, HandlersRun DEF Running
  <2> QED
    BY <1>2, <1>6, <2>2, <2>3, StationAssumption, NameAssumption DEF LinkConsistent
<1>7. ~RxPutRefused => Offered
  BY DEF RxPutUnreadable, RxPutDiscarded, RxPutUnlocks, RxPutNew
<1>8. ~RxPutRefused => Offer \in Anim /\ Offer.name \in Name /\ Local.hdr \in Anim
  BY <1>7, OfferedFacts
<1>9. CASE RxPutUnreadable
  <2>1. ~RxPutRefused
    BY <1>9 DEF RxPutUnreadable, Offered, RxPutRefused
  <2> QED
    BY <1>5, <1>8, <1>9, <2>1 DEF RxPutUnreadable
<1>10. CASE RxPutDiscarded
  <2> DEFINE h == [Offer EXCEPT !.id = Local.hdr.id, !.unlocked = Local.hdr.unlocked]
  <2>1. ~RxPutRefused
    BY <1>10 DEF RxPutDiscarded, Offered, RxPutRefused
  <2>2. h \in Anim /\ h.name \in Name
    BY <1>8, <2>1 DEF Anim
  <2>3. Receiving(h, NoName)
    BY <1>10 DEF RxPutDiscarded
  <2> QED
    BY <1>6, <2>2, <2>3
<1>11. CASE RxPutUnlocks
  <2> DEFINE h == [Offer EXCEPT !.id = Local.hdr.id]
  <2>1. ~RxPutRefused
    BY <1>11 DEF RxPutUnlocks, Offered, RxPutRefused
  <2>2. h \in Anim /\ h.name \in Name
    BY <1>8, <2>1 DEF Anim
  <2>3. Receiving(h, NoName) \/ Declining(h)
    BY <1>11 DEF RxPutUnlocks
  <2> QED
    BY <1>5, <1>6, <2>2, <2>3
<1>12. CASE RxPutNew
  <2> DEFINE h == [Offer EXCEPT !.id = index.nextId]
  <2>1. ~RxPutRefused
    BY <1>12 DEF RxPutNew, Offered, RxPutRefused
  <2>2. index.nextId \in 0..MaxId
    BY <1>12, BoundAssumption DEF RxPutNew, TypeOK, Index
  <2>3. h \in Anim /\ h.name \in Name
    BY <1>8, <2>1, <2>2 DEF Anim
  <2>4. Receiving(h, h.name) \/ Declining(h)
    BY <1>12 DEF RxPutNew
  <2> QED
    BY <1>5, <1>6, <2>3, <2>4
<1> QED
  BY <1>4, <1>9, <1>10, <1>11, <1>12

(* So it does when a frame arrives, stored or not.                         *)
LEMMA FrameLink ==
  ASSUME TypeOK, LinkConsistent, RxFrame \/ RxLastFrame \/ RxFrameUnwritten
  PROVE LinkConsistent'
<1>1. Handler /\ FrameArrives
  BY DEF Handler, Receive, RxFrame, RxLastFrame, RxFrameUnwritten
<1>2. Msg \in Message
  BY <1>1, FrameFacts
<1>3. PICK p \in Frame : Buffered(link, Msg) = [link EXCEPT !.payload = p]
  BY <1>2, BufferedType DEF TypeOK
<1>4. link \in Link /\ link.part + 1 \in Nat
  BY DEF TypeOK, Link
<1>5. CASE RxFrame
  <2>1. link' = [[link EXCEPT !.payload = p] EXCEPT !.part = link.part + 1]
    BY <1>3, <1>4, <1>5 DEF RxFrame, Link
  <2>2. /\ link'.state = link.state /\ link'.fd = link.fd /\ link'.discard = link.discard
        /\ link'.peer = link.peer /\ link'.resends = link.resends /\ link'.header = link.header
    BY <1>4, <2>1 DEF Link
  <2> QED
    BY <1>1, <2>2, QuietLink
<1>6. CASE RxLastFrame
  <2> DEFINE l == [[link EXCEPT !.payload = p] EXCEPT !.part = link.part + 1, !.fd = NoName]
  <2>1. l \in Link /\ l.fd = NoName
    BY <1>4 DEF Link
  <2>2. link' = ToIdle(l)
    BY <1>3, <1>4, <1>6 DEF RxLastFrame, Link
  <2> QED
    BY <1>1, <2>1, <2>2, IdleLink
<1>7. CASE RxFrameUnwritten
  BY <1>1, <1>2, <1>7, BufferLink DEF RxFrameUnwritten
<1> QED
  BY <1>5, <1>6, <1>7

(* So it does when a send starts, goes on or ends, and on a timeout.       *)
LEMMA SendLink ==
  ASSUME TypeOK, LinkConsistent,
         Start \/ RxAck \/ RxAckLast \/ RxNackResends \/ RxNackGivesUp \/ TimeOut
  PROVE LinkConsistent'
<1>1. Handler /\ Running' /\ link \in Link /\ 0 \in 0..MaxResends
  BY HandlersRun, LimitAssumption DEF Handler, Receive, Running, TypeOK
<1>2. ASSUME EndSend, link.state # "FILE_RX" PROVE LinkConsistent'
  BY <1>1, <1>2, IdleLink DEF EndSend, LinkConsistent
<1>3. ASSUME link'.state = "FILE_TX", link'.fd = NoName PROVE LinkConsistent'
  BY <1>1, <1>3 DEF LinkConsistent
<1>4. CASE StartSend
  BY <1>1, <1>3, <1>4 DEF StartSend, LinkConsistent, Link
<1>5. CASE StartSendDeclined
  <2>1. /\ link.state = "IDLE"
        /\ link' = link \/ link' = [link EXCEPT !.header = [led.ambient EXCEPT !.id = 0], !.part = 0]
    BY <1>5 DEF StartSendDeclined
  <2>2. /\ link'.state = link.state /\ link'.fd = link.fd /\ link'.discard = link.discard
        /\ link'.peer = link.peer /\ link'.resends = link.resends
    BY <1>1, <2>1 DEF Link
  <2> QED
    BY <1>1, <2>1, <2>2, QuietLink
<1>6. CASE StartGet
  BY <1>1, <1>6, QuietLink DEF StartGet
<1>7. CASE RxAck
  <2>1. link.state = "FILE_TX" /\ link.fd = NoName
    BY <1>7 DEF RxAck, Sending, LinkConsistent
  <2>2. Acked.state = "FILE_TX" /\ Acked.fd = NoName /\ DOMAIN Acked = DOMAIN link
    BY <1>1, <2>1 DEF Acked, Link
  <2>3. link'.state = Acked.state /\ link'.fd = Acked.fd
    BY <1>1, <1>7 DEF RxAck, Acked, Link
  <2> QED
    BY <1>3, <2>2, <2>3
<1>8. CASE RxAckLast
  BY <1>2, <1>8 DEF RxAckLast, Sending
<1>9. CASE RxNackResends
  BY <1>1, <1>3, <1>9 DEF RxNackResends, Sending, LinkConsistent, Link
<1>10. CASE RxNackGivesUp
  BY <1>2, <1>10 DEF RxNackGivesUp, Sending
<1>11. CASE TimeoutSending
  BY <1>2, <1>11 DEF TimeoutSending
<1>12. CASE TimeoutReceiving
  <2>1. link' = [ToIdle(link) EXCEPT !.fd = NoName]
    BY <1>12 DEF TimeoutReceiving
  <2>2. link'.state = "IDLE" /\ link'.fd = NoName /\ link'.peer = NoPeer /\ link'.resends = 0
    BY <1>1, <2>1 DEF ToIdle, Link
  <2> QED
    BY <1>1, <2>2 DEF LinkConsistent
<1> QED
  BY <1>4, <1>5, <1>6, <1>7, <1>8, <1>9, <1>10, <1>11, <1>12 DEF Start, TimeOut

(* So it does in every step of the system.                                 *)
LEMMA LinkStep ==
  ASSUME TypeOK, LinkConsistent, Step
  PROVE LinkConsistent'
<1>1. ASSUME link' = link, boot' = boot PROVE LinkConsistent'
  BY <1>1 DEF LinkConsistent, Running
<1>2. CASE UNCHANGED vars \/ PeerSends \/ PeerHears \/ Ui
  BY <1>1, <1>2 DEF vars, PeerSends, PeerHears, Ui, Export, Import, Press, Select, WriteId,
                    FallBack
<1>3. ASSUME link' = NewLink PROVE LinkConsistent'
  BY <1>3 DEF LinkConsistent, NewLink
<1>4. CASE Boot
  BY <1>3, <1>4, BootIsEarly DEF LinkConsistent
<1>5. CASE PowerCut
  BY <1>3, <1>5 DEF PowerCut
<1>6. CASE RxIgnored \/ RxDelete \/ RxDeleteRefused \/ RxGarbledPayload
  <2>1. inq # << >> /\ Handler
    BY <1>6 DEF RxIgnored, RxDelete, RxDeleteRefused, RxGarbledPayload, Arrives, Handler, Receive,
                AirFault
  <2>2. Msg \in Message
    BY <2>1, TakeType DEF TypeOK
  <2> QED
    BY <1>6, <2>1, <2>2, BufferLink DEF RxIgnored, RxDelete, RxDeleteRefused, RxGarbledPayload
<1>7. CASE RxRejected \/ RxNoise \/ RxGetFile \/ RxHelo \/ RxLost \/ RxGarbledHeader
  BY <1>1, <1>7 DEF RxRejected, RxNoise, RxGetFile, RxHelo, RxLost, RxGarbledHeader
<1> QED
  BY <1>2, <1>4, <1>5, <1>6, <1>7, OfferLink, FrameLink, SendLink
     DEF Step, BadgeStep, Receive, AirFault, TimeOut

-----------------------------------------------------------------------------
(* InFlightFile is preserved.                                              *)

(* A step that leaves the receive and its file alone.                      *)
LEMMA FlightKept ==
  ASSUME InFlightFile,
         link'.state = link.state, link'.fd = link.fd, link'.header = link.header,
         link'.part = link.part, flash'.files = flash.files, index'.nextId = index.nextId
  PROVE InFlightFile'
BY DEF InFlightFile

(* A step after which no receive is going on.                              *)
LEMMA FlightOver == ASSUME link'.state # "FILE_RX" PROVE InFlightFile'
BY DEF InFlightFile

(* A receive that starts has an empty file under the announced header.     *)
LEMMA FlightOffer ==
  ASSUME TypeOK, RxPutUnreadable \/ RxPutDiscarded \/ RxPutUnlocks \/ RxPutNew
  PROVE InFlightFile'
<1>1. Offered
  BY DEF RxPutUnreadable, RxPutDiscarded, RxPutUnlocks, RxPutNew
<1>2. /\ Msg \in Message /\ Offer \in Anim /\ Offer.name \in Name /\ Offer.len >= 1
      /\ link.state = "IDLE"
  BY <1>1, OfferedFacts
<1>3. PICK p \in Frame : Buffered(link, Msg) = [link EXCEPT !.payload = p]
  BY <1>2, BufferedType DEF TypeOK
<1>4. ASSUME NEW h, Declining(h) PROVE link'.state # "FILE_RX"
  <2>1. link' = ToIdle([[link EXCEPT !.payload = p] EXCEPT !.header = h])
    BY <1>3, <1>4 DEF Declining
  <2> QED
    BY <2>1 DEF ToIdle, TypeOK, Link
<1>5. ASSUME NEW h, NEW fd, Receiving(h, fd)
      PROVE /\ link'.state = (IF fd = NoName THEN "FILE_RX_DONE" ELSE "FILE_RX")
            /\ link'.fd = fd /\ link'.part = 0 /\ link'.header = h
  <2>1. link' = [[link EXCEPT !.payload = p] EXCEPT
                   !.state = IF fd = NoName THEN "FILE_RX_DONE" ELSE "FILE_RX",
                   !.discard = fd = NoName, !.fd = fd,
                   !.peer = Msg.from, !.part = 0, !.header = h]
    BY <1>3, <1>5 DEF Receiving
  <2> QED
    BY <2>1 DEF TypeOK, Link
<1>6. CASE RxPutUnreadable
  BY <1>4, <1>6, FlightOver DEF RxPutUnreadable
<1>7. CASE RxPutDiscarded
  BY <1>5, <1>7, FlightOver DEF RxPutDiscarded
<1>8. CASE RxPutUnlocks
  BY <1>4, <1>5, <1>8, FlightOver DEF RxPutUnlocks
<1>9. CASE RxPutNew
  <2> DEFINE h == [Offer EXCEPT !.id = index.nextId]
  <2>1. h.name = Offer.name /\ h.id = index.nextId /\ h.len = Offer.len
    BY <1>2 DEF Anim
  <2>2. \/ /\ flash' = PutFile(h.name, Stored(h, << >>))
           /\ Receiving(h, h.name)
           /\ UNCHANGED index
        \/ Declining(h)
    BY <1>9 DEF RxPutNew
  <2> HIDE DEF h
  <2>3. CASE Declining(h)
    BY <1>4, <2>3, FlightOver
  <2>4. CASE /\ flash' = PutFile(h.name, Stored(h, << >>))
             /\ Receiving(h, h.name)
             /\ UNCHANGED index
    <3>1. /\ link'.state = (IF h.name = NoName THEN "FILE_RX_DONE" ELSE "FILE_RX")
          /\ link'.fd = h.name /\ link'.part = 0 /\ link'.header = h
      BY <1>5, <2>4
    <3>2. flash'.files[h.name] = Stored(h, << >>)
      BY <1>2, <2>1, <2>4 DEF PutFile, TypeOK, Flash
    <3>3. /\ flash'.files[h.name].kind = "data" /\ flash'.files[h.name].hdr = h
          /\ Len(flash'.files[h.name].frames) = 0
      BY <3>2 DEF Stored
    <3>4. 0 < h.len
      BY <1>2, <2>1 DEF Anim
    <3> QED
      BY <2>1, <2>4, <3>1, <3>3, <3>4 DEF InFlightFile
  <2> QED
    BY <2>2, <2>3, <2>4
<1> QED
  BY <1>6, <1>7, <1>8, <1>9

(* A frame that is acknowledged is on flash; one that is not leaves the    *)
(* count of the link alone.                                                *)
LEMMA FlightFrame ==
  ASSUME TypeOK, LinkConsistent, InFlightFile, RxFrame \/ RxLastFrame \/ RxFrameUnwritten
  PROVE InFlightFile'
<1>1. FrameArrives
  BY DEF RxFrame, RxLastFrame, RxFrameUnwritten
<1>2. /\ Msg \in Message /\ Msg.body \in Frame
      /\ ~link.discard => link.state = "FILE_RX" /\ link.fd \in Name
  BY <1>1, FrameFacts
<1>3. PICK p \in Frame : Buffered(link, Msg) = [link EXCEPT !.payload = p]
  BY <1>2, BufferedType DEF TypeOK
<1>4. ASSUME NEW f \in Frame, flash' = AppendFrame(f), link.fd \in Name
      PROVE LET old == flash.files[link.fd]
                new == flash'.files[link.fd]
            IN /\ new.kind = old.kind /\ new.hdr = old.hdr
               /\ new.frames = Append(old.frames, f)
  BY <1>4 DEF AppendFrame, TypeOK, Flash, File
<1>5. flash.files[link.fd].frames \in Seq(Frame) \/ link.fd \notin Name
  BY HeaderType DEF TypeOK, Flash
<1>6. CASE RxLastFrame
  <2>1. link' = ToIdle([[link EXCEPT !.payload = p] EXCEPT !.part = @ + 1, !.fd = NoName])
    BY <1>3, <1>6 DEF RxLastFrame
  <2> QED
    BY <2>1, FlightOver DEF ToIdle, TypeOK, Link
<1>7. CASE RxFrame
  <2>1. link' = [[link EXCEPT !.payload = p] EXCEPT !.part = link.part + 1]
    BY <1>3, <1>7 DEF RxFrame, TypeOK, Link
  <2>2. /\ link'.state = link.state /\ link'.fd = link.fd /\ link'.header = link.header
        /\ link'.part = link.part + 1
    BY <2>1 DEF TypeOK, Link
  <2>3. CASE link.state # "FILE_RX"
    BY <2>2, <2>3, FlightOver
  <2>4. CASE link.state = "FILE_RX"
    <3> DEFINE old == flash.files[link.fd].frames
               new == flash'.files[link.fd].frames
    <3>1. ~link.discard /\ link.fd \in Name
      BY <2>4 DEF LinkConsistent
    <3>2. flash' = AppendFrame(Msg.body)
      BY <1>7, <3>1 DEF RxFrame, FrameStored
    <3>3. /\ flash'.files[link.fd].kind = "data" /\ flash'.files[link.fd].hdr = link.header
          /\ new = Append(old, Msg.body)
      BY <1>2, <1>4, <2>4, <3>1, <3>2 DEF InFlightFile
    <3>4. link.header.id = index'.nextId /\ link.part + 1 < link.header.len
      BY <1>7, <2>4 DEF RxFrame, InFlightFile
    <3>5. (\A k \in 1..Len(new) : new[k] # Torn) => Len(new) = link.part + 1
      <4>1. old \in Seq(Frame)
        BY <1>5, <3>1
      <4>2. Len(new) = Len(old) + 1 /\ Len(old) \in Nat /\ \A k \in 1..Len(old) : new[k] = old[k]
        <5>1. new = Append(old, Msg.body) /\ Msg.body \in Frame
          BY <1>2, <3>3
        <5> HIDE DEF old, new
        <5> QED
          BY <4>1, <5>1, AppendKeeps
      <4>3. (\A k \in 1..Len(old) : old[k] # Torn) => Len(old) = link.part
        BY <2>4 DEF InFlightFile
      <4> HIDE DEF old, new
      <4>4. ASSUME \A k \in 1..Len(new) : new[k] # Torn PROVE \A k \in 1..Len(old) : old[k] # Torn
        <5>1. \A k \in 1..Len(old) : k \in 1..Len(new)
          BY <4>2
        <5> QED
          BY <4>2, <4>4, <5>1
      <4> QED
        BY <4>2, <4>3, <4>4
    <3> QED
      BY <2>2, <3>3, <3>4, <3>5 DEF InFlightFile
  <2> QED
    BY <2>3, <2>4
<1>8. CASE RxFrameUnwritten
  <2>1. /\ link'.state = link.state /\ link'.fd = link.fd /\ link'.header = link.header
        /\ link'.part = link.part
    BY <1>3, <1>8 DEF RxFrameUnwritten, TypeOK, Link
  <2>2. index' = index
    BY <1>8 DEF RxFrameUnwritten
  <2>3. CASE flash' = flash
    BY <2>1, <2>2, <2>3, FlightKept
  <2>4. CASE flash' = AppendFrame(Torn)
    <3>1. link.state = "FILE_RX" /\ link.fd \in Name
      BY <1>2, <1>8 DEF RxFrameUnwritten, LinkConsistent
    <3> DEFINE old == flash.files[link.fd].frames
               new == flash'.files[link.fd].frames
    <3>2. /\ flash'.files[link.fd].kind = "data" /\ flash'.files[link.fd].hdr = link.header
          /\ new = Append(old, Torn)
      BY <1>4, <2>4, <3>1, ValueTypes DEF InFlightFile
    <3>3. Len(new) \in 1..Len(new) /\ new[Len(new)] = Torn
      <4>1. old \in Seq(Frame)
        BY <1>5, <3>1
      <4>2. Len(old) \in Nat /\ Torn \in Frame
        BY <4>1, ValueTypes, LenProperties
      <4> HIDE DEF old, new
      <4>3. Len(Append(old, Torn)) = Len(old) + 1 /\ Append(old, Torn)[Len(old) + 1] = Torn
        BY <4>1, <4>2, AppendProperties
      <4> QED
        BY <3>2, <4>2, <4>3
    <3> QED
      BY <2>1, <2>2, <3>1, <3>2, <3>3 DEF InFlightFile
  <2> QED
    BY <1>8, <2>3, <2>4 DEF RxFrameUnwritten
<1> QED
  BY <1>6, <1>7, <1>8

(* Nothing on the sending side touches the file of a receive.              *)
LEMMA FlightSend ==
  ASSUME TypeOK, Start \/ RxAck \/ RxAckLast \/ RxNackResends \/ RxNackGivesUp \/ TimeOut
  PROVE InFlightFile'
<1>1. link \in Link
  BY DEF TypeOK
<1>2. link'.state # "FILE_RX"
  <2>1. CASE StartGet \/ StartSendDeclined
    BY <1>1, <2>1 DEF StartGet, StartSendDeclined, Link
  <2>2. CASE StartSend
    BY <1>1, <2>2 DEF StartSend, Link
  <2>3. CASE RxAck
    <3>1. link.state = "FILE_TX"
      BY <2>3 DEF RxAck, Sending
    <3>2. Acked.state = "FILE_TX" /\ DOMAIN Acked = DOMAIN link
      BY <1>1, <3>1 DEF Acked, Link
    <3>3. link'.state = Acked.state
      BY <1>1, <2>3 DEF RxAck, Acked, Link
    <3> QED
      BY <3>2, <3>3
  <2>4. CASE RxNackResends
    BY <1>1, <2>4 DEF RxNackResends, Sending, Link
  <2>5. CASE RxAckLast \/ RxNackGivesUp \/ TimeoutSending
    BY <1>1, <2>5 DEF RxAckLast, RxNackGivesUp, TimeoutSending, EndSend, ToIdle, Link
  <2>6. CASE TimeoutReceiving
    BY <1>1, <2>6 DEF TimeoutReceiving, ToIdle, Link
  <2> QED
    BY <2>1, <2>2, <2>3, <2>4, <2>5, <2>6 DEF Start, TimeOut
<1> QED
  BY <1>2, FlightOver

(* Every step keeps the file of the receive in step with the link.         *)
LEMMA FlightStep ==
  ASSUME TypeOK, LinkConsistent, InFlightFile, Step
  PROVE InFlightFile'
<1>1. ASSUME link' = link, flash'.files = flash.files, index' = index PROVE InFlightFile'
  BY <1>1, FlightKept
<1>2. CASE \/ UNCHANGED vars \/ PeerSends \/ PeerHears
           \/ RxRejected \/ RxNoise \/ RxGetFile \/ RxHelo \/ RxLost \/ RxGarbledHeader
  BY <1>1, <1>2 DEF vars, PeerSends, PeerHears, RxRejected, RxNoise, RxGetFile, RxHelo,
                    RxLost, RxGarbledHeader
<1>3. CASE Ui
  <2>1. link' = link /\ index' = index
    BY <1>3 DEF Ui, Export, Import, Press, Select, WriteId, FallBack
  <2>2. flash'.files = flash.files
    BY <1>3 DEF Ui, Export, Import, Press, Select, WriteId, FallBack, TypeOK, Flash
  <2> QED
    BY <1>1, <2>1, <2>2
<1>4. CASE Boot \/ PowerCut
  <2>1. link' = NewLink
    BY <1>4, BootIsEarly DEF LinkConsistent, PowerCut
  <2> QED
    BY <2>1, FlightOver DEF NewLink
<1>5. CASE RxIgnored \/ RxDelete \/ RxDeleteRefused \/ RxGarbledPayload \/ RxPutRefused
  <2>1. inq # << >>
    BY <1>5 DEF RxIgnored, RxDelete, RxDeleteRefused, RxGarbledPayload, RxPutRefused, Offered,
                Arrives
  <2>2. Msg \in Message
    BY <2>1, TakeType DEF TypeOK
  <2>3. PICK p : Buffered(link, Msg) = [link EXCEPT !.payload = p]
    BY <2>2, BufferedType DEF TypeOK
  <2>4. CASE RxIgnored
    <3>1. link' = [link EXCEPT !.payload = p] /\ flash' = flash /\ index' = index
      BY <2>3, <2>4 DEF RxIgnored
    <3> QED
      BY <3>1, FlightKept DEF TypeOK, Link
  <2>5. CASE RxGarbledPayload
    <3>1. link' = [link EXCEPT !.payload = Junk] /\ flash' = flash /\ index' = index
      BY <2>5 DEF RxGarbledPayload
    <3> QED
      BY <3>1, FlightKept DEF TypeOK, Link
  <2>6. CASE RxDelete \/ RxDeleteRefused \/ RxPutRefused
    <3>1. /\ link.state = "IDLE"
          /\ link' = [link EXCEPT !.payload = p]
               \/ link' = [[link EXCEPT !.payload = p] EXCEPT !.header = Offer]
      BY <2>3, <2>6 DEF RxDelete, RxDeleteRefused, RxPutRefused
    <3> QED
      BY <3>1, FlightOver DEF TypeOK, Link
  <2> QED
    BY <1>5, <2>4, <2>5, <2>6
<1> QED
  BY <1>2, <1>3, <1>4, <1>5, FlightOffer, FlightFrame, FlightSend
     DEF Step, BadgeStep, Receive, AirFault, TimeOut

-----------------------------------------------------------------------------
(* The inductive invariant: types, the link's own consistency and the file *)
(* of the receive, each of which needs the other two.                      *)
IInv == TypeOK /\ LinkConsistent /\ InFlightFile

(* The invariant holds when the badge is first switched on.                *)
LEMMA InitIInv == ASSUME Init PROVE IInv
<1>1. ASSUME NEW n \in Name PROVE SeededFile(n) \in File
  <2>1. CASE \E h \in Seed : h.name = n
    <3>1. (CHOOSE h \in Seed : h.name = n) \in Anim
      BY <2>1, SeedAssumption
    <3> QED
      BY <2>1, <3>1, FramesOfType DEF SeededFile, Stored, File
  <2>2. CASE ~ \E h \in Seed : h.name = n
    BY <2>2, ValueTypes DEF SeededFile
  <2> QED
    BY <2>1, <2>2
<1>2. flash \in Flash
  BY <1>1 DEF Init, Flash
<1>3. TypeOK
  BY <1>2, ValueTypes, SystemTypes, EmptySeq DEF Init, TypeOK
<1>4. LinkConsistent /\ InFlightFile
  BY DEF Init, NewLink, LinkConsistent, InFlightFile
<1> QED
  BY <1>3, <1>4 DEF IInv

(* It is inductive, so it holds in every state of every behaviour.         *)
LEMMA Invariance == Spec => []IInv
<1>1. LoneInit => IInv
  BY InitIInv DEF LoneInit
<1>2. IInv /\ [Next]_lvars => IInv'
  BY NextIsStep, TypeStep, LinkStep, FlightStep DEF IInv
<1> QED
  BY <1>1, <1>2, PTL DEF Spec

(* In every behaviour the ids, counters, files and messages of the badge   *)
(* stay within their types: the id a receive will take, the resend count,  *)
(* the cache slots (storage.c, ir.c).                                      *)
THEOREM TypesHold == Spec => []TypeOK
<1>1. IInv => TypeOK
  BY DEF IInv
<1> QED
  BY <1>1, Invariance, PTL

(* In every behaviour serial_fd is open exactly during a real receive and  *)
(* nothing of a transaction survives it: no handler of ir.c, whatever it   *)
(* hears and whatever fails under it, leaks a descriptor or a peer.        *)
THEOREM LinkStaysConsistent == Spec => []LinkConsistent
<1>1. IInv => LinkConsistent
  BY DEF IInv
<1> QED
  BY <1>1, Invariance, PTL

(* In every behaviour a receive in progress has its announced header and   *)
(* the frames acknowledged so far on flash, under the next id, and its     *)
(* file is still too short to pass for an animation (serial_rx_done).      *)
THEOREM ReceiveOnFlash == Spec => []InFlightFile
<1>1. IInv => InFlightFile
  BY DEF IInv
<1> QED
  BY <1>1, Invariance, PTL
=============================================================================
