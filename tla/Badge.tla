-------------------------------- MODULE Badge --------------------------------
(***************************************************************************)
(* One badge: the IR link task (badge_drivers/ir.c), the flash store under *)
(* it (badge_drivers/storage.c), the animation on display                  *)
(* (badge_drivers/led.c) and the boot sequence and button handling of the  *)
(* UI task (Startup/main.c).                                               *)
(*                                                                         *)
(* A step is one handler of one task.  That a handler runs to its end is   *)
(* what the note in ir_init (ir.c:931) assumes of the two tasks of equal   *)
(* priority; Tasks has the steps that fall into the waits of a handler.    *)
(* Messages arrive in inq and leave in outq; a message of inq is what the  *)
(* receiver finds after a sync word.                                       *)
(***************************************************************************)
EXTENDS AnimStore

CONSTANTS
  Self,          \* badge_id of this badge
  Station,       \* every from_id on the air
  Controller,    \* SERIAL_CONTROLLER_ID
  NoPeer,        \* serial_peer_id = 0
  NoBody,        \* the body of a message without payload
  SystemAnims,   \* led_direct_anims, in order: send, recv, startup, wave
  SendName, RecvName, StartupName,
  MinDelay,      \* MIN_FRAME_DELAY_MS
  MaxResends,    \* SERIAL_MAX_TX_RESENDS
  Seed,          \* the animations the programmer left on flash
  IoFaults,      \* storage operations that may fail: a subset of IoFault
  LinkFaults,    \* what the air may do to a message: a subset of LinkFault
  Residue        \* bound: sync words found in the payload of a refused message

IoFault == {"mount", "format", "read", "open", "header", "frame", "remove"}
LinkFault == {"lost", "header", "payload"}

VARIABLES
  boot,   \* 0: off; 1..4: led_init at that system animation; then its end; then up
  post,   \* post_errors
  link,   \* the serial_* variables
  ev,     \* events pending in ir_event_h
  flash,  \* /a/<name> for every name, and /.animid
  index,  \* storage_anim_id_cache and storage_next_anim_id
  led,    \* the led_anim_* variables
  inq,    \* messages this badge will find on the air, oldest first
  outq    \* messages this badge has sent

vars == <<boot, post, link, ev, flash, index, led, inq, outq>>

SystemName == {SystemAnims[i] : i \in DOMAIN SystemAnims}
Booted == Len(SystemAnims) + 2
Running == boot = Booted

Direct(n) == [name |-> n, len |-> AnimLen[n], delay |-> MinDelay, id |-> 0,
              unlocked |-> TRUE, direct |-> TRUE]
SendAnim == Direct(SendName)
RecvAnim == Direct(RecvName)
StartupAnim == Direct(StartupName)

-----------------------------------------------------------------------------
(* Types and initial state.                                                *)

State == {"IDLE", "FILE_TX", "FILE_RX", "FILE_RX_DONE"}

Link == [state : State, peer : Station \cup {NoPeer}, part : Nat, header : Anim,
         discard : BOOLEAN, resends : 0..MaxResends,
         fd : Name \cup {NoName}, payload : Frame]
NewLink == [state |-> "IDLE", peer |-> NoPeer, part |-> 0, header |-> ZeroAnim,
            discard |-> FALSE, resends |-> 0, fd |-> NoName, payload |-> Junk]

Led == [ambient : Anim, idle : Anim, chosen : Anim, animId : 0..MaxId, written : 0..MaxId]
NewLed == [ambient |-> ZeroAnim, idle |-> ZeroAnim, chosen |-> ZeroAnim,
           animId |-> 0, written |-> 0]

Flash == [files : [Name -> File], animid : {<< >>} \cup {<<i>> : i \in 0..MaxId}]

Bare == {"HELO", "ACK", "NACK", "GETFILE", "VERSION", "NOISE"}
Message ==
  [op : Bare, from : Station, body : {NoBody}]
    \cup [op : {"PUTFILE"}, from : Station, body : Anim]
    \cup [op : {"APPFILE"}, from : Station, body : Frame]
    \cup [op : {"DELFILE"}, from : Station, body : Name \cup {NoName, Unterminated}]
HasPayload(m) == m.op \in {"PUTFILE", "APPFILE", "DELFILE", "VERSION"}
Noise == [op |-> "NOISE", from |-> Self, body |-> NoBody]

ASSUME StationAssumption == Self \in Station /\ Controller \in Station /\ NoPeer \notin Station

ASSUME SystemAssumption ==
  /\ SystemAnims \in Seq(Name)
  /\ SendName \in SystemName /\ RecvName \in SystemName /\ StartupName \in SystemName

ASSUME LimitAssumption ==
  /\ MinDelay \in Nat \ {0} /\ MaxResends \in Nat /\ Residue \in Nat
  /\ IoFaults \subseteq IoFault /\ LinkFaults \subseteq LinkFault

ASSUME SeedAssumption ==
  /\ Seed \subseteq Anim
  /\ \A h \in Seed : h.name \in Name /\ h.len = AnimLen[h.name] /\ ~h.direct
  /\ \A g, h \in Seed : g # h => g.name # h.name /\ g.id # h.id

SeededFile(n) ==
  IF \E h \in Seed : h.name = n
  THEN Stored(CHOOSE h \in Seed : h.name = n, FramesOf(n))
  ELSE Absent

Init ==
  /\ boot = 0 /\ post = 0 /\ link = NewLink /\ ev = {}
  /\ flash = [files |-> [n \in Name |-> SeededFile(n)], animid |-> << >>]
  /\ index = NoIndex /\ led = NewLed /\ inq = << >> /\ outq = << >>

-----------------------------------------------------------------------------
(* Storage calls.  Outcomes(op) are the results a call of that kind can    *)
(* have: without a mounted filesystem every call fails, with one a call    *)
(* fails only where IoFaults lets it.                                      *)
Outcomes(op) == {b \in BOOLEAN : IF post # 0 THEN ~b ELSE b \/ op \in IoFaults}
Can(op) == TRUE \in Outcomes(op)
MayFail(op) == FALSE \in Outcomes(op)

(* The animations a directory scan reads back.                             *)
Readings(fs) ==
  IF ~Can("read") THEN {{}} ELSE IF MayFail("read") THEN SUBSET Live(fs) ELSE {Live(fs)}

(* What can be on display after led_set_anim(n): the stored header, or     *)
(* what was there before when it does not load.                            *)
AfterSetAnim(fs, n, old) ==
  {IF ok /\ n \in Name /\ fs[n].kind = "data" THEN fs[n].hdr ELSE old :
     ok \in Outcomes("read") }

PutFile(n, f) == [flash EXCEPT !.files[n] = f]

(* storage_overwrite_file on /.animid truncates and then writes.           *)
OverwrittenId(old, id) == {<<id>>} \cup (IF MayFail("open") THEN {old, << >>} ELSE {})

-----------------------------------------------------------------------------
(* Boot: storage_init, then led_init.                                      *)

StorageInitFails ==
  /\ boot = 0 /\ "mount" \in IoFaults
  /\ boot' = Booted - 1 /\ post' = 1
  /\ UNCHANGED <<link, ev, flash, index, led, inq, outq>>

Mounted(fl) ==
  /\ boot = 0
  /\ boot' = 1
  /\ \E seen \in Readings(fl.files), got \in Outcomes("read") :
       LET readable == got /\ fl.animid # << >>
           id == IF readable THEN fl.animid[1] ELSE 0
           hits == {n \in seen : fl.files[n].hdr.id = id}
       IN /\ index' = Scanned(fl.files, seen)
          /\ \E kept \in (IF readable THEN {fl.animid} ELSE OverwrittenId(fl.animid, 0)) :
               flash' = [fl EXCEPT !.animid = kept]
          /\ \E shown \in (IF hits = {} THEN {ZeroAnim} ELSE {fl.files[n].hdr : n \in hits}),
                cur \in {IF id < index'.nextId THEN id ELSE 0} :
               led' = [ambient |-> shown, idle |-> ZeroAnim, chosen |-> shown,
                       animId |-> cur, written |-> cur]
  /\ UNCHANGED <<post, link, ev, inq, outq>>

StorageInit == Mounted(flash)

(* A mount that finds no filesystem formats the flash and mounts again.    *)
StorageInitFormats ==
  /\ "format" \in IoFaults
  /\ Mounted([files |-> [n \in Name |-> Absent], animid |-> << >>])

(* storage_save_direct_anim: the id is used up whatever becomes of the     *)
(* file, and nothing looks at the result of the writes.  Without its       *)
(* header the file has the frames in the header's place, or stays as it    *)
(* was when they do not get written either.                                *)
SavedDirect(n) ==
  LET h == [name |-> n, len |-> AnimLen[n], delay |-> MinDelay,
            id |-> index.nextId, unlocked |-> FALSE, direct |-> FALSE]
      old == flash.files[n]
  IN {Overlaid(old, h, FramesOf(n))}
       \cup (IF MayFail("open") THEN {old} ELSE {})
       \cup (IF MayFail("header") THEN {Stub} \cup {f \in {old} : f.kind = "data"} ELSE {})
       \cup (IF MayFail("frame")
             THEN {Stored(h, [FramesOf(n) EXCEPT ![AnimLen[n]] = Torn])} ELSE {})

LedInitKeeps ==
  /\ boot \in DOMAIN SystemAnims
  /\ Valid(flash.files[SystemAnims[boot]]) /\ Can("read")
  /\ boot' = boot + 1
  /\ UNCHANGED <<post, link, ev, flash, index, led, inq, outq>>

LedInitSaves ==
  /\ boot \in DOMAIN SystemAnims
  /\ index.nextId <= MaxId
  /\ LET n == SystemAnims[boot]
     IN /\ ~Valid(flash.files[n]) \/ MayFail("read")
        /\ \E f \in SavedDirect(n) : flash' = PutFile(n, f)
  /\ index' = [index EXCEPT !.nextId = @ + 1]
  /\ boot' = boot + 1
  /\ UNCHANGED <<post, link, ev, led, inq, outq>>

(* The end of led_init, adc_init, button_init and ir_init.                 *)
LedInitShows ==
  /\ boot = Booted - 1
  /\ boot' = Booted
  /\ \/ post # 0 /\ led' = [led EXCEPT !.ambient = StartupAnim]
     \/ /\ post = 0
        /\ \E a \in AfterSetAnim(flash.files, led.ambient.name, led.ambient) :
             led' = [led EXCEPT !.ambient = a, !.chosen = a]
  /\ UNCHANGED <<post, link, ev, flash, index, inq, outq>>

-----------------------------------------------------------------------------
(* The link layer.                                                         *)

Msg == Head(inq)
Say(op, body) == outq' = Append(outq, [op |-> op, from |-> Self, body |-> body])
Reply(op) == Say(op, NoBody)

ToIdleWithPeer(l) == [l EXCEPT !.state = "IDLE", !.resends = 0]
(* serial_state_transition(IDLE).                                          *)
ToIdle(l) == [l EXCEPT !.state = "IDLE", !.peer = NoPeer, !.resends = 0]

(* The payload is read into serial_file_payload before anything looks at   *)
(* the state of the link.                                                  *)
Buffered(l, m) ==
  [l EXCEPT !.payload = IF m.op = "APPFILE" THEN m.body ELSE IF HasPayload(m) THEN Junk ELSE @]

FromAnyone(m) == TRUE
(* The last test of validate_header: a transaction has one peer.           *)
FromPeer(m) == link.state = "IDLE" \/ link.peer = NoPeer \/ m.from = link.peer

Arrives(op) == Running /\ inq # << >> /\ Msg.op = op /\ op # "NOISE" /\ FromPeer(Msg)
Take == inq' = Tail(inq)

(* Bytes of a payload nobody reads stay in the stream, and those that look *)
(* like a sync word are taken for the start of a header.                   *)
TakeHeaderOnly ==
  \E k \in (IF HasPayload(Msg) THEN 0..Residue ELSE {0}) :
    inq' = [i \in 1..k |-> Noise] \o Tail(inq)

Expected == [IDLE |-> {"GETFILE", "HELO", "DELFILE", "PUTFILE"}, FILE_TX |-> {"ACK", "NACK"},
             FILE_RX |-> {"APPFILE"}, FILE_RX_DONE |-> {"APPFILE"}]

(* A message its state has no use for still lands in the buffer.           *)
RxIgnored ==
  /\ \E op \in {"GETFILE", "HELO", "DELFILE", "PUTFILE", "ACK", "NACK", "APPFILE", "VERSION"} :
       op \notin Expected[link.state] /\ Arrives(op)
  /\ Take /\ link' = Buffered(link, Msg)
  /\ UNCHANGED <<boot, post, ev, flash, index, led, outq>>

(* A valid message of a station other than the peer, answered like a       *)
(* garbled header.                                                         *)
RxRejected ==
  /\ Running /\ inq # << >> /\ Msg.op # "NOISE" /\ ~FromPeer(Msg)
  /\ TakeHeaderOnly /\ Reply("NACK")
  /\ UNCHANGED <<boot, post, link, ev, flash, index, led>>

(* A sync word with no header behind it; the header-sized read may swallow *)
(* the start of the next message.                                          *)
RxNoise ==
  /\ Running /\ inq # << >> /\ Msg.op = "NOISE"
  /\ \E k \in {2, 3} : inq' = SubSeq(inq, k, Len(inq))
  /\ Reply("NACK")
  /\ UNCHANGED <<boot, post, link, ev, flash, index, led>>

(* What the air can do to a message, as this badge sees it.                *)
RxLost ==
  /\ "lost" \in LinkFaults /\ Running /\ inq # << >>
  /\ Take
  /\ UNCHANGED <<boot, post, link, ev, flash, index, led, outq>>

RxGarbledHeader ==
  /\ "header" \in LinkFaults /\ Running /\ inq # << >> /\ Msg.op # "NOISE"
  /\ TakeHeaderOnly /\ Reply("NACK")
  /\ UNCHANGED <<boot, post, link, ev, flash, index, led>>

RxGarbledPayloadUnchecked ==
  /\ "payload" \in LinkFaults /\ Running /\ inq # << >> /\ Msg.op = "APPFILE" /\ FromPeer(Msg)
  /\ link.state = "FILE_RX" /\ link.part + 1 < link.header.len
  /\ Take /\ Reply("ACK")
  /\ link' = [link EXCEPT !.payload = Junk, !.part = @ + 1]
  /\ flash' = [flash EXCEPT !.files[link.fd].frames = Append(@, Junk)]
  /\ UNCHANGED <<boot, post, ev, index, led>>
RxGarbledPayload ==
  /\ "payload" \in LinkFaults /\ Running /\ inq # << >> /\ HasPayload(Msg) /\ FromPeer(Msg)
  /\ Take /\ Reply("NACK")
  /\ link' = [link EXCEPT !.payload = Junk]
  /\ UNCHANGED <<boot, post, ev, flash, index, led>>

RxGetFile ==
  /\ Arrives("GETFILE") /\ link.state = "IDLE"
  /\ Take /\ ev' = ev \cup {"SENDFILE"}
  /\ UNCHANGED <<boot, post, link, flash, index, led, outq>>

RxHelo ==
  /\ Arrives("HELO") /\ link.state = "IDLE"
  /\ Take /\ Reply("VERSION")
  /\ UNCHANGED <<boot, post, link, ev, flash, index, led>>

-----------------------------------------------------------------------------
(* Deleting at the controller's request.                                   *)

LeavingNothing(n, fs, ix) == {led}
LeavingShownOnly(n, fs, ix) ==
  {IF led.ambient.name # n THEN led
   ELSE [led EXCEPT !.ambient = RecvAnim, !.animId = 0, !.chosen = RecvAnim]}

(* serial_leave_anim(n), after the file is gone from fs and ix.            *)
AfterLeaving(n, fs, ix) ==
  IF led.ambient.name # n
  THEN {IF led.chosen.name = n THEN [led EXCEPT !.chosen = led.ambient] ELSE led}
  ELSE {[led EXCEPT !.ambient = a, !.animId = a.id, !.chosen = a] :
          a \in UNION {IF next # NoName /\ next # n THEN AfterSetAnim(fs, next, RecvAnim)
                       ELSE {RecvAnim} :
                         next \in {NextName(fs, seen, ix, led.animId) : seen \in Readings(fs)} } }

DeletableByAnyone(m) == m.body \notin SystemName \cup {NoName, Unterminated}
DeletableWithSystem(m) == m.from = Controller /\ m.body \notin {NoName, Unterminated}
Deletable(m) ==
  m.from = Controller /\ m.body \notin SystemName \cup {NoName, Unterminated}

RxDelete ==
  /\ Arrives("DELFILE") /\ link.state = "IDLE"
  /\ Deletable(Msg) /\ flash.files[Msg.body].kind # "absent" /\ Can("remove")
  /\ Take /\ Reply("ACK")
  /\ link' = Buffered(link, Msg)
  /\ flash' = PutFile(Msg.body, Absent)
  /\ index' = [index EXCEPT !.cache = Uncached(@, Msg.body)]
  /\ led' \in AfterLeaving(Msg.body, flash'.files, index')
  /\ UNCHANGED <<boot, post, ev>>

RxDeleteRefused ==
  /\ Arrives("DELFILE") /\ link.state = "IDLE"
  /\ Deletable(Msg) => flash.files[Msg.body].kind = "absent" \/ MayFail("remove")
  /\ Take /\ Reply("NACK")
  /\ link' = Buffered(link, Msg)
  /\ UNCHANGED <<boot, post, ev, flash, index, led>>

-----------------------------------------------------------------------------
(* Receiving an animation.                                                 *)

Offer == [Msg.body EXCEPT !.direct = FALSE]
Acceptable(h) == h.name # Unterminated /\ h.len \in 1..MaxFrames /\ h.delay >= MinDelay

RxPutRefused ==
  /\ Arrives("PUTFILE") /\ link.state = "IDLE" /\ ~Acceptable(Offer)
  /\ Take /\ link' = [Buffered(link, Msg) EXCEPT !.header = Offer]
  /\ UNCHANGED <<boot, post, ev, flash, index, led, outq>>

Offered ==
  /\ Arrives("PUTFILE") /\ link.state = "IDLE"
  /\ Acceptable(Offer) /\ Offer.name \in Name
  /\ Take
  /\ UNCHANGED <<boot, post, ev>>

ReceivingUnanswered(h, fd) ==
  /\ UNCHANGED outq
  /\ link' = [Buffered(link, Msg) EXCEPT
                !.state = IF fd = NoName THEN "FILE_RX_DONE" ELSE "FILE_RX",
                !.discard = fd = NoName, !.fd = fd,
                !.peer = Msg.from, !.part = 0, !.header = h]
  /\ led' = [led EXCEPT !.idle = led.ambient, !.ambient = RecvAnim]

(* Entering a receive state for the animation h, with the frames going to  *)
(* the file fd, or nowhere.                                                *)
Receiving(h, fd) ==
  /\ Reply("ACK")
  /\ link' = [Buffered(link, Msg) EXCEPT
                !.state = IF fd = NoName THEN "FILE_RX_DONE" ELSE "FILE_RX",
                !.discard = fd = NoName, !.fd = fd,
                !.peer = Msg.from, !.part = 0, !.header = h]
  /\ led' = [led EXCEPT !.idle = led.ambient, !.ambient = RecvAnim]

(* Answering NACK with the display as it was.                              *)
Declining(h) ==
  /\ Reply("NACK")
  /\ link' = ToIdle([Buffered(link, Msg) EXCEPT !.header = h])
  /\ led' = [led EXCEPT !.idle = led.ambient]

Local == flash.files[Offer.name]
Saved == Valid(Local) /\ Can("read")

(* The file passed its size check and its header would not read back.      *)
RxPutUnreadable ==
  /\ Offered /\ Saved /\ MayFail("read")
  /\ Declining(Offer)
  /\ UNCHANGED <<flash, index>>

(* There is nothing to store: the frames are received and discarded.       *)
RxPutDiscarded ==
  /\ Offered /\ Saved
  /\ Local.hdr.unlocked \/ ~Offer.unlocked
  /\ Receiving([Offer EXCEPT !.id = Local.hdr.id, !.unlocked = Local.hdr.unlocked], NoName)
  /\ UNCHANGED <<flash, index>>

(* The offer unlocks our copy: only the header is rewritten.  The name     *)
(* enters the cache before the file is opened.                             *)
RxPutUnlocks ==
  /\ Offered /\ Saved
  /\ ~Local.hdr.unlocked /\ Offer.unlocked
  /\ LET h == [Offer EXCEPT !.id = Local.hdr.id]
     IN /\ index' = [index EXCEPT !.cache = Cached(@, h.id, h.name)]
        /\ \/ /\ Can("header")
              /\ flash' = PutFile(h.name, Stored(h, Local.frames))
              /\ Receiving(h, NoName)
           \/ /\ MayFail("open") \/ MayFail("header")
              /\ flash' = flash
              /\ Declining(h)

(* We have no copy that reads back as one: what there is gets truncated.   *)
RxPutNew ==
  /\ Offered /\ index.nextId <= MaxId
  /\ ~Valid(Local) \/ MayFail("read")
  /\ LET h == [Offer EXCEPT !.id = index.nextId]
     IN \/ /\ Can("open") /\ Can("header")
           /\ flash' = PutFile(h.name, Stored(h, << >>))
           /\ Receiving(h, h.name)
           /\ UNCHANGED index
        \/ /\ MayFail("open")
           /\ Declining(h)
           /\ UNCHANGED <<flash, index>>
        \/ /\ Can("open") /\ MayFail("header")
           /\ Declining(h)
           /\ \/ /\ Can("remove")
                 /\ flash' = PutFile(h.name, Absent)
                 /\ index' = [index EXCEPT !.cache = Uncached(@, h.name)]
              \/ /\ MayFail("remove")
                 /\ flash' = PutFile(h.name, Stub)
                 /\ UNCHANGED index

FrameArrives ==
  /\ Arrives("APPFILE") /\ link.state \in {"FILE_RX", "FILE_RX_DONE"}
  /\ Take
  /\ UNCHANGED <<boot, post, ev>>

AppendFrame(f) == [flash EXCEPT !.files[link.fd].frames = Append(@, f)]
FrameAcknowledgedFirst ==
  /\ flash' \in IF link.discard THEN {flash}
                ELSE {AppendFrame(Msg.body)} \cup (IF MayFail("frame") THEN {flash} ELSE {})
  /\ Reply("ACK")
FrameStored ==
  /\ link.discard \/ Can("frame")
  /\ flash' = IF link.discard THEN flash ELSE AppendFrame(Msg.body)
  /\ Reply("ACK")

RxFrame ==
  /\ FrameArrives /\ FrameStored
  /\ link.part + 1 < link.header.len
  /\ link' = [Buffered(link, Msg) EXCEPT !.part = @ + 1]
  /\ UNCHANGED <<index, led>>

(* The last frame: the id is used up, the animation goes on display and    *)
(* its name into the cache, under the id of whatever is on display.        *)
RxLastFrame ==
  /\ FrameArrives /\ FrameStored
  /\ link.part + 1 >= link.header.len
  /\ link' = ToIdle([Buffered(link, Msg) EXCEPT !.part = @ + 1, !.fd = NoName])
  /\ \E a \in AfterSetAnim(flash'.files, link.header.name, led.ambient) :
       /\ led' = [led EXCEPT !.ambient = a, !.animId = a.id]
       /\ index' = IF link.discard THEN index
                   ELSE [nextId |-> index.nextId + 1,
                         cache  |-> IF link.header.unlocked
                                    THEN Cached(index.cache, a.id, link.header.name)
                                    ELSE index.cache]

(* A failed write is not answered; it may leave a part of the frame.       *)
(* Bound: one such part in a file, which is then no animation whatever     *)
(* follows.                                                                *)
RxFrameUnwritten ==
  /\ FrameArrives /\ ~link.discard /\ MayFail("frame")
  /\ flash' \in {flash} \cup (IF Whole(flash.files[link.fd]) THEN {AppendFrame(Torn)} ELSE {})
  /\ link' = Buffered(link, Msg)
  /\ UNCHANGED <<index, led, outq>>

-----------------------------------------------------------------------------
(* Sending an animation.                                                   *)

(* serial_file_start, for the SENDFILE event.                              *)
StartSendDeclined ==
  /\ Running /\ link.state = "IDLE" /\ "SENDFILE" \in ev
  /\ ev' = ev \ {"SENDFILE"}
  /\ \/ led.ambient.direct /\ UNCHANGED link
     \/ /\ ~led.ambient.direct
        /\ led.ambient.name \in Name =>
             ~Valid(flash.files[led.ambient.name]) \/ MayFail("read")
        /\ link' = [link EXCEPT !.header = [led.ambient EXCEPT !.id = 0], !.part = 0]
  /\ UNCHANGED <<boot, post, flash, index, led, inq, outq>>

StartSend ==
  /\ Running /\ link.state = "IDLE" /\ "SENDFILE" \in ev
  /\ ~led.ambient.direct /\ led.ambient.name \in Name
  /\ Valid(flash.files[led.ambient.name]) /\ Can("read")
  /\ ev' = ev \ {"SENDFILE"}
  /\ LET h == [led.ambient EXCEPT !.id = 0]
     IN /\ link' = [link EXCEPT !.state = "FILE_TX", !.header = h, !.part = 0, !.resends = 0]
        /\ Say("PUTFILE", h)
  /\ led' = [led EXCEPT !.idle = led.ambient, !.ambient = SendAnim]
  /\ UNCHANGED <<boot, post, flash, index, inq>>

(* The GETFILE event, seen after the SENDFILE event of the same turn.      *)
StartGet ==
  /\ Running /\ link.state = "IDLE" /\ "GETFILE" \in ev /\ "SENDFILE" \notin ev
  /\ ev' = ev \ {"GETFILE"}
  /\ Reply("GETFILE")
  /\ UNCHANGED <<boot, post, link, flash, index, led, inq>>

EndSendDark == link' = ToIdle(link) /\ led' = led
EndSend ==
  /\ link' = ToIdle(link)
  /\ led' = [led EXCEPT !.ambient = led.idle]

Sending(op) ==
  /\ Arrives(op) /\ link.state = "FILE_TX"
  /\ Take
  /\ UNCHANGED <<boot, post, ev, flash, index>>

(* The peer of a send is whoever acknowledges first.                       *)
Acked == [link EXCEPT !.peer = IF @ = NoPeer THEN Msg.from ELSE @, !.resends = 0]
Frames == IF link.header.name \in Name THEN flash.files[link.header.name].frames ELSE << >>

RxAckLastEarly ==
  /\ Sending("ACK") /\ link.part + 1 >= link.header.len
  /\ EndSend
  /\ UNCHANGED outq
RxAckLast ==
  /\ Sending("ACK") /\ link.part = link.header.len
  /\ EndSend
  /\ UNCHANGED outq

RxAck ==
  /\ Sending("ACK") /\ link.part # link.header.len
  /\ \/ /\ Can("read") /\ link.part < Len(Frames)
        /\ link' = [Acked EXCEPT !.payload = Frames[link.part + 1], !.part = @ + 1]
        /\ Say("APPFILE", Frames[link.part + 1])
     \/ /\ MayFail("read") \/ link.part >= Len(Frames)
        /\ link' \in {Acked, [Acked EXCEPT !.payload = Junk]}
        /\ UNCHANGED outq
  /\ UNCHANGED led

RxNackResendsNext ==
  /\ Sending("NACK") /\ link.resends < MaxResends
  /\ link' = [link EXCEPT !.resends = @ + 1]
  /\ IF link.part = 0 THEN Say("PUTFILE", link.header)
     ELSE Say("APPFILE", IF link.part < Len(Frames) THEN Frames[link.part + 1] ELSE link.payload)
  /\ UNCHANGED led
RxNackResends ==
  /\ Sending("NACK") /\ link.resends < MaxResends
  /\ link' = [link EXCEPT !.resends = @ + 1]
  /\ IF link.part = 0 THEN Say("PUTFILE", link.header) ELSE Say("APPFILE", link.payload)
  /\ UNCHANGED led

RxNackGivesUp ==
  /\ Sending("NACK") /\ link.resends >= MaxResends
  /\ EndSend
  /\ UNCHANGED outq

-----------------------------------------------------------------------------
(* serial_timeout outside IDLE, on the deadline of a frame or of the whole *)
(* transaction.                                                            *)

TimeoutSendingOnly ==
  /\ Running /\ link.state = "FILE_TX"
  /\ EndSend
  /\ UNCHANGED <<boot, post, ev, flash, index, inq, outq>>
TimeoutSending ==
  /\ Running /\ link.state \in {"FILE_TX", "FILE_RX_DONE"}
  /\ EndSend
  /\ UNCHANGED <<boot, post, ev, flash, index, inq, outq>>

TimeoutReceivingKeeps ==
  /\ Running /\ link.state = "FILE_RX"
  /\ link' = [ToIdle(link) EXCEPT !.fd = NoName]
  /\ led' = [led EXCEPT !.ambient = led.idle]
  /\ UNCHANGED <<boot, post, ev, flash, index, inq, outq>>
TimeoutReceiving ==
  /\ Running /\ link.state = "FILE_RX"
  /\ link' = [ToIdle(link) EXCEPT !.fd = NoName]
  /\ led' = [led EXCEPT !.ambient = led.idle]
  /\ \/ /\ Can("remove")
        /\ flash' = PutFile(link.header.name, Absent)
        /\ index' = [index EXCEPT !.cache = Uncached(@, link.header.name)]
     \/ MayFail("remove") /\ UNCHANGED <<flash, index>>
  /\ UNCHANGED <<boot, post, ev, inq, outq>>

-----------------------------------------------------------------------------
(* The UI task and the display.                                            *)

(* The buttons work only on a badge whose flash works.                     *)
Press(event) ==
  /\ Running /\ post = 0
  /\ ev' = ev \cup {event}
  /\ UNCHANGED <<boot, post, link, flash, index, led, inq, outq>>

Export == Press("SENDFILE")
Import == Press("GETFILE")

(* led_next_anim.                                                          *)
Select ==
  /\ Running /\ post = 0 /\ link.state = "IDLE"
  /\ \/ /\ led.chosen.id # led.ambient.id
        /\ \E a \in AfterSetAnim(flash.files, led.chosen.name, led.ambient) :
             led' = [led EXCEPT !.ambient = a, !.animId = led.chosen.id]
     \/ /\ led.chosen.id = led.ambient.id
        /\ \E seen \in Readings(flash.files) :
             \E a \in AfterSetAnim(flash.files, NextName(flash.files, seen, index, led.animId),
                                   led.ambient) :
               led' = [led EXCEPT !.ambient = a, !.animId = a.id, !.chosen = a]
  /\ UNCHANGED <<boot, post, link, ev, flash, index, inq, outq>>

(* The five-minute save of the chosen animation's id.                      *)
IdUnwritten == Running /\ post = 0 /\ led.chosen.id # led.written

WriteId ==
  /\ IdUnwritten
  /\ \E kept \in OverwrittenId(flash.animid, led.chosen.id) : flash' = [flash EXCEPT !.animid = kept]
  /\ led' = [led EXCEPT !.written = led.chosen.id]
  /\ UNCHANGED <<boot, post, link, ev, index, inq, outq>>

(* led_load_frame gives up on an animation whose frames do not load.       *)
FallBack ==
  /\ Running /\ ~led.ambient.direct
  /\ led.ambient.name \in Name =>
       ~Valid(flash.files[led.ambient.name]) \/ MayFail("read")
  /\ led' = [led EXCEPT !.ambient = StartupAnim]
  /\ UNCHANGED <<boot, post, link, ev, flash, index, inq, outq>>

-----------------------------------------------------------------------------
(* Power.  A cut in the middle of a write leaves the file torn.            *)

Seeding == boot \in DOMAIN SystemAnims /\ ~Valid(flash.files[SystemAnims[boot]])
Truncating ==
  /\ Running /\ link.state = "IDLE" /\ inq # << >> /\ Msg.op = "PUTFILE"
  /\ Acceptable(Offer) /\ Offer.name \in Name /\ ~Valid(Local)

PowerCut ==
  /\ boot # 0
  /\ \/ flash' = flash
     \/ Seeding /\ flash' = PutFile(SystemAnims[boot], Stub)
     \/ Truncating /\ flash' = PutFile(Offer.name, Stub)
     \/ IdUnwritten /\ flash' = [flash EXCEPT !.animid = << >>]
  /\ boot' = 0 /\ post' = 0 /\ link' = NewLink /\ ev' = {}
  /\ index' = NoIndex /\ led' = NewLed /\ inq' = << >>
  /\ UNCHANGED outq

-----------------------------------------------------------------------------
Boot == StorageInit \/ StorageInitFails \/ StorageInitFormats
          \/ LedInitKeeps \/ LedInitSaves \/ LedInitShows

Receive ==
  \/ RxIgnored \/ RxRejected \/ RxNoise \/ RxGetFile \/ RxHelo
  \/ RxDelete \/ RxDeleteRefused
  \/ RxPutRefused \/ RxPutUnreadable \/ RxPutDiscarded \/ RxPutUnlocks \/ RxPutNew
  \/ RxFrame \/ RxLastFrame \/ RxFrameUnwritten
  \/ RxAck \/ RxAckLast \/ RxNackResends \/ RxNackGivesUp

AirFault == RxLost \/ RxGarbledHeader \/ RxGarbledPayload

Start == StartSend \/ StartSendDeclined \/ StartGet
TimeOut == TimeoutSending \/ TimeoutReceiving
Ui == Export \/ Import \/ Select \/ WriteId \/ FallBack

BadgeStep == Boot \/ Receive \/ AirFault \/ Start \/ TimeOut \/ Ui \/ PowerCut
=============================================================================
