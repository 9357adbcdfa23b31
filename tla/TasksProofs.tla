----------------------------- MODULE TasksProofs -----------------------------
(***************************************************************************)
(* Proofs about Tasks: what is on display, and what the owner has chosen,  *)
(* is on flash, although the UI task runs in the middle of the handlers of *)
(* the IR task and the IR task in the middle of those of the UI.           *)
(***************************************************************************)
EXTENDS Tasks, LibraryProofs

(* The faults that Tasks has steps for: a handler cut in two reads and     *)
(* writes without a fault.                                                 *)
FlashWorks == IoFaults \subseteq {"format", "remove"}

-----------------------------------------------------------------------------
(* The inductive invariant.                                                *)

(* What a descriptor shows is compiled in, or on flash under its id.       *)
Shows(fs, a) ==
  IF a.direct THEN a.name \in SystemName
  ELSE a.name # NoName => a.name \in Name /\ Valid(fs[a.name]) /\ fs[a.name].hdr.id = a.id

(* Or it has just been removed, and the display is about to leave it.      *)
Gone(i, a) == i.at = "removed" /\ ~a.direct /\ a.name = i.snap.name
ShowsBut(fs, i, a) == Shows(fs, a) \/ Gone(i, a)

(* No message waits, from the k-th on.                                     *)
OnlyNoise(q, k) == \A i \in k..Len(q) : q[i].op = "NOISE"

(* Where the tasks wait, and the types of what they remember.              *)
IrAt == {"ready", "sending", "offered", "answering", "removed"}
UiAt == {"ready", "picked", "saved"}
TaskTypes ==
  /\ ir \in [at : IrAt, snap : Anim, next : Link]
  /\ ui \in [at : UiAt, name : Name \cup {NoName, Unterminated}, back : BOOLEAN]

(* The tasks wait only on a badge that is up, and the IR task only in the  *)
(* middle of a handler that starts in IDLE.                                *)
PhaseInv ==
  /\ post = 0
  /\ ~Running => ir.at = "ready" /\ ui.at = "ready"
  /\ ir.at # "ready" => link.state = "IDLE"
  /\ OnlyNoise(inq, 2)

(* A handler of an offer goes on with the offer it has accepted.           *)
OfferInv ==
  ir.at \in {"offered", "answering"} =>
    /\ link.header.name \in Name /\ link.header.len = AnimLen[link.header.name]
    /\ ~link.header.direct /\ ir.next.peer # NoPeer

(* Once it has answered, all but the state and the peer of the receive is  *)
(* set up.                                                                 *)
AnswerInv ==
  ir.at = "answering" =>
    LET n == link.header.name
    IN /\ link.peer = NoPeer /\ link.resends = 0
       /\ \/ /\ ir.next.state = "FILE_RX" /\ ~link.discard /\ link.fd = n /\ link.part = 0
             /\ flash.files[n] = Stored(link.header, << >>) /\ link.header.id = index.nextId
          \/ /\ ir.next.state = "FILE_RX_DONE" /\ link.discard /\ link.fd = NoName
             /\ Valid(flash.files[n])

(* A deletion has removed the file of an animation that is not of the      *)
(* firmware.                                                               *)
RemovedInv ==
  ir.at = "removed" =>
    /\ ir.snap.name \in Name \ SystemName /\ flash.files[ir.snap.name].kind = "absent"
    /\ OnlyNoise(inq, 1)

(* Frames are discarded only for an animation that is there.               *)
HeldInv ==
  link.state = "FILE_RX_DONE" =>
    link.header.name \in Name /\ Valid(flash.files[link.header.name])

(* The store and the link are as in LoneBadge, but for a receive that is   *)
(* being set up.                                                           *)
BadgeInv ==
  /\ TypeOK /\ InFlightFile /\ AirInv /\ FilesSound /\ HeldInv
  /\ DistinctIds /\ CacheExact /\ SeededInv
  /\ ir.at # "answering" => LinkConsistent

(* What is shown, will be shown again or was chosen is on flash.           *)
DisplayInv ==
  /\ ShowsBut(flash.files, ir, led.ambient) /\ ShowsBut(flash.files, ir, led.chosen)
  /\ link.state # "IDLE" \/ ir.at \in {"offered", "answering"} => Shows(flash.files, led.idle)
  /\ ir.at = "sending" => Shows(flash.files, ir.snap)

(* The name that SELECT has picked is that of an animation; if that was    *)
(* deleted since, nothing takes the name before it is read.                *)
PickedInv ==
  ui.at = "picked" /\ ui.name \in Name =>
    \/ Valid(flash.files[ui.name])
    \/ flash.files[ui.name].kind = "absent" /\ OnlyNoise(inq, 1) /\ ir.at # "offered"

(* All of it.                                                              *)
TasksInv ==
  /\ TaskTypes /\ PhaseInv /\ OfferInv /\ AnswerInv /\ RemovedInv
  /\ BadgeInv /\ DisplayInv /\ PickedInv

-----------------------------------------------------------------------------
(* What follows from it in one state.                                      *)

(* Calls that can fail, and calls that cannot.                             *)
LEMMA CallsWork == ASSUME FlashWorks, post = 0 PROVE
  /\ WritesWork /\ ReadsWork /\ "mount" \notin IoFaults
  /\ \A fs, n, old : AfterSetAnim(fs, n, old) =
                       {IF n \in Name /\ fs[n].kind = "data" THEN fs[n].hdr ELSE old}
  /\ \A fs : Readings(fs) = {Live(fs)}
<1>1. /\ WritesWork /\ ReadsWork /\ "mount" \notin IoFaults
      /\ Can("read") /\ ~MayFail("read")
  BY OutcomeFacts DEF FlashWorks, WritesWork, ReadsWork
<1>2. Outcomes("read") = {TRUE}
  BY <1>1 DEF Can, MayFail, Outcomes
<1>3. ASSUME NEW fs, NEW n, NEW old
      PROVE AfterSetAnim(fs, n, old) =
              {IF n \in Name /\ fs[n].kind = "data" THEN fs[n].hdr ELSE old}
  BY <1>2 DEF AfterSetAnim
<1>4. ASSUME NEW fs PROVE Readings(fs) = {Live(fs)}
  BY <1>1 DEF Readings
<1> QED
  BY <1>1, <1>3, <1>4

(* Between the steps of a handler and outside, but for one wait, the       *)
(* invariants of LoneBadge hold.                                           *)
LEMMA StoreHolds == ASSUME TasksInv, ir.at # "answering" PROVE IInv /\ StoreInv
<1>1. BadgeInv /\ LinkConsistent /\ post = 0
  BY DEF TasksInv, BadgeInv, PhaseInv
<1>2. PostInv
  BY <1>1 DEF PostInv
<1>3. DiscardInv
  BY <1>1 DEF DiscardInv, BadgeInv, HeldInv, Valid
<1> QED
  BY <1>1, <1>2, <1>3 DEF BadgeInv, IInv, StoreInv

(* The pictures of the firmware, and a zeroed descriptor, need no flash.   *)
LEMMA DirectShows == ASSUME NEW fs PROVE
  /\ Shows(fs, SendAnim) /\ Shows(fs, RecvAnim) /\ Shows(fs, StartupAnim) /\ Shows(fs, ZeroAnim)
BY SystemAssumption DEF Shows, SendAnim, RecvAnim, StartupAnim, Direct, ZeroAnim

(* What loads from an animation shows it.                                  *)
LEMMA LoadShows ==
  ASSUME NEW fs, NEW n \in Name, Sound(n, fs[n]), Valid(fs[n])
  PROVE Shows(fs, fs[n].hdr)
BY DEF Shows, Sound, Valid

(* The animations but that of n are there after a step, under their ids.   *)
Kept(n) ==
  \A m \in Name \ {n} : Valid(flash.files[m]) =>
    Valid(flash'.files[m]) /\ flash'.files[m].hdr.id = flash.files[m].hdr.id

(* A descriptor shows what it did, unless its animation has gone.          *)
LEMMA KeptShows ==
  ASSUME NEW n, Kept(n), NEW a, Shows(flash.files, a), a.direct \/ a.name # n
  PROVE Shows(flash'.files, a)
BY DEF Kept, Shows

(* Files that stay, and files that were no animations, keep the others.    *)
LEMMA SameKept == ASSUME flash'.files = flash.files PROVE \A n : Kept(n)
BY DEF Kept

(* What is written over no animation takes none.                           *)
LEMMA PutsKept ==
  ASSUME TypeOK, NEW m \in Name, NEW f, Puts(m, f), ~Valid(flash.files[m])
  PROVE \A n : Kept(n)
BY PutsFacts DEF Kept

(* An animation of the firmware is there once the badge is up.             *)
LEMMA SystemValid ==
  ASSUME TypeOK, SeededInv, post = 0, boot \in {Booted - 1, Booted}, NEW n \in SystemName
  PROVE Valid(flash.files[n])
<1>1. /\ DOMAIN SystemAnims = 1..Len(SystemAnims) /\ Len(SystemAnims) \in Nat
      /\ boot > Len(SystemAnims)
  BY SystemAssumption DEF Booted
<1>2. PICK i \in DOMAIN SystemAnims : n = SystemAnims[i]
  BY DEF SystemName
<1>3. i < boot /\ boot # 0
  BY <1>1, <1>2
<1> QED
  BY <1>2, <1>3 DEF SeededInv

(* CyclicNext picks one of the ids.                                        *)
LEMMA CyclicNextIn ==
  ASSUME NEW ids \in SUBSET Nat, ids # {}, NEW cur \in Nat
  PROVE CyclicNext(ids, cur) \in ids
<1>1. CASE \E i \in ids : i > cur
  <2> DEFINE above == {i \in ids : i > cur}
  <2>1. above \in SUBSET Nat /\ above # {}
    BY <1>1
  <2>2. Min(above) \in above
    BY <2>1, MinIsLeast
  <2> QED
    BY <1>1, <2>2 DEF CyclicNext
<1>2. CASE ~ \E i \in ids : i > cur
  BY <1>2, MinIsLeast DEF CyclicNext
<1> QED
  BY <1>1, <1>2

(* SELECT finds an animation that is on flash, or none.                    *)
LEMMA NextNameIsLive ==
  ASSUME TypeOK, CacheExact, boot # 0, post = 0, NEW cur \in 0..MaxId
  PROVE NextName(flash.files, Live(flash.files), index, cur) \in Live(flash.files) \cup {NoName}
<1> DEFINE fs == flash.files
           seen == Live(fs)
           filled == {i \in 0..CacheSize - 1 : i < index.nextId /\ index.cache[i] # NoName} \ {cur}
           ids == {fs[n].hdr.id : n \in {m \in seen : fs[m].hdr.unlocked}} \ {cur}
<1>1. /\ cur \in Nat /\ CacheSize \in Nat /\ index.nextId \in Nat
      /\ \A n \in Name : fs[n].hdr.id \in Nat
  BY IdTypes, BoundAssumption
<1>2. \A i \in 0..CacheSize - 1 : index.cache[i] = NoName \/ index.cache[i] \in UnlockedAt(fs, seen, i)
  BY DEF CacheExact
<1>3. \A i : UnlockedAt(fs, seen, i) \subseteq seen
  BY DEF UnlockedAt
<1>4. NextName(fs, seen, index, cur) =
        IF index.nextId <= CacheSize
        THEN IF filled # {} THEN index.cache[CyclicNext(filled, cur)]
             ELSE IF cur < index.nextId THEN index.cache[cur] ELSE NoName
        ELSE IF ids # {} THEN CHOOSE n \in UnlockedAt(fs, seen, CyclicNext(ids, cur)) : TRUE
             ELSE NoName
  BY DEF NextName
<1>5. CASE index.nextId <= CacheSize
  <2>1. CASE filled # {}
    <3>1. filled \in SUBSET Nat
      BY <1>1
    <3>2. CyclicNext(filled, cur) \in filled
      BY <1>1, <2>1, <3>1, CyclicNextIn
    <3> HIDE DEF fs, seen
    <3>3. CyclicNext(filled, cur) \in 0..CacheSize - 1
      BY <3>2
    <3> HIDE DEF filled
    <3> QED
      BY <1>2, <1>3, <1>4, <1>5, <2>1, <3>3 DEF fs, seen
  <2>2. CASE filled = {}
    <3>1. cur < index.nextId => cur \in 0..CacheSize - 1
      BY <1>1, <1>5
    <3> HIDE DEF fs, seen, filled, ids
    <3> QED
      BY <1>2, <1>3, <1>4, <1>5, <2>2, <3>1 DEF fs, seen
  <2> QED
    BY <2>1, <2>2
<1>6. CASE ~(index.nextId <= CacheSize) /\ ids # {}
  <2>1. seen \subseteq Name
    BY DEF Live
  <2>2. ids \in SUBSET Nat
    BY <1>1, <2>1
  <2>3. CyclicNext(ids, cur) \in ids
    BY <1>1, <1>6, <2>2, CyclicNextIn
  <2>4. PICK n \in seen : fs[n].hdr.unlocked /\ fs[n].hdr.id = CyclicNext(ids, cur)
    BY <2>3
  <2> HIDE DEF ids, seen, filled
  <2>5. UnlockedAt(fs, seen, CyclicNext(ids, cur)) # {}
    BY <2>4 DEF UnlockedAt
  <2>6. (CHOOSE m \in UnlockedAt(fs, seen, CyclicNext(ids, cur)) : TRUE)
          \in UnlockedAt(fs, seen, CyclicNext(ids, cur))
    BY <2>5
  <2>7. NextName(fs, seen, index, cur) \in seen
    BY <1>3, <1>4, <1>6, <2>6
  <2> QED
    BY <2>7 DEF seen
<1>7. CASE ~(index.nextId <= CacheSize) /\ ids = {}
  <2> HIDE DEF fs, seen, filled, ids
  <2> QED
    BY <1>4, <1>7 DEF fs, seen
<1> QED
  BY <1>5, <1>6, <1>7

-----------------------------------------------------------------------------
(* Steps that leave the link, the files, the index and the air alone.      *)

Quiet ==
  /\ UNCHANGED <<boot, post, link, index, inq>>
  /\ flash'.files = flash.files

(* They keep what the store and the link need.                             *)
LEMMA QuietBadge ==
  ASSUME TasksInv, Quiet, TypeOK', ir'.at = "answering" \/ ir.at # "answering"
  PROVE BadgeInv'
<1>1. BadgeInv
  BY DEF TasksInv
<1>2. InFlightFile' /\ AirInv' /\ FilesSound' /\ HeldInv'
  BY <1>1 DEF BadgeInv, Quiet, InFlightFile, AirInv, FilesSound, Sound, HeldInv
<1>3. Live(flash'.files) = Live(flash.files)
  BY DEF Quiet
<1>4. DistinctIds' /\ CacheExact' /\ SeededInv'
  BY <1>1, <1>3 DEF BadgeInv, Quiet, DistinctIds, CacheExact, SeededInv
<1>5. LinkConsistent => LinkConsistent'
  BY DEF Quiet, LinkConsistent, Running
<1> QED
  BY <1>1, <1>2, <1>4, <1>5 DEF BadgeInv

(* When the IR task does not move either, only the display is left to      *)
(* look at.                                                                *)
LEMMA QuietStep ==
  ASSUME TasksInv, Quiet, TypeOK', ir' = ir, led'.idle = led.idle,
         ui' = ui \/ Running, TaskTypes', PickedInv',
         ShowsBut(flash.files, ir, led'.ambient), ShowsBut(flash.files, ir, led'.chosen)
  PROVE TasksInv'
<1>1. PhaseInv' /\ OfferInv' /\ AnswerInv' /\ RemovedInv'
  BY DEF TasksInv, Quiet, PhaseInv, Running, OfferInv, AnswerInv, RemovedInv
<1>2. DisplayInv'
  BY DEF TasksInv, Quiet, DisplayInv
<1>3. BadgeInv'
  BY QuietBadge
<1> QED
  BY <1>1, <1>2, <1>3 DEF TasksInv

(* A picked name stays picked while the files and the air stay.            *)
LEMMA QuietPicked ==
  ASSUME PickedInv, Quiet, ui' = ui \/ ui'.at # "picked", ir' = ir
  PROVE PickedInv'
BY DEF PickedInv, Quiet

(* Nothing happens.                                                        *)
LEMMA StutterInv == ASSUME TasksInv, UNCHANGED tvars PROVE TasksInv'
<1>1. UNCHANGED vars /\ ir' = ir /\ ui' = ui
  BY DEF tvars, lvars
<1>2. Quiet /\ led' = led
  BY <1>1 DEF vars, Quiet
<1>3. TypeOK'
  BY <1>1 DEF vars, TasksInv, BadgeInv, TypeOK
<1>4. TaskTypes' /\ PickedInv'
  BY <1>1, <1>2, QuietPicked DEF TasksInv, TaskTypes
<1> QED
  BY <1>1, <1>2, <1>3, <1>4, QuietStep DEF TasksInv, DisplayInv

(* A button is pressed, or an answer of the badge is heard.                *)
LEMMA PressInv ==
  ASSUME TasksInv, ir' = ir, ui' = ui, (\E e \in Presses : Press(e)) \/ PeerHears
  PROVE TasksInv'
<1>1. TypeOK
  BY DEF TasksInv, BadgeInv
<1>2. TypeOK'
  BY <1>1, PressAssumption, UiType, AirType DEF Ui, Export, Import
<1>3. Quiet /\ led' = led
  BY DEF Press, PeerHears, Quiet
<1>4. TaskTypes' /\ PickedInv'
  BY <1>3, QuietPicked DEF TasksInv, TaskTypes
<1> QED
  BY <1>2, <1>3, <1>4, QuietStep DEF TasksInv, DisplayInv

(* The display falls back from an animation that does not load.            *)
LEMMA FallBackInv ==
  ASSUME TasksInv, ir' = ir, ui' = ui, FallBack
  PROVE TasksInv'
<1>1. TypeOK
  BY DEF TasksInv, BadgeInv
<1>2. TypeOK'
  BY <1>1, UiType DEF Ui
<1>3. Quiet /\ led' = [led EXCEPT !.ambient = StartupAnim]
  BY DEF FallBack, Quiet
<1>4. led'.idle = led.idle /\ led'.chosen = led.chosen /\ led'.ambient = StartupAnim
  BY <1>1, <1>3 DEF TypeOK, Led
<1>5. TaskTypes' /\ PickedInv'
  BY <1>3, QuietPicked DEF TasksInv, TaskTypes
<1> QED
  BY <1>2, <1>3, <1>4, <1>5, QuietStep, DirectShows DEF TasksInv, DisplayInv, ShowsBut

(* The id of the chosen animation is saved, and noted as saved.            *)
LEMMA SaveInv ==
  ASSUME TasksInv, SaveId \/ NoteSaved
  PROVE TasksInv'
<1>1. TypeOK /\ led \in Led /\ TaskTypes
  BY DEF TasksInv, BadgeInv, TypeOK
<1>2. led.chosen.id \in 0..MaxId
  BY <1>1 DEF Led, Anim
<1>3. UiReady \in [at : UiAt, name : Name \cup {NoName, Unterminated}, back : BOOLEAN]
  BY DEF UiReady, UiAt
<1>4. CASE SaveId
  <2>1. /\ flash' = [flash EXCEPT !.animid = <<led.chosen.id>>] /\ led' = led /\ ir' = ir
        /\ ui' = [UiReady EXCEPT !.at = "saved"] /\ Running
        /\ UNCHANGED <<boot, post, link, ev, index, inq, outq>>
    BY <1>4 DEF SaveId, Rest, IdUnwritten
  <2>2. flash' \in Flash /\ flash'.files = flash.files
    BY <1>1, <1>2, <2>1 DEF TypeOK, Flash
  <2>3. TypeOK' /\ Quiet
    BY <1>1, <2>1, <2>2 DEF TypeOK, Quiet
  <2>4. TaskTypes' /\ ui'.at # "picked"
    BY <1>1, <1>3, <2>1 DEF TaskTypes, UiAt, UiReady
  <2> QED
    BY <2>1, <2>3, <2>4, QuietPicked, QuietStep DEF TasksInv, DisplayInv
<1>5. CASE NoteSaved
  <2>1. /\ led' = [led EXCEPT !.written = led.chosen.id] /\ flash' = flash /\ ir' = ir
        /\ ui' = UiReady /\ ui.at = "saved"
        /\ UNCHANGED <<boot, post, link, ev, index, inq, outq>>
    BY <1>5 DEF NoteSaved, Rest
  <2>2. /\ led' \in Led /\ led'.ambient = led.ambient /\ led'.chosen = led.chosen
        /\ led'.idle = led.idle
    BY <1>1, <1>2, <2>1 DEF Led
  <2>3. TypeOK' /\ Quiet
    BY <1>1, <2>1, <2>2 DEF TypeOK, Quiet
  <2>4. TaskTypes' /\ ui'.at # "picked" /\ Running
    BY <1>1, <1>3, <2>1 DEF TaskTypes, UiReady, TasksInv, PhaseInv
  <2> QED
    BY <2>1, <2>2, <2>3, <2>4, QuietPicked, QuietStep DEF TasksInv, DisplayInv
<1> QED
  BY <1>4, <1>5

(* SELECT picks the chosen animation, or the next one.                     *)
LEMMA PickInv == ASSUME FlashWorks, TasksInv, Pick PROVE TasksInv'
<1>1. /\ TypeOK /\ led \in Led /\ TaskTypes /\ CacheExact /\ SeededInv /\ post = 0 /\ Running
      /\ boot # 0
  BY SystemTypes DEF TasksInv, BadgeInv, TypeOK, PhaseInv, Pick, Running
<1>2. /\ led' = led /\ flash' = flash /\ ir' = ir
      /\ UNCHANGED <<boot, post, link, ev, index, inq, outq>>
  BY DEF Pick, Rest
<1>3. TypeOK' /\ Quiet
  BY <1>1, <1>2 DEF TypeOK, Quiet
<1>4. CASE ui' = [at |-> "picked", name |-> led.chosen.name, back |-> TRUE]
  <2>1. led.chosen.name \in Name \cup {NoName, Unterminated}
    BY <1>1 DEF Led, Anim
  <2>2. TaskTypes'
    BY <1>1, <1>2, <1>4, <2>1 DEF TaskTypes, UiAt
  <2>3. Shows(flash.files, led.chosen) /\ led.chosen.name \in Name
          => Valid(flash.files[led.chosen.name])
    BY <1>1, SystemValid, NameAssumption DEF Shows, Running
  <2>4. Gone(ir, led.chosen)
          => /\ flash.files[led.chosen.name].kind = "absent" /\ OnlyNoise(inq, 1)
             /\ ir.at # "offered"
    BY DEF Gone, TasksInv, RemovedInv
  <2>5. led.chosen.name \in Name =>
          \/ Valid(flash.files[led.chosen.name])
          \/ /\ flash.files[led.chosen.name].kind = "absent" /\ OnlyNoise(inq, 1)
             /\ ir.at # "offered"
    BY <2>3, <2>4 DEF TasksInv, DisplayInv, ShowsBut
  <2>6. ui'.name = led.chosen.name
    BY <1>4
  <2>7. PickedInv'
    BY <1>2, <2>5, <2>6 DEF PickedInv
  <2> QED
    BY <1>1, <1>2, <1>3, <2>2, <2>7, QuietStep DEF TasksInv, DisplayInv
<1>5. CASE ui' = [at |-> "picked", back |-> FALSE,
                  name |-> NextName(flash.files, Live(flash.files), index, led.animId)]
  <2>1. led.animId \in 0..MaxId
    BY <1>1 DEF Led
  <2>2. ui'.name \in Live(flash.files) \cup {NoName}
    BY <1>1, <1>5, <2>1, NextNameIsLive
  <2>3. ui'.name \in Name \cup {NoName}
    BY <2>2 DEF Live
  <2>4. TaskTypes'
    BY <1>1, <1>2, <1>5, <2>3 DEF TaskTypes, UiAt
  <2>5. PickedInv'
    BY <1>2, <2>2, NameAssumption DEF PickedInv, Live
  <2> QED
    BY <1>1, <1>2, <1>3, <2>4, <2>5, QuietStep DEF TasksInv, DisplayInv
<1> QED
  BY <1>4, <1>5 DEF Pick

(* What it shows is that animation, or what was there when it has gone.    *)
LEMMA ShowInv == ASSUME FlashWorks, TasksInv, Show PROVE TasksInv'
<1>1. /\ TypeOK /\ led \in Led /\ TaskTypes /\ FilesSound /\ post = 0 /\ ui.at = "picked" /\ Running
  BY DEF TasksInv, BadgeInv, TypeOK, PhaseInv, Show
<1>2. /\ flash' = flash /\ ir' = ir /\ ui' = UiReady
      /\ UNCHANGED <<boot, post, link, ev, index, inq, outq>>
  BY DEF Show, Rest
<1> DEFINE a == IF ui.name \in Name /\ flash.files[ui.name].kind = "data"
                THEN flash.files[ui.name].hdr ELSE led.ambient
<1>3. \/ led' = [led EXCEPT !.ambient = a, !.animId = led.chosen.id]
      \/ led' = [led EXCEPT !.ambient = a, !.animId = a.id, !.chosen = a]
  <2>1. AfterSetAnim(flash.files, ui.name, led.ambient) = {a}
    BY <1>1, CallsWork
  <2> HIDE DEF a
  <2> QED
    BY <2>1 DEF Show
<1>4. a \in Anim
  BY <1>1, HeaderType DEF TypeOK, Flash, Led
<1>5. ShowsBut(flash.files, ir, a)
  <2>1. CASE ui.name \in Name /\ flash.files[ui.name].kind = "data"
    <3>1. Valid(flash.files[ui.name]) /\ Sound(ui.name, flash.files[ui.name])
      BY <1>1, <2>1 DEF TasksInv, PickedInv, FilesSound
    <3> QED
      BY <2>1, <3>1, LoadShows DEF ShowsBut
  <2>2. CASE ~(ui.name \in Name /\ flash.files[ui.name].kind = "data")
    BY <2>2 DEF TasksInv, DisplayInv
  <2> QED
    BY <2>1, <2>2
<1> HIDE DEF a
<1>6. /\ led' \in Led /\ led'.ambient = a /\ led'.chosen \in {a, led.chosen} /\ led'.idle = led.idle
  <2>1. a.id \in 0..MaxId /\ led.chosen.id \in 0..MaxId
    BY <1>1, <1>4 DEF Led, Anim
  <2> QED
    BY <1>1, <1>3, <1>4, <2>1 DEF Led
<1>7. TypeOK' /\ Quiet
  BY <1>1, <1>2, <1>6 DEF TypeOK, Quiet
<1>8. TaskTypes' /\ ui'.at # "picked"
  BY <1>1, <1>2 DEF TaskTypes, UiAt, UiReady
<1> QED
  BY <1>1, <1>2, <1>5, <1>6, <1>7, <1>8, QuietPicked, QuietStep DEF TasksInv, DisplayInv

-----------------------------------------------------------------------------
(* What steps do to messages that wait.                                    *)

(* A badge that reads drops messages, and may leave noise.                 *)
InqReads ==
  \/ inq' = inq
  \/ inq # << >> /\ (Take \/ TakeHeaderOnly \/ \E k \in {2, 3} : inq' = SubSeq(inq, k, Len(inq)))

(* When one message waits at most, none does once it has been read.        *)
LEMMA NoiseReads ==
  ASSUME inq \in Seq(Message), InqReads, OnlyNoise(inq, 2)
  PROVE inq' = inq \/ OnlyNoise(inq', 1)
<1>1. Len(inq) \in Nat
  BY LenProperties
<1>2. ASSUME inq # << >> PROVE /\ Tail(inq) \in Seq(Message) /\ Len(Tail(inq)) = Len(inq) - 1
                               /\ \A i \in 1..Len(Tail(inq)) : Tail(inq)[i] = inq[i + 1]
  BY <1>2, HeadTailProperties
<1>3. ASSUME inq # << >> PROVE OnlyNoise(Tail(inq), 1)
  BY <1>1, <1>2, <1>3 DEF OnlyNoise
<1>4. CASE inq # << >> /\ Take
  BY <1>3, <1>4 DEF Take
<1>5. CASE inq # << >> /\ TakeHeaderOnly
  <2>1. PICK k \in Nat : inq' = [i \in 1..k |-> Noise] \o Tail(inq)
    <3>1. (IF HasPayload(Msg) THEN 0..Residue ELSE {0}) \subseteq Nat
      BY LimitAssumption
    <3> QED
      BY <1>5, <3>1 DEF TakeHeaderOnly
  <2> DEFINE noise == [i \in 1..k |-> Noise]
  <2>2. noise \in Seq(Message) /\ Len(noise) = k /\ \A i \in 1..k : noise[i].op = "NOISE"
    <3>1. noise \in [1..k -> Message]
      BY ValueTypes
    <3> QED
      BY <3>1, IsASeq, LenProperties DEF Noise
  <2> HIDE DEF noise
  <2>3. /\ Len(noise \o Tail(inq)) = k + Len(Tail(inq))
        /\ \A i \in 1..Len(noise \o Tail(inq)) :
             (noise \o Tail(inq))[i] = IF i <= k THEN noise[i] ELSE Tail(inq)[i - k]
    <3>1. noise \in Seq(Message) /\ Tail(inq) \in Seq(Message) /\ Len(noise) = k
      BY <1>2, <1>5, <2>2
    <3> QED
      BY <3>1, ConcatProperties
  <2>4. Len(Tail(inq)) \in Nat
    BY <1>2, <1>5, LenProperties
  <2>5. ASSUME NEW i \in 1..Len(noise \o Tail(inq)) PROVE (noise \o Tail(inq))[i].op = "NOISE"
    <3>1. CASE i <= k
      BY <2>2, <2>3, <2>4, <3>1
    <3>2. CASE ~(i <= k)
      <4>1. i - k \in 1..Len(Tail(inq))
        BY <2>3, <2>4, <3>2
      <4> QED
        BY <1>3, <1>5, <2>3, <3>2, <4>1 DEF OnlyNoise
    <3> QED
      BY <3>1, <3>2
  <2> QED
    BY <2>1, <2>5 DEF OnlyNoise, noise
<1>6. CASE inq # << >> /\ \E k \in {2, 3} : inq' = SubSeq(inq, k, Len(inq))
  <2>1. PICK k \in {2, 3} : inq' = SubSeq(inq, k, Len(inq))
    BY <1>6
  <2>2. ASSUME NEW i \in 1..Len(inq') PROVE inq'[i].op = "NOISE"
    <3>1. k <= Len(inq)
      <4>1. k > Len(inq) => inq' = << >>
        BY <1>1, <2>1, SubSeqProperties
      <4>2. Len(<< >>) = 0
        OBVIOUS
      <4> QED
        BY <1>1, <2>2, <4>1, <4>2
    <3>2. Len(inq') = Len(inq) - k + 1 /\ inq'[i] = inq[k + i - 1]
      BY <1>1, <2>1, <3>1, SubSeqProperties
    <3>3. k + i - 1 \in 2..Len(inq)
      BY <1>1, <3>1, <3>2
    <3> QED
      BY <3>2, <3>3 DEF OnlyNoise
  <2> QED
    BY <2>2 DEF OnlyNoise
<1> QED
  BY <1>4, <1>5, <1>6 DEF InqReads

-----------------------------------------------------------------------------
(* Handlers that run through.                                              *)

(* They change the files only where there is no animation.                 *)
LEMMA WholeFiles ==
  ASSUME IrWhole
  PROVE /\ Running /\ boot' = boot /\ post' = post /\ BadgeStep
        /\ RxFrame \/ RxLastFrame \/ TimeoutReceiving \/ (flash' = flash /\ index' = index)
        /\ RxLastFrame \/ led' = led \/ (link.state # "IDLE" /\ led' = [led EXCEPT !.ambient = led.idle])
<1>1. CASE StartSendDeclined \/ StartGet \/ TimeOut
  BY <1>1 DEF StartSendDeclined, StartGet, TimeOut, TimeoutSending, TimeoutReceiving, EndSend,
              BadgeStep, Start
<1>2. CASE RxIgnored \/ RxRejected \/ RxNoise \/ RxGetFile \/ RxHelo \/ RxDeleteRefused \/ RxPutRefused
  BY <1>2 DEF RxIgnored, RxRejected, RxNoise, RxGetFile, RxHelo, RxDeleteRefused, RxPutRefused,
              Arrives, BadgeStep, Receive
<1>3. CASE RxFrame \/ RxLastFrame
  BY <1>3 DEF RxFrame, RxLastFrame, FrameArrives, Arrives, BadgeStep, Receive
<1>4. CASE RxAck \/ RxAckLast \/ RxNackResends \/ RxNackGivesUp
  BY <1>4 DEF RxAck, RxAckLast, RxNackResends, RxNackGivesUp, Sending, Arrives, EndSend,
              BadgeStep, Receive
<1> QED
  BY <1>1, <1>2, <1>3, <1>4 DEF IrWhole

(* They read a message, or none.                                           *)
LEMMA WholeReads ==
  ASSUME IrWhole
  PROVE /\ InqReads
        /\ (RxFrame \/ RxLastFrame) => inq # << >> /\ Msg.op = "APPFILE"
<1>1. ASSUME StartSendDeclined \/ StartGet \/ TimeOut PROVE InqReads
  BY <1>1 DEF StartSendDeclined, StartGet, TimeOut, TimeoutSending, TimeoutReceiving, InqReads
<1>2. ASSUME RxIgnored \/ RxRejected \/ RxNoise \/ RxGetFile \/ RxHelo \/ RxDeleteRefused \/ RxPutRefused
      PROVE InqReads
  BY <1>2 DEF RxIgnored, RxRejected, RxNoise, RxGetFile, RxHelo, RxDeleteRefused, RxPutRefused,
              Arrives, InqReads
<1>3. ASSUME RxFrame \/ RxLastFrame PROVE InqReads
  BY <1>3 DEF RxFrame, RxLastFrame, FrameArrives, Arrives, InqReads
<1>4. ASSUME RxAck \/ RxAckLast \/ RxNackResends \/ RxNackGivesUp PROVE InqReads
  BY <1>4 DEF RxAck, RxAckLast, RxNackResends, RxNackGivesUp, Sending, Arrives, InqReads
<1>5. (RxFrame \/ RxLastFrame) => inq # << >> /\ Msg.op = "APPFILE"
  BY DEF RxFrame, RxLastFrame, FrameArrives, Arrives
<1> QED
  BY <1>1, <1>2, <1>3, <1>4, <1>5 DEF IrWhole

(* They start no transaction.                                              *)
LEMMA WholeState ==
  ASSUME TypeOK, IrWhole
  PROVE Stays \/ link'.state = "IDLE"
<1>1. link \in Link
  BY DEF TypeOK
<1>2. CASE RxRejected \/ RxNoise \/ RxGetFile \/ RxHelo
  BY <1>2 DEF RxRejected, RxNoise, RxGetFile, RxHelo, Stays
<1>3. CASE RxLastFrame \/ RxFrame \/ RxIgnored \/ RxDeleteRefused \/ RxPutRefused
  <2>1. inq # << >>
    BY <1>3 DEF RxLastFrame, RxFrame, FrameArrives, RxIgnored, RxDeleteRefused, RxPutRefused, Arrives
  <2>2. Msg \in Message
    BY <2>1, TakeType DEF TypeOK
  <2>3. PICK p : Buffered(link, Msg) = [link EXCEPT !.payload = p]
    BY <2>2, BufferedType DEF TypeOK
  <2>4. CASE RxLastFrame
    <3>1. link' = ToIdle([[link EXCEPT !.payload = p] EXCEPT !.part = @ + 1, !.fd = NoName])
      BY <2>3, <2>4 DEF RxLastFrame
    <3> QED
      BY <1>1, <3>1 DEF ToIdle, Link
  <2>5. CASE RxFrame
    <3>1. link' = [[link EXCEPT !.payload = p] EXCEPT !.part = @ + 1]
      BY <2>3, <2>5 DEF RxFrame
    <3> QED
      BY <1>1, <3>1 DEF Link, Stays
  <2>6. CASE RxIgnored \/ RxDeleteRefused
    <3>1. link' = [link EXCEPT !.payload = p]
      BY <2>3, <2>6 DEF RxIgnored, RxDeleteRefused
    <3> QED
      BY <1>1, <3>1 DEF Link, Stays
  <2>7. CASE RxPutRefused
    <3>1. link' = [[link EXCEPT !.payload = p] EXCEPT !.header = Offer] /\ link.state = "IDLE"
      BY <2>3, <2>7 DEF RxPutRefused
    <3> QED
      BY <1>1, <3>1 DEF Link
  <2> QED
    BY <1>3, <2>4, <2>5, <2>6, <2>7
<1>4. CASE StartSendDeclined \/ StartGet
  BY <1>1, <1>4 DEF StartSendDeclined, StartGet, Link, Stays
<1>5. CASE RxAck
  <2>1. link'.state = Acked.state /\ link'.header = Acked.header
    BY <1>1, <1>5 DEF RxAck, Acked, Link
  <2> QED
    BY <1>1, <2>1 DEF Acked, Link, Stays
<1>6. CASE RxNackResends
  BY <1>1, <1>6 DEF RxNackResends, Link, Stays
<1>7. CASE RxAckLast \/ RxNackGivesUp \/ TimeOut
  BY <1>1, <1>7 DEF RxAckLast, RxNackGivesUp, TimeOut, TimeoutSending, TimeoutReceiving, EndSend,
                    ToIdle, Link
<1> QED
  BY <1>2, <1>3, <1>4, <1>5, <1>6, <1>7 DEF IrWhole

(* A step of LoneBadge keeps what Tasks shares with it.                    *)
LEMMA StepKeeps ==
  ASSUME FlashWorks, TasksInv, ir.at = "ready", Step, HeldInv'
  PROVE BadgeInv'
<1>1. IInv /\ StoreInv /\ DistinctIds /\ CacheExact /\ SeededInv
  BY StoreHolds DEF TasksInv, BadgeInv
<1>2. ReadsWork /\ WritesWork
  BY CallsWork DEF TasksInv, PhaseInv
<1>3. TypeOK' /\ LinkConsistent' /\ InFlightFile'
  BY <1>1, TypeStep, LinkStep, FlightStep DEF IInv
<1>4. AirInv' /\ FilesSound'
  BY <1>1, AirStep, SoundStep DEF StoreInv
<1>5. DistinctIds' /\ CacheExact' /\ SeededInv'
  BY <1>1, <1>2, IdsStep, CacheStep, SeededStep
<1> QED
  BY <1>3, <1>4, <1>5 DEF BadgeInv

(* So do they, and the animations stay.                                    *)
LEMMA WholeKeeps ==
  ASSUME FlashWorks, TasksInv, ir.at = "ready", IrWhole
  PROVE BadgeInv' /\ Kept(NoName)
<1>1. TypeOK /\ LinkConsistent /\ InFlightFile /\ StoreInv /\ HeldInv
  BY StoreHolds DEF TasksInv, BadgeInv
<1>2. Kept(NoName)
  <2>1. CASE RxFrame \/ RxLastFrame
    BY <1>1, <2>1, FramePuts, SameKept, PutsKept DEF Lengthens
  <2>2. CASE TimeoutReceiving
    BY <1>1, <2>2, TimeoutPuts, SameKept, PutsKept
  <2> QED
    BY <2>1, <2>2, WholeFiles, SameKept
<1>3. HeldInv'
  BY <1>1, <1>2, WholeState, NameAssumption DEF HeldInv, Stays, Kept
<1>4. Step
  BY WholeFiles DEF Step
<1> QED
  BY <1>2, <1>3, <1>4, StepKeeps

(* The last frame shows an animation that is there.                        *)
LEMMA LastShows ==
  ASSUME FlashWorks, TasksInv, ir.at = "ready", RxLastFrame, BadgeInv'
  PROVE /\ led'.chosen = led.chosen /\ led'.idle = led.idle /\ link'.state = "IDLE"
        /\ Shows(flash'.files, led'.ambient)
<1>1. /\ IInv /\ StoreInv /\ ReadsWork /\ WritesWork /\ FilesSound' /\ HeldInv
      /\ TypeOK /\ LinkConsistent /\ InFlightFile
  BY StoreHolds, CallsWork DEF TasksInv, PhaseInv, BadgeInv
<1> DEFINE n == link.header.name
<1>2. n \in Name /\ led'.ambient = flash'.files[n].hdr
  BY <1>1, LastFrameShows
<1>3. Valid(flash'.files[n])
  <2>1. CASE ~link.discard /\ link.state = "FILE_RX" /\ link.fd \in Name /\ Lengthens
    <3>1. link.fd = n
      BY <1>1, <2>1 DEF LinkConsistent
    <3> QED
      BY <1>1, <2>1, <3>1, PutsFacts DEF Lengthens
  <2>2. CASE flash' = flash /\ (link.discard \/ RxFrameUnwritten)
    <3>1. ~RxFrameUnwritten
      BY <1>1, OutcomeFacts DEF RxFrameUnwritten, WritesWork, TasksInv, PhaseInv
    <3>2. link.state \in {"FILE_RX", "FILE_RX_DONE"}
      BY DEF RxLastFrame, FrameArrives
    <3>3. link.state = "FILE_RX_DONE"
      BY <1>1, <2>2, <3>1, <3>2 DEF LinkConsistent
    <3> QED
      BY <1>1, <2>2, <3>3 DEF HeldInv
  <2> QED
    BY <1>1, <2>1, <2>2, FramePuts
<1>4. Shows(flash'.files, led'.ambient)
  BY <1>1, <1>2, <1>3, LoadShows DEF FilesSound
<1>5. led'.chosen = led.chosen /\ led'.idle = led.idle
  BY <1>1 DEF RxLastFrame, TypeOK, Led
<1>6. link'.state = "IDLE"
  BY DEF RxLastFrame, ToIdle
<1> QED
  BY <1>4, <1>5, <1>6

(* A whole handler keeps the invariant.                                    *)
LEMMA WholeInv ==
  ASSUME FlashWorks, TasksInv, ir.at = "ready", IrWhole, ir' = ir, ui' = ui
  PROVE TasksInv'
<1>1. BadgeInv' /\ Kept(NoName)
  BY WholeKeeps
<1>2. /\ Running /\ boot' = boot /\ post' = post /\ led \in Led /\ inq \in Seq(Message)
      /\ Shows(flash.files, led.ambient) /\ Shows(flash.files, led.chosen)
      /\ link.state # "IDLE" => Shows(flash.files, led.idle)
  BY WholeFiles DEF TasksInv, DisplayInv, ShowsBut, Gone, BadgeInv, TypeOK
<1>3. TaskTypes' /\ OfferInv' /\ AnswerInv' /\ RemovedInv'
  BY DEF TasksInv, TaskTypes, OfferInv, AnswerInv, RemovedInv
<1>4. inq' = inq \/ OnlyNoise(inq', 1)
  BY <1>2, WholeReads, NoiseReads DEF TasksInv, PhaseInv
<1>5. OnlyNoise(inq, 1) => OnlyNoise(inq', 1)
  BY <1>4
<1>6. PhaseInv'
  BY <1>2, <1>4 DEF TasksInv, PhaseInv, Running, OnlyNoise
<1>7. DisplayInv'
  <2>1. ASSUME NEW a, Shows(flash.files, a) PROVE Shows(flash'.files, a)
    BY <1>1, <2>1, KeptShows DEF Shows
  <2>2. CASE RxLastFrame
    BY <1>1, <1>2, <2>1, <2>2, LastShows DEF DisplayInv, ShowsBut
  <2>3. CASE led' = led
    <3>1. link'.state # "IDLE" => link.state # "IDLE"
      BY WholeState DEF Stays, TasksInv, BadgeInv
    <3> QED
      BY <1>2, <2>1, <2>3, <3>1 DEF DisplayInv, ShowsBut
  <2>4. CASE link.state # "IDLE" /\ led' = [led EXCEPT !.ambient = led.idle]
    <3>1. led'.ambient = led.idle /\ led'.chosen = led.chosen /\ led'.idle = led.idle
      BY <1>2, <2>4 DEF Led
    <3> QED
      BY <1>2, <2>1, <2>4, <3>1 DEF DisplayInv, ShowsBut
  <2> QED
    BY <2>2, <2>3, <2>4, WholeFiles
<1>8. PickedInv'
  <2> SUFFICES ASSUME ui.at = "picked", ui.name \in Name
               PROVE \/ Valid(flash'.files[ui.name])
                     \/ /\ flash'.files[ui.name].kind = "absent" /\ OnlyNoise(inq', 1)
                        /\ ir.at # "offered"
    BY DEF PickedInv
  <2> DEFINE n == ui.name
  <2>1. CASE Valid(flash.files[n])
    BY <1>1, <2>1, NameAssumption DEF Kept
  <2>2. CASE flash.files[n].kind = "absent" /\ OnlyNoise(inq, 1)
    <3>1. ~RxFrame /\ ~RxLastFrame
      <4>1. inq # << >> => Msg.op = "NOISE"
        <5>1. inq # << >> => 1 \in 1..Len(inq) /\ Msg = inq[1]
          BY <1>2, HeadTailProperties, EmptySeq, LenProperties DEF Msg
        <5> QED
          BY <2>2, <5>1 DEF OnlyNoise
      <4> QED
        BY <4>1, WholeReads
    <3>2. flash'.files[n].kind = "absent"
      <4>1. CASE TimeoutReceiving
        <5>1. TypeOK /\ LinkConsistent /\ InFlightFile
          BY StoreHolds DEF TasksInv, BadgeInv
        <5>2. link.header.name \in Name /\ (flash' = flash \/ Puts(link.header.name, Absent))
          BY <4>1, <5>1, TimeoutPuts
        <5> QED
          BY <2>2, <5>1, <5>2, PutsFacts DEF Absent
      <4> QED
        BY <2>2, <3>1, <4>1, WholeFiles
    <3> QED
      BY <1>5, <2>2, <3>2
  <2> QED
    BY <2>1, <2>2 DEF TasksInv, PickedInv
<1> QED
  BY <1>1, <1>3, <1>6, <1>7, <1>8 DEF TasksInv

-----------------------------------------------------------------------------
(* Booting, and the stations around the badge.                             *)

(* A station sends a message to a badge that waits for one.                *)
LEMMA PeersInv ==
  ASSUME FlashWorks, TasksInv, PeersTurn, ir' = ir, ui' = ui
  PROVE TasksInv'
<1>1. /\ ir.at = "ready" /\ ui.at = "ready" /\ Running
      /\ UNCHANGED <<boot, post, link, flash, led>>
      /\ \E m : inq' = <<m>>
  BY DEF PeersTurn, PeerSends
<1>2. HeldInv'
  BY <1>1 DEF TasksInv, BadgeInv, HeldInv
<1>3. BadgeInv'
  BY <1>1, <1>2, StepKeeps DEF Step, PeersTurn
<1>4. OnlyNoise(inq', 2)
  BY <1>1 DEF OnlyNoise
<1>5. PhaseInv' /\ OfferInv' /\ AnswerInv' /\ RemovedInv' /\ TaskTypes' /\ PickedInv'
  BY <1>1, <1>4 DEF TasksInv, PhaseInv, Running, OfferInv, AnswerInv, RemovedInv, TaskTypes, PickedInv
<1>6. DisplayInv'
  BY <1>1 DEF TasksInv, DisplayInv
<1> QED
  BY <1>3, <1>5, <1>6 DEF TasksInv

(* Booting keeps the animations, or starts from what it finds.             *)
LEMMA BootShows ==
  ASSUME FlashWorks, TasksInv, Boot, BadgeInv'
  PROVE Shows(flash'.files, led'.ambient) /\ Shows(flash'.files, led'.chosen) /\ post' = 0
<1>1. /\ TypeOK /\ led \in Led /\ post = 0 /\ SeededInv /\ StoreInv /\ FilesSound /\ FilesSound'
      /\ Shows(flash.files, led.ambient) /\ Shows(flash.files, led.chosen) /\ ~Running
  <2>1. ~Running /\ ir.at = "ready"
    BY BootIsEarly DEF TasksInv, BadgeInv, PhaseInv
  <2> QED
    BY <2>1, StoreHolds DEF TasksInv, BadgeInv, PhaseInv, TypeOK, DisplayInv, ShowsBut, Gone
<1>2. CASE StorageInit \/ StorageInitFormats
  <2>1. PICK fl \in Flash : Mounted(fl)
    <3>1. [files |-> [n \in Name |-> Absent], animid |-> << >>] \in Flash
      BY ValueTypes DEF Flash
    <3> QED
      BY <1>1, <1>2, <3>1 DEF StorageInit, StorageInitFormats, TypeOK
  <2>2. Readings(fl.files) = {Live(fl.files)}
    BY <1>1, CallsWork
  <2>3. /\ flash'.files = fl.files /\ post' = post
        /\ \E shown \in {ZeroAnim} \cup {fl.files[n].hdr : n \in Live(fl.files)} :
             led'.ambient = shown /\ led'.chosen = shown
    BY <2>1, <2>2 DEF Mounted, Flash
  <2>4. ASSUME NEW n \in Live(fl.files) PROVE Shows(flash'.files, fl.files[n].hdr)
    BY <1>1, <2>3, <2>4, LoadShows DEF FilesSound, Live
  <2> QED
    BY <1>1, <2>3, <2>4, DirectShows
<1>3. CASE StorageInitFails
  BY <1>1, <1>3, CallsWork DEF StorageInitFails
<1>4. CASE LedInitKeeps
  BY <1>1, <1>4 DEF LedInitKeeps
<1>5. CASE LedInitSaves
  <2>1. Kept(NoName)
    BY <1>1, <1>5, CallsWork, SeedPuts, PutsKept
  <2>2. led' = led /\ post' = post
    BY <1>5 DEF LedInitSaves
  <2> QED
    BY <1>1, <2>1, <2>2, KeptShows DEF Shows
<1>6. CASE LedInitShows
  <2> DEFINE n == led.ambient.name
             a == IF n \in Name /\ flash.files[n].kind = "data" THEN flash.files[n].hdr ELSE led.ambient
  <2>1. /\ flash' = flash /\ post' = post /\ boot = Booted - 1
        /\ led' = [led EXCEPT !.ambient = a, !.chosen = a]
    <3>1. AfterSetAnim(flash.files, n, led.ambient) = {a}
      BY <1>1, CallsWork
    <3> HIDE DEF a
    <3> QED
      BY <1>1, <1>6, <3>1 DEF LedInitShows
  <2>2. Shows(flash.files, a)
    <3>1. CASE n \in Name /\ flash.files[n].kind = "data"
      <4>1. Valid(flash.files[n])
        BY <1>1, <2>1, <3>1, SystemValid, NameAssumption DEF Shows
      <4> QED
        BY <1>1, <3>1, <4>1, LoadShows DEF FilesSound
    <3>2. CASE ~(n \in Name /\ flash.files[n].kind = "data")
      BY <1>1, <3>2
    <3> QED
      BY <3>1, <3>2
  <2> HIDE DEF a
  <2>3. led'.ambient = a /\ led'.chosen = a
    BY <1>1, <2>1 DEF Led
  <2> QED
    BY <1>1, <2>1, <2>2, <2>3
<1> QED
  BY <1>2, <1>3, <1>4, <1>5, <1>6 DEF Boot

(* So it keeps the invariant.                                              *)
LEMMA BootInv ==
  ASSUME FlashWorks, TasksInv, Boot, ir' = ir, ui' = ui
  PROVE TasksInv'
<1>1. TypeOK /\ ~Running /\ link' = link /\ ir.at = "ready" /\ ui.at = "ready"
  BY BootIsEarly DEF TasksInv, BadgeInv, PhaseInv
<1>2. link.state = "IDLE"
  BY <1>1 DEF TasksInv, BadgeInv, LinkConsistent, NewLink
<1>3. HeldInv'
  BY <1>1, <1>2 DEF HeldInv
<1>4. BadgeInv'
  BY <1>1, <1>3, StepKeeps DEF Step, BadgeStep
<1>5. inq' = inq
  BY DEF Boot, StorageInit, StorageInitFails, StorageInitFormats, Mounted, LedInitKeeps,
         LedInitSaves, LedInitShows
<1>6. PhaseInv' /\ OfferInv' /\ AnswerInv' /\ RemovedInv' /\ TaskTypes' /\ PickedInv'
  BY <1>1, <1>4, <1>5, BootShows DEF TasksInv, PhaseInv, Running, OfferInv, AnswerInv, RemovedInv,
                                    TaskTypes, PickedInv
<1>7. DisplayInv'
  BY <1>1, <1>2, <1>4, BootShows DEF DisplayInv, ShowsBut
<1> QED
  BY <1>4, <1>6, <1>7 DEF TasksInv

-----------------------------------------------------------------------------
(* Handlers cut in two.                                                    *)

(* Where the IR task waits, and with what.                                 *)
LEMMA WaitTypes ==
  ASSUME NEW p \in IrAt, NEW a \in Anim, NEW l \in Link
  PROVE /\ IrReady.at = "ready"
        /\ [IrReady EXCEPT !.at = p, !.snap = a] \in [at : IrAt, snap : Anim, next : Link]
        /\ [IrReady EXCEPT !.at = p, !.next = l] \in [at : IrAt, snap : Anim, next : Link]
        /\ IrReady \in [at : IrAt, snap : Anim, next : Link]
BY ValueTypes DEF IrReady, IrAt

(* A handler that writes no file and changes the index nowhere.            *)
LEMMA FilesStay ==
  ASSUME TasksInv, TypeOK', flash' = flash, index' = index, boot' = boot, post' = post, InqReads
  PROVE /\ AirInv' /\ FilesSound' /\ DistinctIds' /\ CacheExact' /\ SeededInv'
        /\ OnlyNoise(inq', 2) /\ (OnlyNoise(inq, 1) => OnlyNoise(inq', 1))
<1>1. /\ AirInv /\ FilesSound /\ DistinctIds /\ CacheExact /\ SeededInv
      /\ OnlyNoise(inq, 2) /\ inq \in Seq(Message)
  BY DEF TasksInv, BadgeInv, PhaseInv, TypeOK
<1>2. AirInv'
  BY <1>1, AirMoves DEF InqMoves, Drains, Consumes, InqReads
<1>3. FilesSound' /\ DistinctIds' /\ CacheExact' /\ SeededInv'
  BY <1>1 DEF FilesSound, DistinctIds, CacheExact, SeededInv
<1>4. OnlyNoise(inq', 2) /\ (OnlyNoise(inq, 1) => OnlyNoise(inq', 1))
  BY <1>1, NoiseReads DEF OnlyNoise
<1> QED
  BY <1>2, <1>3, <1>4

(* The header of a send goes out.                                          *)
LEMMA SendHeaderInv ==
  ASSUME TasksInv, ir.at = "ready", SendHeader
  PROVE TasksInv'
<1> DEFINE h == [led.ambient EXCEPT !.id = 0]
<1>1. /\ TypeOK /\ link \in Link /\ led \in Led /\ led.ambient \in Anim /\ LinkConsistent
      /\ Running /\ link.state = "IDLE"
  BY DEF TasksInv, BadgeInv, TypeOK, Led, SendHeader
<1>2. /\ ir' = [IrReady EXCEPT !.at = "sending", !.snap = led.ambient]
      /\ link' = [link EXCEPT !.header = h, !.part = 0, !.resends = 0] /\ Say("PUTFILE", h)
      /\ ev' = ev \ {"SENDFILE"}
      /\ UNCHANGED <<boot, post, flash, index, led, inq, ui>>
  BY DEF SendHeader, Rest
<1>3. h \in Anim
  BY <1>1, BoundAssumption DEF Anim
<1>4. outq' \in Seq(Message)
  BY <1>1, <1>2, <1>3, SayType DEF TypeOK
<1> HIDE DEF h
<1>5. /\ link' \in Link /\ link'.state = "IDLE" /\ link'.fd = link.fd /\ link'.peer = link.peer
      /\ link'.resends = 0
  <2>1. 0 \in 0..MaxResends /\ 0 \in Nat
    BY LimitAssumption
  <2> QED
    BY <1>1, <1>2, <1>3, <2>1 DEF Link
<1>6. TypeOK'
  BY <1>1, <1>2, <1>4, <1>5 DEF TypeOK
<1>7. InFlightFile' /\ HeldInv' /\ LinkConsistent'
  BY <1>1, <1>2, <1>5 DEF InFlightFile, HeldInv, LinkConsistent, Running
<1>8. BadgeInv' /\ OnlyNoise(inq', 2)
  BY <1>2, <1>6, <1>7, FilesStay DEF BadgeInv, InqReads
<1>9. ir'.at = "sending" /\ ir'.snap = led.ambient /\ ir' \in [at : IrAt, snap : Anim, next : Link]
  <2>1. "sending" \in IrAt /\ NewLink \in Link
    BY ValueTypes DEF IrAt
  <2>2. ir' \in [at : IrAt, snap : Anim, next : Link]
    BY <1>1, <1>2, <2>1, WaitTypes
  <2> QED
    BY <1>2, <2>2 DEF IrReady
<1>10. TaskTypes' /\ PhaseInv' /\ OfferInv' /\ AnswerInv' /\ RemovedInv'
  BY <1>1, <1>2, <1>5, <1>8, <1>9 DEF TasksInv, TaskTypes, PhaseInv, Running, OfferInv, AnswerInv,
                                      RemovedInv
<1>11. DisplayInv'
  BY <1>2, <1>5, <1>9 DEF TasksInv, DisplayInv, ShowsBut, Gone
<1>12. PickedInv'
  BY <1>2, <1>9 DEF TasksInv, PickedInv
<1> QED
  BY <1>8, <1>10, <1>11, <1>12 DEF TasksInv

(* The send begins.                                                        *)
LEMMA SendBeginsInv == ASSUME TasksInv, SendBegins PROVE TasksInv'
<1>1. /\ TypeOK /\ link \in Link /\ led \in Led /\ LinkConsistent /\ Running /\ ir.at = "sending"
      /\ link.state = "IDLE" /\ ir.snap \in Anim
  BY DEF TasksInv, BadgeInv, TypeOK, TaskTypes, PhaseInv, SendBegins
<1>2. /\ ir' = IrReady /\ link' = [link EXCEPT !.state = "FILE_TX"]
      /\ led' = [led EXCEPT !.idle = ir.snap, !.ambient = SendAnim]
      /\ UNCHANGED <<boot, post, ev, flash, index, inq, outq, ui>>
  BY DEF SendBegins, Rest
<1>3. /\ link' \in Link /\ link'.state = "FILE_TX" /\ link'.fd = link.fd
  BY <1>1, <1>2 DEF Link, State
<1>4. /\ led' \in Led /\ led'.idle = ir.snap /\ led'.ambient = SendAnim /\ led'.chosen = led.chosen
  BY <1>1, <1>2, SystemTypes DEF Led
<1>5. TypeOK'
  BY <1>1, <1>2, <1>3, <1>4 DEF TypeOK
<1>6. InFlightFile' /\ HeldInv' /\ LinkConsistent'
  BY <1>1, <1>2, <1>3 DEF InFlightFile, HeldInv, LinkConsistent, Running
<1>7. BadgeInv' /\ OnlyNoise(inq', 2)
  BY <1>2, <1>5, <1>6, FilesStay DEF BadgeInv, InqReads
<1>8. ir'.at = "ready" /\ ir' \in [at : IrAt, snap : Anim, next : Link]
  BY <1>1, <1>2, ValueTypes, WaitTypes DEF IrAt, IrReady
<1>9. TaskTypes' /\ PhaseInv' /\ OfferInv' /\ AnswerInv' /\ RemovedInv'
  BY <1>1, <1>2, <1>7, <1>8 DEF TasksInv, TaskTypes, PhaseInv, Running, OfferInv, AnswerInv,
                                RemovedInv
<1>10. DisplayInv'
  BY <1>1, <1>2, <1>4, <1>8, DirectShows DEF TasksInv, DisplayInv, ShowsBut, Gone
<1>11. PickedInv'
  BY <1>2, <1>8 DEF TasksInv, PickedInv
<1> QED
  BY <1>7, <1>9, <1>10, <1>11 DEF TasksInv

(* An offer is taken, and the picture goes up.                             *)
LEMMA TakeOfferInv ==
  ASSUME TasksInv, ir.at = "ready", TakeOffer
  PROVE TasksInv'
<1>1. /\ TypeOK /\ link \in Link /\ led \in Led /\ LinkConsistent /\ AirInv
  BY DEF TasksInv, BadgeInv, TypeOK
<1>2. Offered
  BY DEF TakeOffer, Offered, Rest
<1>3. /\ Msg \in Message /\ inq' \in Seq(Message) /\ Offer \in Anim /\ Offer.name \in Name
      /\ link.state = "IDLE" /\ Running /\ inq # << >> /\ Msg.op = "PUTFILE" /\ Take
      /\ Offer.len = AnimLen[Offer.name] /\ ~Offer.direct
  BY <1>1, <1>2, OfferedFacts, OfferLength DEF Offered, Arrives
<1>4. Msg.from \in Station /\ Msg.from # NoPeer
  BY <1>3, MessageParts, StationAssumption
<1>5. PICK p \in Frame : Buffered(link, Msg) = [link EXCEPT !.payload = p]
  BY <1>1, <1>3, BufferedType
<1>6. /\ link' = [[link EXCEPT !.payload = p] EXCEPT !.header = Offer]
      /\ led' = [led EXCEPT !.idle = led.ambient, !.ambient = RecvAnim]
      /\ ir' = [IrReady EXCEPT !.at = "offered", !.next = [link EXCEPT !.peer = Msg.from]]
      /\ UNCHANGED <<boot, post, ev, flash, index, outq, ui>>
  BY <1>5 DEF TakeOffer, Rest
<1>7. /\ link' \in Link /\ link'.state = "IDLE" /\ link'.fd = link.fd /\ link'.peer = link.peer
      /\ link'.resends = link.resends /\ link'.header = Offer
  BY <1>1, <1>3, <1>6 DEF Link
<1>8. /\ led' \in Led /\ led'.idle = led.ambient /\ led'.ambient = RecvAnim
      /\ led'.chosen = led.chosen
  BY <1>1, <1>6, SystemTypes DEF Led
<1>9. TypeOK'
  BY <1>1, <1>3, <1>6, <1>7, <1>8 DEF TypeOK
<1>10. InFlightFile' /\ HeldInv' /\ LinkConsistent'
  BY <1>1, <1>3, <1>6, <1>7 DEF InFlightFile, HeldInv, LinkConsistent, Running
<1>11. BadgeInv' /\ OnlyNoise(inq', 2)
  BY <1>3, <1>6, <1>9, <1>10, FilesStay DEF BadgeInv, InqReads
<1>12. /\ ir'.at = "offered" /\ ir'.next.peer = Msg.from
       /\ ir' \in [at : IrAt, snap : Anim, next : Link]
  <2>1. [link EXCEPT !.peer = Msg.from] \in Link /\ [link EXCEPT !.peer = Msg.from].peer = Msg.from
    BY <1>1, <1>4 DEF Link
  <2>2. "offered" \in IrAt /\ ZeroAnim \in Anim
    BY ValueTypes DEF IrAt
  <2>3. ir' \in [at : IrAt, snap : Anim, next : Link]
    BY <1>6, <2>1, <2>2, WaitTypes
  <2> QED
    BY <1>6, <2>1, <2>3 DEF IrReady
<1>13. TaskTypes' /\ PhaseInv' /\ OfferInv' /\ AnswerInv' /\ RemovedInv'
  BY <1>3, <1>4, <1>6, <1>7, <1>11, <1>12 DEF TasksInv, TaskTypes, PhaseInv, Running, OfferInv,
                                              AnswerInv, RemovedInv
<1>14. DisplayInv'
  BY <1>6, <1>8, <1>12, DirectShows DEF TasksInv, DisplayInv, ShowsBut, Gone
<1>15. ~OnlyNoise(inq, 1)
  <2>1. 1 \in 1..Len(inq) /\ Msg = inq[1]
    BY <1>1, <1>3, HeadTailProperties, EmptySeq, LenProperties DEF Msg, TypeOK
  <2> QED
    BY <1>3, <2>1 DEF OnlyNoise
<1>16. PickedInv'
  BY <1>6, <1>15 DEF TasksInv, PickedInv
<1> QED
  BY <1>11, <1>13, <1>14, <1>16 DEF TasksInv

(* The receive that was answered begins.                                   *)
LEMMA ReceiveBeginsInv == ASSUME TasksInv, ReceiveBegins PROVE TasksInv'
<1> DEFINE n == link.header.name
<1>1. /\ TypeOK /\ link \in Link /\ Running /\ ir.at = "answering" /\ link.state = "IDLE"
      /\ ir.next \in Link /\ n \in Name /\ link.header.len = AnimLen[n] /\ ir.next.peer # NoPeer
  BY DEF TasksInv, BadgeInv, TypeOK, TaskTypes, PhaseInv, OfferInv, ReceiveBegins
<1>2. /\ ir' = IrReady
      /\ link' = [link EXCEPT !.state = ir.next.state, !.peer = ir.next.peer]
      /\ UNCHANGED <<boot, post, ev, flash, index, led, inq, outq, ui>>
  BY DEF ReceiveBegins, Rest
<1>3. /\ link' \in Link /\ link'.state = ir.next.state /\ link'.peer = ir.next.peer
      /\ link'.fd = link.fd /\ link'.header = link.header /\ link'.discard = link.discard
      /\ link'.part = link.part
  BY <1>1, <1>2 DEF Link
<1>4. TypeOK'
  BY <1>1, <1>2, <1>3 DEF TypeOK
<1>5. \/ /\ ir.next.state = "FILE_RX" /\ ~link.discard /\ link.fd = n /\ link.part = 0
         /\ flash.files[n] = Stored(link.header, << >>) /\ link.header.id = index.nextId
      \/ /\ ir.next.state = "FILE_RX_DONE" /\ link.discard /\ link.fd = NoName
         /\ Valid(flash.files[n])
  BY <1>1 DEF TasksInv, AnswerInv
<1>6. LinkConsistent' /\ HeldInv'
  BY <1>1, <1>2, <1>3, <1>5 DEF LinkConsistent, HeldInv, Running
<1>7. InFlightFile'
  <2>1. link.header.len \in Nat /\ link.header.len > 0
    BY <1>1, BoundAssumption
  <2>2. Stored(link.header, << >>).kind = "data" /\ Stored(link.header, << >>).hdr = link.header
        /\ Stored(link.header, << >>).frames = << >>
    BY DEF Stored
  <2> QED
    BY <1>2, <1>3, <1>5, <2>1, <2>2 DEF InFlightFile
<1>8. BadgeInv' /\ OnlyNoise(inq', 2)
  BY <1>2, <1>4, <1>6, <1>7, FilesStay DEF BadgeInv, InqReads
<1>9. ir'.at = "ready" /\ ir' \in [at : IrAt, snap : Anim, next : Link]
  BY <1>1, <1>2, ValueTypes, WaitTypes DEF IrAt, IrReady
<1>10. TaskTypes' /\ PhaseInv' /\ OfferInv' /\ AnswerInv' /\ RemovedInv'
  BY <1>1, <1>2, <1>8, <1>9 DEF TasksInv, TaskTypes, PhaseInv, Running, OfferInv, AnswerInv,
                                RemovedInv
<1>11. DisplayInv'
  BY <1>1, <1>2, <1>9 DEF TasksInv, DisplayInv, ShowsBut, Gone
<1>12. PickedInv'
  BY <1>2, <1>9 DEF TasksInv, PickedInv
<1> QED
  BY <1>8, <1>10, <1>11, <1>12 DEF TasksInv

(* From one holding to another, the ids, the cache and the animations of   *)
(* the firmware stay right.                                                *)
LEMMA MovesKeep ==
  ASSUME FlashWorks, TasksInv, Running, TypeOK', Moves, boot' = boot, post' = post
  PROVE DistinctIds' /\ CacheExact' /\ SeededInv'
<1>1. TypeOK /\ DistinctIds /\ CacheExact /\ SeededInv /\ post = 0 /\ boot # 0 /\ WritesWork
  BY SystemTypes, CallsWork DEF TasksInv, BadgeInv, PhaseInv, Running
<1>2. DistinctIds'
  BY <1>1, MovesIds
<1>3. CacheExact'
  <2>1. Exact(flash.files, index.cache)
    BY <1>1 DEF Exact, CacheExact
  <2>2. Exact(flash'.files, index'.cache)
    BY <1>1, <2>1, MovesExact
  <2> QED
    BY <2>2 DEF Exact, CacheExact
<1>4. SeededInv'
  <2>1. ASSUME NEW i \in DOMAIN SystemAnims, Valid(flash.files[SystemAnims[i]])
        PROVE Valid(flash'.files[SystemAnims[i]])
    BY <2>1, MovesSeeded, SystemAssumption DEF SystemName
  <2> QED
    BY <1>1, <2>1 DEF SeededInv
<1> QED
  BY <1>2, <1>3, <1>4

(* What an answered offer leaves keeps the invariant.                      *)
LEMMA AnsweredInv ==
  ASSUME FlashWorks, TasksInv, AnswerOffer, TypeOK', FilesSound', Moves, Kept(NoName),
         link'.state = "IDLE", link'.header.name \in Name,
         link'.header.len = AnimLen[link'.header.name], ~link'.header.direct,
         ir'.at = "answering", ir' \in [at : IrAt, snap : Anim, next : Link],
         ir'.next.peer = ir.next.peer, AnswerInv'
  PROVE TasksInv'
<1>1. /\ ir.at = "offered" /\ UNCHANGED <<boot, post, cuts, ev, led, inq, ui>>
      /\ Running /\ ir.next.peer # NoPeer
  BY DEF AnswerOffer, Rest, TasksInv, PhaseInv, OfferInv
<1>2. DistinctIds' /\ CacheExact' /\ SeededInv'
  BY <1>1, MovesKeep
<1>3. InFlightFile' /\ HeldInv' /\ AirInv'
  BY <1>1 DEF InFlightFile, HeldInv, AirInv, TasksInv, BadgeInv
<1>4. BadgeInv'
  BY <1>2, <1>3 DEF BadgeInv
<1>5. TaskTypes' /\ PhaseInv' /\ OfferInv' /\ RemovedInv'
  BY <1>1 DEF TasksInv, TaskTypes, PhaseInv, Running, OnlyNoise, OfferInv, RemovedInv
<1>6. DisplayInv'
  <2>1. ASSUME NEW a, Shows(flash.files, a) PROVE Shows(flash'.files, a)
    BY <2>1, KeptShows DEF Shows
  <2> QED
    BY <1>1, <2>1 DEF TasksInv, DisplayInv, ShowsBut, Gone
<1>7. PickedInv'
  <2>1. ui.at = "picked" /\ ui.name \in Name => Valid(flash.files[ui.name])
    BY <1>1 DEF TasksInv, PickedInv
  <2> QED
    BY <1>1, <2>1, NameAssumption DEF PickedInv, Kept
<1> QED
  BY <1>4, <1>5, <1>6, <1>7 DEF TasksInv

(* The accepted offer is answered.                                         *)
LEMMA AnswerOfferInv == ASSUME FlashWorks, TasksInv, AnswerOffer PROVE TasksInv'
<1> DEFINE n == link.header.name
<1>1. /\ TypeOK /\ FilesSound /\ link \in Link /\ link.header \in Anim /\ index \in Index
      /\ flash \in Flash /\ n \in Name /\ link.header.len = AnimLen[n] /\ ~link.header.direct
      /\ ir.at = "offered" /\ ir \in [at : IrAt, snap : Anim, next : Link] /\ post = 0
      /\ Running /\ link.state = "IDLE" /\ link.peer = NoPeer /\ link.resends = 0
      /\ link.fd = NoName /\ outq \in Seq(Message)
  BY DEF AnswerOffer, TasksInv, BadgeInv, TypeOK, TaskTypes, PhaseInv, OfferInv, LinkConsistent, Link
<1>2. /\ outq' \in Seq(Message)
      /\ UNCHANGED <<boot, post, ev, led, inq, ui>>
  BY <1>1, ReplyType DEF AnswerOffer, Rest, Bare
<1>3. /\ OfferedCopy = flash.files[n] /\ OfferedCopy \in File /\ OfferedCopy.hdr \in Anim
      /\ Sound(n, OfferedCopy)
  BY <1>1, HeaderType DEF OfferedCopy, Flash, FilesSound
<1>4. CASE KeepsCopy
  <2>1. /\ Valid(flash.files[n]) /\ flash' = flash /\ index' = index
        /\ link' = [link EXCEPT !.header.id = OfferedCopy.hdr.id,
                                !.header.unlocked = OfferedCopy.hdr.unlocked,
                                !.discard = TRUE, !.part = 0]
        /\ ir' = [ir EXCEPT !.at = "answering", !.next.state = "FILE_RX_DONE"]
    BY <1>3, <1>4 DEF KeepsCopy
  <2>2. OfferedCopy.hdr.id \in 0..MaxId /\ OfferedCopy.hdr.unlocked \in BOOLEAN
    BY <1>3 DEF Anim
  <2>3. /\ link' \in Link /\ link'.state = "IDLE" /\ link'.header.name = n
        /\ link'.header.len = AnimLen[n] /\ ~link'.header.direct /\ link'.discard
        /\ link'.fd = NoName /\ link'.peer = NoPeer /\ link'.resends = 0
    <3> DEFINE h == [link.header EXCEPT !.id = OfferedCopy.hdr.id,
                                        !.unlocked = OfferedCopy.hdr.unlocked]
    <3>1. h \in Anim /\ h.name = n /\ h.len = AnimLen[n] /\ ~h.direct
      BY <1>1, <2>2 DEF Anim
    <3>2. link' = [link EXCEPT !.header = h, !.discard = TRUE, !.part = 0]
      BY <1>1, <2>1 DEF Link
    <3> HIDE DEF h
    <3> QED
      BY <1>1, <3>1, <3>2 DEF Link
  <2>4. /\ ir' \in [at : IrAt, snap : Anim, next : Link] /\ ir'.at = "answering"
        /\ ir'.next.state = "FILE_RX_DONE" /\ ir'.next.peer = ir.next.peer
    BY <1>1, <2>1 DEF IrAt, Link, State
  <2>5. TypeOK'
    BY <1>1, <1>2, <2>1, <2>3 DEF TypeOK
  <2>6. FilesSound' /\ Kept(NoName) /\ Moves
    BY <1>1, <2>1, SameKept, SameKeeps, IndexKeeps DEF FilesSound, Moves
  <2>7. AnswerInv'
    BY <2>1, <2>3, <2>4 DEF AnswerInv
  <2> QED
    BY <1>1, <2>3, <2>4, <2>5, <2>6, <2>7, AnsweredInv
<1>5. CASE UnlocksCopy
  <2> DEFINE h == [link.header EXCEPT !.id = OfferedCopy.hdr.id]
             f == Stored(h, OfferedCopy.frames)
  <2>1. /\ Valid(flash.files[n]) /\ ~flash.files[n].hdr.unlocked /\ link.header.unlocked
        /\ link' = [link EXCEPT !.header = h, !.discard = TRUE, !.part = 0]
        /\ flash' = PutFile(h.name, f)
        /\ index' = [index EXCEPT !.cache = Cached(index.cache, h.id, h.name)]
        /\ ir' = [ir EXCEPT !.at = "answering", !.next.state = "FILE_RX_DONE"]
    BY <1>3, <1>5 DEF UnlocksCopy
  <2>2. OfferedCopy.hdr.id \in 0..MaxId
    BY <1>3 DEF Anim
  <2>3. /\ h \in Anim /\ h.name = n /\ h.len = AnimLen[n] /\ ~h.direct /\ h.unlocked
        /\ h.id = flash.files[n].hdr.id
    BY <1>1, <1>3, <2>1, <2>2 DEF Anim
  <2>4. f.kind = "data" /\ f.hdr = h /\ f.frames = OfferedCopy.frames
    BY DEF Stored
  <2>5. f \in File
    BY <1>3, <2>3 DEF Stored, File
  <2> HIDE DEF h, f
  <2>6. Sound(n, f) /\ Valid(f)
    <3>1. OfferedCopy.hdr.len = AnimLen[n]
      BY <1>3, <2>1 DEF Sound, Valid
    <3> QED
      BY <1>3, <2>1, <2>3, <2>4, <3>1 DEF Sound, Valid, Whole
  <2>7. Puts(n, f) /\ flash' \in Flash
    BY <1>1, <2>1, <2>3, <2>5, PutFilePuts, PutFileType
  <2>8. flash'.files[n] = f /\ OthersKept(n) /\ FilesSound'
    BY <1>1, <2>6, <2>7, PutsKeeps, PutsSound
  <2>9. Moves
    BY <1>1, <2>1, <2>3, <2>4, <2>6, <2>8 DEF Moves, Unlocks
  <2>10. Kept(NoName)
    BY <2>3, <2>4, <2>6, <2>8 DEF Kept, OthersKept, AnimKept
  <2>11. /\ link' \in Link /\ link'.state = "IDLE" /\ link'.header = h /\ link'.discard
         /\ link'.fd = NoName /\ link'.peer = NoPeer /\ link'.resends = 0
    BY <1>1, <2>1, <2>3 DEF Link
  <2>12. /\ ir' \in [at : IrAt, snap : Anim, next : Link] /\ ir'.at = "answering"
         /\ ir'.next.state = "FILE_RX_DONE" /\ ir'.next.peer = ir.next.peer
    BY <1>1, <2>1 DEF IrAt, Link, State
  <2>13. index' \in Index
    <3>1. Cached(index.cache, h.id, h.name) \in Cache
      BY <1>1, <2>2, <2>3, CacheType DEF Index, Anim
    <3> QED
      BY <1>1, <2>1, <3>1 DEF Index
  <2>14. TypeOK'
    BY <1>1, <1>2, <2>7, <2>11, <2>13 DEF TypeOK
  <2>15. AnswerInv'
    BY <2>3, <2>6, <2>8, <2>11, <2>12 DEF AnswerInv
  <2> QED
    BY <1>1, <2>3, <2>8, <2>9, <2>10, <2>11, <2>12, <2>14, <2>15, AnsweredInv
<1>6. CASE StartsCopy
  <2> DEFINE h == [link.header EXCEPT !.id = index.nextId]
             f == Stored(h, << >>)
  <2>1. /\ ~Valid(flash.files[n]) /\ index.nextId <= MaxId
        /\ link' = [link EXCEPT !.header = h, !.discard = FALSE, !.part = 0, !.fd = h.name]
        /\ flash' = PutFile(h.name, f) /\ index' = index
        /\ ir' = [ir EXCEPT !.at = "answering", !.next.state = "FILE_RX"]
    BY <1>3, <1>6 DEF StartsCopy
  <2>2. index.nextId \in 0..MaxId
    BY <1>1, <2>1, BoundAssumption DEF Index
  <2>3. /\ h \in Anim /\ h.name = n /\ h.len = AnimLen[n] /\ ~h.direct /\ h.id = index.nextId
    BY <1>1, <2>2 DEF Anim
  <2>4. f \in File
    BY <2>3, EmptySeq DEF Stored, File
  <2>5. Sound(n, f) /\ ~Valid(f)
    BY <1>1, <2>3, FreshFile
  <2> HIDE DEF h
  <2>6. Puts(n, f) /\ flash' \in Flash
    BY <1>1, <2>1, <2>3, <2>4, PutFilePuts, PutFileType
  <2>7. flash'.files[n] = f /\ AllKept /\ FilesSound' /\ Kept(NoName)
    BY <1>1, <2>1, <2>5, <2>6, PutsKeeps, PutsSound, PutsKept
  <2>8. Moves
    BY <1>1, <2>1, <2>7, IndexKeeps DEF Moves
  <2>9. /\ link' \in Link /\ link'.state = "IDLE" /\ link'.header = h /\ ~link'.discard
        /\ link'.fd = n /\ link'.peer = NoPeer /\ link'.resends = 0 /\ link'.part = 0
    BY <1>1, <2>1, <2>3 DEF Link
  <2>10. /\ ir' \in [at : IrAt, snap : Anim, next : Link] /\ ir'.at = "answering"
         /\ ir'.next.state = "FILE_RX" /\ ir'.next.peer = ir.next.peer
    BY <1>1, <2>1 DEF IrAt, Link, State
  <2>11. TypeOK'
    BY <1>1, <1>2, <2>1, <2>6, <2>9 DEF TypeOK
  <2>12. AnswerInv'
    BY <2>1, <2>3, <2>7, <2>9, <2>10 DEF AnswerInv
  <2> QED
    BY <1>1, <2>3, <2>7, <2>8, <2>9, <2>10, <2>11, <2>12, AnsweredInv
<1> QED
  BY <1>4, <1>5, <1>6 DEF AnswerOffer

(* An animation is removed at the controller's request.                    *)
LEMMA RemoveInv ==
  ASSUME FlashWorks, TasksInv, ir.at = "ready", Remove
  PROVE TasksInv'
<1> DEFINE n == Msg.body
<1>1. /\ TypeOK /\ FilesSound /\ link \in Link /\ index \in Index /\ flash \in Flash
      /\ inq \in Seq(Message) /\ LinkConsistent /\ AirInv /\ OnlyNoise(inq, 2)
  BY DEF TasksInv, BadgeInv, PhaseInv, TypeOK
<1>2. /\ Running /\ inq # << >> /\ Msg.op = "DELFILE" /\ Take /\ link.state = "IDLE"
      /\ flash' = PutFile(n, Absent) /\ link' = Buffered(link, Msg)
      /\ index' = [index EXCEPT !.cache = Uncached(index.cache, n)]
      /\ ir' = [IrReady EXCEPT !.at = "removed", !.snap.name = n]
      /\ UNCHANGED <<boot, post, cuts, ev, led, outq, ui>>
      /\ Msg.from = Controller /\ n \notin SystemName \cup {NoName, Unterminated}
  BY DEF Remove, Rest, Arrives, Deletable
<1>3. Msg \in Message /\ inq' \in Seq(Message) /\ n \in Name \ SystemName
  BY <1>1, <1>2, TakeType, MessageParts
<1>4. DeleteOrdered = n
  BY <1>2, <1>3 DEF DeleteOrdered
<1>5. PICK p \in Frame : Buffered(link, Msg) = [link EXCEPT !.payload = p]
  BY <1>1, <1>3, BufferedType
<1>6. /\ link' \in Link /\ link'.state = "IDLE" /\ link'.fd = link.fd /\ link'.peer = link.peer
      /\ link'.resends = link.resends
  BY <1>1, <1>2, <1>5 DEF Link
<1>7. /\ ir'.at = "removed" /\ ir'.snap.name = n
      /\ ir' \in [at : IrAt, snap : Anim, next : Link]
  BY <1>2, <1>3, ValueTypes DEF IrReady, IrAt, ZeroAnim, Anim
<1>8. Puts(n, Absent) /\ flash' \in Flash /\ Absent.kind = "absent"
  BY <1>1, <1>2, <1>3, PutFilePuts, PutFileType, ValueTypes DEF Absent
<1>9. /\ flash'.files[n] = Absent /\ \A m \in Name \ {n} : flash'.files[m] = flash.files[m]
      /\ OthersKept(n) /\ FilesSound'
  BY <1>1, <1>3, <1>8, PutsFacts, PutsKeeps, BareFiles, PutsSound
<1>10. index' \in Index
  <2>1. 0 \in 0..MaxId
    BY BoundAssumption
  <2>2. Uncached(index.cache, n) \in Cache
    BY <1>1, <1>3, <2>1, CacheType DEF Index
  <2> QED
    BY <1>1, <1>2, <2>2 DEF Index
<1>11. TypeOK'
  BY <1>1, <1>2, <1>3, <1>6, <1>8, <1>10 DEF TypeOK
<1>12. Moves
  BY <1>2, <1>3, <1>4, <1>9, BareFiles DEF Moves, Removes
<1>13. DistinctIds' /\ CacheExact' /\ SeededInv'
  BY <1>2, <1>11, <1>12, MovesKeep
<1>14. AirInv' /\ OnlyNoise(inq', 1) /\ ~OnlyNoise(inq, 1)
  <2>1. InqReads
    BY <1>2 DEF InqReads
  <2>2. AirInv'
    BY <1>1, <2>1, AirMoves DEF InqMoves, Drains, Consumes, InqReads
  <2>3. 1 \in 1..Len(inq) /\ Msg = inq[1] /\ Len(Tail(inq)) = Len(inq) - 1 /\ Len(inq) \in Nat
    BY <1>1, <1>2, HeadTailProperties, EmptySeq, LenProperties DEF Msg
  <2>4. inq' # inq
    <3>1. inq' = Tail(inq)
      BY <1>2 DEF Take
    <3> QED
      BY <2>3, <3>1
  <2> QED
    BY <1>1, <1>2, <2>1, <2>2, <2>3, <2>4, NoiseReads DEF OnlyNoise
<1>15. InFlightFile' /\ HeldInv' /\ LinkConsistent'
  BY <1>1, <1>2, <1>6 DEF InFlightFile, HeldInv, LinkConsistent, Running
<1>16. BadgeInv'
  BY <1>9, <1>11, <1>13, <1>14, <1>15 DEF BadgeInv
<1>17. OnlyNoise(inq', 2)
  BY <1>14 DEF OnlyNoise
<1>18. TaskTypes' /\ PhaseInv' /\ OfferInv' /\ AnswerInv' /\ RemovedInv'
  BY <1>2, <1>3, <1>6, <1>7, <1>8, <1>9, <1>14, <1>17
     DEF TasksInv, TaskTypes, PhaseInv, Running, OfferInv, AnswerInv, RemovedInv
<1>19. Kept(n)
  BY <1>9 DEF Kept
<1>20. DisplayInv'
  <2>1. ASSUME NEW a, Shows(flash.files, a) PROVE ShowsBut(flash'.files, ir', a)
    <3>1. CASE a.direct \/ a.name # n
      BY <1>19, <2>1, <3>1, KeptShows DEF ShowsBut
    <3>2. CASE ~(a.direct \/ a.name # n)
      BY <1>7, <3>2 DEF ShowsBut, Gone
    <3> QED
      BY <3>1, <3>2
  <2>2. Shows(flash.files, led.ambient) /\ Shows(flash.files, led.chosen)
    BY DEF TasksInv, DisplayInv, ShowsBut, Gone
  <2> QED
    BY <1>2, <1>6, <1>7, <2>1, <2>2 DEF DisplayInv
<1>21. PickedInv'
  <2>1. ui.at = "picked" /\ ui.name \in Name => Valid(flash.files[ui.name])
    BY <1>14 DEF TasksInv, PickedInv
  <2>2. CASE ui.name = n
    BY <1>2, <1>7, <1>8, <1>9, <1>14, <2>2 DEF PickedInv
  <2>3. CASE ui.name # n
    BY <1>2, <1>19, <2>1, <2>3 DEF PickedInv, Kept
  <2> QED
    BY <2>2, <2>3
<1> QED
  BY <1>16, <1>18, <1>20, <1>21 DEF TasksInv

(* The display leaves what has been removed.                               *)
LEMMA LeaveInv == ASSUME FlashWorks, TasksInv, Leave PROVE TasksInv'
<1> DEFINE n == ir.snap.name
<1>1. /\ TypeOK /\ led \in Led /\ TaskTypes /\ FilesSound /\ CacheExact /\ SeededInv /\ post = 0
      /\ Running /\ boot # 0 /\ ir.at = "removed" /\ link.state = "IDLE" /\ outq \in Seq(Message)
      /\ flash.files \in [Name -> File]
  BY SystemTypes DEF TasksInv, BadgeInv, TypeOK, PhaseInv, Leave, Running, Flash
<1>2. /\ ir' = IrReady /\ led' \in AfterLeaving(n, flash.files, index) /\ outq' \in Seq(Message)
      /\ UNCHANGED <<boot, post, cuts, link, ev, flash, index, inq, ui>>
  BY <1>1, ReplyType DEF Leave, Rest, Bare
<1>3. /\ ShowsBut(flash.files, ir, led.ambient) /\ ShowsBut(flash.files, ir, led.chosen)
      /\ led.ambient \in Anim /\ led.chosen \in Anim
  BY <1>1 DEF TasksInv, DisplayInv, Led
<1>4. /\ led' \in Led /\ Shows(flash.files, led'.ambient) /\ Shows(flash.files, led'.chosen)
  <2>1. CASE led.ambient.name # n
    <3>1. Shows(flash.files, led.ambient)
      BY <1>3, <2>1 DEF ShowsBut, Gone
    <3>2. CASE led.chosen.name = n
      <4>1. led' = [led EXCEPT !.chosen = led.ambient]
        BY <1>2, <2>1, <3>2 DEF AfterLeaving
      <4> QED
        BY <1>1, <1>3, <3>1, <4>1 DEF Led
    <3>3. CASE led.chosen.name # n
      <4>1. led' = led
        BY <1>2, <2>1, <3>3 DEF AfterLeaving
      <4> QED
        BY <1>1, <1>3, <3>1, <3>3, <4>1 DEF ShowsBut, Gone
    <3> QED
      BY <3>2, <3>3
  <2>2. CASE led.ambient.name = n
    <3> DEFINE next == NextName(flash.files, Live(flash.files), index, led.animId)
    <3>1. next \in Live(flash.files) \cup {NoName}
      BY <1>1, NextNameIsLive DEF Led
    <3>2. Readings(flash.files) = {Live(flash.files)}
      BY <1>1, CallsWork
    <3>3. PICK a : /\ led' = [led EXCEPT !.ambient = a, !.animId = a.id, !.chosen = a]
                   /\ a = RecvAnim \/ (next # NoName /\ a \in AfterSetAnim(flash.files, next, RecvAnim))
      <4> HIDE DEF next
      <4>1. {NextName(flash.files, seen, index, led.animId) : seen \in Readings(flash.files)} = {next}
        BY <3>2 DEF next
      <4> QED
        BY <1>2, <2>2, <4>1 DEF AfterLeaving
    <3>4. a \in Anim /\ Shows(flash.files, a)
      <4>1. CASE a = RecvAnim
        BY <4>1, SystemTypes, DirectShows
      <4>2. CASE next # NoName /\ a \in AfterSetAnim(flash.files, next, RecvAnim)
        <5> HIDE DEF next
        <5>1. next \in Name /\ Valid(flash.files[next]) /\ flash.files[next].kind = "data"
          BY <3>1, <4>2 DEF Live, Valid
        <5>2. a = flash.files[next].hdr
          BY <1>1, <4>2, <5>1, CallsWork
        <5> QED
          BY <1>1, <5>1, <5>2, LoadShows, HeaderType DEF FilesSound
      <4> QED
        BY <3>3, <4>1, <4>2
    <3> QED
      BY <1>1, <3>3, <3>4 DEF Led, Anim
  <2> QED
    BY <2>1, <2>2
<1>5. TypeOK'
  BY <1>1, <1>2, <1>4 DEF TypeOK
<1>6. ir'.at = "ready" /\ ir' \in [at : IrAt, snap : Anim, next : Link]
  BY <1>1, <1>2, ValueTypes, WaitTypes DEF IrAt, IrReady
<1>7. BadgeInv'
  BY <1>1, <1>2, <1>5, QuietBadge DEF Quiet
<1>8. TaskTypes' /\ PhaseInv' /\ OfferInv' /\ AnswerInv' /\ RemovedInv'
  BY <1>1, <1>2, <1>6 DEF TasksInv, TaskTypes, PhaseInv, Running, OnlyNoise, OfferInv, AnswerInv,
                          RemovedInv
<1>9. DisplayInv'
  BY <1>1, <1>2, <1>4, <1>6 DEF DisplayInv, ShowsBut
<1>10. PickedInv'
  BY <1>2, <1>6 DEF TasksInv, PickedInv
<1> QED
  BY <1>7, <1>8, <1>9, <1>10 DEF TasksInv

-----------------------------------------------------------------------------
(* The theorems.                                                           *)

(* The invariant holds when the badge is off.                              *)
LEMMA InitTasksInv == ASSUME TasksInit PROVE TasksInv
<1>1. Init /\ ir = IrReady /\ ui = UiReady
  BY DEF TasksInit, LoneInit
<1>2. /\ boot = 0 /\ post = 0 /\ link = NewLink /\ led = NewLed /\ inq = << >>
  BY <1>1 DEF Init
<1>3. IInv /\ StoreInv /\ DistinctIds /\ ~Running
  BY <1>1, <1>2, InitIInv, InitStoreInv, InitDistinctIds, SystemTypes DEF Running
<1>4. CacheExact /\ SeededInv
  BY <1>2 DEF CacheExact, SeededInv
<1>5. link.state = "IDLE" /\ led.ambient = ZeroAnim /\ led.chosen = ZeroAnim
  BY <1>2 DEF NewLink, NewLed
<1>6. BadgeInv
  BY <1>3, <1>4, <1>5 DEF BadgeInv, IInv, StoreInv, HeldInv
<1>7. ir.at = "ready" /\ ui.at = "ready" /\ TaskTypes
  BY <1>1, ValueTypes DEF IrReady, UiReady, TaskTypes, IrAt, UiAt
<1>8. OnlyNoise(inq, 2)
  BY <1>2 DEF OnlyNoise
<1>9. PhaseInv /\ OfferInv /\ AnswerInv /\ RemovedInv /\ PickedInv
  BY <1>2, <1>5, <1>7, <1>8 DEF PhaseInv, OfferInv, AnswerInv, RemovedInv, PickedInv
<1>10. DisplayInv
  BY <1>5, <1>7, DirectShows DEF DisplayInv, ShowsBut
<1> QED
  BY <1>6, <1>7, <1>9, <1>10 DEF TasksInv

(* Every step keeps it.                                                    *)
LEMMA TasksStep ==
  ASSUME FlashWorks, TasksInv, [TasksNext]_tvars
  PROVE TasksInv'
<1>1. CASE UNCHANGED tvars
  BY <1>1, StutterInv
<1>2. CASE IrTurn
  <2>1. CASE IrWhole
    <3>1. ir' = ir /\ ui' = ui /\ ir.at = "ready"
      BY <1>2, <2>1 DEF IrTurn, IrWhole
    <3> QED
      BY <2>1, <3>1, WholeInv
  <2> QED
    BY <1>2, <2>1, SendHeaderInv, TakeOfferInv, RemoveInv DEF IrTurn
<1>3. CASE IrResumes
  BY <1>3, SendBeginsInv, AnswerOfferInv, ReceiveBeginsInv, LeaveInv DEF IrResumes
<1>4. CASE UiTurn
  BY <1>4, PickInv, SaveInv, PressInv, FallBackInv DEF UiTurn
<1>5. CASE UiResumes
  BY <1>5, ShowInv, SaveInv DEF UiResumes
<1>6. CASE (Boot \/ PeersTurn \/ PeerHears) /\ UNCHANGED <<ir, ui>>
  BY <1>6, BootInv, PeersInv, PressInv
<1> QED
  BY <1>1, <1>2, <1>3, <1>4, <1>5, <1>6 DEF TasksNext

(* The invariant holds while the flash works.                              *)
LEMMA TasksInvariance == ASSUME FlashWorks PROVE TasksSpec => []TasksInv
<1>1. TasksInit => TasksInv
  BY InitTasksInv
<1>2. TasksInv /\ [TasksNext]_tvars => TasksInv'
  BY TasksStep
<1> QED
  BY <1>1, <1>2, PTL DEF TasksSpec

(* Whatever the UI task does in the waits of the IR task, and the IR task  *)
(* in those of the UI task, the animation on display, or the one a         *)
(* transfer will put back, is on flash under its id; it is not only while  *)
(* serial_delete_anim (ir.c) has removed it and not yet changed the        *)
(* display.                                                                *)
THEOREM ShownStays == ASSUME FlashWorks PROVE TasksSpec => []ShownStaysStored
<1>1. TasksInv => ShownStaysStored
  <2>1. ASSUME NEW a, Shows(flash.files, a) PROVE StoredAs(a)
    BY <2>1 DEF Shows, StoredAs
  <2>2. TasksInv /\ ir.at # "removed" => Shows(flash.files, led.ambient)
    BY DEF TasksInv, DisplayInv, ShowsBut, Gone
  <2>3. TasksInv /\ link.state # "IDLE" => Shows(flash.files, led.idle)
    BY DEF TasksInv, DisplayInv
  <2> QED
    BY <2>1, <2>2, <2>3 DEF ShownStaysStored, ShownIsStored
<1> QED
  BY <1>1, TasksInvariance, PTL

(* So is the animation last chosen, whose id the five-minute save puts in  *)
(* /.animid: a SELECT that has picked an animation and then reads it does  *)
(* not choose one that was deleted in between (led_next_anim, led.c).      *)
THEOREM ChosenStays == ASSUME FlashWorks PROVE TasksSpec => []ChosenStaysStored
<1>1. TasksInv => ChosenStaysStored
  <2>1. ASSUME NEW a, Shows(flash.files, a) PROVE StoredAs(a)
    BY <2>1 DEF Shows, StoredAs
  <2>2. TasksInv /\ ir.at # "removed" => Shows(flash.files, led.chosen)
    BY DEF TasksInv, DisplayInv, ShowsBut, Gone
  <2> QED
    BY <2>1, <2>2 DEF ChosenStaysStored, ChosenIsStored
<1> QED
  BY <1>1, TasksInvariance, PTL

-----------------------------------------------------------------------------
(* The choice that SELECT makes.                                           *)

(* How far an id is from the current one, going up and round.              *)
LEMMA AwayIs ==
  ASSUME NEW cur \in 0..MaxId, NEW i \in 0..MaxId
  PROVE (i - cur) % (MaxId + 1) = IF i >= cur THEN i - cur ELSE i - cur + MaxId + 1
<1>1. MaxId \in Nat
  BY BoundAssumption
<1>2. ASSUME NEW x \in 0..MaxId PROVE x % (MaxId + 1) = x
  BY <1>1
<1>3. ASSUME NEW x \in -MaxId..-1 PROVE x % (MaxId + 1) = x + MaxId + 1
  BY <1>1
<1>4. i >= cur => i - cur \in 0..MaxId
  BY <1>1
<1>5. ~(i >= cur) => i - cur \in -MaxId..-1
  BY <1>1
<1> QED
  BY <1>2, <1>3, <1>4, <1>5

(* CyclicNext goes to the nearest.                                         *)
LEMMA NextIsNearest ==
  ASSUME NEW ids \in SUBSET (0..MaxId), NEW cur \in 0..MaxId, NEW i \in ids
  PROVE (CyclicNext(ids, cur) - cur) % (MaxId + 1) <= (i - cur) % (MaxId + 1) \/ i = cur
<1> DEFINE k == CyclicNext(ids, cur)
<1>1. ids \in SUBSET Nat /\ MaxId \in Nat /\ ids # {}
  BY BoundAssumption
<1>2. k \in ids
  BY <1>1, CyclicNextIn
<1>3. CASE \E j \in ids : j > cur
  <2> DEFINE above == {j \in ids : j > cur}
  <2>1. above \in SUBSET Nat /\ above # {} /\ k = Min(above)
    BY <1>1, <1>3 DEF CyclicNext
  <2>2. k > cur /\ (i > cur => k <= i)
    <3> HIDE DEF k
    <3>1. k \in above /\ \A j \in above : k <= j
      BY <2>1, MinIsLeast
    <3> QED
      BY <3>1
  <2> HIDE DEF k
  <2>3. (k - cur) % (MaxId + 1) = k - cur
    BY <1>1, <1>2, <2>2, AwayIs
  <2>4. (i - cur) % (MaxId + 1) = IF i >= cur THEN i - cur ELSE i - cur + MaxId + 1
    BY AwayIs
  <2>5. k \in 0..MaxId /\ i \in 0..MaxId /\ cur \in 0..MaxId
    BY <1>2
  <2>6. (k - cur) % (MaxId + 1) <= (i - cur) % (MaxId + 1) \/ i = cur
    BY <1>1, <2>2, <2>3, <2>4, <2>5
  <2> QED
    BY <2>6 DEF k
<1>4. CASE ~ \E j \in ids : j > cur
  <2>1. k = Min(ids)
    BY <1>4 DEF CyclicNext
  <2> HIDE DEF k
  <2>2. k <= i /\ i <= cur /\ k <= cur
    BY <1>1, <1>2, <1>4, <2>1, MinIsLeast
  <2>3. /\ (k - cur) % (MaxId + 1) = IF k >= cur THEN k - cur ELSE k - cur + MaxId + 1
        /\ (i - cur) % (MaxId + 1) = IF i >= cur THEN i - cur ELSE i - cur + MaxId + 1
    BY <1>2, AwayIs
  <2>4. k \in 0..MaxId /\ i \in 0..MaxId /\ cur \in 0..MaxId
    BY <1>2
  <2>5. (k - cur) % (MaxId + 1) <= (i - cur) % (MaxId + 1) \/ i = cur
    BY <1>1, <2>2, <2>3, <2>4
  <2> QED
    BY <2>5 DEF k
<1> QED
  BY <1>3, <1>4

(* The animations that the owner has unlocked, but for that of an id.      *)
Others(fs, cur) == {n \in Live(fs) : fs[n].hdr.unlocked /\ fs[n].hdr.id # cur}

(* The cache and the directory lead to the same one of them.               *)
LEMMA NextNameIsOther ==
  ASSUME TypeOK, CacheExact, DistinctIds, boot # 0, post = 0, NEW cur \in 0..MaxId,
         Others(flash.files, cur) # {}
  PROVE LET fs == flash.files
            n == NextName(fs, Live(fs), index, cur)
            ids == {fs[m].hdr.id : m \in Others(fs, cur)}
        IN n \in Others(fs, cur) /\ fs[n].hdr.id = CyclicNext(ids, cur)
<1> DEFINE fs == flash.files
           seen == Live(fs)
           n == NextName(fs, seen, index, cur)
           ids == {fs[m].hdr.id : m \in Others(fs, cur)}
           filled == {i \in 0..CacheSize - 1 : i < index.nextId /\ index.cache[i] # NoName} \ {cur}
           scanned == {fs[m].hdr.id : m \in {l \in seen : fs[l].hdr.unlocked}} \ {cur}
<1>1. /\ cur \in Nat /\ CacheSize \in Nat /\ index.nextId \in Nat
      /\ \A m \in Name : fs[m].hdr.id \in Nat
  BY IdTypes, BoundAssumption
<1>2. \A i \in 0..CacheSize - 1 : \A m : (m = index.cache[i] /\ m # NoName) <=> Unlocked(fs, m, i)
  <2>1. Exact(fs, index.cache)
    BY DEF CacheExact, Exact
  <2> QED
    BY <2>1, ExactByName
<1>3. \A m \in Others(fs, cur) : /\ m \in Name /\ fs[m].hdr.id < index.nextId
                                 /\ Unlocked(fs, m, fs[m].hdr.id)
  BY DEF Others, Live, DistinctIds, Unlocked
<1>4. ids \in SUBSET Nat /\ ids # {}
  BY <1>1, <1>3
<1>5. CyclicNext(ids, cur) \in ids
  BY <1>1, <1>4, CyclicNextIn
<1>6. n = IF index.nextId <= CacheSize
          THEN IF filled # {} THEN index.cache[CyclicNext(filled, cur)]
               ELSE IF cur < index.nextId THEN index.cache[cur] ELSE NoName
          ELSE IF scanned # {} THEN CHOOSE m \in UnlockedAt(fs, seen, CyclicNext(scanned, cur)) : TRUE
               ELSE NoName
  BY DEF NextName
<1>7. CASE index.nextId <= CacheSize
  <2>1. ASSUME NEW i \in filled PROVE i \in ids
    <3>1. Unlocked(fs, index.cache[i], i) /\ i # cur
      BY <1>2
    <3>2. index.cache[i] \in Others(fs, cur) /\ fs[index.cache[i]].hdr.id = i
      BY <3>1 DEF Unlocked, Others, Live
    <3> QED
      BY <3>2
  <2>2. ASSUME NEW i \in ids PROVE i \in filled
    <3>1. PICK m \in Others(fs, cur) : i = fs[m].hdr.id
      OBVIOUS
    <3>2. i \in 0..CacheSize - 1 /\ i < index.nextId /\ i # cur
      BY <1>1, <1>3, <1>7, <3>1 DEF Others
    <3>3. index.cache[i] # NoName
      BY <1>2, <1>3, <3>1, <3>2
    <3> QED
      BY <3>2, <3>3
  <2>3. filled = ids
    BY <2>1, <2>2
  <2> DEFINE k == CyclicNext(ids, cur)
  <2>4. k \in filled
    BY <1>5, <2>3
  <2>5. Unlocked(fs, index.cache[k], k) /\ k # cur
    <3> HIDE DEF k
    <3> QED
      BY <1>2, <2>4
  <2>6. n = index.cache[k]
    <3> HIDE DEF filled, ids, scanned, n, fs, seen
    <3> QED
      BY <1>4, <1>6, <1>7, <2>3
  <2> HIDE DEF k, n, filled, scanned
  <2>7. n \in Others(fs, cur) /\ fs[n].hdr.id = k
    BY <2>5, <2>6 DEF Unlocked, Others, Live
  <2> QED
    BY <2>7 DEF k, n
<1>8. CASE ~(index.nextId <= CacheSize)
  <2>1. scanned = ids
    BY DEF Others
  <2> DEFINE k == CyclicNext(ids, cur)
             at == UnlockedAt(fs, seen, k)
  <2>2. PICK m \in Others(fs, cur) : k = fs[m].hdr.id
    BY <1>5
  <2>3. n = CHOOSE l \in at : TRUE
    <3> HIDE DEF filled, ids, scanned, n, fs, seen
    <3> QED
      BY <1>4, <1>6, <1>8, <2>1
  <2> HIDE DEF k, n, filled, scanned
  <2>4. m \in at /\ k # cur
    BY <2>2 DEF Others, UnlockedAt
  <2>5. n \in at
    BY <2>3, <2>4
  <2>6. n \in Others(fs, cur) /\ fs[n].hdr.id = k
    BY <2>4, <2>5 DEF UnlockedAt, Others
  <2> QED
    BY <2>6 DEF k, n
<1> QED
  BY <1>7, <1>8

(* SELECT goes to the next unlocked animation in the order of the ids and  *)
(* round again, by the cache and by the directory (led_next_anim and       *)
(* storage_get_next_anim_name), also between the halves of the handlers of *)
(* the IR task.                                                            *)
THEOREM PicksAreNext == ASSUME FlashWorks PROVE TasksSpec => PickFindsNext
<1>1. ASSUME TasksInv, Pick, ~ui'.back
      PROVE LET others == {n \in Live(flash.files) :
                             flash.files[n].hdr.unlocked /\ flash.files[n].hdr.id # led.animId}
                Away(n) == (flash.files[n].hdr.id - led.animId) % (MaxId + 1)
            IN others # {} =>
                 ui'.name \in others /\ \A n \in others : Away(ui'.name) <= Away(n)
  <2> DEFINE fs == flash.files
             cur == led.animId
             picked == NextName(fs, Live(fs), index, cur)
             ids == {fs[m].hdr.id : m \in Others(fs, cur)}
  <2>1. TypeOK /\ CacheExact /\ DistinctIds /\ boot # 0 /\ post = 0 /\ cur \in 0..MaxId
    BY <1>1, SystemTypes DEF TasksInv, BadgeInv, PhaseInv, Pick, Running, TypeOK, Led
  <2>2. ui'.name = picked
    BY <1>1 DEF Pick
  <2> SUFFICES ASSUME Others(fs, cur) # {}
               PROVE /\ picked \in Others(fs, cur)
                     /\ \A n \in Others(fs, cur) :
                          (fs[picked].hdr.id - cur) % (MaxId + 1) <= (fs[n].hdr.id - cur) % (MaxId + 1)
    BY <2>2 DEF Others
  <2>3. picked \in Others(fs, cur) /\ fs[picked].hdr.id = CyclicNext(ids, cur)
    BY <2>1, NextNameIsOther
  <2>4. ids \subseteq 0..MaxId /\ cur \notin ids
    BY <2>1, IdTypes DEF Others, Live
  <2>5. ASSUME NEW n \in Others(fs, cur)
        PROVE (fs[picked].hdr.id - cur) % (MaxId + 1) <= (fs[n].hdr.id - cur) % (MaxId + 1)
    <3> DEFINE i == fs[n].hdr.id
    <3>1. i \in ids /\ i # cur
      BY DEF Others
    <3> HIDE DEF ids, picked, i
    <3>2. (CyclicNext(ids, cur) - cur) % (MaxId + 1) <= (i - cur) % (MaxId + 1)
      BY <2>1, <2>4, <3>1, NextIsNearest
    <3>3. (fs[picked].hdr.id - cur) % (MaxId + 1) <= (i - cur) % (MaxId + 1)
      BY <2>3, <3>2
    <3> QED
      BY <3>3 DEF i
  <2> QED
    BY <2>3, <2>5
<1>2. TasksInv =>
        [Pick /\ ~ui'.back =>
           LET others == {n \in Live(flash.files) :
                            flash.files[n].hdr.unlocked /\ flash.files[n].hdr.id # led.animId}
               Away(n) == (flash.files[n].hdr.id - led.animId) % (MaxId + 1)
           IN others # {} => ui'.name \in others /\ \A n \in others : Away(ui'.name) <= Away(n)]_tvars
  BY <1>1
<1> QED
  BY <1>2, TasksInvariance, PTL DEF PickFindsNext
=============================================================================
