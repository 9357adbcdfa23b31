------------------------------ MODULE UiProofs ------------------------------
(***************************************************************************)
(* Proofs about what the owner sees and touches: the animation on display, *)
(* for any set of animations with any number of frames; the serial wire to *)
(* the LED controller, for every length of word and every set of commands; *)
(* and the buttons, for any set of them.                                   *)
(***************************************************************************)
EXTENDS Display, PanelWire, Buttons, SequenceTheorems, TLAPS

-----------------------------------------------------------------------------
(* Display.                                                                *)

(* Set of an animation, field by field.                                    *)
LEMMA SetFields ==
  ASSUME led \in Led, NEW n \in Anims, NEW amb \in BOOLEAN, Set(n, amb)
  PROVE  /\ led' \in Led /\ led'.curr = n /\ led'.frame = 0 /\ (led'.currAmbient <=> amb)
         /\ led'.ambient = (IF amb THEN n ELSE led.ambient)
<1>1. led' = [curr |-> n, ambient |-> IF amb THEN n ELSE led.ambient, frame |-> 0,
              currAmbient |-> amb, idle |-> led.idle]
  BY DEF Set, Led
<1>2. (IF amb THEN n ELSE led.ambient) \in Anims /\ led.idle \in Anims
  BY DEF Led
<1> QED
  BY <1>1, <1>2 DEF Led

(* The picture of a transfer, likewise.                                    *)
LEMMA PictureFields ==
  ASSUME led \in Led, ShowPicture
  PROVE  /\ led' \in Led /\ led'.frame = 0 /\ led'.currAmbient
         /\ led'.curr = led'.ambient /\ led'.curr \in Pictures
<1>1. PICK p \in Pictures :
        led' = [led EXCEPT !.idle = led.ambient, !.curr = p, !.ambient = p,
                           !.frame = 0, !.currAmbient = TRUE]
  BY DEF ShowPicture
<1>2. led' = [curr |-> p, ambient |-> p, frame |-> 0, currAmbient |-> TRUE,
              idle |-> led.ambient]
  BY <1>1 DEF Led
<1>3. p \in Anims /\ led.ambient \in Anims
  BY DEF Led, Anims, Compiled
<1> QED
  BY <1>2, <1>3 DEF Led

(* A frame that is over: only the index moves.                             *)
LEMMA NextFrameFields ==
  ASSUME led \in Led, NextFrame
  PROVE  /\ led' \in Led /\ led'.curr = led.curr /\ led'.ambient = led.ambient
         /\ (led'.currAmbient <=> led.currAmbient)
         /\ led'.frame = (IF Wrap THEN 0 ELSE led.frame + 1)
<1>1. led' = [curr |-> led.curr, ambient |-> led.ambient,
              frame |-> IF Wrap THEN 0 ELSE led.frame + 1,
              currAmbient |-> led.currAmbient, idle |-> led.idle]
  BY DEF NextFrame, Led
<1>2. /\ led.curr \in Anims /\ led.ambient \in Anims /\ led.frame \in Nat
      /\ led.currAmbient \in BOOLEAN /\ led.idle \in Anims
  BY DEF Led
<1> QED
  BY <1>1, <1>2 DEF Led

(* The fields as the other lemmas find them.                               *)
LEMMA LedTypes ==
  ASSUME led \in Led
  PROVE  /\ led.curr \in Anims /\ led.ambient \in Anims /\ led.frame \in Nat
         /\ led.currAmbient \in BOOLEAN /\ led.idle \in Anims
  BY DEF Led

(* Where a step that changes led comes from.                               *)
LEMMA LedChanges ==
  ASSUME DisplayTypeOK, [DisplayNext]_dvars
  PROVE  \/ UNCHANGED led
         \/ NextFrame
         \/ ShowPicture
         \/ At("start") /\ InitStartup /\ Set(Startup, FALSE)
         \/ \E n \in Anims : Set(n, TRUE)
<1>1. CASE UNCHANGED dvars
  BY <1>1 DEF dvars
<1>2. CASE InitBroken
  BY <1>2 DEF InitBroken, Setting, Anims, Compiled
<1>3. CASE InitAmbient
  <2>1. led.curr \in Anims
    BY LedTypes DEF DisplayTypeOK
  <2> QED
    BY <1>3, <2>1 DEF InitAmbient
<1>4. CASE InitStartup
  BY <1>4 DEF InitStartup, Setting
<1>5. CASE NextFrame
  BY <1>5
<1>6. CASE HandOver
  <2>1. app.snap \in Anims
    BY DEF DisplayTypeOK
  <2> QED
    BY <1>6, <2>1 DEF HandOver, Setting
<1>7. CASE PostNext
  BY <1>7 DEF PostNext
<1>8. CASE ShowStored
  BY <1>8 DEF ShowStored, Setting, Anims
<1>9. CASE ShowPicture
  BY <1>9
<1>10. CASE EndPicture
  <2>1. led.idle \in Anims
    BY LedTypes DEF DisplayTypeOK
  <2> QED
    BY <1>10, <2>1 DEF EndPicture, Setting
<1>11. CASE KeepPicture
  BY <1>11 DEF KeepPicture
<1>12. CASE TlcWakes \/ TlcHolds \/ LoadCompiled \/ LoadStored
  BY <1>12 DEF TlcWakes, TlcHolds, LoadCompiled, LoadStored
<1>13. CASE FrameRead \/ FrameUnread
  BY <1>13 DEF FrameRead, FrameUnread
<1>14. CASE GiveUp
  BY <1>14 DEF GiveUp, Anims, Compiled
<1>15. CASE ClockStep \/ FlashWears
  BY <1>15 DEF ClockStep, FrameClockFires, TlcClockFires, FlashWears
<1> QED
  BY <1>1, <1>2, <1>3, <1>4, <1>5, <1>6, <1>7, <1>8, <1>9, <1>10, <1>11, <1>12, <1>13, <1>14,
     <1>15 DEF DisplayNext, UiStep, LinkStep, TlcStep

-----------------------------------------------------------------------------
(* Types.                                                                  *)

LEMMA LedTyped ==
  ASSUME DisplayTypeOK, [DisplayNext]_dvars
  PROVE  led' \in Led
<1>1. led \in Led
  BY DEF DisplayTypeOK
<1>2. CASE \E n \in Anims : Set(n, TRUE)
  BY <1>1, <1>2, SetFields
<1>3. CASE Set(Startup, FALSE)
  <2>1. Startup \in Anims
    BY DEF Anims, Compiled
  <2> QED
    BY <1>1, <1>3, <2>1, SetFields
<1> QED
  BY <1>1, <1>2, <1>3, LedChanges, NextFrameFields, PictureFields

(* Every variable keeps its type (DisplayTypeOK): the load failures counted *)
(* stay below LED_LOAD_FRAME_FAIL_MAX, whatever the flash does.             *)
THEOREM DisplayTyped == DisplaySpec => []DisplayTypeOK
<1>1. DisplayInit => DisplayTypeOK
  <2> SUFFICES ASSUME DisplayInit PROVE DisplayTypeOK
    OBVIOUS
  <2>1. PICK n \in Stored \cup {Blank} :
          led = [curr |-> n, ambient |-> n, frame |-> 0, currAmbient |-> FALSE, idle |-> Blank]
    BY DEF DisplayInit
  <2>2. n \in Anims /\ Blank \in Anims
    BY DEF Anims
  <2>3. led \in Led
    BY <2>1, <2>2 DEF Led
  <2>4. tlc \in [pc : {"pend", "settle", "read"}, anim : Anims, frame : Nat]
    BY <2>2 DEF DisplayInit
  <2>5. /\ panel \in Anims \X Nat
        /\ app \in [pc : {"init", "start", "run", "post", "handover"}, snap : Anims]
    BY <2>2 DEF DisplayInit, Dark
  <2>6. 0 \in 0..FailMax - 1 /\ 0 \in 0..MaxChanges
    BY DisplayAssumption
  <2> QED
    BY <2>2, <2>3, <2>4, <2>5, <2>6 DEF DisplayInit, DisplayTypeOK
<1>2. DisplayTypeOK /\ [DisplayNext]_dvars => DisplayTypeOK'
  <2> SUFFICES ASSUME DisplayTypeOK, [DisplayNext]_dvars PROVE DisplayTypeOK'
    OBVIOUS
  <2>1. led' \in Led /\ led \in Led
    BY LedTyped DEF DisplayTypeOK
  <2>2. /\ led.curr \in Anims /\ led.ambient \in Anims /\ led.frame \in Nat /\ led.idle \in Anims
        /\ Startup \in Anims
    BY <2>1, LedTypes DEF Anims, Compiled
  <2>3. CASE UNCHANGED dvars
    BY <2>3 DEF dvars, DisplayTypeOK
  <2>4. CASE InitBroken \/ InitStartup \/ HandOver
    BY <2>1, <2>4 DEF InitBroken, InitStartup, HandOver, Setting, Goto, DisplayTypeOK
  <2>5. CASE InitAmbient
    BY <2>1, <2>5 DEF InitAmbient, Goto, DisplayTypeOK
  <2>6. CASE NextFrame
    BY <2>1, <2>2, <2>6 DEF NextFrame, DisplayTypeOK
  <2>7. CASE PostNext
    BY <2>7 DEF PostNext, Goto, DisplayTypeOK
  <2>8. CASE ShowStored \/ ShowPicture
    <3>1. changes < MaxChanges /\ changes' = changes + 1
      BY <2>8 DEF ShowStored, ShowPicture, Change
    <3>2. changes' \in 0..MaxChanges
      BY <3>1, DisplayAssumption DEF DisplayTypeOK
    <3> QED
      BY <2>1, <2>8, <3>2 DEF ShowStored, ShowPicture, Setting, Goto, DisplayTypeOK
  <2>9. CASE EndPicture \/ KeepPicture
    BY <2>1, <2>9 DEF EndPicture, KeepPicture, Setting, Goto, DisplayTypeOK
  <2>10. CASE TlcWakes \/ TlcHolds
    BY <2>10 DEF TlcWakes, TlcHolds, Refreshed, DisplayTypeOK
  <2>11. CASE LoadCompiled
    BY <2>2, <2>11, DisplayAssumption DEF LoadCompiled, Refreshed, RestartCount, DisplayTypeOK
  <2>12. CASE LoadStored
    BY <2>2, <2>12, DisplayAssumption DEF LoadStored, Refreshed, RestartCount, DisplayTypeOK
  <2>13. CASE FrameRead
    BY <2>13, DisplayAssumption DEF FrameRead, ReadDone, DisplayTypeOK
  <2>14. CASE FrameUnread
    BY <2>14, DisplayAssumption DEF FrameUnread, ReadDone, DisplayTypeOK
  <2>15. CASE GiveUp
    BY <2>1, <2>15, DisplayAssumption DEF GiveUp, ReadDone, DisplayTypeOK
  <2>16. CASE ClockStep
    BY <2>16 DEF ClockStep, FrameClockFires, TlcClockFires, DisplayTypeOK
  <2>17. CASE FlashWears
    BY <2>17 DEF FlashWears, DisplayTypeOK
  <2> QED
    BY <2>3, <2>4, <2>5, <2>6, <2>7, <2>8, <2>9, <2>10, <2>11, <2>12, <2>13, <2>14, <2>15,
       <2>16, <2>17 DEF DisplayNext, UiStep, LinkStep, TlcStep
<1> QED
  BY <1>1, <1>2, PTL DEF DisplaySpec

-----------------------------------------------------------------------------
(* The frame index belongs to the animation that is current, and what is   *)
(* read and what is drawn come from such a pair.                           *)
RealIndex == led.curr # Blank => led.frame < AnimLen[led.curr]
FramesInv ==
  /\ RealIndex
  /\ tlc.pc = "read" /\ tlc.anim # Blank => tlc.frame < AnimLen[tlc.anim]
  /\ panel = Dark \/ (panel[1] # Blank /\ panel[2] < AnimLen[panel[1]])

(* Setters, clocks and reads leave an index of the animation they set.     *)
LEMMA RealIndexStep ==
  ASSUME DisplayTypeOK, RealIndex, [DisplayNext]_dvars
  PROVE  RealIndex'
<1>1. led \in Led /\ led.curr \in Anims /\ led.frame \in Nat
  BY LedTypes DEF DisplayTypeOK
<1>2. \A n \in Anims \ {Blank} : AnimLen[n] \in Nat /\ AnimLen[n] > 0
  BY DisplayAssumption
<1>3. CASE UNCHANGED led
  BY <1>3 DEF RealIndex
<1>4. CASE NextFrame
  <2>1. CASE Wrap
    BY <1>1, <1>2, <1>4, <2>1, NextFrameFields DEF RealIndex
  <2>2. CASE ~Wrap
    BY <1>1, <1>2, <1>4, <2>2, NextFrameFields DEF RealIndex, Wrap
  <2> QED
    BY <2>1, <2>2
<1>5. CASE ShowPicture
  <2>1. led' \in Led /\ led'.curr \in Anims /\ led'.frame = 0
    BY <1>1, <1>5, PictureFields DEF Anims, Compiled
  <2> QED
    BY <1>2, <2>1 DEF RealIndex
<1>6. CASE \E n \in Anims, amb \in BOOLEAN : Set(n, amb)
  <2>1. led'.curr \in Anims /\ led'.frame = 0
    BY <1>1, <1>6, SetFields
  <2> QED
    BY <1>2, <2>1 DEF RealIndex
<1>7. Startup \in Anims
  BY DEF Anims, Compiled
<1> QED
  BY <1>3, <1>4, <1>5, <1>6, <1>7, LedChanges

(* OnlyRealFrames for any lengths of the animations.                       *)
THEOREM FramesAreReal == DisplaySpec => []OnlyRealFrames
<1>1. DisplayInit => FramesInv
  <2> SUFFICES ASSUME DisplayInit PROVE FramesInv
    OBVIOUS
  <2>1. PICK n \in Stored \cup {Blank} :
          led = [curr |-> n, ambient |-> n, frame |-> 0, currAmbient |-> FALSE, idle |-> Blank]
    BY DEF DisplayInit
  <2>2. led.curr = n /\ led.frame = 0
    BY <2>1
  <2>3. RealIndex
    BY <2>2, DisplayAssumption DEF RealIndex, Anims
  <2> QED
    BY <2>3 DEF DisplayInit, FramesInv
<1>2. DisplayTypeOK /\ FramesInv /\ [DisplayNext]_dvars => FramesInv'
  <2> SUFFICES ASSUME DisplayTypeOK, FramesInv, [DisplayNext]_dvars PROVE FramesInv'
    OBVIOUS
  <2>1. RealIndex /\ RealIndex'
    BY RealIndexStep DEF FramesInv
  <2>2. CASE LoadCompiled
    <3>1. led.curr # Blank
      BY <2>2, DisplayAssumption DEF LoadCompiled
    <3>2. panel' = <<led.curr, led.frame>> /\ tlc'.pc = "pend"
      BY <2>2 DEF LoadCompiled, DisplayTypeOK
    <3> QED
      BY <2>1, <3>1, <3>2 DEF FramesInv, RealIndex
  <2>3. CASE LoadStored
    <3>1. tlc' = [pc |-> "read", anim |-> led.curr, frame |-> led.frame] /\ UNCHANGED panel
      BY <2>3 DEF LoadStored
    <3> QED
      BY <2>1, <3>1 DEF FramesInv, RealIndex, Dark
  <2>4. CASE FrameRead
    <3>1. tlc.pc = "read" /\ tlc.anim # Blank
      BY <2>4, DisplayAssumption DEF FrameRead, ReadDone, Readable
    <3>2. panel' = <<tlc.anim, tlc.frame>> /\ tlc'.pc = "pend"
      BY <2>4 DEF FrameRead, ReadDone, DisplayTypeOK
    <3> QED
      BY <2>1, <3>1, <3>2 DEF FramesInv
  <2>5. CASE UNCHANGED panel /\ (UNCHANGED tlc \/ tlc'.pc # "read")
    BY <2>1, <2>5 DEF FramesInv, Dark
  <2>6. CASE TlcWakes \/ TlcHolds \/ FrameUnread \/ GiveUp
    BY <2>5, <2>6 DEF TlcWakes, TlcHolds, FrameUnread, GiveUp, ReadDone, DisplayTypeOK
  <2>7. CASE UiStep
    BY <2>5, <2>7 DEF UiStep, InitBroken, InitAmbient, InitStartup, NextFrame, HandOver, PostNext,
                      Setting
  <2>8. CASE LinkStep
    BY <2>5, <2>8 DEF LinkStep, ShowStored, ShowPicture, EndPicture, KeepPicture, Setting
  <2>9. CASE ClockStep \/ FlashWears \/ UNCHANGED dvars
    BY <2>5, <2>9 DEF ClockStep, FrameClockFires, TlcClockFires, FlashWears, dvars
  <2> QED
    BY <2>2, <2>3, <2>4, <2>6, <2>7, <2>8, <2>9 DEF DisplayNext, TlcStep
<1>3. FramesInv => OnlyRealFrames
  BY DEF FramesInv, OnlyRealFrames
<1> QED
  BY <1>1, <1>2, <1>3, DisplayTyped, PTL DEF DisplaySpec

-----------------------------------------------------------------------------
(* What is played and what is ambient.                                     *)

LEMMA AmbientStep ==
  ASSUME DisplayTypeOK, AmbientIsPlayed, [DisplayNext]_dvars
  PROVE  AmbientIsPlayed'
<1>1. led \in Led /\ Startup \in Anims
  BY DEF DisplayTypeOK, Anims, Compiled
<1>2. CASE UNCHANGED led
  BY <1>2 DEF AmbientIsPlayed
<1>3. CASE NextFrame
  BY <1>1, <1>3, NextFrameFields DEF AmbientIsPlayed
<1>4. CASE ShowPicture
  BY <1>1, <1>4, PictureFields DEF AmbientIsPlayed
<1>5. CASE Set(Startup, FALSE)
  BY <1>1, <1>5, SetFields DEF AmbientIsPlayed
<1>6. CASE \E n \in Anims : Set(n, TRUE)
  BY <1>1, <1>6, SetFields DEF AmbientIsPlayed
<1> QED
  BY <1>2, <1>3, <1>4, <1>5, <1>6, LedChanges

(* AmbientIsPlayed for any animations and any number of changes.           *)
THEOREM AmbientStaysPlayed == DisplaySpec => []AmbientIsPlayed
<1>1. DisplayInit => AmbientIsPlayed
  <2> SUFFICES ASSUME DisplayInit PROVE AmbientIsPlayed
    OBVIOUS
  <2>1. PICK n \in Stored \cup {Blank} :
          led = [curr |-> n, ambient |-> n, frame |-> 0, currAmbient |-> FALSE, idle |-> Blank]
    BY DEF DisplayInit
  <2> QED
    BY <2>1 DEF AmbientIsPlayed
<1>2. DisplayTypeOK /\ AmbientIsPlayed /\ [DisplayNext]_dvars => AmbientIsPlayed'
  BY AmbientStep
<1> QED
  BY <1>1, <1>2, DisplayTyped, PTL DEF DisplaySpec

(* Until the startup animation has ended, too few reads have failed for    *)
(* the TLC task to give an animation up: before it begins at most one post *)
(* has been made, so at most one read, and while it plays nothing is read  *)
(* from flash.                                                             *)
NoneFailed == fails = 0 /\ tlc.pc # "read"
OneFailed == fails = 0 \/ (fails = 1 /\ tlc.pc # "read")
FewFailures ==
  /\ At("init") => NoneFailed /\ "nextframe" \notin tlcEv
  /\ At("start") => IF "nextframe" \in tlcEv THEN NoneFailed ELSE OneFailed
  /\ app.pc \in {"post", "run", "handover"} /\ ~led.currAmbient =>
       led.curr = Startup /\ OneFailed
HandoverInv ==
  /\ FewFailures
  /\ At("handover") => ~led.currAmbient /\ app.snap = led.ambient

(* The count is below the limit where an animation has just been set.      *)
LEMMA NoGivingUp ==
  ASSUME DisplayTypeOK, FewFailures, ~led.currAmbient \/ At("init") \/ At("start")
  PROVE  ~GiveUp
<1>1. OneFailed
  BY DEF FewFailures, At, NoneFailed, OneFailed, DisplayTypeOK
<1>2. FailMax \in Nat /\ FailMax >= 2
  BY DisplayAssumption
<1>3. SUFFICES ASSUME GiveUp PROVE FALSE
  OBVIOUS
<1>4. fails + 1 >= FailMax /\ tlc.pc = "read"
  BY <1>3 DEF GiveUp, ReadDone
<1> QED
  BY <1>1, <1>2, <1>4 DEF OneFailed

(* Every step keeps that.                                                  *)
LEMMA HandoverStep ==
  ASSUME DisplayTypeOK, HandoverInv, [DisplayNext]_dvars
  PROVE  HandoverInv'
<1> USE DEF At
<1>1. /\ led \in Led /\ Startup \in Anims
      /\ app \in [pc : {"init", "start", "run", "post", "handover"}, snap : Anims]
      /\ tlc \in [pc : {"pend", "settle", "read"}, anim : Anims, frame : Nat]
  BY DEF DisplayTypeOK, Anims, Compiled
<1>2. FewFailures
  BY DEF HandoverInv
<1>3. CASE UNCHANGED dvars
  BY <1>3 DEF dvars, HandoverInv, FewFailures, NoneFailed, OneFailed
<1>4. CASE InitBroken
  <2>1. app'.pc = "post" /\ led'.currAmbient
    BY <1>1, <1>4, SetFields DEF InitBroken, Setting, Goto
  <2> QED
    BY <2>1 DEF HandoverInv, FewFailures
<1>5. CASE InitAmbient
  <2>1. app'.pc = "start" /\ NoneFailed
    BY <1>1, <1>2, <1>5 DEF InitAmbient, Goto, FewFailures
  <2>2. NoneFailed' /\ OneFailed'
    BY <1>5, <2>1 DEF InitAmbient, NoneFailed, OneFailed
  <2> QED
    BY <2>1, <2>2 DEF HandoverInv, FewFailures
<1>6. CASE InitStartup
  <2>1. app'.pc = "post" /\ led'.curr = Startup
    BY <1>1, <1>6, SetFields DEF InitStartup, Setting, Goto
  <2>2. OneFailed /\ UNCHANGED <<tlc, fails>>
    BY <1>2, <1>6 DEF InitStartup, Setting, FewFailures, NoneFailed, OneFailed
  <2> QED
    BY <2>1, <2>2 DEF HandoverInv, FewFailures, OneFailed
<1>7. CASE NextFrame
  <2>1. /\ led'.curr = led.curr /\ led'.ambient = led.ambient
        /\ (led'.currAmbient <=> led.currAmbient)
    BY <1>1, <1>7, NextFrameFields
  <2>2. UNCHANGED <<tlc, fails>> /\ At("run")
    BY <1>7 DEF NextFrame
  <2>3. app'.pc \in {"post", "handover"}
    BY <1>1, <1>7 DEF NextFrame
  <2>4. FewFailures'
    BY <1>2, <2>1, <2>2, <2>3 DEF FewFailures, OneFailed
  <2>5. app'.pc = "handover" => ~led.currAmbient /\ app'.snap = led.ambient
    BY <1>1, <1>7 DEF NextFrame, HandsOver
  <2> QED
    BY <2>1, <2>4, <2>5 DEF HandoverInv
<1>8. CASE HandOver
  <2>1. app'.pc = "post" /\ led'.currAmbient
    BY <1>1, <1>8, SetFields DEF HandOver, Setting, Goto
  <2> QED
    BY <2>1 DEF HandoverInv, FewFailures
<1>9. CASE PostNext
  <2>1. app'.pc = "run" /\ At("post") /\ UNCHANGED <<led, tlc, fails>>
    BY <1>1, <1>9 DEF PostNext, Goto
  <2> QED
    BY <1>2, <2>1 DEF HandoverInv, FewFailures, OneFailed
<1>10. CASE ShowStored \/ ShowPicture \/ EndPicture
  <2>1. app'.pc = "post"
    BY <1>1, <1>10 DEF ShowStored, ShowPicture, EndPicture, Setting, Goto
  <2>2. CASE ShowPicture
    BY <1>1, <2>1, <2>2, PictureFields DEF HandoverInv, FewFailures
  <2>3. CASE \E n \in Anims : Set(n, TRUE)
    BY <1>1, <2>1, <2>3, SetFields DEF HandoverInv, FewFailures
  <2>4. led.idle \in Anims /\ Stored \subseteq Anims
    BY <1>1, LedTypes DEF Anims
  <2> QED
    BY <1>10, <2>2, <2>3, <2>4 DEF ShowStored, EndPicture, Setting
<1>11. CASE KeepPicture \/ FrameClockFires \/ FlashWears
  BY <1>11 DEF KeepPicture, FrameClockFires, FlashWears, HandoverInv, FewFailures, NoneFailed,
               OneFailed
<1>12. CASE TlcWakes \/ TlcHolds \/ TlcClockFires
  <2>1. UNCHANGED <<led, app, fails>> /\ ("nextframe" \in tlcEv' <=> "nextframe" \in tlcEv)
    BY <1>12 DEF TlcWakes, TlcHolds, TlcClockFires
  <2>2. tlc.pc # "read" => tlc'.pc # "read"
    BY <1>1, <1>12 DEF TlcWakes, TlcHolds, TlcClockFires
  <2>3. tlc.pc = "read" => tlc'.pc = "read"
    BY <1>12 DEF TlcWakes, TlcHolds, TlcClockFires, Refreshed
  <2> QED
    BY <1>2, <2>1, <2>2, <2>3 DEF HandoverInv, FewFailures, NoneFailed, OneFailed
<1>13. CASE LoadCompiled \/ FrameRead
  <2>1. UNCHANGED <<led, app>> /\ tlc'.pc = "pend" /\ (fails' = 0 \/ fails' = fails)
    BY <1>1, <1>13 DEF LoadCompiled, FrameRead, RestartCount, ReadDone
  <2>2. "nextframe" \in tlcEv' => FrameRead /\ "nextframe" \in tlcEv /\ fails' = 0
    BY <1>13 DEF LoadCompiled, FrameRead
  <2>3. ~At("init")
    BY <1>2, <1>13 DEF LoadCompiled, FrameRead, ReadDone, FewFailures, NoneFailed
  <2>4. OneFailed => OneFailed'
    BY <2>1 DEF OneFailed
  <2> QED
    BY <1>2, <2>1, <2>2, <2>3, <2>4 DEF HandoverInv, FewFailures, NoneFailed, OneFailed
<1>14. CASE LoadStored
  <2>1. UNCHANGED <<led, app>> /\ (fails' = 0 \/ fails' = fails) /\ led.curr # Startup
    BY <1>14 DEF LoadStored, RestartCount, Compiled
  <2>2. "nextframe" \in tlcEv /\ "nextframe" \notin tlcEv'
    BY <1>14 DEF LoadStored
  <2>3. ~At("init") /\ (At("start") => OneFailed')
    BY <1>2, <2>1, <2>2 DEF FewFailures, NoneFailed, OneFailed
  <2> QED
    BY <1>2, <2>1, <2>2, <2>3 DEF HandoverInv, FewFailures
<1>15. CASE FrameUnread
  <2>1. UNCHANGED <<led, app, tlcEv>> /\ fails' = fails + 1 /\ tlc'.pc = "pend" /\ tlc.pc = "read"
    BY <1>1, <1>15 DEF FrameUnread, ReadDone
  <2>2. ~NoneFailed /\ (OneFailed => OneFailed')
    BY <2>1 DEF NoneFailed, OneFailed
  <2> QED
    BY <1>2, <2>1, <2>2 DEF HandoverInv, FewFailures
<1>16. CASE GiveUp
  <2>1. UNCHANGED app /\ led'.currAmbient
    BY <1>1, <1>16, SetFields DEF GiveUp
  <2>2. ~At("handover") /\ ~At("init") /\ ~At("start")
    BY <1>2, <1>16, NoGivingUp DEF HandoverInv
  <2> QED
    BY <2>1, <2>2 DEF HandoverInv, FewFailures
<1> QED
  BY <1>3, <1>4, <1>5, <1>6, <1>7, <1>8, <1>9, <1>10, <1>11, <1>12, <1>13, <1>14, <1>15, <1>16
     DEF DisplayNext, UiStep, LinkStep, TlcStep, ClockStep

(* HandoverFresh for any limit of load failures above one: the snapshot of *)
(* the ambient animation is never stale when it is used.                   *)
THEOREM HandoverIsFresh == DisplaySpec => []HandoverFresh
<1>1. DisplayInit => HandoverInv
  <2> SUFFICES ASSUME DisplayInit PROVE HandoverInv
    OBVIOUS
  <2>1. app.pc = "init" /\ fails = 0 /\ tlc.pc = "pend" /\ tlcEv = {}
    BY DEF DisplayInit
  <2> QED
    BY <2>1 DEF HandoverInv, FewFailures, At, NoneFailed
<1>2. DisplayTypeOK /\ HandoverInv /\ [DisplayNext]_dvars => HandoverInv'
  BY HandoverStep
<1>3. HandoverInv => HandoverFresh
  BY DEF HandoverInv, HandoverFresh
<1> QED
  BY <1>1, <1>2, <1>3, DisplayTyped, PTL DEF DisplaySpec

-----------------------------------------------------------------------------
(* PanelWire.                                                              *)

(* The chip has the first k words of the command.                          *)
Has(k) == Len(chip.words) = k /\ \A i \in 1..k : chip.words[i] = tx.frame[i]

(* While words are sent the chip is as far in the unit as the badge, and   *)
(* its run of HIGH reaches back into the unit before by one edge at most:  *)
(* a check bit is HIGH only behind a LOW data bit.                         *)
UnitInv ==
  tx.at = "unit" =>
    /\ chip.on /\ tx.edge <= Bits /\ chip.n = tx.edge
    /\ Has(tx.unit - 1)
    /\ \A i \in 1..tx.edge : chip.unit[i] = tx.frame[tx.unit][i]
    /\ chip.highs <= tx.edge + 1
    /\ \A i \in 1..tx.edge : i = tx.edge /\ chip.unit[i] = LOW => chip.highs = 0

(* While a command is ended the chip counts the edges, from the last check *)
(* bit or from behind it, and finds no valid check bit among them.         *)
StopInv ==
  tx.at = "stop" =>
    /\ tx.edge < EndEdges /\ tx.unit = Len(tx.frame)
    /\ chip.on => /\ Has(tx.unit)
                  /\ chip.highs < EndEdges
                  /\ chip.highs = tx.edge \/ chip.highs = tx.edge + 1
                  /\ tx.edge <= Bits => /\ chip.n = tx.edge
                                        /\ \A i \in 1..tx.edge : chip.unit[i] = HIGH
                  /\ tx.edge > Bits => chip.n = 0

IdleInv == tx.at \in {"ready", "pwm", "clean"} => ~chip.on

(* FramesKeepBounds and what it takes to keep it.                          *)
WireInv == WireTypeOK /\ UnitInv /\ StopInv /\ IdleInv

(* A sample leaves the chip one of its states.                             *)
LEMMA SampleTypeOK ==
  ASSUME chip \in Chip, chip.on => chip.highs < EndEdges, NEW level \in BOOLEAN, Sample(level)
  PROVE chip' \in Chip /\ (chip'.on => chip'.highs < EndEdges)
<1>1. Bits \in Nat \ {0} /\ EndEdges \in Nat \ {0}
  BY WireAssumption DEF EndEdges
<1>2. CASE ~chip.on
  BY <1>1, <1>2 DEF Sample, Chip, NewFrame, HIGH, LOW
<1>3. CASE chip.on
  <2>1. HighsAfter(level) \in 0..EndEdges
    BY <1>1, <1>3 DEF HighsAfter, Chip
  <2>2. UnitAfter(level) \in Word
    BY <1>1 DEF UnitAfter, Chip, Word
  <2>3. WordsAfter(level) \in Seq(Word)
    BY <1>1 DEF WordsAfter, Chip
  <2>4. (IF chip.n < Bits THEN chip.n + 1 ELSE 0) \in 0..Bits
    BY <1>1 DEF Chip
  <2>5. chip' = [on    |-> HighsAfter(level) # EndEdges,
                 highs |-> HighsAfter(level),
                 n     |-> IF chip.n < Bits THEN chip.n + 1 ELSE 0,
                 unit  |-> UnitAfter(level),
                 words |-> WordsAfter(level)]
    BY <1>3 DEF Sample
  <2>6. chip' \in Chip
    BY <2>1, <2>2, <2>3, <2>4, <2>5 DEF Chip
  <2>7. chip'.on => chip'.highs < EndEdges
    <3>1. chip'.highs = HighsAfter(level)
      BY <2>5
    <3>2. chip'.on = (HighsAfter(level) # EndEdges)
      BY <2>5
    <3>3. HighsAfter(level) # EndEdges => HighsAfter(level) < EndEdges
      BY <1>1, <2>1
    <3> QED
      BY <3>1, <3>2, <3>3
  <2> QED
    BY <2>6, <2>7
<1> QED
  BY <1>2, <1>3

(* What a sample in a frame changes.                                       *)
LEMMA SampleInFrame ==
  ASSUME chip \in Chip, chip.on, NEW level \in BOOLEAN, Sample(level)
  PROVE /\ chip'.highs = HighsAfter(level) /\ (chip'.on <=> HighsAfter(level) # EndEdges)
        /\ chip'.n = (IF chip.n < Bits THEN chip.n + 1 ELSE 0)
        /\ chip'.unit = UnitAfter(level) /\ chip'.words = WordsAfter(level)
BY DEF Sample, Chip

(* The bits of a unit are levels.                                          *)
LEMMA LevelTypeOK ==
  ASSUME NEW w \in Word, NEW i \in 0..Bits
  PROVE Level(w, i) \in BOOLEAN
<1>1. Bits \in Nat \ {0}
  BY WireAssumption
<1>2. CASE i < Bits
  <2>1. i + 1 \in 1..Bits
    BY <1>1, <1>2
  <2> QED
    BY <1>2, <2>1 DEF Level, Word
<1>3. CASE ~(i < Bits)
  BY <1>3 DEF Level, CheckBit
<1> QED
  BY <1>2, <1>3

(* The fields of the badge's state.                                        *)
LEMMA TxFields ==
  ASSUME tx \in Tx
  PROVE /\ tx.at \in {"pwm", "clean", "ready", "unit", "stop"}
        /\ tx.frame \in Seq(Word) /\ tx.unit \in Nat \ {0}
        /\ tx.edge \in Nat /\ tx.edge <= EndEdges
BY WireAssumption DEF Tx, EndEdges

(* A sent unit is one of the command's words.                              *)
LEMMA SentLevel ==
  ASSUME WireTypeOK, tx.at = "unit", tx.edge <= Bits
  PROVE tx.frame[tx.unit] \in Word /\ Level(tx.frame[tx.unit], tx.edge) \in BOOLEAN
<1>1. tx.frame \in Seq(Word) /\ tx.unit \in DOMAIN tx.frame /\ tx.edge \in Nat
  BY TxFields DEF WireTypeOK
<1>2. tx.frame[tx.unit] \in Word
  BY <1>1, ElementOfSeq
<1>3. tx.edge \in 0..Bits
  BY <1>1, WireAssumption
<1> QED
  BY <1>2, <1>3, LevelTypeOK

(* The types of both ends (WireTypeOK): each stays within a command of     *)
(* whole words.                                                            *)
THEOREM WireTyped == WireSpec => []WireTypeOK
<1>0. Bits \in Nat \ {0} /\ EndEdges \in Nat \ {0} /\ EndEdges = Bits + 2
  BY WireAssumption DEF EndEdges
<1>1. WireInit => WireTypeOK
  <2> SUFFICES ASSUME WireInit PROVE WireTypeOK
    OBVIOUS
  <2>1. [i \in 1..Bits |-> LOW] \in Word /\ << >> \in Seq(Word)
    BY DEF Word, LOW
  <2>2. tx \in Tx /\ tx.at = "pwm"
    BY <1>0, <2>1 DEF WireInit, Tx
  <2>3. chip = [on |-> FALSE, highs |-> 0, n |-> 0, unit |-> [i \in 1..Bits |-> LOW], words |-> << >>]
    BY DEF WireInit
  <2>4. chip \in Chip /\ ~chip.on
    BY <1>0, <2>1, <2>3 DEF Chip
  <2> QED
    BY <2>2, <2>4 DEF WireTypeOK
<1>2. WireTypeOK /\ [WireNext]_wvars => WireTypeOK'
  <2> SUFFICES ASSUME WireTypeOK, [WireNext]_wvars PROVE WireTypeOK'
    OBVIOUS
  <2>1. chip \in Chip /\ (chip.on => chip.highs < EndEdges) /\ tx \in Tx
    BY DEF WireTypeOK
  <2>2. tx.at \in {"unit", "stop"} => tx.unit \in DOMAIN tx.frame
    BY DEF WireTypeOK
  <2>a. HIGH \in BOOLEAN /\ LOW \in BOOLEAN /\ 0 \in 0..EndEdges
    BY <1>0 DEF HIGH, LOW
  <2>3. CASE Pwm \/ BbStart \/ BbStarted
    <3>1. Sample(HIGH) /\ tx' \in Tx /\ tx'.at \notin {"unit", "stop"}
      BY <2>1, <2>3 DEF Pwm, BbStart, BbStarted, Tx
    <3>2. chip' \in Chip /\ (chip'.on => chip'.highs < EndEdges)
      BY <2>1, <2>a, <3>1, SampleTypeOK
    <3> QED
      BY <3>1, <3>2 DEF WireTypeOK
  <2>4. CASE TxStart
    <3>1. PICK f \in Commands : tx' = [at |-> "unit", frame |-> f, unit |-> 1, edge |-> 0]
      BY <2>4 DEF TxStart
    <3>2. f \in Seq(Word) /\ f # << >>
      BY WireAssumption
    <3>3. 1 \in DOMAIN f
      BY <3>2, EmptySeq
    <3>4. tx' \in Tx /\ tx'.unit \in DOMAIN tx'.frame
      BY <1>0, <3>1, <3>2, <3>3 DEF Tx
    <3>5. chip' \in Chip /\ (chip'.on => chip'.highs < EndEdges)
      BY <2>1, <2>4, <2>a, SampleTypeOK DEF TxStart
    <3> QED
      BY <3>4, <3>5 DEF WireTypeOK
  <2>5. CASE TxBit
    <3>1. tx' = [tx EXCEPT !.edge = @ + 1] /\ tx.at = "unit" /\ tx.edge < Bits
      BY <2>5 DEF TxBit
    <3>2. tx.edge + 1 \in 0..EndEdges /\ tx.edge <= Bits
      BY <1>0, <2>1, <3>1, TxFields
    <3>3. tx' \in Tx /\ tx'.unit \in DOMAIN tx'.frame
      BY <2>1, <2>2, <3>1, <3>2 DEF Tx
    <3>4. chip' \in Chip /\ (chip'.on => chip'.highs < EndEdges)
      BY <2>1, <2>5, <3>1, <3>2, SentLevel, SampleTypeOK DEF TxBit
    <3> QED
      BY <3>3, <3>4 DEF WireTypeOK
  <2>6. CASE TxCheck
    <3>1. tx.at = "unit" /\ tx.edge = Bits /\ tx.unit \in DOMAIN tx.frame
      BY <2>2, <2>6 DEF TxCheck
    <3>4. tx' \in Tx /\ tx'.unit \in DOMAIN tx'.frame
      <4>1. CASE tx.unit < Len(tx.frame)
        <5>1. tx' = [tx EXCEPT !.unit = @ + 1, !.edge = 0]
          BY <2>6, <4>1 DEF TxCheck
        <5>2. tx.unit + 1 \in DOMAIN tx.frame /\ tx.unit + 1 \in Nat \ {0}
          BY <2>1, <4>1, TxFields, LenProperties
        <5>3. tx'.unit = tx.unit + 1 /\ tx'.frame = tx.frame
          BY <2>1, <5>1 DEF Tx
        <5>4. tx' \in Tx
          BY <2>a, <2>1, <5>1, <5>2 DEF Tx
        <5> QED
          BY <5>2, <5>3, <5>4
      <4>2. CASE ~(tx.unit < Len(tx.frame))
        <5>1. tx' = [tx EXCEPT !.at = "stop", !.edge = 0]
          BY <2>6, <4>2 DEF TxCheck
        <5>2. tx'.unit = tx.unit /\ tx'.frame = tx.frame
          BY <2>1, <5>1 DEF Tx
        <5>3. tx' \in Tx
          BY <2>a, <2>1, <5>1 DEF Tx
        <5> QED
          BY <3>1, <5>2, <5>3
      <4> QED
        BY <4>1, <4>2
    <3>5. chip' \in Chip /\ (chip'.on => chip'.highs < EndEdges)
      BY <1>0, <2>1, <2>6, <3>1, SentLevel, SampleTypeOK DEF TxCheck
    <3> QED
      BY <3>4, <3>5 DEF WireTypeOK
  <2>7. CASE TxStop
    <3>1. tx.at = "stop" /\ tx.edge \in Nat
      BY <2>1, <2>7, TxFields DEF TxStop
    <3>2. tx' \in Tx /\ (tx'.at = "stop" => tx'.unit \in DOMAIN tx'.frame) /\ tx'.at # "unit"
      <4>1. CASE tx.edge + 1 < EndEdges
        <5>1. tx' = [tx EXCEPT !.edge = @ + 1]
          BY <2>7, <4>1 DEF TxStop, StopEdges
        <5>2. tx.edge + 1 \in 0..EndEdges
          BY <1>0, <3>1, <4>1
        <5> QED
          BY <2>1, <2>2, <3>1, <5>1, <5>2 DEF Tx
      <4>2. CASE ~(tx.edge + 1 < EndEdges)
        <5>1. tx' = [tx EXCEPT !.at = "ready", !.edge = 0]
          BY <2>7, <4>2 DEF TxStop, StopEdges
        <5>2. tx'.at = "ready"
          BY <2>1, <5>1 DEF Tx
        <5>3. tx' \in Tx
          BY <2>a, <2>1, <5>1 DEF Tx
        <5> QED
          BY <5>2, <5>3
      <4> QED
        BY <4>1, <4>2
    <3>3. chip' \in Chip /\ (chip'.on => chip'.highs < EndEdges)
      BY <2>1, <2>7, <2>a, SampleTypeOK DEF TxStop
    <3> QED
      BY <3>2, <3>3 DEF WireTypeOK
  <2>8. CASE BbEnd \/ UNCHANGED wvars
    BY <2>8 DEF BbEnd, wvars, WireTypeOK, Tx
  <2> QED
    BY <2>3, <2>4, <2>5, <2>6, <2>7, <2>8 DEF WireNext
<1> QED
  BY <1>1, <1>2, PTL DEF WireSpec

-----------------------------------------------------------------------------
(* A bit of a word, taken in by the chip.                                  *)
LEMMA TxBitInv ==
  ASSUME WireInv, WireTypeOK', TxBit
  PROVE UnitInv' /\ tx'.at = "unit" /\ chip'.on
<1> DEFINE w == tx.frame[tx.unit]
<1> DEFINE e == tx.edge
<1>0. Bits \in Nat \ {0} /\ EndEdges = Bits + 2
  BY WireAssumption DEF EndEdges
<1>1. WireTypeOK /\ tx \in Tx /\ chip \in Chip /\ tx.at = "unit" /\ e \in Nat /\ e < Bits
  BY TxFields DEF WireInv, WireTypeOK, TxBit
<1>2. chip.on /\ chip.n = e /\ chip.highs <= e + 1 /\ Has(tx.unit - 1)
  BY <1>1 DEF WireInv, UnitInv
<1>3. \A i \in 1..e : chip.unit[i] = w[i]
  BY <1>1 DEF WireInv, UnitInv
<1>4. tx'.edge = e + 1 /\ tx'.at = "unit" /\ tx'.unit = tx.unit /\ tx'.frame = tx.frame
  BY <1>1 DEF TxBit, Tx
<1>5. w \in Word /\ w[e + 1] \in BOOLEAN /\ Level(w, e) = w[e + 1]
  <2>1. Level(w, e) = w[e + 1]
    BY <1>1 DEF Level
  <2> QED
    BY <1>0, <1>1, <2>1, SentLevel
<1> DEFINE l == w[e + 1]
<1>6. Sample(l)
  BY <1>5 DEF TxBit
<1>7. /\ chip'.highs = HighsAfter(l) /\ (chip'.on <=> HighsAfter(l) # EndEdges)
      /\ chip'.n = (IF chip.n < Bits THEN chip.n + 1 ELSE 0)
      /\ chip'.unit = UnitAfter(l) /\ chip'.words = WordsAfter(l)
  <2> HIDE DEF l
  <2> QED
    BY <1>1, <1>2, <1>5, <1>6, SampleInFrame DEF l
<1>8. chip.highs \in Nat /\ chip.unit \in Word
  BY <1>0, <1>1 DEF Chip
<1>9. HighsAfter(l) \in Nat /\ HighsAfter(l) <= e + 2 /\ (l = LOW => HighsAfter(l) = 0)
  BY <1>1, <1>2, <1>8 DEF HighsAfter, HIGH, LOW
<1>10. chip'.on /\ chip'.highs <= tx'.edge + 1
  <2>1. HighsAfter(l) # EndEdges /\ HighsAfter(l) <= e + 1 + 1
    BY <1>0, <1>1, <1>9
  <2> QED
    BY <1>4, <1>7, <2>1
<1>11. chip'.n = tx'.edge /\ chip'.words = chip.words
  BY <1>0, <1>1, <1>2, <1>4, <1>7 DEF WordsAfter
<1>12. chip'.unit = [chip.unit EXCEPT ![e + 1] = l]
  BY <1>1, <1>2, <1>7 DEF UnitAfter
<1>13. \A i \in 1..(e + 1) : chip'.unit[i] = w[i]
  <2> TAKE i \in 1..(e + 1)
  <2>1. i \in 1..Bits /\ (i = e + 1 \/ i \in 1..e)
    BY <1>0, <1>1
  <2> QED
    BY <1>3, <1>8, <1>12, <2>1 DEF Word
<1>14. chip'.unit[e + 1] = LOW => chip'.highs = 0
  <2>1. e + 1 \in 1..(e + 1)
    BY <1>1
  <2>2. chip'.unit[e + 1] = l
    BY <1>13, <2>1
  <2> QED
    BY <1>7, <1>9, <2>2
<1>15. Has(tx.unit - 1)'
  BY <1>2, <1>4, <1>11 DEF Has
<1>16. \A i \in 1..tx'.edge : chip'.unit[i] = tx'.frame[tx'.unit][i]
  BY <1>4, <1>13
<1>17. \A i \in 1..tx'.edge : i = tx'.edge /\ chip'.unit[i] = LOW => chip'.highs = 0
  BY <1>4, <1>14
<1> QED
  BY <1>0, <1>1, <1>4, <1>10, <1>11, <1>15, <1>16, <1>17 DEF UnitInv

(* The check bit: the word counts, and the run of HIGH starts over.        *)
LEMMA TxCheckInv ==
  ASSUME WireInv, WireTypeOK', TxCheck
  PROVE UnitInv' /\ StopInv' /\ tx'.at \in {"unit", "stop"} /\ chip'.on
<1> DEFINE w == tx.frame[tx.unit]
<1>0. Bits \in Nat \ {0} /\ EndEdges = Bits + 2
  BY WireAssumption DEF EndEdges
<1>1. WireTypeOK /\ tx \in Tx /\ chip \in Chip /\ tx.at = "unit" /\ tx.edge = Bits
  BY DEF WireInv, WireTypeOK, TxCheck
<1>2. chip.on /\ chip.n = Bits /\ Has(tx.unit - 1)
  BY <1>1 DEF WireInv, UnitInv
<1>3. (\A i \in 1..Bits : chip.unit[i] = w[i]) /\ (chip.unit[Bits] = LOW => chip.highs = 0)
  <2>1. \A i \in 1..Bits : i = Bits /\ chip.unit[i] = LOW => chip.highs = 0
    BY <1>1 DEF WireInv, UnitInv
  <2>2. Bits \in 1..Bits
    BY <1>0
  <2>3. \A i \in 1..Bits : chip.unit[i] = w[i]
    BY <1>1 DEF WireInv, UnitInv
  <2> QED
    BY <2>1, <2>2, <2>3
<1>4. w \in Word /\ chip.unit \in Word /\ chip.words \in Seq(Word) /\ chip.highs \in Nat
  BY <1>0, <1>1, SentLevel DEF Chip
<1>5. chip.unit = w
  <2> HIDE DEF w
  <2>1. DOMAIN w = 1..Bits /\ DOMAIN chip.unit = 1..Bits
    BY <1>4 DEF Word
  <2>2. w = [i \in 1..Bits |-> w[i]] /\ chip.unit = [i \in 1..Bits |-> chip.unit[i]]
    BY <1>4 DEF Word
  <2> QED
    BY <1>3, <2>2, Zenon
<1>6. w[Bits] \in BOOLEAN /\ Level(w, Bits) = ~w[Bits]
  BY <1>0, <1>4 DEF Word, Level, CheckBit
<1> DEFINE l == ~w[Bits]
<1>7. Sample(l) /\ l \in BOOLEAN
  BY <1>1, <1>6 DEF TxCheck
<1>8. /\ chip'.highs = HighsAfter(l) /\ (chip'.on <=> HighsAfter(l) # EndEdges)
      /\ chip'.n = (IF chip.n < Bits THEN chip.n + 1 ELSE 0)
      /\ chip'.words = WordsAfter(l)
  <2> HIDE DEF l
  <2> QED
    BY <1>1, <1>2, <1>7, SampleInFrame
<1>9. chip'.highs \in {0, 1} /\ chip'.on /\ chip'.n = 0
  <2>1. CASE w[Bits] = LOW
    <3>1. chip.highs = 0
      BY <1>3, <1>5, <2>1
    <3>2. HighsAfter(l) \in {0, 1} /\ HighsAfter(l) # EndEdges
      BY <1>0, <3>1 DEF HighsAfter
    <3> HIDE DEF l
    <3> QED
      BY <1>0, <1>2, <1>8, <3>2
  <2>2. CASE w[Bits] = HIGH
    <3>1. HighsAfter(l) = 0
      BY <2>2 DEF HighsAfter, HIGH
    <3>2. HighsAfter(l) # EndEdges
      BY <1>0, <3>1
    <3> HIDE DEF l
    <3> QED
      BY <1>0, <1>2, <1>8, <3>1, <3>2
  <2> QED
    BY <1>6, <2>1, <2>2 DEF LOW, HIGH
<1>10. chip'.words = Append(chip.words, w)
  <2>1. l # chip.unit[Bits]
    BY <1>5, <1>6
  <2> QED
    BY <1>2, <1>5, <1>8, <2>1 DEF WordsAfter
<1>11. tx.unit \in 1..Len(tx.frame) /\ tx.frame \in Seq(Word) /\ tx.unit \in Nat
  BY <1>1, TxFields, LenProperties DEF WireTypeOK
<1>12. Len(chip'.words) = tx.unit /\ \A i \in 1..tx.unit : chip'.words[i] = tx.frame[i]
  <2>1. Len(chip.words) = tx.unit - 1 /\ \A i \in 1..(tx.unit - 1) : chip.words[i] = tx.frame[i]
    BY <1>2 DEF Has
  <2>2. Len(chip'.words) = tx.unit
    BY <1>4, <1>10, <1>11, <2>1, AppendProperties
  <2>3. ASSUME NEW i \in 1..tx.unit PROVE chip'.words[i] = tx.frame[i]
    <3>1. CASE i = tx.unit
      BY <1>4, <1>10, <1>11, <2>1, <3>1, AppendProperties
    <3>2. CASE i # tx.unit
      <4>1. i \in 1..Len(chip.words)
        BY <1>11, <2>1, <3>2
      <4> QED
        BY <1>4, <1>10, <2>1, <4>1, AppendProperties
    <3> QED
      BY <3>1, <3>2
  <2> QED
    BY <2>2, <2>3
<1>13. CASE tx.unit < Len(tx.frame)
  <2>1. tx' = [tx EXCEPT !.unit = @ + 1, !.edge = 0]
    BY <1>13 DEF TxCheck
  <2>2. tx'.at = "unit" /\ tx'.unit = tx.unit + 1 /\ tx'.edge = 0 /\ tx'.frame = tx.frame
    BY <1>1, <2>1 DEF Tx
  <2>3. Has(tx.unit - 1)'
    BY <1>11, <1>12, <2>2 DEF Has
  <2> QED
    BY <1>0, <1>9, <2>2, <2>3 DEF UnitInv, StopInv
<1>14. CASE ~(tx.unit < Len(tx.frame))
  <2>1. tx' = [tx EXCEPT !.at = "stop", !.edge = 0]
    BY <1>14 DEF TxCheck
  <2>2. tx'.at = "stop" /\ tx'.unit = tx.unit /\ tx'.edge = 0 /\ tx'.frame = tx.frame
    BY <1>1, <2>1 DEF Tx
  <2>3. Has(tx.unit)' /\ tx.unit = Len(tx.frame)
    BY <1>11, <1>12, <1>14, <2>2, LenProperties DEF Has
  <2> QED
    BY <1>0, <1>9, <2>2, <2>3 DEF UnitInv, StopInv
<1> QED
  BY <1>9, <1>13, <1>14

(* An edge of the end: HIGH is no check bit for a word of HIGH bits, and   *)
(* the last edge is the one that completes the run at the latest.          *)
LEMMA TxStopInv ==
  ASSUME WireInv, WireTypeOK', TxStop
  PROVE /\ StopInv' /\ IdleInv' /\ tx'.at \in {"stop", "ready"}
        /\ chip.on => chip'.words = tx.frame
<1> DEFINE e == tx.edge
<1>0. Bits \in Nat \ {0} /\ EndEdges = Bits + 2
  BY WireAssumption DEF EndEdges
<1>1. tx \in Tx /\ chip \in Chip /\ tx.at = "stop" /\ e \in Nat /\ e < EndEdges
  BY TxFields DEF WireInv, WireTypeOK, StopInv, TxStop
<1>2. tx.unit = Len(tx.frame)
  BY <1>1 DEF WireInv, StopInv
<1>4. /\ e + 1 < EndEdges =>
           tx'.at = "stop" /\ tx'.edge = e + 1 /\ tx'.unit = tx.unit /\ tx'.frame = tx.frame
      /\ ~(e + 1 < EndEdges) => tx'.at = "ready"
  BY <1>1 DEF TxStop, StopEdges, Tx
<1>5. CASE ~chip.on
  <2>1. chip' = chip
    BY <1>5 DEF TxStop, Sample, HIGH, LOW
  <2> QED
    BY <1>1, <1>2, <1>4, <1>5, <2>1 DEF StopInv, IdleInv
<1>6. CASE chip.on
  <2>1. Has(tx.unit) /\ chip.highs < EndEdges /\ (chip.highs = e \/ chip.highs = e + 1)
    BY <1>1, <1>6 DEF WireInv, StopInv
  <2>2. e <= Bits => chip.n = e /\ \A i \in 1..e : chip.unit[i] = HIGH
    BY <1>1, <1>6 DEF WireInv, StopInv
  <2>3. e > Bits => chip.n = 0
    BY <1>1, <1>6 DEF WireInv, StopInv
  <2>4. chip.highs \in Nat /\ chip.unit \in Word /\ chip.words \in Seq(Word) /\ chip.n \in 0..Bits
    BY <1>0, <1>1 DEF Chip
  <2>5. /\ chip'.highs = HighsAfter(HIGH) /\ (chip'.on <=> HighsAfter(HIGH) # EndEdges)
        /\ chip'.n = (IF chip.n < Bits THEN chip.n + 1 ELSE 0)
        /\ chip'.unit = UnitAfter(HIGH) /\ chip'.words = WordsAfter(HIGH)
    <3>1. Sample(HIGH) /\ HIGH \in BOOLEAN
      BY DEF TxStop, HIGH
    <3> QED
      BY <1>1, <1>6, <3>1, SampleInFrame
  <2>6. HighsAfter(HIGH) = chip.highs + 1
    BY DEF HighsAfter
  <2>7. chip'.words = chip.words
    <3>1. CASE chip.n = Bits
      <4>1. e = Bits /\ Bits \in 1..e
        BY <1>0, <1>1, <2>2, <2>3, <3>1
      <4>2. chip.unit[Bits] = HIGH
        BY <1>0, <2>2, <4>1
      <4> QED
        BY <2>5, <4>2 DEF WordsAfter
    <3>2. CASE chip.n # Bits
      BY <2>5, <3>2 DEF WordsAfter
    <3> QED
      BY <3>1, <3>2
  <2>8. chip.words = tx.frame
    <3>1. tx.frame \in Seq(Word) /\ Len(chip.words) = Len(tx.frame)
      BY <1>1, <1>2, <2>1, TxFields DEF Has
    <3>2. \A i \in 1..Len(chip.words) : chip.words[i] = tx.frame[i]
      BY <1>2, <2>1 DEF Has
    <3> QED
      BY <2>4, <3>1, <3>2, SeqEqual
  <2>9. CASE ~(e + 1 < EndEdges)
    <3>1. chip.highs = e /\ HighsAfter(HIGH) = EndEdges
      BY <1>0, <1>1, <2>1, <2>4, <2>6, <2>9
    <3> QED
      BY <1>4, <2>5, <2>7, <2>8, <2>9, <3>1 DEF StopInv, IdleInv
  <2>10. CASE e + 1 < EndEdges
    <3>1. tx'.at = "stop" /\ tx'.edge = e + 1 /\ tx'.unit = tx.unit /\ tx'.frame = tx.frame
      BY <1>4, <2>10
    <3>2. Has(tx.unit)'
      BY <2>1, <2>7, <3>1 DEF Has
    <3>3. e <= Bits
      BY <1>0, <1>1, <2>10
    <3>4. chip'.on => chip'.highs < EndEdges
      BY DEF WireTypeOK
    <3>5. chip'.highs = tx'.edge \/ chip'.highs = tx'.edge + 1
      BY <2>1, <2>5, <2>6, <3>1
    <3>6. tx'.edge <= Bits => chip'.n = tx'.edge /\ \A i \in 1..tx'.edge : chip'.unit[i] = HIGH
      <4> SUFFICES ASSUME tx'.edge <= Bits PROVE chip'.n = tx'.edge /\ \A i \in 1..tx'.edge : chip'.unit[i] = HIGH
        OBVIOUS
      <4>1. e < Bits /\ chip.n = e
        BY <1>0, <1>1, <2>2, <3>1, <3>3
      <4>2. chip'.n = tx'.edge /\ chip'.unit = [chip.unit EXCEPT ![e + 1] = HIGH]
        BY <2>5, <3>1, <4>1 DEF UnitAfter
      <4>3. ASSUME NEW i \in 1..(e + 1) PROVE chip'.unit[i] = HIGH
        <5>1. i \in 1..Bits /\ (i = e + 1 \/ i \in 1..e)
          BY <1>0, <1>1, <4>1
        <5> QED
          BY <2>2, <2>4, <3>3, <4>2, <5>1 DEF Word
      <4> QED
        BY <3>1, <4>2, <4>3
    <3>7. tx'.edge > Bits => chip'.n = 0
      <4>1. tx'.edge > Bits => chip.n = Bits
        BY <1>0, <1>1, <2>2, <3>1, <3>3
      <4> QED
        BY <1>0, <2>5, <4>1
    <3>8. StopInv'
      BY <1>2, <2>10, <3>1, <3>2, <3>4, <3>5, <3>6, <3>7 DEF StopInv
    <3> QED
      BY <2>7, <2>8, <3>1, <3>8 DEF IdleInv
  <2> QED
    BY <2>9, <2>10
<1> QED
  BY <1>5, <1>6

(* WireInv is inductive.                                                   *)
THEOREM WireInvariant == WireSpec => []WireInv
<1>1. WireInit => UnitInv /\ StopInv /\ IdleInv
  <2> SUFFICES ASSUME WireInit PROVE UnitInv /\ StopInv /\ IdleInv
    OBVIOUS
  <2>1. tx.at = "pwm" /\ ~chip.on
    BY DEF WireInit
  <2> QED
    BY <2>1 DEF UnitInv, StopInv, IdleInv
<1>2. WireInv /\ WireTypeOK' /\ [WireNext]_wvars => WireInv'
  <2> SUFFICES ASSUME WireInv, WireTypeOK', [WireNext]_wvars PROVE WireInv'
    OBVIOUS
  <2>0. tx \in Tx /\ IdleInv
    BY DEF WireInv, WireTypeOK
  <2>1. CASE Pwm \/ BbStart \/ BbStarted
    <3>1. Sample(HIGH) /\ tx.at \in {"pwm", "clean"} /\ tx'.at \in {"pwm", "clean", "ready"}
      BY <2>0, <2>1 DEF Pwm, BbStart, BbStarted, Tx
    <3>2. ~chip.on /\ chip' = chip
      BY <2>0, <3>1 DEF IdleInv, Sample, HIGH, LOW
    <3> QED
      BY <3>1, <3>2 DEF WireInv, UnitInv, StopInv, IdleInv
  <2>2. CASE TxStart
    <3>1. tx'.at = "unit" /\ tx'.unit = 1 /\ tx'.edge = 0 /\ ~chip.on
      BY <2>0, <2>2 DEF TxStart, IdleInv
    <3>2. chip' = NewFrame
      BY <2>2, <3>1 DEF TxStart, Sample
    <3> QED
      BY <3>1, <3>2, WireAssumption DEF NewFrame, WireInv, UnitInv, StopInv, IdleInv, Has
  <2>3. CASE TxBit
    BY <2>3, TxBitInv DEF WireInv, StopInv, IdleInv
  <2>4. CASE TxCheck
    BY <2>4, TxCheckInv DEF WireInv, IdleInv
  <2>5. CASE TxStop
    BY <2>5, TxStopInv DEF WireInv, UnitInv
  <2>6. CASE BbEnd
    <3>1. tx.at = "ready" /\ tx'.at = "pwm" /\ chip' = chip
      BY <2>0, <2>6 DEF BbEnd, Tx
    <3> QED
      BY <2>0, <3>1 DEF WireInv, UnitInv, StopInv, IdleInv
  <2>7. CASE UNCHANGED wvars
    BY <2>7 DEF wvars, WireInv, UnitInv, StopInv, IdleInv, Has
  <2> QED
    BY <2>1, <2>2, <2>3, <2>4, <2>5, <2>6, <2>7 DEF WireNext
<1> QED
  BY <1>1, <1>2, WireTyped, PTL DEF WireSpec, WireInv

(* FramesKeepBounds: no unit is taken for an end, and every end is one.    *)
THEOREM FramesBounded == WireSpec => []FramesKeepBounds
<1>1. WireInv => FramesKeepBounds
  BY DEF WireInv, UnitInv, IdleInv, FramesKeepBounds
<1> QED
  BY <1>1, WireInvariant, PTL

(* CommandsArrive: a frame ends only behind its command, and with all of   *)
(* its words.                                                              *)
THEOREM CommandsIntact == WireSpec => CommandsArrive
<1>1. WireInv /\ WireTypeOK' /\ [WireNext]_wvars
        => [chip.on /\ ~chip'.on => tx.at = "stop" /\ chip'.words = tx.frame]_wvars
  <2> SUFFICES ASSUME WireInv, WireTypeOK', WireNext, chip.on, ~chip'.on
               PROVE tx.at = "stop" /\ chip'.words = tx.frame
    BY DEF wvars
  <2>1. ~(Pwm \/ BbStart \/ BbStarted \/ TxStart \/ BbEnd)
    BY DEF Pwm, BbStart, BbStarted, TxStart, BbEnd, WireInv, IdleInv
  <2>2. ~TxBit /\ ~TxCheck
    BY TxBitInv, TxCheckInv
  <2>3. TxStop
    BY <2>1, <2>2 DEF WireNext
  <2> QED
    BY <2>3, TxStopInv DEF TxStop
<1> QED
  BY <1>1, WireInvariant, WireTyped, PTL DEF WireSpec, CommandsArrive

-----------------------------------------------------------------------------
(* Buttons.                                                                *)

(* What the onlooker has seen of a button fits what the badge remembers: a *)
(* button the badge takes to be held is held, or has a click that is not   *)
(* answered yet; and one that was pressed while the others rested is held  *)
(* as far as the badge knows.                                              *)
ButtonsInv ==
  /\ phase \in [Button -> Phase] /\ curr \subseteq Button /\ last \subseteq Button
  /\ \A b \in Button : b \in last <=> phase[b] \in {"down", "held"}
  /\ \A b \in curr : phase[b] \in {"held", "rising"} \/ b \in owed
  /\ \A b \in alone : phase[b] \in {"held", "rising"} => b \in curr

(* The phases follow one another as a button goes down and up.             *)
LEMMA SeenFacts ==
  ASSUME ButtonsInv, NEW next \in SUBSET Button, Watched(next), NEW b \in Button
  PROVE  /\ phase'[b] = Seen(b, b \in next) /\ phase'[b] \in Phase
         /\ b \in next <=> phase'[b] \in {"down", "held"}
         /\ phase'[b] = "held" <=> b \in next /\ phase[b] \in {"down", "held", "rising"}
         /\ phase'[b] = "rising" <=> b \notin next /\ phase[b] = "held"
         /\ phase'[b] = "clicked" <=> b \notin next /\ phase[b] = "rising"
<1>1. phase'[b] = Seen(b, b \in next) /\ phase[b] \in Phase
  BY DEF Watched, ButtonsInv
<1> QED
  BY <1>1 DEF Seen, Phase

(* A button that was pressed alone: the sample agrees with the one before  *)
(* but for that button.                                                    *)
LEMMA AloneFacts ==
  ASSUME ButtonsInv, NEW next \in SUBSET Button, Watched(next), NEW b \in alone',
         phase'[b] \in {"held", "rising", "clicked"}
  PROVE  b \in Button /\ ((b \in last <=> b \in next) => next = last)
         /\ (phase[b] \in {"held", "rising"} => b \in curr)
<1>1. b \in Button /\ phase[b] \in Phase
  BY DEF Watched, ButtonsInv
<1>2. phase[b] \notin {"up", "clicked"}
  BY <1>1, SeenFacts DEF Phase
<1>3. b \in alone /\ next \ {b} = last \ {b}
  BY <1>2 DEF Watched
<1> QED
  BY <1>1, <1>3 DEF ButtonsInv

(* A sample of all the buttons keeps the invariant.                        *)
LEMMA ButtonsStep ==
  ASSUME ButtonsInv, NEW next \in SUBSET Button, Sampled(next), Watched(next)
  PROVE  ButtonsInv'
<1>1. phase' \in [Button -> Phase] /\ curr' \subseteq Button /\ last' \subseteq Button
  <2>1. phase' = [b \in Button |-> Seen(b, b \in next)]
    BY DEF Watched
  <2>2. \A b \in Button : Seen(b, b \in next) \in Phase
    BY <2>1, SeenFacts
  <2> QED
    BY <2>1, <2>2 DEF Sampled, ButtonsInv
<1>2. \A b \in Button : b \in last' <=> phase'[b] \in {"down", "held"}
  BY SeenFacts DEF Sampled
<1>3. ASSUME NEW b \in curr' PROVE phase'[b] \in {"held", "rising"} \/ b \in owed'
  <2>1. CASE Agreed(next)
    <3>1. b \in next /\ b \in last /\ b \in Button
      BY <2>1 DEF Sampled, Agreed
    <3> QED
      BY <3>1, SeenFacts DEF ButtonsInv
  <2>2. CASE ~Agreed(next)
    <3>1. b \in curr /\ b \in Button /\ posted' = {}
      BY <2>2 DEF Sampled, LetGo, ButtonsInv
    <3>2. CASE b \in owed
      BY <3>1, <3>2 DEF Watched
    <3>3. CASE phase[b] \in {"held", "rising"}
      <4>1. phase'[b] \in {"held", "rising", "clicked"}
        BY <3>1, <3>3, SeenFacts
      <4> QED
        BY <3>1, <4>1 DEF Watched
    <3> QED
      BY <3>1, <3>2, <3>3 DEF ButtonsInv
  <2> QED
    BY <2>1, <2>2
<1>4. ASSUME NEW b \in alone', phase'[b] \in {"held", "rising"} PROVE b \in curr'
  <2>1. /\ b \in Button /\ ((b \in last <=> b \in next) => next = last)
        /\ (phase[b] \in {"held", "rising"} => b \in curr)
    BY <1>4, AloneFacts
  <2>2. CASE b \in last /\ b \in next
    BY <2>1, <2>2 DEF Sampled, Agreed
  <2>3. CASE ~(b \in last /\ b \in next)
    <3>1. phase[b] \in {"held", "rising"} /\ ~(b \notin last /\ b \notin next)
      BY <1>4, <2>1, <2>3, SeenFacts DEF ButtonsInv, Phase
    <3>2. ~Agreed(next)
      BY <2>3, <3>1 DEF Agreed
    <3> QED
      BY <2>1, <3>1, <3>2 DEF Sampled
  <2> QED
    BY <2>2, <2>3
<1> QED
  BY <1>1, <1>2, <1>3, <1>4 DEF ButtonsInv

(* It holds in every state.                                                *)
LEMMA ButtonsStay == ButtonsSpec => []ButtonsInv
<1>1. ButtonsInit => ButtonsInv
  BY DEF ButtonsInit, ButtonsInv, Phase
<1>2. ButtonsInv /\ [ButtonsNext]_bvars => ButtonsInv'
  <2>1. ASSUME ButtonsInv, ButtonsNext PROVE ButtonsInv'
    BY <2>1, ButtonsStep DEF ButtonsNext
  <2>2. ASSUME ButtonsInv, UNCHANGED bvars PROVE ButtonsInv'
    BY <2>2 DEF bvars, ButtonsInv
  <2> QED
    BY <2>1, <2>2
<1> QED
  BY <1>1, <1>2, PTL DEF ButtonsSpec

(* EventsAreClicks for any number of buttons.                              *)
THEOREM NoEventWithoutClick == ButtonsSpec => EventsAreClicks
<1>1. ButtonsInv /\ [ButtonsNext]_bvars =>
        (\A b \in posted' : b \in owed \/ phase'[b] = "clicked") \/ UNCHANGED bvars
  <2> SUFFICES ASSUME ButtonsInv, NEW next \in SUBSET Button, Sampled(next), Watched(next),
                      NEW b \in posted'
               PROVE  b \in owed \/ phase'[b] = "clicked"
    BY DEF ButtonsNext
  <2>1. Agreed(next) /\ b \in curr /\ b \notin next
    BY DEF Sampled, LetGo
  <2>2. b \in Button /\ b \notin last
    BY <2>1 DEF Agreed, ButtonsInv
  <2>3. phase[b] # "held"
    BY <2>2 DEF ButtonsInv
  <2> QED
    BY <2>1, <2>2, <2>3, SeenFacts DEF ButtonsInv
<1> QED
  BY <1>1, ButtonsStay, PTL DEF ButtonsSpec, EventsAreClicks

(* LoneClicksCount for any number of buttons.                              *)
THEOREM LoneClicksAreAnswered == ButtonsSpec => LoneClicksCount
<1>1. ButtonsInv /\ [ButtonsNext]_bvars =>
        (\A b \in alone' : phase'[b] = "clicked" => b \in posted') \/ UNCHANGED bvars
  <2> SUFFICES ASSUME ButtonsInv, NEW next \in SUBSET Button, Sampled(next), Watched(next),
                      NEW b \in alone', phase'[b] = "clicked"
               PROVE  b \in posted'
    BY DEF ButtonsNext
  <2>1. /\ b \in Button /\ ((b \in last <=> b \in next) => next = last)
        /\ (phase[b] \in {"held", "rising"} => b \in curr)
    BY AloneFacts
  <2>2. phase[b] = "rising" /\ b \notin next /\ b \notin last
    BY <2>1, SeenFacts DEF ButtonsInv
  <2>3. next = last /\ b \in curr
    BY <2>1, <2>2
  <2> QED
    BY <2>2, <2>3 DEF Sampled, LetGo, Agreed
<1> QED
  BY <1>1, ButtonsStay, PTL DEF ButtonsSpec, LoneClicksCount
=============================================================================
