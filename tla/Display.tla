------------------------------- MODULE Display -------------------------------
(***************************************************************************)
(* What is on the panel: the TLC task (badge_drivers/tlc6983.c), the frame *)
(* loader it calls and the setters the other tasks call                    *)
(* (badge_drivers/led.c), over a flash whose reads may fail.               *)
(*                                                                         *)
(* The TLC task has the highest priority, so it runs until it blocks: in   *)
(* its Event_pend, in the Task_sleep of ccsi_bb_start, and in the flash    *)
(* read of a frame, which waits for DMA.  The UI task and the IR task take *)
(* turns, so one program counter serves both; the TLC task may preempt     *)
(* them wherever no gate (Task_disable) is held.                           *)
(***************************************************************************)
EXTENDS Integers

CONSTANTS
  Stored,     \* animations of the flash
  Startup,    \* startup_anim
  Pictures,   \* send_anim and recv_anim
  Blank,      \* the zeroed descriptor a badge without animations starts from
  AnimLen,    \* anim_len of every animation
  FailMax,    \* LED_LOAD_FRAME_FAIL_MAX
  MaxChanges  \* bound: changes of the animation from the buttons and the link

Compiled == {Startup} \cup Pictures
Anims == Stored \cup Compiled \cup {Blank}

ASSUME DisplayAssumption ==
  /\ Stored \cap Compiled = {} /\ Blank \notin Stored \cup Compiled
  /\ Startup \notin Pictures
  /\ AnimLen \in [Anims -> Nat] /\ AnimLen[Blank] = 0
  /\ \A n \in Anims \ {Blank} : AnimLen[n] > 0
  /\ FailMax \in Nat \ {0, 1} /\ MaxChanges \in Nat

VARIABLES
  led,         \* led_anim_curr, led_anim_ambient, led_anim_frame, led_curr_ambient, led_anim_idle
  frameClock,  \* led_frame_clock_h is running
  ledFrame,    \* UI_EVENT_LED_FRAME is pending
  tlcClock,    \* tlc_frame_clock_h is running
  tlcEv,       \* events pending in tlc_event_h
  tlc,         \* where the TLC task is, and the animation and frame it is reading
  fails,       \* load_fail_count
  failName,    \* load_fail_anim_name
  panel,       \* tlc_display_curr: the frame last copied there
  app,         \* where the UI or the IR task is, and the ambient animation it remembers
  busy,        \* a transfer is going on
  flash,       \* what becomes of reads: they succeed, may fail, or all fail
  changes      \* changes of the animation so far

dvars == <<led, frameClock, ledFrame, tlcClock, tlcEv, tlc, fails, failName, panel,
           app, busy, flash, changes>>

Led == [curr : Anims, ambient : Anims, frame : Nat, currAmbient : BOOLEAN, idle : Anims]
Dark == <<Blank, 0>>

(* What storage_init leaves: the animation that was on display, or none.   *)
DisplayInit ==
  /\ \E n \in Stored \cup {Blank} :
       led = [curr |-> n, ambient |-> n, frame |-> 0, currAmbient |-> FALSE, idle |-> Blank]
  /\ frameClock = FALSE /\ ledFrame = FALSE
  /\ tlcClock = TRUE /\ tlcEv = {} /\ tlc = [pc |-> "pend", anim |-> Blank, frame |-> 0]
  /\ fails = 0 /\ failName = Blank /\ panel = Dark
  /\ app = [pc |-> "init", snap |-> Blank]
  /\ busy = FALSE /\ flash \in {"good", "flaky", "dead"} /\ changes = 0

Readable(n) == n \in Stored /\ flash # "dead"
Unreadable(n) == n \notin Stored \/ flash # "good"

-----------------------------------------------------------------------------
(* The setters: the write under the gate; the post comes after it.         *)

SetLateReset(n, amb) ==
  led' = [led EXCEPT !.curr = n, !.currAmbient = amb,
                     !.ambient = IF amb THEN n ELSE led.ambient]
(* led_set_anim_direct, up to Task_restore.                                *)
Set(n, amb) ==
  led' = [led EXCEPT !.curr = n, !.frame = 0, !.currAmbient = amb,
                     !.ambient = IF amb THEN n ELSE led.ambient]

At(pc) == app.pc = pc
Goto(pc) == app' = [app EXCEPT !.pc = pc]

(* Event_post(tlc_event_h, TLC_EVENT_NEXTFRAME).                           *)
PostNext ==
  /\ At("post") /\ Goto("run")
  /\ tlcEv' = tlcEv \cup {"nextframe"}
  /\ UNCHANGED <<led, frameClock, ledFrame, tlcClock, tlc, fails, failName, panel,
                 busy, flash, changes>>

Setting(n, amb) ==
  /\ Set(n, amb) /\ Goto("post")
  /\ UNCHANGED <<frameClock, ledFrame, tlcClock, tlcEv, tlc, fails, failName, panel, flash>>

-----------------------------------------------------------------------------
(* led_init.                                                               *)

(* storage_init reported errors.                                           *)
InitBroken ==
  /\ At("init") /\ flash # "good"
  /\ Setting(Startup, TRUE)
  /\ UNCHANGED <<busy, changes>>

(* led_set_anim of what was on display; it may not load.                   *)
InitAmbient ==
  /\ At("init") /\ Goto("start")
  /\ \/ /\ Readable(led.curr) /\ Set(led.curr, TRUE)
        /\ tlcEv' = tlcEv \cup {"nextframe"}
     \/ Unreadable(led.curr) /\ UNCHANGED <<led, tlcEv>>
  /\ UNCHANGED <<frameClock, ledFrame, tlcClock, tlc, fails, failName, panel, busy, flash, changes>>

InitStartup ==
  /\ At("start")
  /\ Setting(Startup, FALSE)
  /\ UNCHANGED <<busy, changes>>

-----------------------------------------------------------------------------
(* The UI task: led_next_frame.                                            *)

FrameClockFires ==
  /\ frameClock /\ frameClock' = FALSE
  /\ ledFrame' = TRUE
  /\ UNCHANGED <<led, tlcClock, tlcEv, tlc, fails, failName, panel, app, busy, flash, changes>>

(* The frame just played was the last one.                                 *)
Wrap == led.frame + 1 >= AnimLen[led.curr]

HandsOverAlways == Wrap
HandsOverNever == FALSE
(* An animation that is not ambient gives way to the ambient one.          *)
HandsOver == Wrap /\ ~led.currAmbient

NextFrame ==
  /\ At("run") /\ ledFrame /\ ledFrame' = FALSE
  /\ led' = [led EXCEPT !.frame = IF Wrap THEN 0 ELSE @ + 1]
  /\ app' = IF HandsOver THEN [pc |-> "handover", snap |-> led.ambient]
            ELSE [app EXCEPT !.pc = "post"]
  /\ UNCHANGED <<frameClock, tlcClock, tlcEv, tlc, fails, failName, panel, busy, flash, changes>>

HandOver ==
  /\ At("handover")
  /\ Setting(app.snap, TRUE)
  /\ UNCHANGED <<busy, changes>>

(* What the buttons and the link put on display: an animation of the flash *)
(* (SELECT, a deletion, the end of a receive), the picture of a transfer,  *)
(* and at its end what was there before.                                   *)
Change ==
  /\ At("run") /\ changes < MaxChanges /\ changes' = changes + 1

ShowStored ==
  /\ Change /\ busy' = FALSE
  /\ \E n \in Stored : Readable(n) /\ Setting(n, TRUE)

ShowPicture ==
  /\ Change /\ ~busy /\ busy' = TRUE
  /\ \E p \in Pictures :
       led' = [led EXCEPT !.idle = led.ambient, !.curr = p, !.ambient = p,
                          !.frame = 0, !.currAmbient = TRUE]
  /\ Goto("post")
  /\ UNCHANGED <<frameClock, ledFrame, tlcClock, tlcEv, tlc, fails, failName, panel, flash>>

EndPicture ==
  /\ At("run") /\ busy /\ busy' = FALSE
  /\ Setting(led.idle, TRUE)
  /\ UNCHANGED changes

(* A received animation that does not load leaves the picture.             *)
KeepPicture ==
  /\ At("run") /\ busy /\ busy' = FALSE /\ flash # "good"
  /\ UNCHANGED <<led, frameClock, ledFrame, tlcClock, tlcEv, tlc, fails, failName, panel,
                 app, flash, changes>>

-----------------------------------------------------------------------------
(* The TLC task.                                                           *)

TlcClockFires ==
  /\ tlcClock /\ tlcClock' = FALSE
  /\ tlcEv' = tlcEv \cup {"refresh"}
  /\ UNCHANGED <<led, frameClock, ledFrame, tlc, fails, failName, panel, app, busy, flash, changes>>

(* ccsi_bb_start sleeps a tick.                                            *)
TlcWakes ==
  /\ tlc.pc = "pend" /\ "refresh" \in tlcEv
  /\ tlcEv' = tlcEv \ {"refresh"}
  /\ tlc' = [tlc EXCEPT !.pc = "settle"]
  /\ UNCHANGED <<led, frameClock, ledFrame, tlcClock, fails, failName, panel, app, busy, flash,
                 changes>>

(* The buffer goes out, and the clock for the next refresh starts.         *)
Refreshed == tlc.pc = "settle" /\ tlcClock' = TRUE

TlcHolds ==
  /\ Refreshed /\ "nextframe" \notin tlcEv
  /\ tlc' = [tlc EXCEPT !.pc = "pend"]
  /\ UNCHANGED <<led, frameClock, ledFrame, tlcEv, fails, failName, panel, app, busy, flash,
                 changes>>

RestartCountAlways == fails' = 0 /\ failName' = led.curr
(* The failures counted are those of one animation.                        *)
RestartCount ==
  /\ fails' = IF led.curr = failName THEN fails ELSE 0
  /\ failName' = led.curr

(* led_load_frame of a compiled-in animation.                              *)
LoadCompiled ==
  /\ Refreshed /\ "nextframe" \in tlcEv /\ led.curr \in Compiled
  /\ tlcEv' = tlcEv \ {"nextframe"}
  /\ tlc' = [tlc EXCEPT !.pc = "pend"]
  /\ panel' = <<led.curr, led.frame>> /\ frameClock' = TRUE
  /\ RestartCount
  /\ UNCHANGED <<led, ledFrame, app, busy, flash, changes>>

(* ... and of a stored one, up to the read.                                *)
LoadStored ==
  /\ Refreshed /\ "nextframe" \in tlcEv /\ led.curr \notin Compiled
  /\ tlcEv' = tlcEv \ {"nextframe"}
  /\ tlc' = [pc |-> "read", anim |-> led.curr, frame |-> led.frame]
  /\ RestartCount
  /\ UNCHANGED <<led, frameClock, ledFrame, panel, app, busy, flash, changes>>

ReadDone == tlc.pc = "read" /\ tlc' = [tlc EXCEPT !.pc = "pend"]

FrameRead ==
  /\ ReadDone /\ Readable(tlc.anim)
  /\ panel' = <<tlc.anim, tlc.frame>> /\ frameClock' = TRUE /\ fails' = 0
  /\ UNCHANGED <<led, ledFrame, tlcClock, tlcEv, failName, app, busy, flash, changes>>

FrameUnreadOnce ==
  /\ ReadDone /\ Unreadable(tlc.anim) /\ fails + 1 < FailMax
  /\ fails' = fails + 1
  /\ UNCHANGED <<led, frameClock, ledFrame, tlcClock, tlcEv, failName, panel, app, busy, flash,
                 changes>>
(* The frame on the panel is held for another delay.                       *)
FrameUnread ==
  /\ ReadDone /\ Unreadable(tlc.anim) /\ fails + 1 < FailMax
  /\ fails' = fails + 1 /\ frameClock' = TRUE
  /\ UNCHANGED <<led, ledFrame, tlcClock, tlcEv, failName, panel, app, busy, flash, changes>>

(* The flash looks dead: the startup animation, whatever is current now.   *)
GiveUp ==
  /\ ReadDone /\ Unreadable(tlc.anim) /\ fails + 1 >= FailMax
  /\ fails' = 0
  /\ Set(Startup, TRUE) /\ tlcEv' = tlcEv \cup {"nextframe"}
  /\ UNCHANGED <<frameClock, ledFrame, tlcClock, failName, panel, app, busy, flash, changes>>

(* A flash that works may wear out.                                        *)
FlashWears ==
  /\ flash' \in (IF flash = "good" THEN {"flaky", "dead"} ELSE {"dead"} \ {flash})
  /\ UNCHANGED <<led, frameClock, ledFrame, tlcClock, tlcEv, tlc, fails, failName, panel,
                 app, busy, changes>>

-----------------------------------------------------------------------------
UiStep == InitBroken \/ InitAmbient \/ InitStartup \/ NextFrame \/ HandOver \/ PostNext
LinkStep == ShowStored \/ ShowPicture \/ EndPicture \/ KeepPicture
TlcStep == TlcWakes \/ TlcHolds \/ LoadCompiled \/ LoadStored \/ FrameRead \/ FrameUnread \/ GiveUp
ClockStep == FrameClockFires \/ TlcClockFires

DisplayNext == UiStep \/ LinkStep \/ TlcStep \/ ClockStep \/ FlashWears

(* A clock that runs expires, a task that is ready runs, a transfer ends.  *)
DisplayFairness ==
  /\ WF_dvars(FrameClockFires) /\ WF_dvars(TlcClockFires)
  /\ WF_dvars(TlcStep) /\ WF_dvars(UiStep) /\ WF_dvars(EndPicture \/ KeepPicture)

DisplaySpec == DisplayInit /\ [][DisplayNext]_dvars /\ DisplayFairness

-----------------------------------------------------------------------------
(* Every variable holds a value of its type in the program.                *)
DisplayTypeOK ==
  /\ led \in Led /\ tlcEv \subseteq {"refresh", "nextframe"}
  /\ frameClock \in BOOLEAN /\ ledFrame \in BOOLEAN /\ tlcClock \in BOOLEAN
  /\ tlc \in [pc : {"pend", "settle", "read"}, anim : Anims, frame : Nat]
  /\ fails \in 0..FailMax - 1 /\ failName \in Anims
  /\ panel \in Anims \X Nat
  /\ app \in [pc : {"init", "start", "run", "post", "handover"}, snap : Anims]
  /\ busy \in BOOLEAN /\ flash \in {"good", "flaky", "dead"} /\ changes \in 0..MaxChanges

(* The TLC task never reads a frame past the end of an animation, in       *)
(* whatever order the setters, the frame clock and the refreshes run: the  *)
(* index and the descriptor it reads belong together (led_next_frame wraps *)
(* before the gate drops).                                                 *)
OnlyRealFrames ==
  /\ panel # Dark => panel[2] < AnimLen[panel[1]]
  /\ tlc.pc = "read" /\ tlc.anim # Blank => tlc.frame < AnimLen[tlc.anim]

(* The ambient animation led_next_frame remembers across the gate is still *)
(* the ambient one when it is handed over to: nobody changes it in between *)
(* (the snapshot at led.c:255).                                            *)
HandoverFresh == At("handover") => app.snap = led.ambient

(* Past led_init, an animation played as the ambient one is the ambient    *)
(* one, so the id that SELECT and a send go by is of what is seen.         *)
AmbientIsPlayed == led.currAmbient => led.curr = led.ambient

(* The panel never freezes for good: whatever fails to load, a frame is    *)
(* drawn again (led_load_frame re-arms its clock or gives the animation    *)
(* up).                                                                    *)
FramesKeepComing == []<><<LoadCompiled \/ FrameRead>>_dvars

(* The startup animation ends and the ambient animation follows.           *)
StartupHandsOver == ~led.currAmbient ~> led.currAmbient

(* A badge whose flash is dead, or that has no animation at all, ends on a *)
(* compiled-in animation and stays there.                                  *)
Hopeless == led.curr \notin Compiled /\ (flash = "dead" \/ led.curr = Blank)
FallbackReached == <>[]~Hopeless
=============================================================================
