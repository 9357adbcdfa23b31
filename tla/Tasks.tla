-------------------------------- MODULE Tasks --------------------------------
(***************************************************************************)
(* The UI task and the IR task of one badge, each stopped where it waits.  *)
(*                                                                         *)
(* The two have one priority and no time slices, so one runs until it      *)
(* blocks, and the note in ir_init (ir.c:931) takes that for "until its    *)
(* handler returns".  But UART_write blocks (UART_MODE_BLOCKING, ir.c:918) *)
(* and so does a flash access that waits for DMA, and both are called in   *)
(* the middle of handlers.  Here a handler of Badge that changes state on  *)
(* both sides of such a call is two or three steps, and the other task may *)
(* run in between.  The rest of Badge is as in LoneBadge, which has the    *)
(* power cuts too.                                                         *)
(***************************************************************************)
EXTENDS LoneBadge

CONSTANT Presses   \* events the buttons may post to the IR task

ASSUME PressAssumption == Presses \subseteq {"SENDFILE", "GETFILE"}

VARIABLES
  ir,   \* where the IR task waits, and what it remembers
  ui    \* the same for the UI task

tvars == <<lvars, ir, ui>>

IrReady == [at |-> "ready", snap |-> ZeroAnim, next |-> NewLink]
UiReady == [at |-> "ready", name |-> NoName, back |-> FALSE]

TasksInit == LoneInit /\ ir = IrReady /\ ui = UiReady

Rest == UNCHANGED <<boot, post, cuts>>

-----------------------------------------------------------------------------
(* serial_file_start: the header is on its way while the link is still     *)
(* IDLE; the state, and the picture on display, change after it.           *)
SendHeader ==
  /\ Running /\ link.state = "IDLE" /\ "SENDFILE" \in ev
  /\ ~led.ambient.direct /\ led.ambient.name \in Name
  /\ Valid(flash.files[led.ambient.name]) /\ Can("read")
  /\ ev' = ev \ {"SENDFILE"}
  /\ LET h == [led.ambient EXCEPT !.id = 0]
     IN /\ link' = [link EXCEPT !.header = h, !.part = 0, !.resends = 0]
        /\ Say("PUTFILE", h)
  /\ ir' = [IrReady EXCEPT !.at = "sending", !.snap = led.ambient]
  /\ Rest /\ UNCHANGED <<flash, index, led, inq, ui>>

SendBegins ==
  /\ ir.at = "sending" /\ ir' = IrReady
  /\ link' = [link EXCEPT !.state = "FILE_TX"]
  /\ led' = [led EXCEPT !.idle = ir.snap, !.ambient = SendAnim]
  /\ Rest /\ UNCHANGED <<ev, flash, index, inq, outq, ui>>

-----------------------------------------------------------------------------
(* serial_rx_done of a PUTFILE: the picture goes up, then the store is     *)
(* asked.                                                                  *)
TakeOffer ==
  /\ Arrives("PUTFILE") /\ link.state = "IDLE"
  /\ Acceptable(Offer) /\ Offer.name \in Name
  /\ Take
  /\ link' = [Buffered(link, Msg) EXCEPT !.header = Offer]
  /\ led' = [led EXCEPT !.idle = led.ambient, !.ambient = RecvAnim]
  /\ ir' = [IrReady EXCEPT !.at = "offered", !.next = [link EXCEPT !.peer = Msg.from]]
  /\ Rest /\ UNCHANGED <<ev, flash, index, outq, ui>>

OfferedCopy == flash.files[link.header.name]

(* An accepted offer: what becomes of the header, the flash and the cache, *)
(* and where the frames go.  Nothing fails here but the space for ids.     *)
KeepsCopy ==
  /\ Valid(OfferedCopy) /\ (OfferedCopy.hdr.unlocked \/ ~link.header.unlocked)
  /\ link' = [link EXCEPT !.header.id = OfferedCopy.hdr.id,
                          !.header.unlocked = OfferedCopy.hdr.unlocked,
                          !.discard = TRUE, !.part = 0]
  /\ ir' = [ir EXCEPT !.at = "answering", !.next.state = "FILE_RX_DONE"]
  /\ UNCHANGED <<flash, index>>

UnlocksCopy ==
  /\ Valid(OfferedCopy) /\ ~OfferedCopy.hdr.unlocked /\ link.header.unlocked
  /\ LET h == [link.header EXCEPT !.id = OfferedCopy.hdr.id]
     IN /\ link' = [link EXCEPT !.header = h, !.discard = TRUE, !.part = 0]
        /\ flash' = PutFile(h.name, Stored(h, OfferedCopy.frames))
        /\ index' = [index EXCEPT !.cache = Cached(@, h.id, h.name)]
  /\ ir' = [ir EXCEPT !.at = "answering", !.next.state = "FILE_RX_DONE"]

StartsCopy ==
  /\ ~Valid(OfferedCopy) /\ index.nextId <= MaxId
  /\ LET h == [link.header EXCEPT !.id = index.nextId]
     IN /\ link' = [link EXCEPT !.header = h, !.discard = FALSE, !.part = 0, !.fd = h.name]
        /\ flash' = PutFile(h.name, Stored(h, << >>))
  /\ ir' = [ir EXCEPT !.at = "answering", !.next.state = "FILE_RX"]
  /\ UNCHANGED index

(* The ACK is on its way before the link leaves IDLE.                      *)
AnswerOffer ==
  /\ ir.at = "offered"
  /\ KeepsCopy \/ UnlocksCopy \/ StartsCopy
  /\ Reply("ACK")
  /\ Rest /\ UNCHANGED <<ev, led, inq, ui>>

ReceiveBegins ==
  /\ ir.at = "answering" /\ ir' = IrReady
  /\ link' = [link EXCEPT !.state = ir.next.state, !.peer = ir.next.peer]
  /\ Rest /\ UNCHANGED <<ev, flash, index, led, inq, outq, ui>>

-----------------------------------------------------------------------------
(* serial_delete_anim: the removal, then the display.                      *)
Remove ==
  /\ Arrives("DELFILE") /\ link.state = "IDLE"
  /\ Deletable(Msg) /\ flash.files[Msg.body].kind # "absent"
  /\ Take /\ link' = Buffered(link, Msg)
  /\ flash' = PutFile(Msg.body, Absent)
  /\ index' = [index EXCEPT !.cache = Uncached(@, Msg.body)]
  /\ ir' = [IrReady EXCEPT !.at = "removed", !.snap.name = Msg.body]
  /\ Rest /\ UNCHANGED <<ev, led, outq, ui>>

Leave ==
  /\ ir.at = "removed" /\ ir' = IrReady
  /\ led' \in AfterLeaving(ir.snap.name, flash.files, index)
  /\ Reply("ACK")
  /\ Rest /\ UNCHANGED <<link, ev, flash, index, inq, ui>>

-----------------------------------------------------------------------------
(* led_next_anim: the animation to show is picked, then read from flash.   *)
(* Bound: the scan of the directory, where the ids have outgrown the       *)
(* cache, is one step with the pick.                                       *)
Pick ==
  /\ Running /\ post = 0 /\ link.state = "IDLE"
  /\ \/ /\ led.chosen.id # led.ambient.id
        /\ ui' = [at |-> "picked", name |-> led.chosen.name, back |-> TRUE]
     \/ /\ led.chosen.id = led.ambient.id
        /\ ui' = [at |-> "picked", back |-> FALSE,
                  name |-> NextName(flash.files, Live(flash.files), index, led.animId)]
  /\ Rest /\ UNCHANGED <<link, ev, flash, index, led, inq, outq, ir>>

(* One step: the header is the last thing that led_set_anim waits for.     *)
(* The flash is held by the task that reads until that task runs again,    *)
(* so a removal comes before the read or after it; closing a file that was *)
(* only read does not go to the flash, and led_set_anim_direct waits for   *)
(* nothing.  What another task does in RAM meanwhile might as well have    *)
(* come before the read.                                                   *)
Show ==
  /\ ui.at = "picked" /\ ui' = UiReady
  /\ \E a \in AfterSetAnim(flash.files, ui.name, led.ambient) :
       led' = IF ui.back THEN [led EXCEPT !.ambient = a, !.animId = led.chosen.id]
              ELSE [led EXCEPT !.ambient = a, !.animId = a.id, !.chosen = a]
  /\ Rest /\ UNCHANGED <<link, ev, flash, index, inq, outq, ir>>

(* The five-minute save: the file, then the note that it is written.       *)
SaveId ==
  /\ IdUnwritten
  /\ flash' = [flash EXCEPT !.animid = <<led.chosen.id>>]
  /\ ui' = [UiReady EXCEPT !.at = "saved"]
  /\ Rest /\ UNCHANGED <<link, ev, index, led, inq, outq, ir>>

NoteSaved ==
  /\ ui.at = "saved" /\ ui' = UiReady
  /\ led' = [led EXCEPT !.written = led.chosen.id]
  /\ Rest /\ UNCHANGED <<link, ev, flash, index, inq, outq, ir>>

-----------------------------------------------------------------------------
(* The handlers that change state on one side of their waits only.         *)
IrWhole ==
  /\ \/ StartSendDeclined \/ StartGet \/ TimeOut
     \/ RxIgnored \/ RxRejected \/ RxNoise \/ RxGetFile \/ RxHelo \/ RxDeleteRefused \/ RxPutRefused
     \/ RxFrame \/ RxLastFrame \/ RxAck \/ RxAckLast \/ RxNackResends \/ RxNackGivesUp
  /\ UNCHANGED <<cuts, ir, ui>>

IrTurn == ir.at = "ready" /\ (SendHeader \/ TakeOffer \/ Remove \/ IrWhole)
IrResumes == SendBegins \/ AnswerOffer \/ ReceiveBegins \/ Leave
UiTurn ==
  /\ ui.at = "ready"
  /\ \/ Pick \/ SaveId
     \/ ((\E e \in Presses : Press(e)) \/ FallBack) /\ UNCHANGED <<cuts, ir, ui>>
UiResumes == Show \/ NoteSaved

(* Bound: as in LoneBadge, the peers send to a badge that waits for them   *)
(* and hear what it says before it goes on.  Bound: a message takes longer *)
(* on the air than a flash access of the UI task.                          *)
PeersTurn ==
  /\ PeerSends /\ inq = << >> /\ outq = << >>
  /\ ir.at = "ready" /\ ui.at = "ready"

TasksNext ==
  \/ IrTurn /\ outq = << >>
  \/ IrResumes /\ outq = << >>
  \/ UiTurn
  \/ UiResumes
  \/ (Boot \/ PeersTurn \/ PeerHears) /\ UNCHANGED <<ir, ui>> /\ cuts' = cuts

TasksSpec == TasksInit /\ [][TasksNext]_tvars

-----------------------------------------------------------------------------
(* ShownIsStored, but for the moment between the removal of an animation   *)
(* and the change of the display (serial_delete_anim).                     *)
ShownStaysStored == ir.at # "removed" => ShownIsStored

(* ChosenIsStored, likewise.                                               *)
ChosenStaysStored == ir.at # "removed" => ChosenIsStored

(* SELECT picks the next animation the owner has unlocked, in the order of *)
(* the ids and round again from the lowest, whatever the link has half     *)
(* done; it picks none or the same one only when there is no other.        *)
PickFindsNext ==
  [][Pick /\ ~ui'.back =>
       LET others == {n \in Live(flash.files) :
                        flash.files[n].hdr.unlocked /\ flash.files[n].hdr.id # led.animId}
           Away(n) == (flash.files[n].hdr.id - led.animId) % (MaxId + 1)
       IN others # {} => ui'.name \in others /\ \A n \in others : Away(ui'.name) <= Away(n)]_tvars
=============================================================================
