# badge.lgbt in TLA+

A badge shows animations on a small LED matrix, keeps them on an SPI flash and trades
them over infrared with other badges and with a host tool behind a USB dongle. These
modules model the badge firmware (`src/ccs_workspace/badge.lgbt`), the loader that seeds
its flash (`badge.lgbt-animloader`) and the host tool with its dongle
(`src/scripts/controller.py`, `badge.lgbt-dongle`). TLC checks them on small instances,
TLAPS proves the main properties for every value of the constants. In what follows `ir.c`,
`storage.c`, `led.c` and `tlc6983.c` are in `badge_drivers/`, `main.c` is `Startup/main.c`.

## 1. The system

| part | state | operations | talks to |
|---|---|---|---|
| IR link (`ir.c`) | link state (IDLE, FILE_TX, FILE_RX, FILE_RX_DONE), peer id, frame count, header of the transfer, discard flag, resend count, open descriptor, payload buffer, two deadlines | receive PUTFILE, APPFILE, ACK, NACK, GETFILE, DELFILE, HELO; start a send or a request; timeout | store (calls), display (calls), UI (events in), other stations (messages) |
| store (`storage.c`) | files of `/a/`, `/.animid`, next id, cache from id to name | mount, format and scan at boot; validate, load, save, delete; choose the next animation | SPIFFS |
| display (`led.c`) | current, ambient, idle and last chosen animation, frame index, count of failed reads | set an animation, next frame, next animation, load a frame, fall back when frames do not load | store, LED driver |
| UI and boot (`main.c`) | pending events, last id written, debounce history | boot order; SELECT, EXPORT, IMPORT; save the chosen id every five minutes | display, link (events) |
| LED driver (`tlc6983.c`) | frame buffer, refresh clock, level of SIMO and SCLK | refresh; bit-bang commands to the LED driver chip | display |
| animation loader | a flash being seeded, generation mark, pass and position | check, format, write, read back, mark done | SPIFFS |
| dongle | none | forward bytes between USB and IR | host tool, badge |
| host tool | one command at a time | putfile, getfile, delete, info | badge |
| light sensor, vendor code (`Stack/`, `ble/`, board files), SPIFFS, TI-RTOS | | | |

The UI task and the IR task share a priority and are not time-sliced: one runs until it
blocks. The LED driver's task preempts both, except while `Task_disable` is held.

What is hard about it:

* **Failures in the middle.** Flash reads, opens, writes and removals can fail, and few
  of their results are looked at alike: a failed frame write is ignored, a failed read
  during validation counts as "no such animation", a mark that did not land is not noticed.
* **Power.** There is a switch and a battery. A receive, the writes of `led_init`, the
  save of `/.animid` and the seeding are all several writes; the index in RAM is rebuilt
  from the files.
* **Copies.** Headers are copied into `led_anim_ambient`, `led_anim_idle`,
  `led_anim_last_chosen` and `serial_file_header`, names into the cache. Deleting,
  receiving and unlocking each have to keep these in step with the files.
* **Tasks.** `UART_write` and flash accesses block in the middle of handlers, so UI and IR
  task do interleave; the LED task comes in wherever no gate is held.
* **The air.** Messages are lost or garbled, sync words turn up in payloads, other badges
  talk at the same time. A transaction has one peer, frames have no sequence number,
  an ACK does not say what it acknowledges.
* **Time.** A frame timeout, refreshed by traffic, inside a fixed limit for the whole
  transaction, on a tick counter that wraps; two one-shot clocks that drive the display
  and have to be re-armed on every path.

What makes each part correct:

* link: no descriptor, peer or resend count survives a transaction; a stranger cannot
  move it; it ends; the display comes back however it ends; the file of a receive has
  exactly the acknowledged frames.
* store: ids are distinct and below the next id; the cache names exactly the unlocked
  animations; what is collected stays, and stays unlocked, until the controller deletes
  it; the firmware's animations are always there.
* display: what is shown, put back, or saved as chosen is on flash under that id; SELECT
  goes to the next unlocked animation in cyclic order; only frames that exist are read;
  the panel never freezes for good.
* buttons: one event for a click, none for a bounce. LED driver: the chip sees the
  commands that were sent.
* loader: a badge is seeded once, completely, and left alone afterwards.
* host tool: a deletion it reports is so, and so is an upload or a download while no header
  has arrived garbled; then at least an upload's frames are in order; every command ends.
* transfer between badges: every frame in its place while no header has arrived garbled, and
  otherwise none before an earlier one; it ends at both badges.

## 2. Modules

| module | what it is |
|---|---|
| `AnimStore` | operators of `storage.c` over the files: validity, scan, cache, next animation. No state. |
| `Badge` | the state machine of one badge, one action per handler branch that changes state differently |
| `LoneBadge` | `Badge` among stations that may send any message of `PeerMessages` at any time, with its specification and its properties |
| `AnimLibrary` | what a badge promises its owner, in four actions; `LoneBadge` is shown to implement it |
| `Tasks` | `LoneBadge` with the handlers of the UI and the IR task cut where they wait |
| `TwoBadges` | two instances of `Badge`, what one says being what the other hears, with losses, power cuts and the fairness of the tasks |
| `HostSession` | `Badge` with the host tool at the other end of the air, through the dongle |
| `LinkTimer` | the two deadlines of `serial_task_fn` on a tick counter that wraps; a turn of its loop refreshes, starts or ends a transaction or does nothing to it |
| `Display` | the LED task, the frame clock and the setters of `led.c` over a flash whose reads fail |
| `PanelWire` | the bit-banged commands to the LED driver chip, edge by edge, and the chip's receiver |
| `Buttons` | the debounce of the three buttons, beside an onlooker who follows each by itself |
| `AnimLoader` | the seeding of the flash, over `AnimStore` |
| `MC*.tla`, `*.cfg` | small instances |
| `Claims` (over `MCLoneBadge`), `Claim*.cfg` | sentences of the repository that the code does not keep; `ClaimNacked.cfg` is over `MCHostSession` |
| `*Proofs` | theorems about the module of that name; `BadgeProofs` and `LibraryProofs` are about `LoneBadge`, `HostProofs` about `HostSession`, `UiProofs` about `Display`, `PanelWire` and `Buttons`, `LoaderTimerProofs` about `LinkTimer` and `AnimLoader`, `TradeProofs` about one badge of a trade and `PairProofs` about `TwoBadges`; `BadgeProofs` and `LoaderTimerProofs` have the lemmas about `AnimStore` they need |

### How state and actions correspond to the code

**Badge.** `link` holds the `serial_*` variables of `ir.c`, field by field; `fd` is the name of
the file behind `serial_fd` or `NoName`, `payload` what `serial_file_payload` holds. `flash`
is the content of `/a/` and `/.animid`. `index` is `storage_anim_id_cache` and
`storage_next_anim_id`, `led` the `led_anim_*` descriptors with `led_anim_id` and
`led_anim_last_id_written`, `ev` the pending events of `ir_event_h`, `post` is
`post_errors`, `boot` counts the steps of `storage_init` and `led_init`.

A frame is named by its animation and position. `Torn` stands for a frame of which only a
part reached flash, `Junk` for buffer content that is no frame of an animation. A file is
absent, a stub too short for a header, or a header and frames. Validity is the code's size
test.

A message in `inq` is what follows a sync word on the air. `Noise` is a sync word without
a header behind it. A refused header (`RxRejected`, `RxGarbledHeader`) leaves its payload
in the stream, and up to `Residue` noise words come out of that payload. Checksums are not
computed: `LinkFaults` says whether the air may lose a message, break its header or break
its payload, and the code's reaction to each is an action.

Every flash call asks `Outcomes(kind)`: without a mounted filesystem it fails, otherwise
it succeeds, or fails as well if `IoFaults` has its kind. One handler is one action family,
for instance a PUTFILE in IDLE is one of

| action | `ir.c` |
|---|---|
| `RxPutRefused` | no terminator, bad length or delay: silently ignored (476-499) |
| `RxPutUnreadable` | valid by size, header does not load: NACK (514-522) |
| `RxPutDiscarded` | nothing to store: ACK, frames are received and thrown away (526-567) |
| `RxPutUnlocks` | header rewritten, or the rewrite failed (548-618) |
| `RxPutNew` | file truncated and header written; or the open or the write failed (568-651) |

The loops of `storage.c` (scan at boot, search of the cache, search of the directory) are
modelled by what they compute. The cyclic scan of `storage_get_next_anim_name` is
`NextName`: the lowest id above the current one, otherwise the lowest.

`PowerCut` clears RAM and may leave the file being written torn: a stub where
`led_init` was saving or a PUTFILE was being answered, an empty `/.animid`.

**Tasks.** `ir` and `ui` say where each task waits and what it has in local variables. A
handler that changes state before and after a blocking call is cut there: a send between
the PUTFILE on the wire and the change of the link state, an offer before the look at the
flash and again between its ACK and the change of the state, a deletion between the removal
and the change of the display, SELECT between the choice of a name and its load, the save of
`/.animid` between the write and the note. `Show`, the load with the change of the display behind
it, is one step: the header is the last thing `led_set_anim` waits for (`led.c:230`), the
flash stays with the task that reads until that task runs again, so a removal comes before the
read or after it, closing a file that was only read does not go to the flash, and
`led_set_anim_direct` waits for nothing. What another task does in RAM meanwhile
might as well have come before the read. The other handlers change state on one side
of their waits only and stay one step (`IrWhole`); so do the buttons that address
the IR task and the fallback of the display (`FallBack`) on the side of the UI.

**Display.** `app` is the program counter of the UI and the IR task, which never run at
once; a setter's writes under the gate are one step and the post after it another. `tlc` is
where the LED task is: in `Event_pend`, in the `Task_sleep` of `ccsi_bb_start`, or in a
flash read with the snapshot it took. `flash` says what becomes of reads: they succeed, may
fail, or all fail. What buttons and link put on display is taken from `Badge` as three
actions (a stored animation, a picture, what was there before).

**PanelWire.** `tx` is where the badge is in a command, `chip` the receiver as the code's
comments take it to be. Every edge of SCLK is a step and a sample.

**Buttons.** One step is one run of `button_clock_swi`; `phase`, `owed` and `alone` belong to
the onlooker and not to the code.

**AnimLoader.** `pc` follows `ui_task_fn` of the loader; `Save` is a whole
`storage_save_direct_anim`, whose remains after a failure or a cut are `Spoilt`. `Use` is
what a badge does with the store between two runs of the loader.

**HostSession.** `host` is the running command: what it waits for, the animation, the frame,
the attempt and what getfile has received. The badge's `inq` is what the tool says. A
message the tool hears is whole, garbled in its header or in its payload, cut short or not
noticed. Behind a garbled header the payload stays in the stream (`controller.py:101-118`): the
tool finds up to `Residue` sync bytes in it, and each starts a header that is refused in turn
(`HearGarbledHeader`, `HearNoise`), with a NACK of its own where the command retries. The
dongle's two interrupt handlers pass bytes on in order (`Relayed`).

`misheard` of **HostSession** and **TwoBadges** is a history variable, which no action reads: a
header has arrived garbled, at either end. The code does not keep frames in step after that
(section 3, *Garbled headers*), and the properties that need it say so.

## 3. Runs

Safety runs of one badge assume no fairness: a badge may stop at any moment. Deadlock
checking is off where the system really may stop: a badge with no messages, no power cuts
left and nothing pending. It is on in `display`, `panel`, `buttons` and `loader`. Each
run has its own set of faults; the full product of faults is far beyond TLC, and a property
that the code keeps only without some fault says so in the last column.

| run | instance | shows | faults left out, and why |
|---|---|---|---|
| `lone_air` | 1 traded animation of 2 frames and the 4 of the firmware; all messages a receiver tells apart, from two peers and the controller; loss, garbling, one residual sync word; a flash that may not mount; one cut (826 000 states) | `TypeOK`, `LinkConsistent`, `CacheExact`, `SystemAnimsPresent`, `StrangersDoNotDisturb`, `DisplayComesBack` | reads and header writes that fail make the cache inexact until the next boot (`ir.c:678`, `ir.c:553`); the proofs of `TypeOK` and `LinkConsistent` cover all faults |
| `lone_flash` | 1 traded animation on a full store; header and frame writes and removals that fail; one cut (1.8 million states) | `InFlightFile`, `DistinctIds`, `LibraryKept` | failing reads: the code then truncates an animation it holds (`claim_collected`) |
| `tasks` | 3 traded animations and 2 of the firmware, 1 frame each, ids 0..4, a cache of 4 slots, so that the fifth id makes SELECT search the directory; offers of one animation, deletions of two and of a picture, frames, sends, SELECT, the save of the chosen id and the fallback of the display (1.6 million states) | `ShownStaysStored`, `ChosenStaysStored`, `PickFindsNext` | flash failures and power cuts, which are `LoneBadge`'s subject |
| `pair_faults` | two badges, each with an animation to give, one of three frames; two resends of a frame; one mishap: a message lost, garbled in its header with one sync word left in its payload, or garbled in its payload, or a power cut at either end (78 000 states) | `FilesIntact` and `AcknowledgedIsHeld` (while no header is garbled), `FramesInOrder`, `TransfersEnd`, `SendsArrive` | flash failures; a second mishap, see below |
| `host` | one animation of 2 frames that the badge may hold locked; three events out of commands, messages lost, garbled or cut short, presses and a neighbour's offer; one sync byte left behind a garbled header at either end, three attempts and two resends; reads, opens and formats that fail (332 000 states) | `DeletedIsGone`, `SentIsStored` and `SavedIsWhole` (while no header is garbled), `SentInOrder`, `CommandsEnd`, `FailureCleansUp` | failing writes, which the badge acknowledges too late or never (`lone_flash`); power cuts |
| `link_timer` | 16 ticks, timeout 2, limit 4, turns of up to 2 | `LimitKept`, `SilenceEnds`, `NeverCutShort` | |
| `display` | stored animations of 2 and of 1 frame, a startup animation of 2, one picture; three failures to give up; two changes; flash good, flaky or dead (346 000 states) | `OnlyRealFrames`, `HandoverFresh`, `FramesKeepComing`, `StartupHandsOver`, `FallbackReached` | |
| `panel` | all commands of 1 to 3 words of 3 bits | `FramesKeepBounds`, `CommandsArrive` | edges the chip misses |
| `buttons` | 3 buttons | `EventsAreClicks`, `LoneClicksCount` | |
| `loader` | 3 preloaded animations, one of 2 frames, and one received later; 2 passes; 3 failing operations, 2 cuts, 2 changes in use | `LoaderIds`, `StopsSeeded`, `MarksCompleteStore`, `LeavesUsedStore`, `SeededInTheEnd` | |

### Bounds

`MaxId` bounds the ids handed out: the actions that use one up need `nextId <= MaxId`.
With `MaxId` at or above the cache size both branches of
`storage_get_next_anim_name` are reached. `MaxCuts` bounds power cuts; one is enough for
every pair (interrupted step, boot that follows). `MaxResends` is 1 for a
badge alone, so that the cap is hit after one resend, and 2 in `pair_faults` and `host`, so that
a frame may be sent again for each of the two NACKs that one garbled header draws; the code's
cap is 8 (`ir.h:40`). `Residue` is the number of sync words in a payload that is left in the
stream: 1 wherever headers are garbled, so that one mishap draws more NACKs than one.
A file takes one torn part (`RxFrameUnwritten`): a second changes nothing that a size test
sees. In `LoneBadge` at most one message is on its way to the badge and one on its way
from it, and an answer is heard before anything else happens. The environment may send any
message in any state, so a message that waits longer is the same message sent later. Two
frames make the difference between the first, the last and an only frame.

In `Tasks` peers send when both tasks are in their loops: a message takes 10 ms at least on
the air, a flash access of the UI task less. Two tasks and handlers cut in at most three
parts make every order of two handlers; a third animation makes a deletion, a choice
and a third way out possible at once.

In `TwoBadges` a transfer or a request starts, and a deadline passes, only when nothing is
on the air: the longest message takes 0.18 s at 19200 baud, the shortest deadline is half a
second. The far badge boots after the near one and buttons are pressed when both are up;
`MaxMishaps` counts mishaps of both ends together: one in the run, any number in the
theorems. Three frames are the fewest with which a frame is stored twice and the file goes on. `SendsArrive` speaks of sends that reached an idle badge
and of behaviours without a mishap.

In `HostSession` only one badge hears the dongle. The tool's timeout of a second
(`controller.py:371`) is longer than a message and the badge's answer to it, so silence is
noticed when nothing is on the air; so are the badge's deadlines, for the reason above. `FrameAttempts` is 3 (8 in the
code): enough for two NACKs and a success. Neighbours speak
between two commands only: the tool's `await_ack` takes an answer from anybody, and a
stray one in the middle of a command does make it report what is not so. `MaxEvents` is 3,
which is a command with two mishaps or two commands with one in between.

`LinkTimer` needs no bound on its clock, which wraps: the instance runs through every
alignment of a transaction with the wrap and through idle times of more than half the
range, after which an old deadline looks like one to come. `age` and `silence` measure real
time and are bounded by the properties themselves. A tick is any unit of time; `MaxTurn` is
the longest turn of the loop (three reads of up to half a second each, an answer, a flash
write). In the code `Half` is 2^31 ticks of 10 us, `Timeout` 50000 and `Limit` 12000000, so
`TickAssumption` holds by a wide margin. `SilenceEnds` excepts a timeout that falls on tick
0, which the code reads as "no timeout": the transaction limit then has to do.

In `Display` three failures stand for eight (`LED_LOAD_FRAME_FAIL_MAX`): less than the limit,
at it, and starting over are all reached. `MaxChanges` bounds changes of the animation, of
which two are needed to come back to one whose failures were counted before. In
`PanelWire` 3 bits stand for 16 and 5 edges for 18; the proofs are for every width. In
`AnimLoader` the list is short, and the places that matter are there: unlocked for
everyone, for this badge, for nobody.

### Garbled headers

A header that arrives garbled is refused with its payload unread, at the badge (`ir.c:859-862`)
and at the tool (`controller.py:101-118`). The payload of a frame is 315 bytes, any of which may
be a sync byte; each one starts another header, which is refused with another NACK. The sender
repeats the frame for every NACK (`ir.c:734-752`, `controller.py:292-300`), frames carry no
number, and the receiver stores the frame every time: a single garbled header is enough for a
file, or a download, that has a frame twice and its last one not at all, reported as a success.
The code does this, so `FilesIntact`, `AcknowledgedIsHeld`, `SentIsStored` and `SavedIsWhole` are
stated for as long as `misheard` is false. Without that condition TLC refutes `FilesIntact`,
`SentIsStored` and `SavedIsWhole` on the instances of `pair_faults` and `host`, each with one
garbled header and one sync byte behind it or two garbled headers, and `AcknowledgedIsHeld` on
that of `pair_faults` with a second mishap.
Lost messages, garbled payloads, messages cut short and, between badges, power cuts are not
excepted, nor are they bounded in the theorems. What is true also after a garbled header is stated without the
condition: `FramesInOrder` and `SentInOrder` (a file begins with the first frame and has
frames of its own animation only, none before an earlier one), `DeletedIsGone`,
`TransfersEnd`, `CommandsEnd` and `FailureCleansUp`. There is no such property of a download: a failed read
may leave part of a frame in `serial_file_payload`, and a NACK drawn by noise makes the badge send
that, under a checksum that is right.

### Fairness

`PairSpec`: weak fairness of booting, of reading a message that has arrived
and of the air passing over a badge that is off: `serial_task_fn` loops for ever and
`UART_read` returns as soon as a message is there. Strong fairness of the timeouts:
`UART_read` also returns when nothing came, and the loop looks at the deadlines on every
turn, so a badge that is again and again in a transaction at a quiet moment gives up at one of
them. A refused message that refreshes the frame timeout cannot put this off for ever,
because the transaction limit (`IR_TRANSACTION_LIMIT_MS`) is not refreshed: that is
`LimitKept` of `LinkTimer`, where refreshing is always possible. Nothing is
assumed of starts, buttons or mishaps.

`HostSpec`: the same of the badge, and weak fairness of the tool, whose reads of the port
return with a message or without.

`DisplaySpec`: weak fairness of the two clocks (a clock that was started expires), of the
LED task (it has the highest priority), of the UI task's frame events, and of the end of a
transfer, which is `TransfersEnd` seen from the display. Nothing is assumed of the buttons or of
the flash: a flaky one may fail every read.

`LoaderSpec`: weak fairness of the loader's steps, and of power being cycled while the mark
is not there: whoever seeds badges starts a badge again until it is done. Failures are
bounded by `MaxFaults`, so they stop; without that no seeding would succeed.

### Findings

The `claim_*` runs are each refuted by TLC in a few steps; the findings in `PROJECT.json`
quote the sentence and the lines that contradict it.

1. `claim_collected`: *animations you collect stay on the badge* (`README.md:5` of the
   repository). One failed read while a peer offers an animation the badge already has
   makes the badge truncate its copy.
2. `claim_nacked`: *the peer couldn't use what we just sent* (`ir.c:726`). The tool's ACK
   arrives garbled, the badge NACKs it, the NACK arrives garbled, the tool NACKs that, and
   the badge resends a frame the tool has already taken. Frames carry no number, so
   getfile saves the frame twice, counts to the end one frame early and reports success.
   A sync byte in the payload behind one garbled header does the same by itself.

Seen while modelling, and listed as hazards without a run of their own:

* *A freed id is never handed out again* (`storage.c:201`). It is, after a reboot, when the
  deleted animation had the highest id: `storage_init` recomputes the next id from the files
  that are left.
* *The badge NACKs a frame it couldn't store or whose CRC didn't check out, and resending
  usually works* (`controller.py:50`). It NACKs more than that, and a resend then makes it store
  a frame twice: see *Garbled headers*.
* *We'll just let the timeout do the needed cleanup* (`ir.c:699`). Only if the peer falls
  silent. If it repeats the frame, the transfer completes on a file that is not valid. Nor
  does the badge NACK such a frame, as `controller.py:50` says: it does not answer.
* *`serial_file_payload` still holds the last frame we sent* (`ir.c:749`). Not after any
  message with a payload arrived, even one that is ignored.
* The save of `/.animid` reads `led_anim_last_chosen` twice (`main.c:147-148`). The IR task
  may change it in between; the new id is then noted as written but was not.
  The note at `ir.c:931` excludes this only for handlers that do not block.
* A single failed read makes the loader wipe a badge that is in use (`main.c:72`), which is
  why `LeavesUsedStore` is about runs without a failure.
* A button let go in the samples in which another one moves may give no event.

## 4. Proofs

All theorems hold for all constants that satisfy the named assumptions of their modules.

**BadgeProofs** (any number of names, stations, frames and ids, any seed, any set of
faults, any number of power cuts): `TypesHold` (`Spec => []TypeOK`), `LinkStaysConsistent`
(`Spec => []LinkConsistent`), `ReceiveOnFlash` (`Spec => []InFlightFile`). The invariant is
`IInv == TypeOK /\ LinkConsistent /\ InFlightFile`. None of the three stands alone. A frame
is appended to `flash.files[link.fd]`, which has a type only if `fd` is a name during a
receive (`LinkConsistent`). A completed receive moves `nextId` on, which stays in range only
because the receive took an id that is in range (`InFlightFile`). And `InFlightFile` needs
the link to name the file of its own header. `TypeStep`, `LinkStep` and `FlightStep` prove
one conjunct each, action by action, and `Invariance` puts them together. The assumptions:
names are finitely many and differ from the two special values; animation lengths are
between 1 and the limit; the seed has distinct names and ids; everybody who offers an
animation of one name offers the same length (`PeerAssumption`: names are meant to be
globally unique, `controller.py:383`).

**LibraryProofs** (the same constants) is about what the badge holds and shows. Three
hypotheses on the faults occur in its theorems, each only where it is needed:

| hypothesis | says | theorems under it |
|---|---|---|
| none | anything may fail | `StrangersLeaveAlone` (`StrangersDoNotDisturb`) |
| `ReadsWork` | no stat, open or read fails by itself | `DisplayReturns` (`DisplayComesBack`), `IdsStayDistinct` (`[]DistinctIds`) |
| `ReadsWork`, `NeverFormats` | moreover no mount formats | `LibraryIsKept` (`LibraryKept`) |
| `WritesWork` | only mounts fail, formats happen, and removals fail | `CacheStaysExact` (`[]CacheExact`), `FirmwareAnimsPresent` (`[]SystemAnimsPresent`) |

A flash that never mounts, a power cut in any step and any behaviour of the stations are
allowed under all of them. They are needed, and TLC shows it: on the instance of
`LoneFlash.cfg` with one fault added, a failed read refutes `DistinctIds`, `LibraryKept`
and `DisplayComesBack` (it makes the firmware take an animation for missing and truncate
it, finding 1), a format refutes `LibraryKept`, and a failed header write, frame write
or open refutes `CacheExact` (the name enters the cache before the file is opened, or
stays after it was truncated).

The strengthening is `StoreInv`, which holds without any hypothesis
(`Spec => [](IInv /\ StoreInv)`). `AirInv`: the input holds nothing but messages of stations
and noise, so that an offer has the length of its animation (`OfferLength`) and a frame that
arrives is whole. `FilesSound`: a file belongs to the name in its header and announces that
animation's length; where frame writes work it holds whole frames only, no more than it
announces. Without it an unlock, which rewrites the header in front of frames that are there
already, could make an animation out of a file that was none, and a last frame one out of
a file of another length. `PostInv`: seeding and receiving need a flash that mounted.
`DiscardInv`: frames are discarded only for an animation that is there.

The proofs then go by what a step does, not by which of the thirty actions it is.
`AnimSteps`: every step mounts, or is cut short, or leaves all animations (`Keeps`), or
brings one under the next id (`Collects`), or unlocks one under its id (`Unlocks`), or
removes the one the controller named, which is none of the firmware's (`Removes`).
`IdsStep`, `LibraryStep`, `CacheStep` and `SeededStep` have one case for each, and a mount is
the scan of the files (`ScanExact` for the cache). The step of the refinement maps
`Collects`, `Unlocks` and `Removes` to the actions of `AnimLibrary` of the same meaning and all
else to a stutter. `CacheExact` rests on `DistinctIds`: a slot has room for one name.
`StateSteps` is the same idea for the link: a step leaves its state, starts a transaction or
ends one, which is all that `DisplayReturns` asks.

**TasksProofs** (the constants of `LoneBadge` and any set of presses) is about the same badge
when the UI task and the IR task run in each other's waits: `ShownStays`
(`[]ShownStaysStored`), `ChosenStays` (`[]ChosenStaysStored`), `PicksAreNext`
(`PickFindsNext`). The hypothesis is `FlashWorks`: no call fails but a removal, and a mount may
format. `Tasks` has no step for a handler that is cut and fails, so with more faults the
theorems would speak of behaviours the model leaves out; with failing reads they would be
wrong for the reason of finding 1.

`TasksInv` has eight parts. `DisplayInv` is the property for all four descriptors at once: the
animation on display, the last chosen, the one a transfer puts back and the one a send has
taken down are compiled in or on flash under their ids (`Shows`). Only between the
removal of an animation and the change of the display may the first two name the one that
is gone (`Gone`). It is not inductive alone, because SELECT first picks a name and then
loads it, and a deletion may come in between. `PickedInv` says what saves it: either
the picked name is an animation, or its file is absent and nothing that waits or is half
done could create it anew, so that the load fails and leaves the display alone. Were a
truncated file there instead, its header would load and be shown. For that `RemovedInv` says
what a deletion leaves, `OfferInv` and `AnswerInv` what the receive that is being set up
has, and `PhaseInv` that a task waits only in the middle of a handler. `BadgeInv` is what
`BadgeProofs` and `LibraryProofs` show of a badge with uncut handlers, except that
`LinkConsistent` pauses while a receive is set up: its descriptor is open and the state is
still IDLE. Whole handlers are steps of `LoneBadge`, so `StepKeeps` takes `BadgeInv` from
the step lemmas of those modules; each part of a cut handler has a lemma of its own.

`PicksAreNext` needs no more than `CacheExact` and `DistinctIds` in every state in which SELECT
can pick: then the cache and the directory lead to the same animation
(`NextNameIsOther`), and the least id above the current one, or the least of all, is the
nearest going up and round (`NextIsNearest`).

**LoaderTimerProofs** is two proofs. *LinkTimer* (every width of the counter, all limits within `TickAssumption`):
`TransactionsAreLimited` (`[]LimitKept`), `SilenceIsNoticed` (`[]SilenceEnds`),
`NothingIsCutShort` (`NeverCutShort`). The invariant `TimerInv` says where on the wrapping
counter each deadline lies, given how long ago it was set (`SetAgo`), and that neither is
over by more than the time spent since the loop last looked. The second half keeps every
distance below half the range, where the signed comparison of `serial_deadline_passed` is
right (`PassedWhenSpent`); without it the first half would not survive a wrap.
*AnimLoader* (any list, any bounds): `LoaderTyped` (`[]LoaderTypeOK`), `IdsStayApart` (`[]LoaderIds`), `CleanRunsSeed`
(`[]StopsSeeded`), `MarkedStoresAreComplete` (`MarksCompleteStore`), `UsedStoresAreLeft`
(`LeavesUsedStore`). `LoaderInv` adds that during a pass the flash holds nothing but what
the pass has written, place by place (`PassFiles`), and that a store about to be marked is
complete (`MarkInv`); `UsedInv` that, while nothing has failed, a reformat is only due
where an animation is missing.

**HostProofs** (any animations, any number of attempts, commands, mishaps and sync bytes in a
payload, every fault of the flash and of the air): `DeletionsAreReal` (`DeletedIsGone`),
`UploadsAreReal` (`SentIsStored`), `DownloadsAreWhole` (`SavedIsWhole`). The first has no
hypothesis. The other two have one, `NeighboursOffer`: neighbours send no frames, for a neighbour
can complete an animation whose frames only it knows. Noise is not excluded: a badge whose state
or peer makes it refuse a message with a whole header leaves the payload in the stream
(`RxRejected`), and that happens without anything being garbled.

`BaseInv` holds whatever happens, also after a garbled header: types, the agreement of link and
files (the step lemmas of `BadgeProofs`), what a command is about, and `DeleteInv`, which
`DeletionsAreReal` rests on: from the DELFILE on, either it is on its way and nothing else is,
or it has been heard, and then only noise can follow it and an ACK means that the file is gone.
`HostInv` is what holds until a header is garbled, and relates three places.
`TakesTurns`: at most one message is on the way, so an answer belongs to the last thing said.
`AskInv` says what the tool says while it waits for what, `SendInv` what a sending badge says.
`UploadInv` is the agreement of the two counts of an upload: while something is under way the
badge has taken every frame before the one that is on its way or was refused, and that one too
when it is being acknowledged. It is silent when nothing is under way, because then the tool
gives up. `PullInv` is the agreement of a download: the tool has taken the frames before the one
on its way, and that one too when it acknowledges it. Once a header is garbled that is lost, as
a NACK may then answer an ACK. `Intact`, `ShortInv` and `BootInv` carry an animation's frames
through a receive, the unlocking of a copy and `led_init`. The one way out of `HostInv` while
nothing is garbled is `Refusal`: the badge has refused a neighbour's or the tool's message and
takes bytes of it for headers. Then only noise and NACKs are on the air, and the command under
way, if there is one, fails. `InStep`, the invariant, is `misheard \/ HostInv \/ Refusal`.
`ReadStep`, `ToolStep` and the lemmas under them prove it action by action; the environment of
`LoneBadge` plays no part.

**TradeProofs** and **PairProofs** (any animations, stations and ids, any number of mishaps, and
`PairAssumption`: the other badge is seeded as `SeedAssumption` says of this one) are about two
badges: `FilesStayIntact` (`[]FilesIntact`), `AcknowledgedStays` (`AcknowledgedIsHeld`).

| hypothesis | theorems under it | without it, as TLC shows on small instances |
|---|---|---|
| no read fails, no mount formats | `AcknowledgedStays` | a receiver that loses power and is up again before the sender reads the last ACK may have formatted its flash, or taken an animation of the firmware that it was given unlocked for missing and written it anew, locked |

Messages and whole transfers may be lost, payloads garbled, power cut at either end, and writes,
opens and removals fail, any number of times. A badge appears as an instance of `TradeProofs`,
once with the queues as they are (`NearP`) and once with the two exchanged (`FarP`), so what is
shown of one badge holds of both. `TradeProofs` takes a step of one badge while the link and
the files of the other stand still, and `NearSteps` and `FarSteps` say that the actions of
`TwoBadges` are such steps. The invariant `PairInv` has a part for each badge, `Half`, and one for
what is between them. `Half`: the invariants of the earlier modules; `Intact`; a badge that
sends has what it sends; a badge that receives has stored the frames before the next one as they
should be, which holds only of a file without a torn part (`TakesInOrder`). Between them,
`OneOnAir`: the badges take turns, so at most one message is on its way. And `Agree`: seen from
the sender, an offer is for what it sends, a frame on its way is the one the receiver waits for,
and an ACK or NACK answers the frame sent last. Nothing is claimed when the air is empty or a
badge is idle, so a loss or a power cut leaves `Agree` true at once. It is the agreement of two
counters that never travel with the frames. A garbled header breaks it, as the NACK it draws may
answer an ACK; both properties are about the time before the first one, and the invariant is
`~misheard => PairInv`. `PledgeInv` adds what `AcknowledgedIsHeld` needs, in both directions
(`Promise`): from the moment the receiver is past the offer, it either takes the animation as
announced or owns it already (`Owns`), and an ACK of the last frame on its way means that it
owns it. Power cuts and boots keep what is owned (`OwnsKept`).

**UiProofs** is three small proofs. *Display* (any animations of any lengths, any limit of
failures, any number of
changes): `DisplayTyped` (`[]DisplayTypeOK`), `FramesAreReal` (`[]OnlyRealFrames`),
`AmbientStaysPlayed` (`[]AmbientIsPlayed`), `HandoverIsFresh` (`[]HandoverFresh`).
`FramesInv` adds to `OnlyRealFrames` that the index fits the animation that is current,
which is what the LED task copies. `HandoverInv` adds that a hand-over only happens while the
startup animation plays, and `FewFailures` that up to its end too few reads have failed
for the LED task to give an animation up, the one step that could change the ambient
animation under the snapshot. This needs a limit of at least two failures.
*PanelWire* (every word width, every set of commands): `FramesBounded`
(`[]FramesKeepBounds`), `CommandsIntact` (`CommandsArrive`). `WireInv` says how the
chip's counts and shift register follow the badge's position in a unit (`UnitInv`) and in an
end (`StopInv`). Its heart is that a run of HIGH reaches back over the start of a unit by
one edge at most, as a check bit is HIGH only behind a LOW one.
*Buttons* (any set of buttons): `NoEventWithoutClick` (`EventsAreClicks`),
`LoneClicksAreAnswered` (`LoneClicksCount`). `ButtonsInv` relates what the badge takes to be
held with what the onlooker has seen.

Every invariant and every action property of the passing runs is stated by a theorem, but for
`FramesInOrder` and `SentInOrder`. `AmbientIsPlayed` and the types of the loader and the display are
proved only; no run repeats them. Some theorems have a hypothesis on the faults that their
run does not. Model-checked only are those two and the liveness under fairness, which is out of
the prover's reach: `TransfersEnd`, `SendsArrive`, `CommandsEnd`, `FailureCleansUp`,
`FramesKeepComing`, `StartupHandsOver`, `FallbackReached` and `SeededInTheEnd` stay with TLC.

## 5. Not modelled

* In `Badge`, `TwoBadges` and `HostSession` a timeout may come in any non-idle state;
  `LinkTimer` has the deadlines but not the messages.
* Waits inside a handler behind which no shared state changes, and the closing of the UART.
* A full flash, and the wrap of 16-bit ids.
* An offer with an empty name, which would be stored as `/a/`.
* Two posts of one UI event before the task runs, which are one event: in `Badge` a button is
  handled when it is pressed. Two clicks within a flash access are then two.
* The values in the configuration registers of the LED driver, and the colours.
* The host tool's argument checks, image encoding and printing. The length of a payload and
  the capabilities of a badge are always right for the firmware modelled here.
* The light sensor: nothing reads the brightness it computes.
* The generator of the protocol headers and the image conversion, which keep no state, and
  the release scripts, sequences of vendor tools without one of their own.
* Vendor code: the BLE stack and its task, which is not started (`main.c:112`), in both
  firmwares (`Stack/`, `ble/`), board files, device headers. It makes up most of the lines
  under `src/`; nearly all that the badge's authors wrote and that keeps state is modelled.
  The loader carries copies of some files of the firmware (`led.h`, `tlc6983.h`), which are
  not modelled twice.

## 6. Plan

What is left: a proof of `FramesInOrder` and `SentInOrder`, which need an invariant on the frames
alone, without the agreement of the two counts; and flash failures in `Tasks`, for which the cut
handlers need their error paths.
