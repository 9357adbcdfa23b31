------------------------------ MODULE AnimLoader ------------------------------
(***************************************************************************)
(* The animation loader, the firmware that runs on a badge before its own  *)
(* (badge.lgbt-animloader): it seeds the flash with the preloaded          *)
(* animations and leaves a generation mark, so that a badge is seeded once *)
(* however often the loader is started, interrupted or failed by the       *)
(* flash.  Between two starts the badge may be in use.                     *)
(***************************************************************************)
EXTENDS AnimStore

CONSTANTS
  AnimList,     \* anim_list: the preloaded animations
  AllUnlocked,  \* ALL_UNLOCKED_COUNT: how many of them everyone has unlocked
  BadgeId,      \* badge_id
  Attempts,     \* STORAGE_SEED_ATTEMPTS
  Delay,        \* anim_frame_delay_ms
  MaxFaults,    \* bound: flash operations that fail
  MaxCuts,      \* bound: power cuts
  MaxUses       \* bound: changes the badge in use makes to its animations

VARIABLES
  pc,       \* where ui_task_fn is
  fs,       \* "raw": SPIFFS_mount finds no filesystem
  files,    \* /a/<name>
  mark,     \* /.initialized carries STORAGE_FLAG
  nextId,   \* storage_next_anim_id
  attempt,  \* passes over the list so far
  item,     \* the next animation of the pass
  faults, cuts, uses,
  clean     \* nothing has failed since power came on or the last pass began

ldvars == <<pc, fs, files, mark, nextId, attempt, item, faults, cuts, uses, clean>>

ASSUME LoaderAssumption ==
  /\ AnimList \in Seq(Name)
  /\ \A i, j \in DOMAIN AnimList : i # j => AnimList[i] # AnimList[j]
  /\ AllUnlocked \in Nat /\ AllUnlocked < Len(AnimList) /\ Len(AnimList) <= MaxId
  /\ BadgeId \in Nat /\ Attempts \in Nat \ {0} /\ Delay \in Nat \ {0}
  /\ MaxFaults \in Nat /\ MaxCuts \in Nat /\ MaxUses \in Nat

Preloaded == {AnimList[i] : i \in DOMAIN AnimList}
NoFiles == [n \in Name |-> Absent]

(* unlocked_for_me: one of those that not everyone has, by the badge's id. *)
UnlockedForMe == (BadgeId % (Len(AnimList) - AllUnlocked)) + AllUnlocked
Unlocked(i) == i <= AllUnlocked \/ i - 1 = UnlockedForMe

LoaderInit ==
  /\ pc = "off" /\ fs \in {"raw", "mounts"} /\ files = NoFiles /\ mark = FALSE
  /\ nextId = 0 /\ attempt = 0 /\ item = 1
  /\ faults = 0 /\ cuts = 0 /\ uses = 0 /\ clean = TRUE

Works == clean' = clean /\ faults' = faults
Fails == faults < MaxFaults /\ faults' = faults + 1 /\ clean' = FALSE
Counted == UNCHANGED <<cuts, uses>>

-----------------------------------------------------------------------------
(* storage_init: mount, and format what does not mount or has no mark.     *)

Formatted == fs' = "mounts" /\ files' = NoFiles /\ mark' = FALSE
Power == pc = "off" /\ nextId' = 0 /\ attempt' = 0 /\ item' = 1

InitKeeps ==
  /\ Power /\ fs = "mounts" /\ mark
  /\ pc' = "check" /\ clean' = TRUE /\ UNCHANGED <<fs, files, mark, faults>> /\ Counted

InitFormats ==
  /\ Power
  /\ IF fs = "mounts" /\ mark THEN Fails   \* the mark does not read back
     ELSE clean' = TRUE /\ faults' = faults
  /\ pc' = "check" /\ Formatted /\ Counted

(* A mount or a format that fails otherwise: post_errors, and a badge that *)
(* waits for its power to be cut.                                          *)
InitFails ==
  /\ Power /\ Fails /\ pc' = "halt"
  /\ UNCHANGED <<fs, files, mark>> \/ (fs' = "raw" /\ files' = NoFiles /\ mark' = FALSE)
  /\ Counted

(* The power goes in the middle of the format.                             *)
InitFormatCut ==
  /\ pc = "off" /\ ~(fs = "mounts" /\ mark) /\ cuts < MaxCuts /\ cuts' = cuts + 1
  /\ fs' = "raw" /\ files' = NoFiles /\ mark' = FALSE
  /\ UNCHANGED <<pc, nextId, attempt, item, faults, uses, clean>>

-----------------------------------------------------------------------------
(* ui_task_fn.                                                             *)

AllPresentAsWritten ==
  \A i \in DOMAIN AnimList :
    Valid(files[AnimList[i]]) /\ files[AnimList[i]].hdr.unlocked = Unlocked(i)
AllPresentSome == \E n \in Preloaded : Valid(files[n])
AllPresent == \A n \in Preloaded : Valid(files[n])

NextPass ==
  /\ attempt' = attempt + 1
  /\ pc' = IF attempt + 1 < Attempts THEN "reformat" ELSE "stop"

CheckPresent ==
  /\ pc = "check" /\ AllPresent /\ Works
  /\ pc' = "mark" /\ UNCHANGED <<fs, files, mark, nextId, attempt, item>> /\ Counted

CheckMissesSettled ==
  /\ pc = "check" /\ (IF AllPresent THEN Fails ELSE Works)
  /\ pc' = "stop" /\ UNCHANGED <<fs, files, mark, nextId, attempt, item>> /\ Counted
CheckMisses ==
  /\ pc = "check" /\ (IF AllPresent THEN Fails ELSE Works)
  /\ pc' = "reformat" /\ UNCHANGED <<fs, files, mark, nextId, attempt, item>> /\ Counted

ReformatPatches ==
  /\ pc = "reformat"
  /\ nextId' = 0 /\ item' = 1 /\ clean' = TRUE
  /\ pc' = "save" /\ UNCHANGED <<fs, files, mark, faults, attempt>> /\ Counted
(* storage_reformat, and the start of a pass.                              *)
Reformat ==
  /\ pc = "reformat"
  /\ Formatted /\ nextId' = 0 /\ item' = 1 /\ clean' = TRUE
  /\ pc' = "save" /\ UNCHANGED <<faults, attempt>> /\ Counted

ReformatFails ==
  /\ pc = "reformat" /\ Fails /\ pc' = "stop"
  /\ UNCHANGED <<fs, files, mark>> \/ (fs' = "raw" /\ files' = NoFiles /\ mark' = FALSE)
  /\ UNCHANGED <<nextId, attempt, item>> /\ Counted

SeededLong(i) ==
  [name |-> AnimList[i], len |-> AnimLen[AnimList[i]] + 1, delay |-> Delay, id |-> nextId,
   unlocked |-> Unlocked(i), direct |-> FALSE]
(* The header storage_save_direct_anim writes.                             *)
Seeded(i) ==
  [name |-> AnimList[i], len |-> AnimLen[AnimList[i]], delay |-> Delay, id |-> nextId,
   unlocked |-> Unlocked(i), direct |-> FALSE]

(* What a write that is cut short, or lands on bad flash, leaves.          *)
Spoilt(i) ==
  {Stub, Stored(Seeded(i), << >>),
   Stored(Seeded(i), [FramesOf(AnimList[i]) EXCEPT ![AnimLen[AnimList[i]]] = Torn])}

(* storage_save_direct_anim.                                               *)
Save ==
  /\ pc = "save" /\ Works
  /\ files' = [files EXCEPT ![AnimList[item]] = Stored(Seeded(item), FramesOf(AnimList[item]))]
  /\ nextId' = nextId + 1 /\ item' = item + 1
  /\ pc' = IF item = Len(AnimList) THEN "verify" ELSE "save"
  /\ UNCHANGED <<fs, mark, attempt>> /\ Counted

(* A failure it reports.                                                   *)
SaveFails ==
  /\ pc = "save" /\ Fails
  /\ files' \in {files} \cup {[files EXCEPT ![AnimList[item]] = f] : f \in Spoilt(item)}
  /\ nextId' = nextId + 1 /\ NextPass
  /\ UNCHANGED <<fs, mark, item>> /\ Counted

(* A write that reports success and landed on flash that will not hold it. *)
SaveRots ==
  /\ pc = "save" /\ Fails
  /\ \E f \in Spoilt(item) : files' = [files EXCEPT ![AnimList[item]] = f]
  /\ nextId' = nextId + 1 /\ item' = item + 1
  /\ pc' = IF item = Len(AnimList) THEN "verify" ELSE "save"
  /\ UNCHANGED <<fs, mark, attempt>> /\ Counted

Verify ==
  /\ pc = "verify" /\ AllPresent /\ Works
  /\ pc' = "mark" /\ UNCHANGED <<fs, files, mark, nextId, attempt, item>> /\ Counted

VerifyMisses ==
  /\ pc = "verify" /\ (IF AllPresent THEN Fails ELSE Works)
  /\ NextPass /\ UNCHANGED <<fs, files, mark, nextId, item>> /\ Counted

(* storage_mark_initialized; nothing looks at its outcome.                 *)
Mark ==
  /\ pc = "mark" /\ Works
  /\ mark' = TRUE /\ pc' = "stop"
  /\ UNCHANGED <<fs, files, nextId, attempt, item>> /\ Counted

MarkFails ==
  /\ pc = "mark" /\ Fails /\ pc' = "stop"
  /\ UNCHANGED <<fs, files, mark, nextId, attempt, item>> /\ Counted

-----------------------------------------------------------------------------
(* Power, which may go in the middle of a format or of a save.             *)
PowerCut ==
  /\ pc \notin {"off"} /\ (pc \in {"stop", "halt"} \/ cuts < MaxCuts)
  /\ cuts' = (IF pc \in {"stop", "halt"} THEN cuts ELSE cuts + 1)
  /\ pc' = "off"
  /\ \/ UNCHANGED <<fs, files, mark>>
     \/ pc = "reformat" /\ fs' = "raw" /\ files' = NoFiles /\ mark' = FALSE
     \/ /\ pc = "save" /\ UNCHANGED <<fs, mark>>
        /\ \E f \in Spoilt(item) : files' = [files EXCEPT ![AnimList[item]] = f]
  /\ clean' = TRUE /\ UNCHANGED <<nextId, attempt, item, faults, uses>>

(* The badge in use, between two runs of the loader: it deletes, unlocks   *)
(* and receives animations, these under ids above all others (Badge).      *)
Use ==
  /\ pc = "off" /\ fs = "mounts" /\ mark /\ uses < MaxUses /\ uses' = uses + 1
  /\ \/ \E n \in Live(files) : files' = [files EXCEPT ![n] = Absent]
     \/ \E n \in Live(files) : files' = [files EXCEPT ![n].hdr.unlocked = TRUE]
     \/ \E n \in Name \ Live(files) :
          /\ NextIdAfter(files, Live(files)) <= MaxId
          /\ files' = [files EXCEPT ![n] =
               Stored([name |-> n, len |-> AnimLen[n], delay |-> Delay, unlocked |-> TRUE,
                       id |-> NextIdAfter(files, Live(files)), direct |-> FALSE], FramesOf(n))]
  /\ UNCHANGED <<pc, fs, mark, nextId, attempt, item, faults, cuts, clean>>

Boots == InitKeeps \/ InitFormats \/ InitFails
Seeds ==
  \/ CheckPresent \/ CheckMisses \/ Reformat \/ ReformatFails
  \/ Save \/ SaveFails \/ SaveRots \/ Verify \/ VerifyMisses \/ Mark \/ MarkFails

LoaderNext == Boots \/ InitFormatCut \/ Seeds \/ PowerCut \/ Use

(* The loader is started again until it has done its work.                 *)
LoaderFairness ==
  WF_ldvars(Boots) /\ WF_ldvars(Seeds) /\ WF_ldvars(PowerCut /\ pc \in {"stop", "halt"} /\ ~mark)

LoaderSpec == LoaderInit /\ [][LoaderNext]_ldvars /\ LoaderFairness

-----------------------------------------------------------------------------
(* The variables hold values of the program's types.                       *)
LoaderTypeOK ==
  /\ pc \in {"off", "check", "reformat", "save", "verify", "mark", "stop", "halt"}
  /\ fs \in {"raw", "mounts"} /\ mark \in BOOLEAN /\ clean \in BOOLEAN
  /\ files \in [Name -> File] /\ nextId \in 0..Len(AnimList)
  /\ attempt \in 0..Attempts /\ item \in 1..Len(AnimList) + 1
  /\ faults \in 0..MaxFaults /\ cuts \in 0..MaxCuts /\ uses \in 0..MaxUses

(* No two animations on flash share an id, at any moment: the reason the   *)
(* loader gives for wiping a store it could have completed (main.c:59).    *)
LoaderIds ==
  \A m, n \in Live(files) : m # n => files[m].hdr.id # files[n].hdr.id

(* The mark goes onto a store that holds every preloaded animation whole,  *)
(* under the id of its place in the list, and has unlocked just those that *)
(* everyone gets and one more: the store a badge is expected to start from *)
(* (SeedAssumption of Badge).                                              *)
Complete(fl) ==
  /\ Live(fl) = Preloaded
  /\ \A i \in DOMAIN AnimList :
       fl[AnimList[i]].hdr.id = i - 1 /\ fl[AnimList[i]].frames = FramesOf(AnimList[i])
  /\ {i \in DOMAIN AnimList : fl[AnimList[i]].hdr.unlocked} \ 1..AllUnlocked
       = {UnlockedForMe + 1}
  /\ \A i \in 1..AllUnlocked : fl[AnimList[i]].hdr.unlocked
MarksCompleteStore == [][~mark /\ mark' => Complete(files')]_ldvars

(* While no read has failed, the loader leaves a marked store that lacks   *)
(* no preloaded animation as it is, so nothing that was collected or       *)
(* unlocked in between is lost when it runs again.                         *)
LeavesUsedStore ==
  [][mark /\ Preloaded \subseteq Live(files) /\ faults' = 0 /\ uses' = uses =>
       UNCHANGED <<files, mark>>]_ldvars

(* However a run got to its end, if nothing has gone wrong since its last  *)
(* pass began every animation is there and the mark is set.                *)
StopsSeeded == pc = "stop" /\ clean => mark /\ Preloaded \subseteq Live(files)

(* A badge on which the loader is started again until the mark is there is *)
(* seeded in the end, once the flash stops failing, and stays so.          *)
SeededInTheEnd == <>[]mark
=============================================================================
