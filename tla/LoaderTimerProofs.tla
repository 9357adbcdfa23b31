-------------------------- MODULE LoaderTimerProofs --------------------------
(***************************************************************************)
(* Proofs about the two parts that stand alone.  What holds of LinkTimer,  *)
(* for every width of the tick counter and every pair of time limits that  *)
(* fits into half of it; and what holds of AnimLoader, for any list of     *)
(* animations, of any lengths, any badge id and any number of faults, cuts *)
(* and uses in between.                                                    *)
(***************************************************************************)
EXTENDS LinkTimer, AnimLoader, WellFoundedInduction, SequenceTheorems, TLAPS

-----------------------------------------------------------------------------
(* LinkTimer.                                                              *)

(* At tick u, t was set "ago" ticks before to "span" ticks ahead.          *)
SetAgo(t, u, span, ago) ==
  Elapsed(t, u) = IF ago < span THEN TickRange - (span - ago) ELSE ago - span

(* Adding ticks stays within the counter, and what is just set is the      *)
(* whole span away.                                                        *)
LEMMA LaterIsAhead ==
  ASSUME NEW span \in 1..Half, NEW u \in Tick
  PROVE Later(u, span) \in Tick /\ SetAgo(Later(u, span), u, span, 0)
BY TickAssumption DEF Later, Tick, TickRange, SetAgo, Elapsed

(* A tick moves a time that was set before one tick closer, or further     *)
(* back.                                                                   *)
LEMMA TickMoves ==
  ASSUME NEW t \in Tick, NEW u \in Tick, NEW span \in Nat, NEW ago \in Nat,
         span <= Half, ago + 1 < span + Half, SetAgo(t, u, span, ago)
  PROVE SetAgo(t, Later(u, 1), span, ago + 1)
<1>1. Half \in Nat /\ u \in Int /\ t \in Int
  BY TickAssumption DEF Tick, TickRange
<1> QED
  BY <1>1 DEF Later, Tick, TickRange, SetAgo, Elapsed

(* A time has passed when its span has.                                    *)
LEMMA PassedWhenSpent ==
  ASSUME NEW t \in Tick, NEW span \in Nat, NEW ago \in Nat, now \in Tick,
         span <= Half, ago < span + Half, SetAgo(t, now, span, ago)
  PROVE Passed(t) <=> ago >= span
<1>1. Half \in Nat
  BY TickAssumption
<1> QED
  BY <1>1 DEF Passed, Tick, TickRange, SetAgo, Elapsed

(* The inductive invariant.  Both times of a transaction lie where its age *)
(* and its silence say, and each was not over when they were last looked   *)
(* at, so that neither is over by more than what has been spent since.     *)
LimitInTime == SetAgo(deadline, now, Limit, age) /\ age < Limit + spent
SilenceInTime == SetAgo(nextTimeout, now, Timeout, silence) /\ silence < Timeout + spent
TimerInv ==
  /\ TimerTypeOK
  /\ busy => (LimitInTime /\ (nextTimeout # 0 => SilenceInTime))

(* What was just set is in time.                                           *)
LEMMA SetNow ==
  ASSUME TimerTypeOK, TimerTypeOK', now' = now, spent' = spent
  PROVE /\ Refreshed => SilenceInTime'
        /\ Entered => LimitInTime'
<1>1. /\ SetAgo(Later(now, Timeout), now, Timeout, 0)
      /\ SetAgo(Later(now, Limit), now, Limit, 0)
  <2>1. Timeout \in 1..Half /\ Limit \in 1..Half
    BY TickAssumption
  <2> QED
    BY <2>1, LaterIsAhead DEF TimerTypeOK
<1>2. spent' \in Nat
  BY TickAssumption DEF TimerTypeOK
<1> QED
  BY <1>1, <1>2, TickAssumption DEF Refreshed, Entered, SilenceInTime, LimitInTime
(* Every step keeps the variables within their types.                      *)
LEMMA TimerTypeStep == ASSUME TimerTypeOK, [TimerNext]_tickvars PROVE TimerTypeOK'
<1>1. Later(now, Timeout) \in Tick /\ Later(now, Limit) \in Tick
  <2>1. Timeout \in 1..Half /\ Limit \in 1..Half
    BY TickAssumption
  <2> QED
    BY <2>1, LaterIsAhead DEF TimerTypeOK
<1>2. CASE UNCHANGED tickvars
  BY <1>2 DEF tickvars, TimerTypeOK
<1>3. CASE TimePasses
  <2>1. 1 \in 1..Half
    BY <1>3, TickAssumption DEF TimePasses, TimerTypeOK
  <2>2. now' \in Tick
    BY <1>3, <2>1, LaterIsAhead DEF TimePasses, TimerTypeOK
  <2>3. spent' \in 0..MaxTurn
    BY <1>3, TickAssumption DEF TimePasses, TimerTypeOK
  <2> QED
    BY <1>3, <2>2, <2>3 DEF TimePasses, TimerTypeOK
<1>4. CASE Look
  <2>1. spent' \in 0..MaxTurn
    BY <1>4, TickAssumption DEF Look
  <2>2. busy' \in BOOLEAN
    BY <1>4, Zenon DEF Look, WentIdle, TimerTypeOK
  <2> QED
    BY <1>1, <1>4, <2>1, <2>2 DEF Look, WentIdle, Refreshed, TimerTypeOK
<1>5. CASE Events \/ Read
  <2>1. busy' \in BOOLEAN
    BY <1>5, Zenon DEF Events, Read, Entered, WentIdle, TimerTypeOK
  <2> QED
    BY <1>1, <1>5, <2>1 DEF Events, Read, Entered, WentIdle, Refreshed, TimerTypeOK
<1> QED
  BY <1>2, <1>3, <1>4, <1>5 DEF TimerNext

(* Neither deadline is over after a look that ends nothing.                *)
LEMMA LookedAt ==
  ASSUME TimerInv, busy
  PROVE /\ LimitReached <=> age >= Limit
        /\ nextTimeout # 0 => (SilenceReached <=> silence >= Timeout)
<1>1. /\ now \in Tick /\ deadline \in Tick /\ nextTimeout \in Tick
      /\ age \in Nat /\ silence \in Nat /\ spent \in 0..MaxTurn
  BY DEF TimerInv, TimerTypeOK
<1>2. Passed(deadline) <=> age >= Limit
  <2>1. age < Limit + Half /\ SetAgo(deadline, now, Limit, age)
    BY <1>1, TickAssumption DEF TimerInv, LimitInTime
  <2> QED
    BY <1>1, <2>1, PassedWhenSpent, TickAssumption
<1>3. nextTimeout # 0 => (Passed(nextTimeout) <=> silence >= Timeout)
  <2>1. ASSUME nextTimeout # 0
        PROVE silence < Timeout + Half /\ SetAgo(nextTimeout, now, Timeout, silence)
    BY <1>1, <2>1, TickAssumption DEF TimerInv, SilenceInTime
  <2> QED
    BY <1>1, <2>1, PassedWhenSpent, TickAssumption
<1> QED
  BY <1>2, <1>3 DEF LimitReached, SilenceReached

(* The times stay where age and silence say.                               *)
LEMMA TimerStep == ASSUME TimerInv, [TimerNext]_tickvars PROVE TimerInv'
<1>1. TimerTypeOK /\ TimerTypeOK'
  BY TimerTypeStep DEF TimerInv
<1> USE <1>1
<1>2. ASSUME UNCHANGED <<now, busy, spent, deadline, age>>,
             UNCHANGED <<nextTimeout, silence>> \/ SilenceInTime'
      PROVE TimerInv'
  BY <1>2 DEF TimerInv, LimitInTime, SilenceInTime
<1>3. ASSUME ~busy' PROVE TimerInv'
  BY <1>3 DEF TimerInv
<1>4. CASE UNCHANGED tickvars
  BY <1>2, <1>4 DEF tickvars
<1>5. CASE TimePasses
  <2>1. SUFFICES ASSUME busy PROVE LimitInTime' /\ (nextTimeout # 0 => SilenceInTime')
    BY <1>3, <1>5 DEF TimePasses, TimerInv
  <2>2. /\ deadline \in Tick /\ nextTimeout \in Tick /\ now \in Tick
        /\ age \in Nat /\ silence \in Nat /\ spent \in Nat /\ spent + 1 <= MaxTurn
        /\ now' = Later(now, 1) /\ age' = age + 1 /\ silence' = silence + 1 /\ spent' = spent + 1
        /\ deadline' = deadline /\ nextTimeout' = nextTimeout
    BY <1>5, <2>1, TickAssumption DEF TimePasses, TimerTypeOK
  <2>3. LimitInTime'
    <3>1. SetAgo(deadline, now, Limit, age) /\ age < Limit + spent
      BY <2>1 DEF TimerInv, LimitInTime
    <3>2. age + 1 < Limit + Half /\ Limit <= Half
      BY <2>2, <3>1, TickAssumption
    <3>3. SetAgo(deadline, Later(now, 1), Limit, age + 1)
      BY <2>2, <3>1, <3>2, TickMoves, TickAssumption
    <3> QED
      BY <2>2, <3>1, <3>3, TickAssumption DEF LimitInTime
  <2>4. ASSUME nextTimeout # 0 PROVE SilenceInTime'
    <3>1. SetAgo(nextTimeout, now, Timeout, silence) /\ silence < Timeout + spent
      BY <2>1, <2>4 DEF TimerInv, SilenceInTime
    <3>2. silence + 1 < Timeout + Half /\ Timeout <= Half
      BY <2>2, <3>1, TickAssumption
    <3>3. SetAgo(nextTimeout, Later(now, 1), Timeout, silence + 1)
      BY <2>2, <3>1, <3>2, TickMoves, TickAssumption
    <3> QED
      BY <2>2, <3>1, <3>3, TickAssumption DEF SilenceInTime
  <2> QED
    BY <2>3, <2>4
<1>6. CASE Look
  <2>1. CASE WentIdle
    BY <1>3, <2>1 DEF WentIdle
  <2>2. CASE ~LimitReached /\ ~SilenceReached
             /\ UNCHANGED <<busy, nextTimeout, deadline, age, silence>>
    <3>1. SUFFICES ASSUME busy PROVE LimitInTime' /\ (nextTimeout # 0 => SilenceInTime')
      BY <1>3, <2>2 DEF TimerInv
    <3>2. age < Limit /\ (nextTimeout # 0 => silence < Timeout)
      BY <2>2, <3>1, LookedAt, TickAssumption DEF TimerTypeOK
    <3>3. now' = now /\ spent' = 0
      BY <1>6 DEF Look
    <3>4. SetAgo(deadline, now, Limit, age) /\ (nextTimeout # 0 => SetAgo(nextTimeout, now, Timeout, silence))
      BY <3>1 DEF TimerInv, LimitInTime, SilenceInTime
    <3> QED
      BY <2>2, <3>2, <3>3, <3>4, TickAssumption DEF LimitInTime, SilenceInTime
  <2> QED
    BY <1>6, <2>1, <2>2 DEF Look
<1>7. CASE Events \/ Read
  <2>1. now' = now /\ spent' = spent
    BY <1>7 DEF Events, Read
  <2>2. CASE Entered
    BY <2>1, <2>2, SetNow DEF TimerInv, Entered
  <2>3. CASE WentIdle
    BY <1>3, <2>3 DEF WentIdle
  <2>4. CASE Refreshed /\ UNCHANGED <<busy, deadline, age>>
    BY <1>2, <2>1, <2>4, SetNow
  <2>5. CASE UNCHANGED <<busy, nextTimeout, deadline, age, silence>>
    BY <1>2, <2>1, <2>5
  <2> QED
    BY <1>7, <2>2, <2>3, <2>4, <2>5 DEF Events, Read
<1> QED
  BY <1>4, <1>5, <1>6, <1>7 DEF TimerNext

(* So the invariant holds in every state of every behaviour.               *)
LEMMA TimerInvariance == TimerSpec => []TimerInv
<1>1. TimerInit => TimerInv
  <2>1. SUFFICES ASSUME TimerInit PROVE TimerTypeOK
    BY DEF TimerInit, TimerInv
  <2>2. Timeout \in 1..Half /\ 0 \in Tick /\ 0 \in 0..MaxTurn
    BY TickAssumption DEF Tick, TickRange
  <2>3. Later(now, Timeout) \in Tick
    BY <2>1, <2>2, LaterIsAhead DEF TimerInit
  <2> QED
    BY <2>1, <2>2, <2>3 DEF TimerInit, TimerTypeOK
<1>2. TimerInv /\ [TimerNext]_tickvars => TimerInv'
  BY TimerStep
<1> QED
  BY <1>1, <1>2, PTL DEF TimerSpec

(* At whatever tick a transaction starts and however often its peer is     *)
(* heard, serial_task_fn has ended it one turn after                       *)
(* IR_TRANSACTION_LIMIT_MS, wrap or no wrap of the counter.                *)
THEOREM TransactionsAreLimited == TimerSpec => []LimitKept
<1>1. TimerInv => LimitKept
  BY TickAssumption DEF TimerInv, TimerTypeOK, LimitInTime, LimitKept
<1> QED
  BY <1>1, TimerInvariance, PTL

(* A transaction whose peer says nothing is over one turn after            *)
(* IR_TIMEOUT_MS, unless its timeout fell on tick 0.                       *)
THEOREM SilenceIsNoticed == TimerSpec => []SilenceEnds
<1>1. TimerInv => SilenceEnds
  BY TickAssumption DEF TimerInv, TimerTypeOK, SilenceInTime, SilenceEnds
<1> QED
  BY <1>1, TimerInvariance, PTL

(* serial_task_fn never ends a transaction by the clock before one of its  *)
(* two times is over.                                                      *)
THEOREM NothingIsCutShort == TimerSpec => NeverCutShort
<1>1. TimerInv /\ [TimerNext]_tickvars
        => [Look /\ busy /\ ~busy' => silence >= Timeout \/ age >= Limit]_tickvars
  <2>1. SUFFICES ASSUME TimerInv, Look, busy, ~busy'
                 PROVE  silence >= Timeout \/ age >= Limit
    OBVIOUS
  <2>2. LimitReached \/ SilenceReached
    BY <2>1 DEF Look
  <2> QED
    BY <2>1, <2>2, LookedAt DEF SilenceReached
<1> QED
  BY <1>1, TimerInvariance, PTL DEF TimerSpec, NeverCutShort

-----------------------------------------------------------------------------
(* AnimLoader, beginning with facts about the operators of AnimStore.      *)

(* The frames of an animation form a sequence of frames.                   *)
LEMMA FramesOfType == ASSUME NEW n \in Name PROVE
  FramesOf(n) \in Seq(Frame) /\ Len(FramesOf(n)) = AnimLen[n]
<1>1. AnimLen[n] \in Nat /\ AnimLen[n] <= MaxFrames /\ MaxFrames \in Nat
  BY BoundAssumption
<1>2. \A k \in 1..AnimLen[n] : <<n, k - 1>> \in Frame
  BY <1>1 DEF Frame
<1>3. FramesOf(n) \in [1..AnimLen[n] -> Frame]
  BY <1>2 DEF FramesOf
<1> QED
  BY <1>1, <1>3, IsASeq, LenProperties

(* A set of naturals that is not empty has its least element.              *)
LEMMA MinIsLeast == ASSUME NEW S \in SUBSET Nat, S # {} PROVE
  Min(S) \in S /\ \A k \in S : Min(S) <= k
<1> DEFINE Below == {ss \in Nat \X Nat : ss[1] < ss[2]}
<1>1. IsWellFoundedOn(Below, Nat)
  BY NatLessThanWellFounded DEF OpToRel
<1>2. PICK x \in S : \A y \in S : ~(<<y, x>> \in Below)
  BY <1>1, WFMin
<1>3. ASSUME NEW y \in S PROVE x <= y
  <2>1. x \in Nat /\ y \in Nat
    OBVIOUS
  <2>2. <<y, x>>[1] = y /\ <<y, x>>[2] = x /\ <<y, x>> \in Nat \X Nat
    BY <2>1
  <2>3. ~(y < x)
    BY <1>2, <2>2
  <2> QED
    BY <2>1, <2>3
<1> QED
  BY <1>3 DEF Min

(* The scan of storage_init leaves the next id above every id it has seen. *)
LEMMA NextIdAbove ==
  ASSUME NEW store \in [Name -> File], NEW seen \in SUBSET Name
  PROVE /\ NextIdAfter(store, seen) \in 0..MaxId + 1
        /\ \A n \in seen : store[n].hdr.id < NextIdAfter(store, seen)
<1> DEFINE S == {k \in 0..MaxId + 1 : \A n \in seen : store[n].hdr.id < k}
<1>1. \A n \in seen : store[n].hdr.id \in 0..MaxId
  BY DEF File, Anim
<1>2. MaxId + 1 \in S
  BY <1>1, BoundAssumption
<1>3. S \in SUBSET Nat
  BY BoundAssumption
<1>4. Min(S) \in S
  BY <1>2, <1>3, MinIsLeast
<1> QED
  BY <1>4 DEF NextIdAfter

-----------------------------------------------------------------------------
(* The list, and the files that are made from it.                          *)

ListLen == Len(AnimList)

(* The list is not empty, and its animations have names and lengths.       *)
LEMMA ListFacts ==
  /\ ListLen \in Nat /\ ListLen > 0 /\ DOMAIN AnimList = 1..ListLen
  /\ \A i \in 1..ListLen : AnimList[i] \in Name /\ AnimLen[AnimList[i]] \in Nat \ {0}
  /\ \A i, j \in 1..ListLen : AnimList[i] = AnimList[j] => i = j
  /\ ListLen <= MaxId /\ MaxId \in Nat
<1>1. /\ AnimList \in Seq(Name) /\ AllUnlocked \in Nat /\ AllUnlocked < Len(AnimList)
      /\ Len(AnimList) <= MaxId /\ MaxId \in Nat
  BY LoaderAssumption, BoundAssumption
<1>2. DOMAIN AnimList = 1..Len(AnimList) /\ Len(AnimList) \in Nat
  BY <1>1, LenProperties
<1>3. \A i \in 1..ListLen : AnimList[i] \in Name
  BY <1>1, ElementOfSeq DEF ListLen
<1>4. \A i, j \in 1..ListLen : AnimList[i] = AnimList[j] => i = j
  BY <1>2, LoaderAssumption DEF ListLen
<1>5. \A n \in Name : AnimLen[n] \in Nat \ {0}
  BY BoundAssumption
<1> QED
  BY <1>1, <1>2, <1>3, <1>4, <1>5 DEF ListLen

(* What a pass writes for the animation in place i: its header, with the   *)
(* place as its id, and its frames.                                        *)
HeaderOf(i) ==
  [name |-> AnimList[i], len |-> AnimLen[AnimList[i]], delay |-> Delay, id |-> i - 1,
   unlocked |-> Unlocked(i), direct |-> FALSE]
FileOf(i) == Stored(HeaderOf(i), FramesOf(AnimList[i]))

(* That file is an animation with the id of its place.                     *)
LEMMA FileOfFacts ==
  ASSUME NEW i \in 1..ListLen
  PROVE  /\ FileOf(i) \in File /\ HeaderOf(i) \in Anim /\ Valid(FileOf(i))
         /\ FileOf(i).hdr.id = i - 1 /\ (FileOf(i).hdr.unlocked <=> Unlocked(i))
         /\ FileOf(i).frames = FramesOf(AnimList[i])
         /\ (nextId = i - 1 => Seeded(i) = HeaderOf(i))
<1>1. AnimList[i] \in Name /\ AnimLen[AnimList[i]] \in Nat \ {0} /\ i - 1 \in 0..MaxId
  BY ListFacts
<1>2. Unlocked(i) \in BOOLEAN /\ Delay \in Nat
  BY LoaderAssumption DEF Unlocked
<1>3. HeaderOf(i) \in Anim
  BY <1>1, <1>2 DEF HeaderOf, Anim
<1>4. FramesOf(AnimList[i]) \in Seq(Frame) /\ Len(FramesOf(AnimList[i])) = AnimLen[AnimList[i]]
  BY <1>1, FramesOfType
<1>5. FileOf(i) \in File
  BY <1>3, <1>4 DEF FileOf, Stored, File
<1>6. Whole(FileOf(i))
  <2>1. \A k \in 1..AnimLen[AnimList[i]] : FramesOf(AnimList[i])[k] = <<AnimList[i], k - 1>>
    BY DEF FramesOf
  <2>2. \A k \in 1..AnimLen[AnimList[i]] : FramesOf(AnimList[i])[k] # Torn
    BY <1>1, <2>1, NameAssumption DEF Torn
  <2> QED
    BY <1>4, <2>2 DEF Whole, FileOf, Stored
<1>7. Valid(FileOf(i))
  BY <1>4, <1>6 DEF Valid, FileOf, Stored, HeaderOf
<1>8. nextId = i - 1 => Seeded(i) = HeaderOf(i)
  BY DEF Seeded, HeaderOf
<1> QED
  BY <1>3, <1>5, <1>7, <1>8 DEF FileOf, Stored, HeaderOf

(* A write that is cut short leaves no animation.                          *)
LEMMA SpoiltFacts ==
  ASSUME NEW i \in 1..ListLen, nextId = i - 1, NEW f \in Spoilt(i)
  PROVE  f \in File /\ ~Valid(f)
<1> DEFINE n == AnimList[i]
           fr == [FramesOf(n) EXCEPT ![AnimLen[n]] = Torn]
<1>1. n \in Name /\ AnimLen[n] \in Nat \ {0}
  BY ListFacts
<1>2. Seeded(i) \in Anim /\ Seeded(i).len = AnimLen[n]
  <2>1. Seeded(i) = HeaderOf(i) /\ HeaderOf(i) \in Anim
    BY FileOfFacts
  <2> QED
    BY <2>1 DEF HeaderOf
<1>3. Torn \in Frame /\ ZeroAnim \in Anim
  BY BoundAssumption DEF Torn, Frame, ZeroAnim, Anim
<1>4. CASE f = Stub
  BY <1>3, <1>4, EmptySeq DEF Stub, File, Valid
<1>5. CASE f = Stored(Seeded(i), << >>)
  BY <1>1, <1>2, <1>5, EmptySeq DEF Stored, File, Valid
<1>6. CASE f = Stored(Seeded(i), fr)
  <2>1. FramesOf(n) \in Seq(Frame) /\ Len(FramesOf(n)) = AnimLen[n]
    BY <1>1, FramesOfType
  <2>2. fr \in Seq(Frame) /\ Len(fr) = AnimLen[n] /\ fr[AnimLen[n]] = Torn
    BY <1>1, <1>3, <2>1, ExceptSeq
  <2>3. f \in File /\ f.frames = fr
    BY <1>2, <1>6, <2>2 DEF Stored, File
  <2>4. ~Whole(f)
    BY <1>1, <2>2, <2>3 DEF Whole
  <2> QED
    BY <2>3, <2>4 DEF Valid
<1> QED
  BY <1>4, <1>5, <1>6 DEF Spoilt

(* No files are files, none of them an animation.                          *)
LEMMA NoFilesFacts == NoFiles \in [Name -> File] /\ Live(NoFiles) = {}
<1>1. ZeroAnim \in Anim
  BY BoundAssumption DEF ZeroAnim, Anim
<1>2. Absent \in File /\ ~Valid(Absent)
  BY <1>1, EmptySeq DEF Absent, File, Valid
<1> QED
  BY <1>2 DEF NoFiles, Live

-----------------------------------------------------------------------------
(* The inductive invariant.  While a pass runs, the flash holds nothing    *)
(* but what the pass has written, place by place; what it has written and  *)
(* does not read back counts as a failure.                                 *)

PassCounts ==
  /\ pc \in {"check", "reformat", "save", "verify"} => attempt < Attempts
  /\ pc = "save" => item <= ListLen /\ nextId = item - 1
  /\ pc = "verify" => item = ListLen + 1

FromPass(n) == \E i \in 1..item - 1 : n = AnimList[i] /\ files[n] = FileOf(i)
PassFiles ==
  pc \in {"save", "verify"} =>
    /\ \A n \in Live(files) : FromPass(n)
    /\ clean => \A i \in 1..item - 1 : AnimList[i] \in Live(files)

MarkInv ==
  /\ pc = "check" /\ ~mark => files = NoFiles
  /\ pc = "mark" => Preloaded \subseteq Live(files) /\ (mark \/ Complete(files))

LoaderInv == LoaderTypeOK /\ PassCounts /\ PassFiles /\ MarkInv /\ LoaderIds /\ StopsSeeded

(* A file that is no animation, or one whose id no other has, keeps ids    *)
(* apart.                                                                  *)
LEMMA PutKeepsIds ==
  ASSUME LoaderIds, files \in [Name -> File], NEW n \in Name, NEW f \in File,
         files' = [files EXCEPT ![n] = f],
         Valid(f) => \A m \in Live(files) \ {n} : files[m].hdr.id # f.hdr.id
  PROVE  LoaderIds'
<1>1. \A m \in Name : files'[m] = IF m = n THEN f ELSE files[m]
  OBVIOUS
<1>2. \A m \in Live(files') : m = n \/ m \in Live(files)
  BY <1>1 DEF Live
<1>3. n \in Live(files') => Valid(f)
  BY <1>1 DEF Live
<1>4. \A m \in Live(files') : m \in Name
  BY DEF Live
<1> QED
  BY <1>1, <1>2, <1>3, <1>4 DEF LoaderIds

(* The ids of a pass lie below the next one, and tell its animations apart. *)
LEMMA PassIds ==
  ASSUME pc \in {"save", "verify"}, PassFiles, LoaderTypeOK
  PROVE  \A n \in Live(files) : files[n].hdr.id \in 0..item - 2
<1>1. item \in 1..ListLen + 1 /\ ListLen \in Nat
  BY ListFacts DEF LoaderTypeOK, ListLen
<1> SUFFICES ASSUME NEW n \in Live(files) PROVE files[n].hdr.id \in 0..item - 2
  OBVIOUS
<1>2. PICK i \in 1..item - 1 : files[n] = FileOf(i)
  BY DEF PassFiles, FromPass
<1>3. i \in 1..ListLen
  BY <1>1
<1> QED
  BY <1>1, <1>2, <1>3, FileOfFacts

(* A pass of which every animation reads back is the store the mark is     *)
(* for.                                                                    *)
LEMMA PassComplete ==
  ASSUME pc = "verify", PassFiles, PassCounts, LoaderTypeOK, AllPresent
  PROVE  Complete(files) /\ Preloaded \subseteq Live(files)
<1>1. item = ListLen + 1 /\ ListLen \in Nat /\ ListLen > 0
  BY ListFacts DEF PassCounts
<1>2. \A i \in 1..ListLen : AnimList[i] \in Live(files)
  BY ListFacts DEF AllPresent, Preloaded, Live
<1>3. Preloaded \subseteq Live(files)
  BY <1>2, ListFacts DEF Preloaded
<1>4. Live(files) \subseteq Preloaded
  BY <1>1, ListFacts DEF PassFiles, FromPass, Preloaded
<1>5. ASSUME NEW i \in 1..ListLen PROVE files[AnimList[i]] = FileOf(i)
  <2>1. PICK j \in 1..ListLen : AnimList[i] = AnimList[j] /\ files[AnimList[i]] = FileOf(j)
    BY <1>1, <1>2 DEF PassFiles, FromPass
  <2> QED
    BY <2>1, ListFacts
<1>6. \A i \in 1..ListLen :
        /\ files[AnimList[i]].hdr.id = i - 1
        /\ files[AnimList[i]].frames = FramesOf(AnimList[i])
        /\ (files[AnimList[i]].hdr.unlocked <=> Unlocked(i))
  BY <1>5, FileOfFacts
<1>7. AllUnlocked \in Nat /\ AllUnlocked < ListLen /\ BadgeId \in Nat
  BY LoaderAssumption DEF ListLen
<1>8. UnlockedForMe \in AllUnlocked..ListLen - 1
  <2>1. BadgeId % (ListLen - AllUnlocked) \in 0..ListLen - AllUnlocked - 1
    BY <1>1, <1>7
  <2> QED
    BY <1>1, <1>7, <2>1 DEF UnlockedForMe, ListLen
<1>9. {i \in 1..ListLen : Unlocked(i)} \ 1..AllUnlocked = {UnlockedForMe + 1}
  BY <1>1, <1>7, <1>8 DEF Unlocked
<1>10. \A i \in 1..AllUnlocked : Unlocked(i) /\ i \in 1..ListLen
  BY <1>1, <1>7 DEF Unlocked
<1>11. {i \in 1..ListLen : files[AnimList[i]].hdr.unlocked} = {i \in 1..ListLen : Unlocked(i)}
  BY <1>6
<1> QED
  BY <1>3, <1>4, <1>6, <1>9, <1>10, <1>11, ListFacts DEF Complete

-----------------------------------------------------------------------------
(* The steps, one group of actions after the other.                        *)

(* Formats and cuts leave no files, or those of before.                    *)
LEMMA EmptyFlash == ASSUME files' = NoFiles PROVE files' \in [Name -> File] /\ LoaderIds'
  BY NoFilesFacts DEF LoaderIds

(* The constants as numbers.                                               *)
LEMMA Bounds ==
  /\ Attempts \in Nat \ {0} /\ MaxFaults \in Nat /\ MaxCuts \in Nat /\ MaxUses \in Nat
  /\ ListLen = Len(AnimList)
  BY LoaderAssumption DEF ListLen

(* What works and what fails.                                              *)
LEMMA Outcome ==
  ASSUME LoaderTypeOK, Works \/ Fails
  PROVE  faults' \in 0..MaxFaults /\ clean' \in BOOLEAN
<1>1. faults \in 0..MaxFaults /\ clean \in BOOLEAN
  BY DEF LoaderTypeOK
<1>2. faults' = faults \/ (faults < MaxFaults /\ faults' = faults + 1)
  BY DEF Works, Fails
<1>3. clean' = clean \/ clean' = FALSE
  BY Zenon DEF Works, Fails
<1>4. faults' \in 0..MaxFaults
  BY <1>1, <1>2, Bounds
<1>5. clean' \in BOOLEAN
  BY <1>1, <1>3, Zenon
<1> QED
  BY <1>4, <1>5

(* Power on, and the cut of a format.                                      *)
LEMMA BootsStep ==
  ASSUME LoaderInv, Boots \/ InitFormatCut
  PROVE  LoaderInv'
<1>1. LoaderTypeOK /\ LoaderIds /\ ListLen \in Nat /\ ListLen > 0
  BY ListFacts DEF LoaderInv
<1>2. CASE InitKeeps
  BY <1>1, <1>2, Bounds
     DEF InitKeeps, Power, Counted, LoaderInv, LoaderTypeOK, PassCounts, PassFiles, MarkInv,
         LoaderIds, StopsSeeded
<1>3. CASE InitFormats
  <2>1. files' = NoFiles /\ mark' = FALSE /\ pc' = "check"
    BY <1>3 DEF InitFormats, Formatted
  <2>2. faults' \in 0..MaxFaults /\ clean' \in BOOLEAN
    <3>1. CASE fs = "mounts" /\ mark
      BY <1>1, <1>3, <3>1, Outcome DEF InitFormats
    <3>2. CASE ~(fs = "mounts" /\ mark)
      BY <1>1, <1>3, <3>2 DEF InitFormats, LoaderTypeOK
    <3> QED
      BY <3>1, <3>2
  <2>3. LoaderTypeOK'
    <3>1. /\ pc' = "check" /\ fs' = "mounts" /\ mark' = FALSE /\ nextId' = 0 /\ attempt' = 0
          /\ item' = 1 /\ UNCHANGED <<cuts, uses>>
      BY <1>3 DEF InitFormats, Formatted, Power, Counted
    <3>2. 0 \in 0..Len(AnimList) /\ 0 \in 0..Attempts /\ 1 \in 1..Len(AnimList) + 1
      BY <1>1, Bounds
    <3>3. files' \in [Name -> File]
      BY <2>1, EmptyFlash
    <3> QED
      BY <1>1, <2>2, <3>1, <3>2, <3>3 DEF LoaderTypeOK
  <2> QED
    BY <1>3, <2>1, <2>3, EmptyFlash, Bounds
       DEF InitFormats, Power, LoaderInv, PassCounts, PassFiles, MarkInv, StopsSeeded
<1>4. CASE InitFails
  <2>1. pc' = "halt" /\ faults' \in 0..MaxFaults /\ clean' \in BOOLEAN
    BY <1>1, <1>4, Outcome DEF InitFails
  <2>2. LoaderIds' /\ files' \in [Name -> File] /\ fs' \in {"raw", "mounts"} /\ mark' \in BOOLEAN
    BY <1>1, <1>4, EmptyFlash DEF InitFails, LoaderTypeOK, LoaderIds
  <2>3. LoaderTypeOK'
    BY <1>1, <1>4, <2>1, <2>2, Bounds DEF InitFails, Power, Counted, LoaderTypeOK
  <2> QED
    BY <2>1, <2>2, <2>3 DEF LoaderInv, PassCounts, PassFiles, MarkInv, StopsSeeded
<1>5. CASE InitFormatCut
  <2>1. files' = NoFiles /\ pc' = "off" /\ cuts' \in 0..MaxCuts
    BY <1>1, <1>5, Bounds DEF InitFormatCut, LoaderTypeOK
  <2>2. LoaderTypeOK'
    BY <1>1, <1>5, <2>1, EmptyFlash DEF InitFormatCut, LoaderTypeOK
  <2> QED
    BY <2>1, <2>2, EmptyFlash DEF LoaderInv, PassCounts, PassFiles, MarkInv, StopsSeeded
<1> QED
  BY <1>2, <1>3, <1>4, <1>5 DEF Boots

(* The checks before and after a pass, and the mark.                       *)
LEMMA ChecksStep ==
  ASSUME LoaderInv,
         CheckPresent \/ CheckMisses \/ Verify \/ VerifyMisses \/ Mark \/ MarkFails
  PROVE  LoaderInv'
<1>1. LoaderTypeOK /\ LoaderIds /\ PassCounts /\ PassFiles /\ MarkInv
  BY DEF LoaderInv
<1>2. UNCHANGED <<fs, files, nextId, item, cuts, uses>>
  BY DEF CheckPresent, CheckMisses, Verify, VerifyMisses, Mark, MarkFails, Counted
<1>3. faults' \in 0..MaxFaults /\ clean' \in BOOLEAN
  <2>1. Works \/ Fails
    BY DEF CheckPresent, CheckMisses, Verify, VerifyMisses, Mark, MarkFails
  <2> QED
    BY <1>1, <2>1, Outcome
<1>4. AllPresent <=> Preloaded \subseteq Live(files)
  BY ListFacts DEF AllPresent, Preloaded, Live
<1>5. LoaderIds'
  BY <1>1, <1>2 DEF LoaderIds
<1>6. CASE CheckPresent
  <2>1. pc' = "mark" /\ UNCHANGED <<mark, attempt>> /\ AllPresent /\ pc = "check"
    BY <1>6 DEF CheckPresent
  <2>2. mark
    <3>1. SUFFICES ASSUME ~mark PROVE FALSE
      OBVIOUS
    <3>2. Live(files) = {}
      BY <1>1, <2>1, <3>1, NoFilesFacts DEF MarkInv
    <3>3. AnimList[1] \in Preloaded
      BY <1>1, ListFacts DEF Preloaded
    <3> QED
      BY <1>4, <2>1, <3>2, <3>3
  <2> QED
    BY <1>1, <1>2, <1>3, <1>4, <1>5, <2>1, <2>2
       DEF LoaderInv, LoaderTypeOK, PassCounts, PassFiles, MarkInv, StopsSeeded
<1>7. CASE CheckMisses
  <2>1. pc' = "reformat" /\ UNCHANGED <<mark, attempt>> /\ pc = "check"
    BY <1>7 DEF CheckMisses
  <2> QED
    BY <1>1, <1>2, <1>3, <1>5, <2>1
       DEF LoaderInv, LoaderTypeOK, PassCounts, PassFiles, MarkInv, StopsSeeded
<1>8. CASE Verify
  <2>1. pc' = "mark" /\ UNCHANGED <<mark, attempt>> /\ AllPresent /\ pc = "verify"
    BY <1>8 DEF Verify
  <2>2. Complete(files) /\ Preloaded \subseteq Live(files)
    BY <1>1, <2>1, PassComplete
  <2>3. Complete(files)' /\ (Preloaded \subseteq Live(files))'
    BY <1>2, <2>2 DEF Complete
  <2> QED
    BY <1>1, <1>2, <1>3, <1>5, <2>1, <2>3
       DEF LoaderInv, LoaderTypeOK, PassCounts, PassFiles, MarkInv, StopsSeeded
<1>9. CASE VerifyMisses
  <2>1. /\ pc = "verify" /\ pc' \in {"reformat", "stop"} /\ mark' = mark
        /\ attempt' = attempt + 1 /\ (pc' = "reformat" => attempt + 1 < Attempts)
    BY <1>9 DEF VerifyMisses, NextPass
  <2>2. attempt' \in 0..Attempts /\ (pc' = "reformat" => attempt' < Attempts)
    BY <1>1, <2>1, Bounds DEF LoaderTypeOK, PassCounts
  <2>3. ~clean'
    <3>1. CASE AllPresent
      BY <1>9, <3>1 DEF VerifyMisses, Fails
    <3>2. CASE ~AllPresent
      <4>1. PICK i \in 1..ListLen : AnimList[i] \notin Live(files)
        BY <1>4, <3>2, ListFacts DEF Preloaded
      <4>2. item - 1 = ListLen
        BY <1>1, <2>1, ListFacts DEF PassCounts
      <4>3. ~clean
        BY <1>1, <2>1, <4>1, <4>2 DEF PassFiles
      <4> QED
        BY <1>9, <3>2, <4>3 DEF VerifyMisses, Works
    <3> QED
      BY <3>1, <3>2
  <2>4. LoaderTypeOK'
    BY <1>1, <1>2, <1>3, <2>1, <2>2 DEF LoaderTypeOK
  <2> QED
    BY <1>5, <2>1, <2>2, <2>3, <2>4
       DEF LoaderInv, PassCounts, PassFiles, MarkInv, StopsSeeded
<1>10. CASE Mark
  <2>1. pc' = "stop" /\ mark' /\ attempt' = attempt /\ pc = "mark" /\ mark' \in BOOLEAN
    BY <1>10 DEF Mark
  <2>2. (Preloaded \subseteq Live(files))'
    BY <1>1, <1>2, <2>1 DEF MarkInv
  <2> QED
    BY <1>1, <1>2, <1>3, <1>5, <2>1, <2>2
       DEF LoaderInv, LoaderTypeOK, PassCounts, PassFiles, MarkInv, StopsSeeded
<1>11. CASE MarkFails
  <2>1. pc' = "stop" /\ UNCHANGED <<mark, attempt>> /\ ~clean'
    BY <1>11 DEF MarkFails, Fails
  <2> QED
    BY <1>1, <1>2, <1>3, <1>5, <2>1
       DEF LoaderInv, LoaderTypeOK, PassCounts, PassFiles, MarkInv, StopsSeeded
<1> QED
  BY <1>6, <1>7, <1>8, <1>9, <1>10, <1>11

(* A pass begins, writes, and is cut or given up.                          *)
LEMMA SaveStep ==
  ASSUME LoaderInv, Save
  PROVE  LoaderInv'
<1>1. LoaderTypeOK /\ LoaderIds /\ PassCounts /\ PassFiles /\ pc = "save"
  BY DEF LoaderInv, Save
<1>2. /\ item \in 1..ListLen /\ nextId = item - 1 /\ item \in Nat /\ ListLen \in Nat
      /\ attempt < Attempts
  BY <1>1, ListFacts DEF LoaderTypeOK, PassCounts, ListLen
<1> DEFINE n == AnimList[item]
           f == FileOf(item)
<1>3. n \in Name /\ f \in File /\ Valid(f) /\ f.hdr.id = item - 1
  BY <1>2, ListFacts, FileOfFacts
<1>4. /\ files' = [files EXCEPT ![n] = f] /\ nextId' = nextId + 1 /\ item' = item + 1
      /\ pc' = (IF item = ListLen THEN "verify" ELSE "save")
      /\ UNCHANGED <<fs, mark, attempt, cuts, uses, clean, faults>>
  <2>1. Seeded(item) = HeaderOf(item)
    BY <1>2, FileOfFacts
  <2> QED
    BY <2>1 DEF Save, Works, Counted, FileOf, ListLen
<1>5. \A m \in Name : files'[m] = IF m = n THEN f ELSE files[m]
  BY <1>1, <1>3, <1>4 DEF LoaderTypeOK
<1>6. \A m \in Live(files) : files[m].hdr.id \in 0..item - 2
  BY <1>1, PassIds
<1>7. LoaderIds'
  <2>1. \A m \in Live(files) \ {n} : files[m].hdr.id # f.hdr.id
    BY <1>2, <1>3, <1>6
  <2> HIDE DEF n, f
  <2> QED
    BY <1>1, <1>3, <1>4, <2>1, PutKeepsIds DEF LoaderTypeOK
<1>8. LoaderTypeOK'
  <2>1. files' \in [Name -> File]
    BY <1>1, <1>3, <1>4 DEF LoaderTypeOK
  <2>2. nextId' \in 0..Len(AnimList) /\ item' \in 1..Len(AnimList) + 1
    BY <1>2, <1>4, Bounds
  <2> QED
    BY <1>1, <1>4, <2>1, <2>2 DEF LoaderTypeOK
<1>9. PassCounts'
  BY <1>2, <1>4, ListFacts DEF PassCounts
<1>10. ASSUME NEW m \in Live(files') PROVE FromPass(m)'
  <2>1. CASE m = n
    <3>1. item \in 1..item' - 1 /\ files'[m] = FileOf(item) /\ m \in Name
      BY <1>2, <1>3, <1>4, <1>5, <2>1
    <3> QED
      BY <2>1, <3>1 DEF FromPass, FileOf, HeaderOf
  <2>2. CASE m # n
    <3>1. m \in Live(files) /\ files'[m] = files[m]
      BY <1>5, <2>2 DEF Live
    <3>2. PICK i \in 1..item - 1 : m = AnimList[i] /\ files[m] = FileOf(i)
      BY <1>1, <3>1 DEF PassFiles, FromPass
    <3>3. i \in 1..item' - 1
      BY <1>2, <1>4, <3>2
    <3> QED
      BY <3>1, <3>2, <3>3 DEF FromPass, FileOf, HeaderOf
  <2> QED
    BY <2>1, <2>2
<1>11. ASSUME clean', NEW i \in 1..item' - 1 PROVE AnimList[i] \in Live(files')
  <2>1. CASE i = item
    BY <1>3, <1>5, <2>1 DEF Live
  <2>2. CASE i # item
    <3>1. i \in 1..item - 1 /\ clean
      BY <1>2, <1>4, <1>11, <2>2
    <3>2. AnimList[i] \in Live(files)
      BY <1>1, <3>1 DEF PassFiles
    <3>3. AnimList[i] \in Name /\ AnimList[i] # n
      BY <1>2, <2>2, <3>1, ListFacts
    <3> QED
      BY <1>5, <3>2, <3>3 DEF Live
  <2> QED
    BY <2>1, <2>2
<1>12. PassFiles'
  BY <1>10, <1>11 DEF PassFiles
<1>13. pc' \in {"save", "verify"}
  BY <1>4
<1> QED
  BY <1>7, <1>8, <1>9, <1>12, <1>13 DEF LoaderInv, MarkInv, StopsSeeded

(* A file that a write spoils is no animation.                             *)
LEMMA SpoiltFile ==
  ASSUME LoaderInv, pc = "save", NEW f \in Spoilt(item),
         files' = [files EXCEPT ![AnimList[item]] = f]
  PROVE  /\ files' \in [Name -> File] /\ LoaderIds' /\ Live(files') \subseteq Live(files)
         /\ \A m \in Live(files') : files'[m] = files[m]
<1>1. LoaderTypeOK /\ LoaderIds /\ PassCounts
  BY DEF LoaderInv
<1>2. item \in 1..ListLen /\ nextId = item - 1
  BY <1>1, ListFacts DEF LoaderTypeOK, PassCounts, ListLen
<1>3. f \in File /\ ~Valid(f) /\ AnimList[item] \in Name
  BY <1>2, SpoiltFacts, ListFacts
<1>4. files \in [Name -> File]
  BY <1>1 DEF LoaderTypeOK
<1>5. \A m \in Name : files'[m] = IF m = AnimList[item] THEN f ELSE files[m]
  BY <1>3, <1>4
<1>6. files' \in [Name -> File]
  BY <1>3, <1>4
<1>7. LoaderIds'
  BY <1>1, <1>3, <1>4, PutKeepsIds
<1>8. \A m \in Live(files') : m \in Live(files) /\ files'[m] = files[m]
  BY <1>3, <1>5 DEF Live
<1> QED
  BY <1>6, <1>7, <1>8

(* A save that fails, or reads back wrong later, keeps the invariant.      *)
LEMMA SaveGoesWrong ==
  ASSUME LoaderInv, SaveFails \/ SaveRots
  PROVE  LoaderInv'
<1>1. LoaderTypeOK /\ LoaderIds /\ PassCounts /\ PassFiles /\ pc = "save"
  BY DEF LoaderInv, SaveFails, SaveRots
<1>2. /\ item \in 1..ListLen /\ nextId = item - 1 /\ item \in Nat /\ ListLen \in Nat
      /\ attempt < Attempts
  BY <1>1, ListFacts DEF LoaderTypeOK, PassCounts, ListLen
<1>3. /\ files' \in [Name -> File] /\ LoaderIds' /\ Live(files') \subseteq Live(files)
      /\ \A m \in Live(files') : files'[m] = files[m]
  <2>1. CASE files' = files
    BY <1>1, <2>1 DEF LoaderTypeOK, LoaderIds
  <2>2. CASE \E g \in Spoilt(item) : files' = [files EXCEPT ![AnimList[item]] = g]
    BY <1>1, <2>2, SpoiltFile
  <2> QED
    BY <2>1, <2>2 DEF SaveFails, SaveRots
<1>4. faults' \in 0..MaxFaults /\ clean' = FALSE
  <2>1. Fails
    BY DEF SaveFails, SaveRots
  <2> QED
    BY <1>1, <2>1, Outcome DEF Fails
<1>5. UNCHANGED <<fs, mark, cuts, uses>> /\ nextId' = nextId + 1
  BY DEF SaveFails, SaveRots, Counted
<1>6. nextId' \in 0..Len(AnimList)
  BY <1>2, <1>5, Bounds
<1>7. CASE SaveFails
  <2>1. /\ pc' \in {"reformat", "stop"} /\ item' = item /\ attempt' = attempt + 1
        /\ (pc' = "reformat" => attempt + 1 < Attempts)
    BY <1>7 DEF SaveFails, NextPass
  <2>2. attempt' \in 0..Attempts /\ (pc' = "reformat" => attempt' < Attempts)
    BY <1>1, <1>2, <2>1, Bounds DEF LoaderTypeOK
  <2>3. LoaderTypeOK'
    BY <1>1, <1>3, <1>4, <1>5, <1>6, <2>1, <2>2 DEF LoaderTypeOK
  <2> QED
    BY <1>3, <1>4, <2>1, <2>2, <2>3 DEF LoaderInv, PassCounts, PassFiles, MarkInv, StopsSeeded
<1>8. CASE SaveRots
  <2>1. /\ pc' = (IF item = ListLen THEN "verify" ELSE "save") /\ item' = item + 1
        /\ attempt' = attempt
    BY <1>8, Bounds DEF SaveRots
  <2>2. item' \in 1..Len(AnimList) + 1
    BY <1>2, <2>1, Bounds
  <2>3. LoaderTypeOK'
    BY <1>1, <1>3, <1>4, <1>5, <1>6, <2>1, <2>2 DEF LoaderTypeOK
  <2>4. PassCounts'
    BY <1>2, <1>5, <2>1, ListFacts DEF PassCounts
  <2>5. ASSUME NEW m \in Live(files') PROVE FromPass(m)'
    <3>1. m \in Live(files) /\ files'[m] = files[m]
      BY <1>3
    <3>2. PICK k \in 1..item - 1 : m = AnimList[k] /\ files[m] = FileOf(k)
      BY <1>1, <3>1 DEF PassFiles, FromPass
    <3>3. k \in 1..item' - 1
      BY <1>2, <2>1, <3>2
    <3> QED
      BY <3>1, <3>2, <3>3 DEF FromPass, FileOf, HeaderOf
  <2>6. PassFiles'
    BY <1>4, <2>5 DEF PassFiles
  <2> QED
    BY <1>3, <1>4, <2>1, <2>3, <2>4, <2>6 DEF LoaderInv, MarkInv, StopsSeeded
<1> QED
  BY <1>7, <1>8

(* So does a reformat before the next pass.                                *)
LEMMA ReformatStep ==
  ASSUME LoaderInv, Reformat \/ ReformatFails
  PROVE  LoaderInv'
<1>1. LoaderTypeOK /\ LoaderIds /\ PassCounts /\ ListLen \in Nat /\ ListLen > 0 /\ pc = "reformat"
  BY ListFacts DEF LoaderInv, Reformat, ReformatFails
<1>2. CASE Reformat
  <2>1. /\ files' = NoFiles /\ fs' = "mounts" /\ mark' = FALSE /\ nextId' = 0 /\ item' = 1
        /\ pc' = "save" /\ clean' = TRUE /\ UNCHANGED <<faults, attempt, cuts, uses>>
    BY <1>2 DEF Reformat, Formatted, Counted
  <2>2. 0 \in 0..Len(AnimList) /\ 1 \in 1..Len(AnimList) + 1
    BY <1>1, Bounds
  <2>3. LoaderTypeOK'
    BY <1>1, <2>1, <2>2, EmptyFlash DEF LoaderTypeOK
  <2>4. PassCounts'
    BY <1>1, <2>1 DEF PassCounts
  <2>5. PassFiles'
    BY <2>1, NoFilesFacts DEF PassFiles
  <2> QED
    BY <2>1, <2>3, <2>4, <2>5, EmptyFlash DEF LoaderInv, MarkInv, StopsSeeded
<1>3. CASE ReformatFails
  <2>1. /\ pc' = "stop" /\ clean' = FALSE /\ faults' \in 0..MaxFaults
        /\ UNCHANGED <<nextId, attempt, item, cuts, uses>>
    BY <1>1, <1>3, Outcome DEF ReformatFails, Fails, Counted
  <2>2. /\ LoaderIds' /\ files' \in [Name -> File] /\ fs' \in {"raw", "mounts"}
        /\ mark' \in BOOLEAN
    BY <1>1, <1>3, EmptyFlash DEF ReformatFails, LoaderTypeOK, LoaderIds
  <2>3. LoaderTypeOK'
    BY <1>1, <2>1, <2>2 DEF LoaderTypeOK
  <2> QED
    BY <2>1, <2>2, <2>3 DEF LoaderInv, PassCounts, PassFiles, MarkInv, StopsSeeded
<1> QED
  BY <1>2, <1>3

(* Between two runs of the loader.                                         *)
LEMMA PowerCutStep ==
  ASSUME LoaderInv, PowerCut
  PROVE  LoaderInv'
<1>1. LoaderTypeOK /\ LoaderIds
  BY DEF LoaderInv
<1>2. /\ pc' = "off" /\ clean' = TRUE /\ cuts' \in 0..MaxCuts
      /\ UNCHANGED <<nextId, attempt, item, faults, uses>>
  BY <1>1, Bounds DEF PowerCut, LoaderTypeOK
<1>3. files' \in [Name -> File] /\ LoaderIds' /\ fs' \in {"raw", "mounts"} /\ mark' \in BOOLEAN
  <2>1. CASE UNCHANGED <<fs, files, mark>>
    BY <1>1, <2>1 DEF LoaderTypeOK, LoaderIds
  <2>2. CASE fs' = "raw" /\ files' = NoFiles /\ mark' = FALSE
    BY <2>2, EmptyFlash
  <2>3. CASE /\ pc = "save" /\ UNCHANGED <<fs, mark>>
             /\ \E g \in Spoilt(item) : files' = [files EXCEPT ![AnimList[item]] = g]
    BY <1>1, <2>3, SpoiltFile DEF LoaderTypeOK
  <2> QED
    BY <2>1, <2>2, <2>3 DEF PowerCut
<1>4. LoaderTypeOK'
  BY <1>1, <1>2, <1>3 DEF LoaderTypeOK
<1> QED
  BY <1>2, <1>3, <1>4 DEF LoaderInv, PassCounts, PassFiles, MarkInv, StopsSeeded

(* So does what the badge does with its store between two runs.            *)
LEMMA UseStep ==
  ASSUME LoaderInv, Use
  PROVE  LoaderInv'
<1>1. LoaderTypeOK /\ LoaderIds /\ files \in [Name -> File]
  BY DEF LoaderInv, LoaderTypeOK
<1>2. /\ pc = "off" /\ uses' \in 0..MaxUses
      /\ UNCHANGED <<pc, fs, mark, nextId, attempt, item, faults, cuts, clean>>
  BY <1>1, Bounds DEF Use, LoaderTypeOK
<1>3. files' \in [Name -> File] /\ LoaderIds'
  <2>1. ASSUME NEW n \in Live(files), files' = [files EXCEPT ![n] = Absent]
        PROVE files' \in [Name -> File] /\ LoaderIds'
    <3>1. Absent \in File /\ ~Valid(Absent) /\ n \in Name
      <4>1. ZeroAnim \in Anim
        BY BoundAssumption DEF ZeroAnim, Anim
      <4> QED
        BY <4>1, EmptySeq DEF Absent, File, Valid, Live
    <3> QED
      BY <1>1, <2>1, <3>1, PutKeepsIds
  <2>2. ASSUME NEW n \in Live(files), files' = [files EXCEPT ![n].hdr.unlocked = TRUE]
        PROVE files' \in [Name -> File] /\ LoaderIds'
    <3> DEFINE g == [files[n] EXCEPT !.hdr.unlocked = TRUE]
    <3>1. n \in Name /\ files[n] \in File /\ Valid(files[n])
      BY <1>1 DEF Live
    <3>2. g \in File /\ g.hdr.id = files[n].hdr.id
      BY <3>1 DEF File, Anim
    <3>3. \A m \in Live(files) \ {n} : files[m].hdr.id # g.hdr.id
      BY <1>1, <2>2, <3>2 DEF LoaderIds
    <3>4. files' = [files EXCEPT ![n] = g]
      BY <2>2
    <3> HIDE DEF g
    <3> QED
      BY <1>1, <3>1, <3>2, <3>3, <3>4, PutKeepsIds
  <2>3. ASSUME NEW n \in Name \ Live(files), NextIdAfter(files, Live(files)) <= MaxId,
               files' = [files EXCEPT ![n] =
                 Stored([name |-> n, len |-> AnimLen[n], delay |-> Delay, unlocked |-> TRUE,
                         id |-> NextIdAfter(files, Live(files)), direct |-> FALSE], FramesOf(n))]
        PROVE files' \in [Name -> File] /\ LoaderIds'
    <3> DEFINE new == NextIdAfter(files, Live(files))
               h == [name |-> n, len |-> AnimLen[n], delay |-> Delay, unlocked |-> TRUE,
                     id |-> new, direct |-> FALSE]
               g == Stored(h, FramesOf(n))
    <3>1. Live(files) \subseteq Name
      BY DEF Live
    <3>2. new \in 0..MaxId + 1 /\ \A m \in Live(files) : files[m].hdr.id < new
      BY <1>1, <3>1, NextIdAbove
    <3>3. new \in 0..MaxId
      BY <2>3, <3>2, BoundAssumption
    <3>4. \A m \in Live(files) : files[m].hdr.id \in Nat
      BY <1>1, <3>1 DEF File, Anim
    <3>5. AnimLen[n] \in Nat /\ Delay \in Nat
      BY BoundAssumption, LoaderAssumption
    <3> HIDE DEF new
    <3>6. h \in Anim /\ h.id = new
      BY <3>3, <3>5 DEF Anim
    <3>7. g \in File /\ g.hdr.id = new
      BY <3>6, FramesOfType DEF Stored, File
    <3>8. \A m \in Live(files) \ {n} : files[m].hdr.id # g.hdr.id
      BY <3>2, <3>3, <3>4, <3>7
    <3>9. files' = [files EXCEPT ![n] = g]
      BY <2>3 DEF new
    <3> HIDE DEF g
    <3> QED
      BY <1>1, <3>7, <3>8, <3>9, PutKeepsIds
  <2> QED
    BY <2>1, <2>2, <2>3 DEF Use
<1>4. LoaderTypeOK'
  BY <1>1, <1>2, <1>3 DEF LoaderTypeOK
<1> QED
  BY <1>2, <1>3, <1>4 DEF LoaderInv, PassCounts, PassFiles, MarkInv, StopsSeeded

-----------------------------------------------------------------------------
(* The theorems.                                                           *)

(* The invariant holds throughout.                                         *)
LEMMA LoaderStays == LoaderSpec => []LoaderInv
<1>1. LoaderInit => LoaderInv
  <2> SUFFICES ASSUME LoaderInit PROVE LoaderInv
    OBVIOUS
  <2>1. files = NoFiles /\ pc = "off"
    BY DEF LoaderInit
  <2>2. files \in [Name -> File] /\ LoaderIds
    BY <2>1, NoFilesFacts DEF LoaderIds
  <2>3. /\ 0 \in 0..Len(AnimList) /\ 1 \in 1..Len(AnimList) + 1 /\ 0 \in 0..Attempts
        /\ 0 \in 0..MaxFaults /\ 0 \in 0..MaxCuts /\ 0 \in 0..MaxUses
    BY Bounds, ListFacts
  <2>4. LoaderTypeOK
    BY <2>2, <2>3 DEF LoaderInit, LoaderTypeOK
  <2> QED
    BY <2>1, <2>2, <2>4 DEF LoaderInv, PassCounts, PassFiles, MarkInv, StopsSeeded
<1>2. LoaderInv /\ [LoaderNext]_ldvars => LoaderInv'
  <2> SUFFICES ASSUME LoaderInv, [LoaderNext]_ldvars PROVE LoaderInv'
    OBVIOUS
  <2>1. CASE UNCHANGED ldvars
    BY <2>1 DEF ldvars, LoaderInv, LoaderTypeOK, PassCounts, PassFiles, FromPass, MarkInv,
                LoaderIds, StopsSeeded, Complete
  <2> QED
    BY <2>1, BootsStep, ChecksStep, SaveStep, SaveGoesWrong, ReformatStep, PowerCutStep, UseStep
       DEF LoaderNext, Seeds
<1> QED
  BY <1>1, <1>2, PTL DEF LoaderSpec

(* LoaderTypeOK for any list, any badge id and any number of faults.       *)
THEOREM LoaderTyped == LoaderSpec => []LoaderTypeOK
<1>1. LoaderInv => LoaderTypeOK
  BY DEF LoaderInv
<1> QED
  BY <1>1, LoaderStays, PTL

(* LoaderIds and the types for any list: no two animations on flash ever   *)
(* share an id, whatever fails and wherever the power goes.                *)
THEOREM IdsStayApart == LoaderSpec => [](LoaderTypeOK /\ LoaderIds)
<1>1. LoaderInv => LoaderTypeOK /\ LoaderIds
  BY DEF LoaderInv
<1> QED
  BY <1>1, LoaderStays, PTL

(* StopsSeeded for any list and any number of faults.                      *)
THEOREM CleanRunsSeed == LoaderSpec => []StopsSeeded
<1>1. LoaderInv => StopsSeeded
  BY DEF LoaderInv
<1> QED
  BY <1>1, LoaderStays, PTL

(* MarksCompleteStore for any list and any badge id: whenever the mark is  *)
(* set, the store is the one a badge is expected to start from.            *)
THEOREM MarkedStoresAreComplete == LoaderSpec => MarksCompleteStore
<1>1. LoaderInv /\ [LoaderNext]_ldvars => (~mark /\ mark' => Complete(files'))
  <2> SUFFICES ASSUME LoaderInv, [LoaderNext]_ldvars, ~mark, mark' PROVE Complete(files')
    OBVIOUS
  <2>1. CASE Mark
    <3>1. Complete(files) /\ files' = files
      BY <2>1 DEF LoaderInv, MarkInv, Mark
    <3> QED
      BY <3>1
  <2>2. CASE ~Mark
    BY <2>2 DEF LoaderNext, Boots, InitKeeps, InitFormats, InitFails, InitFormatCut, Formatted,
                Seeds, CheckPresent, CheckMisses, Reformat, ReformatFails, Save, SaveFails,
                SaveRots, Verify, VerifyMisses, MarkFails, PowerCut, Use, ldvars
  <2> QED
    BY <2>1, <2>2
<1> QED
  BY <1>1, LoaderStays, PTL DEF LoaderSpec, MarksCompleteStore

(* A mark is on a filesystem, a pass runs on one without a mark, and while *)
(* nothing has failed the flash is formatted again only if an animation is *)
(* missing.                                                                *)
UsedInv ==
  /\ mark \/ pc \in {"check", "save", "verify", "mark"} => fs = "mounts"
  /\ pc \in {"save", "verify"} => ~mark
  /\ pc = "reformat" /\ faults = 0 => ~(Preloaded \subseteq Live(files))

(* Every step keeps that.                                                  *)
LEMMA UsedStep ==
  ASSUME LoaderTypeOK, UsedInv, [LoaderNext]_ldvars
  PROVE  UsedInv'
<1>1. faults \in Nat
  BY Bounds DEF LoaderTypeOK
<1>2. AllPresent <=> Preloaded \subseteq Live(files)
  BY ListFacts DEF AllPresent, Preloaded, Live
<1>3. CASE CheckMisses \/ VerifyMisses
  <2>1. UNCHANGED <<fs, files, mark>> /\ pc' \in {"reformat", "stop"}
    BY <1>3 DEF CheckMisses, VerifyMisses, NextPass
  <2>2. AllPresent => faults' = faults + 1
    BY <1>3 DEF CheckMisses, VerifyMisses, Fails
  <2> QED
    BY <1>1, <1>2, <2>1, <2>2 DEF UsedInv
<1>4. CASE Reformat
  BY <1>4 DEF Reformat, Formatted, UsedInv
<1>5. CASE SaveFails
  <2>1. faults' = faults + 1 /\ pc' \in {"reformat", "stop"} /\ UNCHANGED <<fs, mark>>
    BY <1>5 DEF SaveFails, Fails, NextPass
  <2> QED
    BY <1>1, <2>1 DEF UsedInv
<1>6. CASE Save \/ SaveRots
  BY <1>6 DEF Save, SaveRots, UsedInv
<1>7. CASE Boots
  BY <1>7 DEF Boots, InitKeeps, InitFormats, InitFails, Formatted, UsedInv
<1>8. CASE CheckPresent \/ Verify \/ Mark \/ MarkFails
  BY <1>8 DEF CheckPresent, Verify, Mark, MarkFails, UsedInv
<1>9. CASE ReformatFails
  BY <1>9 DEF ReformatFails, UsedInv
<1>10. CASE PowerCut
  BY <1>10 DEF PowerCut, UsedInv
<1>11. CASE InitFormatCut \/ Use
  BY <1>11 DEF InitFormatCut, Use, UsedInv
<1>12. CASE UNCHANGED ldvars
  BY <1>12 DEF ldvars, UsedInv
<1> QED
  BY <1>3, <1>4, <1>5, <1>6, <1>7, <1>8, <1>9, <1>10, <1>11, <1>12 DEF LoaderNext, Seeds

(* LeavesUsedStore for any list and any number of uses.                    *)
THEOREM UsedStoresAreLeft == LoaderSpec => LeavesUsedStore
<1>1. LoaderInit => UsedInv
  BY DEF LoaderInit, UsedInv
<1>2. LoaderInv /\ UsedInv /\ [LoaderNext]_ldvars => UsedInv'
  BY UsedStep DEF LoaderInv
<1>3. LoaderInv /\ UsedInv /\ [LoaderNext]_ldvars =>
        (mark /\ Preloaded \subseteq Live(files) /\ faults' = 0 /\ uses' = uses =>
           UNCHANGED <<files, mark>>)
  <2> SUFFICES ASSUME LoaderInv, UsedInv, [LoaderNext]_ldvars,
                      mark, Preloaded \subseteq Live(files), faults' = 0, uses' = uses
               PROVE  UNCHANGED <<files, mark>>
    OBVIOUS
  <2>1. faults \in Nat /\ uses \in Nat
    BY Bounds DEF LoaderInv, LoaderTypeOK
  <2>2. ~Fails
    BY <2>1 DEF Fails
  <2>3. faults = 0 => pc \notin {"save", "verify", "reformat"}
    BY DEF UsedInv
  <2>4. CASE CheckPresent \/ CheckMisses \/ Verify \/ VerifyMisses \/ MarkFails
    BY <2>4 DEF CheckPresent, CheckMisses, Verify, VerifyMisses, MarkFails
  <2>5. CASE Mark
    BY <2>5 DEF Mark, LoaderInv, LoaderTypeOK
  <2>6. CASE SaveFails \/ SaveRots \/ ReformatFails
    BY <2>2, <2>6 DEF SaveFails, SaveRots, ReformatFails
  <2>7. CASE Save \/ Reformat
    <3>1. pc \in {"save", "reformat"} /\ faults = 0
      BY <2>7 DEF Save, Reformat, Works
    <3> QED
      BY <2>3, <3>1
  <2>8. CASE Boots \/ InitFormatCut
    <3>1. fs = "mounts"
      BY DEF UsedInv
    <3> QED
      BY <2>2, <2>8, <3>1 DEF Boots, InitKeeps, InitFormats, InitFails, InitFormatCut
  <2>9. CASE PowerCut
    BY <2>3, <2>9 DEF PowerCut
  <2>10. CASE Use
    BY <2>1, <2>10 DEF Use
  <2>11. CASE UNCHANGED ldvars
    BY <2>11 DEF ldvars
  <2> QED
    BY <2>4, <2>5, <2>6, <2>7, <2>8, <2>9, <2>10, <2>11 DEF LoaderNext, Seeds
<1> QED
  BY <1>1, <1>2, <1>3, LoaderStays, PTL DEF LoaderSpec, LeavesUsedStore
=============================================================================
