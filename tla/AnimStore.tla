------------------------------ MODULE AnimStore ------------------------------
(***************************************************************************)
(* What badge_drivers/storage.c computes over the flash: the shape of a    *)
(* stored animation, which files count as animations, the scan that        *)
(* rebuilds the in-memory index at boot, and the choice of the animation   *)
(* the SELECT button moves to.  The module has no state of its own; Badge  *)
(* owns the flash and the index and changes them with these operators.     *)
(***************************************************************************)
EXTENDS Integers, Sequences, FiniteSets, FiniteSetsExt

CONSTANTS
  Name,          \* names an animation can have (at most 15 characters and a terminator)
  NoName,        \* the empty name of a zeroed descriptor
  Unterminated,  \* any 16 bytes without a terminator
  AnimLen,       \* the number of frames the animation of each name has
  MaxFrames,     \* STORAGE_MAX_ANIM_FRAMES
  MaxId,         \* bound: the largest animation id a behaviour hands out
  CacheSize      \* STORAGE_ANIMS_TO_CACHE

ASSUME NameAssumption ==
  /\ NoName \notin Name /\ Unterminated \notin Name /\ Unterminated # NoName
  /\ IsFiniteSet(Name)

ASSUME BoundAssumption ==
  /\ MaxFrames \in Nat \ {0} /\ MaxId \in Nat /\ CacheSize \in Nat \ {0}
  /\ AnimLen \in [Name -> 1..MaxFrames]

(* A frame is named by the animation and the position it was drawn for.    *)
(* Torn is a frame of which only a part reached flash, Junk is whatever    *)
(* the receive buffer holds when that is not a frame of an animation.      *)
Frame == (Name \cup {NoName}) \X (0..MaxFrames)
Torn == <<NoName, 0>>
Junk == <<NoName, 1>>
FramesOf(n) == [k \in 1..AnimLen[n] |-> <<n, k - 1>>]

(* led_anim_t.  "direct" says that anim_frames is not NULL: the frames are *)
(* compiled in, nothing of the animation is read from flash.               *)
Anim == [name : Name \cup {NoName, Unterminated}, len : Nat, delay : Nat,
         id : 0..MaxId, unlocked : BOOLEAN, direct : BOOLEAN]
ZeroAnim == [name |-> NoName, len |-> 0, delay |-> 0, id |-> 0,
             unlocked |-> FALSE, direct |-> FALSE]

(* A file of /a/.  A stub has no header: it is too short to hold one, or   *)
(* has something else in its place.                                        *)
File == [kind : {"absent", "stub", "data"}, hdr : Anim, frames : Seq(Frame)]
Absent == [kind |-> "absent", hdr |-> ZeroAnim, frames |-> << >>]
Stub == [kind |-> "stub", hdr |-> ZeroAnim, frames |-> << >>]
Stored(h, fr) == [kind |-> "data", hdr |-> h, frames |-> fr]

(* storage_anim_saved_and_valid: the size of the file is the one its own   *)
(* header announces.                                                       *)
Whole(f) == \A k \in 1..Len(f.frames) : f.frames[k] # Torn
Valid(f) == f.kind = "data" /\ Len(f.frames) = f.hdr.len /\ Whole(f)

Live(fs) == {n \in Name : Valid(fs[n])}

(* storage_save_direct_anim opens without O_TRUNC, so frames of an older   *)
(* and longer file stay behind the new ones.                               *)
Overlaid(f, h, fr) ==
  Stored(h, fr \o SubSeq(f.frames, Len(fr) + 1, Len(f.frames)))

(* The cache with its bound check dropped, and a deletion that leaves it.  *)
CachedAnywhere(cache, id, n) ==
  [i \in (DOMAIN cache) \cup {id} |-> IF i = id THEN n ELSE cache[i]]
UncachedNever(cache, n) == cache

(* storage_cache_anim_name and storage_uncache_anim_name_by_name.          *)
Cached(cache, id, n) == IF id < CacheSize THEN [cache EXCEPT ![id] = n] ELSE cache
Uncached(cache, n) == [i \in DOMAIN cache |-> IF cache[i] = n THEN NoName ELSE cache[i]]

Cache == [0..CacheSize - 1 -> Name \cup {NoName}]
Index == [cache : Cache, nextId : 0..MaxId + 1]
NoIndex == [cache |-> [i \in 0..CacheSize - 1 |-> NoName], nextId |-> 0]

(* The directory scan of storage_init over the files "seen" of those that  *)
(* read back as animations: one past the highest id, and every unlocked    *)
(* name under its id.                                                      *)
NextIdAtHighest(fs, seen) == Min({k \in 0..MaxId + 1 : \A n \in seen : fs[n].hdr.id <= k})
NextIdAfter(fs, seen) == Min({k \in 0..MaxId + 1 : \A n \in seen : fs[n].hdr.id < k})

UnlockedAt(fs, seen, id) == {n \in seen : fs[n].hdr.unlocked /\ fs[n].hdr.id = id}

Scanned(fs, seen) ==
  [nextId |-> NextIdAfter(fs, seen),
   cache  |-> [i \in 0..CacheSize - 1 |->
                 IF UnlockedAt(fs, seen, i) = {} THEN NoName
                 ELSE CHOOSE n \in UnlockedAt(fs, seen, i) : TRUE]]

(* storage_get_next_anim_name: the lowest id above the current one, or the *)
(* lowest of all when there is none above.  While every id fits the cache  *)
(* the cached names decide and the current slot is the last resort; beyond *)
(* that the files decide and there is no last resort.                      *)
LowestNext(ids, cur) == Min(ids)
CyclicNext(ids, cur) ==
  IF \E i \in ids : i > cur THEN Min({i \in ids : i > cur}) ELSE Min(ids)

NextName(fs, seen, index, cur) ==
  LET filled == {i \in 0..CacheSize - 1 : i < index.nextId /\ index.cache[i] # NoName} \ {cur}
      ids == {fs[n].hdr.id : n \in {m \in seen : fs[m].hdr.unlocked}} \ {cur}
  IN IF index.nextId <= CacheSize
     THEN IF filled # {} THEN index.cache[CyclicNext(filled, cur)]
          ELSE IF cur < index.nextId THEN index.cache[cur] ELSE NoName
     ELSE IF ids # {} THEN CHOOSE n \in UnlockedAt(fs, seen, CyclicNext(ids, cur)) : TRUE
          ELSE NoName
=============================================================================
