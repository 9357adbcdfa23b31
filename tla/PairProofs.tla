------------------------------ MODULE PairProofs ------------------------------
(***************************************************************************)
(* Proofs about two badges held near each other: what either holds is      *)
(* intact, and what the last ACK of a send says is so.                     *)
(***************************************************************************)
EXTENDS TwoBadges, TLAPS

(* What a badge of the pair can hear.                                      *)
HonestMessages == {m \in Message :
  /\ m.op = "PUTFILE" => m.body.name \in Name /\ m.body.len = AnimLen[m.body.name]
  /\ m.op = "APPFILE" => m.body # Torn}

(* The lemmas of TradeProofs, of the near badge and of the far one.        *)
NearP == INSTANCE TradeProofs WITH PeerMessages <- HonestMessages, MaxCuts <- 0, cuts <- 0
FarP == INSTANCE TradeProofs WITH
  PeerMessages <- HonestMessages, MaxCuts <- 0, cuts <- 0,
  Self <- Peer, Seed <- PeerSeed, boot <- pboot, post <- ppost, link <- plink,
  ev <- pev, flash <- pflash, index <- pindex, led <- pled, inq <- outq, outq <- inq

(* The constants of the near badge are as its lemmas assume.               *)
LEMMA NearAssumed ==
  /\ NearP!NameAssumption
  /\ NearP!BoundAssumption
  /\ NearP!StationAssumption
  /\ NearP!SystemAssumption
  /\ NearP!LimitAssumption
  /\ NearP!SeedAssumption
  /\ NearP!PeerAssumption
<1>1. NearP!NameAssumption
  BY NameAssumption DEF NearP!NameAssumption, NearP!IsFiniteSet, IsFiniteSet
<1>2. NearP!BoundAssumption
  BY BoundAssumption DEF NearP!BoundAssumption
<1>3. NearP!StationAssumption
  BY StationAssumption DEF NearP!StationAssumption
<1>4. NearP!SystemAssumption
  BY SystemAssumption DEF NearP!SystemAssumption, NearP!SystemName, SystemName
<1>5. NearP!LimitAssumption
  BY LimitAssumption DEF NearP!LimitAssumption, NearP!IoFault, IoFault,
    NearP!LinkFault, LinkFault
<1>6. NearP!SeedAssumption
  BY SeedAssumption DEF NearP!SeedAssumption, NearP!Anim, Anim
<1>7. NearP!PeerAssumption
  BY DEF NearP!PeerAssumption, NearP!Acceptable, Acceptable, NearP!Message,
    Message, NearP!Bare, Bare, NearP!Anim, Anim, NearP!Frame, Frame,
    NearP!Torn, Torn, HonestMessages
<1> QED
  BY <1>1, <1>2, <1>3, <1>4, <1>5, <1>6, <1>7

(* So are those of the far one: the assumptions on Peer and PeerSeed.      *)
LEMMA FarAssumed ==
  /\ FarP!NameAssumption
  /\ FarP!BoundAssumption
  /\ FarP!StationAssumption
  /\ FarP!SystemAssumption
  /\ FarP!LimitAssumption
  /\ FarP!SeedAssumption
  /\ FarP!PeerAssumption
<1>1. FarP!NameAssumption
  BY NameAssumption DEF FarP!NameAssumption, FarP!IsFiniteSet, IsFiniteSet
<1>2. FarP!BoundAssumption
  BY BoundAssumption DEF FarP!BoundAssumption
<1>3. FarP!StationAssumption
  BY StationAssumption, PairAssumption DEF FarP!StationAssumption
<1>4. FarP!SystemAssumption
  BY SystemAssumption DEF FarP!SystemAssumption, FarP!SystemName, SystemName
<1>5. FarP!LimitAssumption
  BY LimitAssumption DEF FarP!LimitAssumption, FarP!IoFault, IoFault,
    FarP!LinkFault, LinkFault
<1>6. FarP!SeedAssumption
  BY PairAssumption DEF FarP!SeedAssumption, FarP!Anim, Anim
<1>7. FarP!PeerAssumption
  BY DEF FarP!PeerAssumption, FarP!Acceptable, Acceptable, FarP!Message,
    Message, FarP!Bare, Bare, FarP!Anim, Anim, FarP!Frame, Frame, FarP!Torn,
    Torn, HonestMessages
<1> QED
  BY <1>1, <1>2, <1>3, <1>4, <1>5, <1>6, <1>7

(* What the near badge does is what the badge of TradeProofs does.         *)
LEMMA NearSteps ==
  /\ Init => NearP!Init
  /\ Boot => NearP!Boot
  /\ Receive => NearP!Receive
  /\ RxAckLast => NearP!RxAckLast
  /\ RxLost => NearP!RxLost
  /\ RxGarbledPayload => NearP!RxGarbledPayload
  /\ Start => NearP!Start
  /\ TimeOut => NearP!TimeOut
  /\ Export => NearP!Export
  /\ Import => NearP!Import
  /\ PowerCut => NearP!PowerCut
<1> USE DEF Torn, NearP!Torn, Junk, NearP!Junk, FramesOf, NearP!FramesOf,
        ZeroAnim, NearP!ZeroAnim, Absent, NearP!Absent, Stub, NearP!Stub,
        Stored, NearP!Stored, Whole, NearP!Whole, Valid, NearP!Valid, Live,
        NearP!Live, Overlaid, NearP!Overlaid, Cached, NearP!Cached, Uncached,
        NearP!Uncached, NoIndex, NearP!NoIndex, NextIdAfter,
        NearP!NextIdAfter, UnlockedAt, NearP!UnlockedAt, Scanned,
        NearP!Scanned, CyclicNext, NearP!CyclicNext, NextName, NearP!NextName,
        SystemName, NearP!SystemName, Booted, NearP!Booted, Running,
        NearP!Running, Direct, NearP!Direct, SendAnim, NearP!SendAnim,
        RecvAnim, NearP!RecvAnim, StartupAnim, NearP!StartupAnim, NewLink,
        NearP!NewLink, NewLed, NearP!NewLed, HasPayload, NearP!HasPayload,
        Noise, NearP!Noise, SeededFile, NearP!SeededFile, Init, NearP!Init,
        Outcomes, NearP!Outcomes, Can, NearP!Can, MayFail, NearP!MayFail,
        Readings, NearP!Readings, AfterSetAnim, NearP!AfterSetAnim, PutFile,
        NearP!PutFile, OverwrittenId, NearP!OverwrittenId, StorageInitFails,
        NearP!StorageInitFails, Mounted, NearP!Mounted, StorageInit,
        NearP!StorageInit, StorageInitFormats, NearP!StorageInitFormats,
        SavedDirect, NearP!SavedDirect, LedInitKeeps, NearP!LedInitKeeps,
        LedInitSaves, NearP!LedInitSaves, LedInitShows, NearP!LedInitShows,
        Msg, NearP!Msg, Say, NearP!Say, Reply, NearP!Reply, ToIdle,
        NearP!ToIdle, Buffered, NearP!Buffered, FromPeer, NearP!FromPeer,
        Arrives, NearP!Arrives, Take, NearP!Take, TakeHeaderOnly,
        NearP!TakeHeaderOnly, Expected, NearP!Expected, RxIgnored,
        NearP!RxIgnored, RxRejected, NearP!RxRejected, RxNoise, NearP!RxNoise,
        RxLost, NearP!RxLost, RxGarbledPayload, NearP!RxGarbledPayload,
        RxGetFile, NearP!RxGetFile, RxHelo, NearP!RxHelo, AfterLeaving,
        NearP!AfterLeaving, Deletable, NearP!Deletable, RxDelete,
        NearP!RxDelete, RxDeleteRefused, NearP!RxDeleteRefused, Offer,
        NearP!Offer, Acceptable, NearP!Acceptable, RxPutRefused,
        NearP!RxPutRefused, Offered, NearP!Offered, Receiving,
        NearP!Receiving, Declining, NearP!Declining, Local, NearP!Local,
        Saved, NearP!Saved, RxPutUnreadable, NearP!RxPutUnreadable,
        RxPutDiscarded, NearP!RxPutDiscarded, RxPutUnlocks,
        NearP!RxPutUnlocks, RxPutNew, NearP!RxPutNew, FrameArrives,
        NearP!FrameArrives, AppendFrame, NearP!AppendFrame, FrameStored,
        NearP!FrameStored, RxFrame, NearP!RxFrame, RxLastFrame,
        NearP!RxLastFrame, RxFrameUnwritten, NearP!RxFrameUnwritten,
        StartSendDeclined, NearP!StartSendDeclined, StartSend,
        NearP!StartSend, StartGet, NearP!StartGet, EndSend, NearP!EndSend,
        Sending, NearP!Sending, Acked, NearP!Acked, Frames, NearP!Frames,
        RxAckLast, NearP!RxAckLast, RxAck, NearP!RxAck, RxNackResends,
        NearP!RxNackResends, RxNackGivesUp, NearP!RxNackGivesUp,
        TimeoutSending, NearP!TimeoutSending, TimeoutReceiving,
        NearP!TimeoutReceiving, Press, NearP!Press, Export, NearP!Export,
        Import, NearP!Import, IdUnwritten, NearP!IdUnwritten, Seeding,
        NearP!Seeding, Truncating, NearP!Truncating, PowerCut, NearP!PowerCut,
        Boot, NearP!Boot, Receive, NearP!Receive, Start, NearP!Start, TimeOut,
        NearP!TimeOut, Min, NearP!Min
<1>1. Init => NearP!Init
  OBVIOUS
<1>2. Boot => NearP!Boot
  OBVIOUS
<1>3. Receive => NearP!Receive
  OBVIOUS
<1>4. RxAckLast => NearP!RxAckLast
  OBVIOUS
<1>5. RxLost => NearP!RxLost
  OBVIOUS
<1>6. RxGarbledPayload => NearP!RxGarbledPayload
  OBVIOUS
<1>7. Start => NearP!Start
  OBVIOUS
<1>8. TimeOut => NearP!TimeOut
  OBVIOUS
<1>9. Export => NearP!Export
  OBVIOUS
<1>10. Import => NearP!Import
  OBVIOUS
<1>11. PowerCut => NearP!PowerCut
  OBVIOUS
<1> QED
  BY <1>1, <1>2, <1>3, <1>4, <1>5, <1>6, <1>7, <1>8, <1>9, <1>10, <1>11

(* What the far badge does is what it does with the queues exchanged.      *)
LEMMA FarSteps ==
  /\ Far!Init => FarP!Init
  /\ Far!Boot => FarP!Boot
  /\ Far!Receive => FarP!Receive
  /\ Far!RxAckLast => FarP!RxAckLast
  /\ Far!RxLost => FarP!RxLost
  /\ Far!RxGarbledPayload => FarP!RxGarbledPayload
  /\ Far!Start => FarP!Start
  /\ Far!TimeOut => FarP!TimeOut
  /\ Far!Export => FarP!Export
  /\ Far!Import => FarP!Import
  /\ Far!PowerCut => FarP!PowerCut
<1> USE DEF Far!Torn, FarP!Torn, Far!Junk, FarP!Junk, Far!FramesOf,
        FarP!FramesOf, Far!ZeroAnim, FarP!ZeroAnim, Far!Absent, FarP!Absent,
        Far!Stub, FarP!Stub, Far!Stored, FarP!Stored, Far!Whole, FarP!Whole,
        Far!Valid, FarP!Valid, Far!Live, FarP!Live, Far!Overlaid,
        FarP!Overlaid, Far!Cached, FarP!Cached, Far!Uncached, FarP!Uncached,
        Far!NoIndex, FarP!NoIndex, Far!NextIdAfter, FarP!NextIdAfter,
        Far!UnlockedAt, FarP!UnlockedAt, Far!Scanned, FarP!Scanned,
        Far!CyclicNext, FarP!CyclicNext, Far!NextName, FarP!NextName,
        Far!SystemName, FarP!SystemName, Far!Booted, FarP!Booted, Far!Running,
        FarP!Running, Far!Direct, FarP!Direct, Far!SendAnim, FarP!SendAnim,
        Far!RecvAnim, FarP!RecvAnim, Far!StartupAnim, FarP!StartupAnim,
        Far!NewLink, FarP!NewLink, Far!NewLed, FarP!NewLed, Far!HasPayload,
        FarP!HasPayload, Far!Noise, FarP!Noise, Far!SeededFile,
        FarP!SeededFile, Far!Init, FarP!Init, Far!Outcomes, FarP!Outcomes,
        Far!Can, FarP!Can, Far!MayFail, FarP!MayFail, Far!Readings,
        FarP!Readings, Far!AfterSetAnim, FarP!AfterSetAnim, Far!PutFile,
        FarP!PutFile, Far!OverwrittenId, FarP!OverwrittenId,
        Far!StorageInitFails, FarP!StorageInitFails, Far!Mounted,
        FarP!Mounted, Far!StorageInit, FarP!StorageInit,
        Far!StorageInitFormats, FarP!StorageInitFormats, Far!SavedDirect,
        FarP!SavedDirect, Far!LedInitKeeps, FarP!LedInitKeeps,
        Far!LedInitSaves, FarP!LedInitSaves, Far!LedInitShows,
        FarP!LedInitShows, Far!Msg, FarP!Msg, Far!Say, FarP!Say, Far!Reply,
        FarP!Reply, Far!ToIdle, FarP!ToIdle, Far!Buffered, FarP!Buffered,
        Far!FromPeer, FarP!FromPeer, Far!Arrives, FarP!Arrives, Far!Take,
        FarP!Take, Far!TakeHeaderOnly, FarP!TakeHeaderOnly, Far!Expected,
        FarP!Expected, Far!RxIgnored, FarP!RxIgnored, Far!RxRejected,
        FarP!RxRejected, Far!RxNoise, FarP!RxNoise, Far!RxLost, FarP!RxLost,
        Far!RxGarbledPayload, FarP!RxGarbledPayload, Far!RxGetFile,
        FarP!RxGetFile, Far!RxHelo, FarP!RxHelo, Far!AfterLeaving,
        FarP!AfterLeaving, Far!Deletable, FarP!Deletable, Far!RxDelete,
        FarP!RxDelete, Far!RxDeleteRefused, FarP!RxDeleteRefused, Far!Offer,
        FarP!Offer, Far!Acceptable, FarP!Acceptable, Far!RxPutRefused,
        FarP!RxPutRefused, Far!Offered, FarP!Offered, Far!Receiving,
        FarP!Receiving, Far!Declining, FarP!Declining, Far!Local, FarP!Local,
        Far!Saved, FarP!Saved, Far!RxPutUnreadable, FarP!RxPutUnreadable,
        Far!RxPutDiscarded, FarP!RxPutDiscarded, Far!RxPutUnlocks,
        FarP!RxPutUnlocks, Far!RxPutNew, FarP!RxPutNew, Far!FrameArrives,
        FarP!FrameArrives, Far!AppendFrame, FarP!AppendFrame, Far!FrameStored,
        FarP!FrameStored, Far!RxFrame, FarP!RxFrame, Far!RxLastFrame,
        FarP!RxLastFrame, Far!RxFrameUnwritten, FarP!RxFrameUnwritten,
        Far!StartSendDeclined, FarP!StartSendDeclined, Far!StartSend,
        FarP!StartSend, Far!StartGet, FarP!StartGet, Far!EndSend,
        FarP!EndSend, Far!Sending, FarP!Sending, Far!Acked, FarP!Acked,
        Far!Frames, FarP!Frames, Far!RxAckLast, FarP!RxAckLast, Far!RxAck,
        FarP!RxAck, Far!RxNackResends, FarP!RxNackResends, Far!RxNackGivesUp,
        FarP!RxNackGivesUp, Far!TimeoutSending, FarP!TimeoutSending,
        Far!TimeoutReceiving, FarP!TimeoutReceiving, Far!Press, FarP!Press,
        Far!Export, FarP!Export, Far!Import, FarP!Import, Far!IdUnwritten,
        FarP!IdUnwritten, Far!Seeding, FarP!Seeding, Far!Truncating,
        FarP!Truncating, Far!PowerCut, FarP!PowerCut, Far!Boot, FarP!Boot,
        Far!Receive, FarP!Receive, Far!Start, FarP!Start, Far!TimeOut,
        FarP!TimeOut, Far!Min, FarP!Min
<1>1. Far!Init => FarP!Init
  OBVIOUS
<1>2. Far!Boot => FarP!Boot
  OBVIOUS
<1>3. Far!Receive => FarP!Receive
  OBVIOUS
<1>4. Far!RxAckLast => FarP!RxAckLast
  OBVIOUS
<1>5. Far!RxLost => FarP!RxLost
  OBVIOUS
<1>6. Far!RxGarbledPayload => FarP!RxGarbledPayload
  OBVIOUS
<1>7. Far!Start => FarP!Start
  OBVIOUS
<1>8. Far!TimeOut => FarP!TimeOut
  OBVIOUS
<1>9. Far!Export => FarP!Export
  OBVIOUS
<1>10. Far!Import => FarP!Import
  OBVIOUS
<1>11. Far!PowerCut => FarP!PowerCut
  OBVIOUS
<1> QED
  BY <1>1, <1>2, <1>3, <1>4, <1>5, <1>6, <1>7, <1>8, <1>9, <1>10, <1>11

-----------------------------------------------------------------------------
(* The invariant.                                                          *)

PairInv ==
  /\ NearP!Half(Peer) /\ FarP!Half(Self)
  /\ NearP!OneOnAir(Peer) /\ NearP!Agree(link, plink, inq, outq)

(* What was acknowledged, where nothing spoils the files.                  *)
PledgeInv == NearP!Pledges(link, plink, flash.files, pflash.files, inq, outq)

(* What is between the badges looks the same from either side.             *)
LEMMA AirMirrors ==
  /\ NearP!OneOnAir(Peer) <=> FarP!OneOnAir(Self)
  /\ NearP!OneOnAir(Peer)' <=> FarP!OneOnAir(Self)'
BY DEF NearP!OneOnAir, FarP!OneOnAir, NearP!Traded, FarP!Traded, NearP!Message, FarP!Message,
       NearP!Bare, FarP!Bare, NearP!Anim, FarP!Anim, NearP!Frame, FarP!Frame, NearP!Torn, FarP!Torn

(* The agreement of two links is the same seen from either badge.          *)
LEMMA LinksMirror == ASSUME NEW l, NEW r, NEW in, NEW out PROVE
  /\ NearP!Agree(l, r, in, out) <=> FarP!Agree(r, l, out, in)
  /\ NearP!TransferFits(l) <=> FarP!TransferFits(l)
  /\ l \in NearP!Link <=> l \in FarP!Link
BY DEF NearP!Agree, FarP!Agree, NearP!InStep, FarP!InStep, NearP!Carries, FarP!Carries,
       NearP!Sends, FarP!Sends, NearP!FramesOf, FarP!FramesOf,
       NearP!TransferFits, FarP!TransferFits, NearP!Link, FarP!Link, NearP!State, FarP!State,
       NearP!Anim, FarP!Anim, NearP!Frame, FarP!Frame

(* So are the promises.                                                    *)
LEMMA PledgesMirror ==
  ASSUME NEW l, NEW r, NEW fs, NEW theirs, NEW in, NEW out
  PROVE NearP!Pledges(l, r, fs, theirs, in, out) <=> FarP!Pledges(r, l, theirs, fs, out, in)
BY DEF NearP!Pledges, FarP!Pledges, NearP!Promise, FarP!Promise, NearP!Carries, FarP!Carries,
       NearP!Taking, FarP!Taking, NearP!Owns, FarP!Owns, NearP!Valid, FarP!Valid,
       NearP!Whole, FarP!Whole, NearP!Torn, FarP!Torn

(* What badges trade can be heard.                                         *)
LEMMA TradedIsHonest == NearP!Traded \subseteq HonestMessages /\ FarP!Traded \subseteq HonestMessages
BY DEF NearP!Traded, FarP!Traded, HonestMessages, NearP!Message, FarP!Message, Message,
       NearP!Bare, FarP!Bare, Bare, NearP!Anim, FarP!Anim, Anim,
       NearP!Frame, FarP!Frame, Frame, NearP!Torn, FarP!Torn, Torn

(* Each badge trades with the other.                                       *)
LEMMA NearTrades == ASSUME NEW CONSTANT other, PairInv, plink = other
                    PROVE NearP!Trading(Peer, other)
<1>1. other \in NearP!Link /\ NearP!TransferFits(other)
  BY LinksMirror DEF PairInv, FarP!Half, FarP!IInv, FarP!TypeOK
<1> QED
  BY <1>1 DEF PairInv, NearP!Trading

(* With the near badge at rest the far one takes part in a trade.          *)
LEMMA FarTrades == ASSUME NEW CONSTANT other, PairInv, link = other
                   PROVE FarP!Trading(Self, other)
<1>1. other \in FarP!Link /\ FarP!TransferFits(other)
  BY LinksMirror DEF PairInv, NearP!Half, NearP!IInv, NearP!TypeOK
<1>2. FarP!OneOnAir(Self) /\ FarP!Agree(plink, other, outq, inq)
  BY AirMirrors, LinksMirror DEF PairInv
<1> QED
  BY <1>1, <1>2 DEF PairInv, FarP!Trading

-----------------------------------------------------------------------------
(* The steps.                                                              *)

(* One badge trades while the other one rests.                             *)
LEMMA NearStep ==
  ASSUME PairInv, NearP!TradeStep, UNCHANGED farVars
  PROVE PairInv'
<1>1. PICK other : other = plink
  OBVIOUS
<1>2. NearP!Trading(Peer, other)
  BY <1>1, NearTrades
<1>3. NearP!Half(Peer)' /\ NearP!StillAgree(Peer, other)
  BY <1>2, NearAssumed, NearP!HalfStep, NearP!AgreeStep
<1>4. /\ NearP!OneOnAir(Peer)' /\ NearP!Agree(link', plink', inq', outq')
      /\ FarP!OneOnAir(Self)'
  BY <1>1, <1>3, AirMirrors DEF NearP!StillAgree, farVars
<1>5. UNCHANGED <<pboot, ppost, plink, pev, pflash, pindex, pled>> /\ FarP!Half(Self)
  BY DEF farVars, PairInv
<1>6. FarP!Half(Self)'
  BY <1>4, <1>5, FarAssumed, TradedIsHonest, FarP!HalfRests
<1> QED
  BY <1>3, <1>4, <1>6 DEF PairInv

(* What the far badge does keeps the invariant.                            *)
LEMMA FarStep ==
  ASSUME PairInv, FarP!TradeStep, UNCHANGED nearVars
  PROVE PairInv'
<1>1. PICK other : other = link
  OBVIOUS
<1>2. FarP!Trading(Self, other)
  BY <1>1, FarTrades
<1>3. FarP!Half(Self)' /\ FarP!StillAgree(Self, other)
  BY <1>2, FarAssumed, FarP!HalfStep, FarP!AgreeStep
<1>4. FarP!OneOnAir(Self)' /\ FarP!Agree(plink', link', outq', inq')
  BY <1>1, <1>3 DEF FarP!StillAgree, nearVars
<1>5. /\ NearP!OneOnAir(Peer)' /\ NearP!Agree(link', plink', inq', outq')
  BY <1>4, AirMirrors, LinksMirror
<1>6. UNCHANGED <<boot, post, link, ev, flash, index, led>> /\ NearP!Half(Peer)
  BY DEF nearVars, PairInv
<1>7. NearP!Half(Peer)'
  BY <1>5, <1>6, NearAssumed, TradedIsHonest, NearP!HalfRests
<1> QED
  BY <1>3, <1>5, <1>7 DEF PairInv

(* Either badge keeps what both have promised: the near one                *)
LEMMA NearPledge ==
  ASSUME "read" \notin IoFaults, "format" \notin IoFaults, PairInv, PledgeInv,
         NearP!TradeStep, UNCHANGED farVars
  PROVE PledgeInv'
<1>1. PICK other, theirs : other = plink /\ theirs = pflash.files
  OBVIOUS
<1>2. NearP!Trading(Peer, other) /\ NearP!Pledges(link, other, flash.files, theirs, inq, outq)
  BY <1>1, NearTrades DEF PledgeInv
<1>3. NearP!ReadsWork /\ NearP!NeverFormats
  BY DEF NearP!ReadsWork, NearP!NeverFormats
<1>4. NearP!StillPledged(other, theirs)
  BY <1>2, <1>3, NearAssumed, NearP!PledgeStep
<1> QED
  BY <1>1, <1>4 DEF NearP!StillPledged, PledgeInv, farVars

(* and the far one.                                                        *)
LEMMA FarPledge ==
  ASSUME "read" \notin IoFaults, "format" \notin IoFaults, PairInv, PledgeInv,
         FarP!TradeStep, UNCHANGED nearVars
  PROVE PledgeInv'
<1>1. PICK other, theirs : other = link /\ theirs = flash.files
  OBVIOUS
<1>2. FarP!Trading(Self, other) /\ FarP!Pledges(plink, other, pflash.files, theirs, outq, inq)
  BY <1>1, FarTrades, PledgesMirror DEF PledgeInv
<1>3. FarP!ReadsWork /\ FarP!NeverFormats
  BY DEF FarP!ReadsWork, FarP!NeverFormats
<1>4. FarP!StillPledged(other, theirs)
  BY <1>2, <1>3, FarAssumed, FarP!PledgeStep
<1> QED
  BY <1>1, <1>4, PledgesMirror DEF FarP!StillPledged, PledgeInv, nearVars

(* A step of the pair: one badge trades, what was under way is not heard,  *)
(* or nothing happens.                                                     *)
LEMMA PairSteps ==
  ASSUME ~misheard', [PairNext]_tvars
  PROVE \/ NearP!TradeStep /\ UNCHANGED farVars
        \/ FarP!TradeStep /\ UNCHANGED nearVars
        \/ Unheard
        \/ UNCHANGED <<nearVars, farVars, inq, outq>>
<1>1. ASSUME Boot \/ Receive \/ RxLost \/ RxGarbledPayload \/ (AirQuiet /\ (Start \/ TimeOut))
               \/ Export \/ Import \/ PowerCut
      PROVE NearP!TradeStep
  BY <1>1, NearSteps DEF NearP!TradeStep, NearP!Reads, NearP!Quiet, AirQuiet
<1>2. ASSUME \/ Far!Boot \/ Far!Receive \/ Far!RxLost \/ Far!RxGarbledPayload
             \/ (AirQuiet /\ (Far!Start \/ Far!TimeOut))
             \/ Far!Export \/ Far!Import \/ Far!PowerCut
      PROVE FarP!TradeStep
  BY <1>2, FarSteps DEF FarP!TradeStep, FarP!Reads, FarP!Quiet, AirQuiet
<1>4. CASE UNCHANGED tvars
  BY <1>4 DEF tvars, vars, nearVars, farVars
<1>5. CASE PairNext
  BY <1>1, <1>2, <1>5
  DEF PairNext, NearBoots, FarBoots, NearReads, FarReads, NearStarts, FarStarts, NearGivesUp,
      FarGivesUp, OwnersPress, Mishap
<1> QED
  BY <1>4, <1>5

(* A badge that is off hears nothing, and then nothing is under way.       *)
LEMMA UnheardSteps ==
  ASSUME PairInv, Unheard
  PROVE PairInv' /\ PledgeInv'
<1>1. inq' = << >> /\ outq' = << >> /\ UNCHANGED <<nearVars, farVars>>
  <2>1. \A m : Tail(<<m>>) = << >>
    OBVIOUS
  <2>2. \/ inq = << >> /\ outq = << >>
        \/ outq = << >> /\ \E m : inq = <<m>>
        \/ inq = << >> /\ \E m : outq = <<m>>
    BY DEF PairInv, NearP!OneOnAir
  <2>3. \/ inq # << >> /\ inq' = Tail(inq) /\ outq' = outq
        \/ outq # << >> /\ outq' = Tail(outq) /\ inq' = inq
    BY DEF Unheard
  <2> QED
    BY <2>1, <2>2, <2>3 DEF Unheard
<1>2. NearP!OneOnAir(Peer)' /\ FarP!OneOnAir(Self)'
  BY <1>1 DEF NearP!OneOnAir, FarP!OneOnAir
<1>3. NearP!Half(Peer)' /\ FarP!Half(Self)'
  BY <1>1, <1>2, NearAssumed, FarAssumed, TradedIsHonest, NearP!HalfRests, FarP!HalfRests
  DEF PairInv, nearVars, farVars
<1>4. NearP!Agree(link', plink', inq', outq') /\ PledgeInv'
  BY <1>1 DEF NearP!Agree, NearP!InStep, NearP!Carries, PledgeInv, NearP!Pledges, NearP!Promise
<1> QED
  BY <1>2, <1>3, <1>4 DEF PairInv

(* Before either badge boots.                                              *)
LEMMA InitPair == ASSUME PairInit PROVE PairInv /\ PledgeInv
<1>1. NearP!Half(Peer) /\ FarP!Half(Self)
  BY NearAssumed, FarAssumed, NearSteps, FarSteps, NearP!InitHalf, FarP!InitHalf DEF PairInit
<1>2. inq = << >> /\ outq = << >>
  BY DEF PairInit, Init
<1>3. /\ NearP!OneOnAir(Peer) /\ NearP!Agree(link, plink, inq, outq) /\ PledgeInv
  BY <1>2 DEF NearP!OneOnAir, NearP!Agree, NearP!InStep, NearP!Carries, PledgeInv,
              NearP!Pledges, NearP!Promise
<1> QED
  BY <1>1, <1>3 DEF PairInv

(* A misheard header is not forgotten.                                     *)
LEMMA MisheardStays == ASSUME [PairNext]_tvars, misheard PROVE misheard'
BY DEF PairNext, NearBoots, FarBoots, NearReads, FarReads, NearStarts, FarStarts, NearGivesUp,
       FarGivesUp, OwnersPress, Unheard, Mishap, counts, tvars

(* No step of the pair but a garbled header breaks the invariant,          *)
LEMMA PairStep ==
  ASSUME ~misheard', PairInv, [PairNext]_tvars
  PROVE PairInv'
<1>1. CASE UNCHANGED <<nearVars, farVars, inq, outq>>
  <2>1. NearP!OneOnAir(Peer)' /\ FarP!OneOnAir(Self)'
    BY <1>1, AirMirrors DEF PairInv, NearP!OneOnAir
  <2>2. NearP!Half(Peer)' /\ FarP!Half(Self)'
    BY <1>1, <2>1, NearAssumed, FarAssumed, TradedIsHonest, NearP!HalfRests, FarP!HalfRests
    DEF PairInv, nearVars, farVars
  <2> QED
    BY <1>1, <2>1, <2>2 DEF PairInv, nearVars, farVars
<1> QED
  BY <1>1, PairSteps, NearStep, FarStep, UnheardSteps

(* nor a promise.                                                          *)
LEMMA PairPledge ==
  ASSUME ~misheard', "read" \notin IoFaults, "format" \notin IoFaults,
         PairInv, PledgeInv, [PairNext]_tvars
  PROVE PledgeInv'
<1>1. CASE UNCHANGED <<nearVars, farVars, inq, outq>>
  BY <1>1 DEF PledgeInv, nearVars, farVars
<1> QED
  BY <1>1, PairSteps, NearPledge, FarPledge, UnheardSteps

-----------------------------------------------------------------------------
(* As long as no header has arrived garbled, whatever else is lost or cut, *)
(* every animation on either badge has the frames of the animation it      *)
(* names, however many resends a badge allows.                             *)
THEOREM FilesStayIntact == PairSpec => []FilesIntact
<1> DEFINE Inv == ~misheard => PairInv
<1>1. Inv => FilesIntact
  BY DEF PairInv, NearP!Half, FarP!Half, NearP!Intact, FarP!Intact, FilesIntact, IntactOn,
         NearP!Live, FarP!Live, Live, NearP!Valid, FarP!Valid, Valid, NearP!Whole, FarP!Whole,
         Whole, NearP!Torn, FarP!Torn, Torn, NearP!FramesOf, FarP!FramesOf, FramesOf
<1>2. PairInit => Inv
  BY InitPair
<1>3. Inv /\ [PairNext]_tvars => Inv'
  BY PairStep, MisheardStays
<1> HIDE DEF Inv
<1> QED
  BY <1>1, <1>2, <1>3, PTL DEF PairSpec

(* And where storage reads back and is never formatted, a badge that is    *)
(* told of its last frame has given the animation away, unlocked if its    *)
(* own is.                                                                 *)
THEOREM AcknowledgedStays ==
  ASSUME "read" \notin IoFaults, "format" \notin IoFaults
  PROVE PairSpec => AcknowledgedIsHeld
<1> DEFINE Inv == ~misheard => PairInv /\ PledgeInv
<1>1. PairInit => Inv
  BY InitPair
<1>2. Inv /\ [PairNext]_tvars => Inv'
  BY PairStep, PairPledge, MisheardStays
<1>3. ASSUME PledgeInv, RxAckLast PROVE Has(pflash.files, link.header)
  <2>1. PICK other, theirs : other = plink /\ theirs = pflash.files
    OBVIOUS
  <2>2. NearP!Owns(theirs, link.header)
    BY <1>3, <2>1, NearAssumed, NearSteps, NearP!LastAckIsTrue DEF PledgeInv
  <2> QED
    BY <2>1, <2>2 DEF NearP!Owns, Has, NearP!Valid, Valid, NearP!Whole, Whole, NearP!Torn, Torn
<1>4. ASSUME PledgeInv, Far!RxAckLast PROVE Has(flash.files, plink.header)
  <2>1. PICK other, theirs : other = link /\ theirs = flash.files
    OBVIOUS
  <2>2. FarP!Owns(theirs, plink.header)
    BY <1>4, <2>1, FarAssumed, FarSteps, PledgesMirror, FarP!LastAckIsTrue DEF PledgeInv
  <2> QED
    BY <2>1, <2>2 DEF FarP!Owns, Has, FarP!Valid, Valid, FarP!Whole, Whole, FarP!Torn, Torn
<1>5. Inv /\ [PairNext]_tvars =>
        [~misheard =>
           /\ RxAckLast => Has(pflash.files, link.header)
           /\ Far!RxAckLast => Has(flash.files, plink.header)]_tvars
  BY <1>3, <1>4
<1> HIDE DEF Inv
<1> QED
  BY <1>1, <1>2, <1>5, PTL DEF PairSpec, AcknowledgedIsHeld
=============================================================================
