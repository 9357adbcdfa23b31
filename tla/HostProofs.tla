------------------------------ MODULE HostProofs ------------------------------
(***************************************************************************)
(* Proofs about HostSession: what the tool reports of a deletion is so     *)
(* whatever happens on the way, and what it reports of an upload and of a  *)
(* download is so unless a header arrives garbled; for any number of       *)
(* frames, attempts, commands and mishaps.  Of LoneBadge only what         *)
(* LibraryProofs shows about single steps of the badge is used; its        *)
(* environment plays no part.                                              *)
(***************************************************************************)
EXTENDS HostSession, LibraryProofs

(* The hypothesis of the second part: a neighbour that sends frames can    *)
(* complete an animation whose frames only it knows.                       *)
NeighboursOffer == \A m \in Neighbours : m.op # "APPFILE"

-----------------------------------------------------------------------------
(* What holds whatever happens.                                            *)

Heard == Head(outq)

Result == {"none", "informed", "refused", "failed", "old", "deleted", "sent", "saved"}
HostTyped ==
  host \in [at : Waiting \cup {"none"}, result : Result, anim : Anim, frame : Nat,
            attempt : Nat, got : Seq(Frame)]

(* Until the badge is up nobody talks.                                     *)
BootInv ==
  /\ "GETFILE" \notin ev
  /\ ~Running => host = NewHost /\ AirQuiet

(* What the command under way is about.                                    *)
CommandInv ==
  /\ host.at \in {"helo", "delete", "put", "frame"} => host.anim.name \in Name
  /\ host.at \in {"put", "frame"} => host.anim = Uploaded(host.anim.name, host.anim.unlocked)
  /\ host.at = "frame" => host.frame \in 1..host.anim.len
  /\ host.at = "get" => host.got = << >>

(* What the tool says while it waits for what.                             *)
Says(m) ==
  /\ m.op = "APPFILE" => host.at = "frame" /\ m.body = FramesOf(host.anim.name)[host.frame]
  /\ host.at # "none" => m.from = Controller
  /\ host.at \in {"info", "helo"} => m.op = "HELO"
  /\ host.at = "delete" => m.op = "DELFILE" /\ m.body = host.anim.name
  /\ host.at = "put" => m.op = "PUTFILE" /\ m.body = host.anim
  /\ host.at = "frame" => m.op = "APPFILE"
  /\ host.at = "get" => m.op \in {"GETFILE", "NACK"}
  /\ host.at = "pull" => m.op \in {"ACK", "NACK"}

(* Messages by what they are.                                              *)
Hiss == {m \in Message : m.op = "NOISE"}
NoAcks == {m \in Message : m.op # "ACK"}
Nacks == {m \in Message : m.op = "NACK"}
One(q) == \E m \in Message : q = <<m>>

(* A deletion that has been asked for is under way, or it has been heard;  *)
(* then only noise can follow, and the answer says whether the file is     *)
(* gone.  The HELO before it is answered once and leaves nothing behind.   *)
DeleteInv ==
  /\ host.at = "helo" =>
       \/ outq = << >> /\ One(inq) /\ Msg.op = "HELO"
       \/ inq = << >> /\ (outq = << >> \/ One(outq))
  /\ host.at = "delete" =>
       \/ outq = << >> /\ One(inq) /\ Says(Msg)
       \/ /\ inq \in Seq(Hiss)
          /\ flash.files[host.anim.name].kind = "absent" \/ outq \in Seq(NoAcks)

(* Animations are as long as their names say: those offered, those on      *)
(* flash and display, and the one a transfer is about.                     *)
Fitting == {m \in Message : m.op = "PUTFILE" /\ Acceptable(m.body) => Fits(m.body)}
FitInv ==
  /\ LedFits /\ FilesFit /\ inq \in Seq(Fitting)
  /\ link.state # "IDLE" => Fits(link.header)

BaseInv == IInv /\ HostTyped /\ BootInv /\ CommandInv /\ DeleteInv /\ FitInv

-----------------------------------------------------------------------------
(* The steps, and what the tool says in them.                              *)

ToolActs ==
  /\ UNCHANGED bvars
  /\ Commands \/ HostHears \/ Silence \/ Unread \/ NeighbourSpeaks
BadgeActs ==
  /\ host' = host
  /\ \/ UNCHANGED vars \/ Boot \/ Receive \/ RxLost \/ RxGarbledPayload
     \/ RxGarbledHeader /\ misheard'
     \/ AirQuiet /\ (Start \/ TimeOut)
     \/ Export \/ Select \/ FallBack

(* What the tool does when it hears something.                             *)
LEMMA HearsSomething ==
  ASSUME HostHears
  PROVE /\ UNCHANGED bvars /\ host.at # "none" /\ outq # << >>
        /\ outq' = Tail(outq) \/ HearGarbledHeader \/ HearNoise
<1>1. CASE HearVersion \/ HearDeleted \/ HearRefused \/ HearPutAck \/ HearFrameAck \/ HearFrameNack
           \/ HearPut \/ HearFrame \/ HearUnexpected
  <2>1. PICK at \in Waiting : \E op : Hears(at, op)
    BY <1>1 DEF HearVersion, HearDeleted, HearRefused, HearPutAck, HearFrameAck, HearFrameNack,
                HearPut, HearFrame, HearUnexpected, Waiting
  <2> QED
    BY <2>1 DEF Hears, Waiting
<1>2. CASE HearGarbledHeader \/ HearNoise \/ HearGarbledPayload \/ HearCutShort \/ HearNothing
  BY <1>2 DEF HearGarbledHeader, HearNoise, HearGarbledPayload, HearCutShort, HearNothing, HearsBadly
<1> QED
  BY <1>1, <1>2 DEF HostHears

(* A step is the tool's or the badge's.                                    *)
LEMMA StepKinds == ASSUME [HostNext]_hvars PROVE ToolActs \/ BadgeActs
<1>1. CASE UNCHANGED hvars
  BY <1>1 DEF hvars, BadgeActs
<1>2. CASE Commands
  <2>1. \E at, a : Command(at, a)
    BY <1>2 DEF Commands, Info, GetFile, Delete, PutFileCommand
  <2>2. UNCHANGED bvars
    BY <2>1 DEF Command
  <2> QED
    BY <1>2, <2>2 DEF ToolActs
<1>3. CASE HostHears
  BY <1>3, HearsSomething DEF ToolActs
<1>4. CASE Silence \/ Unread \/ NeighbourSpeaks
  <2>1. UNCHANGED bvars
    BY <1>4 DEF Silence, Unread, NeighbourSpeaks
  <2> QED
    BY <1>4, <2>1 DEF ToolActs
<1>5. CASE BadgeReads \/ BadgeBoots \/ BadgeStarts \/ BadgeGivesUp \/ BadgeHearsBadly \/ OwnerActs
  BY <1>5 DEF BadgeReads, BadgeBoots, BadgeStarts, BadgeGivesUp, BadgeHearsBadly, OwnerActs, Mishap,
              hostVars, BadgeActs
<1> QED
  BY <1>1, <1>2, <1>3, <1>4, <1>5 DEF HostNext

(* What the badge does is a step of LoneBadge.                             *)
LEMMA BadgeActsStep == ASSUME BadgeActs PROVE Step
BY DEF BadgeActs, Step, BadgeStep, AirFault, Ui

(* The parts of HostTyped.                                                 *)
LEMMA HostParts == ASSUME HostTyped PROVE
  /\ host.anim \in Anim /\ host.frame \in Nat /\ host.attempt \in Nat /\ host.got \in Seq(Frame)
  /\ host.at \in Waiting \cup {"none"}
BY DEF HostTyped

(* What the tool uploads is an animation of at least one frame.            *)
LEMMA UploadedType == ASSUME NEW n \in Name, NEW u \in BOOLEAN PROVE
  /\ Uploaded(n, u) \in Anim /\ Uploaded(n, u).name = n /\ Uploaded(n, u).len = AnimLen[n]
  /\ Uploaded(n, u).unlocked = u /\ ~Uploaded(n, u).direct /\ AnimLen[n] >= 1 /\ AnimLen[n] \in Nat
BY BoundAssumption, LimitAssumption DEF Uploaded, Anim

(* A frame it uploads is a frame.                                          *)
LEMMA FrameOf == ASSUME NEW n \in Name, NEW k \in 1..AnimLen[n] PROVE FramesOf(n)[k] \in Frame
<1>1. FramesOf(n) \in Seq(Frame) /\ Len(FramesOf(n)) = AnimLen[n]
  BY FramesOfType
<1> HIDE DEF FramesOf
<1> QED
  BY <1>1, ElementOfSeq

(* The tool says m, behind what it has said before.                        *)
Utters(m) == m \in Fitting /\ inq' = Append(inq, m) /\ Says(m)'
Speaks == \E m : Utters(m)

(* Something bare.                                                         *)
LEMMA SendBare ==
  ASSUME NEW op \in Bare, Send(op, NoBody)
  PROVE LET m == [op |-> op, from |-> Controller, body |-> NoBody]
        IN m \in Fitting /\ inq' = Append(inq, m)
<1> DEFINE m == [op |-> op, from |-> Controller, body |-> NoBody]
<1>1. m \in Message
  BY StationAssumption DEF Message
<1>2. m.op # "PUTFILE"
  BY DEF Bare
<1>3. inq' = Append(inq, m)
  BY DEF Send, Relayed
<1> QED
  BY <1>1, <1>2, <1>3 DEF Fitting

(* A command that starts.                                                  *)
LEMMA CommandSays ==
  ASSUME Commands
  PROVE /\ Running /\ AirQuiet /\ UNCHANGED <<bvars, outq>>
        /\ HostTyped' /\ CommandInv' /\ Speaks /\ host'.at \in {"info", "helo", "put", "get"}
<1>1. Running /\ AirQuiet /\ UNCHANGED <<bvars, outq>>
  <2>1. \E at, a : Command(at, a)
    BY DEF Commands, Info, GetFile, Delete, PutFileCommand
  <2> QED
    BY <2>1 DEF Command
<1>2. ZeroAnim \in Anim
  BY ValueTypes
<1>3. ASSUME NEW at \in Waiting, NEW a \in Anim, Command(at, a)
      PROVE HostTyped' /\ host'.at = at /\ host'.anim = a /\ host'.got = << >>
  <2>1. host' = [at |-> at, result |-> "none", anim |-> a, frame |-> 0, attempt |-> 1,
                 got |-> << >>]
    BY <1>3 DEF Command, NewHost
  <2>2. << >> \in Seq(Frame)
    BY EmptySeq
  <2>3. at \in Waiting \cup {"none"} /\ "none" \in Result /\ 0 \in Nat /\ 1 \in Nat
    BY DEF Result
  <2> HIDE DEF Result
  <2> QED
    BY <2>1, <2>2, <2>3 DEF HostTyped
<1>4. ASSUME NEW at \in {"info", "get"}, NEW op \in {"HELO", "GETFILE"}, Command(at, ZeroAnim),
             Send(op, NoBody), at = "info" => op = "HELO", at = "get" => op = "GETFILE"
      PROVE HostTyped' /\ CommandInv' /\ Speaks /\ host'.at = at
  <2> DEFINE m == [op |-> op, from |-> Controller, body |-> NoBody]
  <2>1. HostTyped' /\ host'.at = at /\ host'.got = << >>
    BY <1>2, <1>3, <1>4 DEF Waiting
  <2>2. m \in Fitting /\ inq' = Append(inq, m)
    BY <1>4, SendBare DEF Bare
  <2>3. CommandInv' /\ Says(m)'
    BY <1>4, <2>1 DEF CommandInv, Says
  <2> HIDE DEF m
  <2> QED
    BY <2>1, <2>2, <2>3 DEF Speaks, Utters
<1>5. ASSUME NEW n \in Name, Delete(n)
      PROVE HostTyped' /\ CommandInv' /\ Speaks /\ host'.at = "helo"
  <2> DEFINE m == [op |-> "HELO", from |-> Controller, body |-> NoBody]
             a == Uploaded(n, FALSE)
  <2>1. a \in Anim /\ a.name = n /\ Command("helo", a)
    BY <1>5, UploadedType DEF Delete
  <2> HIDE DEF a
  <2>2. HostTyped' /\ host'.at = "helo" /\ host'.anim.name = n
    BY <1>3, <2>1 DEF Waiting
  <2>3. m \in Fitting /\ inq' = Append(inq, m)
    BY <1>5, SendBare DEF Delete, Bare
  <2>4. CommandInv' /\ Says(m)'
    BY <2>2 DEF CommandInv, Says
  <2> HIDE DEF m
  <2> QED
    BY <2>2, <2>3, <2>4 DEF Speaks, Utters
<1>6. ASSUME NEW n \in Name, NEW u \in BOOLEAN, PutFileCommand(n, u)
      PROVE HostTyped' /\ CommandInv' /\ Speaks /\ host'.at = "put"
  <2> DEFINE a == Uploaded(n, u)
             m == [op |-> "PUTFILE", from |-> Controller, body |-> a]
  <2>1. a \in Anim /\ a.name = n /\ a.unlocked = u /\ a.len = AnimLen[n]
    BY UploadedType
  <2>2. HostTyped' /\ host'.at = "put" /\ host'.anim = a
    BY <1>3, <1>6, <2>1 DEF PutFileCommand, Waiting
  <2>3. CommandInv'
    BY <2>1, <2>2 DEF CommandInv
  <2>4. inq' = Append(inq, m)
    BY <1>6 DEF PutFileCommand, Send, Relayed
  <2> HIDE DEF a
  <2>5. m \in Message
    BY <2>1, StationAssumption DEF Message
  <2>6. m \in Fitting
    BY <2>1, <2>5 DEF Fitting, Fits
  <2>7. Says(m)'
    BY <2>2 DEF Says
  <2> HIDE DEF m
  <2> QED
    BY <2>2, <2>3, <2>4, <2>6, <2>7 DEF Speaks, Utters
<1>7. CASE Info
  <2>1. Command("info", ZeroAnim) /\ Send("HELO", NoBody)
    BY <1>7 DEF Info
  <2> QED
    BY <1>1, <1>4, <2>1
<1>8. CASE GetFile
  <2>1. Command("get", ZeroAnim) /\ Send("GETFILE", NoBody)
    BY <1>8 DEF GetFile
  <2> QED
    BY <1>1, <1>4, <2>1
<1> QED
  BY <1>1, <1>5, <1>6, <1>7, <1>8 DEF Commands

(* The end of a command says nothing.                                      *)
LEMMA EndsSays ==
  ASSUME HostTyped, NEW r \in Result, Ends(r)
  PROVE HostTyped' /\ CommandInv' /\ inq' = inq /\ host'.at = "none" /\ host'.result = r
<1>1. host' = [host EXCEPT !.at = "none", !.result = r] /\ inq' = inq
  BY DEF Ends
<1>2. HostTyped' /\ host'.at = "none" /\ host'.result = r
  <2> HIDE DEF Result
  <2> QED
    BY <1>1 DEF HostTyped
<1> QED
  BY <1>1, <1>2 DEF CommandInv

(* Asking for the same again.                                              *)
LEMMA AskSays ==
  ASSUME HostTyped, CommandInv, AskAgain
  PROVE /\ HostTyped' /\ CommandInv' /\ Speaks
        /\ host.at \in {"get", "pull"} /\ host'.at = host.at
        /\ host'.anim = host.anim /\ host'.got = host.got /\ host'.result = host.result
<1> DEFINE m == [op |-> "NACK", from |-> Controller, body |-> NoBody]
<1>1. host' = [host EXCEPT !.attempt = host.attempt + 1] /\ Send("NACK", NoBody)
  BY DEF AskAgain
<1>2. /\ HostTyped' /\ host'.at = host.at /\ host'.anim = host.anim /\ host'.got = host.got
      /\ host'.result = host.result
  BY <1>1, HostParts DEF HostTyped
<1>3. m \in Fitting /\ inq' = Append(inq, m)
  BY <1>1, SendBare DEF Bare
<1>4. host.at \in {"get", "pull"}
  BY DEF AskAgain, Retrying
<1>5. CommandInv' /\ Says(m)'
  BY <1>2, <1>4 DEF CommandInv, Says
<1> HIDE DEF m
<1> QED
  BY <1>2, <1>3, <1>4, <1>5 DEF Speaks, Utters

(* A frame of an upload.                                                   *)
LEMMA FrameSays ==
  ASSUME HostTyped, CommandInv, host.at \in {"put", "frame"}, NEW k \in 1..host.anim.len,
         NEW a \in Nat, SendFrame(k, a)
  PROVE /\ HostTyped' /\ CommandInv' /\ Speaks
        /\ host'.at = "frame" /\ host'.frame = k /\ host'.anim = host.anim
        /\ host'.result = host.result
<1> DEFINE n == host.anim.name
           said == [op |-> "APPFILE", from |-> Controller, body |-> FramesOf(n)[k]]
<1>1. /\ n \in Name /\ host.anim = Uploaded(n, host.anim.unlocked)
      /\ host.anim.unlocked \in BOOLEAN
  BY HostParts DEF CommandInv, Anim
<1>2. k \in Nat /\ k \in 1..AnimLen[n]
  BY <1>1, UploadedType
<1>3. host' = [host EXCEPT !.at = "frame", !.frame = k, !.attempt = a]
  BY DEF SendFrame
<1>4. /\ HostTyped' /\ host'.at = "frame" /\ host'.anim = host.anim /\ host'.frame = k
      /\ host'.result = host.result
  BY <1>2, <1>3 DEF HostTyped, Waiting
<1>5. said \in Message
  BY <1>1, <1>2, FrameOf, StationAssumption DEF Message
<1>6. PICK m \in Message : m = said
  BY <1>5
<1>7. CommandInv'
  BY <1>1, <1>4 DEF CommandInv
<1>8. Says(m)'
  BY <1>4, <1>6 DEF Says
<1>9. m \in Fitting /\ inq' = Append(inq, m)
  BY <1>6 DEF Fitting, SendFrame, Send, Relayed
<1> QED
  BY <1>4, <1>7, <1>8, <1>9 DEF Speaks, Utters

(* The answer to a HELO lets the deletion begin.                           *)
LEMMA HeloSays ==
  ASSUME HostTyped, CommandInv, host.at = "helo", host' = [host EXCEPT !.at = "delete"],
         Send("DELFILE", host.anim.name)
  PROVE HostTyped' /\ CommandInv' /\ Speaks /\ host'.at = "delete" /\ host'.result = host.result
<1> DEFINE said == [op |-> "DELFILE", from |-> Controller, body |-> host.anim.name]
<1>1. HostTyped' /\ host'.at = "delete" /\ host'.anim = host.anim /\ host'.result = host.result
  BY DEF HostTyped, Waiting
<1>2. host.anim.name \in Name
  BY DEF CommandInv
<1>3. said \in Message
  BY <1>2, StationAssumption DEF Message
<1>4. PICK m \in Message : m = said
  BY <1>3
<1>5. CommandInv' /\ Says(m)' /\ m \in Fitting /\ inq' = Append(inq, m)
  BY <1>1, <1>2, <1>4 DEF CommandInv, Says, Fitting, Send, Relayed
<1> QED
  BY <1>1, <1>5 DEF Speaks, Utters

(* What the tool hears of a download makes it say ACK.                     *)
LEMMA PullSays ==
  ASSUME HostTyped, outq \in Seq(Message), HearPut \/ HearFrame
  PROVE /\ HostTyped' /\ CommandInv' /\ Speaks
        /\ HearPut => host'.at = "pull" /\ host'.anim = Heard.body /\ host'.got = host.got
                      /\ host'.result = host.result
        /\ HearFrame =>
             /\ host'.got = Append(host.got, Heard.body) /\ host'.anim = host.anim
             /\ IF Len(host'.got) = host.anim.len
                THEN host'.at = "none" /\ host'.result = "saved"
                ELSE host'.at = "pull" /\ host'.result = host.result
<1> DEFINE m == [op |-> "ACK", from |-> Controller, body |-> NoBody]
           got == Append(host.got, Heard.body)
<1>1. outq # << >> /\ Send("ACK", NoBody)
  BY DEF HearPut, HearFrame, Hears
<1>2. Heard \in Message
  BY <1>1, HeadTailProperties DEF Heard
<1>3. m \in Fitting /\ inq' = Append(inq, m)
  BY <1>1, SendBare DEF Bare
<1>4. ASSUME HearPut
      PROVE /\ HostTyped' /\ host'.at = "pull" /\ host'.anim = Heard.body /\ host'.got = host.got
            /\ host'.result = host.result
  <2>1. Heard.op = "PUTFILE" /\ host' = [host EXCEPT !.at = "pull", !.anim = Heard.body, !.attempt = 1]
    BY <1>4 DEF HearPut, Hears, Heard
  <2>2. Heard.body \in Anim
    BY <1>2, <2>1, MessageParts
  <2> QED
    BY <2>1, <2>2 DEF HostTyped, Waiting
<1>5. ASSUME HearFrame
      PROVE /\ HostTyped' /\ host'.got = got /\ host'.anim = host.anim
            /\ IF Len(got) = host.anim.len
               THEN host'.at = "none" /\ host'.result = "saved"
               ELSE host'.at = "pull" /\ host'.result = host.result
  <2>1. /\ Heard.op = "APPFILE" /\ host.at = "pull"
        /\ host' = [host EXCEPT !.got = got, !.attempt = 1,
                      !.at = IF Len(got) = host.anim.len THEN "none" ELSE @,
                      !.result = IF Len(got) = host.anim.len THEN "saved" ELSE @]
    BY <1>5 DEF HearFrame, Hears, Heard
  <2>2. got \in Seq(Frame)
    BY <1>2, <2>1, MessageParts, HostParts, AppendProperties
  <2> HIDE DEF got
  <2> QED
    BY <2>1, <2>2 DEF HostTyped, Result, Waiting
<1>6. host'.at \in {"pull", "none"}
  BY <1>4, <1>5
<1>7. CommandInv' /\ Says(m)'
  BY <1>6 DEF CommandInv, Says
<1> HIDE DEF m
<1> QED
  BY <1>3, <1>4, <1>5, <1>7 DEF Speaks, Utters

(* How the tool takes a message badly: the command ends, it asks again or  *)
(* nothing happens.                                                        *)
LEMMA BadlySays ==
  ASSUME HearGarbledHeader \/ HearNoise \/ HearGarbledPayload \/ HearCutShort \/ HearNothing
  PROVE \/ \E r \in {"failed", "old"} : Ends(r)
        \/ AskAgain
        \/ HearNothing
BY DEF HearGarbledHeader, HearNoise, HearGarbledPayload, HearCutShort, GivesUp

(* The other answers: a frame of an upload or the end of a command.        *)
LEMMA AnswerSays ==
  ASSUME HostTyped, CommandInv, HearPutAck \/ HearFrameAck \/ HearFrameNack
  PROVE \/ HearPutAck /\ 1 \in 1..host.anim.len /\ SendFrame(1, 1)
        \/ /\ HearFrameAck /\ ~FramesDone
           /\ host.frame + 1 \in 1..host.anim.len /\ SendFrame(host.frame + 1, 1)
        \/ /\ HearFrameNack /\ host.frame \in 1..host.anim.len /\ host.attempt + 1 \in Nat
           /\ SendFrame(host.frame, host.attempt + 1)
        \/ HearFrameAck /\ FramesDone /\ Ends("sent")
        \/ HearFrameNack /\ Ends("failed")
<1>1. host.frame \in Nat /\ host.attempt \in Nat
  BY HostParts
<1>2. host.at \in {"put", "frame"} => host.anim.len \in Nat /\ host.anim.len >= 1
  BY HostParts, UploadedType DEF CommandInv, Anim
<1>3. CASE HearPutAck
  BY <1>2, <1>3 DEF HearPutAck, Hears
<1>4. CASE HearFrameAck
  <2>1. host.at = "frame" /\ (IF FramesDone THEN Ends("sent") ELSE SendFrame(host.frame + 1, 1))
    BY <1>4 DEF HearFrameAck, Hears
  <2>2. ~FramesDone => host.frame + 1 \in 1..host.anim.len
    BY <1>1, <1>2, <2>1 DEF CommandInv, FramesDone
  <2> QED
    BY <1>4, <2>1, <2>2
<1>5. CASE HearFrameNack
  <2>1. host.at = "frame"
    BY <1>5 DEF HearFrameNack, Hears
  <2> QED
    BY <1>1, <1>5, <2>1 DEF HearFrameNack, CommandInv
<1> QED
  BY <1>3, <1>4, <1>5

(* Hence, whatever it hears.                                               *)
LEMMA HearSays ==
  ASSUME HostTyped, CommandInv, outq \in Seq(Message), HostHears
  PROVE HostTyped' /\ CommandInv' /\ (inq' = inq \/ Speaks)
<1>1. ASSUME NEW r \in Result, Ends(r) PROVE HostTyped' /\ CommandInv' /\ inq' = inq
  BY <1>1, EndsSays
<1>2. CASE HearVersion
  <2>1. CASE Ends("informed")
    BY <1>1, <2>1 DEF Result
  <2>2. CASE /\ Hears("helo", "VERSION") /\ host' = [host EXCEPT !.at = "delete"]
             /\ Send("DELFILE", host.anim.name)
    BY <2>2, HeloSays DEF Hears
  <2> QED
    BY <1>2, <2>1, <2>2 DEF HearVersion
<1>3. CASE HearDeleted \/ HearRefused \/ HearUnexpected
  <2>1. \E r \in {"deleted", "refused", "failed"} : Ends(r)
    BY <1>3 DEF HearDeleted, HearRefused, HearUnexpected
  <2> QED
    BY <1>1, <2>1 DEF Result
<1>4. CASE HearPutAck \/ HearFrameAck \/ HearFrameNack
  <2>1. host.at \in {"put", "frame"}
    BY <1>4 DEF HearPutAck, HearFrameAck, HearFrameNack, Hears
  <2>2. \/ \E r \in {"sent", "failed"} : Ends(r)
        \/ \E k \in 1..host.anim.len, a \in Nat : SendFrame(k, a)
    BY <1>4, AnswerSays
  <2> QED
    BY <1>1, <2>1, <2>2, FrameSays DEF Result
<1>5. CASE HearPut \/ HearFrame
  BY <1>5, PullSays
<1>6. CASE HearGarbledHeader \/ HearNoise \/ HearGarbledPayload \/ HearCutShort \/ HearNothing
  <2>1. HearNothing => HostTyped' /\ CommandInv' /\ inq' = inq
    BY DEF HearNothing, HostTyped, CommandInv
  <2> QED
    BY <1>1, <1>6, <2>1, BadlySays, AskSays DEF Result
<1> QED
  BY <1>2, <1>3, <1>4, <1>5, <1>6 DEF HostHears

-----------------------------------------------------------------------------
(* The steps of the tool keep what holds whatever happens.                 *)

(* Queues of messages of one kind.                                         *)
LEMMA QueueFacts == ASSUME NEW S, NEW q \in Seq(S) PROVE
  /\ << >> \in Seq(S)
  /\ \A m \in S : Append(q, m) \in Seq(S) /\ <<m>> \in Seq(S)
  /\ q # << >> => Head(q) \in S /\ Tail(q) \in Seq(S)
BY EmptySeq, AppendProperties, HeadTailProperties

(* What the badge has said is heard, in part or whole, or dropped.         *)
LEMMA HearsTyped ==
  ASSUME outq \in Seq(Message), HostHears
  PROVE outq' \in Seq(Message)
<1>1. Noise \in Message
  BY ValueTypes
<1>2. CASE outq' = Tail(outq)
  BY <1>2, HearsSomething, QueueFacts
<1>3. CASE HearGarbledHeader
  <2>1. PICK k \in Nat : outq' = [i \in 1..k |-> Noise] \o Tail(outq)
    <3>1. (IF HasPayload(Head(outq)) THEN 0..Residue ELSE {0}) \subseteq Nat
      BY LimitAssumption
    <3> QED
      BY <1>3, <3>1 DEF HearGarbledHeader
  <2>2. [i \in 1..k |-> Noise] \in Seq(Message)
    BY <1>1, IsASeq
  <2>3. Tail(outq) \in Seq(Message)
    BY HearsSomething, QueueFacts
  <2> QED
    BY <2>1, <2>2, <2>3, ConcatProperties
<1>4. CASE HearNoise
  <2>1. PICK k \in {2, 3} : outq' = SubSeq(outq, k, Len(outq))
    BY <1>4 DEF HearNoise
  <2> QED
    BY <2>1, SubSeqProperties, LenProperties, EmptySeq
<1> QED
  BY <1>2, <1>3, <1>4, HearsSomething

(* What the tool does while the badge is down is nothing, and what it says *)
(* has the length its name says.                                           *)
LEMMA ToolTyped ==
  ASSUME BaseInv, ToolActs
  PROVE /\ Running /\ HostTyped' /\ CommandInv'
        /\ inq' \in Seq(Fitting) /\ outq' \in Seq(Message)
<1>1. /\ HostTyped /\ CommandInv /\ inq \in Seq(Fitting) /\ outq \in Seq(Message)
      /\ ~Running => host.at = "none" /\ outq = << >>
  BY DEF BaseInv, IInv, TypeOK, FitInv, BootInv, NewHost, AirQuiet
<1>2. Speaks => inq' \in Seq(Fitting)
  BY <1>1, QueueFacts DEF Speaks, Utters
<1>3. CASE Commands
  BY <1>1, <1>2, <1>3, CommandSays
<1>4. CASE HostHears
  BY <1>1, <1>2, <1>4, HearsSomething, HearSays, HearsTyped
<1>5. CASE Silence
  <2>1. host.at # "none" /\ outq' = outq /\ \E r \in {"old", "failed"} : Ends(r)
    BY <1>5 DEF Silence
  <2> QED
    BY <1>1, <2>1, EndsSays DEF Result
<1>6. CASE Unread
  BY <1>1, <1>6, QueueFacts DEF Unread, HostTyped, CommandInv
<1>7. CASE NeighbourSpeaks
  <2>1. PICK m \in Neighbours : inq' = <<m>>
    BY <1>7 DEF NeighbourSpeaks
  <2>2. m \in Fitting
    BY HostAssumption DEF Fitting, Fits
  <2>3. inq' \in Seq(Fitting)
    BY <2>1, <2>2, <1>1, QueueFacts
  <2> QED
    BY <1>1, <1>7, <2>3 DEF NeighbourSpeaks, Mishap, HostTyped, CommandInv
<1> QED
  BY <1>3, <1>4, <1>5, <1>6, <1>7 DEF ToolActs

(* How the tool comes to wait for the answer to a HELO or to a deletion.   *)
LEMMA DeleteSays ==
  ASSUME HostTyped, CommandInv, outq \in Seq(Message), HostHears, host'.at \in {"helo", "delete"}
  PROVE \/ HearNothing /\ host' = host /\ inq' = inq /\ outq' = Tail(outq)
        \/ /\ host.at = "helo" /\ host'.at = "delete" /\ outq # << >> /\ outq' = Tail(outq)
           /\ Speaks
<1>1. ASSUME NEW r, Ends(r) PROVE FALSE
  BY <1>1 DEF Ends, HostTyped
<1>2. CASE HearVersion
  <2>1. /\ Hears("helo", "VERSION") /\ host' = [host EXCEPT !.at = "delete"]
        /\ Send("DELFILE", host.anim.name)
    BY <1>1, <1>2 DEF HearVersion
  <2> QED
    BY <2>1, HeloSays DEF Hears
<1>3. CASE HearDeleted \/ HearRefused \/ HearUnexpected
  BY <1>1, <1>3 DEF HearDeleted, HearRefused, HearUnexpected
<1>4. CASE HearPutAck \/ HearFrameAck \/ HearFrameNack
  <2>1. host.at \in {"put", "frame"}
    BY <1>4 DEF HearPutAck, HearFrameAck, HearFrameNack, Hears
  <2> QED
    BY <1>1, <1>4, <2>1, AnswerSays, FrameSays
<1>5. CASE HearPut \/ HearFrame
  BY <1>5, PullSays
<1>6. CASE HearGarbledHeader \/ HearNoise \/ HearGarbledPayload \/ HearCutShort \/ HearNothing
  <2>1. ~AskAgain
    BY AskSays
  <2>2. HearNothing
    BY <1>1, <1>6, <2>1, BadlySays
  <2> QED
    BY <2>2 DEF HearNothing
<1> QED
  BY <1>2, <1>3, <1>4, <1>5, <1>6 DEF HostHears

LEMMA DeleteTool == ASSUME BaseInv, ToolActs PROVE DeleteInv'
<1>1. /\ HostTyped /\ CommandInv /\ DeleteInv /\ outq \in Seq(Message) /\ UNCHANGED bvars
  BY DEF BaseInv, IInv, TypeOK, ToolActs
<1>2. CASE Commands
  <2>1. AirQuiet /\ outq' = outq /\ host'.at \in {"info", "helo", "put", "get"}
    BY <1>2, CommandSays
  <2>2. PICK m : Utters(m)
    BY <1>2, CommandSays DEF Speaks
  <2>3. inq' = <<m>> /\ m \in Message /\ Says(m)'
    BY <2>1, <2>2 DEF Utters, AirQuiet, Fitting
  <2>4. Msg' = m /\ One(inq)'
    BY <2>3, OneMessage DEF Msg, One
  <2> QED
    BY <2>1, <2>3, <2>4 DEF DeleteInv, Says, AirQuiet
<1>3. CASE HostHears
  <2>1. SUFFICES ASSUME host'.at \in {"helo", "delete"} PROVE DeleteInv'
    BY DEF DeleteInv
  <2>2. outq # << >> /\ (One(outq) => Tail(outq) = << >>)
    BY <1>3, HearsSomething, OneMessage DEF One
  <2>3. CASE HearNothing /\ host' = host /\ inq' = inq /\ outq' = Tail(outq)
    <3>1. CASE host.at = "helo"
      BY <1>1, <2>2, <2>3, <3>1 DEF DeleteInv
    <3>2. CASE host.at = "delete"
      <4>1. outq \in Seq(NoAcks) => Tail(outq) \in Seq(NoAcks)
        BY <2>2, QueueFacts
      <4>2. flash'.files = flash.files
        BY <1>1 DEF bvars
      <4> QED
        BY <1>1, <2>2, <2>3, <3>2, <4>1, <4>2 DEF DeleteInv
    <3> QED
      BY <2>1, <2>3, <3>1, <3>2
  <2>4. CASE /\ host.at = "helo" /\ host'.at = "delete" /\ outq' = Tail(outq) /\ Speaks
    <3>1. inq = << >> /\ outq' = << >>
      BY <1>1, <2>2, <2>4 DEF DeleteInv
    <3>2. PICK m : Utters(m)
      BY <2>4 DEF Speaks
    <3>3. inq' = <<m>> /\ m \in Message /\ Says(m)'
      BY <3>1, <3>2 DEF Utters, Fitting
    <3>4. Msg' = m /\ One(inq)'
      BY <3>3, OneMessage DEF Msg, One
    <3> QED
      BY <2>4, <3>1, <3>3, <3>4 DEF DeleteInv
  <2> QED
    BY <1>1, <1>3, <2>1, <2>3, <2>4, DeleteSays
<1>4. CASE Silence
  <2>1. \E r \in {"old", "failed"} : Ends(r)
    BY <1>4 DEF Silence
  <2> QED
    BY <1>1, <2>1, EndsSays DEF DeleteInv, Result
<1>5. CASE Unread \/ NeighbourSpeaks
  BY <1>5 DEF Unread, NeighbourSpeaks, Mishap, DeleteInv
<1> QED
  BY <1>2, <1>3, <1>4, <1>5 DEF ToolActs

LEMMA ToolBase == ASSUME BaseInv, ToolActs PROVE BaseInv'
<1>1. /\ Running /\ HostTyped' /\ CommandInv' /\ inq' \in Seq(Fitting) /\ outq' \in Seq(Message)
      /\ UNCHANGED bvars
  BY ToolTyped DEF ToolActs
<1>2. inq' \in Seq(Message)
  BY <1>1 DEF Fitting
<1>3. IInv'
  BY <1>1, <1>2 DEF BaseInv, IInv, bvars, TypeOK, LinkConsistent, InFlightFile, Running
<1>4. BootInv'
  BY <1>1 DEF BaseInv, BootInv, bvars, Running
<1>5. FitInv'
  BY <1>1 DEF BaseInv, FitInv, LedFits, FilesFit, FileFits, Fits, bvars
<1> QED
  BY <1>1, <1>3, <1>4, <1>5, DeleteTool DEF BaseInv

-----------------------------------------------------------------------------
(* So do the steps of the badge.                                           *)

(* Of a deletion or noise it makes a deletion or a refusal.                *)
LEMMA DeleteRead ==
  ASSUME Receive \/ AirFault, Msg.op \in {"DELFILE", "NOISE"}
  PROVE \/ RxDelete /\ Msg.op = "DELFILE"
        \/ flash' = flash /\ (outq' = outq \/ Say("NACK", NoBody))
<1>1. CASE AirFault
  BY <1>1 DEF AirFault, RxLost, RxGarbledHeader, RxGarbledPayload, Reply
<1>2. CASE RxIgnored \/ RxRejected \/ RxNoise \/ RxDelete \/ RxDeleteRefused
  BY <1>2 DEF RxIgnored, RxRejected, RxNoise, RxDelete, RxDeleteRefused, Arrives, Reply
<1>3. ~(RxGetFile \/ RxHelo \/ RxPutRefused)
  BY DEF RxGetFile, RxHelo, RxPutRefused, Arrives
<1>4. ~(RxPutUnreadable \/ RxPutDiscarded \/ RxPutUnlocks \/ RxPutNew)
  BY DEF RxPutUnreadable, RxPutDiscarded, RxPutUnlocks, RxPutNew, Offered, Arrives
<1>5. ~(RxFrame \/ RxLastFrame \/ RxFrameUnwritten)
  BY DEF RxFrame, RxLastFrame, RxFrameUnwritten, FrameArrives, Arrives
<1>6. ~(RxAck \/ RxAckLast \/ RxNackResends \/ RxNackGivesUp)
  BY DEF RxAck, RxAckLast, RxNackResends, RxNackGivesUp, Sending, Arrives
<1> QED
  BY <1>1, <1>2, <1>3, <1>4, <1>5, <1>6 DEF Receive

LEMMA DeleteBadge == ASSUME BaseInv, BadgeActs, outq' \in Seq(Message) PROVE DeleteInv'
<1>1. /\ TypeOK /\ DeleteInv /\ host' = host /\ inq \in Seq(Message) /\ outq \in Seq(Message)
  BY DEF BaseInv, IInv, TypeOK, BadgeActs
<1>2. CASE UNCHANGED vars \/ Export \/ Select \/ FallBack
  <2>1. inq' = inq /\ outq' = outq /\ flash' = flash
    BY <1>2 DEF vars, Export, Press, Select, FallBack
  <2>2. Says(Msg)' <=> Says(Msg)
    BY <1>1, <2>1 DEF Says, Msg
  <2> QED
    BY <1>1, <2>1, <2>2 DEF DeleteInv, One, Msg
<1>3. CASE Boot
  <2>1. host.at = "none"
    BY <1>1, <1>3, BootIsEarly DEF BaseInv, BootInv, NewHost
  <2> QED
    BY <1>1, <2>1 DEF DeleteInv
<1>4. CASE AirQuiet /\ (Start \/ TimeOut)
  <2>1. /\ inq' = << >> /\ outq = << >>
        /\ outq' = << >> \/ \E op \in {"PUTFILE", "GETFILE"} : \E body : Say(op, body)
    BY <1>4 DEF AirQuiet, Start, StartSend, StartSendDeclined, StartGet, TimeOut, TimeoutSending,
                TimeoutReceiving, Reply
  <2>2. ASSUME NEW op \in {"PUTFILE", "GETFILE"}, NEW body, Say(op, body)
        PROVE One(outq)' /\ outq' \in Seq(NoAcks)
    <3> DEFINE m == [op |-> op, from |-> Self, body |-> body]
    <3>1. outq' = <<m>> /\ m.op # "ACK"
      BY <2>1, <2>2 DEF Say
    <3> HIDE DEF m
    <3>2. m \in Message
      BY <3>1
    <3> QED
      BY <3>1, <3>2 DEF One, NoAcks
  <2>3. inq' \in Seq(Hiss) /\ (outq' = << >> => outq' \in Seq(NoAcks))
    BY <2>1, EmptySeq
  <2> QED
    BY <1>1, <2>1, <2>2, <2>3 DEF DeleteInv
<1>5. CASE Receive \/ AirFault
  <2>1. Consumes /\ inq # << >> /\ (outq' = outq \/ \E op, body : Say(op, body))
    BY <1>5, ReadsConsume, OneAnswer
  <2>2. CASE host.at = "helo"
    <3>1. outq = << >> /\ One(inq) /\ Msg.op = "HELO"
      BY <1>1, <2>1, <2>2 DEF DeleteInv
    <3>2. inq' = << >>
      <4>1. PICK m \in Message : inq = <<m>>
        BY <3>1 DEF One
      <4>2. ~HasPayload(m)
        BY <3>1, <4>1 DEF HasPayload, Msg
      <4> QED
        BY <2>1, <4>1, <4>2, ConsumedOne
    <3>3. outq' = << >> \/ One(outq)'
      <4>1. ASSUME NEW op, NEW body, Say(op, body) PROVE One(outq)'
        <5> DEFINE m == [op |-> op, from |-> Self, body |-> body]
        <5>1. outq' = <<m>>
          BY <3>1, <4>1 DEF Say
        <5> HIDE DEF m
        <5> QED
          BY <5>1 DEF One
      <4> QED
        BY <2>1, <3>1, <4>1
    <3> QED
      BY <1>1, <2>2, <3>2, <3>3 DEF DeleteInv
  <2>3. CASE host.at = "delete"
    <3>1. Noise \in Hiss
      BY ValueTypes DEF Hiss, Noise
    <3>2. /\ Msg.op \in {"DELFILE", "NOISE"} /\ inq' \in Seq(Hiss)
          /\ Msg.op = "DELFILE" => outq = << >> /\ Msg.body = host.anim.name
          /\ flash.files[host.anim.name].kind = "absent" \/ outq \in Seq(NoAcks)
      <4>1. CASE outq = << >> /\ One(inq) /\ Says(Msg)
        <5>1. PICK m \in Message : inq = <<m>>
          BY <4>1 DEF One
        <5>2. inq' \in Seq({Noise})
          BY <2>1, <5>1, ConsumedOne
        <5>3. Seq({Noise}) \subseteq Seq(Hiss) /\ outq \in Seq(NoAcks)
          BY <3>1, <4>1, EmptySeq
        <5> QED
          BY <2>3, <4>1, <5>2, <5>3 DEF Says
      <4>2. CASE /\ inq \in Seq(Hiss)
                 /\ flash.files[host.anim.name].kind = "absent" \/ outq \in Seq(NoAcks)
        <5>1. Msg \in Hiss
          BY <2>1, <4>2, QueueFacts DEF Msg
        <5>2. inq' \in Seq(Hiss)
          BY <2>1, <3>1, <4>2, DrainsTyped DEF Drains
        <5> QED
          BY <4>2, <5>1, <5>2 DEF Hiss
      <4> QED
        BY <1>1, <2>3, <4>1, <4>2 DEF DeleteInv
    <3>3. CASE RxDelete /\ Msg.op = "DELFILE"
      <4>1. Msg.body \in Name /\ Puts(Msg.body, Absent)
        BY <1>1, <3>3, DeletePuts
      <4>2. flash'.files[host.anim.name].kind = "absent"
        BY <1>1, <3>2, <3>3, <4>1, PutsFacts DEF Absent
      <4> QED
        BY <1>1, <2>3, <3>2, <4>2 DEF DeleteInv
    <3>4. CASE flash' = flash /\ (outq' = outq \/ Say("NACK", NoBody))
      <4>1. outq \in Seq(NoAcks) => outq' \in Seq(NoAcks)
        <5> DEFINE m == [op |-> "NACK", from |-> Self, body |-> NoBody]
        <5>1. m \in NoAcks
          BY StationAssumption DEF NoAcks, Message, Bare
        <5>2. outq' = outq \/ outq' = Append(outq, m)
          BY <3>4 DEF Say
        <5> HIDE DEF m
        <5> QED
          BY <5>1, <5>2, QueueFacts
      <4> QED
        BY <1>1, <2>3, <3>2, <3>4, <4>1 DEF DeleteInv
    <3> QED
      BY <1>5, <3>2, <3>3, <3>4, DeleteRead
  <2> QED
    BY <1>1, <2>2, <2>3 DEF DeleteInv
<1> QED
  BY <1>2, <1>3, <1>4, <1>5 DEF BadgeActs, AirFault

(* An offer that the badge acts on has the length its name says.           *)
LEMMA OfferFits ==
  ASSUME TypeOK, FitInv, Offered
  PROVE Offer.len = AnimLen[Offer.name] /\ Offer.name \in Name /\ Offer \in Anim /\ Msg \in Message
<1>1. Msg \in Fitting /\ Msg.op = "PUTFILE"
  BY QueueFacts DEF FitInv, Msg, Offered, Arrives
<1>2. Offer \in Anim /\ Offer.name \in Name /\ Msg \in Message /\ Acceptable(Offer)
  BY OfferedFacts DEF Offered
<1>3. Msg.body \in Anim
  BY <1>1, <1>2, MessageParts
<1>4. Offer.len = Msg.body.len /\ Offer.name = Msg.body.name /\ Offer.delay = Msg.body.delay
  BY <1>3 DEF Offer, Anim
<1>5. Acceptable(Msg.body)
  BY <1>2, <1>4 DEF Acceptable
<1> QED
  BY <1>1, <1>2, <1>4, <1>5 DEF Fitting, Fits

(* A transfer that starts is about an animation that fits.                 *)
LEMMA StartsFit ==
  ASSUME TypeOK, FitInv, Starts
  PROVE link'.state # "IDLE" => Fits(link'.header)
<1>1. CASE StartSend
  <2>1. link' = [link EXCEPT !.state = "FILE_TX", !.header = [led.ambient EXCEPT !.id = 0],
                             !.part = 0, !.resends = 0]
    BY <1>1 DEF StartSend
  <2>2. link'.header = [led.ambient EXCEPT !.id = 0] /\ led.ambient \in Anim
    BY <2>1 DEF TypeOK, Link, Led
  <2>3. link'.header.name = led.ambient.name /\ link'.header.len = led.ambient.len
    BY <2>2 DEF Anim
  <2> QED
    BY <2>3 DEF FitInv, LedFits, Fits
<1>2. CASE RxPutDiscarded \/ RxPutUnlocks \/ RxPutNew
  <2>1. Offered
    BY <1>2 DEF RxPutDiscarded, RxPutUnlocks, RxPutNew
  <2>2. Offer.len = AnimLen[Offer.name] /\ Offer \in Anim /\ Msg \in Message
    BY <2>1, OfferFits
  <2>3. \E id, u, fd : LET h == [Offer EXCEPT !.id = id, !.unlocked = u]
                       IN Receiving(h, fd) \/ Declining(h)
    <3>1. \A id : [Offer EXCEPT !.id = id] = [Offer EXCEPT !.id = id, !.unlocked = Offer.unlocked]
      BY <2>2 DEF Anim
    <3>2. CASE RxPutDiscarded
      BY <3>2 DEF RxPutDiscarded
    <3>3. CASE RxPutUnlocks \/ RxPutNew
      <4>1. \E id, fd : LET h == [Offer EXCEPT !.id = id] IN Receiving(h, fd) \/ Declining(h)
        BY <3>3 DEF RxPutUnlocks, RxPutNew
      <4> QED
        BY <3>1, <4>1
    <3> QED
      BY <1>2, <3>2, <3>3
  <2>4. PICK id, u, fd : LET h == [Offer EXCEPT !.id = id, !.unlocked = u]
                         IN Receiving(h, fd) \/ Declining(h)
    BY <2>3
  <2> DEFINE h == [Offer EXCEPT !.id = id, !.unlocked = u]
  <2>5. Fits(h)
    BY <2>2 DEF Fits, Anim
  <2>6. Receiving(h, fd) \/ Declining(h)
    BY <2>4
  <2> HIDE DEF h
  <2> QED
    BY <2>2, <2>5, <2>6, ReceivingFacts
<1> QED
  BY <1>1, <1>2 DEF Starts

LEMMA FitBadge == ASSUME BaseInv, BadgeActs PROVE FitInv'
<1>1. /\ IInv /\ TypeOK /\ LinkConsistent /\ FitInv /\ LedFits /\ FilesFit /\ Step
      /\ inq \in Seq(Fitting)
  BY BadgeActsStep DEF BaseInv, IInv, FitInv
<1>2. FilesFit'
  BY <1>1, OfferFits, FilesFitStep
<1>3. LedFits'
  BY <1>1, <1>2, LedFitsStep
<1>4. link'.state # "IDLE" => Fits(link'.header)
  <2>1. CASE Stays
    BY <1>1, <2>1 DEF Stays, FitInv
  <2>2. CASE Starts
    BY <1>1, <2>2, StartsFit
  <2> QED
    BY <1>1, <2>1, <2>2, StateSteps DEF Finishes
<1>5. inq' \in Seq(Fitting)
  <2>1. Noise \in Fitting
    BY ValueTypes DEF Fitting, Noise
  <2>2. Drains
    <3>1. UNCHANGED vars => inq' = inq
      BY DEF vars
    <3> QED
      BY <3>1, BadgeDrains DEF BadgeActs, BadgeStep, AirFault, Ui, Drains
  <2> QED
    BY <1>1, <2>1, <2>2, DrainsTyped
<1> QED
  BY <1>2, <1>3, <1>4, <1>5 DEF FitInv, Fits

LEMMA BadgeBase == ASSUME BaseInv, BadgeActs PROVE BaseInv'
<1>1. IInv' /\ host' = host /\ TypeOK
  BY BadgeActsStep, TypeStep, LinkStep, FlightStep DEF BaseInv, IInv, BadgeActs
<1>2. HostTyped' /\ CommandInv'
  BY <1>1 DEF BaseInv, HostTyped, CommandInv
<1>3. BootInv'
  <2>1. CASE Boot
    <3>1. UNCHANGED <<ev, inq, outq>>
      BY <2>1 DEF Boot, StorageInit, StorageInitFails, StorageInitFormats, Mounted, LedInitKeeps,
                  LedInitSaves, LedInitShows
    <3>2. ~Running
      BY <1>1, <2>1, BootIsEarly
    <3> QED
      BY <1>1, <3>1, <3>2 DEF BaseInv, BootInv, AirQuiet
  <2>2. CASE UNCHANGED vars
    BY <1>1, <2>2 DEF BaseInv, BootInv, AirQuiet, Running, vars
  <2>3. CASE ~Boot /\ ~UNCHANGED vars
    <3>1. Running /\ boot' = boot /\ ev' \subseteq ev \cup {"SENDFILE"}
      <4>1. CASE Receive \/ AirFault
        BY <4>1, OneAnswer
      <4>2. CASE Start \/ TimeOut
        BY <4>2 DEF Start, StartSend, StartSendDeclined, StartGet, TimeOut, TimeoutSending,
                    TimeoutReceiving
      <4>3. CASE Export \/ Select \/ FallBack
        BY <4>3 DEF Export, Press, Select, FallBack
      <4> QED
        BY <2>3, <4>1, <4>2, <4>3 DEF BadgeActs, AirFault
    <3> QED
      BY <3>1 DEF BaseInv, BootInv, Running
  <2> QED
    BY <2>1, <2>2, <2>3
<1>4. DeleteInv'
  BY <1>1, DeleteBadge DEF IInv, TypeOK
<1> QED
  BY <1>1, <1>2, <1>3, <1>4, FitBadge DEF BaseInv

LEMMA BaseStep == ASSUME BaseInv, [HostNext]_hvars PROVE BaseInv'
BY StepKinds, ToolBase, BadgeBase

LEMMA InitBase == ASSUME HostInit PROVE BaseInv
<1>1. Init /\ host = NewHost
  BY DEF HostInit
<1>2. IInv
  BY <1>1, InitIInv
<1>3. HostTyped
  <2>1. << >> \in Seq(Frame) /\ ZeroAnim \in Anim /\ "none" \in Result /\ 0 \in Nat /\ 1 \in Nat
    BY ValueTypes, EmptySeq DEF Result
  <2> HIDE DEF Result
  <2> QED
    BY <1>1, <2>1 DEF HostTyped, NewHost
<1>4. /\ inq = << >> /\ outq = << >> /\ ev = {} /\ host.at = "none" /\ link.state = "IDLE"
      /\ led = NewLed
  BY <1>1 DEF Init, NewHost, NewLink
<1>5. FilesFit
  <2>1. ASSUME NEW n \in Name PROVE FileFits(n, flash.files[n])
    <3>1. CASE \E h \in Seed : h.name = n
      <4> DEFINE h == CHOOSE h \in Seed : h.name = n
      <4>1. h \in Seed /\ h.name = n
        BY <3>1
      <4>2. h.len = AnimLen[n]
        BY <4>1, SeedAssumption
      <4>3. flash.files[n] = Stored(h, FramesOf(n))
        BY <1>1, <3>1 DEF Init, SeededFile
      <4> HIDE DEF h
      <4> QED
        BY <4>1, <4>2, <4>3 DEF FileFits, Stored
    <3>2. CASE ~\E h \in Seed : h.name = n
      BY <1>1, <3>2 DEF Init, SeededFile, FileFits, Absent
    <3> QED
      BY <3>1, <3>2
  <2> QED
    BY <2>1 DEF FilesFit
<1>6. LedFits
  BY <1>4, <1>5, FitsFacts DEF LedFits, NewLed
<1>7. FitInv
  BY <1>4, <1>5, <1>6, EmptySeq DEF FitInv
<1>8. BootInv /\ CommandInv /\ DeleteInv
  BY <1>1, <1>4 DEF BootInv, CommandInv, DeleteInv, AirQuiet
<1> QED
  BY <1>2, <1>3, <1>7, <1>8 DEF BaseInv

LEMMA BaseInvariance == HostSpec => []BaseInv
<1>1. HostInit => BaseInv
  BY InitBase
<1>2. BaseInv /\ [HostNext]_hvars => BaseInv'
  BY BaseStep
<1> QED
  BY <1>1, <1>2, PTL DEF HostSpec

-----------------------------------------------------------------------------
(* How the tool comes to report something.                                 *)
LEMMA Reports ==
  ASSUME BaseInv, [HostNext]_hvars, host'.result # host.result
  PROVE \/ HearDeleted /\ host'.result = "deleted"
        \/ HearFrameAck /\ FramesDone /\ host'.result = "sent"
        \/ HearFrame /\ host'.result = "saved"
        \/ host'.result \in {"none", "informed", "refused", "failed", "old"}
<1>1. HostTyped /\ CommandInv /\ outq \in Seq(Message) /\ host' # host
  BY DEF BaseInv, IInv, TypeOK
<1>2. ASSUME NEW r, Ends(r) PROVE host'.result = r
  BY <1>1, <1>2 DEF Ends, HostTyped
<1>3. CASE Commands
  <2>1. \E at, a : host' = [NewHost EXCEPT !.at = at, !.anim = a]
    BY <1>3 DEF Commands, Info, GetFile, Delete, PutFileCommand, Command
  <2> QED
    BY <2>1 DEF NewHost
<1>4. CASE HearVersion
  <2>1. host' = [host EXCEPT !.at = "delete"] => host'.result = host.result
    BY <1>1 DEF HostTyped
  <2> QED
    BY <1>2, <1>4, <2>1 DEF HearVersion
<1>5. CASE HearDeleted \/ HearRefused \/ HearUnexpected
  BY <1>2, <1>5 DEF HearDeleted, HearRefused, HearUnexpected
<1>6. CASE HearPutAck \/ HearFrameAck \/ HearFrameNack
  <2>1. host.at \in {"put", "frame"}
    BY <1>6 DEF HearPutAck, HearFrameAck, HearFrameNack, Hears
  <2>2. ASSUME NEW k \in 1..host.anim.len, NEW a \in Nat, SendFrame(k, a) PROVE FALSE
    BY <1>1, <2>1, <2>2, FrameSays
  <2> QED
    BY <1>1, <1>2, <1>6, <2>2, AnswerSays
<1>7. CASE HearPut \/ HearFrame
  BY <1>1, <1>7, PullSays
<1>8. CASE \/ HearGarbledHeader \/ HearNoise \/ HearGarbledPayload \/ HearCutShort \/ HearNothing
           \/ Silence
  <2>1. (\E r \in {"failed", "old"} : Ends(r)) \/ AskAgain \/ HearNothing
    BY <1>8, BadlySays DEF Silence
  <2>2. ~AskAgain /\ ~HearNothing
    BY <1>1, AskSays DEF HearNothing
  <2> QED
    BY <1>2, <2>1, <2>2
<1>9. CASE Unread \/ NeighbourSpeaks \/ BadgeActs
  BY <1>1, <1>9 DEF Unread, NeighbourSpeaks, Mishap, BadgeActs
<1> QED
  BY <1>3, <1>4, <1>5, <1>6, <1>7, <1>8, <1>9, StepKinds DEF ToolActs, HostHears

(* When the tool has said "Deleted", the badge no longer holds the         *)
(* animation (serial_rx_done, controller.py delete), however many messages *)
(* were lost or garbled before, whatever was taken for a message in what   *)
(* was left of them and whatever storage calls failed.                     *)
THEOREM DeletionsAreReal == HostSpec => DeletedIsGone
<1>1. ASSUME BaseInv, [HostNext]_hvars, host'.result = "deleted", host.result # "deleted"
      PROVE flash.files[host.anim.name].kind = "absent"
  <2>1. HearDeleted
    BY <1>1, Reports
  <2>2. host.at = "delete" /\ outq # << >> /\ Heard.op = "ACK"
    BY <2>1 DEF HearDeleted, Hears, Answered, Heard
  <2>3. outq \notin Seq(NoAcks)
    <3>1. outq \in Seq(NoAcks) => Heard \in NoAcks
      BY <2>2, QueueFacts DEF Heard
    <3> QED
      BY <2>2, <3>1 DEF NoAcks
  <2> QED
    BY <1>1, <2>2, <2>3 DEF BaseInv, DeleteInv
<1>2. BaseInv /\ [HostNext]_hvars =>
        [host'.result = "deleted" /\ host.result # "deleted" =>
           flash.files[host.anim.name].kind = "absent"]_hvars
  BY <1>1
<1> QED
  BY <1>2, BaseInvariance, PTL DEF HostSpec, DeletedIsGone

-----------------------------------------------------------------------------
(* What holds as long as no header has arrived garbled.                    *)

(* At most one message is under way.                                       *)
TakesTurns ==
  \/ AirQuiet
  \/ outq = << >> /\ One(inq)
  \/ inq = << >> /\ One(outq)

(* A badge that boots finds no file longer than its animation.             *)
ShortInv == ~Running => \A n \in Name : Len(flash.files[n].frames) <= AnimLen[n]

AskInv == inq # << >> => Says(Msg)

(* The badge has the animation a, or has taken its first k frames.         *)
Holds(a) ==
  LET f == flash.files[a.name]
  IN Valid(f) /\ f.frames = FramesOf(a.name) /\ (a.unlocked => f.hdr.unlocked)
Took(a, k) ==
  /\ link.peer = Controller /\ link.part = k /\ link.header.name = a.name /\ link.header.len = a.len
  /\ \/ /\ link.state = "FILE_RX" /\ (a.unlocked => link.header.unlocked)
        /\ flash.files[a.name].frames = SubSeq(FramesOf(a.name), 1, k)
     \/ link.state = "FILE_RX_DONE" /\ Holds(a)

(* An upload in which something is under way is in step: the badge has     *)
(* taken every frame before the one that is on its way or was refused, and *)
(* that one too when its ACK is.                                           *)
UploadInv ==
  /\ host.at = "put" /\ outq # << >> /\ Heard.op = "ACK" => Took(host.anim, 0)
  /\ host.at = "frame" =>
       /\ inq # << >> => Took(host.anim, host.frame - 1)
       /\ outq # << >> /\ Heard.op = "NACK" => Took(host.anim, host.frame - 1)
       /\ outq # << >> /\ Heard.op = "ACK" =>
            IF host.frame = host.anim.len THEN Holds(host.anim) ELSE Took(host.anim, host.frame)

(* A badge that sends has what it sends, and what it has just said is what *)
(* a NACK makes it repeat; to the tool when that has asked.                *)
SendsStored ==
  link.state = "FILE_TX" => link.header.name \in Name /\ Valid(flash.files[link.header.name])
ToTool == link.peer \in {NoPeer, Controller}
SendInv ==
  /\ SendsStored
  /\ outq # << >> /\ Heard.op = "PUTFILE" =>
       /\ link.state = "FILE_TX" /\ link.part = 0 /\ Heard.body = link.header
       /\ host.at = "get" => ToTool
  /\ outq # << >> /\ Heard.op = "APPFILE" =>
       link.state = "FILE_TX" /\ link.part > 0 /\ Heard.body = link.payload

(* A download in which something is under way is in step: the tool has the *)
(* frames before the last one sent, and that one too when it says ACK.  A  *)
(* badge that has started over (its owner pressed a button) has sent no    *)
(* frame yet, and hears no ACK.                                            *)
Acks == inq # << >> /\ Msg.op = "ACK"
PullInv ==
  host.at = "pull" =>
    LET fs == FramesOf(host.anim.name)
        k == Len(host.got)
    IN /\ host.anim.name \in Name /\ host.anim.len = AnimLen[host.anim.name]
       /\ k < AnimLen[host.anim.name] /\ host.got = SubSeq(fs, 1, k)
       /\ ~AirQuiet => link.state = "FILE_TX" /\ ToTool
       /\ Acks => link.header.name = host.anim.name /\ link.part = k
       /\ ~AirQuiet /\ ~Acks /\ link.part > 0 =>
            /\ link.header.name = host.anim.name /\ link.part = k + 1
            /\ link.payload = fs[k + 1]

TalkInv == AskInv /\ UploadInv /\ SendInv /\ PullInv
HostInv == BaseInv /\ Intact /\ ShortInv /\ TakesTurns /\ TalkInv

(* One exception: the badge has refused what a station other than its peer *)
(* has offered it or asked it to delete, and takes bytes of that for       *)
(* headers.  It answers each with a NACK, which ends the command.          *)
Refusal ==
  /\ BaseInv /\ Running /\ Intact /\ SendsStored
  /\ host.at \in {"none", "put", "delete"} /\ inq \in Seq(Hiss) /\ outq \in Seq(Nacks)

-----------------------------------------------------------------------------
(* The steps of the tool keep it.                                          *)

(* The badge on its own goes on as before, whatever becomes of the tool.   *)
LEMMA BadgeUnmoved ==
  ASSUME UNCHANGED bvars
  PROVE /\ Running' = Running /\ (Intact => Intact') /\ (ShortInv => ShortInv')
        /\ SendsStored => SendsStored'
        /\ \A a, k : (Took(a, k) => Took(a, k)') /\ (Holds(a) => Holds(a)')
BY DEF bvars, Running, Intact, ShortInv, Live, SendsStored, Took, Holds

(* What the tool starts with, or ends with, while nothing is under way.    *)
LEMMA ToolRests ==
  ASSUME HostInv, BaseInv', UNCHANGED bvars, inq' = << >>, outq' = << >>,
         host'.at = "none" \/ host' = host
  PROVE HostInv'
<1>1. Intact' /\ ShortInv' /\ SendsStored'
  BY BadgeUnmoved DEF HostInv, TalkInv, SendInv
<1>2. AirQuiet' /\ TakesTurns' /\ ~Acks'
  BY DEF AirQuiet, TakesTurns, Acks
<1>3. AskInv' /\ UploadInv' /\ SendInv'
  BY <1>1 DEF AskInv, UploadInv, SendInv
<1>4. PullInv'
  <2>1. CASE host'.at = "none"
    BY <2>1 DEF PullInv
  <2>2. CASE host' = host
    BY <1>2, <2>2 DEF HostInv, TalkInv, PullInv
  <2> QED
    BY <2>1, <2>2
<1> QED
  BY <1>1, <1>2, <1>3, <1>4 DEF HostInv, TalkInv

(* What the tool says.                                                     *)
LEMMA ToolSays ==
  ASSUME HostInv, BaseInv', UNCHANGED bvars, inq = << >>, Speaks, outq' = << >>,
         host'.at = "frame" => Took(host'.anim, host'.frame - 1),
         host'.at = "pull" => PullInv'
  PROVE HostInv'
<1>1. PICK m : Utters(m)
  BY DEF Speaks
<1>2. inq' = <<m>> /\ m \in Message /\ Says(m)'
  BY <1>1 DEF Utters, Fitting
<1>3. Msg' = m /\ One(inq)'
  BY <1>2, OneMessage DEF Msg, One
<1>4. Intact' /\ ShortInv' /\ SendsStored'
  BY BadgeUnmoved DEF HostInv, TalkInv, SendInv
<1>5. TakesTurns'
  BY <1>3 DEF TakesTurns
<1>6. AskInv'
  BY <1>2, <1>3 DEF AskInv
<1>7. UploadInv' /\ SendInv' /\ PullInv'
  BY <1>4, BadgeUnmoved DEF UploadInv, SendInv, PullInv
<1> QED
  BY <1>4, <1>5, <1>6, <1>7 DEF HostInv, TalkInv

(* A command that starts.                                                  *)
LEMMA CommandStep == ASSUME HostInv, BaseInv', Commands PROVE HostInv'
<1>1. /\ AirQuiet /\ UNCHANGED <<bvars, outq>> /\ Speaks
      /\ host'.at \in {"info", "helo", "put", "get"}
  BY CommandSays DEF HostInv, BaseInv
<1> QED
  BY <1>1, ToolSays DEF AirQuiet

(* What the tool hears is all there is.                                    *)
LEMMA HearingFacts ==
  ASSUME HostInv, outq # << >>
  PROVE /\ inq = << >> /\ Tail(outq) = << >> /\ Len(outq) = 1 /\ Heard \in Message /\ ~AirQuiet
        /\ ~Acks /\ HostTyped /\ CommandInv /\ outq \in Seq(Message)
<1>1. inq = << >> /\ One(outq)
  BY DEF HostInv, TakesTurns, AirQuiet
<1>2. PICK m \in Message : outq = <<m>>
  BY <1>1 DEF One
<1> QED
  BY <1>1, <1>2, OneMessage DEF HostInv, BaseInv, IInv, TypeOK, Heard, AirQuiet, Acks

(* The end of a command.                                                   *)
LEMMA EndStep ==
  ASSUME HostInv, BaseInv', UNCHANGED bvars, outq # << >>, outq' = << >>, NEW r \in Result, Ends(r)
  PROVE HostInv'
<1>1. inq' = << >> /\ host'.at = "none"
  BY HearingFacts, EndsSays
<1> QED
  BY <1>1, ToolRests

(* Asking for the same again.                                              *)
LEMMA AskStep ==
  ASSUME HostInv, BaseInv', UNCHANGED bvars, outq # << >>, outq' = << >>, AskAgain
  PROVE HostInv'
<1>1. inq = << >> /\ HostTyped /\ CommandInv /\ ~AirQuiet /\ ~Acks
  BY HearingFacts
<1>2. /\ Speaks /\ host.at \in {"get", "pull"} /\ host'.at = host.at
      /\ host'.anim = host.anim /\ host'.got = host.got
  BY <1>1, AskSays
<1>3. host'.at = "pull" => PullInv'
  <2>1. SUFFICES ASSUME host.at = "pull" PROVE PullInv'
    BY <1>2
  <2>2. Msg'.op = "NACK"
    <3> DEFINE m == [op |-> "NACK", from |-> Controller, body |-> NoBody]
    <3>1. inq' = <<m>> /\ m.op = "NACK"
      BY <1>1 DEF AskAgain, Send, Relayed
    <3> HIDE DEF m
    <3> QED
      BY <3>1 DEF Msg
  <2>3. ~Acks'
    BY <2>2 DEF Acks
  <2>4. link' = link
    BY DEF bvars
  <2>5. PullInv
    BY DEF HostInv, TalkInv
  <2> QED
    BY <1>1, <1>2, <2>1, <2>3, <2>4, <2>5 DEF PullInv, ToTool
<1> QED
  BY <1>1, <1>2, <1>3, ToolSays

(* A message taken badly, but for a garbled header.                        *)
LEMMA HearBadlyStep ==
  ASSUME HostInv, BaseInv', HearNoise \/ HearGarbledPayload \/ HearCutShort \/ HearNothing
  PROVE HostInv'
<1>1. /\ UNCHANGED bvars /\ outq # << >>
      /\ outq' = Tail(outq) \/ \E k \in {2, 3} : outq' = SubSeq(outq, k, Len(outq))
  BY DEF HearNoise, HearGarbledPayload, HearCutShort, HearNothing, HearsBadly
<1>2. outq' = << >> /\ inq = << >>
  <2>1. \A k \in {2, 3} : SubSeq(outq, k, 1) = << >>
    OBVIOUS
  <2> QED
    BY <1>1, <2>1, HearingFacts
<1>3. CASE \E r \in {"failed", "old"} : Ends(r)
  BY <1>1, <1>2, <1>3, EndStep DEF Result
<1>4. CASE AskAgain
  BY <1>1, <1>2, <1>4, AskStep
<1>5. CASE HearNothing
  BY <1>1, <1>2, <1>5, ToolRests DEF HearNothing
<1> QED
  BY <1>3, <1>4, <1>5, BadlySays

(* The answer to a HELO.                                                   *)
LEMMA HearVersionStep == ASSUME HostInv, BaseInv', HearVersion PROVE HostInv'
<1>1. UNCHANGED bvars /\ outq # << >> /\ outq' = Tail(outq)
  BY DEF HearVersion, Hears
<1>2. inq = << >> /\ outq' = << >> /\ HostTyped /\ CommandInv
  BY <1>1, HearingFacts
<1>3. CASE Ends("informed")
  BY <1>1, <1>2, <1>3, EndStep DEF Result
<1>4. CASE /\ Hears("helo", "VERSION") /\ host' = [host EXCEPT !.at = "delete"]
           /\ Send("DELFILE", host.anim.name)
  BY <1>1, <1>2, <1>4, HeloSays, ToolSays DEF Hears
<1> QED
  BY <1>3, <1>4 DEF HearVersion

(* The answer to an offer or to a frame.                                   *)
LEMMA HearAnswerStep ==
  ASSUME HostInv, BaseInv', HearPutAck \/ HearFrameAck \/ HearFrameNack
  PROVE HostInv'
<1>1. /\ UNCHANGED bvars /\ outq # << >> /\ outq' = Tail(outq) /\ host.at \in {"put", "frame"}
      /\ HearPutAck => host.at = "put" /\ Heard.op = "ACK"
      /\ HearFrameAck => host.at = "frame" /\ Heard.op = "ACK"
      /\ HearFrameNack => host.at = "frame" /\ Heard.op = "NACK"
  BY DEF HearPutAck, HearFrameAck, HearFrameNack, Hears, Heard
<1>2. inq = << >> /\ outq' = << >> /\ HostTyped /\ CommandInv
  BY <1>1, HearingFacts
<1>3. ASSUME NEW k \in 1..host.anim.len, NEW a \in Nat, SendFrame(k, a), Took(host.anim, k - 1)
      PROVE HostInv'
  BY <1>1, <1>2, <1>3, FrameSays, ToolSays
<1>4. UploadInv /\ host.frame \in Nat
  BY <1>2, HostParts DEF HostInv, TalkInv
<1>5. CASE HearPutAck /\ 1 \in 1..host.anim.len /\ SendFrame(1, 1)
  <2>1. Took(host.anim, 1 - 1)
    BY <1>1, <1>4, <1>5 DEF UploadInv
  <2> QED
    BY <1>3, <1>5, <2>1
<1>6. CASE /\ HearFrameAck /\ ~FramesDone
           /\ host.frame + 1 \in 1..host.anim.len /\ SendFrame(host.frame + 1, 1)
  <2>1. Took(host.anim, host.frame)
    BY <1>1, <1>4, <1>6 DEF UploadInv, FramesDone
  <2>2. (host.frame + 1) - 1 = host.frame
    BY <1>4
  <2> QED
    BY <1>3, <1>6, <2>1, <2>2
<1>7. CASE /\ HearFrameNack /\ host.frame \in 1..host.anim.len /\ host.attempt + 1 \in Nat
           /\ SendFrame(host.frame, host.attempt + 1)
  BY <1>1, <1>3, <1>4, <1>7 DEF UploadInv
<1>8. CASE Ends("sent") \/ Ends("failed")
  BY <1>1, <1>2, <1>8, EndStep DEF Result
<1> QED
  BY <1>2, <1>5, <1>6, <1>7, <1>8, AnswerSays

(* A download begins with the animation the badge announces.               *)
LEMMA HearPutStep == ASSUME HostInv, BaseInv', HearPut PROVE HostInv'
<1>1. /\ UNCHANGED bvars /\ outq # << >> /\ outq' = Tail(outq) /\ host.at = "get"
      /\ Heard.op = "PUTFILE"
  BY DEF HearPut, Hears, Heard
<1>2. inq = << >> /\ outq' = << >> /\ HostTyped /\ CommandInv /\ outq \in Seq(Message)
  BY <1>1, HearingFacts
<1>3. Speaks /\ host'.at = "pull" /\ host'.anim = Heard.body /\ host'.got = host.got
  BY <1>2, PullSays
<1>4. PullInv'
  <2>1. /\ link'.state = "FILE_TX" /\ link'.part = 0 /\ host'.anim = link'.header /\ ToTool'
    BY <1>1, <1>3 DEF HostInv, TalkInv, SendInv, bvars, ToTool
  <2>2. host'.got = << >>
    BY <1>1, <1>2, <1>3 DEF CommandInv
  <2>3. host'.anim.name \in Name /\ host'.anim.len = AnimLen[host'.anim.name]
    BY <1>1, <2>1 DEF HostInv, BaseInv, FitInv, Fits, TalkInv, SendInv, SendsStored, bvars
  <2>4. 0 < AnimLen[host'.anim.name]
    BY <2>3, BoundAssumption
  <2>5. Len(host'.got) = 0 /\ host'.got = SubSeq(FramesOf(host'.anim.name), 1, Len(host'.got))
    BY <2>2
  <2> HIDE DEF FramesOf
  <2> QED
    BY <2>1, <2>3, <2>4, <2>5 DEF PullInv
<1> QED
  BY <1>1, <1>2, <1>3, <1>4, ToolSays

(* A frame that the tool takes is the next one.                            *)
LEMMA HearFrameFacts ==
  ASSUME HostInv, HearFrame
  PROVE LET n == host.anim.name
            k == Len(host.got)
        IN /\ n \in Name /\ host.anim.len = AnimLen[n] /\ k \in Nat /\ k + 1 \in 1..AnimLen[n]
           /\ host'.got = SubSeq(FramesOf(n), 1, k + 1) /\ Len(host'.got) = k + 1
           /\ link.state = "FILE_TX" /\ ToTool /\ link.header.name = n /\ link.part = k + 1
<1> DEFINE n == host.anim.name
           k == Len(host.got)
           fs == FramesOf(n)
<1>1. outq # << >> /\ Heard.op = "APPFILE" /\ host.at = "pull"
  BY DEF HearFrame, Hears, Heard
<1>2. ~AirQuiet /\ ~Acks /\ HostTyped /\ outq \in Seq(Message) /\ Heard \in Message
  BY <1>1, HearingFacts
<1>3. host'.got = Append(host.got, Heard.body)
  BY <1>2, PullSays
<1>4. PullInv /\ SendInv /\ k \in Nat /\ Heard.body \in Frame /\ host.got \in Seq(Frame)
  BY <1>1, <1>2, HostParts, LenProperties, MessageParts DEF HostInv, TalkInv
<1> HIDE DEF k
<1>5. /\ n \in Name /\ host.anim.len = AnimLen[n] /\ k < AnimLen[n] /\ host.got = SubSeq(fs, 1, k)
      /\ link.state = "FILE_TX" /\ ToTool /\ link.part > 0 /\ link.header.name = n
      /\ link.part = k + 1 /\ Heard.body = fs[k + 1]
  BY <1>1, <1>2, <1>4 DEF PullInv, SendInv, k
<1>6. k + 1 \in 1..AnimLen[n] /\ (k + 1) - 1 = k
  BY <1>4, <1>5, BoundAssumption
<1>7. host'.got = SubSeq(fs, 1, k + 1)
  BY <1>3, <1>5, <1>6, OneFrameMore
<1>8. Len(host'.got) = k + 1
  BY <1>3, <1>4, AppendProperties DEF k
<1> QED
  BY <1>4, <1>5, <1>6, <1>7, <1>8 DEF k

LEMMA HearFrameStep == ASSUME HostInv, BaseInv', HearFrame PROVE HostInv'
<1> DEFINE n == host.anim.name
           k == Len(host.got)
<1>1. /\ UNCHANGED bvars /\ outq # << >> /\ outq' = Tail(outq) /\ host.at = "pull"
  BY DEF HearFrame, Hears
<1>2. inq = << >> /\ outq' = << >> /\ HostTyped /\ CommandInv /\ outq \in Seq(Message)
  BY <1>1, HearingFacts
<1>3. /\ Speaks /\ host'.anim = host.anim
      /\ IF Len(host'.got) = host.anim.len THEN host'.at = "none" ELSE host'.at = "pull"
  BY <1>2, PullSays
<1>4. /\ n \in Name /\ host.anim.len = AnimLen[n] /\ k \in Nat /\ k + 1 \in 1..AnimLen[n]
      /\ host'.got = SubSeq(FramesOf(n), 1, k + 1) /\ Len(host'.got) = k + 1
      /\ link.state = "FILE_TX" /\ ToTool /\ link.header.name = n /\ link.part = k + 1
  BY HearFrameFacts
<1>5. host'.at = "pull" => PullInv'
  <2>1. SUFFICES ASSUME host'.at = "pull" PROVE PullInv'
    OBVIOUS
  <2>2. k + 1 < AnimLen[n]
    BY <1>3, <1>4, <2>1, BoundAssumption
  <2>3. link' = link /\ Acks'
    <3> DEFINE m == [op |-> "ACK", from |-> Controller, body |-> NoBody]
    <3>1. inq' = <<m>> /\ m.op = "ACK"
      BY <1>2 DEF HearFrame, Send, Relayed
    <3> HIDE DEF m
    <3> QED
      BY <1>1, <3>1 DEF Acks, Msg, bvars
  <2> QED
    BY <1>3, <1>4, <2>2, <2>3 DEF PullInv, ToTool
<1> QED
  BY <1>1, <1>2, <1>3, <1>5, ToolSays

(* So it goes on with whatever the tool hears.                             *)
LEMMA HostHearsStep ==
  ASSUME HostInv, BaseInv', HostHears, ~misheard'
  PROVE HostInv'
<1>1. CASE HearDeleted \/ HearRefused \/ HearUnexpected
  <2>1. /\ UNCHANGED bvars /\ outq # << >> /\ outq' = Tail(outq)
        /\ \E r \in {"deleted", "refused", "failed"} : Ends(r)
    BY <1>1 DEF HearDeleted, HearRefused, HearUnexpected, Hears
  <2>2. outq' = << >>
    BY <2>1, HearingFacts
  <2> QED
    BY <2>1, <2>2, EndStep DEF Result
<1>2. ~HearGarbledHeader
  BY DEF HearGarbledHeader
<1> QED
  BY <1>1, <1>2, HearVersionStep, HearAnswerStep, HearPutStep, HearFrameStep, HearBadlyStep
  DEF HostHears

(* Silence, what is left unread and a neighbour that speaks up.            *)
LEMMA QuietStep ==
  ASSUME HostInv, BaseInv', NeighboursOffer, Silence \/ Unread \/ NeighbourSpeaks
  PROVE HostInv'
<1>1. CASE Silence
  <2>1. UNCHANGED bvars /\ AirQuiet /\ outq' = outq /\ \E r \in {"old", "failed"} : Ends(r)
    BY <1>1 DEF Silence
  <2>2. inq' = << >> /\ outq' = << >> /\ host'.at = "none"
    BY <2>1, EndsSays DEF AirQuiet, HostInv, BaseInv, Result
  <2> QED
    BY <2>1, <2>2, ToolRests
<1>2. CASE Unread
  <2>1. UNCHANGED bvars /\ outq' = << >> /\ inq' = << >> /\ host' = host
    BY <1>2, HearingFacts DEF Unread
  <2> QED
    BY <2>1, ToolRests
<1>3. CASE NeighbourSpeaks
  <2>1. /\ UNCHANGED bvars /\ inq = << >> /\ outq' = << >> /\ host' = host /\ host.at = "none"
    BY <1>3 DEF NeighbourSpeaks, Mishap, AirQuiet
  <2>2. PICK m \in Neighbours : inq' = <<m>> /\ m.op # "APPFILE"
    BY <1>3 DEF NeighbourSpeaks, NeighboursOffer
  <2>3. m \in Fitting
    BY HostAssumption DEF Fitting, Fits
  <2>4. Says(m)'
    BY <2>1, <2>2 DEF Says
  <2>5. Speaks
    BY <2>1, <2>2, <2>3, <2>4 DEF Speaks, Utters
  <2> QED
    BY <2>1, <2>5, ToolSays
<1> QED
  BY <1>1, <1>2, <1>3

LEMMA ToolStep ==
  ASSUME HostInv, BaseInv', NeighboursOffer, ToolActs, ~misheard'
  PROVE HostInv'
BY CommandStep, HostHearsStep, QuietStep DEF ToolActs

-----------------------------------------------------------------------------
(* So do the reads of the badge, but for the one that is refused.          *)

Hearing == (Receive \/ RxLost \/ RxGarbledPayload) /\ UNCHANGED host
Read == Hearing /\ inq' = << >>

(* Only a payload that nobody reads leaves something of a single message.  *)
LEMMA RefusedRead ==
  ASSUME HostInv, BaseInv', Hearing, inq' # << >>
  PROVE Refusal'
<1>1. /\ Receive \/ AirFault
      /\ inq # << >> /\ boot' = boot /\ Running /\ Consumes /\ host' = host
  BY OneAnswer, ReadsConsume DEF Hearing, AirFault
<1>2. PICK m \in Message : inq = <<m>>
  BY <1>1 DEF HostInv, TakesTurns, AirQuiet, One
<1>3. outq = << >> /\ Msg = m /\ Says(Msg) /\ Tail(inq) = << >>
  BY <1>1, <1>2, OneMessage DEF HostInv, TakesTurns, AirQuiet, TalkInv, AskInv, Msg
<1>4. HasPayload(m) /\ inq' \in Seq({Noise})
  BY <1>1, <1>2, ConsumedOne
<1>5. RxRejected
  <2>1. ~Take
    BY <1>3 DEF Take
  <2>2. ~RxNoise
    BY <1>3, <1>4 DEF RxNoise, HasPayload
  <2>3. ~(RxIgnored \/ RxGetFile \/ RxHelo \/ RxDelete \/ RxDeleteRefused \/ RxPutRefused
            \/ RxLost \/ RxGarbledPayload)
    BY <2>1 DEF RxIgnored, RxGetFile, RxHelo, RxDelete, RxDeleteRefused, RxPutRefused, RxLost,
                RxGarbledPayload
  <2>4. ~(RxPutUnreadable \/ RxPutDiscarded \/ RxPutUnlocks \/ RxPutNew)
    BY <2>1 DEF RxPutUnreadable, RxPutDiscarded, RxPutUnlocks, RxPutNew, Offered
  <2>5. ~(RxFrame \/ RxLastFrame \/ RxFrameUnwritten)
    BY <2>1 DEF RxFrame, RxLastFrame, RxFrameUnwritten, FrameArrives
  <2>6. ~(RxAck \/ RxAckLast \/ RxNackResends \/ RxNackGivesUp)
    BY <2>1 DEF RxAck, RxAckLast, RxNackResends, RxNackGivesUp, Sending
  <2> QED
    BY <2>2, <2>3, <2>4, <2>5, <2>6 DEF Hearing, Receive
<1>6. host.at \in {"none", "put", "delete"}
  <2>1. host.at = "frame" => Msg.from = link.peer
    BY <1>1, <1>3 DEF HostInv, TalkInv, UploadInv, Took, Says
  <2>2. host.at # "frame"
    BY <1>5, <2>1 DEF RxRejected, FromPeer
  <2>3. host.at \in Waiting \cup {"none"}
    BY HostParts DEF HostInv, BaseInv
  <2> QED
    BY <1>3, <1>4, <2>2, <2>3 DEF Waiting, Says, HasPayload
<1>7. /\ UNCHANGED <<link, flash>> /\ Say("NACK", NoBody)
  BY <1>5 DEF RxRejected, Reply
<1>8. outq' \in Seq(Nacks)
  <2> DEFINE a == [op |-> "NACK", from |-> Self, body |-> NoBody]
  <2>1. a \in Nacks /\ outq' = <<a>>
    BY <1>3, <1>7, StationAssumption DEF Say, Nacks, Message, Bare
  <2> HIDE DEF a
  <2> QED
    BY <2>1
<1>9. inq' \in Seq(Hiss)
  <2>1. Noise \in Hiss
    BY ValueTypes DEF Hiss, Noise
  <2> QED
    BY <1>4, <2>1
<1>10. Intact' /\ SendsStored' /\ Running'
  BY <1>1, <1>7 DEF HostInv, TalkInv, SendInv, Intact, Live, SendsStored, Running
<1> QED
  BY <1>1, <1>6, <1>8, <1>9, <1>10 DEF Refusal

(* What every other read of the badge has in common.                       *)
LEMMA ReadFacts ==
  ASSUME HostInv, BaseInv', Read
  PROVE /\ Running /\ inq # << >> /\ ~AirQuiet /\ Msg \in Message /\ Says(Msg)
        /\ inq' = << >> /\ outq = << >> /\ (outq' # << >> => Heard' \in Message)
        /\ (\A op, body : Say(op, body) => outq' # << >> /\ Heard'.op = op /\ Heard'.body = body)
        /\ TakesTurns' /\ ShortInv' /\ AskInv' /\ ~Acks' /\ host' = host
<1>1. Running /\ inq # << >> /\ boot' = boot /\ host' = host /\ inq' = << >>
  BY OneAnswer DEF Read, Hearing, AirFault
<1>2. outq = << >> /\ \E m \in Message : inq = <<m>>
  BY <1>1 DEF HostInv, TakesTurns, AirQuiet, One
<1>3. Msg \in Message
  BY <1>2, OneMessage DEF Msg
<1>4. ASSUME NEW op, NEW body, Say(op, body)
      PROVE /\ outq' # << >> /\ Heard'.op = op /\ Heard'.body = body
            /\ Heard' \in Message /\ outq' = <<Heard'>>
  <2> DEFINE m == [op |-> op, from |-> Self, body |-> body]
  <2>1. outq' = <<m>>
    BY <1>2, <1>4 DEF Say
  <2>2. outq' \in Seq(Message)
    BY DEF BaseInv, IInv, TypeOK
  <2>3. m \in Message
    <3> HIDE DEF m
    <3> QED
      BY <2>1, <2>2
  <2>4. Head(outq') = m /\ outq' # << >>
    BY <2>1
  <2> QED
    BY <2>1, <2>3, <2>4 DEF Heard
<1>5. outq' = << >> \/ \E op, body : Say(op, body)
  BY <1>2, OneAnswer DEF Read, Hearing, AirFault
<1>6. TakesTurns'
  <2>1. outq' = << >> \/ (outq' = <<Heard'>> /\ Heard' \in Message)
    BY <1>4, <1>5
  <2> QED
    BY <1>1, <2>1 DEF TakesTurns, AirQuiet, One
<1>7. ShortInv' /\ AskInv' /\ ~Acks'
  BY <1>1 DEF ShortInv, Running, AskInv, Acks
<1>8. Says(Msg) /\ ~AirQuiet
  BY <1>1 DEF HostInv, TalkInv, AskInv, AirQuiet
<1>9. outq' # << >> => Heard' \in Message
  BY <1>4, <1>5
<1> QED
  BY <1>1, <1>2, <1>3, <1>4, <1>6, <1>7, <1>8, <1>9

(* What is left to show of a read.                                         *)
ReadKeeps == Intact' /\ UploadInv' /\ SendInv' /\ PullInv'

LEMMA ReadEnough ==
  ASSUME HostInv, BaseInv', Read, ReadKeeps
  PROVE HostInv'
BY ReadFacts DEF ReadKeeps, HostInv, TalkInv

(* A read that leaves the files, the state of the link and its transaction *)
(* alone, and answers nothing that a conversation goes on with.            *)
QuietRead ==
  /\ flash'.files = flash.files
  /\ link'.state = link.state /\ link'.part = link.part /\ link'.peer = link.peer
  /\ link.state # "IDLE" => link'.header = link.header
  /\ HasPayload(Msg) \/ link'.payload = link.payload
  /\ outq' = << >> \/ Heard'.op \in {"NACK", "VERSION"}
  /\ host.at = "pull" => outq' = << >>

LEMMA QuietReadKeeps ==
  ASSUME HostInv, BaseInv', Read, QuietRead
  PROVE ReadKeeps
<1>1. /\ Says(Msg) /\ inq # << >> /\ ~AirQuiet /\ inq' = << >> /\ host' = host /\ ~Acks'
  BY ReadFacts
<1>2. Intact'
  BY DEF QuietRead, HostInv, Intact, Live
<1>3. UploadInv'
  <2>1. ASSUME Took(host.anim, host.frame - 1)
        PROVE Took(host.anim, host.frame - 1)'
    BY <1>1, <2>1 DEF QuietRead, Took, Holds
  <2> QED
    BY <1>1, <2>1 DEF QuietRead, UploadInv, HostInv, TalkInv
<1>4. SendInv'
  BY DEF QuietRead, SendInv, SendsStored, HostInv, TalkInv
<1>5. PullInv'
  BY <1>1 DEF QuietRead, HostInv, TalkInv, PullInv, AirQuiet
<1> QED
  BY <1>2, <1>3, <1>4, <1>5 DEF ReadKeeps

(* The messages a badge refuses, ignores, or answers from what it has.     *)
LEMMA RefusalKeeps ==
  ASSUME HostInv, BaseInv', Read,
         \/ RxIgnored \/ RxRejected \/ RxNoise \/ RxGetFile \/ RxHelo \/ RxLost
         \/ RxGarbledPayload \/ RxDeleteRefused \/ RxPutRefused
  PROVE ReadKeeps
<1>1. /\ outq = << >> /\ Msg \in Message /\ link \in Link /\ Says(Msg) /\ ~AirQuiet
      /\ \A op, body : Say(op, body) => outq' # << >> /\ Heard'.op = op /\ Heard'.body = body
  BY ReadFacts DEF HostInv, BaseInv, IInv, TypeOK
<1>2. flash' = flash
  BY DEF RxIgnored, RxRejected, RxNoise, RxGetFile, RxHelo, RxLost, RxGarbledPayload,
         RxDeleteRefused, RxPutRefused
<1>3. outq' = << >> \/ Heard'.op \in {"NACK", "VERSION"}
  BY <1>1 DEF RxIgnored, RxRejected, RxNoise, RxGetFile, RxHelo, RxLost, RxGarbledPayload,
              RxDeleteRefused, RxPutRefused, Reply
<1>4. /\ link'.state = link.state /\ link'.part = link.part /\ link'.peer = link.peer
      /\ link.state # "IDLE" => link'.header = link.header
      /\ HasPayload(Msg) \/ link'.payload = link.payload
  <2>1. CASE link' = link
    BY <2>1
  <2>2. CASE link' = Buffered(link, Msg)
    BY <1>1, <2>2, BufferedKeeps
  <2>3. CASE RxGarbledPayload
    BY <1>1, <2>3 DEF RxGarbledPayload, Link
  <2>4. CASE RxPutRefused
    <3> DEFINE b == Buffered(link, Msg)
    <3>1. b \in Link /\ b.state = link.state /\ b.part = link.part /\ b.peer = link.peer
      BY <1>1, BufferedKeeps
    <3>2. link' = [b EXCEPT !.header = Offer] /\ link.state = "IDLE" /\ HasPayload(Msg)
      BY <2>4 DEF RxPutRefused, Arrives, HasPayload
    <3> HIDE DEF b
    <3> QED
      BY <3>1, <3>2 DEF Link
  <2> QED
    BY <2>1, <2>2, <2>3, <2>4
    DEF RxIgnored, RxRejected, RxNoise, RxGetFile, RxHelo, RxLost, RxDeleteRefused
<1>5. host.at = "pull" => outq' = << >>
  <2>1. SUFFICES ASSUME host.at = "pull" PROVE outq' = << >>
    OBVIOUS
  <2>2. Msg.op \in {"ACK", "NACK"} /\ Msg.from = Controller
    BY <1>1, <2>1 DEF Says
  <2>3. link.state = "FILE_TX" /\ ToTool
    BY <1>1, <2>1 DEF HostInv, TalkInv, PullInv
  <2>4. ~(RxRejected \/ RxNoise \/ RxHelo \/ RxGarbledPayload \/ RxDeleteRefused)
    BY <2>2, <2>3 DEF RxRejected, FromPeer, ToTool, RxNoise, RxHelo, RxGarbledPayload, HasPayload,
                      RxDeleteRefused
  <2> QED
    BY <1>1, <2>4 DEF RxIgnored, RxGetFile, RxLost, RxPutRefused
<1>6. QuietRead
  BY <1>2, <1>3, <1>4, <1>5 DEF QuietRead
<1> QED
  BY <1>6, QuietReadKeeps

(* A deletion.                                                             *)
LEMMA DeleteKeeps == ASSUME HostInv, BaseInv', Read, RxDelete PROVE ReadKeeps
<1>1. /\ Says(Msg) /\ inq' = << >> /\ host' = host /\ TypeOK /\ Msg \in Message
      /\ \A op, body : Say(op, body) => outq' # << >> /\ Heard'.op = op /\ Heard'.body = body
  BY ReadFacts DEF HostInv, BaseInv, IInv
<1>2. Msg.op = "DELFILE" /\ Say("ACK", NoBody)
  BY DEF RxDelete, Arrives, Reply
<1>3. host.at \in {"none", "delete"}
  BY <1>1, <1>2, HostParts DEF Says, HostInv, BaseInv, Waiting
<1>4. Msg.body \in Name /\ Puts(Msg.body, Absent) /\ ~Valid(Absent)
  BY <1>1, DeletePuts, BareFiles
<1>5. Intact'
  BY <1>1, <1>4, PutsIntact DEF HostInv
<1>6. link'.state = "IDLE" /\ Heard'.op = "ACK"
  <2>1. link' = Buffered(link, Msg) /\ link.state = "IDLE"
    BY DEF RxDelete
  <2> QED
    BY <1>1, <1>2, <2>1, BufferedKeeps DEF TypeOK
<1>7. UploadInv' /\ SendInv' /\ PullInv'
  BY <1>1, <1>3, <1>6 DEF UploadInv, SendInv, SendsStored, PullInv
<1> QED
  BY <1>5, <1>7 DEF ReadKeeps

(* An offer that the badge does not take.                                  *)
LEMMA DecliningKeeps ==
  ASSUME HostInv, BaseInv', Read, Offered, NEW h, Declining(h), Intact'
  PROVE ReadKeeps
<1>1. /\ Says(Msg) /\ inq' = << >> /\ host' = host /\ TypeOK /\ Msg \in Message
      /\ \A op, body : Say(op, body) => outq' # << >> /\ Heard'.op = op /\ Heard'.body = body
  BY ReadFacts DEF HostInv, BaseInv, IInv
<1>2. Msg.op = "PUTFILE" /\ Say("NACK", NoBody)
  BY DEF Declining, Offered, Arrives, Reply
<1>3. host.at \in {"none", "put"} /\ Heard'.op = "NACK" /\ link'.state = "IDLE"
  BY <1>1, <1>2, HostParts, ReceivingFacts DEF Says, HostInv, BaseInv, Waiting
<1> QED
  BY <1>1, <1>3 DEF ReadKeeps, UploadInv, SendInv, SendsStored, PullInv

(* An offer that it takes: when it is the tool's, the upload is in step.   *)
LEMMA ReceivingKeeps ==
  ASSUME HostInv, BaseInv', Read, Offered, NEW h, NEW fd \in {NoName, h.name}, Receiving(h, fd),
         Intact', h.name = Offer.name, h.len = Offer.len, h.name \in Name,
         host.at = "put" =>
           IF fd = NoName THEN Holds(host.anim)'
           ELSE /\ flash'.files[host.anim.name].frames = << >>
                /\ host.anim.unlocked => h.unlocked
  PROVE ReadKeeps
<1>1. /\ Says(Msg) /\ inq' = << >> /\ host' = host /\ TypeOK /\ Msg \in Message
      /\ \A op, body : Say(op, body) => outq' # << >> /\ Heard'.op = op /\ Heard'.body = body
  BY ReadFacts DEF HostInv, BaseInv, IInv
<1>2. Msg.op = "PUTFILE" /\ Say("ACK", NoBody)
  BY DEF Receiving, Offered, Arrives, Reply
<1>3. host.at \in {"none", "put"} /\ Heard'.op = "ACK" /\ link'.state # "FILE_TX"
  BY <1>1, <1>2, HostParts, ReceivingFacts DEF Says, HostInv, BaseInv, Waiting
<1>4. host.at = "put" => Took(host.anim, 0)'
  <2>1. SUFFICES ASSUME host.at = "put" PROVE Took(host.anim, 0)'
    OBVIOUS
  <2>2. Msg.from = Controller /\ Msg.body = host.anim
    BY <1>1, <2>1 DEF Says
  <2>3. Offer.name = host.anim.name /\ Offer.len = host.anim.len
    BY <1>1, <1>2, <2>2, MessageParts DEF Offer, Anim
  <2>4. /\ link'.peer = Controller /\ link'.part = 0 /\ link'.header = h
        /\ link'.state = IF fd = NoName THEN "FILE_RX_DONE" ELSE "FILE_RX"
    <3> DEFINE b == Buffered(link, Msg)
    <3>1. b \in Link
      BY <1>1, BufferedKeeps DEF TypeOK
    <3>2. link' = [b EXCEPT !.state = IF fd = NoName THEN "FILE_RX_DONE" ELSE "FILE_RX",
                     !.discard = fd = NoName, !.fd = fd, !.peer = Msg.from, !.part = 0,
                     !.header = h]
      BY DEF Receiving
    <3> HIDE DEF b
    <3> QED
      BY <2>2, <3>1, <3>2 DEF Link
  <2>5. SubSeq(FramesOf(host.anim.name), 1, 0) = << >>
    OBVIOUS
  <2> QED
    BY <1>1, <2>1, <2>3, <2>4, <2>5, NameAssumption DEF Took
<1> QED
  BY <1>1, <1>3, <1>4 DEF ReadKeeps, UploadInv, SendInv, SendsStored, PullInv
(* What the tool offers.                                                   *)
LEMMA OfferOfTool ==
  ASSUME HostInv, BaseInv', Read, Offered
  PROVE /\ TypeOK /\ Msg \in Message /\ Offer \in Anim /\ Offer.name \in Name /\ Local \in File
        /\ link.state = "IDLE"
        /\ host.at = "put" =>
             /\ Offer.name = host.anim.name /\ Offer.unlocked = host.anim.unlocked
             /\ host.anim.name \in Name /\ Offer.len = AnimLen[host.anim.name]
<1>1. Says(Msg) /\ TypeOK /\ HostTyped /\ Msg.op = "PUTFILE"
  BY ReadFacts DEF HostInv, BaseInv, IInv, Offered, Arrives
<1>2. /\ Msg \in Message /\ Offer \in Anim /\ Offer.name \in Name /\ Local \in File
      /\ link.state = "IDLE"
  BY <1>1, OfferedFacts
<1>3. ASSUME host.at = "put"
      PROVE /\ Offer.name = host.anim.name /\ Offer.unlocked = host.anim.unlocked
            /\ host.anim.name \in Name /\ Offer.len = AnimLen[host.anim.name]
  <2>1. Msg.body = host.anim /\ host.anim \in Anim
    BY <1>1, <1>3, HostParts DEF Says
  <2>2. /\ Offer.name = host.anim.name /\ Offer.unlocked = host.anim.unlocked
        /\ Offer.len = host.anim.len
    BY <2>1 DEF Offer, Anim
  <2>3. host.anim.name \in Name /\ host.anim = Uploaded(host.anim.name, host.anim.unlocked)
    BY <1>3 DEF HostInv, BaseInv, CommandInv
  <2>4. host.anim.len = AnimLen[host.anim.name]
    BY <2>1, <2>3, UploadedType DEF Anim
  <2> QED
    BY <2>2, <2>3, <2>4
<1> QED
  BY <1>1, <1>2, <1>3

(* An animation that the badge has already.                                *)
LEMMA KnownKeeps ==
  ASSUME HostInv, BaseInv', Read, RxPutUnreadable \/ RxPutDiscarded \/ RxPutUnlocks
  PROVE ReadKeeps
<1>1. Offered /\ Valid(Local) /\ post = 0
  BY OutcomeFacts DEF RxPutUnreadable, RxPutDiscarded, RxPutUnlocks, Saved
<1>2. /\ TypeOK /\ Msg \in Message /\ Offer \in Anim /\ Offer.name \in Name /\ Local \in File
      /\ host.at = "put" =>
           /\ Offer.name = host.anim.name /\ Offer.unlocked = host.anim.unlocked
           /\ host.anim.name \in Name /\ Offer.len = AnimLen[host.anim.name]
  BY <1>1, OfferOfTool
<1>3. Local.frames = FramesOf(Offer.name) /\ host' = host
  BY <1>1, <1>2, ReadFacts DEF HostInv, Intact, Live, Local
<1>4. flash' = flash => Intact'
  BY DEF HostInv, Intact, Live
<1>5. NoName # Offer.name
  BY <1>2, NameAssumption
<1>6. CASE RxPutUnreadable
  BY <1>1, <1>4, <1>6, DecliningKeeps DEF RxPutUnreadable
<1>7. CASE RxPutDiscarded
  <2> DEFINE h == [Offer EXCEPT !.id = Local.hdr.id, !.unlocked = Local.hdr.unlocked]
  <2>1. /\ Receiving(h, NoName) /\ flash' = flash /\ (Local.hdr.unlocked \/ ~Offer.unlocked)
    BY <1>7 DEF RxPutDiscarded
  <2>2. h.name = Offer.name /\ h.len = Offer.len
    BY <1>2 DEF Anim
  <2>3. host.at = "put" => Holds(host.anim)'
    BY <1>1, <1>2, <1>3, <2>1 DEF Holds, Local
  <2> HIDE DEF h
  <2> QED
    BY <1>1, <1>2, <1>4, <2>1, <2>2, <2>3, ReceivingKeeps
<1>8. CASE RxPutUnlocks
  <2> DEFINE h == [Offer EXCEPT !.id = Local.hdr.id]
  <2>1. \/ flash' = PutFile(h.name, Stored(h, Local.frames)) /\ Receiving(h, NoName)
        \/ flash' = flash /\ Declining(h)
    BY <1>8 DEF RxPutUnlocks
  <2>2. h.name = Offer.name /\ h.len = Offer.len /\ h.unlocked
    BY <1>2, <1>8 DEF Anim, RxPutUnlocks
  <2> HIDE DEF h
  <2>3. CASE flash' = flash /\ Declining(h)
    BY <1>1, <1>4, <2>3, DecliningKeeps
  <2>4. CASE flash' = PutFile(h.name, Stored(h, Local.frames)) /\ Receiving(h, NoName)
    <3> DEFINE f == Stored(h, Local.frames)
    <3>1. Puts(Offer.name, f)
      BY <1>2, <2>2, <2>4, PutFilePuts DEF TypeOK
    <3>2. f.frames = FramesOf(Offer.name) /\ f.hdr = h /\ f.kind = "data"
      BY <1>3 DEF Stored
    <3>3. flash'.files[Offer.name] = f
      BY <1>2, <3>1, PutsFacts
    <3>4. Intact'
      BY <1>2, <3>1, <3>2, PutsIntact DEF HostInv
    <3>5. host.at = "put" => Holds(host.anim)'
      <4>1. SUFFICES ASSUME host.at = "put" PROVE Holds(host.anim)'
        OBVIOUS
      <4>2. Len(FramesOf(Offer.name)) = h.len
        BY <1>2, <2>2, <4>1, OwnFrames
      <4>3. Whole(f)
        BY <1>2, <3>2, OwnFrames DEF Whole, Stored
      <4>4. Valid(f)
        BY <3>2, <4>2, <4>3 DEF Valid
      <4> HIDE DEF f
      <4> QED
        BY <1>2, <1>3, <2>2, <3>2, <3>3, <4>1, <4>4 DEF Holds
    <3> QED
      BY <1>1, <1>2, <2>2, <2>4, <3>4, <3>5, ReceivingKeeps
  <2> QED
    BY <2>1, <2>3, <2>4
<1> QED
  BY <1>6, <1>7, <1>8

(* An animation that is new to it.                                         *)
LEMMA NewKeeps == ASSUME HostInv, BaseInv', Read, RxPutNew PROVE ReadKeeps
<1> DEFINE h == [Offer EXCEPT !.id = index.nextId]
<1>1. Offered
  BY DEF RxPutNew
<1>2. /\ TypeOK /\ Msg \in Message /\ Offer \in Anim /\ Offer.name \in Name
      /\ host.at = "put" =>
           Offer.name = host.anim.name /\ Offer.unlocked = host.anim.unlocked
  BY <1>1, OfferOfTool
<1>3. h.name = Offer.name /\ h.len = Offer.len /\ h.unlocked = Offer.unlocked /\ h.len >= 1
      /\ h.len \in Nat
  BY <1>1, <1>2, OfferedFacts DEF Anim
<1>4. \/ flash' = PutFile(h.name, Stored(h, << >>)) /\ Receiving(h, h.name)
      \/ /\ Declining(h)
         /\ \/ flash' = flash
            \/ \E f \in {Absent, Stub} : flash' = PutFile(h.name, f)
  BY DEF RxPutNew
<1> HIDE DEF h
<1>5. CASE Declining(h) /\ flash' = flash
  <2>1. Intact'
    BY <1>5 DEF HostInv, Intact, Live
  <2> QED
    BY <1>1, <1>5, <2>1, DecliningKeeps
<1>6. ASSUME Declining(h), NEW f \in {Absent, Stub}, flash' = PutFile(h.name, f)
      PROVE ReadKeeps
  <2>1. Puts(Offer.name, f) /\ ~Valid(f)
    BY <1>2, <1>3, <1>6, PutFilePuts, BareFiles DEF TypeOK
  <2>2. Intact'
    BY <1>2, <2>1, PutsIntact DEF HostInv
  <2> QED
    BY <1>1, <1>6, <2>2, DecliningKeeps
<1>7. CASE flash' = PutFile(h.name, Stored(h, << >>)) /\ Receiving(h, h.name)
  <2> DEFINE f == Stored(h, << >>)
  <2>1. Puts(Offer.name, f)
    BY <1>2, <1>3, <1>7, PutFilePuts DEF TypeOK
  <2>2. ~Valid(f) /\ f.frames = << >>
    BY <1>3 DEF Valid, Stored
  <2>3. flash'.files[Offer.name] = f
    BY <1>2, <2>1, PutsFacts
  <2>4. Intact'
    BY <1>2, <2>1, <2>2, PutsIntact DEF HostInv
  <2>5. h.name # NoName
    BY <1>2, <1>3, NameAssumption
  <2> HIDE DEF f
  <2> QED
    BY <1>1, <1>2, <1>3, <1>7, <2>2, <2>3, <2>4, <2>5, ReceivingKeeps
<1> QED
  BY <1>4, <1>5, <1>6, <1>7

(* A frame of an upload.                                                   *)
LEMMA FrameKeeps ==
  ASSUME HostInv, BaseInv', Read, RxFrame \/ RxLastFrame \/ RxFrameUnwritten
  PROVE ReadKeeps
<1> DEFINE n == host.anim.name
           k == host.frame
           old == flash.files[n]
           new == flash'.files[n]
<1>1. /\ Says(Msg) /\ inq' = << >> /\ outq = << >> /\ host' = host /\ Msg \in Message
      /\ inq # << >> /\ IInv /\ IInv' /\ TypeOK /\ link \in Link
      /\ \A op, body : Say(op, body) => outq' # << >> /\ Heard'.op = op /\ Heard'.body = body
  BY ReadFacts DEF HostInv, BaseInv, IInv, TypeOK
<1>2. FrameArrives /\ Msg.op = "APPFILE"
  BY DEF RxFrame, RxLastFrame, RxFrameUnwritten, FrameArrives, Arrives
<1>3. host.at = "frame" /\ Msg.body = FramesOf(n)[k]
  BY <1>1, <1>2 DEF Says
<1>4. /\ n \in Name /\ host.anim.len = AnimLen[n] /\ k \in 1..AnimLen[n]
      /\ host.anim.unlocked \in BOOLEAN
  <2>1. HostTyped /\ CommandInv
    BY DEF HostInv, BaseInv
  <2>2. n \in Name /\ host.anim = Uploaded(n, host.anim.unlocked) /\ k \in 1..host.anim.len
    BY <1>3, <2>1 DEF CommandInv
  <2>3. host.anim.unlocked \in BOOLEAN
    BY <2>1, HostParts DEF Anim
  <2>4. host.anim.len = AnimLen[n]
    BY <2>2, <2>3, UploadedType
  <2> QED
    BY <2>2, <2>3, <2>4
<1>5. Took(host.anim, k - 1) /\ k \in Nat
  BY <1>1, <1>3, <1>4, BoundAssumption DEF HostInv, TalkInv, UploadInv
<1>6. /\ link.peer = Controller /\ link.part = k - 1 /\ link.header.name = n
      /\ link.header.len = AnimLen[n] /\ AnimLen[n] \in Nat
      /\ link.state \in {"FILE_RX", "FILE_RX_DONE"}
  BY <1>4, <1>5, BoundAssumption DEF Took
<1>7. link.state = "FILE_RX" =>
        /\ ~link.discard /\ link.fd = n /\ old.kind = "data" /\ old.hdr = link.header
        /\ old.frames = SubSeq(FramesOf(n), 1, k - 1)
        /\ host.anim.unlocked => old.hdr.unlocked
  <2>1. SUFFICES ASSUME link.state = "FILE_RX"
                 PROVE /\ ~link.discard /\ link.fd = n /\ old.kind = "data" /\ old.hdr = link.header
                       /\ old.frames = SubSeq(FramesOf(n), 1, k - 1)
                       /\ host.anim.unlocked => old.hdr.unlocked
    OBVIOUS
  <2>2. ~link.discard /\ link.fd = n
    BY <1>1, <1>6, <2>1 DEF IInv, LinkConsistent
  <2>3. old.kind = "data" /\ old.hdr = link.header
    BY <1>1, <2>1, <2>2 DEF IInv, InFlightFile
  <2>4. /\ old.frames = SubSeq(FramesOf(n), 1, k - 1)
        /\ host.anim.unlocked => link.header.unlocked
    BY <1>5, <2>1 DEF Took
  <2> QED
    BY <2>2, <2>3, <2>4
<1>8. link.state = "FILE_RX_DONE" => link.discard /\ Holds(host.anim)
  BY <1>1, <1>5 DEF IInv, LinkConsistent, Took
<1> DEFINE b == Buffered(link, Msg)
<1>9. /\ b \in Link /\ b.state = link.state /\ b.part = link.part /\ b.peer = link.peer
      /\ b.header = link.header /\ b.fd = link.fd
  BY <1>1, BufferedKeeps
<1> HIDE DEF b
<1>10. ASSUME link'.state = link.state, link'.fd = link.fd,
              flash' = flash \/ (link.state = "FILE_RX" /\ \E f : flash' = AppendFrame(f))
       PROVE Intact'
  <2>1. CASE flash' = flash
    BY <2>1 DEF HostInv, Intact, Live
  <2>2. ASSUME link.state = "FILE_RX", NEW f, flash' = AppendFrame(f)
        PROVE Intact'
    <3>1. Puts(n, [old EXCEPT !.frames = Append(old.frames, f)])
      BY <1>1, <1>4, <1>7, <2>2, AppendPuts
    <3>2. ~Valid(new)
      <4>1. link'.state = "FILE_RX" /\ link'.fd = n
        BY <1>7, <1>10, <2>2
      <4>2. InFlightFile' /\ link'.part \in Nat /\ link'.header.len \in Nat
        BY <1>1 DEF IInv, TypeOK, Link, Anim
      <4>3. /\ new.hdr = link'.header /\ link'.part < link'.header.len
            /\ Whole(new) => Len(new.frames) = link'.part
        BY <4>1, <4>2 DEF InFlightFile, Whole
      <4> QED
        BY <4>2, <4>3 DEF Valid
    <3>3. new = [old EXCEPT !.frames = Append(old.frames, f)]
      BY <1>1, <1>4, <3>1, PutsFacts
    <3> QED
      BY <1>1, <1>4, <3>1, <3>2, <3>3, PutsIntact DEF HostInv
  <2> QED
    BY <1>10, <2>1, <2>2
<1>11. ASSUME FrameStored, link.state = "FILE_RX"
       PROVE /\ flash' = AppendFrame(Msg.body) /\ new.kind = "data" /\ new.hdr = link.header
             /\ new.frames = SubSeq(FramesOf(n), 1, k)
             /\ Puts(n, new)
  <2>1. flash' = AppendFrame(Msg.body)
    BY <1>7, <1>11 DEF FrameStored
  <2>2. Puts(n, [old EXCEPT !.frames = Append(old.frames, Msg.body)])
    BY <1>1, <1>4, <1>7, <1>11, <2>1, AppendPuts
  <2>3. new = [old EXCEPT !.frames = Append(old.frames, Msg.body)] /\ old \in File
    BY <1>1, <1>4, <2>2, PutsFacts DEF TypeOK, Flash
  <2>4. Append(old.frames, Msg.body) = SubSeq(FramesOf(n), 1, k)
    BY <1>3, <1>4, <1>7, <1>11, OneFrameMore
  <2> HIDE DEF old, new
  <2>5. new.kind = old.kind /\ new.hdr = old.hdr /\ new.frames = Append(old.frames, Msg.body)
    BY <2>3 DEF File
  <2> QED
    BY <1>7, <1>11, <2>1, <2>2, <2>3, <2>4, <2>5
<1>12. ASSUME FrameStored, link.state = "FILE_RX_DONE"
       PROVE flash' = flash
  BY <1>8, <1>12 DEF FrameStored
<1>13. FrameStored => Heard'.op = "ACK"
  BY <1>1 DEF FrameStored, Reply
<1>14. CASE RxFrame
  <2>1. FrameStored /\ link.part + 1 < link.header.len /\ link' = [b EXCEPT !.part = b.part + 1]
    BY <1>9, <1>14 DEF RxFrame, b
  <2>2. /\ link'.state = link.state /\ link'.fd = link.fd /\ link'.part = k
        /\ link'.peer = Controller /\ link'.header = link.header
    BY <1>5, <1>6, <1>9, <2>1 DEF Link
  <2>3. Intact'
    BY <1>6, <1>10, <1>11, <1>12, <2>1, <2>2
  <2>4. Took(host.anim, k)'
    <3>1. CASE link.state = "FILE_RX"
      BY <1>1, <1>4, <1>6, <1>7, <1>11, <2>1, <2>2, <3>1 DEF Took, InFlightFile, IInv
    <3>2. CASE link.state = "FILE_RX_DONE"
      BY <1>1, <1>4, <1>6, <1>8, <1>12, <2>1, <2>2, <3>2 DEF Took, Holds
    <3> QED
      BY <1>6, <3>1, <3>2
  <2>5. k # host.anim.len
    BY <1>4, <1>5, <1>6, <2>1
  <2> QED
    BY <1>1, <1>3, <1>6, <1>13, <2>1, <2>2, <2>3, <2>4, <2>5
    DEF ReadKeeps, UploadInv, SendInv, SendsStored, PullInv
<1>15. CASE RxLastFrame
  <2>1. /\ FrameStored /\ link.part + 1 >= link.header.len
        /\ link' = ToIdle([b EXCEPT !.part = b.part + 1, !.fd = NoName])
    BY <1>9, <1>15 DEF RxLastFrame, b
  <2>2. link'.state = "IDLE" /\ k = AnimLen[n]
    BY <1>4, <1>5, <1>6, <1>9, <2>1 DEF ToIdle, Link
  <2>3. CASE link.state = "FILE_RX"
    <3>1. new.frames = FramesOf(n) /\ new.hdr = link.header /\ new.kind = "data" /\ Puts(n, new)
      BY <1>4, <1>11, <2>1, <2>2, <2>3, OneFrameMore
    <3>2. Intact'
      BY <1>1, <1>4, <3>1, PutsIntact DEF HostInv
    <3>3. Valid(new)
      BY <1>4, <1>6, <3>1, OwnFrames DEF Valid, Whole, Stored
    <3>4. Holds(host.anim)'
      BY <1>1, <1>7, <2>3, <3>1, <3>3 DEF Holds
    <3> QED
      BY <3>2, <3>4, <1>1, <1>3, <1>4, <1>13, <2>1, <2>2
      DEF ReadKeeps, UploadInv, SendInv, SendsStored, PullInv
  <2>4. CASE link.state = "FILE_RX_DONE"
    <3>1. flash' = flash
      BY <1>12, <2>1, <2>4
    <3>2. Intact' /\ Holds(host.anim)'
      BY <1>1, <1>8, <2>4, <3>1 DEF HostInv, Intact, Live, Holds
    <3> QED
      BY <3>2, <1>1, <1>3, <1>4, <1>13, <2>1, <2>2
      DEF ReadKeeps, UploadInv, SendInv, SendsStored, PullInv
  <2> QED
    BY <1>6, <2>3, <2>4
<1>16. CASE RxFrameUnwritten
  <2>1. /\ link' = b /\ outq' = outq /\ (flash' = flash \/ flash' = AppendFrame(Torn))
        /\ ~link.discard
    BY <1>16 DEF RxFrameUnwritten, b
  <2>2. link.state = "FILE_RX"
    BY <1>6, <1>8, <2>1
  <2>3. Intact'
    BY <1>9, <1>10, <2>1, <2>2
  <2> QED
    BY <1>1, <1>3, <1>9, <2>1, <2>2, <2>3 DEF ReadKeeps, UploadInv, SendInv, SendsStored, PullInv
<1> QED
  BY <1>14, <1>15, <1>16

(* An answer to a badge that sends.                                        *)
LEMMA SendKeeps ==
  ASSUME HostInv, BaseInv', Read, RxAck \/ RxAckLast \/ RxNackResends \/ RxNackGivesUp
  PROVE ReadKeeps
<1> DEFINE n == link.header.name
           p == link.part
<1>1. /\ Says(Msg) /\ inq' = << >> /\ outq = << >> /\ host' = host /\ ~Acks'
      /\ inq # << >> /\ ~AirQuiet /\ TypeOK /\ link \in Link
      /\ \A op, body : Say(op, body) => outq' # << >> /\ Heard'.op = op /\ Heard'.body = body
  BY ReadFacts DEF HostInv, BaseInv, IInv, TypeOK
<1>2. /\ link.state = "FILE_TX" /\ flash' = flash /\ Msg.op \in {"ACK", "NACK"} /\ FromPeer(Msg)
  BY DEF RxAck, RxAckLast, RxNackResends, RxNackGivesUp, Sending, Arrives
<1>3. host.at \in {"none", "get", "pull"} /\ (host.at # "none" => ToTool)
  <2>1. host.at # "none" => Msg.from = Controller
    BY <1>1 DEF Says
  <2> QED
    BY <1>1, <1>2, <2>1, HostParts DEF Says, HostInv, BaseInv, Waiting, FromPeer, ToTool
<1>4. Intact' /\ p \in Nat
  BY <1>1, <1>2 DEF HostInv, Intact, Live, Link
<1>5. UploadInv'
  BY <1>1, <1>3 DEF UploadInv
<1>6. n \in Name /\ Valid(flash.files[n]) /\ flash.files[n].frames = FramesOf(n)
  BY <1>2 DEF HostInv, TalkInv, SendInv, SendsStored, Intact, Live
<1>7. CASE RxAckLast \/ RxNackGivesUp
  <2>1. link'.state = "IDLE" /\ outq' = << >>
    BY <1>1, <1>7 DEF RxAckLast, RxNackGivesUp, EndSend, ToIdle, Link
  <2>2. PullInv'
    BY <1>1, <2>1 DEF PullInv, HostInv, TalkInv, AirQuiet
  <2> QED
    BY <1>1, <1>4, <1>5, <2>1, <2>2 DEF ReadKeeps, SendInv, SendsStored
<1>8. CASE RxNackResends
  <2>1. /\ link'.state = "FILE_TX" /\ link'.header = link.header /\ link'.part = p
        /\ link'.payload = link.payload /\ link'.peer = link.peer
    BY <1>1, <1>2, <1>8 DEF RxNackResends, Link
  <2>2. /\ p = 0 => Heard'.op = "PUTFILE" /\ Heard'.body = link.header
        /\ p # 0 => Heard'.op = "APPFILE" /\ Heard'.body = link.payload
        /\ Msg.op = "NACK"
    BY <1>1, <1>8 DEF RxNackResends, Sending, Arrives
  <2>3. SendInv'
    BY <1>1, <1>2, <1>3, <1>4, <1>6, <2>1, <2>2 DEF SendInv, SendsStored, ToTool
  <2>4. PullInv'
    <3>1. SUFFICES ASSUME host.at = "pull" PROVE PullInv'
      BY <1>1 DEF PullInv
    <3>2. PullInv /\ ~Acks
      BY <2>2 DEF HostInv, TalkInv, Acks
    <3> QED
      BY <1>1, <2>1, <3>1, <3>2 DEF PullInv, ToTool
  <2> QED
    BY <1>4, <1>5, <2>3, <2>4 DEF ReadKeeps
<1>9. CASE RxAck
  <2>1. Frames = FramesOf(n) /\ Msg.op = "ACK"
    BY <1>6, <1>9 DEF Frames, RxAck, Sending, Arrives
  <2>2. /\ Acked \in Link /\ Acked.state = "FILE_TX" /\ Acked.header = link.header
        /\ Acked.part = p /\ Acked.peer = (IF link.peer = NoPeer THEN Msg.from ELSE link.peer)
    <3> DEFINE q == IF link.peer = NoPeer THEN Msg.from ELSE link.peer
    <3>1. Acked = [link EXCEPT !.peer = q, !.resends = 0] /\ q \in Station \cup {NoPeer}
      BY <1>1, ReadFacts, MessageParts DEF Acked, Link
    <3>2. 0 \in 0..MaxResends
      BY LimitAssumption
    <3> HIDE DEF Acked, q
    <3>3. Acked \in Link /\ Acked.state = "FILE_TX" /\ Acked.header = link.header /\ Acked.part = p
          /\ Acked.peer = q
      BY <1>1, <1>2, <3>1, <3>2 DEF Link
    <3> QED
      BY <3>3 DEF q
  <2>3. host.at = "pull" => n = host.anim.name /\ p = Len(host.got)
    BY <1>1, <2>1 DEF HostInv, TalkInv, PullInv, Acks
  <2>4. CASE /\ p < Len(Frames)
             /\ link' = [Acked EXCEPT !.payload = Frames[p + 1], !.part = Acked.part + 1]
             /\ Say("APPFILE", Frames[p + 1])
    <3>1. /\ link'.state = "FILE_TX" /\ link'.header = link.header /\ link'.part = p + 1
          /\ link'.payload = FramesOf(n)[p + 1] /\ link'.peer = Acked.peer
      <4> HIDE DEF Acked, Frames, FramesOf
      <4> QED
        BY <2>1, <2>2, <2>4 DEF Link
    <3>2. Heard'.op = "APPFILE" /\ Heard'.body = FramesOf(n)[p + 1]
      BY <1>1, <2>1, <2>4
    <3>3. SendInv'
      BY <1>1, <1>2, <1>4, <1>6, <3>1, <3>2 DEF SendInv, SendsStored
    <3>4. PullInv'
      <4>1. SUFFICES ASSUME host.at = "pull" PROVE PullInv'
        BY <1>1 DEF PullInv
      <4>2. /\ PullInv /\ Msg.from = Controller
        BY <1>1, <4>1 DEF HostInv, TalkInv, Says
      <4>3. ToTool'
        BY <1>3, <2>2, <3>1, <4>1, <4>2 DEF ToTool
      <4> HIDE DEF Frames, FramesOf
      <4> QED
        BY <1>1, <2>3, <3>1, <4>1, <4>2, <4>3 DEF PullInv
    <3> QED
      BY <1>4, <1>5, <3>3, <3>4 DEF ReadKeeps
  <2>5. CASE link' \in {Acked, [Acked EXCEPT !.payload = Junk]} /\ UNCHANGED outq
    <3>1. link'.state = "FILE_TX" /\ link'.header = link.header /\ outq' = << >>
      BY <1>1, <2>2, <2>5 DEF Link
    <3>2. SendInv'
      BY <1>2, <1>6, <3>1 DEF SendInv, SendsStored
    <3>3. PullInv'
      BY <1>1, <3>1 DEF PullInv, HostInv, TalkInv, AirQuiet
    <3> QED
      BY <1>4, <1>5, <3>2, <3>3 DEF ReadKeeps
  <2> QED
    BY <1>9, <2>4, <2>5 DEF RxAck, Acked
<1> QED
  BY <1>7, <1>8, <1>9

(* So every read keeps the invariant.                                      *)
LEMMA ReadStep == ASSUME HostInv, BaseInv', Read PROVE HostInv'
<1>1. ReadKeeps
  BY RefusalKeeps, DeleteKeeps, KnownKeeps, NewKeeps, FrameKeeps, SendKeeps
  DEF Read, Hearing, Receive
<1> QED
  BY <1>1, ReadEnough

-----------------------------------------------------------------------------
(* So do the other steps of the badge and of its owner.                    *)

(* Booting.                                                                *)
LEMMA BootStep == ASSUME HostInv, BaseInv', Boot, host' = host PROVE HostInv'
<1>1. TypeOK /\ ~Running /\ link' = link
  BY BootIsEarly DEF HostInv, BaseInv, IInv
<1>2. UNCHANGED <<inq, outq>>
  BY DEF Boot, StorageInit, StorageInitFails, StorageInitFormats, Mounted, LedInitKeeps,
         LedInitSaves, LedInitShows
<1>3. /\ host = NewHost /\ AirQuiet /\ link.state = "IDLE"
      /\ \A n \in Name : Len(flash.files[n].frames) <= AnimLen[n]
  BY <1>1 DEF HostInv, BaseInv, BootInv, ShortInv, IInv, LinkConsistent, NewLink
<1>4. Intact' /\ \A n \in Name : Len(flash'.files[n].frames) <= AnimLen[n]
  <2>1. CASE \A n \in Name : flash'.files[n] = Absent
    BY <2>1, BareFiles, BoundAssumption DEF Intact, Live, Absent
  <2>2. CASE flash'.files = flash.files
    BY <1>3, <2>2 DEF HostInv, Intact, Live
  <2>3. CASE LedInitSaves
    <3>1. PICK n \in Name : \E f \in SavedDirect(n) : flash' = PutFile(n, f)
      BY <2>3, SystemAssumption DEF LedInitSaves
    <3>2. PICK f \in SavedDirect(n) : flash' = PutFile(n, f)
      BY <3>1
    <3>3. (Valid(f) => f.frames = FramesOf(n)) /\ Len(f.frames) <= AnimLen[n]
      BY <1>1, <1>3, SeedIntact DEF HostInv
    <3>4. Puts(n, f)
      BY <1>1, <3>2, PutFilePuts DEF TypeOK
    <3> QED
      BY <1>1, <1>3, <3>3, <3>4, PutsIntact, PutsFacts DEF HostInv
  <2> QED
    BY <1>1, <2>1, <2>2, <2>3, BootFiles
<1>5. host'.at = "none" /\ inq' = << >> /\ outq' = << >> /\ link'.state = "IDLE"
  BY <1>1, <1>2, <1>3 DEF NewHost, AirQuiet
<1>6. TakesTurns' /\ ShortInv' /\ TalkInv'
  BY <1>4, <1>5 DEF TakesTurns, AirQuiet, ShortInv, TalkInv, AskInv, UploadInv, SendInv,
                    SendsStored, PullInv
<1> QED
  BY <1>4, <1>6 DEF HostInv

(* While nothing is under way the conversation asks nothing of the badge   *)
(* but that it has what it is sending.                                     *)
LEMMA QuietBadge ==
  ASSUME HostInv, BaseInv', Running, UNCHANGED <<boot, host>>, inq' = << >>, outq' = << >>,
         Intact', SendsStored'
  PROVE HostInv'
<1>1. TakesTurns' /\ AirQuiet' /\ ~Acks'
  BY DEF TakesTurns, AirQuiet, Acks
<1>2. ShortInv' /\ AskInv' /\ UploadInv' /\ SendInv'
  BY DEF ShortInv, Running, AskInv, UploadInv, SendInv
<1>3. PullInv'
  BY <1>1 DEF HostInv, TalkInv, PullInv
<1> QED
  BY <1>1, <1>2, <1>3 DEF HostInv, TalkInv

(* The owner asks for a transfer, picks an animation, or the display gives *)
(* one up.                                                                 *)
LEMMA OwnerStep ==
  ASSUME HostInv, BaseInv', UNCHANGED vars \/ Export \/ Select \/ FallBack, host' = host
  PROVE HostInv'
<1>1. UNCHANGED <<boot, link, flash, inq, outq, host>>
  BY DEF vars, Export, Press, Select, FallBack
<1>2. Intact' /\ TakesTurns' /\ ShortInv'
  BY <1>1 DEF HostInv, Intact, Live, TakesTurns, AirQuiet, One, ShortInv, Running
<1>3. AskInv'
  BY <1>1 DEF HostInv, TalkInv, AskInv, Says, Msg
<1>4. UploadInv'
  BY <1>1 DEF HostInv, TalkInv, UploadInv, Took, Holds, Heard
<1>5. SendInv' /\ PullInv'
  BY <1>1 DEF HostInv, TalkInv, SendInv, SendsStored, ToTool, PullInv, AirQuiet, Acks, Msg, Heard
<1> QED
  BY <1>2, <1>3, <1>4, <1>5 DEF HostInv, TalkInv

(* The badge starts to send.                                               *)
LEMMA StartStep == ASSUME HostInv, BaseInv', AirQuiet, Start, host' = host PROVE HostInv'
<1>1. /\ TypeOK /\ "GETFILE" \notin ev /\ Running /\ LinkConsistent
      /\ link.state = "IDLE" /\ UNCHANGED <<boot, flash, inq>>
  BY DEF Start, StartSend, StartSendDeclined, StartGet, HostInv, BaseInv, IInv, BootInv
<1>2. Intact' /\ inq' = << >> /\ inq = << >> /\ outq = << >> /\ link.peer = NoPeer
  BY <1>1 DEF HostInv, Intact, Live, AirQuiet, LinkConsistent
<1>3. CASE StartSendDeclined
  <2>1. outq' = << >> /\ link'.state = "IDLE"
    BY <1>1, <1>2, <1>3 DEF StartSendDeclined, TypeOK, Link
  <2> QED
    BY <1>1, <1>2, <2>1, QuietBadge DEF SendsStored
<1>4. CASE StartSend
  <2> DEFINE h == [led.ambient EXCEPT !.id = 0]
             m == [op |-> "PUTFILE", from |-> Self, body |-> h]
  <2>1. /\ led.ambient \in Anim /\ led.ambient.name \in Name
        /\ Valid(flash.files[led.ambient.name])
        /\ link' = [link EXCEPT !.state = "FILE_TX", !.header = h, !.part = 0, !.resends = 0]
        /\ outq' = <<m>>
    BY <1>1, <1>2, <1>4 DEF StartSend, Say, TypeOK, Led
  <2>2. /\ link'.state = "FILE_TX" /\ link'.header = h /\ link'.part = 0
        /\ link'.peer = NoPeer /\ h.name = led.ambient.name
    BY <1>1, <1>2, <2>1 DEF TypeOK, Link, Anim
  <2>3. m \in Message
    <3>1. outq' \in Seq(Message)
      BY DEF BaseInv, IInv, TypeOK
    <3> HIDE DEF m
    <3> QED
      BY <2>1, <3>1
  <2>4. outq' # << >> /\ Heard' = m /\ m.op = "PUTFILE" /\ m.body = h
    BY <2>1 DEF Heard
  <2> HIDE DEF h, m
  <2>5. TakesTurns' /\ ShortInv' /\ ToTool' /\ ~Acks'
    BY <1>1, <1>2, <2>1, <2>2, <2>3 DEF TakesTurns, One, ShortInv, Running, ToTool, Acks
  <2>6. AskInv' /\ UploadInv'
    BY <1>2, <2>4 DEF AskInv, UploadInv
  <2>7. SendInv'
    BY <1>1, <2>1, <2>2, <2>4, <2>5 DEF SendInv, SendsStored
  <2>8. PullInv'
    BY <2>2, <2>5 DEF HostInv, TalkInv, PullInv
  <2> QED
    BY <1>2, <2>5, <2>6, <2>7, <2>8 DEF HostInv, TalkInv
<1> QED
  BY <1>1, <1>3, <1>4 DEF Start, StartGet

(* The badge gives up a transaction.                                       *)
LEMMA GiveUpStep == ASSUME HostInv, BaseInv', AirQuiet, TimeOut, host' = host PROVE HostInv'
<1>1. /\ TypeOK /\ Running /\ LinkConsistent /\ InFlightFile /\ UNCHANGED <<boot, inq, outq>>
  BY DEF TimeOut, TimeoutSending, TimeoutReceiving, HostInv, BaseInv, IInv
<1>2. link'.state = "IDLE"
  BY <1>1 DEF TimeOut, TimeoutSending, TimeoutReceiving, EndSend, ToIdle, TypeOK, Link
<1>3. Intact'
  <2>1. CASE flash' = flash
    BY <2>1 DEF HostInv, Intact, Live
  <2>2. ASSUME NEW n \in Name, Puts(n, Absent) PROVE Intact'
    BY <1>1, <2>2, BareFiles, PutsIntact DEF HostInv
  <2>3. CASE TimeoutSending
    BY <2>1, <2>3 DEF TimeoutSending
  <2>4. CASE TimeoutReceiving
    BY <1>1, <2>1, <2>2, <2>4, TimeoutPuts
  <2> QED
    BY <2>3, <2>4 DEF TimeOut
<1> QED
  BY <1>1, <1>2, <1>3, QuietBadge DEF AirQuiet, SendsStored

-----------------------------------------------------------------------------
(* The invariant, and what it means for the tool.                          *)

(* A refusal that has been heard to the end is over.                       *)
LEMMA RefusalOver == ASSUME Refusal, AirQuiet PROVE HostInv
BY DEF Refusal, AirQuiet, HostInv, ShortInv, TakesTurns, TalkInv, AskInv, UploadInv, SendInv, PullInv

(* Until then the badge hears noise and answers it,                        *)
LEMMA RefusalRead ==
  ASSUME Refusal, BaseInv', Hearing
  PROVE Refusal'
<1>1. Receive \/ AirFault
  BY DEF Hearing, AirFault
<1>2. inq # << >> /\ boot' = boot /\ Consumes /\ host' = host
  BY <1>1, OneAnswer, ReadsConsume DEF Hearing
<1>3. Msg \in Hiss
  BY <1>2, QueueFacts DEF Refusal, Msg
<1>4. Msg.op = "NOISE"
  BY <1>3 DEF Hiss
<1>5. inq' \in Seq(Hiss)
  <2>1. Noise \in Hiss
    BY ValueTypes DEF Hiss, Noise
  <2> QED
    BY <1>2, <2>1, DrainsTyped DEF Refusal, Drains
<1>6. RxNoise \/ RxLost
  <2>1. ~(RxIgnored \/ RxRejected \/ RxGetFile \/ RxHelo \/ RxDelete \/ RxDeleteRefused
            \/ RxPutRefused \/ RxGarbledPayload)
    BY <1>4 DEF RxIgnored, RxRejected, RxGetFile, RxHelo, RxDelete, RxDeleteRefused, RxPutRefused,
                RxGarbledPayload, HasPayload, Arrives
  <2>2. ~(RxPutUnreadable \/ RxPutDiscarded \/ RxPutUnlocks \/ RxPutNew)
    BY <1>4 DEF RxPutUnreadable, RxPutDiscarded, RxPutUnlocks, RxPutNew, Offered, Arrives
  <2>3. ~(RxFrame \/ RxLastFrame \/ RxFrameUnwritten)
    BY <1>4 DEF RxFrame, RxLastFrame, RxFrameUnwritten, FrameArrives, Arrives
  <2>4. ~(RxAck \/ RxAckLast \/ RxNackResends \/ RxNackGivesUp)
    BY <1>4 DEF RxAck, RxAckLast, RxNackResends, RxNackGivesUp, Sending, Arrives
  <2> QED
    BY <2>1, <2>2, <2>3, <2>4 DEF Hearing, Receive
<1>7. UNCHANGED <<link, flash>> /\ (outq' = outq \/ Say("NACK", NoBody))
  BY <1>6 DEF RxNoise, RxLost, Reply
<1>8. outq' \in Seq(Nacks)
  <2> DEFINE a == [op |-> "NACK", from |-> Self, body |-> NoBody]
  <2>1. a \in Nacks /\ (outq' = outq \/ outq' = Append(outq, a))
    BY <1>7, StationAssumption DEF Say, Nacks, Message, Bare
  <2> HIDE DEF a
  <2> QED
    BY <2>1, QueueFacts DEF Refusal
<1> QED
  BY <1>2, <1>5, <1>7, <1>8 DEF Refusal, Running, Intact, Live, SendsStored

(* and the tool, if it listens at all, ends its command.                   *)
LEMMA RefusalHeard ==
  ASSUME Refusal, BaseInv', HostHears \/ Unread, ~misheard'
  PROVE Refusal'
<1>1. /\ UNCHANGED bvars /\ outq # << >> /\ HostTyped /\ CommandInv
      /\ HostHears => host.at # "none"
  BY HearsSomething DEF Unread, Refusal, BaseInv
<1>2. Heard \in Nacks
  BY <1>1, QueueFacts DEF Refusal, Heard
<1>3. Heard.op = "NACK"
  BY <1>2 DEF Nacks
<1>4. Running' /\ Intact' /\ SendsStored'
  BY <1>1, BadgeUnmoved DEF Refusal
<1>5. CASE Unread
  BY <1>4, <1>5, EmptySeq DEF Unread, Refusal
<1>6. CASE HostHears
  <2>1. ~(HearGarbledHeader \/ HearNoise)
    BY <1>3 DEF HearGarbledHeader, HearNoise, Heard
  <2>2. outq' \in Seq(Nacks)
    BY <1>1, <1>6, <2>1, HearsSomething, QueueFacts DEF Refusal
  <2>3. ASSUME NEW r \in Result, Ends(r) PROVE Refusal'
    <3>1. inq' = inq /\ host'.at = "none"
      BY <1>1, <2>3, EndsSays
    <3> QED
      BY <1>4, <2>2, <3>1 DEF Refusal
  <2>4. CASE HearNothing
    BY <1>4, <2>2, <2>4 DEF HearNothing, Refusal
  <2>5. ~AskAgain
    BY DEF AskAgain, Retrying, Refusal
  <2>6. CASE HearGarbledPayload \/ HearCutShort \/ HearNothing
    BY <2>3, <2>4, <2>5, <2>6, BadlySays DEF Result
  <2>7. ~(HearVersion \/ HearPutAck \/ HearFrameAck \/ HearFrameNack \/ HearPut \/ HearFrame)
    BY <1>3 DEF HearVersion, HearPutAck, HearFrameAck, HearFrameNack, HearPut, HearFrame, Hears,
                Heard, Refusal
  <2>8. CASE HearDeleted \/ HearRefused \/ HearUnexpected
    <3>1. \E r \in {"deleted", "refused", "failed"} : Ends(r)
      BY <2>8 DEF HearDeleted, HearRefused, HearUnexpected
    <3> QED
      BY <2>3, <3>1 DEF Result
  <2> QED
    BY <1>6, <2>1, <2>6, <2>7, <2>8 DEF HostHears
<1> QED
  BY <1>5, <1>6

(* A header that has arrived garbled stays so.                             *)
LEMMA MisheardStays == ASSUME [HostNext]_hvars, misheard PROVE misheard'
<1>1. CASE Commands
  <2>1. \E at, a : Command(at, a)
    BY <1>1 DEF Commands, Info, GetFile, Delete, PutFileCommand
  <2> QED
    BY <2>1 DEF Command
<1>2. CASE \/ HearVersion \/ HearDeleted \/ HearRefused \/ HearPutAck \/ HearFrameAck
           \/ HearFrameNack \/ HearPut \/ HearFrame \/ HearUnexpected
  <2>1. \E at, op : Hears(at, op)
    BY <1>2 DEF HearVersion, HearDeleted, HearRefused, HearPutAck, HearFrameAck, HearFrameNack,
                HearPut, HearFrame, HearUnexpected
  <2> QED
    BY <2>1 DEF Hears
<1>3. CASE HearGarbledHeader \/ HearNoise \/ HearGarbledPayload \/ HearCutShort \/ HearNothing
  BY <1>3 DEF HearGarbledHeader, HearNoise, HearGarbledPayload, HearCutShort, HearNothing
<1>4. CASE UNCHANGED hvars \/ Silence \/ Unread \/ NeighbourSpeaks
  BY <1>4 DEF hvars, Silence, Unread, NeighbourSpeaks
<1>5. CASE BadgeReads \/ BadgeBoots \/ BadgeStarts \/ BadgeGivesUp \/ BadgeHearsBadly \/ OwnerActs
  BY <1>5 DEF BadgeReads, BadgeBoots, BadgeStarts, BadgeGivesUp, BadgeHearsBadly, OwnerActs, hostVars
<1> QED
  BY <1>1, <1>2, <1>3, <1>4, <1>5 DEF HostNext, HostHears

InStep == misheard \/ HostInv \/ Refusal

LEMMA InitInStep == ASSUME HostInit PROVE InStep
<1>1. Init /\ BaseInv /\ host = NewHost
  BY InitBase DEF HostInit
<1>2. Intact /\ ShortInv
  <2>1. ASSUME NEW n \in Name
        PROVE /\ Valid(flash.files[n]) => flash.files[n].frames = FramesOf(n)
              /\ Len(flash.files[n].frames) <= AnimLen[n]
    <3>1. flash.files[n] = Absent \/ flash.files[n].frames = FramesOf(n)
      BY <1>1 DEF Init, SeededFile, Stored
    <3>2. Len(FramesOf(n)) = AnimLen[n] /\ AnimLen[n] \in Nat
      BY FramesOfType, BoundAssumption
    <3> QED
      BY <3>1, <3>2, BareFiles DEF Absent
  <2> QED
    BY <2>1 DEF Intact, ShortInv, Live
<1>3. inq = << >> /\ outq = << >> /\ host.at = "none" /\ link.state = "IDLE"
  BY <1>1 DEF Init, NewHost, NewLink
<1>4. TakesTurns /\ TalkInv
  BY <1>3 DEF TakesTurns, AirQuiet, TalkInv, AskInv, UploadInv, SendInv, SendsStored, PullInv
<1> QED
  BY <1>1, <1>2, <1>4 DEF HostInv, InStep

LEMMA InStepStays ==
  ASSUME BaseInv, InStep, NeighboursOffer, [HostNext]_hvars
  PROVE InStep'
<1>1. BaseInv'
  BY BaseStep
<1>2. SUFFICES ASSUME ~misheard' PROVE HostInv' \/ Refusal'
  BY DEF InStep
<1>3. HostInv \/ Refusal
  BY <1>2, MisheardStays DEF InStep
<1>4. CASE ToolActs
  <2>1. CASE HostInv
    BY <1>1, <1>2, <1>4, <2>1, ToolStep
  <2>2. CASE Refusal /\ ~AirQuiet
    <3>1. ~(Silence \/ NeighbourSpeaks \/ Commands)
      BY <2>2, CommandSays DEF Silence, NeighbourSpeaks, Refusal, BaseInv
    <3> QED
      BY <1>1, <1>2, <1>4, <2>2, <3>1, RefusalHeard DEF ToolActs
  <2> QED
    BY <1>3, <2>1, <2>2, RefusalOver
<1>5. CASE BadgeActs
  <2>1. CASE Hearing
    <3>1. CASE HostInv
      BY <1>1, <2>1, <3>1, ReadStep, RefusedRead DEF Read
    <3>2. CASE Refusal
      BY <1>1, <2>1, <3>2, RefusalRead
    <3> QED
      BY <1>3, <3>1, <3>2
  <2>2. CASE AirQuiet /\ (Start \/ TimeOut)
    BY <1>1, <1>3, <1>5, <2>2, RefusalOver, StartStep, GiveUpStep DEF BadgeActs
  <2>3. CASE Boot
    <3>1. ~Running
      BY <2>3, BootIsEarly DEF BaseInv, IInv
    <3> QED
      BY <1>1, <1>3, <1>5, <2>3, <3>1, BootStep DEF Refusal, BadgeActs
  <2>4. CASE UNCHANGED vars \/ Export \/ Select \/ FallBack
    <3>1. CASE HostInv
      BY <1>1, <1>5, <2>4, <3>1, OwnerStep DEF BadgeActs
    <3>2. CASE Refusal
      <4>1. UNCHANGED <<boot, link, flash, inq, outq, host>>
        BY <1>5, <2>4 DEF vars, Export, Press, Select, FallBack, BadgeActs
      <4> QED
        BY <1>1, <3>2, <4>1 DEF Refusal, Running, Intact, Live, SendsStored
    <3> QED
      BY <1>3, <3>1, <3>2
  <2> QED
    BY <1>2, <1>5, <2>1, <2>2, <2>3, <2>4 DEF BadgeActs, Hearing
<1> QED
  BY <1>4, <1>5, StepKinds

LEMMA HostInvariance == ASSUME NeighboursOffer PROVE HostSpec => [](BaseInv /\ InStep)
<1>1. HostInit => InStep
  BY InitInStep
<1>2. BaseInv /\ InStep /\ [HostNext]_hvars => InStep'
  BY InStepStays
<1> QED
  BY <1>1, <1>2, BaseInvariance, PTL DEF HostSpec

(* When an upload has ended well, the badge holds every frame of the       *)
(* animation in its place, and unlocked if the tool asked for that         *)
(* (serial_rx_done, controller.py send_file): while no header has arrived  *)
(* garbled, no retry over a faulty link makes the badge store a frame      *)
(* twice or miss one, however many bytes of a payload it takes for         *)
(* headers.                                                                *)
THEOREM UploadsAreReal ==
  ASSUME NeighboursOffer
  PROVE HostSpec => SentIsStored
<1> DEFINE Stores ==
      LET f == flash.files[host.anim.name]
      IN /\ Valid(f) /\ f.frames = FramesOf(host.anim.name)
         /\ host.anim.unlocked => f.hdr.unlocked
<1>1. ASSUME BaseInv, InStep, [HostNext]_hvars, host'.result = "sent", host.result # "sent",
             ~misheard
      PROVE Stores
  <2>1. HearFrameAck /\ FramesDone
    BY <1>1, Reports
  <2>2. host.at = "frame" /\ outq # << >> /\ Heard.op = "ACK" /\ host.frame = host.anim.len
    BY <2>1 DEF HearFrameAck, Hears, FramesDone, Heard
  <2> QED
    BY <1>1, <2>2 DEF InStep, Refusal, HostInv, TalkInv, UploadInv, Holds
<1>2. BaseInv /\ InStep /\ [HostNext]_hvars =>
        [host'.result = "sent" /\ host.result # "sent" /\ ~misheard => Stores]_hvars
  BY <1>1
<1> QED
  BY <1>2, HostInvariance, PTL DEF HostSpec, SentIsStored

(* What the tool saves of a download is the animation that the badge       *)
(* announced, every frame once and in its place (controller.py             *)
(* await_frame_retrying, serial_tx_done), however often either side asked  *)
(* for a frame again; while no header has arrived garbled.                 *)
THEOREM DownloadsAreWhole ==
  ASSUME NeighboursOffer
  PROVE HostSpec => SavedIsWhole
<1>1. ASSUME BaseInv, InStep, [HostNext]_hvars, host'.result = "saved", host.result # "saved",
             ~misheard
      PROVE host'.got = FramesOf(host.anim.name)
  <2>1. HearFrame /\ host'.result # host.result
    BY <1>1, Reports
  <2>2. host.at = "pull" /\ HostTyped /\ outq \in Seq(Message)
    BY <1>1, <2>1 DEF HearFrame, Hears, BaseInv, IInv, TypeOK
  <2>3. HostInv
    BY <1>1, <2>2 DEF InStep, Refusal
  <2>4. Len(host'.got) = host.anim.len
    BY <2>1, <2>2, PullSays
  <2> HIDE DEF FramesOf
  <2> QED
    BY <2>1, <2>3, <2>4, HearFrameFacts, OneFrameMore
<1>2. BaseInv /\ InStep /\ [HostNext]_hvars =>
        [host'.result = "saved" /\ host.result # "saved" /\ ~misheard =>
           host'.got = FramesOf(host.anim.name)]_hvars
  BY <1>1
<1> QED
  BY <1>2, HostInvariance, PTL DEF HostSpec, SavedIsWhole
=============================================================================
