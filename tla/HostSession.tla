----------------------------- MODULE HostSession -----------------------------
(***************************************************************************)
(* The host tool (scripts/controller.py) at a badge, through the IR dongle *)
(* (badge.lgbt-dongle/main.c): one command at a time, each a conversation  *)
(* over a link that loses, garbles and cuts short what is said.  The       *)
(* variables of Badge are those of the badge; its inq is what the host     *)
(* says and its outq what the host hears.                                  *)
(***************************************************************************)
EXTENDS Badge

CONSTANTS
  FrameAttempts,  \* MAX_FRAME_ATTEMPTS
  Neighbours,     \* bound: what another badge may say to this one between two commands
  MaxEvents       \* bound: commands and mishaps in a behaviour

VARIABLES
  host,      \* the command that runs
  events,    \* commands, messages lost or garbled, presses and neighbours so far
  misheard   \* history, read by properties only: a header has arrived garbled

bvars == <<boot, post, link, ev, flash, index, led>>
hostVars == <<host, events, misheard>>
hvars == <<vars, host, events, misheard>>

ASSUME HostAssumption ==
  /\ FrameAttempts \in Nat \ {0} /\ MaxEvents \in Nat
  /\ Neighbours \subseteq Message
  /\ \A m \in Neighbours :
       m.op = "PUTFILE" /\ m.body.name \in Name /\ Acceptable(m.body) =>
         m.body.len = AnimLen[m.body.name]

(* What the command waits for: the answer to a HELO of "info" or "delete", *)
(* to a DELFILE, a PUTFILE, a frame or a GETFILE, or the next frame.       *)
Waiting == {"info", "helo", "delete", "put", "frame", "get", "pull"}

NewHost == [at |-> "none", result |-> "none", anim |-> ZeroAnim, frame |-> 0,
            attempt |-> 1, got |-> << >>]

HostInit == Init /\ host = NewHost /\ events = 0 /\ misheard = FALSE

Counted == events < MaxEvents /\ events' = events + 1
AirQuiet == inq = << >> /\ outq = << >>

(* The dongle passes every byte on, in both directions and in order.       *)
Relayed(q, m) == Append(q, m)

(* send_message.                                                           *)
Send(op, body) == inq' = Relayed(inq, [op |-> op, from |-> Controller, body |-> body])

-----------------------------------------------------------------------------
(* The commands.  Bound: one starts when what was said before has been     *)
(* heard; opening the port drops what an earlier one left unread.          *)

Command(at, a) ==
  /\ host.at = "none" /\ Running /\ AirQuiet /\ Counted
  /\ host' = [NewHost EXCEPT !.at = at, !.anim = a]
  /\ UNCHANGED <<bvars, outq, misheard>>

Uploaded(n, unlock) ==
  [name |-> n, len |-> AnimLen[n], delay |-> MinDelay, id |-> 0,
   unlocked |-> unlock, direct |-> FALSE]

Info == Command("info", ZeroAnim) /\ Send("HELO", NoBody)
Delete(n) == Command("helo", Uploaded(n, FALSE)) /\ Send("HELO", NoBody)
PutFileCommand(n, unlock) ==
  Command("put", Uploaded(n, unlock)) /\ Send("PUTFILE", Uploaded(n, unlock))
GetFile == Command("get", ZeroAnim) /\ Send("GETFILE", NoBody)

-----------------------------------------------------------------------------
(* What a command does with a message it has received whole.               *)

Ends(result) == host' = [host EXCEPT !.at = "none", !.result = result] /\ UNCHANGED inq

Hears(at, op) ==
  /\ host.at = at /\ outq # << >> /\ Head(outq).op = op
  /\ outq' = Tail(outq)
  /\ UNCHANGED <<bvars, events, misheard>>

HearVersion ==
  \/ Hears("info", "VERSION") /\ Ends("informed")
  \/ /\ Hears("helo", "VERSION")
     /\ host' = [host EXCEPT !.at = "delete"]
     /\ Send("DELFILE", host.anim.name)

AnsweredAtAll == {"ACK", "NACK"}
Answered == {"ACK"}
HearDeleted == \E op \in Answered : Hears("delete", op) /\ Ends("deleted")
HearRefused == Hears("delete", "NACK") /\ Ends("refused")

(* Sending frame k, counting from 1.                                       *)
SendFrame(k, attempt) ==
  /\ host' = [host EXCEPT !.at = "frame", !.frame = k, !.attempt = attempt]
  /\ Send("APPFILE", FramesOf(host.anim.name)[k])

HearPutAck == Hears("put", "ACK") /\ SendFrame(1, 1)

FramesAllButLast == host.frame + 1 >= host.anim.len
FramesDone == host.frame = host.anim.len

HearFrameAck ==
  /\ Hears("frame", "ACK")
  /\ IF FramesDone THEN Ends("sent") ELSE SendFrame(host.frame + 1, 1)

HearFrameNackSkips ==
  /\ Hears("frame", "NACK")
  /\ IF host.attempt = FrameAttempts THEN Ends("failed")
     ELSE SendFrame(IF FramesDone THEN host.frame ELSE host.frame + 1, host.attempt + 1)
HearFrameNack ==
  /\ Hears("frame", "NACK")
  /\ IF host.attempt = FrameAttempts THEN Ends("failed")
     ELSE SendFrame(host.frame, host.attempt + 1)

HearPut ==
  /\ Hears("get", "PUTFILE")
  /\ host' = [host EXCEPT !.at = "pull", !.anim = Head(outq).body, !.attempt = 1]
  /\ Send("ACK", NoBody)

HearFrame ==
  /\ Hears("pull", "APPFILE") /\ Send("ACK", NoBody)
  /\ LET got == Append(host.got, Head(outq).body)
         saved == Len(got) = host.anim.len
     IN host' = [host EXCEPT !.got = got, !.attempt = 1,
                   !.at = IF saved THEN "none" ELSE @,
                   !.result = IF saved THEN "saved" ELSE @]

(* UnexpectedOpcode ends every command.                                    *)
Expects ==
  [info |-> {"VERSION"}, helo |-> {"VERSION"}, delete |-> {"ACK", "NACK"}, put |-> {"ACK"},
   frame |-> {"ACK", "NACK"}, get |-> {"PUTFILE"}, pull |-> {"APPFILE"}]
HearUnexpected ==
  \E at \in Waiting : \E op \in {"VERSION", "ACK", "NACK", "PUTFILE", "APPFILE", "GETFILE"} :
    op \notin Expects[at] /\ Hears(at, op) /\ Ends("failed")

-----------------------------------------------------------------------------
(* What it does with one that is garbled, or cut short by a timeout.       *)

HearsBadly ==
  /\ host.at # "none" /\ outq # << >> /\ Head(outq).op # "NOISE"
  /\ Counted
  /\ UNCHANGED bvars

(* await_frame_retrying; the other commands end on the first failure.      *)
Retrying == host.at \in {"get", "pull"}
AskAgain ==
  /\ Retrying /\ host.attempt < FrameAttempts
  /\ host' = [host EXCEPT !.attempt = @ + 1] /\ Send("NACK", NoBody)
GivesUp ==
  /\ Retrying => host.attempt = FrameAttempts
  /\ Ends("failed")

(* validate_header raises with the payload unread, and await_serial finds  *)
(* up to Residue sync words in it.                                         *)
HearGarbledHeader ==
  /\ HearsBadly /\ misheard' = TRUE
  /\ \E k \in (IF HasPayload(Head(outq)) THEN 0..Residue ELSE {0}) :
       outq' = [i \in 1..k |-> Noise] \o Tail(outq)
  /\ AskAgain \/ GivesUp

(* What is behind such a sync word is a garbled header again, and reading  *)
(* it may swallow the start of the next message.                           *)
HearNoise ==
  /\ host.at # "none" /\ outq # << >> /\ Head(outq).op = "NOISE"
  /\ \E k \in {2, 3} : outq' = SubSeq(outq, k, Len(outq))
  /\ AskAgain \/ GivesUp
  /\ UNCHANGED <<bvars, events, misheard>>

(* The opcode is looked at before the payload is.                          *)
HearGarbledPayloadUnchecked ==
  /\ HearsBadly /\ HasPayload(Head(outq)) /\ outq' = Tail(outq)
  /\ \/ /\ host.at = "pull" /\ Head(outq).op = "APPFILE" /\ Send("ACK", NoBody)
        /\ LET saved == Len(host.got) + 1 = host.anim.len
           IN host' = [host EXCEPT !.got = Append(@, Junk), !.at = IF saved THEN "none" ELSE @,
                         !.result = IF saved THEN "saved" ELSE @]
     \/ host.at = "get" /\ AskAgain
     \/ (host.at = "pull" => Head(outq).op # "APPFILE") /\ Ends("failed")
  /\ UNCHANGED misheard
HearGarbledPayload ==
  /\ HearsBadly /\ HasPayload(Head(outq)) /\ outq' = Tail(outq)
  /\ \/ Head(outq).op \in Expects[host.at] /\ (AskAgain \/ GivesUp)
     \/ Head(outq).op \notin Expects[host.at] /\ Ends("failed")
  /\ UNCHANGED misheard

(* get_version takes a message cut short for the silence of old firmware.  *)
HearCutShort ==
  /\ HearsBadly /\ outq' = Tail(outq)
  /\ \/ host.at \in {"info", "helo"} /\ Ends("old")
     \/ host.at \notin {"info", "helo"} /\ (AskAgain \/ GivesUp)
  /\ UNCHANGED misheard

HearNothing ==
  /\ HearsBadly /\ outq' = Tail(outq) /\ UNCHANGED <<inq, host, misheard>>

(* BadgeSilent: the port's timeout of a second passes.  A message takes    *)
(* 0.18 s at most and a badge answers at once, so none is under way.       *)
SilenceInHelo ==
  /\ host.at \in {"info", "helo"} /\ AirQuiet
  /\ Ends("old")
  /\ UNCHANGED <<bvars, outq, events, misheard>>
Silence ==
  /\ host.at # "none" /\ AirQuiet
  /\ Ends(IF host.at \in {"info", "helo"} THEN "old" ELSE "failed")
  /\ UNCHANGED <<bvars, outq, events, misheard>>

(* Between two commands nobody reads the port.                             *)
Unread ==
  /\ host.at = "none" /\ outq # << >> /\ outq' = << >>
  /\ UNCHANGED <<bvars, inq, host, events, misheard>>

-----------------------------------------------------------------------------
(* The badge, its owner and its neighbours.                                *)

BadgeReads == Receive /\ UNCHANGED hostVars
BadgeBoots == Boot /\ UNCHANGED hostVars
BadgeStarts == AirQuiet /\ Start /\ UNCHANGED hostVars
BadgeGivesUp == AirQuiet /\ TimeOut /\ UNCHANGED hostVars

Mishap == Counted /\ UNCHANGED host
BadgeHearsBadly ==
  /\ Mishap
  /\ \/ (RxLost \/ RxGarbledPayload) /\ UNCHANGED misheard
     \/ RxGarbledHeader /\ misheard' = TRUE
OwnerActs == (Export \/ Select \/ FallBack) /\ Mishap /\ UNCHANGED misheard
NeighbourSpeaks ==
  /\ Running /\ host.at = "none" /\ AirQuiet /\ Mishap
  /\ \E m \in Neighbours : inq' = <<m>>
  /\ UNCHANGED <<bvars, outq, misheard>>

Commands ==
  \/ Info \/ GetFile
  \/ \E n \in Name \ SystemName : Delete(n) \/ \E u \in BOOLEAN : PutFileCommand(n, u)
HostHears ==
  \/ HearVersion \/ HearDeleted \/ HearRefused \/ HearPutAck \/ HearFrameAck \/ HearFrameNack
  \/ HearPut \/ HearFrame \/ HearUnexpected
  \/ HearGarbledHeader \/ HearNoise \/ HearGarbledPayload \/ HearCutShort \/ HearNothing

HostNext ==
  \/ Commands \/ HostHears \/ Silence \/ Unread
  \/ BadgeReads \/ BadgeBoots \/ BadgeStarts \/ BadgeGivesUp
  \/ BadgeHearsBadly \/ OwnerActs \/ NeighbourSpeaks

(* Reads of the port return, with a message or without; the badge's task   *)
(* never stops, and its deadlines pass at a quiet moment.  At most one     *)
(* action of each disjunction is enabled at a time.                        *)
HostFairness ==
  /\ WF_hvars(HostHears \/ Silence \/ Unread)
  /\ WF_hvars(BadgeReads \/ BadgeBoots) /\ SF_hvars(BadgeGivesUp)

HostSpec == HostInit /\ [][HostNext]_hvars /\ HostFairness

-----------------------------------------------------------------------------
(* When the tool says "Deleted", the animation is gone from the badge.     *)
DeletedIsGone ==
  [][host'.result = "deleted" /\ host.result # "deleted" =>
       flash.files[host.anim.name].kind = "absent"]_hvars

(* When putfile ends well the badge holds the animation, every frame in    *)
(* its place, unlocked if that was asked for; provided that no header has  *)
(* arrived garbled at the badge or at the tool.  Behind a garbled header   *)
(* the badge takes bytes of the frame for headers (ir.c:859), the tool     *)
(* repeats the frame for each NACK (controller.py:292), and the badge      *)
(* stores it each time.                                                    *)
SentIsStored ==
  [][host'.result = "sent" /\ host.result # "sent" /\ ~misheard =>
       LET f == flash.files[host.anim.name]
       IN /\ Valid(f) /\ f.frames = FramesOf(host.anim.name)
          /\ host.anim.unlocked => f.hdr.unlocked]_hvars

(* What getfile saves is the animation the badge announced, every frame in *)
(* its place, under the same proviso.                                      *)
SavedIsWhole ==
  [][host'.result = "saved" /\ host.result # "saved" /\ ~misheard =>
       host'.got = FramesOf(host.anim.name)]_hvars

(* Whatever arrives garbled, an upload that ends well leaves a file of the *)
(* right size that starts with the first frame and holds frames of the     *)
(* animation only, none before an earlier one.                             *)
SentInOrder ==
  [][host'.result = "sent" /\ host.result # "sent" =>
       LET fs == flash.files[host.anim.name].frames
           sent == FramesOf(host.anim.name)
       IN /\ Len(fs) = Len(sent) /\ fs[1] = sent[1]
          /\ \A i, j \in DOMAIN fs : i <= j =>
               \E a, b \in DOMAIN sent : a <= b /\ fs[i] = sent[a] /\ fs[j] = sent[b]]_hvars

(* ir.c:726: on a NACK "the peer couldn't use what we just sent", so the   *)
(* frame the badge resends is not one that the tool has already taken.     *)
NackedIsUnused ==
  [][RxNackResends /\ link.part > 0 /\ host.at = "pull" => Len(host.got) < link.part]_hvars

(* Every command comes to an end, whatever gets lost on the way.           *)
CommandsEnd == (host.at # "none") ~> (host.at = "none")

(* An upload that failed leaves nothing half-written on the badge: what    *)
(* was received of it is gone once the badge's deadline has passed.        *)
NoLeftovers == \A n \in Name : flash.files[n].kind = "absent" \/ Valid(flash.files[n])
FailureCleansUp == (host.at = "none" /\ host.result = "failed") ~> (NoLeftovers \/ host.at # "none")
=============================================================================
