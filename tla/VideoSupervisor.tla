-------------------------- MODULE VideoSupervisor --------------------------
(***************************************************************************)
(* The video side of a Channel's incarnation: Application with the control *)
(* of superviseVideo, its fallback pump and its recovery probe, and what   *)
(* each Client is shown and told.                                          *)
(*                                                                         *)
(* The primary VideoSource is its contract only: a subscription delivers   *)
(* frames until it closes, which it may do at any time, and a probe gets a *)
(* frame or does not.  Fan-out is one step, for it holds ch.mu and does    *)
(* not block; a notification is one step per Client, for it writes to the     *)
(* network.  Key edges are left to KeyPath.                                *)
(***************************************************************************)
EXTENDS Application

VARIABLES
    sv,          \* sv[ch][h]: where superviseVideo of that incarnation is
    todo,        \* todo[ch][h]: Clients ForEachClient has yet to notify
    fallback,    \* fallback[ch][h]: its fallback pump
    notice,      \* history: the last ClientUpdate c got since it was registered
    screen       \* history: the last frame fanned out to c since it was registered

videoVars == <<sv, todo, fallback, notice, screen>>
allVars == <<vars, videoVars>>

\* "start": before channelID, which reads under a.mu; "pump": in pumpFrames
\* of the primary; "failed": pumpFrames returned true; "down" and "up": about
\* to notify, or notifying; "wait": for the probe's ticker; "probe": in
\* probePrimaryOnce.
SvState == {"none", "start", "pump", "failed", "down", "wait", "probe", "up"}

\* What reaches a Client, and the Channel whose goroutine sends it.
Blank == << >>
Frame == [of : Channels, what : {"primary", "fallback"}]
Update == [of : Channels, what : {"video_down", "video_recovered"}]

VideoTypeOK ==
    /\ TypeOK
    /\ sv \in [Channels -> [Handles -> SvState]]
    /\ todo \in [Channels -> [Handles -> SUBSET Clients]]
    /\ fallback \in [Channels -> [Handles -> {"off", "on", "cancelled"}]]
    /\ notice \in [Clients -> Update \cup {Blank}]
    /\ screen \in [Clients -> Frame \cup {Blank}]

VideoInit ==
    /\ Init
    /\ sv = [ch \in Channels |-> [h \in Handles |-> "none"]]
    /\ todo = [ch \in Channels |-> [h \in Handles |-> {}]]
    /\ fallback = [ch \in Channels |-> [h \in Handles |-> "off"]]
    /\ notice = [c \in Clients |-> Blank]
    /\ screen = [c \in Clients |-> Blank]

-----------------------------------------------------------------------------
Step(ch, h, from, to) ==
    /\ sv[ch][h] = from
    /\ sv' = [sv EXCEPT ![ch][h] = to]

\* attachLocked: goroutines of a fresh incarnation start with it.
AttachVideo(c) ==
    LET ch == req[c] IN
    /\ Attach(c)
    /\ \A h \in videos'[ch] \ videos[ch] : fallback[ch][h] = "off"
    /\ sv' = [sv EXCEPT ![ch] =
                [h \in Handles |-> IF h \in videos'[ch] \ videos[ch] THEN "start" ELSE @[h]]]
    /\ UNCHANGED <<todo, fallback, notice, screen>>

\* A Client that leaves the fan-out set starts over with what it is shown.
UnregisterVideo(c) ==
    /\ UnregisterClient(c)
    /\ notice' = [notice EXCEPT ![c] = Blank]
    /\ screen' = [screen EXCEPT ![c] = Blank]
    /\ UNCHANGED <<sv, todo, fallback>>

\* superviseVideo calls channelID, which waits for a.mu.
ReadChannelID(ch, h) ==
    /\ mu = NoOne
    /\ Step(ch, h, "start", "pump")
    /\ UNCHANGED <<vars, todo, fallback, notice, screen>>

\* Channel.Fanout of one frame, under ch.mu.RLock: it waits behind a writer.
Fanout(ch, kind) ==
    /\ ~WriterWaiting(ch)
    /\ screen' = [c \in Clients |-> IF c \in members[ch] THEN [of |-> ch, what |-> kind]
                                    ELSE screen[c]]

PrimaryFrame(ch, h) ==
    /\ sv[ch][h] = "pump"
    /\ Fanout(ch, "primary")
    /\ UNCHANGED <<vars, sv, todo, fallback, notice>>

\* The subscription closes: the source failed, or the context is cancelled
\* and pumpFrames sees the closed channel first.
PrimaryCloses(ch, h) ==
    /\ Step(ch, h, "pump", "failed")
    /\ UNCHANGED <<vars, todo, fallback, notice, screen>>

\* The check of ctx.Err between pumpFrames and the notification.
StillLive(ch, h) ==
    /\ ~Cancelled(ch, h)
    /\ Step(ch, h, "failed", "down")
    /\ UNCHANGED <<vars, todo, fallback, notice, screen>>

BeginNotify(ch, h) ==
    /\ sv[ch][h] \in {"down", "up"}
    /\ NotifyBegin(ch, h)
    /\ todo' = [todo EXCEPT ![ch][h] = members[ch]]
    /\ UNCHANGED <<sv, fallback, notice, screen>>

\* The writes for one Client.
NotifyClient(ch, h, c) ==
    /\ h \in notifying[ch]
    /\ c \in todo[ch][h]
    /\ todo' = [todo EXCEPT ![ch][h] = @ \ {c}]
    /\ notice' = [notice EXCEPT ![c] =
                     [of |-> ch, what |-> IF sv[ch][h] = "down" THEN "video_down"
                                          ELSE "video_recovered"]]
    /\ UNCHANGED <<vars, sv, fallback, screen>>

\* After a "down": runFallbackUntilRecovery starts the fallback pump.  After a
\* recovery: pumpFrames again.
EndNotify(ch, h) ==
    /\ todo[ch][h] = {}
    /\ NotifyEnd(ch, h)
    /\ IF sv[ch][h] = "down"
         THEN /\ Step(ch, h, "down", "wait")
              /\ fallback' = [fallback EXCEPT ![ch][h] = "on"]
         ELSE Step(ch, h, "up", "pump") /\ UNCHANGED fallback
    /\ UNCHANGED <<todo, notice, screen>>

ProbeTick(ch, h) ==
    /\ Step(ch, h, "wait", "probe")
    /\ UNCHANGED <<vars, todo, fallback, notice, screen>>

ProbeFails(ch, h) ==
    /\ Step(ch, h, "probe", "wait")
    /\ UNCHANGED <<vars, todo, fallback, notice, screen>>

\* The deferred fallbackCancel, which does not wait for the fallback pump.
CancelFallback(ch, h) ==
    fallback' = [fallback EXCEPT ![ch][h] = IF @ = "on" THEN "cancelled" ELSE @]

\* Fault: the fallback pump is left running when the primary recovers.
ProbeSucceedsKeepsFallback(ch, h) ==
    /\ Step(ch, h, "probe", "up")
    /\ UNCHANGED <<vars, todo, fallback, notice, screen>>

\* Fault: the supervisor goes back to pumping and tells nobody.
ProbeSucceedsSilently(ch, h) ==
    /\ Step(ch, h, "probe", "pump")
    /\ CancelFallback(ch, h)
    /\ UNCHANGED <<vars, todo, notice, screen>>

\* A frame came: the deferred cancels of probe and fallback, then "recovered".
ProbeSucceeds(ch, h) ==
    /\ Step(ch, h, "probe", "up")
    /\ CancelFallback(ch, h)
    /\ UNCHANGED <<vars, todo, notice, screen>>

\* The fallback pump goes back to its select and ends, or, since both cases
\* may be ready, forwards one more frame although it is cancelled.
FallbackFrame(ch, h) ==
    /\ fallback[ch][h] # "off"
    /\ Fanout(ch, "fallback")
    /\ UNCHANGED <<vars, sv, todo, fallback, notice>>

FallbackExit(ch, h) ==
    /\ fallback[ch][h] = "cancelled"
    /\ fallback' = [fallback EXCEPT ![ch][h] = "off"]
    /\ UNCHANGED <<vars, sv, todo, notice, screen>>

\* superviseVideo returns wherever it looks at its cancelled context.
SuperviseReturns(ch, h) ==
    /\ sv[ch][h] \in {"pump", "failed", "wait", "probe"}
    /\ SuperviseExit(ch, h)
    /\ sv' = [sv EXCEPT ![ch][h] = "none"]
    /\ CancelFallback(ch, h)
    /\ UNCHANGED <<todo, notice, screen>>

SvStep(ch, h) ==
    \/ ReadChannelID(ch, h) \/ StillLive(ch, h)
    \/ BeginNotify(ch, h) \/ (\E c \in Clients : NotifyClient(ch, h, c)) \/ EndNotify(ch, h)
    \/ ProbeTick(ch, h) \/ ProbeFails(ch, h) \/ ProbeSucceeds(ch, h)

\* A goroutine that holds a.mu goes on.
VideoProceed(c) ==
    \/ AttachVideo(c)
    \/ UnregisterVideo(c)
    \/ /\ \/ LockChannel(c) \/ Detach(c)
          \/ RegisterClient(c) \/ ResumePump(c) \/ Forget(c) \/ EmitMJPEGURL(c)
       /\ UNCHANGED videoVars

Operation(c) ==
    /\ \/ AddClient(c) \/ RemoveClient(c)
       \/ \E t \in Channels \cup {Nil} : SwitchChannel(c, t)
    /\ UNCHANGED videoVars

LeaveRun(ch, h) ==
    /\ RunExit(ch, h)
    /\ UNCHANGED videoVars

VideoNext ==
    \/ \E c \in Clients : VideoProceed(c) \/ Operation(c)
    \/ \E ch \in Channels, h \in Handles :
          \/ SvStep(ch, h)
          \/ PrimaryFrame(ch, h) \/ PrimaryCloses(ch, h)
          \/ FallbackFrame(ch, h) \/ FallbackExit(ch, h)
          \/ SuperviseReturns(ch, h) \/ LeaveRun(ch, h)

VideoSpec == VideoInit /\ [][VideoNext]_allVars

\* Every goroutine runs when it can; a cancelled one leaves sooner or later;
\* and the primary does come back: a probe tried again and again succeeds.
VideoFairness ==
    /\ \A c \in Clients : WF_allVars(VideoProceed(c))
    /\ \A ch \in Channels, h \in Handles :
          /\ WF_allVars(SvStep(ch, h))
          /\ SF_allVars(BeginNotify(ch, h))
          /\ SF_allVars(ReadChannelID(ch, h))
          /\ SF_allVars(ProbeSucceeds(ch, h))
          /\ SF_allVars(SuperviseReturns(ch, h))
          /\ WF_allVars(FallbackExit(ch, h))

VideoFairSpec == VideoSpec /\ VideoFairness

-----------------------------------------------------------------------------
(* Properties.                                                             *)

\* The supervisor of an incarnation feeds from one source at a time: its
\* fallback pump is not left running when it pumps the primary or is gone.
OneFeed ==
    \A ch \in Channels, h \in Handles :
        fallback[ch][h] = "on" => sv[ch][h] \in {"wait", "probe"}

\* A Channel's frames and notices reach the Clients of that Channel, whichever
\* of its goroutines sends them: what a Client gets is of the Channel that has it
\* in its fan-out set and that its keys go to, and once it has left the set
\* nothing comes any more (channel.go:117,128 walk the set under ch.mu).
OnlyMembersReached ==
    \A c \in Clients : \A got \in {screen[c], notice[c]} \ {Blank} :
        c \in members[got.of] /\ clientChan[c] = got.of

\* An outage ends for everybody: each Client attached while the Channel's own
\* supervisor is on the fallback is told "recovered", unless it leaves.
OutageEnds ==
    \A ch \in Channels, h \in Handles, c \in Clients :
        running[ch] = h /\ sv[ch][h] = "wait" /\ c \in members[ch] ~>
            \/ notice[c] = [of |-> ch, what |-> "video_recovered"]
            \/ c \notin members[ch]
            \/ running[ch] # h

\* application.go on FallbackVideo: "on recovery it swaps back and notifies
\* again".  A Client whose last notice is "down" watches a Channel whose own
\* supervisor is not (or not yet back) at pumping the primary.  (Refuted: a
\* supervisor cancelled after its ctx.Err check notifies the Clients of the
\* next incarnation, which has no recovery to tell them of.)
DownIsCurrent ==
    \A ch \in Channels : \A c \in members[ch] :
        notice[c] = [of |-> ch, what |-> "video_down"] =>
            \E h \in Handles : running[ch] = h /\ sv[ch][h] # "pump"
=============================================================================
