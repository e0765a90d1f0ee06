------------------------ MODULE VideoSupervisorProofs ------------------------
(***************************************************************************)
(* Video supervision, for every set of Clients, Channels and Handles: an   *)
(* incarnation feeds from one source at a time, and frames and notices     *)
(* reach the Clients of their Channel only.                                *)
(***************************************************************************)
EXTENDS VideoSupervisor, ApplicationProofs

-----------------------------------------------------------------------------
(* What holds of Application holds with its supervisors added to it.       *)

\* Steps of a supervisor that nobody else sees.
Inner(ch, h) ==
    \/ ReadChannelID(ch, h) \/ StillLive(ch, h) \/ ProbeTick(ch, h)
    \/ ProbeFails(ch, h) \/ ProbeSucceeds(ch, h) \/ PrimaryCloses(ch, h)
    \/ FallbackExit(ch, h)

LEMMA VideoCases ==
    ASSUME VideoNext
    PROVE  \/ \E c \in Clients : AttachVideo(c) \/ UnregisterVideo(c)
           \/ \E c \in Clients : (VideoProceed(c) /\ UNCHANGED videoVars) \/ Operation(c)
           \/ \E ch \in Channels, h \in Handles :
                 \/ Inner(ch, h) \/ PrimaryFrame(ch, h) \/ FallbackFrame(ch, h)
                 \/ BeginNotify(ch, h) \/ (\E c \in Clients : NotifyClient(ch, h, c))
                 \/ EndNotify(ch, h) \/ SuperviseReturns(ch, h) \/ LeaveRun(ch, h)
<1>1. ASSUME NEW c \in Clients, VideoProceed(c)
      PROVE  AttachVideo(c) \/ UnregisterVideo(c) \/ (VideoProceed(c) /\ UNCHANGED videoVars)
    BY <1>1 DEF VideoProceed
<1> QED BY <1>1 DEF VideoNext, SvStep, Inner

LEMMA VideoStepIsNext == [VideoNext]_allVars => [Next]_vars
<1> SUFFICES ASSUME [VideoNext]_allVars PROVE [Next]_vars
    OBVIOUS
<1>1. ASSUME NEW c \in Clients, VideoProceed(c) \/ Operation(c) PROVE Next
    BY <1>1 DEF VideoProceed, AttachVideo, UnregisterVideo, Operation, Next, ClientStep, Proceed
<1>2. ASSUME NEW ch \in Channels, NEW h \in Handles, SvStep(ch, h) PROVE [Next]_vars
    BY <1>2 DEF SvStep, ReadChannelID, StillLive, BeginNotify, NotifyClient, EndNotify,
       ProbeTick, ProbeFails, ProbeSucceeds, Next
<1>3. ASSUME NEW ch \in Channels, NEW h \in Handles,
             \/ PrimaryFrame(ch, h) \/ PrimaryCloses(ch, h)
             \/ FallbackFrame(ch, h) \/ FallbackExit(ch, h)
      PROVE  UNCHANGED vars
    BY <1>3 DEF PrimaryFrame, PrimaryCloses, FallbackFrame, FallbackExit
<1>4. ASSUME NEW ch \in Channels, NEW h \in Handles,
             SuperviseReturns(ch, h) \/ LeaveRun(ch, h)
      PROVE  Next
    BY <1>4 DEF SuperviseReturns, LeaveRun, Next
<1>5. CASE UNCHANGED allVars
    BY <1>5 DEF allVars
<1> QED BY <1>1, <1>2, <1>3, <1>4, <1>5 DEF VideoNext

-----------------------------------------------------------------------------
(* The invariant of supervision.                                           *)

VideoShape ==
    /\ sv \in [Channels -> [Handles -> SvState]]
    /\ todo \in [Channels -> [Handles -> SUBSET Clients]]
    /\ fallback \in [Channels -> [Handles -> {"off", "on", "cancelled"}]]
    /\ notice \in [Clients -> Update \cup {Blank}]
    /\ screen \in [Clients -> Frame \cup {Blank}]

\* A supervisor notifies inside ch.mu: while Clients are left to notify they
\* stay in the fan-out set.
NotifiesMembers ==
    \A ch \in Channels, h \in Handles :
        todo[ch][h] # {} => h \in notifying[ch] /\ todo[ch][h] \subseteq members[ch]

VideoInv ==
    /\ VideoShape
    /\ OneFeed
    /\ NotifiesMembers

\* An operation changes a fan-out set only when nobody notifies its members,
\* and leaves the notifications under way alone.
LEMMA MembersHeld ==
    ASSUME TypeOK,
           \/ \E c \in Clients : Attach(c) \/ VideoProceed(c) \/ Operation(c)
           \/ \E ch \in Channels, h \in Handles : LeaveRun(ch, h) \/ SuperviseExit(ch, h)
    PROVE  /\ UNCHANGED notifying
           /\ \A ch \in Channels : notifying[ch] # {} => members'[ch] = members[ch]
<1>1. ASSUME NEW c \in Clients, Attach(c)
      PROVE  UNCHANGED <<notifying, members>>
    BY <1>1 DEF Attach
<1>2. ASSUME NEW c \in Clients, RegisterClient(c) \/ UnregisterClient(c)
      PROVE  /\ UNCHANGED notifying
             /\ \A ch \in Channels : notifying[ch] # {} => members'[ch] = members[ch]
    BY <1>2 DEF TypeOK, RegisterClient, UnregisterClient, gors
<1>3. ASSUME NEW c \in Clients,
             \/ LockChannel(c) \/ Detach(c) \/ ResumePump(c) \/ Forget(c) \/ EmitMJPEGURL(c)
      PROVE  UNCHANGED <<notifying, members>>
    BY <1>3 DEF LockChannel, Detach, DetachTo, ResumePump, Forget, EmitMJPEGURL, gors, index
<1>4. ASSUME NEW c \in Clients, Operation(c)
      PROVE  UNCHANGED <<notifying, members>>
    BY <1>4 DEF Operation, AddClient, RemoveClient, SwitchChannel, gors, index
<1>5. ASSUME NEW ch \in Channels, NEW h \in Handles, LeaveRun(ch, h) \/ SuperviseExit(ch, h)
      PROVE  UNCHANGED <<notifying, members>>
    BY <1>5 DEF LeaveRun, RunExit, SuperviseExit, index
<1> QED BY <1>1, <1>2, <1>3, <1>4, <1>5 DEF VideoProceed, AttachVideo, UnregisterVideo

\* One incarnation's entry of a table by Channel and Handle is set.
LEMMA EntrySet ==
    ASSUME NEW S, NEW f \in [Channels -> [Handles -> S]], NEW g,
           NEW ch \in Channels, NEW h \in Handles,
           g = f \/ \E v \in S : g = [f EXCEPT ![ch][h] = v]
    PROVE  g \in [Channels -> [Handles -> S]]
<1>1. ASSUME NEW v \in S, g = [f EXCEPT ![ch][h] = v]
      PROVE  g \in [Channels -> [Handles -> S]]
    BY <1>1
<1> QED BY <1>1

LEMMA VideoStepInv == IndInv /\ VideoInv /\ [VideoNext]_allVars => VideoInv'
<1> SUFFICES ASSUME IndInv, VideoInv, [VideoNext]_allVars PROVE VideoInv'
    OBVIOUS
<1>0. TypeOK /\ VideoShape /\ OneFeed /\ NotifiesMembers
    BY DEF IndInv, VideoInv
<1>1. ASSUME NEW c \in Clients, AttachVideo(c)
      PROVE  VideoInv'
    <2>1. UNCHANGED <<notifying, members>>
        BY <1>1 DEF AttachVideo, Attach
    <2>2. VideoShape'
        BY <1>0, <1>1 DEF AttachVideo, VideoShape, SvState
    <2>3. OneFeed'
        BY <1>0, <1>1 DEF AttachVideo, VideoShape, SvState, OneFeed
    <2>4. NotifiesMembers'
        BY <1>0, <1>1, <2>1 DEF AttachVideo, NotifiesMembers
    <2> QED BY <2>2, <2>3, <2>4 DEF VideoInv
<1>12. ASSUME NEW c \in Clients, UnregisterVideo(c)
      PROVE  VideoInv'
    <2>1. UNCHANGED <<sv, todo, fallback>>
        BY <1>12 DEF UnregisterVideo
    <2>2. VideoShape' /\ OneFeed'
        BY <1>0, <1>12, <2>1 DEF UnregisterVideo, VideoShape, OneFeed
    <2>3. NotifiesMembers'
      <3>1. VideoProceed(c)
        BY <1>12 DEF VideoProceed
      <3> QED BY <1>0, <2>1, <3>1, MembersHeld DEF NotifiesMembers
    <2> QED BY <2>2, <2>3 DEF VideoInv
<1>2. ASSUME UNCHANGED videoVars,
             \/ \E c \in Clients : VideoProceed(c) \/ Operation(c)
             \/ \E ch \in Channels, h \in Handles : LeaveRun(ch, h)
      PROVE  VideoInv'
    <2>1. VideoShape' /\ OneFeed'
        BY <1>0, <1>2 DEF videoVars, VideoShape, OneFeed
    <2>2. NotifiesMembers'
        BY <1>0, <1>2, MembersHeld DEF videoVars, NotifiesMembers
    <2> QED BY <2>1, <2>2 DEF VideoInv
<1>3. ASSUME NEW ch \in Channels, NEW h \in Handles, Inner(ch, h)
      PROVE  VideoInv'
    <2>1. UNCHANGED <<todo, notice, screen, notifying, members>>
        BY <1>3 DEF Inner, ReadChannelID, StillLive, ProbeTick, ProbeFails, ProbeSucceeds,
           PrimaryCloses, FallbackExit, vars, gors, index
    <2>2. VideoShape'
        <3>1. sv' = sv \/ \E to \in SvState : sv' = [sv EXCEPT ![ch][h] = to]
            BY <1>3 DEF Inner, ReadChannelID, StillLive, ProbeTick, ProbeFails, ProbeSucceeds,
               PrimaryCloses, FallbackExit, Step, SvState
        <3>2. \/ fallback' = fallback
              \/ \E f \in {"off", "on", "cancelled"} :
                    fallback' = [fallback EXCEPT ![ch][h] = f]
            BY <1>0, <1>3 DEF Inner, ReadChannelID, StillLive, ProbeTick, ProbeFails,
               ProbeSucceeds, PrimaryCloses, FallbackExit, CancelFallback, VideoShape
        <3>3. sv' \in [Channels -> [Handles -> SvState]]
            BY <1>0, <3>1, EntrySet, Zenon DEF VideoShape
        <3>4. fallback' \in [Channels -> [Handles -> {"off", "on", "cancelled"}]]
            BY <1>0, <3>2, EntrySet, Zenon DEF VideoShape
        <3> QED BY <1>0, <2>1, <3>3, <3>4 DEF VideoShape
    <2>3. OneFeed'
        BY <1>0, <1>3 DEF Inner, ReadChannelID, StillLive, ProbeTick, ProbeFails,
           ProbeSucceeds, PrimaryCloses, FallbackExit, Step, CancelFallback, VideoShape,
           SvState, OneFeed
    <2>4. NotifiesMembers'
        BY <1>0, <2>1 DEF NotifiesMembers
    <2> QED BY <2>2, <2>3, <2>4 DEF VideoInv
<1>4. ASSUME NEW ch \in Channels, NEW h \in Handles, PrimaryFrame(ch, h) \/ FallbackFrame(ch, h)
      PROVE  VideoInv'
    <2>1. UNCHANGED <<sv, todo, fallback, notice, notifying, members>>
        BY <1>4 DEF PrimaryFrame, FallbackFrame, vars, gors, index
    <2>2. screen' \in [Clients -> Frame \cup {Blank}]
        BY <1>0, <1>4 DEF PrimaryFrame, FallbackFrame, Fanout, VideoShape, Frame
    <2> QED BY <1>0, <2>1, <2>2 DEF VideoInv, VideoShape, OneFeed, NotifiesMembers
<1>5. ASSUME NEW ch \in Channels, NEW h \in Handles, BeginNotify(ch, h)
      PROVE  VideoInv'
    <2>1. /\ UNCHANGED <<sv, fallback, notice, screen, members>>
          /\ notifying' = [notifying EXCEPT ![ch] = @ \cup {h}]
          /\ todo' = [todo EXCEPT ![ch][h] = members[ch]]
        BY <1>5 DEF BeginNotify, NotifyBegin, index
    <2>2. VideoShape' /\ OneFeed'
        BY <1>0, <2>1 DEF TypeOK, VideoShape, OneFeed
    <2>3. NotifiesMembers'
        BY <1>0, <2>1 DEF TypeOK, VideoShape, NotifiesMembers
    <2> QED BY <2>2, <2>3 DEF VideoInv
<1>6. ASSUME NEW ch \in Channels, NEW h \in Handles, NEW c \in Clients, NotifyClient(ch, h, c)
      PROVE  VideoInv'
    <2>1. /\ UNCHANGED <<sv, fallback, screen, notifying, members>>
          /\ todo' = [todo EXCEPT ![ch][h] = @ \ {c}]
        BY <1>6 DEF NotifyClient, vars, gors, index
    <2>2. notice' \in [Clients -> Update \cup {Blank}]
        BY <1>0, <1>6 DEF NotifyClient, VideoShape, Update
    <2>3. VideoShape' /\ OneFeed'
        BY <1>0, <2>1, <2>2 DEF VideoShape, OneFeed
    <2>4. NotifiesMembers'
        BY <1>0, <2>1 DEF VideoShape, NotifiesMembers
    <2> QED BY <2>3, <2>4 DEF VideoInv
<1>7. ASSUME NEW ch \in Channels, NEW h \in Handles, EndNotify(ch, h)
      PROVE  VideoInv'
    <2>1. /\ UNCHANGED <<todo, notice, screen, members>>
          /\ notifying' = [notifying EXCEPT ![ch] = @ \ {h}]
          /\ todo[ch][h] = {}
        BY <1>7 DEF EndNotify, NotifyEnd, index
    <2>2. VideoShape'
        <3>1. \E to \in SvState : sv' = [sv EXCEPT ![ch][h] = to]
            BY <1>7 DEF EndNotify, Step, SvState
        <3>2. \/ fallback' = fallback
              \/ \E f \in {"off", "on", "cancelled"} :
                    fallback' = [fallback EXCEPT ![ch][h] = f]
            BY <1>7 DEF EndNotify
        <3>3. sv' \in [Channels -> [Handles -> SvState]]
            BY <1>0, <3>1, EntrySet, Zenon DEF VideoShape
        <3>4. fallback' \in [Channels -> [Handles -> {"off", "on", "cancelled"}]]
            BY <1>0, <3>2, EntrySet, Zenon DEF VideoShape
        <3> QED BY <1>0, <2>1, <3>3, <3>4 DEF VideoShape
    <2>3. OneFeed'
        <3>1. CASE sv[ch][h] = "down"
            <4>1. /\ sv' = [sv EXCEPT ![ch][h] = "wait"]
                  /\ fallback' = [fallback EXCEPT ![ch][h] = "on"]
                BY <1>7, <3>1 DEF EndNotify, Step
            <4> QED BY <1>0, <4>1 DEF VideoShape, OneFeed
        <3>2. CASE sv[ch][h] # "down"
            <4>1. /\ sv[ch][h] = "up" /\ sv' = [sv EXCEPT ![ch][h] = "pump"]
                  /\ fallback' = fallback
                BY <1>7, <3>2 DEF EndNotify, Step
            <4> QED BY <1>0, <4>1 DEF VideoShape, OneFeed
        <3> QED BY <3>1, <3>2
    <2>4. NotifiesMembers'
        BY <1>0, <2>1 DEF TypeOK, NotifiesMembers
    <2> QED BY <2>2, <2>3, <2>4 DEF VideoInv
<1>8. ASSUME NEW ch \in Channels, NEW h \in Handles, SuperviseReturns(ch, h)
      PROVE  VideoInv'
    <2>1. UNCHANGED <<todo, notice, screen, members, notifying>>
        BY <1>8 DEF SuperviseReturns, SuperviseExit, index
    <2>2. VideoShape'
        BY <1>0, <1>8, <2>1 DEF SuperviseReturns, CancelFallback, VideoShape, SvState
    <2>3. OneFeed'
        BY <1>0, <1>8 DEF SuperviseReturns, CancelFallback, VideoShape, OneFeed
    <2>4. NotifiesMembers'
        BY <1>0, <2>1 DEF NotifiesMembers
    <2> QED BY <2>2, <2>3, <2>4 DEF VideoInv
<1>9. CASE UNCHANGED allVars
    <2>1. UNCHANGED <<videoVars, notifying, members>>
        BY <1>9 DEF allVars, vars, gors, index
    <2> QED BY <1>0, <2>1 DEF videoVars, VideoInv, VideoShape, OneFeed, NotifiesMembers
<1>10. ASSUME NEW c \in Clients, Operation(c) PROVE UNCHANGED videoVars
    BY <1>10 DEF Operation
<1>11. ASSUME NEW ch \in Channels, NEW h \in Handles, LeaveRun(ch, h) PROVE UNCHANGED videoVars
    BY <1>11 DEF LeaveRun
<1> QED BY <1>1, <1>2, <1>3, <1>4, <1>5, <1>6, <1>7, <1>8, <1>9, <1>10, <1>11, <1>12, VideoCases

\* The invariant of supervision, with that of Application beneath it.
THEOREM VideoInvariance == VideoSpec => [](IndInv /\ VideoInv)
<1>1. VideoInit => IndInv /\ VideoInv
    BY InitInd DEF VideoInit, VideoInv, VideoShape, SvState, OneFeed, NotifiesMembers
<1>2. IndInv /\ VideoInv /\ [VideoNext]_allVars => (IndInv /\ VideoInv)'
    BY StepInd, VideoStepIsNext, VideoStepInv
<1> QED BY <1>1, <1>2, PTL DEF VideoSpec

\* A Channel's incarnation shows its Clients one source: the fallback pump is
\* cancelled before the primary is pumped again and when the supervisor goes.
THEOREM FeedsFromOne == VideoSpec => []OneFeed
<1>1. VideoInv => OneFeed
    BY DEF VideoInv
<1> QED BY <1>1, VideoInvariance, PTL

\* What a Client got since it was registered, it got of a Channel that still has
\* it in its fan-out set.
Got(seen) == \A c \in Clients : seen[c] # Blank => c \in members[seen[c].of]

GotOfMine == Got(screen) /\ Got(notice)

\* A step that sends nothing and takes nobody out of a fan-out set.
LEMMA NothingSent ==
    ASSUME VideoShape, GotOfMine, UNCHANGED <<screen, notice>>,
           \A ch \in Channels : members[ch] \subseteq members'[ch]
    PROVE  GotOfMine'
<1>1. \A c \in Clients : screen[c] # Blank => screen[c].of \in Channels
    BY DEF VideoShape, Frame
<1>2. \A c \in Clients : notice[c] # Blank => notice[c].of \in Channels
    BY DEF VideoShape, Update
<1> QED BY <1>1, <1>2 DEF GotOfMine, Got

LEMMA GotStep == IndInv /\ VideoInv /\ GotOfMine /\ [VideoNext]_allVars => GotOfMine'
<1> SUFFICES ASSUME IndInv, VideoInv, GotOfMine, [VideoNext]_allVars PROVE GotOfMine'
    OBVIOUS
<1>0. TypeOK /\ VideoShape /\ NotifiesMembers
    BY DEF IndInv, VideoInv
<1>1. ASSUME NEW c \in Clients, AttachVideo(c) PROVE GotOfMine'
    BY <1>0, <1>1, NothingSent DEF AttachVideo, Attach
<1>2. ASSUME NEW c \in Clients, UnregisterVideo(c) PROVE GotOfMine'
  <2>1. /\ \A d \in Clients : notice'[d] = IF d = c THEN Blank ELSE notice[d]
        /\ \A d \in Clients : screen'[d] = IF d = c THEN Blank ELSE screen[d]
    BY <1>0, <1>2 DEF UnregisterVideo, VideoShape
  <2>2. \A ch \in Channels, d \in Clients \ {c} : d \in members[ch] => d \in members'[ch]
    BY <1>0, <1>2 DEF UnregisterVideo, UnregisterClient, TypeOK
  <2>3. \A d \in Clients : screen[d] # Blank => screen[d].of \in Channels
    BY <1>0 DEF VideoShape, Frame
  <2>4. \A d \in Clients : notice[d] # Blank => notice[d].of \in Channels
    BY <1>0 DEF VideoShape, Update
  <2> QED BY <2>1, <2>2, <2>3, <2>4 DEF GotOfMine, Got
<1>3. ASSUME NEW ch \in Channels, NEW h \in Handles, PrimaryFrame(ch, h) \/ FallbackFrame(ch, h)
      PROVE  GotOfMine'
  <2>1. UNCHANGED <<notice, members>>
    BY <1>3 DEF PrimaryFrame, FallbackFrame, vars, index
  <2>2. \A c \in Clients : screen'[c] = screen[c] \/ (c \in members[ch] /\ screen'[c].of = ch)
    BY <1>3 DEF PrimaryFrame, FallbackFrame, Fanout
  <2> QED BY <2>1, <2>2 DEF GotOfMine, Got
<1>4. ASSUME NEW ch \in Channels, NEW h \in Handles, NEW c \in Clients, NotifyClient(ch, h, c)
      PROVE  GotOfMine'
  <2>1. UNCHANGED <<screen, members>> /\ c \in members[ch]
    BY <1>0, <1>4 DEF NotifyClient, NotifiesMembers, vars, index
  <2>2. \A d \in Clients : notice'[d] = notice[d] \/ (d = c /\ notice'[d].of = ch)
    BY <1>0, <1>4 DEF NotifyClient, VideoShape
  <2> QED BY <2>1, <2>2 DEF GotOfMine, Got
<1>5. ASSUME NEW ch \in Channels, NEW h \in Handles,
             \/ Inner(ch, h) \/ BeginNotify(ch, h) \/ EndNotify(ch, h)
             \/ SuperviseReturns(ch, h) \/ LeaveRun(ch, h)
      PROVE  GotOfMine'
  <2>1. UNCHANGED <<screen, notice>>
    BY <1>5 DEF Inner, ReadChannelID, StillLive, ProbeTick, ProbeFails, ProbeSucceeds,
       PrimaryCloses, FallbackExit, BeginNotify, EndNotify, SuperviseReturns, LeaveRun, videoVars
  <2>2. UNCHANGED members
    BY <1>5 DEF Inner, ReadChannelID, StillLive, ProbeTick, ProbeFails, ProbeSucceeds,
       PrimaryCloses, FallbackExit, BeginNotify, EndNotify, SuperviseReturns, LeaveRun,
       NotifyBegin, NotifyEnd, SuperviseExit, RunExit, vars, index
  <2> QED BY <1>0, <2>1, <2>2, NothingSent
<1>6. ASSUME NEW c \in Clients, (VideoProceed(c) /\ UNCHANGED videoVars) \/ Operation(c)
      PROVE  GotOfMine'
  <2>1. UNCHANGED <<screen, notice>>
    BY <1>6 DEF Operation, videoVars
  <2>2. CASE UnregisterVideo(c)
    BY <1>2, <2>2
  <2>3. CASE ~UnregisterVideo(c)
    <3>1. \A ch \in Channels : members[ch] \subseteq members'[ch]
      BY <1>0, <1>6, <2>3 DEF TypeOK, VideoProceed, AttachVideo, Attach, Operation, AddClient,
         RemoveClient, SwitchChannel, LockChannel, Detach, DetachTo, RegisterClient,
         ResumePump, Forget, EmitMJPEGURL, index
    <3> QED BY <1>0, <2>1, <3>1, NothingSent
  <2> QED BY <2>2, <2>3
<1>7. CASE UNCHANGED allVars
  <2>1. UNCHANGED <<screen, notice, members>>
    BY <1>7 DEF allVars, videoVars, vars, index
  <2> QED BY <1>0, <2>1, NothingSent
<1> QED BY <1>1, <1>2, <1>3, <1>4, <1>5, <1>6, <1>7, VideoCases

\* What reaches a Client is of the Channel it is registered with and attached to,
\* for any number of Channels, also from goroutines cancelled and not awaited.
THEOREM MembersOnly == VideoSpec => []OnlyMembersReached
<1>1. VideoInit => GotOfMine
    BY DEF VideoInit, GotOfMine, Got
<1>2. VideoSpec => []GotOfMine
    BY <1>1, GotStep, VideoInvariance, PTL DEF VideoSpec
<1>3. IndInv /\ VideoInv /\ GotOfMine => OnlyMembersReached
  <2> SUFFICES ASSUME IndInv, VideoInv, GotOfMine, NEW c \in Clients,
                      NEW got \in {screen[c], notice[c]} \ {Blank}
               PROVE  c \in members[got.of] /\ clientChan[c] = got.of
      BY DEF OnlyMembersReached
  <2>1. got.of \in Channels
    BY DEF VideoInv, VideoShape, Frame, Update
  <2>2. c \in members[got.of]
    BY DEF GotOfMine, Got
  <2> QED BY <2>1, <2>2 DEF IndInv, FanoutSets
<1> QED BY <1>2, <1>3, VideoInvariance, PTL

\* Supervision only adds to Application: its goroutines, notices and probes take
\* no step on the indexes that Application would not, so the registry is
\* implemented under every outage and recovery.
THEOREM SupervisionImplements == VideoSpec => Spec /\ ImplementsRegistry
<1>1. VideoInit => Init
    BY DEF VideoInit
<1>2. VideoSpec => Spec
    BY <1>1, VideoStepIsNext, PTL DEF VideoSpec, Spec
<1> QED BY <1>2, Refinement
=============================================================================
