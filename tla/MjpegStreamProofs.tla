-------------------------- MODULE MjpegStreamProofs --------------------------
(***************************************************************************)
(* The ffmpeg supervisor and its subscriptions, for every set of           *)
(* subscriptions and supervisors: no panic, one supervisor, no late        *)
(* subscriber, and the steps of a VideoSource.                             *)
(***************************************************************************)
EXTENDS MjpegStream, TLAPS

\* A frame channel is in one hand at a time: in the map, in the old map of one
\* supervisor, or closed; and only while its subscription lasts.
OneHand ==
    /\ subscribers \cap closed = {}
    /\ \A p \in Sups : toClose[p] \cap (subscribers \cup closed) = {}
    /\ \A p \in Sups : toClose[p] # {} => sup[p] \in {"closing", "exitClosing"}
    /\ \A s \in subscribers : sub[s] = "live"
    /\ \A s \in Subs : sub[s] \in {"none", "waiting"} =>
          s \notin closed /\ \A p \in Sups : s \notin toClose[p]
    /\ \A s \in Subs : sub[s] = "over" => s \in cancelled

\* A supervisor is told to stop when the last subscriber left, or by Close.
ToldToStop ==
    /\ stopping => subscribers = {} /\ supervised
    /\ \A p \in stopCall : sup[p] # "none" => stopping
    /\ \A p \in supCancelled : sup[p] # "none" /\ (stopping \/ closing = p)
    /\ \A p \in Sups : sup[p] \in {"exit", "exitClosing", "final"} => p \in supCancelled
    /\ owner = Nil <=> ~supervised
    /\ closer # "idle" => closing \in Sups

StreamInv ==
    /\ StreamTypeOK
    /\ NoPanic
    /\ OneSupervisor
    /\ OneHand
    /\ ToldToStop

-----------------------------------------------------------------------------
LEMMA StreamInitInv == StreamInit => StreamInv
BY StreamConstants DEF StreamInit, StreamInv, StreamTypeOK, NoPanic, OneSupervisor,
   OneHand, ToldToStop, SubState, SupState

\* The body of Subscribe, run by a subscription that has not entered yet.
LEMMA EnterInv ==
    ASSUME NEW s \in Subs, StreamInv, sub[s] \in {"none", "waiting"}, Enter(s)
    PROVE  StreamInv'
<1> USE StreamConstants DEF StreamInv, StreamTypeOK, SubState, SupState
<1>1. CASE supervised
    <2>1. StreamTypeOK' /\ NoPanic' /\ OneSupervisor'
        BY <1>1 DEF Enter, NoPanic, OneSupervisor
    <2>2. OneHand'
        BY <1>1 DEF Enter, OneHand
    <2>3. ToldToStop'
        BY <1>1 DEF Enter, ToldToStop
    <2> QED BY <2>1, <2>2, <2>3
<1>2. CASE ~supervised
    <2>1. PICK p \in Sups :
             /\ sup[p] = "none" /\ p \notin stopCall /\ p # closing
             /\ supervised' = TRUE
             /\ owner' = p
             /\ sup' = [sup EXCEPT ![p] = "run"]
        BY <1>2 DEF Enter
    <2>2. /\ sub' = [sub EXCEPT ![s] = "live"]
          /\ subscribers' = subscribers \cup {s}
          /\ ~stopping
          /\ UNCHANGED <<cancelled, closed, stopping, supCancelled, toClose,
                         stopCall, closer, closing, broken>>
        BY DEF Enter
    <2>3. StreamTypeOK' /\ NoPanic'
        BY <2>1, <2>2 DEF NoPanic
    <2>4. OneSupervisor'
        BY <1>2, <2>1, <2>2 DEF OneSupervisor
    <2>5. OneHand'
        BY <2>1, <2>2 DEF OneHand
    <2>6. ToldToStop'
        BY <1>2, <2>1, <2>2 DEF ToldToStop
    <2> QED BY <2>3, <2>4, <2>5, <2>6
<1> QED BY <1>1, <1>2

\* The steps of subscriptions.
LEMMA SubscriptionInv ==
    ASSUME NEW s \in Subs, StreamInv,
           \/ Subscribe(s) \/ SubscribeResumes(s) \/ CancelCtx(s)
           \/ Unsubscribe(s) \/ Recycle(s)
    PROVE  StreamInv'
<1> USE StreamConstants DEF StreamInv, StreamTypeOK, SubState, SupState
<1>1. CASE Subscribe(s)
    <2>1. CASE Enter(s)
        BY <1>1, <2>1, EnterInv DEF Subscribe
    <2>2. CASE sub[s] = "none" /\ ~Enter(s)
        <3>1. /\ sub' = [sub EXCEPT ![s] = "waiting"]
              /\ UNCHANGED <<cancelled, subscribers, closed, supervised, stopping, owner,
                             sup, supCancelled, toClose, stopCall, closer, closing, broken>>
            BY <1>1, <2>2 DEF Subscribe
        <3>2. StreamTypeOK' /\ NoPanic' /\ OneSupervisor' /\ ToldToStop'
            BY <3>1 DEF NoPanic, OneSupervisor, ToldToStop
        <3>3. OneHand'
            BY <2>2, <3>1 DEF OneHand
        <3> QED BY <3>2, <3>3
    <2> QED BY <1>1, <2>1, <2>2 DEF Subscribe
<1>2. CASE SubscribeResumes(s)
    BY <1>2, EnterInv DEF SubscribeResumes
<1>3. CASE CancelCtx(s)
    <2>1. StreamTypeOK' /\ NoPanic' /\ OneSupervisor' /\ ToldToStop'
        BY <1>3 DEF CancelCtx, NoPanic, OneSupervisor, ToldToStop
    <2>2. OneHand'
        BY <1>3 DEF CancelCtx, OneHand
    <2> QED BY <2>1, <2>2
<1>4. CASE Unsubscribe(s)
    <2>1. StreamTypeOK'
        BY <1>4 DEF Unsubscribe, CloseChan, ToldToStop
    <2>2. NoPanic' /\ OneSupervisor'
        BY <1>4 DEF Unsubscribe, CloseChan, NoPanic, OneSupervisor, OneHand
    <2>3. OneHand'
        BY <1>4 DEF Unsubscribe, CloseChan, OneHand
    <2>4. ToldToStop'
        BY <1>4 DEF Unsubscribe, ToldToStop, OneSupervisor
    <2> QED BY <2>1, <2>2, <2>3, <2>4
<1>5. CASE Recycle(s)
    <2>1. StreamTypeOK' /\ NoPanic' /\ OneSupervisor' /\ ToldToStop'
        BY <1>5 DEF Recycle, NoPanic, OneSupervisor, ToldToStop
    <2>2. OneHand'
        BY <1>5 DEF Recycle, OneHand
    <2> QED BY <2>1, <2>2
<1> QED BY <1>1, <1>2, <1>3, <1>4, <1>5

\* The steps of supervisors, and the stop function called on them.
LEMMA SupervisorInv ==
    ASSUME NEW p \in Sups, StreamInv,
           CallStop(p) \/ Broadcast(p) \/ SupStep(p) \/ RetryCancelled(p)
    PROVE  StreamInv'
<1> USE StreamConstants DEF StreamInv, StreamTypeOK, SubState, SupState
<1>1. CASE CallStop(p)
    BY <1>1 DEF CallStop, CancelSupervisor, NoPanic, OneSupervisor, OneHand, ToldToStop
<1>2. CASE Broadcast(p)
    BY <1>2 DEF Broadcast, NoPanic, OneSupervisor, OneHand, ToldToStop
<1>3. CASE RunOnceEnds(p)
    BY <1>3 DEF RunOnceEnds, GoSup, NoPanic, OneSupervisor, OneHand, ToldToStop
<1>4. CASE SwapSubscribers(p)
    <2>1. StreamTypeOK' /\ NoPanic' /\ OneSupervisor'
        BY <1>4 DEF SwapSubscribers, GoSup, NoPanic, OneSupervisor
    <2>2. OneHand'
        BY <1>4 DEF SwapSubscribers, GoSup, OneHand
    <2>3. ToldToStop'
        BY <1>4 DEF SwapSubscribers, GoSup, ToldToStop
    <2> QED BY <2>1, <2>2, <2>3
<1>5. ASSUME NEW s \in Subs, CloseOne(p, s) PROVE StreamInv'
    <2>1. StreamTypeOK' /\ OneSupervisor' /\ ToldToStop'
        BY <1>5 DEF CloseOne, CloseChan, OneSupervisor, ToldToStop
    <2>2. NoPanic'
        BY <1>5 DEF CloseOne, CloseChan, NoPanic, OneHand
    <2>3. \A q \in Sups : q # p => toClose[q] = {}
        BY <1>5 DEF CloseOne, OneHand, OneSupervisor
    <2>4. OneHand'
        BY <1>5, <2>3 DEF CloseOne, CloseChan, OneHand
    <2> QED BY <2>1, <2>2, <2>4
<1>6. CASE AllClosed(p)
    BY <1>6 DEF AllClosed, GoSup, NoPanic, OneSupervisor, OneHand, ToldToStop
<1>7. CASE RetryElapses(p) \/ RetryCancelled(p)
    BY <1>7 DEF RetryElapses, RetryCancelled, GoSup, NoPanic, OneSupervisor, OneHand, ToldToStop
<1>8. CASE SuperviseEnds(p)
    <2>1. StreamTypeOK' /\ NoPanic'
        BY <1>8 DEF SuperviseEnds, GoSup, NoPanic
    <2>2. OneSupervisor' /\ OneHand'
        BY <1>8 DEF SuperviseEnds, GoSup, OneSupervisor, OneHand
    <2>3. ToldToStop'
        BY <1>8 DEF SuperviseEnds, GoSup, OneSupervisor, ToldToStop
    <2> QED BY <2>1, <2>2, <2>3
<1> QED BY <1>1, <1>2, <1>3, <1>4, <1>5, <1>6, <1>7, <1>8 DEF SupStep

\* The steps of Close.
LEMMA CloseInv ==
    ASSUME StreamInv, CloseBegin \/ CloseCancel \/ CloseReturns
    PROVE  StreamInv'
<1> USE StreamConstants DEF StreamInv, StreamTypeOK, SubState, SupState
<1>1. CASE CloseBegin
    BY <1>1 DEF CloseBegin, NoPanic, OneSupervisor, OneHand, ToldToStop
<1>2. CASE CloseCancel
    BY <1>2 DEF CloseCancel, CancelSupervisor, NoPanic, OneSupervisor, OneHand, ToldToStop
<1>3. CASE CloseReturns
    BY <1>3 DEF CloseReturns, NoPanic, OneSupervisor, OneHand, ToldToStop
<1> QED BY <1>1, <1>2, <1>3

LEMMA StreamStepInv == StreamInv /\ [StreamNext]_streamVars => StreamInv'
<1> SUFFICES ASSUME StreamInv, [StreamNext]_streamVars PROVE StreamInv'
    OBVIOUS
<1>1. CASE StreamNext
    BY <1>1, SubscriptionInv, SupervisorInv, CloseInv DEF StreamNext
<1>2. CASE UNCHANGED streamVars
    BY <1>2 DEF streamVars, StreamInv, StreamTypeOK, NoPanic, OneSupervisor, OneHand, ToldToStop
<1> QED BY <1>1, <1>2

-----------------------------------------------------------------------------
\* The invariant of MJPEGStream: who holds each frame channel, and why a
\* supervisor may be on its way out.
THEOREM StreamInvariance == StreamSpec => []StreamInv
<1>1. StreamInit => StreamInv
    BY StreamInitInv
<1>2. StreamInv /\ [StreamNext]_streamVars => StreamInv'
    BY StreamStepInv
<1> QED BY <1>1, <1>2, PTL DEF StreamSpec

\* The variables have their types.
THEOREM StreamTypes == StreamSpec => []StreamTypeOK
<1>1. StreamInv => StreamTypeOK
    BY DEF StreamInv
<1> QED BY <1>1, StreamInvariance, PTL

\* Unsubscribe, a failure and the exit between them close each frame channel
\* once, and broadcast never sends to one that is closed.
THEOREM StreamNoPanic == StreamSpec => []NoPanic
<1>1. StreamInv => NoPanic
    BY DEF StreamInv
<1> QED BY <1>1, StreamInvariance, PTL

\* The device is opened by one ffmpeg at a time, however Subscribe,
\* unsubscribe, Close and the supervisor's exit interleave.
THEOREM OneFfmpeg == StreamSpec => []OneSupervisor
<1>1. StreamInv => OneSupervisor
    BY DEF StreamInv
<1> QED BY <1>1, StreamInvariance, PTL

\* Only Close may catch a subscriber with a supervisor that is leaving: the
\* last unsubscribe sets stopping in the section that empties the map, and
\* Subscribe waits while it is set.
THEOREM NobodyIsLate == StreamSpec => []NoLateSubscriber
<1>1. StreamInv => NoLateSubscriber
    BY DEF StreamInv, ToldToStop, NoLateSubscriber
<1> QED BY <1>1, StreamInvariance, PTL

-----------------------------------------------------------------------------
(* What a subscriber sees is what VideoSource allows it to see.            *)

LEMMA SourceInit == StreamInit => Source!Init
BY DEF StreamInit, Source!Init, FeedBar

\* Entering answers the subscription, at once or after a wait.
LEMMA EnterAnswers ==
    ASSUME NEW s \in Subs, StreamInv, sub[s] \in {"none", "waiting"}, Enter(s)
    PROVE  Source!Next
<1>1. FeedBar' = [FeedBar EXCEPT ![s] = "open"] /\ UNCHANGED cancelled
    BY DEF Enter, FeedBar, StreamInv, StreamTypeOK, OneHand
<1>2. CASE sub[s] = "none"
    BY <1>1, <1>2 DEF FeedBar, Source!Ask, Source!Next
<1>3. CASE sub[s] = "waiting"
    BY <1>1, <1>3 DEF FeedBar, Source!Answer, Source!Next
<1> QED BY <1>2, <1>3

LEMMA SourceStep ==
    StreamInv /\ [StreamNext]_streamVars => [Source!Next]_<<FeedBar, cancelled>>
<1> SUFFICES ASSUME StreamInv, [StreamNext]_streamVars
             PROVE  Source!Next \/ UNCHANGED <<FeedBar, cancelled>>
    OBVIOUS
<1> USE DEF StreamInv
<1>1. ASSUME NEW s \in Subs, Subscribe(s) \/ SubscribeResumes(s)
      PROVE  Source!Next
    <2>1. CASE Enter(s)
        BY <1>1, <2>1, EnterAnswers DEF Subscribe, SubscribeResumes
    <2>2. CASE ~Enter(s)
        <3>1. /\ sub[s] = "none" /\ sub' = [sub EXCEPT ![s] = "waiting"]
              /\ UNCHANGED <<cancelled, closed>>
            BY <1>1, <2>2 DEF Subscribe, SubscribeResumes
        <3>2. FeedBar' = [FeedBar EXCEPT ![s] = "asked"] /\ FeedBar[s] = "none"
            BY <3>1 DEF FeedBar, StreamTypeOK
        <3> QED BY <3>1, <3>2 DEF Source!Ask, Source!Next
    <2> QED BY <2>1, <2>2
<1>2. ASSUME NEW s \in Subs, CancelCtx(s)
      PROVE  Source!Next
    <2>1. FeedBar' = FeedBar /\ FeedBar[s] # "none"
        BY <1>2 DEF CancelCtx, FeedBar
    <2> QED BY <1>2, <2>1 DEF CancelCtx, Source!Cancel, Source!Next
<1>3. ASSUME NEW s \in Subs, Unsubscribe(s)
      PROVE  Source!Next \/ UNCHANGED <<FeedBar, cancelled>>
    <2>1. CASE s \in subscribers
        <3>1. s \notin closed
            BY <2>1 DEF OneHand
        <3>2. FeedBar' = [FeedBar EXCEPT ![s] = "closed"] /\ FeedBar[s] = "open"
            BY <1>3, <2>1, <3>1 DEF Unsubscribe, CloseChan, FeedBar, StreamTypeOK
        <3>3. UNCHANGED cancelled
            BY <1>3 DEF Unsubscribe
        <3> QED BY <3>2, <3>3 DEF Source!Close, Source!Next
    <2>2. CASE s \notin subscribers
        BY <1>3, <2>2 DEF Unsubscribe, FeedBar, StreamTypeOK
    <2> QED BY <2>1, <2>2
<1>4. ASSUME NEW s \in Subs, Recycle(s)
      PROVE  Source!Next
    <2>1. FeedBar' = [FeedBar EXCEPT ![s] = "none"] /\ FeedBar[s] = "closed"
        BY <1>4 DEF Recycle, FeedBar, StreamTypeOK
    <2> QED BY <1>4, <2>1 DEF Recycle, OneHand, Source!Forget, Source!Next
<1>5. ASSUME NEW p \in Sups, NEW s \in Subs, CloseOne(p, s)
      PROVE  Source!Next
    <2>1. s \notin closed /\ sub[s] \in {"live", "over"}
        BY <1>5 DEF CloseOne, OneHand, StreamTypeOK, SubState
    <2>2. FeedBar' = [FeedBar EXCEPT ![s] = "closed"] /\ FeedBar[s] = "open"
        BY <1>5, <2>1 DEF CloseOne, CloseChan, FeedBar, StreamTypeOK
    <2>3. UNCHANGED cancelled
        BY <1>5 DEF CloseOne
    <2> QED BY <2>2, <2>3 DEF Source!Close, Source!Next
<1>6. ASSUME NEW p \in Sups,
             \/ CallStop(p) \/ Broadcast(p) \/ RunOnceEnds(p) \/ SwapSubscribers(p)
             \/ AllClosed(p) \/ RetryElapses(p) \/ RetryCancelled(p) \/ SuperviseEnds(p)
      PROVE  UNCHANGED <<FeedBar, cancelled>>
    <2>1. UNCHANGED <<sub, cancelled, closed>>
        BY <1>6 DEF CallStop, Broadcast, RunOnceEnds, SwapSubscribers, AllClosed,
           RetryElapses, RetryCancelled, SuperviseEnds
    <2> QED BY <2>1 DEF FeedBar
<1>7. CASE CloseBegin \/ CloseCancel \/ CloseReturns \/ UNCHANGED streamVars
    <2>1. UNCHANGED <<sub, cancelled, closed>>
        BY <1>7 DEF CloseBegin, CloseCancel, CloseReturns, streamVars
    <2> QED BY <2>1 DEF FeedBar
<1> QED BY <1>1, <1>2, <1>3, <1>4, <1>5, <1>6, <1>7 DEF StreamNext, SupStep

\* MJPEGStream takes only the steps of a VideoSource: Subscribe's answer is an
\* open channel, each channel closes once and for its own subscription, and
\* nothing of a subscription is left that outlives its cancelled context.
THEOREM StreamIsASource == StreamSpec => Source!Spec
<1>1. StreamInit => Source!Init
    BY SourceInit
<1>2. StreamInv /\ [StreamNext]_streamVars => [Source!Next]_<<FeedBar, cancelled>>
    BY SourceStep
<1> QED BY <1>1, <1>2, StreamInvariance, PTL DEF StreamSpec, Source!Spec, Source!sourceVars
=============================================================================
