---------------------------- MODULE MjpegStream ----------------------------
(***************************************************************************)
(* v4l.MJPEGStream (server/internal/v4l/v4l.go): one supervisor goroutine  *)
(* keeps an ffmpeg process running for any number of subscriptions.        *)
(*                                                                         *)
(* A subscription is one call of Subscribe, with the frame channel it      *)
(* returns and the goroutine it leaves behind to unsubscribe once its      *)
(* context ends.  What is split into steps is what s.mu does not cover:    *)
(* the wait for a stopping supervisor, the stop function called after      *)
(* unlock, and the channels closed after closeAllSubscribers swapped the   *)
(* map.  A close of a closed channel or a send on one is a panic in Go;    *)
(* both are recorded in broken.                                            *)
(***************************************************************************)
CONSTANTS
    Subs,        \* subscriptions; one is reused once nothing of it is left
    Sups,        \* supervisor goroutines with their context
    Nil,         \* no supervisor (stopFn and supDone are nil)
    MayClose     \* whether somebody calls Close (cmd/v4l-grab does, the
                 \* server does not)

ASSUME StreamConstants ==
    /\ Nil \notin Sups
    /\ MayClose \in BOOLEAN

VARIABLES
    sub,         \* sub[s]: what is left of the subscription, see SubState
    cancelled,   \* subscriptions whose ctx is cancelled
    subscribers, \* MJPEGStream.subscribers
    closed,      \* the subscriptions whose frame channel is closed
    supervised,  \* MJPEGStream.supervised
    stopping,    \* MJPEGStream.stopping
    owner,       \* stopFn and supDone: the supervisor they belong to
    sup,         \* sup[p]: where supervisor p is, see SupState
    supCancelled,\* the supervisors whose context is cancelled
    toClose,     \* toClose[p]: channels closeAllSubscribers has yet to close
    stopCall,    \* supervisors whose stop function an unsubscribe will call
    closer,      \* the goroutine in Close: "idle", "cancel" or "wait"
    closing,     \* the supervisor Close read, or Nil
    broken       \* a channel was closed twice, or sent to when closed

streamVars == <<sub, cancelled, subscribers, closed, supervised, stopping, owner,
                sup, supCancelled, toClose, stopCall, closer, closing, broken>>

\* "waiting": in Subscribe, waiting for the supervisor that is stopping;
\* "live": Subscribe has returned, its goroutine waits for the context;
\* "over": that goroutine has run unsubscribe.
SubState == {"none", "waiting", "live", "over"}

\* "run": in runOnce; "failed": about to close all subscribers after an
\* error; "closing" and "exitClosing": closing the channels of the swapped
\* map; "retry": waiting before the next runOnce; "exit": in the deferred
\* function; "final": about to give the supervised flag back.
SupState == {"none", "run", "failed", "closing", "retry", "exit", "exitClosing", "final"}

StreamTypeOK ==
    /\ sub \in [Subs -> SubState]
    /\ cancelled \in SUBSET Subs
    /\ subscribers \in SUBSET Subs
    /\ closed \in SUBSET Subs
    /\ supervised \in BOOLEAN
    /\ stopping \in BOOLEAN
    /\ owner \in Sups \cup {Nil}
    /\ sup \in [Sups -> SupState]
    /\ supCancelled \in SUBSET Sups
    /\ toClose \in [Sups -> SUBSET Subs]
    /\ stopCall \in SUBSET Sups
    /\ closer \in {"idle", "cancel", "wait"}
    /\ closing \in Sups \cup {Nil}
    /\ broken \in BOOLEAN

StreamInit ==
    /\ sub = [s \in Subs |-> "none"]
    /\ cancelled = {}
    /\ subscribers = {}
    /\ closed = {}
    /\ supervised = FALSE
    /\ stopping = FALSE
    /\ owner = Nil
    /\ sup = [p \in Sups |-> "none"]
    /\ supCancelled = {}
    /\ toClose = [p \in Sups |-> {}]
    /\ stopCall = {}
    /\ closer = "idle"
    /\ closing = Nil
    /\ broken = FALSE

-----------------------------------------------------------------------------
(* Subscriptions.                                                          *)

\* Fault: Subscribe does not wait for a supervisor that is stopping.
EnterWhileStopping(s) ==
    /\ sub' = [sub EXCEPT ![s] = "live"]
    /\ subscribers' = subscribers \cup {s}
    /\ IF supervised
         THEN UNCHANGED <<supervised, owner, sup>>
         ELSE \E p \in Sups :
                /\ sup[p] = "none" /\ p \notin stopCall /\ p # closing
                /\ supervised' = TRUE
                /\ owner' = p
                /\ sup' = [sup EXCEPT ![p] = "run"]
    /\ UNCHANGED <<cancelled, closed, stopping, supCancelled, toClose, stopCall,
                   closer, closing, broken>>

\* Fault: every Subscribe starts a supervisor.
EnterAlwaysStarts(s) ==
    /\ ~stopping
    /\ sub' = [sub EXCEPT ![s] = "live"]
    /\ subscribers' = subscribers \cup {s}
    /\ \E p \in Sups :
          /\ sup[p] = "none" /\ p \notin stopCall /\ p # closing
          /\ owner' = p
          /\ sup' = [sup EXCEPT ![p] = "run"]
    /\ supervised' = TRUE
    /\ UNCHANGED <<cancelled, closed, stopping, supCancelled, toClose, stopCall,
                   closer, closing, broken>>

\* The body of Subscribe once s.stopping is false.
Enter(s) ==
    /\ ~stopping
    /\ sub' = [sub EXCEPT ![s] = "live"]
    /\ subscribers' = subscribers \cup {s}
    /\ IF supervised
         THEN UNCHANGED <<supervised, owner, sup>>
         ELSE \E p \in Sups :
                /\ sup[p] = "none" /\ p \notin stopCall /\ p # closing
                /\ supervised' = TRUE
                /\ owner' = p
                /\ sup' = [sup EXCEPT ![p] = "run"]
    /\ UNCHANGED <<cancelled, closed, stopping, supCancelled, toClose,
                   stopCall, closer, closing, broken>>

Subscribe(s) ==
    /\ sub[s] = "none"
    /\ \/ Enter(s)
       \/ /\ stopping
          /\ sub' = [sub EXCEPT ![s] = "waiting"]
          /\ UNCHANGED <<cancelled, subscribers, closed, supervised, stopping, owner,
                         sup, supCancelled, toClose, stopCall, closer, closing, broken>>

\* supDone was closed, and the loop in Subscribe found stopping false.
SubscribeResumes(s) ==
    /\ sub[s] = "waiting"
    /\ Enter(s)

\* The caller cancels the context it subscribed with.
CancelCtx(s) ==
    /\ sub[s] \in {"waiting", "live"}
    /\ s \notin cancelled
    /\ cancelled' = cancelled \cup {s}
    /\ UNCHANGED <<sub, subscribers, closed, supervised, stopping, owner,
                   sup, supCancelled, toClose, stopCall, closer, closing, broken>>

\* close(ch), which panics when ch is closed already.
CloseChan(s) ==
    /\ closed' = closed \cup {s}
    /\ broken' = (broken \/ s \in closed)

\* Fault: unsubscribe closes a channel that is no longer in the map.
UnsubscribeUnchecked(s) ==
    /\ sub[s] = "live"
    /\ s \in cancelled
    /\ sub' = [sub EXCEPT ![s] = "over"]
    /\ subscribers' = subscribers \ {s}
    /\ CloseChan(s)
    /\ UNCHANGED <<cancelled, supervised, stopping, owner, sup, supCancelled, toClose,
                   stopCall, closer, closing>>

\* Fault: the last subscriber stops the supervisor without asking for one.
UnsubscribeStopsNil(s) ==
    /\ sub[s] = "live"
    /\ s \in cancelled
    /\ sub' = [sub EXCEPT ![s] = "over"]
    /\ IF s \in subscribers
         THEN /\ subscribers' = subscribers \ {s}
              /\ CloseChan(s)
              /\ stopCall' = IF subscribers = {s} THEN stopCall \cup {owner} ELSE stopCall
         ELSE UNCHANGED <<subscribers, closed, broken, stopCall>>
    /\ UNCHANGED <<cancelled, supervised, stopping, owner, sup, supCancelled, toClose,
                   closer, closing>>

Unsubscribe(s) ==
    /\ sub[s] = "live"
    /\ s \in cancelled
    /\ sub' = [sub EXCEPT ![s] = "over"]
    /\ IF s \in subscribers
         THEN LET rest == subscribers \ {s}
                  last == rest = {} /\ supervised /\ ~stopping IN
              /\ subscribers' = rest
              /\ CloseChan(s)
              /\ stopping' = (stopping \/ last)
              /\ stopCall' = IF last THEN stopCall \cup {owner} ELSE stopCall
         ELSE UNCHANGED <<subscribers, closed, broken, stopping, stopCall>>
    /\ UNCHANGED <<cancelled, supervised, owner, sup, supCancelled, toClose,
                   closer, closing>>

\* Calling a supervisor's stop function: no effect on one that has ended.
CancelSupervisor(p) ==
    supCancelled' = IF sup[p] = "none" THEN supCancelled ELSE supCancelled \cup {p}

\* Fault: unsubscribe does not call the stop function.
CallStopForgotten(p) ==
    /\ p \in stopCall
    /\ stopCall' = stopCall \ {p}
    /\ UNCHANGED <<sub, cancelled, subscribers, closed, supervised, stopping, owner,
                   sup, supCancelled, toClose, closer, closing, broken>>

\* The stop function, called after unsubscribe released s.mu.
CallStop(p) ==
    /\ p \in stopCall
    /\ stopCall' = stopCall \ {p}
    /\ CancelSupervisor(p)
    /\ UNCHANGED <<sub, cancelled, subscribers, closed, supervised, stopping, owner,
                   sup, toClose, closer, closing, broken>>

\* Nothing holds the subscription any more: the value may stand for a new one.
Recycle(s) ==
    /\ sub[s] = "over"
    /\ s \in closed
    /\ sub' = [sub EXCEPT ![s] = "none"]
    /\ cancelled' = cancelled \ {s}
    /\ closed' = closed \ {s}
    /\ UNCHANGED <<subscribers, supervised, stopping, owner, sup, supCancelled, toClose,
                   stopCall, closer, closing, broken>>

-----------------------------------------------------------------------------
(* The supervisor.                                                         *)

GoSup(p, l) == sup' = [sup EXCEPT ![p] = l]

\* broadcast sends to every subscriber without waiting: a full channel is
\* skipped.  What the frames are, and who reads them, is left out.
Broadcast(p) ==
    /\ sup[p] = "run"
    /\ broken' = (broken \/ subscribers \cap closed # {})
    /\ UNCHANGED <<sub, cancelled, subscribers, closed, supervised, stopping, owner,
                   sup, supCancelled, toClose, stopCall, closer, closing>>

\* runOnce returns: context.Canceled once the context is cancelled, else why
\* ffmpeg ended (end of file, watchdog, failed start).
RunOnceEnds(p) ==
    /\ sup[p] = "run"
    /\ GoSup(p, IF p \in supCancelled THEN "exit" ELSE "failed")
    /\ UNCHANGED <<sub, cancelled, subscribers, closed, supervised, stopping, owner,
                   supCancelled, toClose, stopCall, closer, closing, broken>>

\* closeAllSubscribers swaps the map under s.mu, after a failure or on exit.
SwapSubscribers(p) ==
    /\ sup[p] \in {"failed", "exit"}
    /\ toClose' = [toClose EXCEPT ![p] = subscribers]
    /\ subscribers' = {}
    /\ GoSup(p, IF sup[p] = "failed" THEN "closing" ELSE "exitClosing")
    /\ UNCHANGED <<sub, cancelled, closed, supervised, stopping, owner,
                   supCancelled, stopCall, closer, closing, broken>>

\* and closes the channels of the old map without s.mu.
CloseOne(p, s) ==
    /\ sup[p] \in {"closing", "exitClosing"}
    /\ s \in toClose[p]
    /\ toClose' = [toClose EXCEPT ![p] = @ \ {s}]
    /\ CloseChan(s)
    /\ UNCHANGED <<sub, cancelled, subscribers, supervised, stopping, owner,
                   sup, supCancelled, stopCall, closer, closing>>

\* All are closed: to the ctx.Err check and the retry wait, or to the end of
\* the deferred function.
AllClosed(p) ==
    /\ sup[p] \in {"closing", "exitClosing"}
    /\ toClose[p] = {}
    /\ GoSup(p, IF sup[p] = "exitClosing" THEN "final"
                ELSE IF p \in supCancelled THEN "exit" ELSE "retry")
    /\ UNCHANGED <<sub, cancelled, subscribers, closed, supervised, stopping, owner,
                   supCancelled, toClose, stopCall, closer, closing, broken>>

\* The wait ends: with the next ffmpeg, or because the context is cancelled
\* (when both are ready the select may choose either).
RetryElapses(p) ==
    /\ sup[p] = "retry"
    /\ GoSup(p, "run")
    /\ UNCHANGED <<sub, cancelled, subscribers, closed, supervised, stopping, owner,
                   supCancelled, toClose, stopCall, closer, closing, broken>>

RetryCancelled(p) ==
    /\ sup[p] = "retry"
    /\ p \in supCancelled
    /\ GoSup(p, "exit")
    /\ UNCHANGED <<sub, cancelled, subscribers, closed, supervised, stopping, owner,
                   supCancelled, toClose, stopCall, closer, closing, broken>>

\* The locked end of supervise's deferred function.
SuperviseEnds(p) ==
    /\ sup[p] = "final"
    /\ supervised' = FALSE
    /\ stopping' = FALSE
    /\ owner' = Nil
    /\ GoSup(p, "none")
    /\ supCancelled' = supCancelled \ {p}
    /\ UNCHANGED <<sub, cancelled, subscribers, closed, toClose, stopCall,
                   closer, closing, broken>>

-----------------------------------------------------------------------------
(* Close.                                                                  *)

\* Close reads stopFn and supDone under s.mu; with none there is nothing to do.
CloseBegin ==
    /\ MayClose
    /\ closer = "idle"
    /\ owner # Nil
    /\ closing' = owner
    /\ closer' = "cancel"
    /\ UNCHANGED <<sub, cancelled, subscribers, closed, supervised, stopping, owner,
                   sup, supCancelled, toClose, stopCall, broken>>

\* It calls that stop function
CloseCancel ==
    /\ closer = "cancel"
    /\ closer' = "wait"
    /\ CancelSupervisor(closing)
    /\ UNCHANGED <<sub, cancelled, subscribers, closed, supervised, stopping, owner,
                   sup, toClose, stopCall, closing, broken>>

\* and waits for supDone.
CloseReturns ==
    /\ closer = "wait"
    /\ sup[closing] = "none"
    /\ closer' = "idle"
    /\ closing' = Nil
    /\ UNCHANGED <<sub, cancelled, subscribers, closed, supervised, stopping, owner,
                   sup, supCancelled, toClose, stopCall, broken>>

-----------------------------------------------------------------------------
SupStep(p) ==
    \/ RunOnceEnds(p) \/ SwapSubscribers(p) \/ (\E s \in Subs : CloseOne(p, s))
    \/ AllClosed(p) \/ RetryElapses(p) \/ SuperviseEnds(p)

StreamNext ==
    \/ \E s \in Subs : \/ Subscribe(s) \/ SubscribeResumes(s) \/ CancelCtx(s)
                       \/ Unsubscribe(s) \/ Recycle(s)
    \/ \E p \in Sups : CallStop(p) \/ Broadcast(p) \/ SupStep(p) \/ RetryCancelled(p)
    \/ CloseBegin \/ CloseCancel \/ CloseReturns

StreamSpec == StreamInit /\ [][StreamNext]_streamVars

\* Goroutines that can run do; runOnce returns once its context is cancelled
\* (ffmpeg is killed after a grace period), and otherwise may run for ever.
StreamFairness ==
    /\ \A s \in Subs : SF_streamVars(SubscribeResumes(s)) /\ WF_streamVars(Unsubscribe(s))
    /\ \A p \in Sups :
          /\ WF_streamVars(CallStop(p))
          /\ WF_streamVars(p \in supCancelled /\ RunOnceEnds(p))
          /\ WF_streamVars(SupStep(p) /\ sup[p] # "run")
    /\ WF_streamVars(CloseCancel)
    /\ WF_streamVars(CloseReturns)

StreamFairSpec == StreamSpec /\ StreamFairness

-----------------------------------------------------------------------------
(* Properties.                                                             *)

\* No frame channel is closed twice and none is sent to after it was closed,
\* in spite of three places that close (unsubscribe, failure, exit).
NoPanic == ~broken

\* At most one supervisor, so at most one ffmpeg per device, and the flags
\* describe it.
OneSupervisor ==
    /\ \A p, q \in Sups : sup[p] # "none" /\ sup[q] # "none" => p = q
    /\ supervised <=> \E p \in Sups : sup[p] # "none"
    /\ \A p \in Sups : sup[p] # "none" => owner = p

\* A subscription never registers with a supervisor that is on its way out
\* because its last subscriber left; only Close, which stops a supervisor in
\* use, leaves that window open.
NoLateSubscriber ==
    \A p \in Sups :
        sup[p] \in {"exitClosing", "final"} /\ subscribers # {} => closing = p

\* A supervisor told to stop goes away, and ffmpeg with it.
StreamProgress == stopping ~> ~stopping

\* MJPEGStream is a VideoSource: every caller of Subscribe gets an open channel,
\* although it may wait for a dying supervisor, and a channel is closed once, in
\* the end when its context is cancelled, whichever of unsubscribe, a failure
\* and the exit has the channel in hand by then.
FeedBar ==
    [s \in Subs |->
        IF sub[s] = "none" THEN "none"
        ELSE IF sub[s] = "waiting" THEN "asked"
        ELSE IF s \in closed THEN "closed" ELSE "open"]

Source == INSTANCE VideoSource WITH feed <- FeedBar

ImplementsVideoSource == Source!Promise

\* v4l.go, Subscribe: "When the last subscriber's ctx is cancelled the
\* supervisor (and its ffmpeg subprocess) is torn down".  Once every
\* subscription is over, an ffmpeg that still runs has been told to stop.
\* (Refuted: a failure empties the map, and unsubscribe then stops nothing.)
TornDownWhenUnwatched ==
    (\A s \in Subs : sub[s] \in {"none", "over"}) =>
        \A p \in Sups : sup[p] = "run" => stopping
=============================================================================
