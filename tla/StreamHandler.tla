--------------------------- MODULE StreamHandler ---------------------------
(***************************************************************************)
(* The MJPEG streams of one Client (server/internal/http/mjpeg.go,         *)
(* kvm/client.go): handleStream for each request of the page's <img>, the  *)
(* Client's video sink, and the pumps that write frames to it.  Two pumps  *)
(* may write at once, since a cancelled one is not awaited.                *)
(***************************************************************************)
EXTENDS Integers, Sequences

CONSTANTS
    MaxRequests,  \* bound on the requests of the page
    Pumps,        \* goroutines that call Channel.Fanout or write standby frames
    Frames        \* video frames

ASSUME HandlerConstants == MaxRequests \in Nat

Requests == 1..MaxRequests
None == 0

\* The buffer of a sink's channel.
BufferSize == 2

VARIABLES
    img,         \* the request of the <img>, or None
    sent,        \* how many requests the page has sent
    aborted,     \* the requests that are given up
    registered,  \* the WebSocket session lasts: token and Client are known
    at,          \* at[r]: where handleStream is for request r
    hand,        \* hand[r]: the frame streamFrames took last
    videoOut,    \* Client.videoOut: the request whose sink it is, or None
    closed,      \* mjpegSink.closed: the requests whose sink is closing
    shut,        \* those whose frame channel is closed
    buf,         \* buf[r]: what the frame channel holds
    pump,        \* pump[p]: [at, sink, frame] of a call of WriteFrame
    overtaken    \* history: a request took the sink from a newer one

pageVars == <<img, sent, aborted, registered>>
sinkVars == <<closed, shut, buf>>
handlerVars == <<pageVars, at, hand, videoOut, sinkVars, pump, overtaken>>

HandlerPC == {"none", "sent", "resolved", "streaming", "writing", "clear", "cas",
              "close", "closing", "done"}

NoFrame == << >>

HandlerTypeOK ==
    /\ img \in Requests \cup {None} /\ sent \in 0..MaxRequests
    /\ aborted \subseteq Requests /\ registered \in BOOLEAN
    /\ at \in [Requests -> HandlerPC]
    /\ hand \in [Requests -> Seq(Frames)]
    /\ videoOut \in Requests \cup {None}
    /\ closed \subseteq Requests /\ shut \subseteq Requests
    /\ buf \in [Requests -> Seq(Frames)]
    /\ \A r \in Requests : Len(buf[r]) <= BufferSize
    /\ pump \in [Pumps -> [at : {"idle", "lock", "send", "drop"},
                           sink : Requests \cup {None}, frame : Seq(Frames)]]
    /\ overtaken \in BOOLEAN

Resting == [at |-> "idle", sink |-> None, frame |-> NoFrame]

HandlerInit ==
    /\ img = None /\ sent = 0 /\ aborted = {} /\ registered = TRUE
    /\ at = [r \in Requests |-> "none"]
    /\ hand = [r \in Requests |-> NoFrame]
    /\ videoOut = None
    /\ closed = {} /\ shut = {} /\ buf = [r \in Requests |-> << >>]
    /\ pump = [p \in Pumps |-> Resting]
    /\ overtaken = FALSE

-----------------------------------------------------------------------------
(* The page and its session.                                               *)

\* An mjpeg_url arrives (at the start, at a switch, at a notice): the <img>
\* gives up its request and sends another.
NewURL ==
    /\ registered /\ sent < MaxRequests
    /\ sent' = sent + 1
    /\ img' = sent'
    /\ at' = [at EXCEPT ![sent'] = "sent"]
    /\ aborted' = aborted \cup ({img} \ {None})
    /\ UNCHANGED <<registered, hand, videoOut, sinkVars, pump, overtaken>>

\* The page is left, or its stream connection breaks.
GiveUp ==
    /\ img # None
    /\ aborted' = aborted \cup {img}
    /\ img' = None
    /\ UNCHANGED <<sent, registered, at, hand, videoOut, sinkVars, pump, overtaken>>

\* handleWS returns: streams.release, RemoveClient.
EndSession ==
    /\ registered
    /\ registered' = FALSE
    /\ UNCHANGED <<img, sent, aborted, at, hand, videoOut, sinkVars, pump, overtaken>>

-----------------------------------------------------------------------------
(* handleStream.                                                           *)

Go(r, l) == at' = [at EXCEPT ![r] = l]

\* streams.consume: the token names the Client as long as it is registered.  A
\* request that is given up may not arrive at all.
Resolve(r) ==
    /\ at[r] = "sent"
    /\ \/ Go(r, IF registered THEN "resolved" ELSE "done")
       \/ r \in aborted /\ Go(r, "done")
    /\ UNCHANGED <<pageVars, hand, videoOut, sinkVars, pump, overtaken>>

\* The sink is made and installed; the header is flushed, or that fails.
SetVideoOut(r) ==
    /\ at[r] = "resolved"
    /\ videoOut' = r
    /\ overtaken' = (overtaken \/ videoOut > r)
    /\ \/ Go(r, "streaming")
       \/ r \in aborted /\ Go(r, "clear")
    /\ UNCHANGED <<pageVars, hand, sinkVars, pump>>

\* streamFrames takes a frame from the channel,
Take(r) ==
    /\ at[r] = "streaming" /\ buf[r] # << >>
    /\ hand' = [hand EXCEPT ![r] = <<Head(buf[r])>>]
    /\ buf' = [buf EXCEPT ![r] = Tail(@)]
    /\ Go(r, "writing")
    /\ UNCHANGED <<pageVars, videoOut, closed, shut, pump, overtaken>>

\* and writes it out, which may fail once the request is given up.
WriteOut(r) ==
    /\ at[r] = "writing"
    /\ \/ Go(r, "streaming")
       \/ r \in aborted /\ Go(r, "clear")
    /\ UNCHANGED <<pageVars, hand, videoOut, sinkVars, pump, overtaken>>

\* Fault: the context is looked at only when there is a frame.
StreamEndsLate(r) ==
    /\ at[r] = "streaming" /\ r \in aborted /\ buf[r] # << >>
    /\ Go(r, "clear")
    /\ UNCHANGED <<pageVars, hand, videoOut, sinkVars, pump, overtaken>>

\* streamFrames returns once the request's context is done.
StreamEnds(r) ==
    /\ at[r] = "streaming" /\ r \in aborted
    /\ Go(r, "clear")
    /\ UNCHANGED <<pageVars, hand, videoOut, sinkVars, pump, overtaken>>

\* The deferred ClearVideoOutIf loads the sink and compares it,
LoadVideoOut(r) ==
    /\ at[r] = "clear"
    /\ Go(r, IF videoOut = r THEN "cas" ELSE "close")
    /\ UNCHANGED <<pageVars, hand, videoOut, sinkVars, pump, overtaken>>

\* Fault: it stores nil instead of comparing again.
CasVideoOutStores(r) ==
    /\ at[r] = "cas"
    /\ videoOut' = None
    /\ Go(r, "close")
    /\ UNCHANGED <<pageVars, hand, sinkVars, pump, overtaken>>

\* and clears it if it is still the same.
CasVideoOut(r) ==
    /\ at[r] = "cas"
    /\ videoOut' = IF videoOut = r THEN None ELSE videoOut
    /\ Go(r, "close")
    /\ UNCHANGED <<pageVars, hand, sinkVars, pump, overtaken>>

\* mjpegSink.Close: the flag is set, so that no other write begins,
CloseSink(r) ==
    /\ at[r] = "close"
    /\ closed' = closed \cup {r}
    /\ Go(r, "closing")
    /\ UNCHANGED <<pageVars, hand, videoOut, shut, buf, pump, overtaken>>

\* mjpegSink.mu is held by a pump.
Locked(r) == \E p \in Pumps : pump[p].at \in {"send", "drop"} /\ pump[p].sink = r

\* Fault: the channel is closed without the lock.
ShutSinkUnlocked(r) ==
    /\ at[r] = "closing"
    /\ shut' = shut \cup {r}
    /\ buf' = [buf EXCEPT ![r] = << >>]
    /\ hand' = [hand EXCEPT ![r] = NoFrame]
    /\ Go(r, "done")
    /\ UNCHANGED <<pageVars, videoOut, closed, pump, overtaken>>

\* and the channel closed under the lock; nobody reads what it holds.
ShutSink(r) ==
    /\ at[r] = "closing" /\ ~Locked(r)
    /\ shut' = shut \cup {r}
    /\ buf' = [buf EXCEPT ![r] = << >>]
    /\ hand' = [hand EXCEPT ![r] = NoFrame]
    /\ Go(r, "done")
    /\ UNCHANGED <<pageVars, videoOut, closed, pump, overtaken>>

-----------------------------------------------------------------------------
(* A pump: Client.VideoOut, then mjpegSink.WriteFrame.                     *)

\* The sink is loaded, if there is one, and WriteFrame has its first look at the
\* flag; what changes between the two the second look sees.
LoadSink(p, f) ==
    /\ pump[p].at = "idle"
    /\ IF videoOut # None /\ videoOut \notin closed
         THEN pump' = [pump EXCEPT ![p] = [at |-> "lock", sink |-> videoOut, frame |-> <<f>>]]
         ELSE UNCHANGED pump
    /\ UNCHANGED <<pageVars, at, hand, videoOut, sinkVars, overtaken>>

\* It has the lock and looks again.
LockSink(p) ==
    /\ pump[p].at = "lock" /\ ~Locked(pump[p].sink)
    /\ pump' = [pump EXCEPT ![p] = IF @.sink \in closed THEN Resting ELSE [@ EXCEPT !.at = "send"]]
    /\ UNCHANGED <<pageVars, at, hand, videoOut, sinkVars, overtaken>>

\* The frame is put in the channel, or there is no room,
SendFrame(p) ==
    LET r == pump[p].sink IN
    /\ pump[p].at = "send"
    /\ IF Len(buf[r]) < BufferSize
         THEN /\ buf' = [buf EXCEPT ![r] = @ \o pump[p].frame]
              /\ pump' = [pump EXCEPT ![p] = Resting]
         ELSE /\ pump' = [pump EXCEPT ![p].at = "drop"]
              /\ UNCHANGED buf
    /\ UNCHANGED <<pageVars, at, hand, videoOut, closed, shut, overtaken>>

\* and the oldest frame is taken out, if the handler has not been faster.
DropOldest(p) ==
    LET r == pump[p].sink IN
    /\ pump[p].at = "drop"
    /\ buf' = [buf EXCEPT ![r] = IF @ = << >> THEN @ ELSE Tail(@)]
    /\ pump' = [pump EXCEPT ![p].at = "send"]
    /\ UNCHANGED <<pageVars, at, hand, videoOut, closed, shut, overtaken>>

-----------------------------------------------------------------------------
Page == NewURL \/ GiveUp \/ EndSession

Handle(r) ==
    \/ Resolve(r) \/ SetVideoOut(r) \/ Take(r) \/ WriteOut(r) \/ StreamEnds(r)
    \/ LoadVideoOut(r) \/ CasVideoOut(r) \/ CloseSink(r) \/ ShutSink(r)

WriteFrame(p) == LockSink(p) \/ SendFrame(p) \/ DropOldest(p)

HandlerNext ==
    \/ Page
    \/ \E r \in Requests : Handle(r)
    \/ \E p \in Pumps : WriteFrame(p) \/ \E f \in Frames : LoadSink(p, f)

\* The streams with pumps that write any frames.
HandlerSpec == HandlerInit /\ [][HandlerNext]_handlerVars

-----------------------------------------------------------------------------
(* Properties.                                                             *)

\* No frame is sent to a closed channel, which would panic the server: the
\* second look at the flag and Close's lock see to it (mjpeg.go:50,74).
NoSendAfterClose ==
    \A p \in Pumps : pump[p].at = "send" => pump[p].sink \notin shut

\* The page's newest request keeps the Client's sink while it streams, whatever
\* the requests before it still clean up (client.go:60).  A request that is
\* overtaken on its way takes the sink from the newer one: then it does not.
NewestStreamServed ==
    (img # None /\ at[img] \in {"streaming", "writing"} /\ ~overtaken) => videoOut = img

\* The handler of a request that was given up ends, in whatever state.
HandlersEnd == \A r \in Requests : r \in aborted ~> at[r] = "done"
=============================================================================
