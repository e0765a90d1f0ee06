------------------------- MODULE StreamHandlerProofs -------------------------
(***************************************************************************)
(* The streams of a Client, for any number of requests and any output of   *)
(* ffmpeg.  No frame is sent to a closed channel, and the newest request   *)
(* keeps the sink: this is proved of the steps of StreamHandler, with any  *)
(* frame and any number of pumps, and then of both specifications that     *)
(* take these steps, HandlerSpec and PathSpec.  Behind the output, whole   *)
(* images come in their order: this is proved of PathSpec alone.           *)
(***************************************************************************)
EXTENDS VideoPath, JpegSplitterProofs, SequenceTheorems, TLAPS

\* What the proofs need of types; nothing of frames.
HandlerShape ==
    /\ sent \in 0..MaxRequests
    /\ img \in {None, sent}
    /\ videoOut \in Requests \cup {None}
    /\ at \in [Requests -> HandlerPC]
    /\ overtaken \in BOOLEAN
    /\ DOMAIN pump = Pumps
    /\ \A p \in Pumps : DOMAIN pump[p] = {"at", "sink", "frame"}

\* Only requests that were sent are handled.
OnlySent == \A r \in Requests : at[r] # "none" => r <= sent

\* A sink is flagged before its channel is closed.
FlagFirst ==
    /\ \A r \in Requests : at[r] = "closing" => r \in closed
    /\ shut \subseteq closed

\* A pump that holds a sink's lock holds that of an open one.
LockedIsOpen == \A p \in Pumps : pump[p].at \in {"send", "drop"} => pump[p].sink \notin shut

HandlerInv ==
    /\ HandlerShape
    /\ OnlySent
    /\ FlagFirst
    /\ LockedIsOpen
    /\ NewestStreamServed

-----------------------------------------------------------------------------
LEMMA InitInv == HandlerInit => HandlerInv
<1> SUFFICES ASSUME HandlerInit PROVE HandlerInv
    OBVIOUS
<1> USE HandlerConstants DEF HandlerInit
<1>1. HandlerShape
  <2>1. DOMAIN pump = Pumps /\ \A p \in Pumps : pump[p] = Resting
    OBVIOUS
  <2>2. DOMAIN Resting = {"at", "sink", "frame"}
    BY DEF Resting
  <2>3. at \in [Requests -> HandlerPC]
    BY DEF HandlerPC
  <2>4. sent \in 0..MaxRequests /\ img \in {None, sent} /\ videoOut \in Requests \cup {None}
    BY DEF None
  <2>6. overtaken \in BOOLEAN
    OBVIOUS
  <2>5. \A p \in Pumps : DOMAIN pump[p] = {"at", "sink", "frame"}
    BY ONLY <2>1, <2>2
  <2> QED BY ONLY <2>1, <2>3, <2>4, <2>5, <2>6 DEF HandlerShape
<1>2. OnlySent /\ FlagFirst /\ LockedIsOpen
    BY DEF OnlySent, FlagFirst, LockedIsOpen, Resting
<1>3. NewestStreamServed
    BY DEF NewestStreamServed
<1> QED BY <1>1, <1>2, <1>3 DEF HandlerInv

\* A step of the page or the session.
LEMMA PageInv == HandlerInv /\ Page => HandlerInv'
<1> SUFFICES ASSUME HandlerInv, Page PROVE HandlerInv'
    OBVIOUS
<1> USE HandlerConstants DEF HandlerInv, HandlerShape, OnlySent, FlagFirst,
        LockedIsOpen, NewestStreamServed, HandlerPC, Requests, None, sinkVars
<1>1. CASE NewURL
    BY <1>1 DEF NewURL
<1>2. CASE GiveUp
    BY <1>2 DEF GiveUp
<1>3. CASE EndSession
    BY <1>3 DEF EndSession
<1> QED BY <1>1, <1>2, <1>3 DEF Page

\* A step of a request's handler.
LEMMA HandleInv == HandlerInv /\ (\E r \in Requests : Handle(r)) => HandlerInv'
<1> SUFFICES ASSUME HandlerInv, NEW r \in Requests, Handle(r) PROVE HandlerInv'
    OBVIOUS
<1> USE HandlerConstants DEF HandlerInv, HandlerShape, OnlySent, FlagFirst,
        LockedIsOpen, NewestStreamServed, HandlerPC, Requests, None, sinkVars,
        pageVars, Go
<1>1. CASE Resolve(r)
    BY <1>1 DEF Resolve
<1>2. CASE SetVideoOut(r)
  <2>1. OnlySent' /\ FlagFirst' /\ LockedIsOpen'
    BY <1>2 DEF SetVideoOut
  <2>2. videoOut' = r /\ (~overtaken' => ~(videoOut > r))
    BY <1>2 DEF SetVideoOut
  <2>3. HandlerShape'
    BY <1>2 DEF SetVideoOut
  <2>4. NewestStreamServed'
    BY <1>2, <2>2 DEF SetVideoOut
  <2> QED BY <2>1, <2>3, <2>4
<1>3. CASE Take(r)
    BY <1>3 DEF Take
<1>4. CASE WriteOut(r)
    BY <1>4 DEF WriteOut
<1>5. CASE StreamEnds(r)
    BY <1>5 DEF StreamEnds
<1>6. CASE LoadVideoOut(r)
    BY <1>6 DEF LoadVideoOut
<1>7. CASE CasVideoOut(r)
    BY <1>7 DEF CasVideoOut
<1>8. CASE CloseSink(r)
    BY <1>8 DEF CloseSink
<1>9. CASE ShutSink(r)
    BY <1>9 DEF ShutSink, Locked
<1> QED BY <1>1, <1>2, <1>3, <1>4, <1>5, <1>6, <1>7, <1>8, <1>9 DEF Handle

LEMMA StutterInv == HandlerInv /\ UNCHANGED handlerVars => HandlerInv'
BY DEF HandlerInv, HandlerShape, OnlySent, FlagFirst, LockedIsOpen,
       NewestStreamServed, handlerVars, pageVars, sinkVars

\* A pump moves on: it keeps a lock it has, or takes that of an open sink.
LEMMA PumpMoves ==
    ASSUME HandlerInv, NEW p \in Pumps, NEW next,
           pump' = [pump EXCEPT ![p] = next],
           DOMAIN next = {"at", "sink", "frame"},
           next.at \in {"send", "drop"} => next.sink \notin shut,
           UNCHANGED <<pageVars, at, videoOut, closed, shut, overtaken>>
    PROVE  HandlerInv'
<1> USE DEF HandlerInv
<1>1. /\ DOMAIN pump' = Pumps /\ pump'[p] = next
      /\ \A q \in Pumps \ {p} : pump'[q] = pump[q]
    BY DEF HandlerShape
<1>2. HandlerShape'
    BY <1>1 DEF HandlerShape, pageVars
<1>3. LockedIsOpen'
    BY <1>1 DEF LockedIsOpen
<1>4. OnlySent' /\ FlagFirst' /\ NewestStreamServed'
    BY DEF OnlySent, FlagFirst, NewestStreamServed, pageVars
<1> QED BY <1>2, <1>3, <1>4

\* A step of a pump that has a frame, and its look for a sink with any frame.
LEMMA PumpInv ==
    ASSUME HandlerInv, NEW p \in Pumps, NEW f, WriteFrame(p) \/ LoadSink(p, f)
    PROVE  HandlerInv'
<1>0. DOMAIN pump[p] = {"at", "sink", "frame"} /\ DOMAIN Resting = {"at", "sink", "frame"}
      /\ Resting.at = "idle" /\ shut \subseteq closed
      /\ (pump[p].at \in {"send", "drop"} => pump[p].sink \notin shut)
    BY DEF HandlerInv, HandlerShape, FlagFirst, LockedIsOpen, Resting
<1>1. CASE LockSink(p)
  <2>1. CASE pump[p].sink \in closed
    BY <1>0, <1>1, <2>1, PumpMoves DEF LockSink, sinkVars
  <2>2. CASE pump[p].sink \notin closed
    <3> DEFINE next == [pump[p] EXCEPT !.at = "send"]
    <3>1. pump' = [pump EXCEPT ![p] = next]
      BY <1>1, <2>2 DEF LockSink
    <3>2. DOMAIN next = {"at", "sink", "frame"} /\ next.sink = pump[p].sink
      BY <1>0
    <3> HIDE DEF next
    <3> QED BY <1>0, <1>1, <2>2, <3>1, <3>2, PumpMoves DEF LockSink, sinkVars
  <2> QED BY <2>1, <2>2
<1>2. CASE SendFrame(p)
  <2>1. CASE Len(buf[pump[p].sink]) < BufferSize
    BY <1>0, <1>2, <2>1, PumpMoves DEF SendFrame
  <2>2. CASE ~(Len(buf[pump[p].sink]) < BufferSize)
    <3> DEFINE next == [pump[p] EXCEPT !.at = "drop"]
    <3>1. pump' = [pump EXCEPT ![p] = next]
      BY <1>2, <2>2 DEF SendFrame
    <3>2. DOMAIN next = {"at", "sink", "frame"} /\ next.sink = pump[p].sink
          /\ pump[p].at = "send"
      BY <1>0, <1>2 DEF SendFrame
    <3> HIDE DEF next
    <3> QED BY <1>0, <1>2, <3>1, <3>2, PumpMoves DEF SendFrame
  <2> QED BY <2>1, <2>2
<1>3. CASE DropOldest(p)
  <2> DEFINE next == [pump[p] EXCEPT !.at = "send"]
  <2>1. pump' = [pump EXCEPT ![p] = next]
    BY <1>3 DEF DropOldest
  <2>2. DOMAIN next = {"at", "sink", "frame"} /\ next.sink = pump[p].sink
        /\ pump[p].at = "drop"
    BY <1>0, <1>3 DEF DropOldest
  <2> HIDE DEF next
  <2> QED BY <1>0, <1>3, <2>1, <2>2, PumpMoves DEF DropOldest
<1>4. CASE LoadSink(p, f)
  <2>1. CASE videoOut # None /\ videoOut \notin closed
    <3> DEFINE next == [at |-> "lock", sink |-> videoOut, frame |-> <<f>>]
    <3>1. pump' = [pump EXCEPT ![p] = next]
      BY <1>4, <2>1 DEF LoadSink
    <3>2. DOMAIN next = {"at", "sink", "frame"} /\ next.at = "lock"
      OBVIOUS
    <3> HIDE DEF next
    <3> QED BY <1>4, <3>1, <3>2, PumpMoves DEF LoadSink, sinkVars
  <2>2. CASE ~(videoOut # None /\ videoOut \notin closed)
    BY <1>4, <2>2, StutterInv DEF LoadSink, handlerVars
  <2> QED BY <2>1, <2>2
<1> QED BY <1>1, <1>2, <1>3, <1>4 DEF WriteFrame

\* The invariant gives the first property.
LEMMA InvSends == HandlerInv => NoSendAfterClose
BY DEF HandlerInv, LockedIsOpen, NoSendAfterClose

-----------------------------------------------------------------------------
\* The streams alone, with pumps that write anything at any time.
THEOREM HandlerInvariance == HandlerSpec => []HandlerInv
<1>1. HandlerInit => HandlerInv
    BY InitInv
<1>2. HandlerInv /\ [HandlerNext]_handlerVars => HandlerInv'
    BY PageInv, HandleInv, PumpInv, StutterInv DEF HandlerNext
<1> QED BY <1>1, <1>2, PTL DEF HandlerSpec

\* The streams behind ffmpeg's output.
THEOREM PathInvariance == PathSpec => []HandlerInv
<1>1. PathInit => HandlerInv
    BY InitInv DEF PathInit
<1>2. HandlerInv /\ [PathNext]_pathVars => HandlerInv'
  <2> SUFFICES ASSUME HandlerInv, [PathNext]_pathVars PROVE HandlerInv'
    OBVIOUS
  <2>1. CASE Broadcast
    BY <2>1, StutterInv DEF Broadcast
  <2>2. CASE Feed
    BY <2>2, StutterInv, PumpInv, PathConstants DEF Feed
  <2>3. CASE FeedLate
    BY <2>3, PumpInv, PathConstants DEF FeedLate
  <2>4. CASE Page \/ (\E r \in Requests : Handle(r)) \/ (\E p \in Pumps : WriteFrame(p))
    BY <2>4, PageInv, HandleInv, PumpInv
  <2>5. CASE UNCHANGED pathVars
    BY <2>5, StutterInv DEF pathVars
  <2> QED BY <2>1, <2>2, <2>3, <2>4, <2>5 DEF PathNext
<1> QED BY <1>1, <1>2, PTL DEF PathSpec

\* No frame is sent to a closed channel, so WriteFrame cannot panic the server
\* (mjpeg.go:44-77), however many requests and pumps there are.
THEOREM SendsAreSafe == PathSpec => []NoSendAfterClose
BY PathInvariance, InvSends, PTL

\* The newest request keeps the Client's sink while it streams (client.go:60),
\* unless an overtaken one took it.
THEOREM NewestKeepsSink == PathSpec => []NewestStreamServed
<1>1. HandlerInv => NewestStreamServed
    BY DEF HandlerInv
<1> QED BY <1>1, PathInvariance, PTL

-----------------------------------------------------------------------------
(* The frames on their way.                                                *)

Elems(s) == {s[i] : i \in DOMAIN s}

\* f comes before g in the output, unless one is the standby frame.
Behind(f, g) == f # Standby /\ g # Standby => f[2] < g[1]

\* The images the splitter can cut, and what is shown.
Cut == {f \in (1..Len(output)) \X (1..Len(output)) : f[1] < f[2]}
Shown == Cut \cup {Standby}

LEMMA SortedTail ==
    ASSUME NEW S, NEW s \in Seq(S), s # << >>, Sorted(s)
    PROVE  /\ Tail(s) \in Seq(S) /\ Head(s) \in S /\ Len(Tail(s)) = Len(s) - 1
           /\ Sorted(Tail(s)) /\ Elems(Tail(s)) \subseteq Elems(s) /\ Head(s) \in Elems(s)
           /\ \A g \in Elems(Tail(s)) : Behind(Head(s), g)
<1>1. /\ Tail(s) \in Seq(S) /\ Head(s) \in S /\ Len(Tail(s)) = Len(s) - 1
      /\ \A i \in 1..Len(Tail(s)) : Tail(s)[i] = s[i + 1]
      /\ Len(s) \in Nat \ {0} /\ DOMAIN s = 1..Len(s) /\ Head(s) = s[1]
    BY HeadTailProperties, EmptySeq, LenProperties
<1>2. DOMAIN Tail(s) = 1..Len(Tail(s))
    BY <1>1, LenProperties
<1>3. \A i \in DOMAIN Tail(s) : i + 1 \in DOMAIN s /\ 1 < i + 1 /\ Tail(s)[i] = s[i + 1]
    BY <1>1, <1>2
<1>4. 1 \in DOMAIN s
    BY <1>1
<1>5. Sorted(Tail(s))
  <2>1. ASSUME NEW i \in DOMAIN Tail(s), NEW j \in DOMAIN Tail(s), i < j,
               Tail(s)[i] # Standby, Tail(s)[j] # Standby
        PROVE  Tail(s)[i][2] < Tail(s)[j][1]
    <3>1. i + 1 < j + 1
        BY <1>2, <2>1
    <3> QED BY <1>3, <2>1, <3>1 DEF Sorted
  <2> QED BY <2>1 DEF Sorted
<1>6. Elems(Tail(s)) \subseteq Elems(s) /\ Head(s) \in Elems(s)
    BY <1>1, <1>3, <1>4 DEF Elems
<1>7. \A g \in Elems(Tail(s)) : Behind(Head(s), g)
    BY <1>1, <1>3, <1>4 DEF Elems, Sorted, Behind
<1> QED BY <1>1, <1>5, <1>6, <1>7

LEMMA SortedConcat ==
    ASSUME NEW S, NEW s \in Seq(S), NEW t \in Seq(S), Sorted(s), Sorted(t),
           \A f \in Elems(s) : \A g \in Elems(t) : Behind(f, g)
    PROVE  /\ s \o t \in Seq(S) /\ Len(s \o t) = Len(s) + Len(t)
           /\ Sorted(s \o t) /\ Elems(s \o t) = Elems(s) \cup Elems(t)
<1> DEFINE u == s \o t
<1>1. /\ u \in Seq(S) /\ Len(u) = Len(s) + Len(t)
      /\ \A i \in 1..Len(s) + Len(t) : u[i] = IF i <= Len(s) THEN s[i] ELSE t[i - Len(s)]
      /\ Len(s) \in Nat /\ Len(t) \in Nat
      /\ DOMAIN s = 1..Len(s) /\ DOMAIN t = 1..Len(t)
    BY ConcatProperties, LenProperties
<1> HIDE DEF u
<1>2. DOMAIN u = 1..Len(s) + Len(t)
    BY <1>1, LenProperties
<1>3. ASSUME NEW i \in DOMAIN u
      PROVE  \/ i \in DOMAIN s /\ u[i] = s[i]
             \/ i > Len(s) /\ i - Len(s) \in DOMAIN t /\ u[i] = t[i - Len(s)]
    BY <1>1, <1>2
<1>4. ASSUME NEW i \in DOMAIN u, NEW j \in DOMAIN u, i < j PROVE Behind(u[i], u[j])
  <2>1. CASE i \in DOMAIN s /\ u[i] = s[i] /\ j \in DOMAIN s /\ u[j] = s[j]
    BY <1>4, <2>1 DEF Sorted, Behind
  <2>2. CASE i \in DOMAIN s /\ u[i] = s[i] /\ j - Len(s) \in DOMAIN t /\ u[j] = t[j - Len(s)]
    BY <2>2 DEF Elems
  <2>3. CASE /\ i > Len(s) /\ i - Len(s) \in DOMAIN t /\ u[i] = t[i - Len(s)]
             /\ j - Len(s) \in DOMAIN t /\ u[j] = t[j - Len(s)]
    <3>1. i - Len(s) < j - Len(s)
        BY <1>1, <1>2, <1>4
    <3> QED BY <2>3, <3>1 DEF Sorted, Behind
  <2>4. CASE i > Len(s) /\ j \in DOMAIN s
    BY <1>1, <1>2, <1>4, <2>4
  <2> QED BY <1>3, <2>1, <2>2, <2>3, <2>4
<1>5. Sorted(u)
    BY <1>4 DEF Sorted, Behind
<1>6. Elems(u) = Elems(s) \cup Elems(t)
  <2>1. \A i \in DOMAIN s : i \in DOMAIN u /\ u[i] = s[i]
    BY <1>1, <1>2
  <2>2. \A i \in DOMAIN t : i + Len(s) \in DOMAIN u /\ u[i + Len(s)] = t[i]
    BY <1>1, <1>2
  <2> QED BY <1>3, <2>1, <2>2 DEF Elems
<1> QED BY <1>1, <1>5, <1>6 DEF u

LEMMA SortedShort ==
    ASSUME NEW S, NEW f \in S
    PROVE  /\ << >> \in Seq(S) /\ Sorted(<< >>) /\ Elems(<< >>) = {} /\ Len(<< >>) = 0
           /\ <<f>> \in Seq(S) /\ Sorted(<<f>>) /\ Elems(<<f>>) = {f} /\ Len(<<f>>) = 1
BY DEF Sorted, Elems

\* A frame of the splitter.
LEMMA UpcomingCut ==
    ASSUME output \in Seq(Byte), Position \in Nat \ {0}, Upcoming[1] # EOF
    PROVE  Upcoming \in Cut /\ Position <= Upcoming[1] /\ Upcoming # Standby
<1>1. LoopFrameAfter(output, Position, Upcoming[1], Upcoming[2])
    BY NextReturnsLoopFrame DEF Upcoming
<1>2. \E a, b : Upcoming = <<a, b>>
    BY DEF Upcoming, NextFrame
<1>3. Upcoming = <<Upcoming[1], Upcoming[2]>>
    BY <1>2
<1>4. /\ Upcoming[1] \in 1..Len(output) /\ Position <= Upcoming[1]
      /\ Upcoming[2] \in 1..Len(output) /\ Upcoming[1] < Upcoming[2]
    BY <1>1 DEF LoopFrameAfter, At, LoopEndsAt
<1>5. Upcoming \in Cut
    BY <1>3, <1>4 DEF Cut
<1>6. Upcoming # Standby
    BY <1>4 DEF Standby
<1> QED BY <1>4, <1>5, <1>6

-----------------------------------------------------------------------------
(* The invariant of the path.                                              *)

PlainTypes ==
    /\ img \in Requests \cup {None} /\ sent \in 0..MaxRequests
    /\ aborted \subseteq Requests /\ registered \in BOOLEAN
    /\ at \in [Requests -> HandlerPC]
    /\ videoOut \in Requests \cup {None}
    /\ closed \subseteq Requests /\ shut \subseteq Requests
    /\ overtaken \in BOOLEAN

SourceOK ==
    /\ output \in Outputs /\ late \in BOOLEAN
    /\ read \in Seq(Cut)
    /\ sub \in Seq(Cut) /\ Len(sub) <= 1

\* A pump has one frame in hand: that of the Channel an image, the other the
\* standby frame.
PumpsOK ==
    /\ pump \in [Pumps -> [at : {"idle", "lock", "send", "drop"},
                           sink : Requests \cup {None}, frame : Seq(Shown)]]
    /\ \A p \in Pumps : /\ Len(pump[p].frame) <= 1
                        /\ pump[p].at # "idle" => pump[p].sink \in Requests
    /\ Elems(pump[FeedPump].frame) \subseteq Cut
    /\ Elems(pump[LatePump].frame) \subseteq {Standby}

\* What was taken from a sink and what waits in it are in order.
Lined(h, b) ==
    /\ Len(h) <= 1 /\ Len(b) <= BufferSize
    /\ Sorted(b)
    /\ \A f \in Elems(h) : \A g \in Elems(b) : Behind(f, g)

SinksOK ==
    /\ hand \in [Requests -> Seq(Shown)]
    /\ buf \in [Requests -> Seq(Shown)]
    /\ \A r \in Requests : Lined(hand[r], buf[r])

\* An image in a sink is before the one its pump has in hand, that one before
\* the one that waits for the pump, and all before where the splitter is.
InSink(r) == Elems(hand[r]) \cup Elems(buf[r])
Carried == Elems(pump[FeedPump].frame)

Ahead ==
    /\ \A r \in Requests : \A f \in InSink(r) :
          /\ \A g \in Carried \cup Elems(sub) : Behind(f, g)
          /\ f # Standby => f[2] < Position
    /\ \A f \in Carried : \A g \in Elems(sub) : Behind(f, g)
    /\ \A f \in Carried \cup Elems(sub) : f[2] < Position

PathInv == PlainTypes /\ SourceOK /\ PumpsOK /\ SinksOK /\ Ahead

LEMMA PathInitInv == PathInit => PathInv
<1> SUFFICES ASSUME PathInit PROVE PathInv
    OBVIOUS
<1> USE HandlerConstants, PathConstants DEF PathInit, HandlerInit
<1>1. /\ << >> \in Seq(Cut) /\ << >> \in Seq(Shown) /\ Len(<< >>) = 0
      /\ Sorted(<< >>) /\ Elems(<< >>) = {}
    BY EmptySeq DEF Sorted, Elems
<1>2. PlainTypes
  <2>1. "none" \in HandlerPC
    BY DEF HandlerPC
  <2>2. at \in [Requests -> HandlerPC]
    BY <2>1
  <2>3. sent \in 0..MaxRequests
    OBVIOUS
  <2>5. overtaken \in BOOLEAN /\ registered \in BOOLEAN
    OBVIOUS
  <2>4. /\ img \in Requests \cup {None} /\ videoOut \in Requests \cup {None}
        /\ aborted \subseteq Requests /\ closed \subseteq Requests /\ shut \subseteq Requests
    OBVIOUS
  <2> QED BY <2>2, <2>3, <2>4, <2>5 DEF PlainTypes
<1>3. SourceOK
    BY <1>1 DEF SourceOK
<1>4. PumpsOK
  <2>1. \A p \in Pumps : pump[p] = Resting
    OBVIOUS
  <2>2. Resting \in [at : {"idle", "lock", "send", "drop"}, sink : Requests \cup {None}, frame : Seq(Shown)]
    BY <1>1 DEF Resting, NoFrame
  <2> QED BY <1>1, <2>1, <2>2 DEF PumpsOK, Resting, NoFrame
<1>5. SinksOK
    BY <1>1 DEF SinksOK, Lined, NoFrame, BufferSize
<1>6. Ahead
  <2>1. \A r \in Requests : InSink(r) = {}
    BY <1>1 DEF InSink, NoFrame
  <2>2. Carried = {} /\ Elems(sub) = {}
    BY <1>1 DEF Carried, Resting, NoFrame
  <2> QED BY <2>1, <2>2 DEF Ahead
<1> QED BY <1>2, <1>3, <1>4, <1>5, <1>6 DEF PathInv

LEMMA PlainStep ==
    ASSUME PlainTypes,
           \/ Page
           \/ \E r \in Requests : Handle(r)
           \/ \E p \in Pumps : WriteFrame(p)
           \/ \E p, f : LoadSink(p, f)
    PROVE  PlainTypes'
<1> USE HandlerConstants DEF PlainTypes, HandlerPC, Requests, None, pageVars, sinkVars, Go
<1>1. CASE Page
  <2>1. CASE NewURL
    BY <2>1 DEF NewURL
  <2>2. CASE GiveUp
    BY <2>2 DEF GiveUp
  <2>3. CASE EndSession
    BY <2>3 DEF EndSession
  <2> QED BY <1>1, <2>1, <2>2, <2>3 DEF Page
<1>2. ASSUME NEW r \in Requests, Handle(r) PROVE PlainTypes'
  <2>1. CASE Resolve(r)
    BY <2>1 DEF Resolve
  <2>2. CASE SetVideoOut(r)
    BY <2>2 DEF SetVideoOut
  <2>3. CASE Take(r) \/ WriteOut(r) \/ StreamEnds(r)
    BY <2>3 DEF Take, WriteOut, StreamEnds
  <2>4. CASE LoadVideoOut(r) \/ CasVideoOut(r)
    BY <2>4 DEF LoadVideoOut, CasVideoOut
  <2>5. CASE CloseSink(r) \/ ShutSink(r)
    BY <2>5 DEF CloseSink, ShutSink
  <2> QED BY <1>2, <2>1, <2>2, <2>3, <2>4, <2>5 DEF Handle
<1>3. ASSUME NEW p \in Pumps, WriteFrame(p) PROVE PlainTypes'
    BY <1>3 DEF WriteFrame, LockSink, SendFrame, DropOldest
<1>4. ASSUME NEW p, NEW f, LoadSink(p, f) PROVE PlainTypes'
    BY <1>4 DEF LoadSink
<1> QED BY <1>1, <1>2, <1>3, <1>4

\* A step of the sinks and the pumps that brings nothing new but standby frames
\* and the image the pump had in hand.
LEMMA AheadKept ==
    ASSUME Ahead, UNCHANGED <<read, sub>>, Carried' \in {{}, Carried},
           \A r \in Requests : InSink(r)' \subseteq InSink(r) \cup {Standby} \cup (Carried \ Carried')
    PROVE  Ahead'
<1>1. Position' = Position /\ Elems(sub') = Elems(sub)
    BY DEF Position
<1>2. ASSUME NEW r \in Requests, NEW f \in InSink(r)'
      PROVE  /\ \A g \in Carried' \cup Elems(sub') : Behind(f, g)
             /\ f # Standby => f[2] < Position'
  <2>1. CASE f \in InSink(r)
    BY <1>1, <2>1 DEF Ahead
  <2>2. CASE f = Standby
    BY <2>2 DEF Behind
  <2>3. CASE f \in Carried \ Carried'
    <3>1. f[2] < Position'
        BY <1>1, <2>3 DEF Ahead
    <3>2. \A g \in Elems(sub') : Behind(f, g)
        BY <1>1, <2>3 DEF Ahead
    <3>3. Carried' = {}
        BY <2>3
    <3> QED BY <3>1, <3>2, <3>3
  <2> QED BY <1>2, <2>1, <2>2, <2>3
<1>3. /\ \A f \in Carried' : \A g \in Elems(sub') : Behind(f, g)
      /\ \A f \in Carried' \cup Elems(sub') : f[2] < Position'
    BY <1>1 DEF Ahead
<1> QED BY <1>2, <1>3 DEF Ahead

-----------------------------------------------------------------------------
(* The steps of the path.                                                  *)

LEMMA SameShown == output' = output => Cut' = Cut /\ Shown' = Shown
BY DEF Cut, Shown

\* One sink changes.
LEMMA SinkChange ==
    ASSUME SinksOK, output' = output, NEW r \in Requests,
           NEW h \in Seq(Shown), NEW b \in Seq(Shown), Lined(h, b),
           hand' = [hand EXCEPT ![r] = h], buf' = [buf EXCEPT ![r] = b]
    PROVE  /\ SinksOK'
           /\ InSink(r)' = Elems(h) \cup Elems(b)
           /\ \A q \in Requests \ {r} : InSink(q)' = InSink(q)
<1>1. hand \in [Requests -> Seq(Shown)] /\ buf \in [Requests -> Seq(Shown)]
    BY DEF SinksOK
<1>2. hand' \in [Requests -> Seq(Shown)] /\ buf' \in [Requests -> Seq(Shown)]
    BY <1>1
<1>3. hand'[r] = h /\ buf'[r] = b
    BY <1>1
<1>4. \A q \in Requests \ {r} : hand'[q] = hand[q] /\ buf'[q] = buf[q]
    BY <1>1
<1>5. ASSUME NEW q \in Requests PROVE Lined(hand'[q], buf'[q])
  <2>1. CASE q = r
    BY <1>3, <2>1
  <2>2. CASE q # r
    BY <1>4, <2>2 DEF SinksOK
  <2> QED BY <2>1, <2>2
<1>6. SinksOK'
    BY <1>2, <1>5, SameShown DEF SinksOK
<1> QED BY <1>3, <1>4, <1>6 DEF InSink

\* A request's handler: it takes from its sink, or empties it.
LEMMA HandleSinks ==
    ASSUME SinksOK, output' = output, NEW r \in Requests, Handle(r)
    PROVE  SinksOK' /\ pump' = pump /\ \A q \in Requests : InSink(q)' \subseteq InSink(q)
<1>0. /\ hand \in [Requests -> Seq(Shown)] /\ buf \in [Requests -> Seq(Shown)]
      /\ Lined(hand[r], buf[r]) /\ hand[r] \in Seq(Shown) /\ buf[r] \in Seq(Shown)
    BY DEF SinksOK
<1>1. CASE Take(r)
  <2> DEFINE h == <<Head(buf[r])>>
             b == Tail(buf[r])
  <2>1. /\ b \in Seq(Shown) /\ Head(buf[r]) \in Shown /\ Len(b) = Len(buf[r]) - 1
        /\ Sorted(b) /\ Elems(b) \subseteq Elems(buf[r]) /\ Head(buf[r]) \in Elems(buf[r])
        /\ \A g \in Elems(b) : Behind(Head(buf[r]), g)
    BY <1>0, <1>1, SortedTail DEF Take, Lined
  <2>2. h \in Seq(Shown) /\ Elems(h) = {Head(buf[r])} /\ Len(h) = 1
    BY <2>1, SortedShort
  <2>3. Len(b) <= BufferSize
    BY <1>0, <2>1, LenProperties DEF Lined, BufferSize
  <2>4. hand' = [hand EXCEPT ![r] = h] /\ buf' = [buf EXCEPT ![r] = b] /\ pump' = pump
    BY <1>1 DEF Take
  <2> HIDE DEF h, b
  <2>5. Lined(h, b)
    BY <2>1, <2>2, <2>3 DEF Lined
  <2>6. /\ SinksOK' /\ InSink(r)' = Elems(h) \cup Elems(b)
        /\ \A q \in Requests \ {r} : InSink(q)' = InSink(q)
    BY <2>1, <2>2, <2>4, <2>5, SinkChange
  <2> QED BY <2>1, <2>2, <2>4, <2>6 DEF InSink
<1>2. CASE ShutSink(r)
  <2>1. << >> \in Seq(Shown) /\ Sorted(<< >>) /\ Elems(<< >>) = {} /\ Len(<< >>) = 0
    BY EmptySeq DEF Sorted, Elems
  <2>2. Lined(<< >>, << >>)
    BY <2>1 DEF Lined, BufferSize
  <2>3. /\ hand' = [hand EXCEPT ![r] = << >>] /\ buf' = [buf EXCEPT ![r] = << >>]
        /\ pump' = pump
    BY <1>2 DEF ShutSink, NoFrame
  <2>4. /\ SinksOK' /\ InSink(r)' = {}
        /\ \A q \in Requests \ {r} : InSink(q)' = InSink(q)
    BY <2>1, <2>2, <2>3, SinkChange
  <2> QED BY <2>3, <2>4
<1>3. CASE UNCHANGED <<hand, buf, pump>>
    BY <1>3, SameShown DEF SinksOK, InSink
<1>4. CASE Resolve(r) \/ SetVideoOut(r) \/ WriteOut(r) \/ StreamEnds(r)
    BY <1>3, <1>4 DEF Resolve, SetVideoOut, WriteOut, StreamEnds, sinkVars
<1>5. CASE LoadVideoOut(r) \/ CasVideoOut(r) \/ CloseSink(r)
    BY <1>3, <1>5 DEF LoadVideoOut, CasVideoOut, CloseSink, sinkVars
<1> QED BY <1>1, <1>2, <1>4, <1>5 DEF Handle

\* One pump changes, and its frame stays or is put down.
LEMMA PumpChange ==
    ASSUME PumpsOK, output' = output, NEW p \in Pumps,
           NEW next \in [at : {"idle", "lock", "send", "drop"},
                         sink : Requests \cup {None}, frame : Seq(Shown)],
           pump' = [pump EXCEPT ![p] = next],
           next.frame \in {<< >>, pump[p].frame},
           next.at # "idle" => next.sink \in Requests
    PROVE  /\ PumpsOK'
           /\ p # FeedPump => Carried' = Carried
           /\ p = FeedPump => Carried' = Elems(next.frame)
           /\ Carried' \in {{}, Carried}
<1>1. /\ pump'[p] = next /\ \A q \in Pumps \ {p} : pump'[q] = pump[q]
      /\ pump' \in [Pumps -> [at : {"idle", "lock", "send", "drop"},
                              sink : Requests \cup {None}, frame : Seq(Shown)]]
    BY DEF PumpsOK
<1>2. Elems(<< >>) = {} /\ Len(<< >>) = 0
    BY DEF Elems
<1>3. Len(next.frame) <= 1 /\ Elems(next.frame) \in {{}, Elems(pump[p].frame)}
    BY <1>2 DEF PumpsOK
<1>4. \A q \in Pumps : /\ Len(pump'[q].frame) <= 1
                       /\ pump'[q].at # "idle" => pump'[q].sink \in Requests
                       /\ Elems(pump'[q].frame) \in {{}, Elems(pump[q].frame)}
    BY <1>1, <1>3 DEF PumpsOK
<1>5. FeedPump \in Pumps /\ LatePump \in Pumps
    BY PathConstants
<1>6. PumpsOK'
    BY <1>1, <1>4, <1>5, SameShown DEF PumpsOK
<1>7. Carried' \in {{}, Carried}
    BY <1>4, <1>5 DEF Carried
<1> QED BY <1>1, <1>5, <1>6, <1>7 DEF Carried

PumpRecord == [at : {"idle", "lock", "send", "drop"},
               sink : Requests \cup {None}, frame : Seq(Shown)]

LEMMA RestingRecord ==
    Resting \in PumpRecord /\ Resting.frame = << >> /\ Resting.at = "idle"
BY EmptySeq DEF Resting, NoFrame, PumpRecord

\* A frame of a pump goes behind what is in a sink.
LEMMA JoinsTheLine ==
    ASSUME PumpsOK, SinksOK, Ahead, NEW p \in Pumps, NEW r \in Requests
    PROVE  /\ pump[p].frame \in Seq(Shown) /\ Sorted(pump[p].frame)
           /\ \A f \in InSink(r) : \A g \in Elems(pump[p].frame) : Behind(f, g)
<1>1. pump[p] \in PumpRecord /\ Len(pump[p].frame) <= 1
    BY DEF PumpsOK, PumpRecord
<1>2. pump[p].frame \in Seq(Shown)
    BY <1>1 DEF PumpRecord
<1>3. Sorted(pump[p].frame)
    BY <1>1, <1>2, LenProperties DEF Sorted
<1>4. CASE p = FeedPump
    BY <1>2, <1>3, <1>4 DEF Ahead, Carried
<1>5. CASE p = LatePump
    BY <1>2, <1>3, <1>5 DEF PumpsOK, Behind
<1> QED BY <1>4, <1>5, PathConstants

\* A step of a pump: a frame that it has goes to the end of the line.
LEMMA WriteSinks ==
    ASSUME PumpsOK, SinksOK, Ahead, UNCHANGED <<output, read, sub>>,
           NEW p \in Pumps, WriteFrame(p)
    PROVE  PumpsOK' /\ SinksOK' /\ Ahead'
<1>r. PICK r : r = pump[p].sink
    OBVIOUS
<1>0. /\ pump[p] \in PumpRecord /\ pump[p].frame \in Seq(Shown)
      /\ (pump[p].at # "idle" => pump[p].sink \in Requests)
    BY DEF PumpsOK, PumpRecord
<1>1. CASE LockSink(p)
  <2>1. PICK next \in PumpRecord : /\ pump' = [pump EXCEPT ![p] = next]
                                   /\ next.frame \in {<< >>, pump[p].frame}
                                   /\ (next.at # "idle" => next.sink \in Requests)
    <3>1. CASE pump[p].sink \in closed
        <4>1. pump' = [pump EXCEPT ![p] = Resting]
            BY <1>1, <3>1 DEF LockSink
        <4> QED BY <4>1, RestingRecord
    <3>2. CASE pump[p].sink \notin closed
        <4> DEFINE next == [pump[p] EXCEPT !.at = "send"]
        <4>1. pump' = [pump EXCEPT ![p] = next]
            BY <1>1, <3>2 DEF LockSink
        <4>2. next \in PumpRecord /\ next.frame = pump[p].frame /\ next.sink = pump[p].sink
            BY <1>0 DEF PumpRecord
        <4>3. next.sink \in Requests
            BY <1>r, <1>0, <1>1, <4>2 DEF LockSink
        <4> HIDE DEF next
        <4> QED BY <4>1, <4>2, <4>3
    <3> QED BY <3>1, <3>2
  <2>2. PumpsOK' /\ Carried' \in {{}, Carried}
    BY <2>1, PumpChange DEF PumpRecord
  <2>3. hand' = hand /\ buf' = buf
    BY <1>1 DEF LockSink, sinkVars
  <2>4. SinksOK' /\ \A q \in Requests : InSink(q)' = InSink(q)
    BY <2>3, SameShown DEF SinksOK, InSink
  <2> QED BY <2>2, <2>4, AheadKept
<1>2. CASE SendFrame(p) /\ Len(buf[r]) < BufferSize
  <2>1. r \in Requests /\ pump' = [pump EXCEPT ![p] = Resting] /\ hand' = hand
        /\ buf' = [buf EXCEPT ![r] = buf[r] \o pump[p].frame]
    BY <1>r, <1>0, <1>2 DEF SendFrame
  <2>2. PumpsOK' /\ Carried' \in {{}, Carried} /\ (p = FeedPump => Carried' = {})
    <3>1. Elems(<< >>) = {}
        BY DEF Elems
    <3> QED BY <2>1, <3>1, RestingRecord, PumpChange DEF PumpRecord
  <2>3. /\ pump[p].frame \in Seq(Shown) /\ Sorted(pump[p].frame)
        /\ \A f \in InSink(r) : \A g \in Elems(pump[p].frame) : Behind(f, g)
    BY <2>1, JoinsTheLine
  <2>4. /\ hand[r] \in Seq(Shown) /\ buf[r] \in Seq(Shown) /\ Lined(hand[r], buf[r])
        /\ hand' = [hand EXCEPT ![r] = hand[r]]
    BY <2>1 DEF SinksOK
  <2> DEFINE b == buf[r] \o pump[p].frame
  <2>5. /\ b \in Seq(Shown) /\ Len(b) = Len(buf[r]) + Len(pump[p].frame)
        /\ Sorted(b) /\ Elems(b) = Elems(buf[r]) \cup Elems(pump[p].frame)
    BY <2>3, <2>4, SortedConcat DEF Lined, InSink
  <2>6. Len(b) <= BufferSize
    <3>1. Len(pump[p].frame) <= 1
        BY DEF PumpsOK
    <3>2. Len(pump[p].frame) \in Nat /\ Len(buf[r]) \in Nat
        BY <2>3, <2>4, LenProperties
    <3>3. Len(b) = Len(buf[r]) + Len(pump[p].frame)
        BY <2>5
    <3>4. Len(buf[r]) < 2
        BY <1>2 DEF BufferSize
    <3> DEFINE k == Len(buf[r])
               l == Len(pump[p].frame)
               m == Len(b)
    <3>5. k \in Nat /\ l \in Nat /\ l <= 1 /\ k < 2 /\ m = k + l
        BY <3>1, <3>2, <3>3, <3>4
    <3> HIDE DEF k, l, m
    <3>6. m <= 2
        BY ONLY <3>5
    <3> QED BY <3>6 DEF m, BufferSize
  <2>7. buf' = [buf EXCEPT ![r] = b]
    BY <2>1
  <2> HIDE DEF b
  <2>8. Lined(hand[r], b)
    BY <2>3, <2>4, <2>5, <2>6 DEF Lined, InSink
  <2>9. /\ SinksOK' /\ InSink(r)' = Elems(hand[r]) \cup Elems(b)
        /\ \A q \in Requests \ {r} : InSink(q)' = InSink(q)
    BY <2>1, <2>4, <2>5, <2>7, <2>8, SinkChange
  <2>10. Elems(pump[p].frame) \subseteq {Standby} \cup (Carried \ Carried')
    <3>1. CASE p = FeedPump
        BY <2>2, <3>1 DEF Carried
    <3>2. CASE p = LatePump
        BY <3>2 DEF PumpsOK
    <3> QED BY <3>1, <3>2, PathConstants
  <2>11. \A q \in Requests : InSink(q)' \subseteq InSink(q) \cup {Standby} \cup (Carried \ Carried')
    BY <2>5, <2>9, <2>10 DEF InSink
  <2> QED BY <2>2, <2>9, <2>11, AheadKept
<1>3. CASE SendFrame(p) /\ ~(Len(buf[r]) < BufferSize)
  <2> DEFINE next == [pump[p] EXCEPT !.at = "drop"]
  <2>1. pump' = [pump EXCEPT ![p] = next] /\ hand' = hand /\ buf' = buf /\ r \in Requests
    BY <1>r, <1>0, <1>3 DEF SendFrame
  <2>2. next \in PumpRecord /\ next.frame = pump[p].frame /\ next.sink = r
    BY <1>r, <1>0 DEF PumpRecord
  <2> HIDE DEF next
  <2>3. PumpsOK' /\ Carried' \in {{}, Carried}
    BY <2>1, <2>2, PumpChange DEF PumpRecord
  <2>4. SinksOK' /\ \A q \in Requests : InSink(q)' = InSink(q)
    BY <2>1, SameShown DEF SinksOK, InSink
  <2> QED BY <2>3, <2>4, AheadKept
<1>4. CASE DropOldest(p)
  <2> DEFINE next == [pump[p] EXCEPT !.at = "send"]
             b == IF buf[r] = << >> THEN buf[r] ELSE Tail(buf[r])
  <2>1. /\ pump' = [pump EXCEPT ![p] = next] /\ hand' = hand /\ r \in Requests
        /\ buf' = [buf EXCEPT ![r] = b]
    BY <1>r, <1>0, <1>4 DEF DropOldest
  <2>2. next \in PumpRecord /\ next.frame = pump[p].frame /\ next.sink = r
    BY <1>r, <1>0 DEF PumpRecord
  <2> HIDE DEF next
  <2>3. PumpsOK' /\ Carried' \in {{}, Carried}
    BY <2>1, <2>2, PumpChange DEF PumpRecord
  <2>4. /\ hand[r] \in Seq(Shown) /\ buf[r] \in Seq(Shown) /\ Lined(hand[r], buf[r])
        /\ hand' = [hand EXCEPT ![r] = hand[r]]
    BY <2>1 DEF SinksOK
  <2>5. b \in Seq(Shown) /\ Len(b) <= Len(buf[r]) /\ Sorted(b) /\ Elems(b) \subseteq Elems(buf[r])
    <3>1. CASE buf[r] = << >>
        BY <2>4, <3>1, LenProperties DEF Lined
    <3>2. CASE buf[r] # << >>
        BY <2>4, <3>2, SortedTail, LenProperties DEF Lined
    <3> QED BY <3>1, <3>2
  <2> HIDE DEF b
  <2>6. Lined(hand[r], b)
    BY <2>4, <2>5, LenProperties DEF Lined, BufferSize
  <2>7. /\ SinksOK' /\ InSink(r)' = Elems(hand[r]) \cup Elems(b)
        /\ \A q \in Requests \ {r} : InSink(q)' = InSink(q)
    BY <2>1, <2>4, <2>5, <2>6, SinkChange
  <2>8. \A q \in Requests : InSink(q)' \subseteq InSink(q)
    BY <2>5, <2>7 DEF InSink
  <2> QED BY <2>3, <2>7, <2>8, AheadKept
<1> QED BY <1>1, <1>2, <1>3, <1>4 DEF WriteFrame

\* A pump looks for a sink with a frame of its kind.
LEMMA LoadSinks ==
    ASSUME PlainTypes, PumpsOK, output' = output, NEW p \in Pumps, NEW f, LoadSink(p, f),
           p = FeedPump => f \in Cut,
           p = LatePump => f = Standby
    PROVE  /\ PumpsOK' /\ hand' = hand /\ buf' = buf
           /\ p = LatePump => Carried' = Carried
           /\ p = FeedPump => Carried' \in {Carried, {f}}
<1>1. hand' = hand /\ buf' = buf
    BY DEF LoadSink, sinkVars
<1>2. CASE pump' = pump
    BY <1>1, <1>2, SameShown DEF PumpsOK, Carried
<1>3. CASE pump' # pump
  <2> DEFINE next == [at |-> "lock", sink |-> videoOut, frame |-> <<f>>]
  <2>1. pump' = [pump EXCEPT ![p] = next] /\ videoOut # None
    BY <1>3 DEF LoadSink
  <2>2. f \in Shown
    BY PathConstants DEF Shown
  <2>3. <<f>> \in Seq(Shown) /\ Elems(<<f>>) = {f} /\ Len(<<f>>) = 1
    BY <2>2, SortedShort
  <2>4. videoOut \in Requests
    BY <2>1 DEF PlainTypes
  <2>5. next \in PumpRecord /\ next.frame = <<f>> /\ next.sink \in Requests
    BY <2>3, <2>4 DEF PumpRecord
  <2> HIDE DEF next
  <2>6. /\ pump' \in [Pumps -> PumpRecord] /\ pump'[p] = next
        /\ \A q \in Pumps \ {p} : pump'[q] = pump[q]
    BY <2>1, <2>5 DEF PumpsOK, PumpRecord
  <2>7. Len(pump'[p].frame) <= 1 /\ Elems(pump'[p].frame) = {f}
    <3>1. pump'[p].frame = <<f>>
        BY <2>5, <2>6
    <3>2. Len(pump'[p].frame) = 1
        BY <2>3, <3>1
    <3> QED BY <2>3, <3>1, <3>2
  <2>8. \A q \in Pumps : /\ Len(pump'[q].frame) <= 1
                         /\ pump'[q].at # "idle" => pump'[q].sink \in Requests
    BY <2>5, <2>6, <2>7 DEF PumpsOK
  <2>9. /\ Elems(pump'[FeedPump].frame) \subseteq Cut
        /\ Elems(pump'[LatePump].frame) \subseteq {Standby}
    BY <2>6, <2>7, PathConstants DEF PumpsOK
  <2>10. PumpsOK'
    BY <2>6, <2>8, <2>9, SameShown DEF PumpsOK, PumpRecord
  <2>11. /\ (p = LatePump => Carried' = Carried)
         /\ (p = FeedPump => Carried' = {f})
    BY <2>6, <2>7, PathConstants DEF Carried
  <2> QED BY <1>1, <2>10, <2>11
<1> QED BY <1>2, <1>3

\* The images there are.
LEMMA ElemsIn ==
    ASSUME NEW S, NEW s \in Seq(S)
    PROVE  Elems(s) \subseteq S
BY LenProperties DEF Elems

LEMMA OnTheWay ==
    ASSUME SourceOK, PumpsOK, SinksOK
    PROVE  /\ \A r \in Requests : InSink(r) \subseteq Shown
           /\ Carried \subseteq Cut /\ Elems(sub) \subseteq Cut
<1>1. \A r \in Requests : Elems(hand[r]) \subseteq Shown /\ Elems(buf[r]) \subseteq Shown
    BY ElemsIn DEF SinksOK
<1>2. Elems(sub) \subseteq Cut
    BY ElemsIn DEF SourceOK
<1> QED BY <1>1, <1>2 DEF InSink, PumpsOK, Carried

LEMMA PositionNat ==
    ASSUME SourceOK
    PROVE  Position \in Nat \ {0} /\ output \in Seq(Byte)
<1>1. output \in Seq(Byte) /\ Len(output) \in Nat
    BY PathConstants, LenProperties DEF SourceOK
<1>2. CASE read = << >>
    BY <1>1, <1>2 DEF Position
<1>3. CASE read # << >>
  <2>1. Len(read) \in DOMAIN read
    BY <1>3, LenProperties, EmptySeq DEF SourceOK
  <2>2. read[Len(read)] \in Cut
    BY <2>1, LenProperties DEF SourceOK
  <2>3. read[Len(read)][2] \in 1..Len(output)
    BY <2>2 DEF Cut
  <2> QED BY <1>1, <1>3, <2>3 DEF Position
<1> QED BY <1>2, <1>3

\* The splitter returns the next image, behind all there are.
LEMMA BroadcastInv ==
    ASSUME PathInv, Broadcast
    PROVE  PathInv'
<1> USE DEF PathInv
<1>1. /\ output' = output /\ late' = late /\ hand' = hand /\ buf' = buf /\ pump' = pump
      /\ read' = Append(read, Upcoming) /\ Upcoming[1] # EOF
      /\ sub' \in {sub, <<Upcoming>>}
    BY DEF Broadcast, handlerVars, sinkVars
<1>2. PlainTypes'
    BY DEF Broadcast, handlerVars, pageVars, sinkVars, PlainTypes
<1>3. Position \in Nat \ {0} /\ output \in Seq(Byte)
    BY PositionNat
<1>4. Upcoming \in Cut /\ Position <= Upcoming[1] /\ Upcoming # Standby
    BY <1>1, <1>3, UpcomingCut
<1>5. <<Upcoming>> \in Seq(Cut) /\ Elems(<<Upcoming>>) = {Upcoming} /\ Len(<<Upcoming>>) = 1
    BY <1>4, SortedShort
<1>6. SourceOK'
  <2>1. read' \in Seq(Cut)
    BY <1>1, <1>4, AppendProperties DEF SourceOK
  <2>2. sub' \in Seq(Cut)
    BY <1>1, <1>5 DEF SourceOK
  <2>3. Len(sub') <= 1
    <3>1. CASE sub' = sub
        BY <3>1 DEF SourceOK
    <3>2. CASE sub' = <<Upcoming>>
        BY <1>5, <3>2
    <3> QED BY <1>1, <3>1, <3>2
  <2> QED BY <1>1, <2>1, <2>2, <2>3, SameShown DEF SourceOK
<1>7. PumpsOK' /\ SinksOK'
    BY <1>1, SameShown DEF PumpsOK, SinksOK
<1>8. Carried' = Carried /\ \A r \in Requests : InSink(r)' = InSink(r)
    BY <1>1 DEF Carried, InSink
<1>9. Position' = Upcoming[2] + 1
  <2>1. /\ read' # << >> /\ Len(read') = Len(read) + 1
        /\ read'[Len(read) + 1] = Upcoming
    BY <1>1, <1>4, AppendProperties DEF SourceOK
  <2> QED BY <2>1 DEF Position
<1>10. Elems(sub') \subseteq Elems(sub) \cup {Upcoming}
    BY <1>1, <1>5
<1>11. \A f \in Cut : f[1] \in Int /\ f[2] \in Int /\ f[1] < f[2]
    BY <1>3, LenProperties DEF Cut
<1>12. ASSUME NEW f \in Shown, f # Standby => f[2] < Position
       PROVE  Behind(f, Upcoming) /\ (f # Standby => f[2] < Position')
  <2>1. CASE f = Standby
    BY <2>1 DEF Behind
  <2>2. CASE f # Standby
    <3> DEFINE end == f[2]
               a == Upcoming[1]
               b == Upcoming[2]
               n == Position
    <3>1. /\ end \in Int /\ a \in Int /\ b \in Int /\ n \in Int
          /\ end < n /\ n <= a /\ a < b
        BY <1>3, <1>4, <1>11, <1>12, <2>2 DEF Shown
    <3> HIDE DEF end, a, b, n
    <3>2. end < a /\ end < b + 1
        BY ONLY <3>1
    <3> QED BY <1>9, <3>2 DEF Behind, end, a, b
  <2> QED BY <2>1, <2>2
<1>13. Upcoming[2] < Position'
    BY <1>4, <1>9, <1>11
<1>14. /\ \A r \in Requests : InSink(r) \subseteq Shown
       /\ Carried \subseteq Shown /\ Elems(sub) \subseteq Shown
    BY OnTheWay DEF Shown
<1>15. Standby \notin Cut
    BY <1>3, LenProperties DEF Cut, Standby
<1>16. \A f \in Carried \cup Elems(sub) : f # Standby /\ f[2] < Position
    BY <1>15, OnTheWay DEF Ahead
<1>17. \A r \in Requests : \A f \in InSink(r) :
          /\ \A g \in Carried \cup Elems(sub') : Behind(f, g)
          /\ f # Standby => f[2] < Position'
    BY <1>10, <1>12, <1>14 DEF Ahead
<1>18. \A f \in Carried : \A g \in Elems(sub') : Behind(f, g)
    BY <1>10, <1>12, <1>14, <1>16 DEF Ahead
<1>19. \A f \in Carried \cup Elems(sub') : f[2] < Position'
    BY <1>10, <1>12, <1>13, <1>14, <1>16
<1>20. Ahead'
    BY <1>8, <1>17, <1>18, <1>19 DEF Ahead
<1> QED BY <1>2, <1>6, <1>7, <1>20

\* The pump of the Channel takes the image that waits for it.
LEMMA FeedInv ==
    ASSUME PathInv, Feed
    PROVE  PathInv'
<1> USE DEF PathInv
<1> DEFINE f == Head(sub)
<1>1. /\ output' = output /\ read' = read /\ late' = late /\ sub' = Tail(sub)
      /\ sub # << >> /\ pump[FeedPump] = Resting
    BY DEF Feed
<1>2. Len(sub) = 1
  <2>1. Len(sub) \in Nat /\ Len(sub) <= 1
    BY LenProperties DEF SourceOK
  <2>2. Len(sub) # 0
    BY <1>1, EmptySeq DEF SourceOK
  <2> DEFINE n == Len(sub)
  <2>3. n \in Nat /\ n <= 1 /\ n # 0
    BY <2>1, <2>2
  <2> HIDE DEF n
  <2>4. n = 1
    BY ONLY <2>3
  <2> QED BY <2>4 DEF n
<1>3. Sorted(sub)
    BY <1>2, LenProperties DEF Sorted, SourceOK
<1>4. Tail(sub) \in Seq(Cut) /\ f \in Cut /\ Len(Tail(sub)) = 0 /\ f \in Elems(sub)
    BY <1>1, <1>2, <1>3, SortedTail DEF SourceOK
<1>5. SourceOK' /\ Elems(sub') = {}
    BY <1>1, <1>4, EmptySeq, LenProperties, SameShown DEF SourceOK, Elems
<1> HIDE DEF f
<1>6. PlainTypes' /\ PumpsOK' /\ hand' = hand /\ buf' = buf /\ Carried' \in {Carried, {f}}
  <2>1. CASE registered
    <3>1. LoadSink(FeedPump, f)
        BY <2>1 DEF Feed, f
    <3> QED BY <1>1, <1>4, <3>1, LoadSinks, PlainStep, PathConstants
  <2>2. CASE ~registered
    <3>1. UNCHANGED handlerVars
        BY <2>2 DEF Feed
    <3> QED BY <1>1, <3>1, SameShown
            DEF handlerVars, pageVars, sinkVars, PlainTypes, PumpsOK, Carried
  <2> QED BY <2>1, <2>2 DEF PlainTypes
<1>7. SinksOK' /\ \A r \in Requests : InSink(r)' = InSink(r)
    BY <1>1, <1>6, SameShown DEF SinksOK, InSink
<1>8. Carried = {} /\ Position' = Position
    BY <1>1, RestingRecord DEF Carried, Elems, Position
<1>9. Carried' \subseteq Elems(sub)
    BY <1>4, <1>6, <1>8
<1>10. Ahead'
    BY <1>5, <1>7, <1>8, <1>9 DEF Ahead
<1> QED BY <1>5, <1>6, <1>7, <1>10

\* The other pump brings the standby frame.
LEMMA FeedLateInv ==
    ASSUME PathInv, FeedLate
    PROVE  PathInv'
<1> USE DEF PathInv
<1>1. output' = output /\ read' = read /\ sub' = sub /\ late' = FALSE
      /\ LoadSink(LatePump, Standby)
    BY DEF FeedLate
<1>2. PlainTypes'
    BY <1>1, PlainStep
<1>3. PumpsOK' /\ hand' = hand /\ buf' = buf /\ Carried' = Carried
    BY <1>1, LoadSinks, PathConstants
<1>4. SinksOK' /\ \A r \in Requests : InSink(r)' = InSink(r)
    BY <1>1, <1>3, SameShown DEF SinksOK, InSink
<1>5. SourceOK'
    BY <1>1, SameShown DEF SourceOK
<1>6. Ahead'
    BY <1>1, <1>3, <1>4, AheadKept
<1> QED BY <1>2, <1>3, <1>4, <1>5, <1>6

LEMMA PathStep == PathInv /\ [PathNext]_pathVars => PathInv'
<1> SUFFICES ASSUME PathInv, [PathNext]_pathVars PROVE PathInv'
    OBVIOUS
<1>1. ASSUME UNCHANGED <<output, read, sub, late>>, PlainTypes', PumpsOK', SinksOK', Ahead'
      PROVE  PathInv'
    BY <1>1, SameShown DEF PathInv, SourceOK
<1>2. ASSUME UNCHANGED sourceVars, NEW r \in Requests, Handle(r) PROVE PathInv'
  <2>1. PlainTypes'
    BY <1>2, PlainStep DEF PathInv
  <2>2. SinksOK' /\ pump' = pump /\ \A q \in Requests : InSink(q)' \subseteq InSink(q)
    BY <1>2, HandleSinks DEF PathInv, sourceVars
  <2>3. PumpsOK' /\ Carried' = Carried
    BY <1>2, <2>2, SameShown DEF PathInv, PumpsOK, Carried, sourceVars
  <2>4. Ahead'
    BY <1>2, <2>2, <2>3, AheadKept DEF PathInv, sourceVars
  <2> QED BY <1>1, <1>2, <2>1, <2>2, <2>3, <2>4 DEF sourceVars
<1>3. ASSUME UNCHANGED sourceVars, NEW p \in Pumps, WriteFrame(p) PROVE PathInv'
  <2>1. PlainTypes'
    BY <1>3, PlainStep DEF PathInv
  <2>2. PumpsOK' /\ SinksOK' /\ Ahead'
    BY <1>3, WriteSinks DEF PathInv, sourceVars
  <2> QED BY <1>1, <1>3, <2>1, <2>2 DEF sourceVars
<1>4. ASSUME UNCHANGED sourceVars, UNCHANGED <<hand, buf, pump>>, PlainTypes' PROVE PathInv'
  <2>1. PumpsOK' /\ SinksOK'
    BY <1>4, SameShown DEF PathInv, PumpsOK, SinksOK, sourceVars
  <2>2. Carried' = Carried /\ \A q \in Requests : InSink(q)' = InSink(q)
    BY <1>4 DEF Carried, InSink
  <2>3. Ahead'
    BY <1>4, <2>2, AheadKept DEF PathInv, sourceVars
  <2> QED BY <1>1, <1>4, <2>1, <2>3 DEF sourceVars
<1>5. ASSUME UNCHANGED sourceVars, Page PROVE PathInv'
  <2>1. PlainTypes'
    BY <1>5, PlainStep DEF PathInv
  <2>2. UNCHANGED <<hand, buf, pump>>
    BY <1>5 DEF Page, NewURL, GiveUp, EndSession, sinkVars
  <2> QED BY <1>4, <1>5, <2>1, <2>2
<1>6. ASSUME UNCHANGED pathVars PROVE PathInv'
  <2>1. PlainTypes'
    BY <1>6 DEF PathInv, PlainTypes, pathVars, handlerVars, pageVars, sinkVars
  <2> QED BY <1>4, <1>6, <2>1 DEF pathVars, handlerVars, sinkVars
<1> QED BY <1>2, <1>3, <1>5, <1>6, BroadcastInv, FeedInv, FeedLateInv DEF PathNext

-----------------------------------------------------------------------------
(* What the invariant of the path gives.                                   *)

LEMMA InvTypes == PathInv => PathTypeOK
<1> SUFFICES ASSUME PathInv PROVE PathTypeOK
    OBVIOUS
<1> USE DEF PathInv
<1>1. Cut \subseteq Frames /\ Shown \subseteq Frames
    BY PathConstants DEF Cut, Shown, SourceOK
<1>2. Seq(Cut) \subseteq Seq(Frames) /\ Seq(Shown) \subseteq Seq(Frames)
    BY <1>1, SeqMonotonic
<1>3. read \in Seq(Frames) /\ sub \in Seq(Frames)
    BY <1>2 DEF SourceOK
<1>4. hand \in [Requests -> Seq(Frames)] /\ buf \in [Requests -> Seq(Frames)]
    BY <1>2 DEF SinksOK
<1>5. \A r \in Requests : Len(buf[r]) <= BufferSize
    BY DEF SinksOK, Lined
<1>6. pump \in [Pumps -> [at : {"idle", "lock", "send", "drop"},
                          sink : Requests \cup {None}, frame : Seq(Frames)]]
    BY <1>2 DEF PumpsOK
<1>7. HandlerTypeOK
    BY <1>4, <1>5, <1>6 DEF HandlerTypeOK, PlainTypes
<1> QED BY <1>3, <1>7 DEF PathTypeOK, SourceOK

LEMMA InvOrder == PathInv => InOrder
<1> SUFFICES ASSUME PathInv, NEW r \in Requests PROVE Sorted(hand[r] \o buf[r])
    BY DEF InOrder
<1>1. /\ hand[r] \in Seq(Shown) /\ buf[r] \in Seq(Shown) /\ Lined(hand[r], buf[r])
    BY DEF PathInv, SinksOK
<1>2. Sorted(hand[r])
    BY <1>1, LenProperties DEF Lined, Sorted
<1> QED BY <1>1, <1>2, SortedConcat DEF Lined

\* A step of the splitter.
LEMMA StepSplits == PathInv /\ [PathNext]_pathVars => SplitStep
<1> SUFFICES ASSUME PathInv, [PathNext]_pathVars, Unfilled(output), read' # read
             PROVE  /\ IsFrameAfter(output, Position, read'[Len(read')][1], read'[Len(read')][2])
                    /\ Upcoming'[1] = EOF =>
                         \A a, b \in Position'..Len(output) : ~IsFrameAfter(output, Position', a, b)
    BY DEF SplitStep
<1>1. Broadcast
    BY DEF PathNext, Feed, FeedLate, sourceVars, pathVars
<1>3. Position \in Nat \ {0} /\ output \in Seq(Byte) /\ output' = output
    BY <1>1, PositionNat DEF PathInv, Broadcast
<1>4. /\ read'[Len(read')] = Upcoming
      /\ Position' \in Nat \ {0}
  <2>1. Upcoming \in Cut
    BY <1>1, <1>3, UpcomingCut DEF Broadcast
  <2>2. read' # << >> /\ read'[Len(read')] = Upcoming
    BY <1>1, <2>1, AppendProperties DEF Broadcast, PathInv, SourceOK
  <2>3. Upcoming[2] \in Nat
    BY <1>3, <2>1, LenProperties DEF Cut
  <2> QED BY <2>2, <2>3 DEF Position
<1>5. IsFrameAfter(output, Position, Upcoming[1], Upcoming[2])
    BY <1>1, <1>3, NextReturnsTheFrame DEF Upcoming, Broadcast
<1>6. ASSUME Upcoming'[1] = EOF
      PROVE  \A a, b \in Position'..Len(output) : ~IsFrameAfter(output, Position', a, b)
  <2>1. NextFrame(output, Position')[1] = EOF
    BY <1>3, <1>6 DEF Upcoming
  <2>2. Position' \in Nat \ {0} /\ Len(output) \in Nat
    BY <1>3, <1>4, LenProperties
  <2>3. ASSUME NEW a \in Position'..Len(output), NEW b \in Position'..Len(output)
        PROVE  ~IsFrameAfter(output, Position', a, b)
    <3>1. a \in Nat /\ b \in Nat
        BY <2>2
    <3> QED BY <1>3, <2>1, <2>2, <3>1, NextEndsAfterTheLast
  <2> QED BY <2>3
<1> QED BY <1>4, <1>5, <1>6

-----------------------------------------------------------------------------
\* The images on their way stay in order, for every output of ffmpeg and any
\* number of requests.
THEOREM OrderInvariance == PathSpec => []PathInv
<1> QED BY PathInitInv, PathStep, PTL DEF PathSpec

\* The path keeps to its types.
THEOREM PathTypes == PathSpec => []PathTypeOK
BY OrderInvariance, InvTypes, PTL

\* From ffmpeg's output to the page come whole images in their order, one of
\* each (jpeg.go:23-27,36, mjpeg.go:31); whole of the outputs without a fill byte
\* before an EOI, in order of every output.
THEOREM PicturesAreExact == PathSpec => PictureExact
<1>1. PathInv /\ [PathNext]_pathVars => [SplitStep]_pathVars
    BY StepSplits
<1> QED BY <1>1, InvOrder, OrderInvariance, PTL DEF PathSpec, PictureExact
=============================================================================
