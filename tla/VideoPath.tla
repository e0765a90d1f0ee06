----------------------------- MODULE VideoPath -----------------------------
(***************************************************************************)
(* From ffmpeg's output to the page: one run of ffmpeg, the goroutine that *)
(* splits its output and the pump that broadcasts the frames (v4l.go), the *)
(* subscription of a Channel (application.go, pumpFrames) and its fan-out  *)
(* into the streams of a Client (StreamHandler).  A second pump writes a   *)
(* standby frame late, as the no-channel pump may, which is not awaited.   *)
(***************************************************************************)
EXTENDS StreamHandler, JpegSplitter

CONSTANTS
    Outputs,      \* what ffmpeg may write
    FeedPump,     \* the pump of the Channel
    LatePump      \* the no-channel pump

\* The standby frame is no part of the output.
Standby == <<0, 0>>

\* A frame is the positions of its first and last byte.
ASSUME PathConstants ==
    /\ Pumps = {FeedPump, LatePump} /\ FeedPump # LatePump
    /\ Outputs \subseteq Seq(Byte)
    /\ Standby \in Frames
    /\ \A out \in Outputs : (1..Len(out)) \X (1..Len(out)) \subseteq Frames

VARIABLES
    output,  \* what this ffmpeg writes
    read,    \* history: the frames the splitter has returned
    sub,     \* the subscriber's channel
    late     \* the late frame is still to come

sourceVars == <<output, read, sub, late>>
pathVars == <<handlerVars, sourceVars>>

PathTypeOK ==
    /\ HandlerTypeOK
    /\ output \in Outputs
    /\ read \in Seq(Frames)
    /\ sub \in Seq(Frames) /\ Len(sub) <= 1
    /\ late \in BOOLEAN

PathInit ==
    /\ HandlerInit
    /\ output \in Outputs
    /\ read = << >> /\ sub = << >>
    /\ late = TRUE

-----------------------------------------------------------------------------
Position == IF read = << >> THEN 1 ELSE read[Len(read)][2] + 1

Upcoming == NextFrame(output, Position)

\* Fault: frames queue up for a subscriber that is behind.
BroadcastQueues ==
    /\ Upcoming[1] # EOF
    /\ read' = Append(read, Upcoming)
    /\ sub' = Append(sub, Upcoming)
    /\ UNCHANGED <<handlerVars, output, late>>

\* The splitter returns a frame, its goroutine hands it to the pump, and
\* broadcast sends it: a subscriber that is behind misses it.
Broadcast ==
    /\ Upcoming[1] # EOF
    /\ read' = Append(read, Upcoming)
    /\ sub' = IF sub = << >> THEN <<Upcoming>> ELSE sub
    /\ UNCHANGED <<handlerVars, output, late>>

\* pumpFrames takes a frame, and Fanout comes to the Client if it is still one
\* of the Channel.
Feed ==
    /\ sub # << >> /\ pump[FeedPump] = Resting
    /\ sub' = Tail(sub)
    /\ IF registered THEN LoadSink(FeedPump, Head(sub)) ELSE UNCHANGED handlerVars
    /\ UNCHANGED <<output, read, late>>

\* The late frame, which asks for no Channel.
FeedLate ==
    /\ late
    /\ late' = FALSE
    /\ LoadSink(LatePump, Standby)
    /\ UNCHANGED <<output, read, sub>>

PathNext ==
    \/ Broadcast \/ Feed \/ FeedLate
    \/ /\ \/ Page
          \/ \E r \in Requests : Handle(r)
          \/ \E p \in Pumps : WriteFrame(p)
       /\ UNCHANGED sourceVars

PathSpec == PathInit /\ [][PathNext]_pathVars

\* Handlers and pumps go on; frames and the page's doings may stop.
PathFairSpec ==
    /\ PathSpec
    /\ \A r \in Requests : WF_pathVars(Handle(r) /\ UNCHANGED sourceVars)
    /\ \A p \in Pumps : WF_pathVars(WriteFrame(p) /\ UNCHANGED sourceVars)

-----------------------------------------------------------------------------
(* Properties.                                                             *)

\* The splitter returns the image that follows, whole, with what is before it
\* left out, and the last one only if none follows.
SplitStep ==
    Unfilled(output) /\ read' # read =>
        LET f == read'[Len(read')] IN
        /\ IsFrameAfter(output, Position, f[1], f[2])
        /\ Upcoming'[1] = EOF =>
              \A a, b \in Position'..Len(output) : ~IsFrameAfter(output, Position', a, b)

\* Images in the order of the output, each once; standby frames do not count.
Sorted(line) ==
    \A i, j \in DOMAIN line :
        i < j /\ line[i] # Standby /\ line[j] # Standby => line[i][2] < line[j][1]

\* What a request was sent last and what waits in its sink.
InOrder == \A r \in Requests : Sorted(hand[r] \o buf[r])

\* From ffmpeg's output to the page come whole images in their order, one of
\* each: the splitter cuts at the markers (jpeg.go:23-27,36), and drops, on the
\* way or in the sink, never reorder (mjpeg.go:31).  That the images are whole is
\* not claimed of an output with a fill byte before an EOI: there the splitter
\* returns two images as one.  Their order is claimed of every output.
PictureExact == [][SplitStep /\ InOrder']_pathVars
=============================================================================
