------------------------------ MODULE KeyPath ------------------------------
(***************************************************************************)
(* A key edge from the Client's goroutine to the Channel's KeyEventSink:   *)
(* Application with the loop of Channel.Run (channel.go), the modifier     *)
(* mask KbdState and the sink call.                                        *)
(*                                                                         *)
(* edgeCh is unbuffered, so a sender waits inside SendKeyEdge until a Run  *)
(* goroutine takes its edge.  KbdState has no lock: Run's read, its write  *)
(* and its second read for the stamp are separate steps, so that two Run   *)
(* goroutines of one Channel (a cancelled one that stopChannelLocked did   *)
(* not wait for, and its successor) interleave as their memory accesses    *)
(* may.                                                                    *)
(***************************************************************************)
EXTENDS Application

CONSTANTS
    Modifiers,   \* key codes with IsModifier; the mask is a set of them
    PlainKeys,   \* the other key codes
    NoEdge       \* no key edge

Codes == Modifiers \cup PlainKeys

ASSUME CodesDistinct == Modifiers \cap PlainKeys = {}

\* keyEdge of channel.go.
Edge == [code : Codes, down : BOOLEAN]

ASSUME NoEdgeDistinct == NoEdge \notin Edge

VARIABLES
    edge,        \* edge[c]: the edge c's goroutine is sending
    kbd,         \* kbd[ch]: KbdState.Modifiers
    job,         \* job[ch][h]: what the body of Run's loop is doing
    ref,         \* history: the mask after the edges taken so far, in order
    raced        \* history: raced[ch]: two Run bodies of ch have overlapped

keyVars == <<edge, kbd, job, ref, raced>>
allVars == <<vars, keyVars>>

\* Run is in its select ("select"), or holds an edge e: "load" and "store" are
\* the two halves of the |= or &^= on the mask, "stamp" the read into the
\* KeyEvent, "report" the call of the sink.
Idle == [at |-> "select", e |-> NoEdge, mask |-> {}]

Job == {Idle} \cup [at : {"load", "store", "stamp", "report"}, e : Edge,
                    mask : SUBSET Modifiers]

KeyTypeOK ==
    /\ TypeOK
    /\ edge \in [Clients -> Edge \cup {NoEdge}]
    /\ kbd \in [Channels -> SUBSET Modifiers]
    /\ job \in [Channels -> [Handles -> Job]]
    /\ ref \in [Channels -> SUBSET Modifiers]
    /\ raced \in [Channels -> BOOLEAN]

KeyInit ==
    /\ Init
    /\ edge = [c \in Clients |-> NoEdge]
    /\ kbd = [ch \in Channels |-> {}]
    /\ job = [ch \in Channels |-> [h \in Handles |-> Idle]]
    /\ ref = [ch \in Channels |-> {}]
    /\ raced = [ch \in Channels |-> FALSE]

-----------------------------------------------------------------------------
\* The mask after edge e: the body of Run's "if e.Code.IsModifier()".
Applied(mask, e) ==
    CASE e.code \notin Modifiers -> mask
      [] e.code \in Modifiers /\ e.down -> mask \cup {e.code}
      [] e.code \in Modifiers /\ ~e.down -> mask \ {e.code}

Press(c, e) ==
    /\ RecordKeyEvent(c)
    /\ edge' = [edge EXCEPT ![c] = e]
    /\ UNCHANGED <<kbd, job, ref, raced>>

\* The rendezvous on edgeCh: Run's select takes the edge of a waiting sender.
TakeEdge(c, h) ==
    LET ch == req[c]
        e  == edge[c] IN
    /\ SendKeyEdge(c, h)
    /\ job[ch][h] = Idle
    /\ job' = [job EXCEPT ![ch][h] =
                  [at   |-> IF e.code \in Modifiers THEN "load" ELSE "stamp",
                   e    |-> e, mask |-> {}]]
    /\ edge' = [edge EXCEPT ![c] = NoEdge]
    /\ ref' = [ref EXCEPT ![ch] = Applied(@, e)]
    /\ raced' = [raced EXCEPT ![ch] = @ \/ \E g \in Handles \ {h} : job[ch][g] # Idle]
    /\ UNCHANGED kbd

LoadMask(ch, h) ==
    /\ job[ch][h].at = "load"
    /\ job' = [job EXCEPT ![ch][h].mask = kbd[ch], ![ch][h].at = "store"]
    /\ UNCHANGED <<vars, edge, kbd, ref, raced>>

\* Fault: a key up does not clear its bit.
StoreMaskOrs(ch, h) ==
    /\ job[ch][h].at = "store"
    /\ kbd' = [kbd EXCEPT ![ch] = job[ch][h].mask \cup {job[ch][h].e.code}]
    /\ job' = [job EXCEPT ![ch][h].mask = {}, ![ch][h].at = "stamp"]
    /\ UNCHANGED <<vars, edge, ref, raced>>

StoreMask(ch, h) ==
    /\ job[ch][h].at = "store"
    /\ kbd' = [kbd EXCEPT ![ch] = Applied(job[ch][h].mask, job[ch][h].e)]
    /\ job' = [job EXCEPT ![ch][h].mask = {}, ![ch][h].at = "stamp"]
    /\ UNCHANGED <<vars, edge, ref, raced>>

StampEvent(ch, h) ==
    /\ job[ch][h].at = "stamp"
    /\ job' = [job EXCEPT ![ch][h].mask = kbd[ch], ![ch][h].at = "report"]
    /\ UNCHANGED <<vars, edge, kbd, ref, raced>>

\* Fault: Run goes back to its select with the edge still in hand.
ReportKeyEventKeeps(ch, h) ==
    /\ job[ch][h].at = "report"
    /\ job' = [job EXCEPT ![ch][h].at = "select"]
    /\ UNCHANGED <<vars, edge, kbd, ref, raced>>

\* KeyOut.ReportKeyEvent returns and Run goes back to its select.
ReportKeyEvent(ch, h) ==
    /\ job[ch][h].at = "report"
    /\ job' = [job EXCEPT ![ch][h] = Idle]
    /\ UNCHANGED <<vars, edge, kbd, ref, raced>>

Body(ch, h) ==
    LoadMask(ch, h) \/ StoreMask(ch, h) \/ StampEvent(ch, h) \/ ReportKeyEvent(ch, h)

\* Run sees ctx.Done only in its select.
LeaveRun(ch, h) ==
    /\ job[ch][h] = Idle
    /\ RunExit(ch, h)
    /\ UNCHANGED keyVars

Elsewhere ==
    /\ \/ \E c \in Clients :
             \/ AddClient(c)
             \/ \E t \in Channels \cup {Nil} : SwitchChannel(c, t)
             \/ RemoveClient(c)
             \/ Proceed(c)
       \/ \E ch \in Channels, h \in Handles :
             NotifyBegin(ch, h) \/ NotifyEnd(ch, h) \/ SuperviseExit(ch, h)
    /\ UNCHANGED keyVars

KeyNext ==
    \/ \E c \in Clients, e \in Edge : Press(c, e)
    \/ \E c \in Clients, h \in Handles : TakeEdge(c, h)
    \/ \E ch \in Channels, h \in Handles : Body(ch, h) \/ LeaveRun(ch, h)
    \/ Elsewhere

KeySpec == KeyInit /\ [][KeyNext]_allVars

\* The scheduler runs every goroutine that can run; the sink's call returns
\* (a serial write is unbounded in the code: see the README); edgeCh queues
\* its senders first come first served.  A cancelled Run may go on for ever.
KeyFairness ==
    /\ \A ch \in Channels, h \in Handles : WF_allVars(Body(ch, h))
    /\ \A c \in Clients : SF_allVars(\E h \in Handles : TakeEdge(c, h))

KeyFairSpec == KeySpec /\ KeyFairness

-----------------------------------------------------------------------------
(* Properties.                                                             *)

\* No goroutine is inside Run's body.
Quiet(ch) == \A h \in Handles : job[ch][h] = Idle

\* As long as no two Run bodies of the Channel have overlapped, the stored
\* mask is the edges of all its Clients applied in the order they were taken,
\* and each KeyEvent carries the mask right after its own edge (channel.go:88-109).
\* That the Clients of a Channel share the mask is the code's choice: HeldKeys
\* says what it means to one of them.
MaskExact ==
    \A ch \in Channels : ~raced[ch] =>
        /\ Quiet(ch) => kbd[ch] = ref[ch]
        /\ \A h \in Handles : job[ch][h].at = "report" => job[ch][h].mask = ref[ch]

\* Every edge a Client sends is taken, and every edge taken is reported (no
\* sender stays in SendKeyEdge, no Run in its body), although Channels stop and
\* start under the drainers.
EdgesReported ==
    /\ \A c \in Clients : []<>(pc[c] # "sending")
    /\ \A ch \in Channels, h \in Handles : []<>(job[ch][h] = Idle)

\* channel.go: "the chan order is the sole linearizer for both KbdState
\* mutation and sink delivery", "the single drainer is the sole writer to
\* KbdState".  Whenever no Run body is active the mask is that of the edges
\* in the order they were taken.  (Refuted: Run goroutines overlap.)
ChanOrderLinearizes ==
    \A ch \in Channels : Quiet(ch) => kbd[ch] = ref[ch]
=============================================================================
