---------------------------- MODULE Application ----------------------------
(***************************************************************************)
(* kvm.Application (server/internal/kvm/application.go) with the Client    *)
(* sets of its Channels (channel.go): which Client watches which Channel,  *)
(* and which goroutines that keeps alive.                                  *)
(*                                                                         *)
(* One goroutine per Client (http.handleWS) calls AddClient, then any      *)
(* number of SwitchChannel and RecordKeyEvent, then RemoveClient, one at a *)
(* time.  An operation that holds the Application lock a.mu is split where *)
(* something outside the lock can tell the difference: at every             *)
(* acquisition of a Channel's own lock ch.mu, which the video supervisor   *)
(* holds while it writes notifications to the network.                     *)
(*                                                                         *)
(* Requests the code refuses or ignores (an unknown id, the Channel the    *)
(* Client already has, a key with no Channel) change nothing: they are     *)
(* stuttering steps here.                                                  *)
(***************************************************************************)
CONSTANTS
    Clients,     \* *Client values; one is reused only once it is forgotten
    Channels,    \* *Channel values, all registered at start-up
    Handles,     \* *channelHandle values; bounds the incarnations of one
                 \* Channel that are alive at the same time
    VideoChannels, \* the Channels whose VideoIn is not nil
    Nil,         \* the nil *Channel: known but unattached
    Absent,      \* no entry in the clientChan map
    NoHandle,    \* no entry in the running map
    NoOne        \* nobody holds a.mu

ASSUME ConstantsDistinct ==
    /\ Nil \notin Channels
    /\ Absent \notin Channels
    /\ Nil # Absent
    /\ NoHandle \notin Handles
    /\ NoOne \notin Clients
    /\ VideoChannels \subseteq Channels

VARIABLES
    mu,              \* the Client whose goroutine holds a.mu for writing
    pc,              \* pc[c]: where the goroutine of c is
    req,             \* req[c]: what c's operation in progress asked for
    clientChan,      \* Application.clientChan
    channelClients,  \* Application.channelClients; no entry is the empty set
    running,         \* Application.running
    noChanPumps,     \* the keys of Application.noChanPumps
    members,         \* members[ch]: Channel.clients
    drainers,        \* drainers[ch]: the incarnations whose Run is alive
    videos,          \* videos[ch]: those whose superviseVideo is alive
    notifying,       \* notifying[ch]: those inside ForEachClient (ch.mu.RLock)
    keyedTo          \* keyedTo[c]: the Channel that took c's last edge, or Nil

locks == <<mu, pc, req>>
index == <<clientChan, channelClients, members>>
gors  == <<running, drainers, videos, notifying>>
vars  == <<locks, index, gors, noChanPumps, keyedTo>>

-----------------------------------------------------------------------------
(* Locations of a Client's goroutine.                                      *)

\* Holding a.mu.  The two "wait" locations have called ch.mu.Lock.
Critical == {"unregister", "unregisterWait", "detach", "attach",
             "register", "registerWait", "resume", "forget"}

Location == Critical \cup {"new", "idle", "sending", "emit"}

TypeOK ==
    /\ mu \in Clients \cup {NoOne}
    /\ pc \in [Clients -> Location]
    /\ req \in [Clients -> Channels \cup {Nil, Absent}]
    /\ clientChan \in [Clients -> Channels \cup {Nil, Absent}]
    /\ channelClients \in [Channels -> SUBSET Clients]
    /\ running \in [Channels -> Handles \cup {NoHandle}]
    /\ noChanPumps \in SUBSET Clients
    /\ members \in [Channels -> SUBSET Clients]
    /\ drainers \in [Channels -> SUBSET Handles]
    /\ videos \in [Channels -> SUBSET Handles]
    /\ notifying \in [Channels -> SUBSET Handles]
    /\ keyedTo \in [Clients -> Channels \cup {Nil}]

Init ==
    /\ mu = NoOne
    /\ pc = [c \in Clients |-> "new"]
    /\ req = [c \in Clients |-> Absent]
    /\ clientChan = [c \in Clients |-> Absent]
    /\ channelClients = [ch \in Channels |-> {}]
    /\ running = [ch \in Channels |-> NoHandle]
    /\ noChanPumps = {}
    /\ members = [ch \in Channels |-> {}]
    /\ drainers = [ch \in Channels |-> {}]
    /\ videos = [ch \in Channels |-> {}]
    /\ notifying = [ch \in Channels |-> {}]
    /\ keyedTo = [c \in Clients |-> Nil]

-----------------------------------------------------------------------------
(* Operations of a Client's goroutine.                                     *)

Goto(c, l) == pc' = [pc EXCEPT ![c] = l]

\* An operation ends: its local variables go, and a.mu is free.
Return(c, l) ==
    /\ Goto(c, l)
    /\ req' = [req EXCEPT ![c] = Absent]
    /\ mu' = NoOne

AddClient(c) ==
    /\ pc[c] = "new"
    /\ mu = NoOne
    /\ clientChan' = [clientChan EXCEPT ![c] = Nil]
    /\ noChanPumps' = noChanPumps \cup {c}
    /\ Goto(c, "idle")
    /\ UNCHANGED <<mu, req, channelClients, members, gors, keyedTo>>

\* The bound on incarnations: no switch starts a Channel whose Handles are all
\* in use by goroutines that have yet to leave.
FreeHandles(ch) == Handles \ (drainers[ch] \cup videos[ch])

MayStart(ch) == ch \in Channels => channelClients[ch] # {} \/ FreeHandles(ch) # {}

\* Fault: the no-channel pump of a Client that attaches is not stopped.
SwitchChannelKeepsPump(c, t) ==
    /\ pc[c] = "idle"
    /\ mu = NoOne
    /\ clientChan[c] # t
    /\ MayStart(t)
    /\ mu' = c
    /\ req' = [req EXCEPT ![c] = t]
    /\ Goto(c, IF clientChan[c] = Nil THEN "attach" ELSE "unregister")
    /\ UNCHANGED <<index, gors, noChanPumps, keyedTo>>

\* SwitchChannel up to its detachLocked; t = Nil stands for NoChannelID.
SwitchChannel(c, t) ==
    /\ pc[c] = "idle"
    /\ mu = NoOne
    /\ clientChan[c] # t
    /\ MayStart(t)
    /\ mu' = c
    /\ req' = [req EXCEPT ![c] = t]
    /\ noChanPumps' = IF t = Nil THEN noChanPumps ELSE noChanPumps \ {c}
    /\ Goto(c, IF clientChan[c] = Nil THEN "attach" ELSE "unregister")
    /\ UNCHANGED <<index, gors, keyedTo>>

\* Fault: the pump of a Client that disconnects is not stopped.
RemoveClientLeavesPump(c) ==
    /\ pc[c] = "idle"
    /\ mu = NoOne
    /\ mu' = c
    /\ req' = [req EXCEPT ![c] = Absent]
    /\ Goto(c, IF clientChan[c] = Nil THEN "forget" ELSE "unregister")
    /\ UNCHANGED <<index, gors, noChanPumps, keyedTo>>

\* The connection ended: RemoveClient up to its detachLocked.
RemoveClient(c) ==
    /\ pc[c] = "idle"
    /\ mu = NoOne
    /\ mu' = c
    /\ req' = [req EXCEPT ![c] = Absent]
    /\ noChanPumps' = noChanPumps \ {c}
    /\ Goto(c, IF clientChan[c] = Nil THEN "forget" ELSE "unregister")
    /\ UNCHANGED <<index, gors, keyedTo>>

\* The goroutine calls ch.mu.Lock: from now on new readers wait behind it.
LockChannel(c) ==
    /\ \/ pc[c] = "unregister" /\ Goto(c, "unregisterWait")
       \/ pc[c] = "register" /\ Goto(c, "registerWait")
    /\ UNCHANGED <<mu, req, index, gors, noChanPumps, keyedTo>>

\* Fault: detachLocked does not call UnregisterClient.
UnregisterClientForgotten(c) ==
    /\ pc[c] = "unregisterWait"
    /\ Goto(c, "detach")
    /\ UNCHANGED <<mu, req, index, gors, noChanPumps, keyedTo>>

\* Fault: the set is changed without ch.mu, under a reader's iteration.
UnregisterClientUnlocked(c) ==
    LET ch == clientChan[c] IN
    /\ pc[c] = "unregisterWait"
    /\ members' = [members EXCEPT ![ch] = @ \ {c}]
    /\ Goto(c, "detach")
    /\ UNCHANGED <<mu, req, clientChan, channelClients, gors, noChanPumps, keyedTo>>

UnregisterClient(c) ==
    LET ch == clientChan[c] IN
    /\ pc[c] = "unregisterWait"
    /\ notifying[ch] = {}
    /\ members' = [members EXCEPT ![ch] = @ \ {c}]
    /\ Goto(c, "detach")
    /\ UNCHANGED <<mu, req, clientChan, channelClients, gors, noChanPumps, keyedTo>>

\* The rest of detachLocked, leaving r as the running map.
DetachTo(c, r) ==
    LET ch == clientChan[c] IN
    /\ pc[c] = "detach"
    /\ channelClients' = [channelClients EXCEPT ![ch] = @ \ {c}]
    /\ clientChan' = [clientChan EXCEPT ![c] = Nil]
    /\ running' = r
    /\ Goto(c, IF req[c] \in Channels THEN "attach"
               ELSE IF req[c] = Nil THEN "resume" ELSE "forget")
    /\ UNCHANGED <<mu, req, members, drainers, videos, notifying, noChanPumps, keyedTo>>

\* Fault: the entry of running is overwritten with nil and not deleted.
DetachStoresNil(c) ==
    DetachTo(c, IF channelClients[clientChan[c]] = {c}
                  THEN [running EXCEPT ![clientChan[c]] = Nil] ELSE running)

\* Fault: the goroutines are stopped although a Client is still attached.
DetachStopsAlways(c) ==
    DetachTo(c, [running EXCEPT ![clientChan[c]] = NoHandle])

\* stopChannelLocked cancels the goroutines of the incarnation of a Channel
\* that lost its last Client; it does not wait for them.
Detach(c) ==
    DetachTo(c, IF channelClients[clientChan[c]] = {c}
                  THEN [running EXCEPT ![clientChan[c]] = NoHandle] ELSE running)

\* startChannelLocked under a fresh context.
StartChannel(ch) ==
    \E h \in FreeHandles(ch) :
        /\ running' = [running EXCEPT ![ch] = h]
        /\ drainers' = [drainers EXCEPT ![ch] = @ \cup {h}]
        /\ videos' = IF ch \in VideoChannels
                       THEN [videos EXCEPT ![ch] = @ \cup {h}] ELSE videos

\* Fault: len(set) is read after c was added, so no Client is ever the first.
AttachNeverFirst(c) ==
    LET ch == req[c] IN
    /\ pc[c] = "attach"
    /\ channelClients' = [channelClients EXCEPT ![ch] = @ \cup {c}]
    /\ clientChan' = [clientChan EXCEPT ![c] = ch]
    /\ Goto(c, "register")
    /\ UNCHANGED <<mu, req, members, gors, noChanPumps, keyedTo>>

\* Fault: every Client that attaches starts the Channel.
AttachStartsAlways(c) ==
    LET ch == req[c] IN
    /\ pc[c] = "attach"
    /\ StartChannel(ch)
    /\ channelClients' = [channelClients EXCEPT ![ch] = @ \cup {c}]
    /\ clientChan' = [clientChan EXCEPT ![c] = ch]
    /\ Goto(c, "register")
    /\ UNCHANGED <<mu, req, members, notifying, noChanPumps, keyedTo>>

\* attachLocked up to its RegisterClient.
Attach(c) ==
    LET ch == req[c] IN
    /\ pc[c] = "attach"
    /\ IF channelClients[ch] = {}
         THEN StartChannel(ch)
         ELSE UNCHANGED <<running, drainers, videos>>
    /\ channelClients' = [channelClients EXCEPT ![ch] = @ \cup {c}]
    /\ clientChan' = [clientChan EXCEPT ![c] = ch]
    /\ Goto(c, "register")
    /\ UNCHANGED <<mu, req, members, notifying, noChanPumps, keyedTo>>

\* Fault: only the first Client of a Channel is registered for fan-out.
RegisterClientFirstOnly(c) ==
    LET ch == req[c] IN
    /\ pc[c] = "registerWait"
    /\ notifying[ch] = {}
    /\ members' = IF channelClients[ch] = {c}
                    THEN [members EXCEPT ![ch] = @ \cup {c}] ELSE members
    /\ Return(c, "emit")
    /\ UNCHANGED <<clientChan, channelClients, gors, noChanPumps, keyedTo>>

RegisterClient(c) ==
    LET ch == req[c] IN
    /\ pc[c] = "registerWait"
    /\ notifying[ch] = {}
    /\ members' = [members EXCEPT ![ch] = @ \cup {c}]
    /\ Return(c, "emit")
    /\ UNCHANGED <<clientChan, channelClients, gors, noChanPumps, keyedTo>>

\* startNoChannelPumpLocked at the end of a switch to NoChannelID.
ResumePump(c) ==
    /\ pc[c] = "resume"
    /\ noChanPumps' = noChanPumps \cup {c}
    /\ Return(c, "emit")
    /\ UNCHANGED <<index, gors, keyedTo>>

\* emitMJPEGURL: a network write, outside a.mu.
EmitMJPEGURL(c) ==
    /\ pc[c] = "emit"
    /\ Goto(c, "idle")
    /\ UNCHANGED <<mu, req, index, gors, noChanPumps, keyedTo>>

\* The end of RemoveClient.
Forget(c) ==
    /\ pc[c] = "forget"
    /\ clientChan' = [clientChan EXCEPT ![c] = Absent]
    /\ Return(c, "new")
    /\ UNCHANGED <<channelClients, members, gors, noChanPumps, keyedTo>>

\* RecordKeyEvent reads the Channel under a.mu.RLock and gives the lock up.
RecordKeyEvent(c) ==
    /\ pc[c] = "idle"
    /\ mu = NoOne
    /\ clientChan[c] \in Channels
    /\ req' = [req EXCEPT ![c] = clientChan[c]]
    /\ Goto(c, "sending")
    /\ UNCHANGED <<mu, index, gors, noChanPumps, keyedTo>>

\* Fault: one edge queue is shared by all Channels.
SendKeyEdgeShared(c, h) ==
    /\ pc[c] = "sending"
    /\ \E ch \in Channels : /\ h \in drainers[ch]
                            /\ keyedTo' = [keyedTo EXCEPT ![c] = ch]
    /\ req' = [req EXCEPT ![c] = Absent]
    /\ Goto(c, "idle")
    /\ UNCHANGED <<mu, index, gors, noChanPumps>>

\* SendKeyEdge: a Run goroutine of that Channel takes the edge; a cancelled
\* one may, for its select is free to choose either ready case.  The send's
\* ctx is that of a hijacked request: nothing cancels it while handleWS runs.
SendKeyEdge(c, h) ==
    /\ pc[c] = "sending"
    /\ h \in drainers[req[c]]
    /\ keyedTo' = [keyedTo EXCEPT ![c] = req[c]]
    /\ req' = [req EXCEPT ![c] = Absent]
    /\ Goto(c, "idle")
    /\ UNCHANGED <<mu, index, gors, noChanPumps>>

-----------------------------------------------------------------------------
(* Goroutines of a Channel's incarnation h; its context is cancelled once  *)
(* running no longer maps the Channel to h.                                *)

Cancelled(ch, h) == running[ch] # h

RunExit(ch, h) ==
    /\ h \in drainers[ch]
    /\ Cancelled(ch, h)
    /\ drainers' = [drainers EXCEPT ![ch] = @ \ {h}]
    /\ UNCHANGED <<locks, index, running, videos, notifying, noChanPumps, keyedTo>>

\* A goroutine at ch.mu.Lock holds new readers off.
WriterWaiting(ch) ==
    \E c \in Clients : \/ pc[c] = "unregisterWait" /\ clientChan[c] = ch
                       \/ pc[c] = "registerWait" /\ req[c] = ch

\* Fault: readers overtake a waiting writer.
NotifyBeginOvertakes(ch, h) ==
    /\ h \in videos[ch] \ notifying[ch]
    /\ notifying' = [notifying EXCEPT ![ch] = @ \cup {h}]
    /\ UNCHANGED <<locks, index, running, drainers, videos, noChanPumps, keyedTo>>

\* notifyChannelClients: the supervisor saw its source fail or recover.
NotifyBegin(ch, h) ==
    /\ h \in videos[ch] \ notifying[ch]
    /\ ~WriterWaiting(ch)
    /\ notifying' = [notifying EXCEPT ![ch] = @ \cup {h}]
    /\ UNCHANGED <<locks, index, running, drainers, videos, noChanPumps, keyedTo>>

NotifyEnd(ch, h) ==
    /\ h \in notifying[ch]
    /\ notifying' = [notifying EXCEPT ![ch] = @ \ {h}]
    /\ UNCHANGED <<locks, index, running, drainers, videos, noChanPumps, keyedTo>>

SuperviseExit(ch, h) ==
    /\ h \in videos[ch] \ notifying[ch]
    /\ Cancelled(ch, h)
    /\ videos' = [videos EXCEPT ![ch] = @ \ {h}]
    /\ UNCHANGED <<locks, index, running, drainers, notifying, noChanPumps, keyedTo>>

-----------------------------------------------------------------------------
\* The steps a goroutine takes once it holds a.mu, and the write that follows.
Proceed(c) ==
    \/ LockChannel(c) \/ UnregisterClient(c) \/ Detach(c) \/ Attach(c)
    \/ RegisterClient(c) \/ ResumePump(c) \/ Forget(c) \/ EmitMJPEGURL(c)

ClientStep(c) ==
    \/ AddClient(c)
    \/ \E t \in Channels \cup {Nil} : SwitchChannel(c, t)
    \/ RemoveClient(c)
    \/ RecordKeyEvent(c)
    \/ Proceed(c)

Next ==
    \/ \E c \in Clients : ClientStep(c)
    \/ \E c \in Clients, h \in Handles : SendKeyEdge(c, h)
    \/ \E ch \in Channels, h \in Handles :
          RunExit(ch, h) \/ NotifyBegin(ch, h) \/ NotifyEnd(ch, h) \/ SuperviseExit(ch, h)

Spec == Init /\ [][Next]_vars

\* The scheduler runs every goroutine that can run; a notification ends, for
\* each of its writes has a timeout; a cancelled goroutine leaves, for the
\* select it comes back to picks a ready ctx.Done sooner or later.
Fairness ==
    /\ \A c \in Clients : WF_vars(Proceed(c))
    /\ \A ch \in Channels, h \in Handles :
          /\ WF_vars(RunExit(ch, h))
          /\ WF_vars(NotifyEnd(ch, h))
          /\ SF_vars(SuperviseExit(ch, h))

FairSpec == Spec /\ Fairness

-----------------------------------------------------------------------------
(* Properties.                                                             *)

\* The goroutines among gs that nobody has told to stop.
Uncancelled(gs, ch) == {h \in gs[ch] : ~Cancelled(ch, h)}

\* A Channel has a Run goroutine, and if it has video a supervisor, that nobody
\* told to stop exactly while a Client is attached to it, by either index
\* (application.go:83 "ref-counted goroutine lifecycle", :128-129 "launches its
\* goroutine on first Client attach and stops it on last detach").  Goroutines
\* that were told to may still be about, without an entry in running (:87-89
\* says otherwise), for stopChannelLocked does not wait for them.
RefCounted ==
    \A ch \in Channels :
        LET attached == {c \in Clients : clientChan[c] = ch} IN
        /\ channelClients[ch] = attached
        /\ Uncancelled(drainers, ch) # {} <=> attached # {}
        /\ ch \in VideoChannels => (Uncancelled(videos, ch) # {} <=> attached # {})

\* A Channel's frames and notifications reach only Clients whose keys go to
\* that same Channel, at every point inside an operation too: a Client leaves
\* the fan-out set before it loses the Channel and enters it after.
FanoutConfined ==
    \A ch \in Channels : \A c \in members[ch] :
        clientChan[c] = ch /\ running[ch] # NoHandle

\* Between operations the fan-out sets are complete: every attached Client
\* is in its Channel's set.
FanoutComplete ==
    mu = NoOne => \A c \in Clients :
        clientChan[c] \in Channels => c \in members[clientChan[c]]

\* The Channel a sender read before it released a.mu is not stale when it is
\* used: it is still the sender's Channel, and a Run goroutine that nobody
\* cancelled is there to take the edge, so no sender is stranded.
SenderServed ==
    \A c \in Clients : pc[c] = "sending" =>
        /\ req[c] \in Channels
        /\ clientChan[c] = req[c]
        /\ running[req[c]] \in drainers[req[c]]

\* Between operations exactly the known, unattached Clients are fed by the
\* no-channel pump; a forgotten Client has none left.
PumpIffUnattached ==
    mu = NoOne => noChanPumps = {c \in Clients : clientChan[c] = Nil}

\* A Client that leaves a Channel never stops or restarts the Channel's
\* goroutines while another Client is attached to it.
NeverStoppedUnderWatcher ==
    [][\A ch \in Channels :
          running'[ch] # running[ch] =>
              ~\E c \in Clients : clientChan[c] = ch /\ clientChan'[c] = ch]_vars

\* Every operation that took a.mu gives it back, whatever the notifications
\* under way: the two locks never deadlock.
OperationsComplete ==
    \A c \in Clients : pc[c] \in Critical ~> pc[c] \notin Critical

-----------------------------------------------------------------------------
(* The inductive invariant: what holds at every location inside an         *)
(* operation, from which the safety properties above follow.               *)

Locking == \A c \in Clients : pc[c] \in Critical <=> mu = c

\* What the local variables of c's goroutine say at each location.
Located(c) ==
    /\ pc[c] = "new" <=> clientChan[c] = Absent
    /\ pc[c] = "sending" => req[c] \in Channels /\ clientChan[c] = req[c]
    /\ pc[c] \in {"unregister", "unregisterWait", "detach"} =>
          clientChan[c] \in Channels /\ clientChan[c] # req[c]
    /\ pc[c] = "attach" => req[c] \in Channels /\ clientChan[c] = Nil
    /\ pc[c] \in {"register", "registerWait"} =>
          req[c] \in Channels /\ clientChan[c] = req[c]
    /\ pc[c] = "resume" => req[c] = Nil /\ clientChan[c] = Nil
    /\ pc[c] = "forget" => req[c] = Absent /\ clientChan[c] = Nil

Registered(c) == pc[c] \notin {"detach", "register", "registerWait"}

FanoutSets ==
    \A ch \in Channels : \A c \in Clients :
        c \in members[ch] <=> clientChan[c] = ch /\ Registered(c)

\* Both indexes agree, and running has an entry for the Channels with Clients.
Indexed ==
    \A ch \in Channels :
        /\ channelClients[ch] = {c \in Clients : clientChan[c] = ch}
        /\ running[ch] # NoHandle <=> channelClients[ch] # {}

\* The goroutines of the incarnation in running are alive.
RunAlive ==
    \A ch \in Channels : running[ch] # NoHandle =>
        /\ running[ch] \in drainers[ch]
        /\ ch \in VideoChannels => running[ch] \in videos[ch]

Pumped ==
    \A c \in Clients : c \in noChanPumps <=>
        clientChan[c] = Nil /\ pc[c] \notin {"attach", "resume", "forget"}

IndInv ==
    /\ TypeOK
    /\ Locking
    /\ \A c \in Clients : Located(c)
    /\ Indexed
    /\ FanoutSets
    /\ RunAlive
    /\ Pumped

-----------------------------------------------------------------------------
(* Refinement: a Client has moved, for everyone who cannot see inside      *)
(* a.mu, as soon as detachLocked has run.                                  *)

Moved(c) == pc[c] \in {"attach", "resume", "forget"}

AttBar == [c \in Clients |-> IF Moved(c) THEN req[c] ELSE clientChan[c]]

Registry == INSTANCE ClientRegistry WITH att <- AttBar

\* Application implements the registry: moves are atomic and each edge goes
\* to the Channel its Client is attached to when the edge is taken.
ImplementsRegistry == Registry!Spec
=============================================================================
