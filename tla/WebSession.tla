----------------------------- MODULE WebSession -----------------------------
(***************************************************************************)
(* One browser page and its sessions with the HTTP server: the page's      *)
(* Connection (web/src/connection.ts) that reconnects and queues, its      *)
(* selector and keyboard, and the WebSocket handler with its tokens        *)
(* (server/internal/http/handlers.go, tokens.go).  What kvm.Application    *)
(* does for a session is ClientRegistry, which Application.tla is shown to *)
(* implement; what the session's streams do is StreamHandler.              *)
(*                                                                         *)
(* Session s is the s-th time the page connects; its WebSocket token, its  *)
(* connection, its Client and its stream token carry the same number.  Of  *)
(* the messages to the page only their failure matters here: the page      *)
(* passes them to the <img> and the status line.                           *)
(***************************************************************************)
EXTENDS Naturals, SequencesExt

CONSTANTS
    Channels,     \* the entries of the selector other than "(none)"
    NoChannel,    \* the entry "(none)": known to the server, not attached
    Absent,       \* not a Client of the Application
    MaxFailures,  \* bound on what may go wrong between page and server
    MaxActs       \* bound on what the operator does

ASSUME SessionConstants ==
    /\ NoChannel \notin Channels /\ Absent \notin Channels /\ Absent # NoChannel
    /\ {MaxFailures, MaxActs} \subseteq Nat

\* Each connection after the first follows a failure.
Sessions == 1..MaxFailures + 1
None == 0

VARIABLES
    phase,     \* the page: "timer", "fetch", "opening", "open" or "closing"
    cur,       \* the session of the page's WebSocket, or None
    selector,  \* the entry the selector shows
    queue,     \* Connection.queue
    acts,      \* how often the operator chose or typed
    failures,  \* how often something failed
    token,     \* token[s]: "none", "fresh", "stale" or "used"
    sess,      \* sess[s]: where the handler of session s is
    broken,    \* the sessions whose connection is closed or lost
    up,        \* up[s]: messages on their way to the server
    streams,   \* the sessions whose stream token is registered
    att,       \* the Application: where each session is attached
    keyedTo,   \* and the Channel that took its last key
    taken      \* the keys Channels took: [id, shown, to, by], in order

page == <<phase, cur, selector, queue, acts>>
server == <<token, sess, streams, att, keyedTo, taken>>
wire == <<broken, up>>
sessionVars == <<page, failures, server, wire>>

App == INSTANCE ClientRegistry WITH Clients <- Sessions, Nil <- NoChannel

\* A message of the page: a switch, or a key with its number and the entry the
\* selector showed when it was typed.
Switch(e) == [id |-> 0, ch |-> e]
Message == [id : 0..MaxActs, ch : Channels \cup {NoChannel}]

SessPC == {"none", "asked", "refused", "accepted", "registered", "loop",
           "release", "remove", "close", "done"}

SessionTypeOK ==
    /\ phase \in {"timer", "fetch", "opening", "open", "closing"}
    /\ cur \in Sessions \cup {None}
    /\ selector \in Channels \cup {NoChannel}
    /\ queue \in Seq(Message)
    /\ acts \in 0..MaxActs /\ failures \in 0..MaxFailures
    /\ token \in [Sessions -> {"none", "fresh", "stale", "used"}]
    /\ sess \in [Sessions -> SessPC]
    /\ broken \subseteq Sessions
    /\ up \in [Sessions -> Seq(Message)]
    /\ streams \subseteq Sessions
    /\ att \in [Sessions -> Channels \cup {NoChannel, Absent}]
    /\ keyedTo \in [Sessions -> Channels \cup {NoChannel}]
    /\ taken \in Seq([id : 1..MaxActs, shown : Channels \cup {NoChannel},
                      to : Channels, by : Sessions])

SessionInit ==
    /\ phase = "fetch" /\ cur = None
    /\ selector = NoChannel /\ queue = << >> /\ acts = 0
    /\ failures = 0
    /\ token = [s \in Sessions |-> "none"]
    /\ sess = [s \in Sessions |-> "none"]
    /\ broken = {}
    /\ up = [s \in Sessions |-> << >>]
    /\ streams = {}
    /\ App!Init
    /\ taken = << >>

-----------------------------------------------------------------------------
(* The page.                                                               *)

\* Connection.send: to the WebSocket while it is open, else to the queue.  A
\* lost connection swallows what is sent until the page notices.
Send(m) ==
    \/ /\ phase = "open"
       /\ up' = IF cur \in broken THEN up ELSE [up EXCEPT ![cur] = Append(@, m)]
       /\ UNCHANGED queue
    \/ /\ phase # "open"
       /\ queue' = Append(queue, m)
       /\ UNCHANGED up

\* The operator chooses another entry: the selector fires on a change only.
Choose(e) ==
    /\ acts < MaxActs /\ e # selector
    /\ acts' = acts + 1
    /\ selector' = e
    /\ Send(Switch(e))
    /\ UNCHANGED <<phase, cur, failures, server, broken>>

\* The operator types: the acts-th act is key number acts.
Type ==
    /\ acts < MaxActs
    /\ acts' = acts + 1
    /\ Send([id |-> acts', ch |-> selector])
    /\ UNCHANGED <<phase, cur, selector, failures, server, broken>>

\* connect: the server mints a token, and the page opens a WebSocket with it.
FetchOk(s) ==
    /\ phase = "fetch"
    /\ \A t \in Sessions : (token[t] = "none") <=> t >= s
    /\ token' = [token EXCEPT ![s] = "fresh"]
    /\ sess' = [sess EXCEPT ![s] = "asked"]
    /\ phase' = "opening"
    /\ cur' = s
    /\ UNCHANGED <<selector, queue, acts, failures, streams, att, keyedTo,
                   taken, wire>>

\* Fault: a failed fetch schedules no reconnect.
FetchFailsForGood ==
    /\ phase = "fetch" /\ failures < MaxFailures
    /\ failures' = failures + 1
    /\ phase' = "opening"
    /\ UNCHANGED <<cur, selector, queue, acts, server, wire>>

\* The fetch fails, or its answer is lost; the token, if any, is swept later.
FetchFails ==
    /\ phase = "fetch" /\ failures < MaxFailures
    /\ failures' = failures + 1
    /\ phase' = "timer"
    /\ UNCHANGED <<cur, selector, queue, acts, server, wire>>

\* scheduleReconnect's timer fires.
ReconnectTimer ==
    /\ phase = "timer"
    /\ phase' = "fetch"
    /\ UNCHANGED <<cur, selector, queue, acts, failures, server, wire>>

\* Fault: the queue is flushed from its end.
OpenReversed ==
    /\ phase = "opening"
    /\ cur # None /\ cur \notin broken
    /\ sess[cur] \notin {"asked", "refused"}
    /\ phase' = "open"
    /\ up' = [up EXCEPT ![cur] = @ \o Reverse(queue)]
    /\ queue' = << >>
    /\ UNCHANGED <<cur, selector, acts, failures, server, broken>>

\* Fault: what was flushed stays in the queue.
OpenKeepsQueue ==
    /\ phase = "opening"
    /\ cur # None /\ cur \notin broken
    /\ sess[cur] \notin {"asked", "refused"}
    /\ phase' = "open"
    /\ up' = [up EXCEPT ![cur] = @ \o queue]
    /\ UNCHANGED <<cur, selector, queue, acts, failures, server, broken>>

\* The open event: the queue is flushed in order.
Open ==
    /\ phase = "opening"
    /\ cur # None /\ cur \notin broken
    /\ sess[cur] \notin {"asked", "refused"}
    /\ phase' = "open"
    /\ up' = [up EXCEPT ![cur] = @ \o queue]
    /\ queue' = << >>
    /\ UNCHANGED <<cur, selector, acts, failures, server, broken>>

\* The page notices that the connection is gone: readyState is no longer OPEN.
Notice ==
    /\ phase = "open" /\ cur \in broken
    /\ phase' = "closing"
    /\ UNCHANGED <<cur, selector, queue, acts, failures, server, wire>>

\* The close event: the handshake was refused or the connection is gone.
Close ==
    /\ phase \in {"opening", "closing"} /\ cur # None
    /\ cur \in broken \/ sess[cur] = "refused"
    /\ cur' = None
    /\ phase' = "timer"
    /\ UNCHANGED <<selector, queue, acts, failures, server, wire>>

-----------------------------------------------------------------------------
(* The WebSocket handler.                                                  *)

GoSess(s, l) == sess' = [sess EXCEPT ![s] = l]

\* tokenRegistry.consume, then refused or accepted.
HandleWS(s) ==
    /\ sess[s] = "asked"
    /\ token' = [token EXCEPT ![s] = "used"]
    /\ GoSess(s, IF token[s] = "fresh" THEN "accepted" ELSE "refused")
    /\ UNCHANGED <<page, failures, streams, att, keyedTo, taken, wire>>

\* websocket.Accept returns an error: the token is used up.
AcceptFails(s) ==
    /\ sess[s] = "asked" /\ token[s] = "fresh" /\ failures < MaxFailures
    /\ failures' = failures + 1
    /\ token' = [token EXCEPT ![s] = "used"]
    /\ GoSess(s, "refused")
    /\ UNCHANGED <<page, streams, att, keyedTo, taken, wire>>

\* tokenTTL passes: the next sweep will remove the token.
TokenExpires(s) ==
    /\ token[s] = "fresh" /\ failures < MaxFailures
    /\ failures' = failures + 1
    /\ token' = [token EXCEPT ![s] = "stale"]
    /\ UNCHANGED <<page, sess, streams, att, keyedTo, taken, wire>>

\* The stream token is minted and the Client added.
Register(s) ==
    /\ sess[s] = "accepted"
    /\ streams' = streams \cup {s}
    /\ App!Connect(s)
    /\ GoSess(s, "registered")
    /\ UNCHANGED <<page, failures, token, taken, wire>>

\* No stream token can be minted: the connection is closed, with no Client yet.
RegisterFails(s) ==
    /\ sess[s] = "accepted" /\ failures < MaxFailures
    /\ failures' = failures + 1
    /\ GoSess(s, "close")
    /\ UNCHANGED <<page, token, streams, att, keyedTo, taken, wire>>

\* A write of the server: on a broken connection it may fail.
Written(s) == GoSess(s, "loop") \/ (s \in broken /\ GoSess(s, "release"))

\* The first message; if it cannot be written the session ends.
PushURL(s) ==
    /\ sess[s] = "registered"
    /\ Written(s)
    /\ UNCHANGED <<page, failures, token, streams, att, keyedTo, taken, wire>>

\* runDispatchLoop handles a switch; if the reply cannot be written the session
\* ends.
HandleSwitch(s) ==
    /\ sess[s] = "loop" /\ up[s] # << >> /\ Head(up[s]).id = 0
    /\ App!Switch(s, Head(up[s]).ch)
    /\ up' = [up EXCEPT ![s] = Tail(@)]
    /\ Written(s)
    /\ UNCHANGED <<page, failures, token, streams, taken, broken>>

\* Fault: a key of an unattached Client is not refused.
HandleKeyUnattached(s) ==
    /\ sess[s] = "loop" /\ up[s] # << >> /\ Head(up[s]).id # 0
    /\ LET m == Head(up[s]) IN
       /\ keyedTo' = [keyedTo EXCEPT ![s] = att[s]]
       /\ taken' = Append(taken, [id |-> m.id, shown |-> m.ch, to |-> att[s], by |-> s])
    /\ up' = [up EXCEPT ![s] = Tail(@)]
    /\ UNCHANGED <<page, failures, token, sess, streams, att, broken>>

\* It handles a key: an error (there is no Channel) is logged, and it goes on.
HandleKey(s) ==
    /\ sess[s] = "loop" /\ up[s] # << >> /\ Head(up[s]).id # 0
    /\ LET m == Head(up[s]) IN
       IF att[s] = NoChannel
         THEN UNCHANGED <<att, keyedTo, taken>>
         ELSE /\ App!Key(s)
              /\ taken' = Append(taken, [id |-> m.id, shown |-> m.ch, to |-> att[s], by |-> s])
    /\ up' = [up EXCEPT ![s] = Tail(@)]
    /\ UNCHANGED <<page, failures, token, sess, streams, broken>>

\* A read fails: the connection is gone.  What was sent before may have been
\* read, or is lost with it.
ReadFails(s) ==
    /\ sess[s] = "loop" /\ s \in broken
    /\ GoSess(s, "release")
    /\ up' = [up EXCEPT ![s] = << >>]
    /\ UNCHANGED <<page, failures, token, streams, att, keyedTo, taken, broken>>

\* The deferred function of handleWS: the stream token is released,
Release(s) ==
    /\ sess[s] = "release"
    /\ streams' = streams \ {s}
    /\ GoSess(s, "remove")
    /\ UNCHANGED <<page, failures, token, att, keyedTo, taken, wire>>

\* Fault: the Client is not removed.
RemoveForgotten(s) ==
    /\ sess[s] = "remove"
    /\ GoSess(s, "close")
    /\ UNCHANGED <<page, failures, token, streams, att, keyedTo, taken, wire>>

\* the Client removed,
RemoveSession(s) ==
    /\ sess[s] = "remove"
    /\ App!Disconnect(s)
    /\ GoSess(s, "close")
    /\ UNCHANGED <<page, failures, token, streams, taken, wire>>

\* and the connection closed.
CloseSession(s) ==
    /\ sess[s] = "close"
    /\ broken' = broken \cup {s}
    /\ up' = [up EXCEPT ![s] = << >>]
    /\ GoSess(s, "done")
    /\ UNCHANGED <<page, failures, token, streams, att, keyedTo, taken>>

\* The network fails under an established connection; each end notices when it
\* next reads or writes, or later.
Break(s) ==
    /\ sess[s] \in {"accepted", "registered", "loop"} /\ s \notin broken
    /\ failures < MaxFailures
    /\ failures' = failures + 1
    /\ broken' = broken \cup {s}
    /\ UNCHANGED <<page, server, up>>

\* The server process is restarted: tokens, connections and Clients are gone.
ServerRestarts ==
    /\ failures < MaxFailures
    /\ failures' = failures + 1
    /\ token' = [s \in Sessions |-> IF token[s] = "none" THEN "none" ELSE "used"]
    /\ sess' = [s \in Sessions |-> IF sess[s] = "none" THEN "none" ELSE "done"]
    /\ broken' = {s \in Sessions : sess[s] # "none"}
    /\ streams' = {}
    /\ up' = [s \in Sessions |-> << >>]
    /\ att' = [s \in Sessions |-> Absent]
    /\ UNCHANGED <<page, keyedTo, taken>>

-----------------------------------------------------------------------------
PageStep == (\E s \in Sessions : FetchOk(s)) \/ ReconnectTimer \/ Open \/ Notice \/ Close

SessionStep(s) ==
    \/ HandleWS(s) \/ Register(s) \/ PushURL(s) \/ HandleSwitch(s) \/ HandleKey(s)
    \/ ReadFails(s) \/ Release(s) \/ RemoveSession(s) \/ CloseSession(s)

Operator == Type \/ \E e \in Channels \cup {NoChannel} : Choose(e)

Failure ==
    \/ FetchFails
    \/ ServerRestarts
    \/ \E s \in Sessions :
          TokenExpires(s) \/ AcceptFails(s) \/ RegisterFails(s) \/ Break(s)

SessionNext ==
    \/ PageStep
    \/ \E s \in Sessions : SessionStep(s)
    \/ Operator
    \/ Failure

SessionSpec == SessionInit /\ [][SessionNext]_sessionVars

\* The page and the handlers go on; the operator and the failures need not.
SessionFairSpec ==
    /\ SessionSpec
    /\ WF_sessionVars(PageStep)
    /\ \A s \in Sessions : WF_sessionVars(SessionStep(s))

-----------------------------------------------------------------------------
(* Properties.                                                             *)

\* A key reaches the Channel the selector showed when it was typed, or none:
\* not another one that the page switched to before the key arrived, over
\* outages, queueing and reconnects, which leave the selector as it is and the
\* new Client unattached (channel-selector.ts:34).
KeysFollowSelector == \A i \in DOMAIN taken : taken[i].to = taken[i].shown

\* No key is taken twice, whatever is queued over a reconnect, and the keys sent
\* over one connection are taken in the order they were typed.  Of keys sent over
\* two connections nothing is claimed: the older session may still be reading.
KeysOnceInOrder ==
    \A i, j \in DOMAIN taken :
        i < j => /\ taken[i].id # taken[j].id
                 /\ taken[i].by = taken[j].by => taken[i].id < taken[j].id

\* The page gets back in: whatever failed, it opens a connection again.
Reconnects == []<>(phase = "open")

\* A session whose connection is gone is cleaned up: no Client, no stream token.
SessionEnds ==
    \A s \in Sessions :
        s \in broken ~> (att[s] = Absent /\ s \notin streams)
=============================================================================
