# HydraKVM in TLA+

HydraKVM is a network KVM: a Go server shows browsers the HDMI output of target
machines (MJPEG from a capture dongle through ffmpeg) and types what they press
(a serial line to a Pico that plays a USB keyboard). Several browsers may watch
and drive the same machine. This directory holds TLA+ models of that code, TLC
configurations that check them on small instances, and proofs checked by TLAPS.

All paths below are relative to the repository; `kvm/` stands for
`server/internal/kvm/`, `http/` for `server/internal/http/`, and so on.

    tlc -config MCApplication.cfg MCApplication.tla      # a run
    tlapm ApplicationProofs.tla                          # a module of proofs

1. [The system](#1-the-system)
2. [The modules](#2-the-modules)
3. [The runs](#3-the-runs)
4. [Fairness](#4-fairness)
5. [What is proved](#5-what-is-proved)
6. [Findings](#6-findings)
7. [What is not modelled](#7-what-is-not-modelled)
8. [Plan](#8-plan)

## 1. The system

| Part | State it keeps | Operations | Talks to |
|---|---|---|---|
| `kvm.Application` (application.go) | `mu`; which Channel each Client has (`clientChan`), the reverse index (`channelClients`), the goroutines per running Channel (`running`), the pumps of unattached Clients (`noChanPumps`) | `AddClient`, `SwitchChannel`, `RemoveClient`, `RecordKeyEvent`; `startChannelLocked`, `stopChannelLocked` | called by one goroutine per WebSocket; registers Clients with Channels; writes to Clients |
| `kvm.Channel` (channel.go) | its own `mu` and client set, the unbuffered queue `edgeCh`, the modifier mask `KbdState` | `RegisterClient`, `UnregisterClient`, `Fanout`, `ForEachClient`, `SendKeyEdge`, `Run` | Application; a `KeyEventSink`; the Clients' `FrameSink`s |
| Video supervision (application.go) | one goroutine per running Channel, a fallback goroutine during an outage | `superviseVideo`, `pumpFrames`, `runFallbackUntilRecovery`, `probePrimaryOnce`, `notifyChannelClients` | a `VideoSource` by subscription; `Fanout`; network writes under `ch.mu` |
| V4L source (v4l/v4l.go) | subscriber map, `supervised`, `stopping`, `stopFn`, `supDone` under `s.mu`; one ffmpeg process | `Subscribe`, `unsubscribe`, `Close`, `supervise`, `runOnce`, `broadcast` | supervisors subscribe and are told of failure by a closed channel |
| JPEG splitter (v4l/jpeg.go) | a read buffer | `next` frame | ffmpeg's output |
| HTTP sessions (http/) | single-use WebSocket tokens, stream tokens, the Client's video sink slot | token mint/consume, `handleWS`, `handleMJPEG`, `mjpegSink` | Application; the browser |
| Pico link (picolink/) | a serial port | encode a KeyEvent, write a frame | firmware |
| Pico firmware (firmware/pico/) | UART parser state, a 64-deep queue, the USB report | UART interrupt, USB loop | the target machine |
| Web client (web/src/) | a send queue, the reconnect timer, the selector | connect, send, reconnect, select | the server |
| Router, codec, auth, config, synthetic source | next to nothing | | |

**Where it is hard.** Two kinds of lock nest (`a.mu` outside, `ch.mu` inside)
while a third party writes to the network under `ch.mu`. Goroutines are
cancelled but never awaited, so a Channel left and re-entered may have two
generations of them. `RecordKeyEvent` reads a Channel under a lock and uses it
after giving the lock up. A video source reports failure by closing channels
that three code paths close. A stopping ffmpeg supervisor races with new
subscribers. Recovery is a loop of time-outs. Beyond the server, a serial line
may lose bytes, the firmware's queue may overflow, and the browser reconnects as
somebody new. `PROJECT.json` lists each hazard at its line with the property
that would catch it.

**What makes each part correct.**

- *Application*: both indexes agree; a Channel has goroutines that nobody told to
  stop exactly while somebody is attached, and they are not restarted under a
  watcher; a Client is fed by
  exactly one of its Channel and the no-channel pump; a key goes to the Channel
  its sender is attached to when it is taken, and somebody takes it; nothing
  deadlocks.
- *Channel*: KeyEvents carry the mask of the edges in the order taken; every
  edge sent is reported; frames and notices reach members only.
- *Supervision*: one feed at a time; who is told of an outage is told of its end.
- *V4L source*: no double close and no send on a closed channel; one ffmpeg; no
  subscriber attached to a dying supervisor; ffmpeg stops with its last watcher.
- *HTTP*: a token works once, in time; a sink is not written after it closed; an
  old request's clean-up does not disconnect its successor.
- *Pico*: the parser gets back into step; what is dropped is never typed later.
- *Splitter*: frames are neither torn, merged nor lost.
- *Web*: what is queued over a reconnect and what the selector shows are
  consistent with the server.

## 2. The modules

| Module | Models | Extends / uses |
|---|---|---|
| `ClientRegistry` | the promise of Application to the HTTP layer: atomic attach, switch, detach, and a key edge to the current Channel | – |
| `Application` | kvm.Application with the Channels' client sets, at the grain of its locks | implements `ClientRegistry` |
| `KeyPath` | Application plus `Channel.Run`, the mask and the sink | `Application` |
| `HeldKeys` | KeyPath from one Client's side: the modifiers it holds itself | `KeyPath` |
| `VideoSupervisor` | Application plus superviseVideo, fallback, probe, notices | `Application` |
| `VideoSource` | the promise of a video source to its subscribers | – |
| `MjpegStream` | v4l.MJPEGStream | implements `VideoSource` |
| `JpegSplitter` | v4l/jpeg.go as functions of ffmpeg's output | – |
| `StreamHandler` | handleStream, the Client's sink slot, mjpegSink | – |
| `VideoPath` | ffmpeg's output to the page: splitter, broadcast, pumps, sinks | `JpegSplitter`, `StreamHandler` |
| `WebSession` | the page's Connection, selector and keyboard; WebSocket tokens and handleWS | `ClientRegistry` (INSTANCE) |
| `KeyTables` | key names, KeyCodes, modifier bits, HID usages, the frame of a KeyEvent | – |
| `PicoLink` | key_event message, serial line, the firmware's two cores, the USB bus | `KeyTables` |
| `ApplicationProofs`, `KeyPathProofs`, `VideoSupervisorProofs`, `MjpegStreamProofs`, `WebSessionProofs`, `PicoLinkProofs`, `JpegSplitterProofs` | the theorems about the module of that name (section 5) | their module, `TLAPS` |
| `StreamHandlerProofs` | the theorems about `StreamHandler` and `VideoPath` | `VideoPath`, `JpegSplitterProofs` |
| `MC*` | instances for TLC (symmetry sets, outputs, keys) | |

How they fit: `WebSession` uses the registry that `Application` implements;
`VideoSupervisor` is written over the contract that `MjpegStream` implements;
`KeyPath` ends where `PicoLink` begins, at the call of the sink; `VideoPath`
ends where `WebSession` sets a new `<img>` URL.

**Application.** One goroutine per Client (handleWS) runs `AddClient`, any number
of `SwitchChannel` and `RecordKeyEvent`, then `RemoveClient`, one at a time;
`pc[c]` says where it is. An operation under `a.mu` is one thread of actions that
nobody else holding `a.mu` can interleave with, split where the outside can see
in: at each acquisition of `ch.mu`. `SwitchChannel` and `RemoveClient` are their
code up to `detachLocked`; `LockChannel` is the call of `ch.mu.Lock`, after which
new readers wait (a Go RWMutex prefers a waiting writer); `UnregisterClient`,
`Detach`, `Attach`, `RegisterClient` are the two halves of `detachLocked` and
`attachLocked`; `ResumePump`, `Forget` and `EmitMJPEGURL` the three ways an
operation ends. A Channel's incarnation is a *handle* (`channelHandle`); its
context is cancelled as soon as `running` maps the Channel to another handle or
none. `RunExit` and `SuperviseExit` are its goroutines leaving, later.
Requests that the code refuses (unknown id, the Channel one already has, a key
without a Channel) change nothing and are stuttering steps. `SendKeyEdge` has a
`ctx.Done` arm in the code; its context is that of a hijacked HTTP request, which
nothing cancels while handleWS runs, so the arm is not an action.

**KeyPath** adds the loop body of `Run`, in steps as fine as its unsynchronized
memory accesses: the read and the write of `Modifiers |= bit`, the second read
for the stamp, the sink call. `ref` and `raced` are history variables: the mask
that the edges taken so far should give, and whether two bodies have ever
overlapped. No action of the code reads them. **HeldKeys** adds two more history
variables, the modifiers that each Client holds down and those of the Client
whose edge a `Run` took last, to state what one Client may expect of its keys.

**VideoSupervisor** gives each incarnation its supervisor's location (`sv`) and
its fallback goroutine (`fallback`), and each Client what it was last shown and
told (`screen`, `notice`: what, and of which Channel, until it leaves that
Channel's fan-out set, `UnregisterVideo`). A source is its contract: frames until the channel
closes, which may be at any time. `Fanout` is one step (it holds `ch.mu` for
reading and its writes do not block); a notification is one step per Client,
inside `ForEachClient`'s read lock.

**MjpegStream** models one subscription as one call of `Subscribe`, its frame
channel and the goroutine that waits for its context. Everything under one
`s.mu` section is one action; what is outside is a step of its own: the wait for
`supDone`, the call of the stop function after the unlock, and the closing of
each channel of a swapped map. `broken` records what would panic in Go. The
outcomes of `runOnce` (ffmpeg dies, a watchdog fires, the context ends) are one
action, for they differ only in the log. As a `VideoSource` (`FeedBar`) a
subscription is asked for, answered with an open channel, closed once, and
forgotten when its context is cancelled.

**JpegSplitter.** `skipToSOI` and `next` as recursive functions of the position
in ffmpeg's output; `ReadByte` of a bufio.Reader hides how the output is cut
into reads, so the cuts are not modelled. `IsFrameAfter` says what the next
frame is without the loops, from the first SOI to the first EOI of its body;
`VideoPath` compares the two on its outputs, and `JpegSplitterProofs` for every
output. `Unfilled` is the case the promise leaves out, a 0xFF before an EOI
(section 6).

**StreamHandler.** One `handleStream` per request of the page's `<img>`, at the
grain of its shared accesses: consume the stream token, install the sink, take
and write frames, the two steps of `ClearVideoOutIf`, the flag and the channel
of `mjpegSink.Close`. A pump loads the sink, waits for `mjpegSink.mu`, looks at
`closed` again and sends, dropping the oldest frame of a full channel. The two
first reads of a pump (the slot, then the flag without the lock) are one step:
whatever changes between them the second look, under the lock, sees.
`overtaken` is history: a request set the sink after a newer one had.

**VideoPath** feeds those sinks: `Broadcast` is the splitter's `next`, the hand
over between runOnce's goroutines and `broadcast`'s non-blocking send in one
step; `Feed` is `pumpFrames` with the fan-out to this Client, `FeedLate` the
last frame of a no-channel pump that is cancelled but not awaited. A frame is
the pair of its first and last position in the output, so that a torn, merged or
reordered frame is visible. `PathConstants` asks only that `Frames` has these
pairs and the standby frame.

**WebSession.** The page's `phase` is what connection.ts holds in its timer, its
fetch and its WebSocket's readyState; `queue` is `Connection.queue`. A session's
handler is `sess[s]`: consume, accept, register (stream token, `AddClient`), the
first message, the dispatch loop, the deferred clean-up in its order;
`AcceptFails` and `RegisterFails` are the error returns between them. Messages
to the page matter only as writes that may fail. `ServerRestarts` is a crash:
tokens, connections and Clients are gone, the page keeps its queue and selector.
A token that is not consumed goes stale (`TokenExpires`).

**PicoLink.** `KeyMessage` is the handler wired in main.go down to the serial
write (translation, the mask, `EncodeKeyEvent`); `Faulty` is what a bad line or
a short write makes of a frame. `OnUartRx` is one byte in core 1's interrupt;
core 0's `usb_loop_once` is split where the other core, the host or an interrupt
may come between: `tud_task`, take, the wait for the endpoint with its polls and
its 10 ms, the check before `__wfe`, and `__wfe` with its event register. Bytes
and commands carry the number of their frame, to say which were lost.


**Faults.** A definition whose comment begins with "Fault:" is a plausible
mistake in the operation after it (a forgotten call, a dropped check, a reset in
the wrong place). No next-state relation uses one. Each is put in the place of
the correct definition to see that a property of a run notices it; the pairs are
under "mutants" in `PROJECT.json`.

**History in Application.** `keyedTo` records where a Client's last edge went;
only the refinement mapping reads it.

## 3. The runs

| Run | Instance | States | Shows |
|---|---|---|---|
| `application` | 2 Clients, 2 Channels, 2 Handles | 506 k | the indexes, reference counts, fan-out sets and pumps are consistent at every point of every interleaving; a sender's Channel is not stale; the registry is implemented |
| `keypath` | 2 Clients, 1 Channel, 2 Handles, one modifier | 481 k | masks and stamps are exact unless two `Run` bodies overlapped; every edge sent is taken and reported |
| `video` | 2 Clients, 1 Channel, 2 Handles | 522 k | one feed per supervisor; what a Client is shown and told is of the Channel it is attached to and a member of |
| `video_live` | 2 Clients, 1 Channel, 1 Handle | 16 k | an outage that a probe ends is announced as ended to all who stayed; no operation is stuck behind supervision |
| `stream` | 3 subscriptions, 2 supervisors, Close allowed | 127 k | no panic, one supervisor, no late subscriber; a stopped supervisor goes away; the `VideoSource` contract, its liveness included |
| `video_path` | 3 outputs of ffmpeg, 2 requests, a late standby frame | 362 k | frames in order, once, and whole where no fill byte is before an EOI; no send on a closed channel; the newest request served; every given-up handler ends |
| `session` | 2 Channels, 4 acts of the operator, 1 failure | 98 k | keys reach the Channel the selector showed or none, at most once, those of one connection in order; the page gets back in; what it left is cleaned up |
| `pico` | 3 messages: a letter and the right Meta key with the other seven modifiers held, or any one key; 1 fault or 2 bus changes; queue of 2 | 564 k | back in step after one command, order kept, nothing for a former target, no lost wake-up, every key is the key typed, the Pico comes to rest |
| `run_overlap`, `modifier_bleed`, `stream_leak`, `stale_notice` | as the run beside them (the first two with a plain key) | | counterexamples, see section 6 |

**Bounds, and why they are enough.** Two Clients make every interesting relation
between Clients: one leaves while the other stays, one comes while the other
goes, both send. Two Channels are what a switch needs, and both may be running.
`Handles` bounds how many generations of a Channel's goroutines are alive at
once; the bound is the named guard `MayStart`, placed before an operation takes
`a.mu` so that it can block nobody. Two are the old generation and the new, and
every race found is between two neighbours. One Handle (`video_live`) means that
a Channel restarts only after its old goroutines left; the overlap is covered by
`video` and `keypath`. Three subscriptions let one leave, one stay and
one wait. There are at most two supervisors to tell apart, and `OneSupervisor`
shows that one alone ever lives. One modifier suffices for a lost update, since
bits do not interact; a plain key adds to `keypath` only an edge that leaves the
mask alone (`MasksAreExact` has it, for any keys), and a shorter way through the
body. `MayClose` is TRUE where Close is part of the
question and FALSE in `stream_leak`, since the server never calls Close and the
finding must not depend on it. Keys need no video and vice versa: `KeyPath` runs
with no video Channels and `VideoSupervisor` sends no edges.

Two requests are what overlapping and overtaking need, and a sink's channel has
its real depth, 2. The outputs of `MCVideoPath` hold each case the splitter's
two loops tell apart: stuffed bytes, marker bytes inside an image, fill bytes
before a SOI, an EOI between images, an image of nothing but its markers, a torn
last image, and, of which only the order is promised, fill bytes before an EOI.
One failure gives two sessions that overlap, the old one's clean-up with the new
one's start, and it is any of a failed fetch, a stale token, a handshake or a
registration that fails, a broken connection and a restart; a run with two failures and three acts (479 k states) also holds.
Four acts let the operator choose, type, choose again and type.
`MCPicoLink` starts with seven modifiers held so that the eighth makes the mask
equal to the sync byte. Keys outside `Busy` differ only in the tables, so each
is typed alone; faults of the line and changes of the bus do not combine, for
the parser and the mount callbacks share nothing but the queue. A frame is
written when the one before has arrived: the parser's state then still spans
frames, and a frame that waits in the line is the same as one not yet typed.
A queue of 2 fills up (a third command meets it full) as one of 64 does.

**Deadlock** is checked in every run but `session` and `video_path`, where the
operator and the page may have done all their bounds allow.

## 4. Fairness

No operation of a user is fair: nobody has to connect, switch, press or leave.

- A goroutine that can run does (`Proceed`, `SvStep`, `Body`, `SupStep`): the Go
  scheduler is preemptive and fair.
- `NotifyEnd` is weakly fair: each write of a notification has a 5 s timeout
  (http/websocket/codec.go), and the set it iterates over is finite.
- A cancelled goroutine leaves: `RunExit` is weakly fair (in `application`; in
  `keypath` it need not leave at all), `SuperviseExit` and `SuperviseReturns`
  strongly, for they look at `ctx.Done`
  in a select that they come back to, and a select picks among ready cases at
  random.
- A sender is served (`TakeEdge`, strongly fair): goroutines waiting on a Go
  channel queue first come first served.
- The sink's call returns (`Body`): an *assumption*. `picolink` writes to a
  serial port without a deadline; TODO.md names this. Were it to block, senders
  would too.
- A lock's reader gets in sooner or later (`BeginNotify`, `ReadChannelID`,
  strongly fair): an RWMutex lets waiting readers in when a writer unlocks.
- A probe tried again and again succeeds (`ProbeSucceeds`, strongly fair): this
  states the case `OutageEnds` is about, an outage that ends. Whether the code
  gives a slow device the time to answer is a question of its own (section 8).
- The page's timer, fetch and events happen, and a handler that can go on does
  (`PageStep`, `SessionStep`): scheduleReconnect always sets its timer.
- Stream handlers and pumps go on (`Handle`, `WriteFrame`): a write to the
  browser returns or fails once the request is given up. Frames need not come.
- The Pico's cores run and the line delivers (`OnUartRx`, `Core0`). The one-second
  timer is not fair, so nothing depends on it, nor is the target.
- `runOnce` returns once its context is cancelled: ffmpeg is interrupted, then
  killed. While not cancelled it may run for ever.

## 5. What is proved

`ApplicationProofs` proves, for any sets of Clients, Channels and Handles (also
infinite ones), from the assumption `ConstantsDistinct` alone (the special
values are not members of the sets they stand beside):

| Theorem | Property |
|---|---|
| `Invariance` | `IndInv` |
| `TypeSafety` | `TypeOK` |
| `RefCounting` | `RefCounted` |
| `FanoutSound` | `FanoutConfined` and `FanoutComplete` |
| `FanoutCompletes` | `FanoutComplete` |
| `SendersServed` | `SenderServed` |
| `PumpsMatch` | `PumpIffUnattached` |
| `WatchersKeepTheChannel` | `NeverStoppedUnderWatcher` |
| `Refinement` | `ImplementsRegistry` |

**Why an inductive invariant.** None of the safety properties is inductive: that
`a.mu` is free says nothing of the middle of an operation, and a state with the
indexes in agreement but a goroutine at the wrong place would break them in one
step. `IndInv` adds what the locations mean:

- `Locking`: the goroutine inside a critical location is the one that holds
  `a.mu`, so that at most one is;
- `Located`: what `req` and `clientChan` are at each location (a detaching
  Client has a Channel other than the one it asked for, an attaching one has
  none, a sender still has the one it read);
- `Indexed`: both indexes agree, and `running` has an entry exactly for the
  Channels with Clients. It is inductive only because each half step updates
  both indexes and `running` together, which is what the code does under `a.mu`;
- `FanoutSets`: a Client is in its Channel's set except between `Attach` and
  `RegisterClient` and between `UnregisterClient` and `Detach`;
- `RunAlive`: the handle in `running` has a live `Run`, and with video a live
  supervisor; only a cancelled one may leave, so an edge for a Channel that
  somebody has can be taken. With `Indexed` it gives `RefCounted`, which is about
  the goroutines that nobody cancelled: those that were outlive their entry;
- `Pumped`: who is pumped, at each location.

`StepInd` has one case per action. TLC checks `IndInv` first, as an invariant of
`application`. For the **refinement**, `att` is mapped to `AttBar`: a Client
counts as moved as soon as `Detach` has run (`req` then says where to), and to
its new place throughout `Attach`. `Detach` is `Switch` or `Disconnect`,
`AddClient` is `Connect`, `SendKeyEdge` is `Key`, `SwitchChannel` and
`RemoveClient` by an unattached Client are the abstract step themselves, and
everything else stutters. That a taken edge is a legal `Key` is `Located`: the
sender's Channel has not changed since it was read.

`KeyPathProofs`, for any Clients, Channels, Handles and key codes (assumptions
`CodesDistinct`, `NoEdgeDistinct` and those of Application):

| Theorem | Property |
|---|---|
| `KeyIndInvariance` | `IndInv`, of every behaviour of KeyPath too |
| `KeyInvariance` | `KeyInv` |
| `KeyTypes` | `KeyTypeOK` |
| `MasksAreExact` | `MaskExact` |
| `KeyPathImplements` | `ImplementsRegistry`, of KeyPath |

KeyPath takes Application's steps or stutters (`KeyStepIsNext`), so its `IndInv`
and the refinement of the registry come for free. `KeyInv` adds
that, while `raced` is FALSE, there is at most one job per Channel (`Alone`) and
what it makes of the mask at each point:
until it has stored, `kbd` is `ref` before its own edge, from then on it is
`ref` (`Midway`).

`VideoSupervisorProofs`, under the assumption of Application alone:

| Theorem | Property |
|---|---|
| `VideoInvariance` | `IndInv` and `VideoInv` |
| `FeedsFromOne` | `OneFeed` |
| `MembersOnly` | `OnlyMembersReached` |
| `SupervisionImplements` | `ImplementsRegistry`, of VideoSupervisor |

`OnlyMembersReached` ties what a Client got to the Channel that sent it. That a
notice reaches only members needs `NotifiesMembers`: a supervisor holds
`ch.mu` for reading while Clients are left to notify, so the fan-out set that it
took them from cannot change. `FanoutSets` of `IndInv` then says whose Channel it
is.

`JpegSplitterProofs`, for every output of ffmpeg without a fill byte before an
EOI (`Unfilled`):

| Theorem | States |
|---|---|
| `NextReturnsTheFrame` | what `next` returns is the frame that follows (`IsFrameAfter`) |
| `NextEndsAfterTheLast` | it reports the end only if no frame follows |

The loops of jpeg.go are recursive functions of a position, defined from the end
of the output backwards. A recursive function is a CHOOSE, so two things have to
be shown before it can be used: that something satisfies the recursion, which
the answer said without recursion does (`SkipFindsSOI`, `FindFindsEOI`: the least
position with a SOI, the least with an EOI after an odd run of 0xFF), and that
nothing else does, for the least distance from the end at which two solutions
differ cannot exist (`Backwards`). `FillPairs` says why the loop, which reads
the bytes after a 0xFF in pairs, sees just the odd runs. So much holds of every
output (`NextReturnsLoopFrame`, `NextEndsAfterLoopFrames`); without fill bytes a
run before a 0xD9 has one 0xFF or none, and the loop's EOI is the EOI
(`UnfilledEnds`).

`StreamHandlerProofs`, for any number of requests, the streams alone also for
any pumps and frames:

| Theorem | Property |
|---|---|
| `HandlerInvariance`, `PathInvariance` | `HandlerInv`, alone and behind ffmpeg |
| `SendsAreSafe` | `NoSendAfterClose` |
| `NewestKeepsSink` | `NewestStreamServed` |
| `OrderInvariance` | `PathInv` |
| `PathTypes` | `PathTypeOK` |
| `PicturesAreExact` | `PictureExact` |

The flag precedes the close (`FlagFirst`), whoever is past the second look holds
the lock of an open sink (`LockedIsOpen`), and only requests that were sent have
sinks (`OnlySent`). That images stay in order is not inductive on the sinks
alone: a sink is in order after a send only if the image sent is after all it
holds. `Ahead` orders the whole way: what is in any sink, what the Channel's pump
has in hand, what waits for the subscriber, where the splitter is. It holds
because a Channel has one pump with one frame in hand; the standby frame of the
other pump may fall anywhere and does not count (`Behind`). The step of the
splitter is that of `JpegSplitterProofs`: that the images are whole is claimed of
the outputs without a fill byte before an EOI, their order of all. The theorems
about images hold for every set of outputs that `PathConstants` allows, however many and however long.

`MjpegStreamProofs`, for any subscriptions and supervisors (`StreamConstants`):

| Theorem | Property |
|---|---|
| `StreamInvariance` | `StreamInv` |
| `StreamTypes` | `StreamTypeOK` |
| `StreamNoPanic` | `NoPanic` |
| `OneFfmpeg` | `OneSupervisor` |
| `NobodyIsLate` | `NoLateSubscriber` |
| `StreamIsASource` | the steps of `VideoSource` (the safety half of `ImplementsVideoSource`) |

That no channel is closed twice is not inductive: `OneHand` says where a channel
is while it is open (in the map, or in the old map of one supervisor), and
`ToldToStop` why a supervisor leaves: `stopping` is set in the section that
empties the map, and only Close cancels without it.

`WebSessionProofs`, for any Channels and any number of acts and failures
(`SessionConstants`):

| Theorem | Property |
|---|---|
| `SessionInvariance` | `SessionInv` |
| `SessionTypes` | `SessionTypeOK` |
| `KeysReachTheSelected` | `KeysFollowSelector` |
| `KeysTakenOnce` | `KeysOnceInOrder` |

A key says nothing of the Channel it is for; the server sends it where its Client
is. So what was on the way when the connection broke decides. `Following` says
that each sequence of messages (the page's queue, what a connection carries) has
no gaps: a key shows what the message before it left in the selector, the last
shows what the selector shows now, and the first, if it is a key, is for the
Channel its session is attached to unless the session has none. A broken
connection loses the end of a sequence, never its middle, and a new one begins
unattached; both keep this. `Numbered` says that a key is in one place, and in
order there. Of keys sent over two connections no order is claimed: a handler may
still read what its lost connection delivered while the page's next session is
served.

`PicoLinkProofs`, for any key events, faults, changes of the bus and depth of the
firmware's queue (`PicoConstants`), with the tables of the code:

| Theorem | Property |
|---|---|
| `UsagesTellKeysApart` | `hidUsage` is injective, and never 0 or the sync byte |
| `PicoInvariance` | `PicoInv` |
| `PicoTypes` | `PicoTypeOK` |
| `ReportsAreInOrder` | `ReportsInOrder` |
| `MountsStartClean` | `NothingFromBeforeMount` |
| `SleepIsSafe` | `NoLostWakeup` |
| `TargetSeesTheKey` | `KeyIdentified` |
| `FaultsCostOneCommand` | `ResyncWithinOne` |

`PicoInv` follows a command from the line to the target. `Parsing` and
`Sequenced`: the line holds bytes of the last frame at most, a frame that was
parsed leaves too few bytes in it for a second command, and the queue, the
command in hand and the reports are in the order typed. `Faithful`: a command
that bears a frame's number has that frame's bytes, so that what the target sees
is read back through the table (`UsagesTellKeysApart`). `Mounted`: a mount empties
the queue before the core takes from it, and the command in hand cannot meet
another target. `Awake`: from the check before `__wfe` on, whatever adds work
sets the event register. For `ResyncWithinOne` the count of lost frames is not
inductive while a frame is on the line. `Resync` lets the last frame be missing
as long as the parser is where the rest of it continues (`OnTrack`); three
untouched bytes bring it there unless the modifier byte is itself the sync byte,
which is why such frames count.

**Only model-checked**: the liveness properties (`EdgesReported`, `OutageEnds`,
`OperationsComplete`, `StreamProgress`, the liveness half of
`ImplementsVideoSource`, `CommandsDrain`, `Reconnects`, `SessionEnds`,
`HandlersEnd`), since temporal reasoning under fairness and ENABLED are out of
the prover's reach, and the four refuted properties, which are TLC's to show.
Every safety invariant and action property of the passing runs is proved.

## 6. Findings

- **Two `Run` goroutines on one Channel** (`run_overlap`). `stopChannelLocked`
  cancels and does not wait for the handle's `done`. Leave and re-enter while
  `Run` is in its body (or take the random select arm once more) and both
  generations update `KbdState` without a lock: a modifier update is lost.
  channel.go:84-86 says that there is exactly one `Run`. application.go:87-89,
  that a Channel is in `running` iff its `Run` is active, is untrue of the same
  goroutine: the old `Run` has no entry any more. `RefCounted` is therefore about
  those that were not told to stop.
- **Modifiers bleed between Clients** (`modifier_bleed`). The mask is the
  Channel's: one operator's held Shift is stamped on another's keys, and stays
  when its Client is gone. docs/implementation-plan.md:177 says that held
  modifiers do not bleed between Clients. `MaskExact` states what the code does.
- **ffmpeg for nobody** (`stream_leak`). After a failure emptied the subscriber
  map, cancelling the last subscription stops nothing, and the supervisor goes
  on relaunching ffmpeg. v4l.go:174-176 says that it is torn down.
- **A stale "video down"** (`stale_notice`). A supervisor cancelled between its
  `ctx.Err` check and its notification tells the next incarnation's Clients that
  video is down; the next supervisor pumps the primary and never has a recovery
  to tell. application.go:58-60 promises the second notice.

Observations without a run of their own:

- With one fill byte before an EOI (FF FF D9) the loop of `next` takes FF FF for
  a pair and misses the EOI, so two images come out as one, although
  jpeg.go:23-27 brackets an image between SOI and EOI. ffmpeg does not write fill
  bytes itself but copies what the camera sends. `PictureExact` and the theorems
  promise whole images only of outputs without the case (`Unfilled`); `video_path`
  has an output with it, for the order alone.
- A stream request that is overtaken on its way to the server takes the Client's
  sink from the newer one, which then shows a still picture until the page asks
  again (`overtaken`).
- A key-up typed while the page is disconnected reaches a new, unattached Client
  and is refused; one that arrives while the target's bus is suspended is
  discarded. The target goes on with the key held.
- A report shows one key: pressing a second releases the first (TODO.md:69).
- With the bus up and an empty queue `usb_loop_once` starts again at once; the
  sleep is reached only after a command or with the bus down.

## 7. What is not modelled

- **Auth, request logging, embedded assets, v4l-grab, config, main**: no state
  that changes concurrently; a null provider, static files, a command-line tool,
  sequential start-up.
- **The router**: a stateless lookup by message type.
- **The WebSocket codec's framing**: a library's; a write that fails is a step of
  `WebSession`, its timeout is in the fairness.
- **Synthetic frames**: drawing. As a source it never closes before its context
  ends, which `VideoSource` allows.
- **The page's layout, status line and control sequences**: a sequence is a list
  of keys.
- **Time**: a deadline is a step that may come at any moment it is armed. So
  whether a probe's 2 s can be met by an ffmpeg that may take 3 s for its first
  frame is not decided here (`video_live` assumes that some probe succeeds).
- **`Channels`, `ChannelOf`, `IsChannelRunning`** only read; `AddChannel` runs at
  start-up, so the set of Channels is a constant.
- **baseCtx**: nothing cancels Application's base context before exit.
- **The firmware's debug output, counters and watchdog**: the watchdog fires only
  if a loop hangs, which `CommandsDrain` excludes.

## 8. Plan

1. **VideoRecovery**: the supervisor over MjpegStream with discrete time, for
   the probe's 2 s against ffmpeg's start and its 3 s watchdog.
2. Proofs: the supervisor over any source that keeps `VideoSource`, so that
   `StreamIsASource` carries over to what Clients are shown.
3. Configuration: `Validate` as a pure model, if the file grows rules worth it.
