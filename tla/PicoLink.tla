------------------------------ MODULE PicoLink ------------------------------
(***************************************************************************)
(* From a key_event message to the target's keyboard: the server encodes   *)
(* the edge and writes a frame to the serial line (cmd/hydrakvm, kvm,      *)
(* picolink), and the Pico (firmware/pico/hydra-keyboard.c) parses it in   *)
(* the UART interrupt of core 1, queues the command and reports it over    *)
(* USB from the main loop of core 0.                                       *)
(*                                                                         *)
(* The line may lose, change or add a byte, a write may fail halfway, the  *)
(* target may unplug, suspend and stall.  Bytes, commands and reports      *)
(* carry the number of the frame they belong to (0 for none), and lost and *)
(* reported are kept, only to state the properties.                        *)
(***************************************************************************)
EXTENDS KeyTables, Integers, FiniteSets

CONSTANTS
    Busy,        \* the codes typed at length; any other is typed on its own
    Strangers,   \* code strings that no table knows
    StartMasks,  \* the modifiers held when the model starts
    MaxEvents,   \* bound on the key_event messages
    MaxFaults,   \* bound on the faults of the line
    MaxHost,     \* bound on the changes of the USB bus
    Depth        \* CMD_QUEUE_DEPTH

ASSUME PicoConstants ==
    /\ Busy \subseteq ToSet(KeyCodes)
    /\ Strangers \cap ToSet(KeyCodes) = {}
    /\ StartMasks \subseteq 0..255
    /\ {MaxEvents, MaxFaults, MaxHost} \subseteq Nat
    /\ Depth \in Nat \ {0}

VARIABLES
    mask,     \* KbdState.Modifiers of the Channel
    events,   \* the KeyEvents whose frame was written, in order
    typed,    \* how many messages were handled
    line,     \* bytes on the serial line: [v: value, of: its frame]
    faults,   \* how many faults the line had
    rx,       \* the parser: [state, mod: the byte kept, of: its frame]
    queue,    \* cmd_queue: [mod, kc, of, mount: mounts when it was parsed]
    host,     \* the bus: "up", "suspended" or "gone"
    bus,      \* the bus as TinyUSB knows it after its last tud_task
    mounts,   \* how often the device was mounted
    changes,  \* how often the bus changed
    pc,       \* where core 0 is
    cmd,      \* the command core 0 took from the queue
    event,    \* the event register that __wfe waits for
    report,   \* the report in the USB endpoint, or NoCmd
    target,   \* the last report the target saw
    lost,     \* frames that will not reach the target
    reported  \* the frames whose report was given to the endpoint, in order

picoVars == <<mask, events, typed, line, faults, rx, queue, host, bus, mounts,
              changes, pc, cmd, event, report, target, lost, reported>>

serial == <<mask, events, typed, line, faults>>
usb == <<host, changes>>

Byte == 0..255
NoCmd == [mod |-> 0, kc |-> 0, of |-> 0, mount |-> 0]
Cmd == [mod : Byte, kc : Byte, of : 0..MaxEvents, mount : 0..MaxHost + 1]

\* What core 0 does next: tud_task, take a command, wait for the endpoint,
\* decide to sleep, execute __wfe; "asleep" in it.
CorePC == {"task", "take", "wait", "idle", "wfe", "asleep"}

PicoTypeOK ==
    /\ mask \in Byte
    /\ events \in Seq([code : Nat, type : {"up", "down"}, mods : Byte])
    /\ typed \in 0..MaxEvents
    /\ line \in Seq([v : Byte, of : 0..MaxEvents])
    /\ faults \in 0..MaxFaults
    /\ rx \in [state : {"sync", "mod", "kc"}, mod : Byte, of : 0..MaxEvents]
    /\ queue \in Seq(Cmd) /\ Len(queue) <= Depth
    /\ {host, bus} \subseteq {"up", "suspended", "gone"}
    /\ mounts \in 0..MaxHost + 1
    /\ changes \in 0..MaxHost
    /\ pc \in CorePC
    /\ {cmd, report, target} \subseteq Cmd
    /\ event \in BOOLEAN
    /\ lost \subseteq 1..MaxEvents
    /\ reported \in Seq(0..MaxEvents)

\* The device is mounted and nothing is typed; the target has seen the
\* modifiers held so far.
PicoInit ==
    /\ mask \in StartMasks
    /\ events = << >> /\ typed = 0
    /\ line = << >> /\ faults = 0
    /\ rx = [state |-> "sync", mod |-> 0, of |-> 0]
    /\ queue = << >>
    /\ host = "up" /\ bus = "up" /\ mounts = 1 /\ changes = 0
    /\ pc = "task" /\ cmd = NoCmd /\ event = FALSE
    /\ report = NoCmd /\ target = [NoCmd EXCEPT !.mod = mask]
    /\ lost = {} /\ reported = << >>

-----------------------------------------------------------------------------
(* The server.                                                             *)

\* Every event typed so far has a code of Busy.
Exercised == \A i \in DOMAIN events : KeyCodes[events[i].code] \in Busy

\* Fault: a key already held is added to the mask again.
EdgedAdds(code, type) ==
    IF ~IsModifier(code) THEN mask
    ELSE IF type = "down" THEN mask + ModifierBit(code)
    ELSE ClearBit(mask, ModifierBit(code))

\* The mask after an edge, as Run computes it.
Edged(code, type) ==
    IF ~IsModifier(code) THEN mask
    ELSE IF type = "down" THEN SetBit(mask, ModifierBit(code))
    ELSE ClearBit(mask, ModifierBit(code))

\* A frame on the line, and what may arrive instead: a byte is lost, changed or
\* comes from nowhere (as the sync byte, or as one that no command holds), or
\* the write failed halfway.
Sent(frame) == [i \in 1..3 |-> [v |-> frame[i], of |-> Len(events) + 1]]
Noise == {SyncByte, 254}
Faulty(bytes) ==
    {RemoveAt(bytes, i) : i \in 1..3}
        \cup {[bytes EXCEPT ![i].v = v] : i \in 1..3, v \in Noise}
        \cup {InsertAt(bytes, i, [v |-> v, of |-> 0]) : i \in 1..3, v \in Noise}
        \cup {SubSeq(bytes, 1, n) : n \in 0..2}

\* One key_event message, from the wiring's handler to the serial write: an
\* unknown code or type is an error and goes no further.  A frame is written
\* when the one before has arrived, since nobody could tell a frame that waits
\* in the line from one not typed yet.
KeyMessage(code, type) ==
    /\ typed < MaxEvents /\ line = << >> /\ Exercised
    /\ code \notin Busy => typed = 0
    /\ typed' = typed + 1
    /\ IF code \notin DOMAIN w3cCodeToKVM \/ type \notin DOMAIN KeyTypes
         THEN UNCHANGED <<mask, events, line, faults>>
         ELSE LET c == w3cCodeToKVM[code]
                  m == Edged(c, KeyTypes[type])
                  ke == [code |-> c, type |-> KeyTypes[type], mods |-> m]
                  frame == EncodeKeyEvent(ke) IN
              /\ mask' = m
              /\ IF frame = << >>
                   THEN UNCHANGED <<events, line, faults>>
                   ELSE /\ events' = Append(events, ke)
                        /\ \/ /\ line' = Sent(frame)
                              /\ UNCHANGED faults
                           \/ /\ faults < MaxFaults /\ changes = 0
                              /\ faults' = faults + 1
                              /\ line' \in Faulty(Sent(frame)) \ {Sent(frame)}
    /\ UNCHANGED <<rx, queue, host, bus, mounts, changes, pc, cmd, event, report,
                   target, lost, reported>>

-----------------------------------------------------------------------------
(* Core 1.                                                                 *)

\* The frame a parsed command is the faithful copy of, or 0.
Intact(mod, kc, i, j) ==
    IF i = j /\ i # 0 /\ EncodeKeyEvent(events[i]) = <<SyncByte, mod, kc>> THEN i ELSE 0

\* Fault: the sync byte is recognised between frames only.
OnUartRxBetween ==
    /\ line # << >>
    /\ line' = Tail(line)
    /\ LET b == Head(line)
           new == [mod |-> rx.mod, kc |-> b.v, mount |-> mounts,
                   of |-> Intact(rx.mod, b.v, rx.of, b.of)] IN
       \/ /\ rx.state = "sync"
          /\ rx' = IF b.v = SyncByte THEN [rx EXCEPT !.state = "mod"] ELSE rx
          /\ UNCHANGED <<queue, event>>
       \/ /\ rx.state = "mod"
          /\ rx' = [state |-> "kc", mod |-> b.v, of |-> b.of]
          /\ UNCHANGED <<queue, event>>
       \/ /\ rx.state = "kc" /\ Len(queue) < Depth
          /\ rx' = [state |-> "sync", mod |-> 0, of |-> 0]
          /\ queue' = Append(queue, new)
          /\ event' = TRUE
    /\ UNCHANGED <<mask, events, typed, faults, host, bus, mounts, changes, pc, cmd,
                   report, target, lost, reported>>

\* on_uart_rx_isr, one byte: a sync byte starts a frame whatever the state.  A
\* full queue refuses the new command; adding one signals the other core.
OnUartRx ==
    /\ line # << >>
    /\ line' = Tail(line)
    /\ LET b == Head(line)
           new == [mod |-> rx.mod, kc |-> b.v, mount |-> mounts,
                   of |-> Intact(rx.mod, b.v, rx.of, b.of)] IN
       \/ /\ b.v = SyncByte
          /\ rx' = [rx EXCEPT !.state = "mod"]
          /\ UNCHANGED <<queue, event, lost>>
       \/ /\ b.v # SyncByte /\ rx.state = "sync"
          /\ UNCHANGED <<rx, queue, event, lost>>
       \/ /\ b.v # SyncByte /\ rx.state = "mod"
          /\ rx' = [state |-> "kc", mod |-> b.v, of |-> b.of]
          /\ UNCHANGED <<queue, event, lost>>
       \/ /\ b.v # SyncByte /\ rx.state = "kc"
          /\ rx' = [state |-> "sync", mod |-> 0, of |-> 0]
          /\ IF Len(queue) < Depth
               THEN /\ queue' = Append(queue, new)
                    /\ event' = TRUE
                    /\ UNCHANGED lost
               ELSE /\ lost' = lost \cup ({new.of} \ {0})
                    /\ UNCHANGED <<queue, event>>
    /\ UNCHANGED <<mask, events, typed, faults, host, bus, mounts, changes, pc, cmd,
                   report, target, reported>>

-----------------------------------------------------------------------------
(* Core 0.                                                                 *)

\* drain_cmd_queue.
DrainCmdQueue ==
    /\ queue' = << >>
    /\ lost' = lost \cup ({queue[i].of : i \in DOMAIN queue} \ {0})

\* A report handed to the endpoint, which must be free.
Report(r) ==
    /\ report' = r
    /\ reported' = Append(reported, r.of)

\* Fault: tud_mount_cb does not drain the queue.
TudTaskKeepsQueue ==
    /\ bus' = host
    /\ CASE bus = "gone" /\ host # "gone" ->
              /\ mounts' = mounts + 1
              /\ report' = [NoCmd EXCEPT !.mount = mounts']
              /\ UNCHANGED <<queue, lost, reported>>
         [] bus # "gone" /\ host = "gone" ->
              /\ DrainCmdQueue
              /\ report' = NoCmd
              /\ UNCHANGED <<mounts, reported>>
         [] OTHER -> UNCHANGED <<queue, lost, mounts, report, reported>>

\* tud_task with its callbacks: a new mount drains the queue and releases all
\* keys, an unmount drains it; suspending and resuming have no callback.
TudTask ==
    /\ bus' = host
    /\ CASE bus = "gone" /\ host # "gone" ->
              /\ DrainCmdQueue
              /\ mounts' = mounts + 1
              /\ report' = [NoCmd EXCEPT !.mount = mounts']
              /\ UNCHANGED reported
         [] bus # "gone" /\ host = "gone" ->
              /\ DrainCmdQueue
              /\ report' = NoCmd
              /\ UNCHANGED <<mounts, reported>>
         [] OTHER -> UNCHANGED <<queue, lost, mounts, report, reported>>

\* The first line of usb_loop_once.
LoopTask ==
    /\ pc = "task"
    /\ TudTask
    /\ pc' = "take"
    /\ UNCHANGED <<serial, usb, rx, cmd, event, target>>

\* Fault: the newest command is taken first.
LoopTakeNewest ==
    /\ pc = "take"
    /\ \/ /\ bus # "up"
          /\ DrainCmdQueue
          /\ pc' = "idle"
          /\ UNCHANGED cmd
       \/ /\ bus = "up" /\ queue = << >>
          /\ pc' = "task"
          /\ UNCHANGED <<queue, lost, cmd>>
       \/ /\ bus = "up" /\ queue # << >>
          /\ cmd' = Last(queue)
          /\ queue' = Front(queue)
          /\ pc' = "wait"
          /\ UNCHANGED lost
    /\ UNCHANGED <<serial, usb, rx, bus, mounts, event, report, target, reported>>

\* An unusable bus: what is queued is discarded.  A usable one: a command is
\* taken, or the loop starts again at once.
LoopTake ==
    /\ pc = "take"
    /\ \/ /\ bus # "up"
          /\ DrainCmdQueue
          /\ pc' = "idle"
          /\ UNCHANGED cmd
       \/ /\ bus = "up" /\ queue = << >>
          /\ pc' = "task"
          /\ UNCHANGED <<queue, lost, cmd>>
       \/ /\ bus = "up" /\ queue # << >>
          /\ cmd' = Head(queue)
          /\ queue' = Tail(queue)
          /\ pc' = "wait"
          /\ UNCHANGED lost
    /\ UNCHANGED <<serial, usb, rx, bus, mounts, event, report, target, reported>>

\* tud_hid_ready: the device is usable and its endpoint free.
HidReady == bus = "up" /\ report = NoCmd

\* hid_ready_wait succeeds and the command is reported.
LoopReport ==
    /\ pc = "wait" /\ HidReady
    /\ Report(cmd)
    /\ cmd' = NoCmd
    /\ pc' = "idle"
    /\ UNCHANGED <<serial, usb, rx, queue, bus, mounts, event, target, lost>>

\* It polls the stack meanwhile,
LoopPoll ==
    /\ pc = "wait" /\ ~HidReady
    /\ bus # host
    /\ TudTask
    /\ UNCHANGED <<serial, usb, rx, pc, cmd, event, target>>

\* Fault: it waits without a deadline.
LoopTimeoutNever ==
    /\ pc = "wait" /\ ~HidReady /\ bus = "gone"
    /\ lost' = lost \cup ({cmd.of} \ {0})
    /\ cmd' = NoCmd
    /\ pc' = "idle"
    /\ UNCHANGED <<serial, usb, rx, queue, bus, mounts, event, report, target, reported>>

\* and gives the command up after 10 ms.
LoopTimeout ==
    /\ pc = "wait" /\ ~HidReady
    /\ lost' = lost \cup ({cmd.of} \ {0})
    /\ cmd' = NoCmd
    /\ pc' = "idle"
    /\ UNCHANGED <<serial, usb, rx, queue, bus, mounts, event, report, target, reported>>

\* Fault: the loop goes to sleep without looking at the queue.
LoopIdleBlind ==
    /\ pc = "idle"
    /\ pc' = IF bus = host THEN "wfe" ELSE "task"
    /\ UNCHANGED <<serial, usb, rx, queue, bus, mounts, cmd, event, report, target,
                   lost, reported>>

\* The check before sleeping: no USB event is pending and the queue is empty.
LoopIdle ==
    /\ pc = "idle"
    /\ pc' = IF bus = host /\ queue = << >> THEN "wfe" ELSE "task"
    /\ UNCHANGED <<serial, usb, rx, queue, bus, mounts, cmd, event, report, target,
                   lost, reported>>

\* __wfe returns at once if the event register is set, and clears it; the
\* register may have been set before the check.
LoopWfe ==
    /\ pc \in {"wfe", "asleep"}
    /\ \/ event /\ pc' = "task"
       \/ ~event /\ pc = "wfe" /\ pc' = "asleep"
    /\ event' = FALSE
    /\ UNCHANGED <<serial, usb, rx, queue, bus, mounts, cmd, report, target, lost, reported>>

-----------------------------------------------------------------------------
(* The environment of the Pico.                                            *)

\* The bus changes, which raises an interrupt.  One change is seen before the
\* next, a run has faults of the line or changes of the bus but not both (a
\* bound), and resuming or enumerating takes longer than the 10 ms a command
\* waits for the endpoint.
HostChanges(h) ==
    /\ changes < MaxHost /\ faults = 0 /\ Exercised
    /\ host = bus /\ h # host
    /\ h = "up" => pc # "wait"
    /\ ~(host = "gone" /\ h = "suspended")
    /\ host' = h
    /\ changes' = changes + 1
    /\ event' = TRUE
    /\ target' = IF h = "gone" THEN NoCmd ELSE target
    /\ UNCHANGED <<serial, rx, queue, bus, mounts, pc, cmd, report, lost, reported>>

\* The target polls the endpoint, which raises an interrupt.
HostPolls ==
    /\ report # NoCmd /\ host = "up" /\ bus = "up"
    /\ target' = report
    /\ report' = NoCmd
    /\ event' = TRUE
    /\ UNCHANGED <<serial, usb, rx, queue, bus, mounts, pc, cmd, lost, reported>>

\* The repeating timer of main: an interrupt each second.
LivenessTick ==
    /\ ~event
    /\ event' = TRUE
    /\ UNCHANGED <<serial, usb, rx, queue, bus, mounts, pc, cmd, report, target, lost, reported>>

Core0 == LoopTask \/ LoopTake \/ LoopReport \/ LoopPoll \/ LoopTimeout \/ LoopIdle \/ LoopWfe

PicoNext ==
    \/ \E code \in ToSet(KeyCodes) \cup Strangers, type \in DOMAIN KeyTypes \cup Strangers :
          KeyMessage(code, type)
    \/ OnUartRx
    \/ Core0
    \/ \E h \in {"up", "suspended", "gone"} : HostChanges(h)
    \/ HostPolls
    \/ LivenessTick

PicoSpec == PicoInit /\ [][PicoNext]_picoVars

\* The cores run and the line delivers.  Nothing is asked of the operator, of
\* the target, or of the one-second timer.
PicoFairSpec == PicoSpec /\ WF_picoVars(OnUartRx) /\ WF_picoVars(Core0)

-----------------------------------------------------------------------------
(* Properties.                                                             *)

\* The frames that are accounted for: reported, on the way through the Pico,
\* or lost there for a known reason.
Accounted ==
    ToSet(reported) \cup lost \cup {queue[i].of : i \in DOMAIN queue} \cup {cmd.of}

\* A lost, changed or added byte, or a write cut short, costs at most one
\* command (hydra-keyboard.c:39-43): once the line is empty, there are no more
\* frames that the parser did not take intact than there were faults.  A frame
\* with all eight modifiers held looks like a resynchronisation and is counted
\* as a fault of its own.
ResyncWithinOne ==
    line = << >> =>
        Cardinality(DOMAIN events \ Accounted)
            <= faults + Cardinality({i \in DOMAIN events : events[i].mods = SyncByte})

\* Commands reach the endpoint in the order they were typed and once each,
\* whatever was lost between them.
ReportsInOrder ==
    \A i, j \in DOMAIN reported :
        i < j /\ reported[i] # 0 /\ reported[j] # 0 => reported[i] < reported[j]

\* Nothing received before a target was plugged in is typed into it
\* (hydra-keyboard.c:120, 184).
NothingFromBeforeMount == report # NoCmd => report.mount = mounts

\* Core 0 never sleeps on work: while it is in __wfe with no event signalled,
\* no command is queued and no USB event waits, so no key waits for the timer.
NoLostWakeup == pc = "asleep" /\ ~event => queue = << >> /\ bus = host

\* The key the target sees is the key that was typed, read back through the
\* usage table: one key for a press, none for a release or a modifier, and the
\* modifier's own bit, counted from its usage 0xE0 + n.
KeyIdentified ==
    target.of # 0 =>
        LET e == events[target.of]
            shown == {c \in DOMAIN hidUsage : hidUsage[c] = target.kc} IN
        /\ shown = IF e.type = "down" /\ ~IsModifier(e.code) THEN {e.code} ELSE {}
        /\ IsModifier(e.code) =>
              (HasBit(target.mod, 2 ^ (hidUsage[e.code] - 224)) <=> e.type = "down")

\* What arrives on the line is dealt with: the Pico comes to rest with nothing
\* parsed and undelivered, whatever the target does and without the timer.
CommandsDrain == line # << >> ~> (line = << >> /\ queue = << >> /\ cmd = NoCmd)
=============================================================================
