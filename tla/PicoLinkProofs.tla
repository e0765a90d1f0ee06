--------------------------- MODULE PicoLinkProofs ---------------------------
(***************************************************************************)
(* A key on its way to the target, for any keys typed, any line faults,    *)
(* any changes of the bus and any depth of the firmware's queue: what is   *)
(* reported is in order and for the target that is plugged in, the key the *)
(* target sees is the key that was typed, a fault costs one command, and   *)
(* core 0 does not sleep on work.                                          *)
(***************************************************************************)
EXTENDS PicoLink, SequenceTheorems, FiniteSetTheorems, TLAPS

-----------------------------------------------------------------------------
(* The tables.                                                             *)

\* The runs of usages fit into a byte and do not overlap.
LEMMA RunsFit ==
    /\ \A r \in UsageRuns : \A i \in DOMAIN r.keys :
          r.first \in Nat /\ i \in Nat /\ r.first + i - 1 \in 1..254
    /\ \A r, q \in UsageRuns : \A i \in DOMAIN r.keys, j \in DOMAIN q.keys :
          r.first + i = q.first + j => r = q
BY DEF UsageRuns

\* A key with a usage has a KeyCode.
LEMMA RunKeysKnown == \A r \in UsageRuns : \A i \in DOMAIN r.keys : r.keys[i] \in ToSet(KeyCodes)
BY DEF UsageRuns, ToSet, KeyCodes

LEMMA CodeOfName ==
    \A n \in ToSet(KeyCodes) : kvm[n] \in DOMAIN KeyCodes /\ KeyCodes[kvm[n]] = n /\ kvm[n] \in Nat
<1>1. DOMAIN KeyCodes \subseteq Nat
    BY DEF KeyCodes
<1>2. ASSUME NEW n \in ToSet(KeyCodes) PROVE kvm[n] \in DOMAIN KeyCodes /\ KeyCodes[kvm[n]] = n
    BY <1>2 DEF kvm, ToSet
<1> QED BY <1>1, <1>2

\* The usage of a KeyCode is the place of its name in a run.
LEMMA UsageOfCode ==
    ASSUME NEW c \in DOMAIN hidUsage
    PROVE  /\ c \in Nat /\ kvm[KeyCodes[c]] = c
           /\ \E r \in UsageRuns : \E i \in DOMAIN r.keys :
                 r.keys[i] = KeyCodes[c] /\ hidUsage[c] = r.first + i - 1
<1>1. PICK n \in UsageKeys : c = kvm[n]
    BY DEF hidUsage
<1>2. \E r \in UsageRuns : n \in ToSet(r.keys)
    BY DEF UsageKeys
<1>3. n \in ToSet(KeyCodes)
    BY <1>2, RunKeysKnown DEF ToSet
<1>4. c \in Nat /\ KeyCodes[c] = n
    BY <1>1, <1>3, CodeOfName
<1> DEFINE run == CHOOSE r \in UsageRuns : n \in ToSet(r.keys)
<1> DEFINE i == CHOOSE j \in DOMAIN run.keys : run.keys[j] = n
<1>5. run \in UsageRuns /\ n \in ToSet(run.keys)
    BY <1>2
<1>6. i \in DOMAIN run.keys /\ run.keys[i] = n
    BY <1>5 DEF ToSet
<1>7. hidUsage[c] = run.first + i - 1
    BY <1>1, <1>4 DEF hidUsage
<1> QED BY <1>1, <1>4, <1>5, <1>6, <1>7

\* Every usage is a byte other than 0 and the sync byte, and no two keys share
\* one: reading a report back through hidUsage (hid.go) names one key.
THEOREM UsagesTellKeysApart ==
    /\ \A c \in DOMAIN hidUsage : hidUsage[c] \in 1..254
    /\ \A c, d \in DOMAIN hidUsage : hidUsage[c] = hidUsage[d] => c = d
<1>1. ASSUME NEW c \in DOMAIN hidUsage PROVE hidUsage[c] \in 1..254
    BY UsageOfCode, RunsFit
<1>2. ASSUME NEW c \in DOMAIN hidUsage, NEW d \in DOMAIN hidUsage, hidUsage[c] = hidUsage[d]
      PROVE  c = d
  <2>1. PICK r \in UsageRuns : \E i \in DOMAIN r.keys :
           r.keys[i] = KeyCodes[c] /\ hidUsage[c] = r.first + i - 1
    BY UsageOfCode
  <2>2. PICK i \in DOMAIN r.keys : r.keys[i] = KeyCodes[c] /\ hidUsage[c] = r.first + i - 1
    BY <2>1
  <2>3. PICK q \in UsageRuns : \E j \in DOMAIN q.keys :
           q.keys[j] = KeyCodes[d] /\ hidUsage[d] = q.first + j - 1
    BY UsageOfCode
  <2>4. PICK j \in DOMAIN q.keys : q.keys[j] = KeyCodes[d] /\ hidUsage[d] = q.first + j - 1
    BY <2>3
  <2>5. r.first \in Nat /\ q.first \in Nat /\ i \in Nat /\ j \in Nat
    BY RunsFit
  <2>6. r.first + i = q.first + j
    <3>1. r.first + i - 1 = q.first + j - 1
        BY <1>2, <2>2, <2>4, Zenon
    <3> QED BY <2>5, <3>1
  <2>7. r = q /\ i = j
    BY <2>5, <2>6, RunsFit
  <2> QED BY <2>2, <2>4, <2>7, UsageOfCode
<1> QED BY <1>1, <1>2

Bits == {1, 2, 4, 8, 16, 32, 64, 128}

\* A modifier's bit in the report is the one its usage, 0xE0 + n, stands for.
LEMMA BitOfModifier ==
    ASSUME NEW c, IsModifier(c)
    PROVE  c \in DOMAIN hidUsage /\ ModifierBit(c) \in Bits /\ ModifierBit(c) = 2 ^ (hidUsage[c] - 224)
<1> DEFINE i == CHOOSE j \in 1..8 : kvm[Modifiers[j]] = c
<1>1. i \in 1..8 /\ kvm[Modifiers[i]] = c
  <2>1. DOMAIN Modifiers = 1..8
    BY DEF Modifiers
  <2> QED BY <2>1 DEF IsModifier
<1> HIDE DEF i
<1>2. ModifierBit(c) = 2 ^ (i - 1)
    BY DEF ModifierBit, i
<1>3. \E r \in UsageRuns : Modifiers[i] \in ToSet(r.keys)
  <2>1. \E r \in UsageRuns : r.keys = Modifiers
    BY DEF UsageRuns, Modifiers
  <2>2. DOMAIN Modifiers = 1..8
    BY DEF Modifiers
  <2> QED BY <1>1, <2>1, <2>2 DEF ToSet
<1>4. c \in DOMAIN hidUsage /\ KeyCodes[c] = Modifiers[i]
  <2>1. Modifiers[i] \in ToSet(KeyCodes)
    BY <1>3, RunKeysKnown DEF ToSet
  <2> QED BY <1>1, <1>3, <2>1, CodeOfName DEF hidUsage, UsageKeys
<1>5. \A r \in UsageRuns : \A j \in DOMAIN r.keys : r.keys[j] = Modifiers[i] => r.first + j = 224 + i
    BY <1>1 DEF UsageRuns, Modifiers
<1>6. hidUsage[c] - 224 = i - 1
    BY <1>1, <1>4, <1>5, UsageOfCode, RunsFit
<1>7. 2 ^ (i - 1) \in Bits
  <2>1. 2^0 = 1 /\ 2^1 = 2 /\ 2^2 = 4 /\ 2^3 = 8 /\ 2^4 = 16 /\ 2^5 = 32 /\ 2^6 = 64 /\ 2^7 = 128
    OBVIOUS
  <2> DEFINE k == i - 1
  <2>2. k \in {0, 1, 2, 3, 4, 5, 6, 7}
    BY <1>1
  <2> HIDE DEF k
  <2>3. k = 0 \/ k = 1 \/ k = 2 \/ k = 3 \/ k = 4 \/ k = 5 \/ k = 6 \/ k = 7
    BY <2>2
  <2>4. /\ k = 0 => 2 ^ k = 1
        /\ k = 1 => 2 ^ k = 2
        /\ k = 2 => 2 ^ k = 4
        /\ k = 3 => 2 ^ k = 8
        /\ k = 4 => 2 ^ k = 16
        /\ k = 5 => 2 ^ k = 32
        /\ k = 6 => 2 ^ k = 64
        /\ k = 7 => 2 ^ k = 128
    BY ONLY <2>1, Zenon
  <2>5. 2 ^ k \in Bits
    BY <2>3, <2>4 DEF Bits
  <2> QED BY <2>5 DEF k
<1> QED BY <1>2, <1>4, <1>6, <1>7

\* Setting and clearing a bit of a byte.
LEMMA BitsOfBytes ==
    \A m \in Byte, b \in Bits : /\ SetBit(m, b) \in Byte /\ ClearBit(m, b) \in Byte
                                /\ HasBit(SetBit(m, b), b) /\ ~HasBit(ClearBit(m, b), b)
BY DEF Byte, Bits, SetBit, ClearBit, HasBit

KeyEvent == [code : Nat, type : {"up", "down"}, mods : Byte]

\* A frame is the sync byte, the modifiers and a byte that is not the sync byte.
LEMMA FrameShape ==
    ASSUME NEW e \in KeyEvent, EncodeKeyEvent(e) # << >>
    PROVE  \E k \in 0..254 :
              /\ EncodeKeyEvent(e) = <<SyncByte, e.mods, k>>
              /\ k = IF IsModifier(e.code) \/ e.type = "up" THEN 0 ELSE hidUsage[e.code]
              /\ ~IsModifier(e.code) => e.code \in DOMAIN hidUsage
<1>1. CASE IsModifier(e.code)
    BY <1>1 DEF EncodeKeyEvent
<1>2. CASE ~IsModifier(e.code)
  <2>1. e.code \in DOMAIN hidUsage /\ hidUsage[e.code] \in 0..254
    BY <1>2, UsagesTellKeysApart DEF EncodeKeyEvent
  <2> QED BY <1>2, <2>1 DEF EncodeKeyEvent
<1> QED BY <1>1, <1>2

\* The target's key of an intact frame is the key of its event.
LEMMA FrameTellsKey ==
    ASSUME NEW e \in KeyEvent, NEW k, EncodeKeyEvent(e) = <<SyncByte, e.mods, k>>
    PROVE  {c \in DOMAIN hidUsage : hidUsage[c] = k}
              = IF e.type = "down" /\ ~IsModifier(e.code) THEN {e.code} ELSE {}
<1>1. /\ k = IF IsModifier(e.code) \/ e.type = "up" THEN 0 ELSE hidUsage[e.code]
      /\ ~IsModifier(e.code) => e.code \in DOMAIN hidUsage
  <2>1. EncodeKeyEvent(e) # << >> /\ EncodeKeyEvent(e)[3] = k
    OBVIOUS
  <2>2. PICK j \in 0..254 :
           /\ EncodeKeyEvent(e) = <<SyncByte, e.mods, j>>
           /\ j = IF IsModifier(e.code) \/ e.type = "up" THEN 0 ELSE hidUsage[e.code]
           /\ ~IsModifier(e.code) => e.code \in DOMAIN hidUsage
    BY <2>1, FrameShape
  <2>3. j = k
    BY <2>1, <2>2
  <2> QED BY <2>2, <2>3
<1>2. CASE e.type = "down" /\ ~IsModifier(e.code)
    BY <1>1, <1>2, UsagesTellKeysApart
<1>3. CASE ~(e.type = "down" /\ ~IsModifier(e.code))
  <2>1. k = 0
    BY <1>1, <1>3 DEF KeyEvent
  <2> QED BY <1>3, <2>1, UsagesTellKeysApart
<1> QED BY <1>2, <1>3

-----------------------------------------------------------------------------
(* The serial line.                                                        *)

\* A byte of frame n, or of none.
Wire(n) == [v : Byte, of : {0, n}]

\* Whatever the line makes of a frame is four bytes at most, of it or of none.
LEMMA FaultyShape ==
    ASSUME NEW n \in Nat, NEW b \in Seq(Wire(n)), Len(b) = 3, NEW l \in Faulty(b)
    PROVE  l \in Seq(Wire(n)) /\ Len(l) <= 4
<1> USE DEF Byte
<1>1. DOMAIN b = 1..3 /\ \A i \in 1..3 : b[i] \in Wire(n)
    BY LenProperties, ElementOfSeq
<1>2. \A v \in Noise : v \in Byte /\ [v |-> v, of |-> 0] \in Wire(n)
    BY DEF Noise, SyncByte, Wire
<1>3. \A i \in 1..4, j \in 0..3 : SubSeq(b, i, j) \in Seq(Wire(n)) /\ Len(SubSeq(b, i, j)) = IF i <= j THEN j - i + 1 ELSE 0
    BY <1>1, SubSeqProperties
<1>4. ASSUME NEW i \in 1..3, l = RemoveAt(b, i) PROVE l \in Seq(Wire(n)) /\ Len(l) <= 4
    BY <1>3, <1>4, ConcatProperties DEF RemoveAt
<1>5. ASSUME NEW i \in 1..3, NEW v \in Noise, l = [b EXCEPT ![i].v = v]
      PROVE  l \in Seq(Wire(n)) /\ Len(l) <= 4
  <2>1. [b[i] EXCEPT !.v = v] \in Wire(n)
    <3>1. b[i] \in [v : Byte, of : {0, n}] /\ v \in Byte
        BY <1>1, <1>2 DEF Wire
    <3> HIDE DEF Byte
    <3>2. [b[i] EXCEPT !.v = v] \in [v : Byte, of : {0, n}]
        BY <3>1
    <3> QED BY <3>2 DEF Wire
  <2>2. l = [b EXCEPT ![i] = [b[i] EXCEPT !.v = v]]
    BY <1>5
  <2> QED BY <2>1, <2>2, ExceptSeq
<1>6. ASSUME NEW i \in 1..3, NEW v \in Noise, l = InsertAt(b, i, [v |-> v, of |-> 0])
      PROVE  l \in Seq(Wire(n)) /\ Len(l) <= 4
  <2>1. <<[v |-> v, of |-> 0]>> \in Seq(Wire(n)) /\ Len(<<[v |-> v, of |-> 0]>>) = 1
    BY <1>2
  <2>2. SubSeq(b, 1, i - 1) \in Seq(Wire(n)) /\ Len(SubSeq(b, 1, i - 1)) = i - 1
    BY <1>3
  <2>3. SubSeq(b, i, 3) \in Seq(Wire(n)) /\ Len(SubSeq(b, i, 3)) = 4 - i
    BY <1>3
  <2> HIDE DEF Byte
  <2> DEFINE h == SubSeq(b, 1, i - 1) \o <<[v |-> v, of |-> 0]>>
  <2>4. h \in Seq(Wire(n)) /\ Len(h) = i
    BY <2>1, <2>2, ConcatProperties
  <2>5. l = h \o SubSeq(b, i, 3)
    BY <1>6 DEF InsertAt
  <2> HIDE DEF h
  <2> QED BY <2>3, <2>4, <2>5, ConcatProperties
<1>7. ASSUME NEW i \in 0..2, l = SubSeq(b, 1, i) PROVE l \in Seq(Wire(n)) /\ Len(l) <= 4
    BY <1>3, <1>7
<1> DEFINE shorter == {RemoveAt(b, i) : i \in 1..3}
           changed == {[b EXCEPT ![i].v = v] : i \in 1..3, v \in Noise}
           longer == {InsertAt(b, i, [v |-> v, of |-> 0]) : i \in 1..3, v \in Noise}
           cut == {SubSeq(b, 1, i) : i \in 0..2}
<1>8. Faulty(b) = shorter \cup changed \cup longer \cup cut
    BY DEF Faulty
<1>9. l \in shorter => \E i \in 1..3 : l = RemoveAt(b, i)
    OBVIOUS
<1>10. l \in changed => \E i \in 1..3, v \in Noise : l = [b EXCEPT ![i].v = v]
    OBVIOUS
<1>11. l \in longer => \E i \in 1..3, v \in Noise : l = InsertAt(b, i, [v |-> v, of |-> 0])
    OBVIOUS
<1>12. l \in cut => \E i \in 0..2 : l = SubSeq(b, 1, i)
    OBVIOUS
<1> HIDE DEF shorter, changed, longer, cut
<1>13. l \in shorter \/ l \in changed \/ l \in longer \/ l \in cut
    BY <1>8
<1> QED BY <1>4, <1>5, <1>6, <1>7, <1>9, <1>10, <1>11, <1>12, <1>13

-----------------------------------------------------------------------------
(* The invariant.                                                          *)

\* How many bytes the parser needs for the next command, at least.
Need == IF rx.state = "sync" THEN 3 ELSE IF rx.state = "mod" THEN 2 ELSE 1

\* The line holds bytes of the last frame or of none, at most one more than a
\* frame has; the parser's byte is one of them or older.
Parsing ==
    /\ Len(events) <= typed
    /\ Len(line) <= 4
    /\ \A i \in DOMAIN line : line[i].of \in {0, Len(events)}
    /\ rx.of <= Len(events)
    /\ rx.state = "kc" /\ rx.of = Len(events) /\ rx.of # 0 => Len(line) <= 3

\* The frames whose commands wait, and those that are on their way or reported.
Waiting == {queue[i].of : i \in DOMAIN queue}
Carried == ToSet(reported) \cup {cmd.of} \cup Waiting

Before(S, T) == \A k \in S \ {0}, l \in T \ {0} : k < l

\* From the line to the endpoint frames are in the order typed.  When a command
\* of the last frame was parsed, the rest of the line cannot hold another.
Sequenced ==
    /\ \A k \in Carried : k <= Len(events)
    /\ Len(events) # 0 /\ Len(events) \in Carried => Len(line) < Need
    /\ Before(ToSet(reported), {cmd.of} \cup Waiting)
    /\ Before({cmd.of}, Waiting)
    /\ \A i, j \in DOMAIN queue : i < j => Before({queue[i].of}, {queue[j].of})
    /\ ReportsInOrder

\* A command with a frame's number is the frame's.
Copied(c) ==
    c.of # 0 => /\ c.of \in DOMAIN events
                /\ EncodeKeyEvent(events[c.of]) = <<SyncByte, c.mod, c.kc>>

Faithful ==
    /\ Copied(cmd) /\ Copied(report) /\ Copied(target)
    /\ \A i \in DOMAIN queue : Copied(queue[i])

\* An event's modifiers are those after it.
Stamped(e) == IsModifier(e.code) => (HasBit(e.mods, ModifierBit(e.code)) <=> e.type = "down")

\* What waits came over the line since the last mount, and a command in hand
\* cannot meet another.
Mounted ==
    /\ \A i \in DOMAIN queue : queue[i].mount = mounts
    /\ pc = "wait" => cmd.mount = mounts /\ (host = "up" => bus = "up")
    /\ pc # "wait" => cmd = NoCmd
    /\ ~(bus = "gone" /\ host = "suspended")
    /\ mounts + (IF bus = "gone" /\ host # "gone" THEN 1 ELSE 0) <= changes + 1
    /\ NothingFromBeforeMount

\* From the check before __wfe on, new work raises an event.
Awake == pc \in {"wfe", "asleep"} /\ ~event => queue = << >> /\ bus = host

PicoInv ==
    /\ PicoTypeOK /\ Parsing /\ Sequenced /\ Faithful
    /\ \A i \in DOMAIN events : Stamped(events[i])
    /\ Mounted /\ Awake

-----------------------------------------------------------------------------
LEMMA PicoInitInv == PicoInit => PicoInv
<1> SUFFICES ASSUME PicoInit PROVE PicoInv
    OBVIOUS
<1> USE PicoConstants, EmptySeq DEF PicoInit, Byte
<1>1. NoCmd \in Cmd /\ target \in Cmd /\ target.of = 0
    BY DEF NoCmd, Cmd
<1>2. PicoTypeOK
  <2>1. mask \in 0..255 /\ cmd \in Cmd /\ report \in Cmd
    BY <1>1
  <2>2. rx \in [state : {"sync", "mod", "kc"}, mod : 0..255, of : 0..MaxEvents]
    OBVIOUS
  <2>3. events \in Seq([code : Nat, type : {"up", "down"}, mods : 0..255]) /\ reported \in Seq(0..MaxEvents)
    OBVIOUS
  <2>4. line \in Seq([v : 0..255, of : 0..MaxEvents]) /\ queue \in Seq(Cmd) /\ Len(queue) <= Depth
    OBVIOUS
  <2>5. typed \in 0..MaxEvents /\ faults \in 0..MaxFaults /\ mounts \in 0..MaxHost + 1 /\ changes \in 0..MaxHost
    OBVIOUS
  <2>6. {host, bus} \subseteq {"up", "suspended", "gone"} /\ pc \in CorePC /\ lost \subseteq 1..MaxEvents
    BY DEF CorePC
  <2> QED BY <1>1, <2>1, <2>2, <2>3, <2>4, <2>5, <2>6 DEF PicoTypeOK
<1>3. Parsing /\ Mounted /\ Awake
    BY DEF Parsing, Mounted, Awake, NothingFromBeforeMount, NoCmd
<1>4. Carried = {0}
    BY DEF Carried, Waiting, ToSet, NoCmd
<1>5. Sequenced
    BY <1>4 DEF Sequenced, Before, Waiting, Carried, ReportsInOrder, ToSet, NoCmd
<1>6. Faithful
    BY <1>1 DEF Faithful, Copied, NoCmd
<1> QED BY <1>2, <1>3, <1>5, <1>6 DEF PicoInv

\* What a key_event message does to the line and to what was typed.
LEMMA KeyMessageDoes ==
    ASSUME PicoTypeOK, Parsing, NEW code, NEW type, KeyMessage(code, type)
    PROVE  /\ line = << >> /\ typed' = typed + 1 /\ typed' \in 0..MaxEvents /\ mask' \in Byte
           /\ UNCHANGED <<rx, queue, usb, bus, mounts, pc, cmd, event, report, target,
                          lost, reported>>
           /\ \/ UNCHANGED <<events, line, faults>>
              \/ \E e \in KeyEvent :
                    /\ events' = Append(events, e)
                    /\ EncodeKeyEvent(e) # << >> /\ Stamped(e)
                    /\ line' \in Seq(Wire(Len(events) + 1)) /\ Len(line') <= 4
                    /\ \/ line' = Sent(EncodeKeyEvent(e)) /\ faults' = faults
                       \/ faults' = faults + 1 /\ faults' \in 0..MaxFaults
<1> USE PicoConstants
<1>1. /\ line = << >> /\ typed' = typed + 1 /\ typed' \in 0..MaxEvents
      /\ UNCHANGED <<rx, queue, usb, bus, mounts, pc, cmd, event, report, target, lost, reported>>
    BY DEF KeyMessage, PicoTypeOK, usb
<1>2. CASE code \notin DOMAIN w3cCodeToKVM \/ type \notin DOMAIN KeyTypes
  <2>1. UNCHANGED <<mask, events, line, faults>>
    BY <1>2 DEF KeyMessage
  <2> QED BY <1>1, <2>1 DEF PicoTypeOK
<1>3. CASE code \in DOMAIN w3cCodeToKVM /\ type \in DOMAIN KeyTypes
  <2> DEFINE c == w3cCodeToKVM[code]
             t == KeyTypes[type]
             m == Edged(c, t)
             e == [code |-> c, type |-> t, mods |-> m]
             f == EncodeKeyEvent(e)
  <2>1. /\ mask' = m
        /\ IF f = << >>
             THEN UNCHANGED <<events, line, faults>>
             ELSE /\ events' = Append(events, e)
                  /\ \/ line' = Sent(f) /\ faults' = faults
                     \/ /\ faults < MaxFaults /\ faults' = faults + 1
                        /\ line' \in Faulty(Sent(f))
    BY <1>3 DEF KeyMessage
  <2>2. c \in Nat /\ t \in {"up", "down"}
    BY <1>3, CodeOfName DEF w3cCodeToKVM, KeyTypes
  <2> HIDE DEF c, t
  <2>3. m \in Byte /\ (IsModifier(c) => (HasBit(m, ModifierBit(c)) <=> t = "down"))
    BY <2>2, BitOfModifier, BitsOfBytes DEF Edged, PicoTypeOK
  <2> HIDE DEF m
  <2>4. e \in KeyEvent /\ Stamped(e)
    BY <2>2, <2>3 DEF KeyEvent, Stamped
  <2> HIDE DEF e
  <2>5. CASE f = << >>
    BY <1>1, <2>1, <2>3, <2>5
  <2>6. CASE f # << >>
    <3>1. PICK k \in 0..254 : f = <<SyncByte, e.mods, k>>
        BY <2>4, <2>6, FrameShape
    <3>2. f[1] \in Byte /\ f[2] \in Byte /\ f[3] \in Byte
        BY <2>4, <3>1 DEF KeyEvent, SyncByte, Byte
    <3> HIDE DEF f
    <3>3. Len(events) + 1 \in Nat
        BY LenProperties DEF PicoTypeOK
    <3>4. \A i \in 1..3 : [v |-> f[i], of |-> Len(events) + 1] \in Wire(Len(events) + 1)
        BY <3>2, <3>3 DEF Wire
    <3>5. Sent(f) \in Seq(Wire(Len(events) + 1)) /\ Len(Sent(f)) = 3
        BY <3>4 DEF Sent
    <3>6. \/ line' = Sent(f) /\ faults' = faults
          \/ /\ faults < MaxFaults /\ faults' = faults + 1
             /\ line' \in Faulty(Sent(f))
        BY <2>1, <2>6
    <3>7. line' \in Seq(Wire(Len(events) + 1)) /\ Len(line') <= 4
      <4>1. CASE line' = Sent(f)
        <5>1. Len(Sent(f)) <= 4
            BY <3>5
        <5> QED BY ONLY <3>5, <4>1, <5>1, Zenon
      <4>2. CASE line' \in Faulty(Sent(f))
        BY ONLY <3>3, <3>5, <4>2, FaultyShape
      <4> QED BY <3>6, <4>1, <4>2
    <3>8. \/ line' = Sent(f) /\ faults' = faults
          \/ faults' = faults + 1 /\ faults' \in 0..MaxFaults
      <4>1. faults \in Nat /\ MaxFaults \in Nat
        BY DEF PicoTypeOK
      <4> QED BY <3>6, <4>1
    <3>9. \E g \in KeyEvent :
             /\ events' = Append(events, g)
             /\ EncodeKeyEvent(g) # << >> /\ Stamped(g)
             /\ line' \in Seq(Wire(Len(events) + 1)) /\ Len(line') <= 4
             /\ \/ line' = Sent(EncodeKeyEvent(g)) /\ faults' = faults
                \/ faults' = faults + 1 /\ faults' \in 0..MaxFaults
        BY <2>1, <2>4, <2>6, <3>7, <3>8 DEF f
    <3> QED BY <1>1, <2>1, <2>3, <3>9
  <2> QED BY <2>5, <2>6
<1> QED BY <1>2, <1>3

\* What the sequences hold.
LEMMA PicoShape ==
    ASSUME PicoTypeOK
    PROVE  /\ Len(queue) \in Nat /\ DOMAIN queue = 1..Len(queue)
           /\ \A i \in DOMAIN queue : queue[i] \in Cmd /\ queue[i].of \in 0..MaxEvents
           /\ cmd \in Cmd /\ cmd.of \in 0..MaxEvents
           /\ Len(reported) \in Nat /\ DOMAIN reported = 1..Len(reported)
           /\ \A i \in DOMAIN reported : reported[i] \in 0..MaxEvents
           /\ Carried \subseteq 0..MaxEvents /\ Carried \subseteq Int
           /\ MaxEvents \in Nat
<1>1. /\ Len(queue) \in Nat /\ DOMAIN queue = 1..Len(queue)
      /\ \A i \in DOMAIN queue : queue[i] \in Cmd
    BY LenProperties, ElementOfSeq DEF PicoTypeOK
<1>2. \A i \in DOMAIN queue : queue[i].of \in 0..MaxEvents
    BY <1>1 DEF Cmd
<1>3. cmd \in Cmd /\ cmd.of \in 0..MaxEvents
    BY DEF PicoTypeOK, Cmd
<1>4. /\ Len(reported) \in Nat /\ DOMAIN reported = 1..Len(reported)
      /\ \A i \in DOMAIN reported : reported[i] \in 0..MaxEvents
    BY LenProperties, ElementOfSeq DEF PicoTypeOK
<1>5. Carried \subseteq 0..MaxEvents
    BY <1>2, <1>3, <1>4 DEF Carried, Waiting, ToSet
<1>6. MaxEvents \in Nat
    BY PicoConstants
<1> QED BY <1>1, <1>2, <1>3, <1>4, <1>5, <1>6

\* A key_event message.
LEMMA KeyMessageInv ==
    ASSUME PicoInv, NEW code, NEW type, KeyMessage(code, type)
    PROVE  PicoInv'
<1> USE PicoConstants DEF PicoInv
<1> DEFINE n == Len(events)
<1>1. /\ line = << >> /\ typed' = typed + 1 /\ typed' \in 0..MaxEvents /\ mask' \in Byte
      /\ UNCHANGED <<rx, queue, usb, bus, mounts, pc, cmd, event, report, target, lost, reported>>
    BY KeyMessageDoes
<1>2. n \in Nat /\ DOMAIN events = 1..n /\ events \in Seq(KeyEvent)
    BY LenProperties DEF PicoTypeOK, KeyEvent
<1>3. Mounted' /\ Awake'
    BY <1>1 DEF Mounted, Awake, NothingFromBeforeMount, usb
<1>4. CASE UNCHANGED <<events, line, faults>>
  <2>1. PicoTypeOK' /\ Parsing'
    BY <1>1, <1>2, <1>4 DEF PicoTypeOK, Parsing, usb
  <2>2. Sequenced' /\ Faithful'
    BY <1>1, <1>4 DEF Sequenced, Carried, Waiting, Need, ReportsInOrder, Faithful, Copied
  <2>3. \A i \in DOMAIN events' : Stamped(events'[i])
    BY <1>4
  <2> QED BY <1>3, <2>1, <2>2, <2>3 DEF Stamped
<1>5. ASSUME NEW e \in KeyEvent,
             events' = Append(events, e), EncodeKeyEvent(e) # << >>, Stamped(e),
             line' \in Seq(Wire(n + 1)), Len(line') <= 4,
             faults' = faults \/ (faults' = faults + 1 /\ faults' \in 0..MaxFaults)
      PROVE  PicoInv'
  <2>1. /\ events' \in Seq(KeyEvent) /\ Len(events') = n + 1 /\ DOMAIN events' = 1..n + 1
        /\ \A i \in 1..n : events'[i] = events[i]
        /\ events'[n + 1] = e
    BY <1>2, <1>5, AppendProperties, LenProperties
  <2>2. n + 1 \in 0..MaxEvents
    BY <1>1, <1>2 DEF Parsing, PicoTypeOK
  <2>3. Wire(n + 1) \subseteq [v : Byte, of : 0..MaxEvents]
    BY <2>2 DEF Wire
  <2>4. line' \in Seq([v : Byte, of : 0..MaxEvents])
    BY <1>5, <2>3, SeqMonotonic
  <2>5. PicoTypeOK'
    BY <1>1, <1>5, <2>1, <2>4 DEF PicoTypeOK, KeyEvent, usb
  <2>6. \A i \in DOMAIN line' : line'[i].of \in {0, n + 1}
    <3>1. \A i \in DOMAIN line' : line'[i] \in Wire(n + 1)
        BY <1>5, LenProperties, ElementOfSeq
    <3> QED BY <3>1 DEF Wire
  <2>7. Parsing'
    <3>1. typed \in Int /\ n <= typed /\ rx.of <= n /\ rx.of \in Int
        <4>1. rx.of \in 0..MaxEvents /\ typed \in 0..MaxEvents
            BY DEF PicoTypeOK
        <4> QED BY <4>1 DEF Parsing
    <3>2. n + 1 <= typed' /\ rx'.of <= n + 1 /\ rx'.of # n + 1
        BY <1>1, <1>2, <3>1
    <3> QED BY <1>5, <2>1, <2>6, <3>2 DEF Parsing
  <2>8. Carried' = Carried /\ Waiting' = Waiting
    BY <1>1 DEF Carried, Waiting
  <2>9. \A k \in Carried' : k <= n + 1 /\ k # n + 1
    <3>1. \A k \in Carried : k <= n /\ k \in Int
        BY PicoShape DEF Sequenced
    <3> QED BY <1>2, <2>8, <3>1
  <2>10. Sequenced'
    BY <1>1, <2>1, <2>8, <2>9 DEF Sequenced, ReportsInOrder
  <2>11. Faithful'
    BY <1>1, <1>2, <2>1 DEF Faithful, Copied
  <2>12. \A i \in DOMAIN events' : Stamped(events'[i])
    BY <1>2, <1>5, <2>1
  <2> QED BY <1>3, <2>5, <2>7, <2>10, <2>11, <2>12 DEF Stamped
<1> HIDE DEF PicoInv
<1>6. \/ UNCHANGED <<events, line, faults>>
      \/ \E e \in KeyEvent :
            /\ events' = Append(events, e)
            /\ EncodeKeyEvent(e) # << >> /\ Stamped(e)
            /\ line' \in Seq(Wire(n + 1)) /\ Len(line') <= 4
            /\ faults' = faults \/ (faults' = faults + 1 /\ faults' \in 0..MaxFaults)
    BY KeyMessageDoes DEF PicoInv
<1> QED BY <1>4, <1>5, <1>6

\* The first byte of the line and the rest of it.
LEMMA LineShape ==
    ASSUME PicoTypeOK, Parsing, line # << >>
    PROVE  /\ Tail(line) \in Seq([v : Byte, of : 0..MaxEvents])
           /\ Head(line) \in [v : Byte, of : 0..MaxEvents]
           /\ Len(line) \in 1..4 /\ Len(Tail(line)) = Len(line) - 1 /\ Len(Tail(line)) \in 0..3
           /\ \A i \in DOMAIN Tail(line) : Tail(line)[i].of \in {0, Len(events)}
           /\ Head(line).of \in {0, Len(events)} /\ Head(line).v \in Byte
           /\ Len(events) \in 0..MaxEvents /\ DOMAIN events = 1..Len(events)
           /\ rx.of \in 0..Len(events)
           /\ rx \in [state : {"sync", "mod", "kc"}, mod : Byte, of : 0..MaxEvents]
<1>1. line \in Seq([v : Byte, of : 0..MaxEvents]) /\ events \in Seq(KeyEvent)
    BY DEF PicoTypeOK, KeyEvent
<1>2. /\ DOMAIN line = 1..Len(line) /\ Len(line) \in Nat
      /\ DOMAIN events = 1..Len(events) /\ Len(events) \in Nat
    BY <1>1, LenProperties
<1>3. /\ Head(line) = line[1] /\ Len(line) # 0
      /\ Tail(line) \in Seq([v : Byte, of : 0..MaxEvents])
      /\ Head(line) \in [v : Byte, of : 0..MaxEvents]
      /\ Len(Tail(line)) = Len(line) - 1
      /\ \A i \in 1..Len(Tail(line)) : Tail(line)[i] = line[i + 1]
  <2> DEFINE B == [v : Byte, of : 0..MaxEvents]
  <2>1. line \in Seq(B) /\ line # << >>
    BY <1>1
  <2> HIDE DEF B
  <2>2. /\ Head(line) \in B /\ Tail(line) \in Seq(B)
        /\ Len(Tail(line)) = Len(line) - 1
        /\ \A i \in 1..Len(Tail(line)) : Tail(line)[i] = line[i + 1]
    BY <2>1, HeadTailProperties
  <2>3. Head(line) = line[1] /\ Len(line) # 0
    BY <2>1, EmptySeq
  <2> QED BY <2>2, <2>3 DEF B
<1>4. DOMAIN Tail(line) = 1..Len(Tail(line))
    BY <1>3, LenProperties
<1>5. Len(line) <= 4 /\ \A i \in DOMAIN line : line[i].of \in {0, Len(events)}
    BY DEF Parsing
<1>6. \A i \in DOMAIN Tail(line) : Tail(line)[i].of \in {0, Len(events)}
  <2>1. \A i \in DOMAIN Tail(line) : i + 1 \in DOMAIN line /\ Tail(line)[i] = line[i + 1]
    BY <1>2, <1>3, <1>4
  <2> QED BY <1>5, <2>1
<1>7. 1 \in DOMAIN line
    BY <1>2, <1>3
<1>8. Head(line).of \in {0, Len(events)}
    BY <1>3, <1>5, <1>7
<1>9. /\ rx \in [state : {"sync", "mod", "kc"}, mod : Byte, of : 0..MaxEvents]
      /\ typed \in 0..MaxEvents /\ MaxEvents \in Nat
    BY PicoConstants DEF PicoTypeOK
<1>10. Head(line).v \in Byte /\ rx.of \in 0..MaxEvents
    BY <1>3, <1>9
<1>11. Len(events) \in 0..MaxEvents /\ rx.of \in 0..Len(events)
    BY <1>2, <1>9, <1>10 DEF Parsing
<1>12. Len(line) \in 1..4 /\ Len(Tail(line)) \in 0..3
  <2> DEFINE l == Len(line)
             r == Len(Tail(line))
  <2>1. l \in Nat /\ l # 0 /\ l <= 4 /\ r = l - 1
    BY <1>2, <1>3, <1>5
  <2> HIDE DEF l, r
  <2>2. l \in 1..4 /\ r \in 0..3
    BY <2>1
  <2> QED BY <2>2 DEF l, r
<1> QED BY ONLY <1>2, <1>3, <1>6, <1>8, <1>9, <1>10, <1>11, <1>12, Zenon

\* A byte that the parser takes without completing a command, or with a full
\* queue.
LEMMA ByteOnlyInv ==
    ASSUME PicoInv, line # << >>, line' = Tail(line),
           rx' \in [state : {"sync", "mod", "kc"}, mod : Byte, of : 0..MaxEvents],
           \/ rx'.state = "mod" /\ rx'.of = rx.of
           \/ rx'.state = rx.state /\ rx'.state = "sync" /\ rx'.of = rx.of
           \/ rx.state = "mod" /\ rx'.state = "kc" /\ rx'.of = Head(line).of
           \/ rx.state = "kc" /\ rx'.state = "sync" /\ rx'.of = 0,
           lost' \subseteq 1..MaxEvents,
           UNCHANGED <<mask, events, typed, faults, queue, event, host, bus, mounts, changes,
                       pc, cmd, report, target, reported>>
    PROVE  PicoInv'
<1> USE PicoConstants DEF PicoInv
<1> DEFINE n == Len(events)
<1>1. /\ line' \in Seq([v : Byte, of : 0..MaxEvents]) /\ Len(line) \in 1..4 /\ Len(line') = Len(line) - 1 /\ Len(line') \in 0..3
      /\ \A i \in DOMAIN line' : line'[i].of \in {0, n}
      /\ Head(line).of \in {0, n} /\ n \in Nat /\ rx.of <= n
      /\ rx.state \in {"sync", "mod", "kc"}
  <2>1. /\ Tail(line) \in Seq([v : Byte, of : 0..MaxEvents]) /\ Len(line) \in 1..4
        /\ Len(Tail(line)) = Len(line) - 1 /\ Len(Tail(line)) \in 0..3
        /\ \A i \in DOMAIN Tail(line) : Tail(line)[i].of \in {0, n}
        /\ Head(line).of \in {0, n} /\ n \in 0..MaxEvents /\ rx.of \in 0..n
        /\ rx \in [state : {"sync", "mod", "kc"}, mod : Byte, of : 0..MaxEvents]
    BY LineShape
  <2>2. n \in Nat /\ rx.of <= n /\ rx.state \in {"sync", "mod", "kc"}
    BY <2>1
  <2> QED BY <2>1, <2>2, Zenon
<1>2. PicoTypeOK'
    BY <1>1 DEF PicoTypeOK
<1>3. Parsing'
  <2>1. Len(line') <= 4 /\ Len(line') <= 3
    <3> DEFINE r == Len(line')
    <3>1. r \in 0..3
        BY <1>1
    <3> HIDE DEF r
    <3>2. r <= 4 /\ r <= 3
        BY <3>1
    <3> QED BY <3>2 DEF r
  <2>2. rx'.of <= n
    BY <1>1
  <2> QED BY <1>1, <2>1, <2>2 DEF Parsing
<1>4. Carried' = Carried /\ Waiting' = Waiting
    BY DEF Carried, Waiting
<1>5. Len(line) < Need => Len(line') < Need'
    BY <1>1 DEF Need
<1>6. Sequenced'
    BY <1>4, <1>5 DEF Sequenced, ReportsInOrder
<1>7. Faithful' /\ Mounted' /\ Awake'
    BY DEF Faithful, Copied, Mounted, Awake, NothingFromBeforeMount
<1> QED BY <1>2, <1>3, <1>6, <1>7 DEF Stamped

\* The byte that completes a command, and the command is queued.
LEMMA CommandInv ==
    ASSUME PicoInv, line # << >>, line' = Tail(line), rx.state = "kc",
           rx' = [state |-> "sync", mod |-> 0, of |-> 0],
           Len(queue) < Depth, event' = TRUE,
           queue' = Append(queue, [mod |-> rx.mod, kc |-> Head(line).v, mount |-> mounts,
                                   of |-> Intact(rx.mod, Head(line).v, rx.of, Head(line).of)]),
           UNCHANGED <<mask, events, typed, faults, host, bus, mounts, changes,
                       pc, cmd, report, target, reported, lost>>
    PROVE  PicoInv'
<1> USE PicoConstants DEF PicoInv
<1> DEFINE n == Len(events)
           j == Intact(rx.mod, Head(line).v, rx.of, Head(line).of)
           new == [mod |-> rx.mod, kc |-> Head(line).v, mount |-> mounts, of |-> j]
<1>1. /\ line' \in Seq([v : Byte, of : 0..MaxEvents]) /\ Len(line) \in 1..4 /\ Len(line') = Len(line) - 1 /\ Len(line') \in 0..3
      /\ \A i \in DOMAIN line' : line'[i].of \in {0, n}
      /\ Head(line).of \in {0, n} /\ Head(line).v \in Byte
    BY LineShape
<1>2. n \in 0..MaxEvents /\ DOMAIN events = 1..n /\ rx.of \in 0..n /\ rx.mod \in Byte
    BY LineShape
<1>3. j # 0 => /\ j = n /\ rx.of = n
               /\ EncodeKeyEvent(events[n]) = <<SyncByte, rx.mod, Head(line).v>>
    BY <1>1, <1>2 DEF Intact
<1>4. j \in 0..MaxEvents /\ j \in {0, n} /\ n \in Nat
    BY <1>2, <1>3
<1> HIDE DEF j
<1>5. new \in Cmd /\ Copied(new) /\ new.of = j /\ new.mount = mounts
  <2>1. mounts \in 0..MaxHost + 1
    BY DEF PicoTypeOK
  <2>2. new \in Cmd
    BY <1>1, <1>2, <1>4, <2>1 DEF Cmd
  <2>3. Copied(new)
    <3>1. new.of = j /\ new.mod = rx.mod /\ new.kc = Head(line).v
        OBVIOUS
    <3>2. j # 0 => j \in DOMAIN events
        <4> DEFINE m == n
        <4>1. m \in Nat /\ j \in {0, m} /\ DOMAIN events = 1..m
            BY <1>2, <1>4
        <4> HIDE DEF m
        <4> QED BY <4>1
    <3> HIDE DEF new
    <3> QED BY <1>3, <3>1, <3>2 DEF Copied
  <2> QED BY <2>2, <2>3
<1>6. queue' = Append(queue, new)
    BY DEF j
<1> HIDE DEF new
<1>7. /\ queue' \in Seq(Cmd) /\ Len(queue') = Len(queue) + 1
      /\ DOMAIN queue' = 1..Len(queue) + 1 /\ DOMAIN queue = 1..Len(queue) /\ Len(queue) \in Nat
      /\ \A i \in 1..Len(queue) : queue'[i] = queue[i]
      /\ queue'[Len(queue) + 1] = new
  <2>1. queue \in Seq(Cmd) /\ new \in Cmd
    BY <1>5 DEF PicoTypeOK
  <2> QED BY ONLY <1>6, <2>1, AppendProperties, LenProperties
<1>8. PicoTypeOK'
  <2>1. queue' \in Seq(Cmd) /\ Len(queue') <= Depth
    BY <1>7
  <2>2. rx' \in [state : {"sync", "mod", "kc"}, mod : Byte, of : 0..MaxEvents]
    BY DEF Byte
  <2>3. UNCHANGED <<mask, events, typed, faults, host, bus, mounts, changes,
                    pc, cmd, report, target, reported, lost>>
    OBVIOUS
  <2> QED BY ONLY <1>1, <2>1, <2>2, <2>3, event' = TRUE, PicoTypeOK DEF PicoTypeOK
<1>9. Parsing'
  <2> DEFINE r == Len(line')
  <2>0. r \in 0..3
    BY <1>1
  <2> HIDE DEF r
  <2>1. r <= 4 /\ rx'.of <= n /\ rx'.state # "kc"
    BY <1>4, <2>0
  <2> QED BY <1>1, <2>1 DEF Parsing, r
<1>10. Waiting' = Waiting \cup {j} /\ Carried' = Carried \cup {j}
  <2>1. Waiting' = Waiting \cup {j}
    BY <1>5, <1>7 DEF Waiting
  <2> QED BY <2>1 DEF Carried
<1>11. /\ Carried \subseteq Int /\ \A k \in Carried : k <= n
       /\ j # 0 => n \notin Carried /\ Len(line) <= 3
  <2>1. Need = 1
    BY DEF Need
  <2>2. n # 0 /\ n \in Carried => Len(line) < 1
    BY <2>1 DEF Sequenced
  <2>3. n # 0 => n \notin Carried
    BY <1>1, <2>2
  <2>4. rx.of = n /\ n # 0 => Len(line) <= 3
    BY DEF Parsing
  <2>5. Carried \subseteq Int /\ \A k \in Carried : k <= n
    BY PicoShape DEF Sequenced
  <2> QED BY <1>3, <2>3, <2>4, <2>5
<1>12. ASSUME NEW k \in Carried, j # 0 PROVE k < j
  <2>1. k \in Int /\ k <= n /\ k # n
    BY <1>3, <1>11, <1>12
  <2> QED BY <1>3, <1>4, <1>12, <2>1
<1>13. \A i \in DOMAIN queue : queue[i].of \in Carried
    BY DEF Carried, Waiting
<1>14. Sequenced'
  <2>1. \A k \in Carried' : k <= n
    BY <1>2, <1>3, <1>10, <1>11
  <2>2. n # 0 /\ n \in Carried' => Len(line') < Need'
    <3>1. Need' = 3
        BY DEF Need
    <3>2. n # 0 /\ n \in Carried => Len(line) < 1
        BY DEF Sequenced, Need
    <3>3. n # 0 /\ j = n => Len(line) <= 3
        BY <1>11
    <3> QED BY <1>1, <1>10, <3>1, <3>2, <3>3
  <2>3. Before(ToSet(reported'), {cmd'.of} \cup Waiting') /\ Before({cmd'.of}, Waiting')
    BY <1>10, <1>12 DEF Sequenced, Before, Carried
  <2>4. ASSUME NEW i \in DOMAIN queue', NEW k \in DOMAIN queue', i < k
        PROVE  Before({queue'[i].of}, {queue'[k].of})
    <3>1. i \in DOMAIN queue /\ queue'[i] = queue[i]
        BY <1>7, <2>4
    <3>2. CASE k \in DOMAIN queue
        BY <1>7, <2>4, <3>1, <3>2 DEF Sequenced
    <3>3. CASE k \notin DOMAIN queue
        <4>1. k = Len(queue) + 1
            BY <1>7, <3>3
        <4> QED BY <1>5, <1>7, <1>12, <1>13, <3>1, <4>1 DEF Before
    <3> QED BY <3>2, <3>3
  <2> QED BY <2>1, <2>2, <2>3, <2>4 DEF Sequenced, ReportsInOrder
<1>15. Faithful'
    BY <1>5, <1>7 DEF Faithful, Copied
<1>16. Mounted' /\ Awake'
    BY <1>5, <1>7 DEF Mounted, Awake, NothingFromBeforeMount
<1> QED BY <1>8, <1>9, <1>14, <1>15, <1>16 DEF Stamped

LEMMA OnUartRxInv == ASSUME PicoInv, OnUartRx PROVE PicoInv'
<1> DEFINE b == Head(line)
<1>1. line # << >> /\ line' = Tail(line)
    BY DEF OnUartRx
<1>2. b \in [v : Byte, of : 0..MaxEvents] /\ rx \in [state : {"sync", "mod", "kc"}, mod : Byte, of : 0..MaxEvents]
      /\ lost \subseteq 1..MaxEvents
    BY <1>1, LineShape DEF PicoInv, PicoTypeOK
<1>3. CASE \/ b.v = SyncByte
           \/ b.v # SyncByte /\ rx.state \in {"sync", "mod"}
  <2>1. UNCHANGED <<mask, events, typed, faults, queue, event, host, bus, mounts, changes,
                    pc, cmd, report, target, reported, lost>>
    BY <1>3 DEF OnUartRx
  <2>2. \/ rx' = [rx EXCEPT !.state = "mod"]
        \/ rx' = rx /\ rx.state = "sync"
        \/ rx' = [state |-> "kc", mod |-> b.v, of |-> b.of] /\ rx.state = "mod"
    BY <1>3 DEF OnUartRx
  <2>3. /\ rx' \in [state : {"sync", "mod", "kc"}, mod : Byte, of : 0..MaxEvents]
        /\ \/ rx'.state = "mod" /\ rx'.of = rx.of
           \/ rx'.state = rx.state /\ rx'.state = "sync" /\ rx'.of = rx.of
           \/ rx.state = "mod" /\ rx'.state = "kc" /\ rx'.of = Head(line).of
    BY <1>2, <2>2
  <2> QED BY <1>1, <1>2, <2>1, <2>3, ByteOnlyInv
<1>4. CASE b.v # SyncByte /\ rx.state = "kc"
  <2>1. rx' = [state |-> "sync", mod |-> 0, of |-> 0]
    BY <1>4 DEF OnUartRx
  <2>2. UNCHANGED <<mask, events, typed, faults, host, bus, mounts, changes,
                    pc, cmd, report, target, reported>>
    BY DEF OnUartRx
  <2>3. CASE Len(queue) < Depth
    BY <1>1, <1>4, <2>1, <2>2, <2>3, CommandInv DEF OnUartRx
  <2>4. CASE ~(Len(queue) < Depth)
    <3>1. /\ lost' = lost \cup ({Intact(rx.mod, b.v, rx.of, b.of)} \ {0})
          /\ UNCHANGED <<queue, event>>
        BY <1>4, <2>4 DEF OnUartRx
    <3>2. Intact(rx.mod, b.v, rx.of, b.of) \in 0..MaxEvents
        BY <1>2, PicoConstants DEF Intact
    <3> DEFINE f == Intact(rx.mod, b.v, rx.of, b.of)
    <3>3. lost' \subseteq 1..MaxEvents
        <4>1. f \in 0..MaxEvents /\ lost' = lost \cup ({f} \ {0})
            BY <3>1, <3>2
        <4> HIDE DEF f
        <4> QED BY <1>2, <4>1, PicoConstants
    <3>4. rx' \in [state : {"sync", "mod", "kc"}, mod : Byte, of : 0..MaxEvents]
        BY <2>1, PicoConstants DEF Byte
    <3> QED BY <1>1, <1>4, <2>1, <2>2, <3>1, <3>3, <3>4, ByteOnlyInv
  <2> QED BY <2>3, <2>4
<1> QED BY <1>2, <1>3, <1>4

-----------------------------------------------------------------------------
(* Core 0 and the target.                                                  *)

\* A step that takes nothing from the line and adds nothing on the way.
LEMMA HeldInv ==
    ASSUME PicoInv, UNCHANGED <<events, typed, line, rx, reported>>,
           queue' \in {queue, << >>}, cmd'.of # 0 => cmd' = cmd,
           report'.of # 0 => report' = report,
           target'.of # 0 => target' \in {target, report}
    PROVE  Parsing' /\ Sequenced' /\ Faithful' /\ \A i \in DOMAIN events' : Stamped(events'[i])
<1> USE DEF PicoInv
<1>1. Parsing' /\ \A i \in DOMAIN events' : Stamped(events'[i])
    BY DEF Parsing
<1>2. Waiting' \subseteq Waiting
    BY DEF Waiting
<1>3. cmd'.of = cmd.of \/ cmd'.of = 0
    OBVIOUS
<1>4. Carried' \subseteq Carried \cup {0}
    BY <1>2, <1>3 DEF Carried
<1>5. Sequenced'
  <2>1. \A k \in Carried' : k <= Len(events')
    <3>1. 0 <= Len(events)
        BY LenProperties DEF PicoTypeOK
    <3> QED BY <1>4, <3>1 DEF Sequenced
  <2>2. Len(events') # 0 /\ Len(events') \in Carried' => Len(line') < Need'
    BY <1>4 DEF Sequenced, Need
  <2>3. Before(ToSet(reported'), {cmd'.of} \cup Waiting') /\ Before({cmd'.of}, Waiting')
    BY <1>2, <1>3 DEF Sequenced, Before
  <2>4. \A i, j \in DOMAIN queue' : i < j => Before({queue'[i].of}, {queue'[j].of})
    BY DEF Sequenced
  <2> QED BY <2>1, <2>2, <2>3, <2>4 DEF Sequenced, ReportsInOrder
<1>6. Faithful'
  <2>1. Copied(cmd)' /\ Copied(report)' /\ Copied(target)'
    BY DEF Faithful, Copied
  <2>2. \A i \in DOMAIN queue' : Copied(queue[i])'
    BY DEF Faithful, Copied
  <2> QED BY <2>1, <2>2 DEF Faithful, Copied
<1> QED BY <1>1, <1>5, <1>6

\* The queue, left alone or emptied.
LEMMA QueueFits ==
    ASSUME PicoTypeOK, queue' \in {queue, << >>}
    PROVE  queue' \in Seq(Cmd) /\ Len(queue') <= Depth
<1>1. << >> \in Seq(Cmd) /\ Len(<< >>) = 0
    BY EmptySeq
<1>2. CASE queue' = << >>
    BY <1>1, <1>2, PicoConstants
<1>3. CASE queue' = queue
    BY <1>3 DEF PicoTypeOK
<1> QED BY <1>2, <1>3

LEMMA DrainDoes ==
    ASSUME PicoTypeOK, DrainCmdQueue
    PROVE  queue' = << >> /\ lost' \subseteq 1..MaxEvents
<1>1. Waiting \subseteq 0..MaxEvents /\ MaxEvents \in Nat
    BY PicoShape DEF Waiting
<1>2. lost' = lost \cup (Waiting \ {0}) /\ queue' = << >>
    BY DEF DrainCmdQueue, Waiting
<1>3. lost \subseteq 1..MaxEvents
    BY DEF PicoTypeOK
<1> QED BY <1>1, <1>2, <1>3

\* What tud_task does.
LEMMA TudTaskDoes ==
    ASSUME PicoTypeOK, Mounted, TudTask, UNCHANGED usb
    PROVE  /\ bus' = host /\ reported' = reported
           /\ queue' \in {queue, << >>} /\ (queue' # << >> => mounts' = mounts)
           /\ report' \in Cmd /\ (report'.of # 0 => report' = report)
           /\ report' # NoCmd => report'.mount = mounts'
           /\ mounts' \in 0..MaxHost + 1 /\ mounts' <= changes + 1
           /\ pc = "wait" => mounts' = mounts
           /\ lost' \subseteq 1..MaxEvents
<1> USE PicoConstants
<1>1. /\ mounts \in 0..MaxHost + 1 /\ changes \in 0..MaxHost /\ report \in Cmd
      /\ lost \subseteq 1..MaxEvents /\ MaxHost \in Nat
    BY DEF PicoTypeOK
<1>2. DrainCmdQueue => queue' = << >> /\ lost' \subseteq 1..MaxEvents
    BY DrainDoes
<1>3. NoCmd \in Cmd /\ NoCmd.of = 0
    BY DEF NoCmd, Cmd, Byte
<1>4. CASE bus = "gone" /\ host # "gone"
  <2>1. /\ bus' = host /\ DrainCmdQueue /\ mounts' = mounts + 1
        /\ report' = [NoCmd EXCEPT !.mount = mounts'] /\ reported' = reported
    BY <1>4 DEF TudTask
  <2>2. mounts' <= changes + 1 /\ mounts' \in 0..MaxHost + 1
    BY <1>1, <1>4, <2>1 DEF Mounted
  <2>3. report' \in Cmd /\ report'.of = 0 /\ report'.mount = mounts'
    BY <2>1, <2>2 DEF NoCmd, Cmd, Byte
  <2>4. pc # "wait"
    <3>1. host = "up" => bus = "up" \/ pc # "wait"
        BY DEF Mounted
    <3>2. host # "suspended"
        BY <1>4 DEF Mounted
    <3> QED BY <1>4, <3>1, <3>2 DEF PicoTypeOK
  <2> QED BY <1>2, <2>1, <2>2, <2>3, <2>4
<1>5. CASE bus # "gone" /\ host = "gone"
  <2>1. /\ bus' = host /\ DrainCmdQueue /\ mounts' = mounts
        /\ report' = NoCmd /\ reported' = reported
    BY <1>5 DEF TudTask
  <2>2. mounts' <= changes + 1
    BY <1>1, <1>5, <2>1 DEF Mounted
  <2> QED BY <1>1, <1>2, <1>3, <2>1, <2>2
<1>6. CASE ~(bus = "gone" /\ host # "gone") /\ ~(bus # "gone" /\ host = "gone")
  <2>1. bus' = host /\ UNCHANGED <<queue, lost, mounts, report, reported>>
    BY <1>6 DEF TudTask
  <2>2. mounts' <= changes + 1
    BY <1>1, <1>6, <2>1 DEF Mounted
  <2> QED BY <1>1, <2>1, <2>2 DEF Mounted, NothingFromBeforeMount
<1> QED BY <1>4, <1>5, <1>6

LEMMA TudStepInv ==
    ASSUME PicoInv, TudTask, UNCHANGED <<serial, usb, rx, cmd, event, target>>,
           \/ pc = "task" /\ pc' = "take"
           \/ pc = "wait" /\ pc' = "wait"
    PROVE  PicoInv'
<1> USE DEF PicoInv, serial, usb
<1>1. /\ bus' = host /\ reported' = reported
      /\ queue' \in {queue, << >>} /\ (queue' # << >> => mounts' = mounts)
      /\ report' \in Cmd /\ (report'.of # 0 => report' = report)
      /\ report' # NoCmd => report'.mount = mounts'
      /\ mounts' \in 0..MaxHost + 1 /\ mounts' <= changes + 1
      /\ pc = "wait" => mounts' = mounts
      /\ lost' \subseteq 1..MaxEvents
    BY TudTaskDoes
<1>2. Parsing' /\ Sequenced' /\ Faithful' /\ \A i \in DOMAIN events' : Stamped(events'[i])
    BY <1>1, HeldInv
<1>3. PicoTypeOK'
  <2>1. queue' \in Seq(Cmd) /\ Len(queue') <= Depth
    BY <1>1, QueueFits
  <2>2. bus' \in {"up", "suspended", "gone"} /\ pc' \in CorePC
    BY <1>1 DEF PicoTypeOK, CorePC
  <2> QED BY <1>1, <2>1, <2>2 DEF PicoTypeOK
<1>4. Mounted'
  <2>1. \A i \in DOMAIN queue' : queue'[i].mount = mounts'
    BY <1>1 DEF Mounted
  <2>2. pc' = "wait" => cmd'.mount = mounts' /\ (host' = "up" => bus' = "up")
    BY <1>1 DEF Mounted
  <2>3. mounts' + 0 <= changes' + 1
    <3>1. mounts' \in Int
        BY <1>1
    <3> QED BY <1>1, <3>1
  <2>4. bus' = host' /\ (pc' # "wait" => cmd' = NoCmd)
    BY <1>1 DEF Mounted
  <2> QED BY <1>1, <2>1, <2>2, <2>3, <2>4 DEF Mounted, NothingFromBeforeMount
<1>5. Awake'
    BY DEF Awake
<1> QED BY <1>2, <1>3, <1>4, <1>5 DEF Stamped

\* The endpoint and the bus stay: the command is given up, the queue is
\* discarded or left alone, or core 0 goes on its way to sleep.
LEMMA DiscardInv ==
    ASSUME PicoInv, UNCHANGED <<serial, usb, rx, bus, mounts, report, target, reported>>,
           queue' \in {queue, << >>}, cmd' = NoCmd, pc' \in CorePC \ {"wait"},
           event' \in BOOLEAN, lost' \subseteq 1..MaxEvents,
           pc' \in {"wfe", "asleep"} /\ ~event' => queue' = << >> /\ bus = host
    PROVE  PicoInv'
<1> USE DEF PicoInv, serial, usb
<1>1. NoCmd \in Cmd /\ NoCmd.of = 0
    BY PicoConstants DEF NoCmd, Cmd, Byte
<1>2. Parsing' /\ Sequenced' /\ Faithful' /\ \A i \in DOMAIN events' : Stamped(events'[i])
    BY <1>1, HeldInv
<1>3. PicoTypeOK'
  <2>1. queue' \in Seq(Cmd) /\ Len(queue') <= Depth
    BY QueueFits
  <2> QED BY <1>1, <2>1 DEF PicoTypeOK
<1>4. Mounted'
    BY DEF Mounted, NothingFromBeforeMount
<1>5. Awake'
    BY DEF Awake
<1> QED BY <1>2, <1>3, <1>4, <1>5 DEF Stamped

\* The oldest command is taken.
LEMMA TakeInv ==
    ASSUME PicoInv, pc = "take", bus = "up", queue # << >>,
           cmd' = Head(queue), queue' = Tail(queue), pc' = "wait",
           UNCHANGED <<lost, serial, usb, rx, bus, mounts, event, report, target, reported>>
    PROVE  PicoInv'
<1> USE DEF PicoInv, serial, usb
<1>1. /\ cmd' \in Cmd /\ queue' \in Seq(Cmd) /\ Len(queue') = Len(queue) - 1
      /\ cmd' = queue[1] /\ Len(queue) \in Nat \ {0} /\ DOMAIN queue = 1..Len(queue)
      /\ DOMAIN queue' = 1..Len(queue')
      /\ \A i \in DOMAIN queue' : queue'[i] = queue[i + 1]
    BY HeadTailProperties, EmptySeq, LenProperties DEF PicoTypeOK
<1>2. /\ \A i \in DOMAIN queue' : i + 1 \in DOMAIN queue /\ 1 < i + 1 /\ queue'[i] = queue[i + 1]
      /\ 1 \in DOMAIN queue
    BY <1>1
<1>3. PicoTypeOK'
  <2>1. Len(queue') <= Depth
    BY <1>1, PicoConstants DEF PicoTypeOK
  <2>2. pc' \in CorePC
    BY DEF CorePC
  <2> QED BY <1>1, <2>1, <2>2 DEF PicoTypeOK
<1>4. Waiting' \subseteq Waiting /\ cmd'.of \in Waiting
    BY <1>1, <1>2 DEF Waiting
<1>5. Carried' \subseteq Carried
    BY <1>4 DEF Carried
<1>6. Sequenced'
  <2>1. \A k \in Carried' : k <= Len(events')
    BY <1>5 DEF Sequenced
  <2>2. Len(events') # 0 /\ Len(events') \in Carried' => Len(line') < Need'
    BY <1>5 DEF Sequenced, Need
  <2>3. Before(ToSet(reported'), {cmd'.of} \cup Waiting')
    BY <1>4 DEF Sequenced, Before
  <2>4. Before({cmd'.of}, Waiting')
    <3>1. ASSUME NEW l \in Waiting' \ {0}, cmd'.of # 0 PROVE cmd'.of < l
        <4>1. PICK i \in DOMAIN queue' : l = queue'[i].of
            BY DEF Waiting
        <4>2. Before({queue[1].of}, {queue[i + 1].of})
            BY <1>2 DEF Sequenced
        <4> QED BY <1>1, <1>2, <3>1, <4>1, <4>2 DEF Before
    <3> QED BY <3>1 DEF Before
  <2>5. ASSUME NEW i \in DOMAIN queue', NEW j \in DOMAIN queue', i < j
        PROVE  Before({queue'[i].of}, {queue'[j].of})
    <3>1. i + 1 < j + 1
        BY <1>1, <2>5
    <3> QED BY <1>2, <3>1 DEF Sequenced
  <2> QED BY <2>1, <2>2, <2>3, <2>4, <2>5 DEF Sequenced, ReportsInOrder
<1>7. Faithful'
  <2>1. Copied(cmd)' /\ Copied(report)' /\ Copied(target)'
    BY <1>1, <1>2 DEF Faithful, Copied
  <2>2. \A i \in DOMAIN queue' : Copied(queue[i])'
    BY <1>2 DEF Faithful, Copied
  <2> QED BY <2>1, <2>2 DEF Faithful, Copied
<1>8. Mounted'
    BY <1>1, <1>2 DEF Mounted, NothingFromBeforeMount
<1>9. Parsing' /\ Awake'
    BY DEF Parsing, Awake
<1> QED BY <1>3, <1>6, <1>7, <1>8, <1>9 DEF Stamped

\* The command is handed to the endpoint.
LEMMA ReportInv == ASSUME PicoInv, LoopReport PROVE PicoInv'
<1> USE DEF PicoInv, serial, usb
<1>1. /\ pc = "wait" /\ pc' = "idle" /\ cmd' = NoCmd
      /\ report' = cmd /\ reported' = Append(reported, cmd.of)
      /\ UNCHANGED <<serial, usb, rx, queue, bus, mounts, event, target, lost>>
    BY DEF LoopReport, Report
<1>2. NoCmd \in Cmd /\ NoCmd.of = 0
    BY PicoConstants DEF NoCmd, Cmd, Byte
<1>3. /\ reported' \in Seq(0..MaxEvents) /\ Len(reported') = Len(reported) + 1
      /\ DOMAIN reported = 1..Len(reported) /\ Len(reported) \in Nat
      /\ DOMAIN reported' = 1..Len(reported')
      /\ \A i \in DOMAIN reported : reported'[i] = reported[i]
      /\ reported'[Len(reported) + 1] = cmd.of
  <2>1. reported \in Seq(0..MaxEvents) /\ cmd.of \in 0..MaxEvents
    BY PicoShape DEF PicoTypeOK
  <2> QED BY <1>1, <2>1, AppendProperties, LenProperties
<1>4. PicoTypeOK'
    BY <1>1, <1>2, <1>3 DEF PicoTypeOK, CorePC
<1>5. \A i \in DOMAIN reported' : i \in DOMAIN reported \/ i = Len(reported) + 1
    BY <1>3
<1>6. Waiting' = Waiting /\ ToSet(reported') = ToSet(reported) \cup {cmd.of}
  <2>1. \A i \in DOMAIN reported : i \in DOMAIN reported'
    BY <1>3
  <2>2. Len(reported) + 1 \in DOMAIN reported'
    BY <1>3
  <2> QED BY <1>1, <1>3, <1>5, <2>1, <2>2 DEF ToSet, Waiting
<1>7. Carried' \subseteq Carried \cup {0}
    BY <1>1, <1>2, <1>6 DEF Carried
<1>8. Sequenced'
  <2>1. \A k \in Carried' : k <= Len(events')
    <3>1. 0 <= Len(events) /\ events' = events
        BY <1>1, LenProperties DEF PicoTypeOK
    <3> QED BY <1>7, <3>1 DEF Sequenced
  <2>2. Len(events') # 0 /\ Len(events') \in Carried' => Len(line') < Need'
    BY <1>1, <1>7 DEF Sequenced, Need
  <2>3. Before(ToSet(reported'), {cmd'.of} \cup Waiting') /\ Before({cmd'.of}, Waiting')
    BY <1>1, <1>2, <1>6 DEF Sequenced, Before
  <2>4. \A i, j \in DOMAIN queue' : i < j => Before({queue'[i].of}, {queue'[j].of})
    BY <1>1 DEF Sequenced
  <2>5. ASSUME NEW i \in DOMAIN reported', NEW j \in DOMAIN reported',
               i < j, reported'[i] # 0, reported'[j] # 0
        PROVE  reported'[i] < reported'[j]
    <3>1. i \in DOMAIN reported
        BY <1>3, <2>5
    <3>2. CASE j \in DOMAIN reported
        BY <1>3, <2>5, <3>1, <3>2 DEF Sequenced, ReportsInOrder
    <3>3. CASE j = Len(reported) + 1
        BY <1>3, <2>5, <3>1, <3>3 DEF Sequenced, Before, ToSet
    <3> QED BY <1>5, <3>2, <3>3
  <2> QED BY <2>1, <2>2, <2>3, <2>4, <2>5 DEF Sequenced, ReportsInOrder
<1>9. Faithful'
  <2>1. Copied(cmd)' /\ Copied(report)' /\ Copied(target)'
    BY <1>1, <1>2 DEF Faithful, Copied
  <2>2. \A i \in DOMAIN queue' : Copied(queue[i])'
    BY <1>1 DEF Faithful, Copied
  <2> QED BY <2>1, <2>2 DEF Faithful, Copied
<1>10. Mounted'
    BY <1>1 DEF Mounted, NothingFromBeforeMount
<1>11. Parsing' /\ Awake'
    BY <1>1 DEF Parsing, Awake
<1> QED BY <1>1, <1>4, <1>8, <1>9, <1>10, <1>11 DEF Stamped

LEMMA Core0Inv == ASSUME PicoInv, Core0 PROVE PicoInv'
<1>1. /\ lost \subseteq 1..MaxEvents /\ event \in BOOLEAN /\ (pc # "wait" => cmd = NoCmd)
      /\ DrainCmdQueue => queue' = << >> /\ lost' \subseteq 1..MaxEvents
    BY DrainDoes DEF PicoInv, Mounted, PicoTypeOK
<1>2. ASSUME LoopTask \/ LoopPoll PROVE PicoInv'
    BY <1>2, TudStepInv DEF LoopTask, LoopPoll
<1>3. ASSUME LoopTake PROVE PicoInv'
  <2>1. pc = "take" /\ UNCHANGED <<serial, usb, rx, bus, mounts, event, report, target, reported>>
    BY <1>3 DEF LoopTake
  <2>2. CASE bus # "up"
    <3>1. DrainCmdQueue /\ pc' = "idle" /\ cmd' = cmd
        BY <1>3, <2>2 DEF LoopTake
    <3>2. queue' = << >> /\ lost' \subseteq 1..MaxEvents /\ cmd' = NoCmd
        BY <1>1, <2>1, <3>1
    <3> QED BY <1>1, <2>1, <3>1, <3>2, DiscardInv DEF CorePC
  <2>3. CASE bus = "up" /\ queue = << >>
    <3>1. pc' = "task" /\ UNCHANGED <<queue, lost, cmd>>
        BY <1>3, <2>3 DEF LoopTake
    <3> QED BY <1>1, <2>1, <3>1, DiscardInv DEF CorePC
  <2>4. CASE bus = "up" /\ queue # << >>
    BY <1>3, <2>1, <2>4, TakeInv DEF LoopTake
  <2> QED BY <2>2, <2>3, <2>4
<1>4. ASSUME LoopReport PROVE PicoInv'
    BY <1>4, ReportInv
<1>5. ASSUME LoopTimeout PROVE PicoInv'
  <2>1. lost' = lost \cup ({cmd.of} \ {0}) /\ cmd.of \in 0..MaxEvents /\ MaxEvents \in Nat
    BY <1>5, PicoShape DEF LoopTimeout, PicoInv
  <2> DEFINE f == cmd.of
  <2>2. f \in 0..MaxEvents /\ lost' = lost \cup ({f} \ {0})
    BY <2>1
  <2> HIDE DEF f
  <2>3. lost' \subseteq 1..MaxEvents
    BY <1>1, <2>2, PicoConstants
  <2>4. /\ cmd' = NoCmd /\ pc' = "idle"
        /\ UNCHANGED <<serial, usb, rx, queue, bus, mounts, event, report, target, reported>>
    BY <1>5 DEF LoopTimeout
  <2> QED BY <1>1, <2>3, <2>4, DiscardInv DEF CorePC
<1>6. ASSUME LoopIdle PROVE PicoInv'
  <2>1. /\ pc = "idle" /\ pc' \in {"wfe", "task"} /\ (pc' = "wfe" => queue = << >> /\ bus = host)
        /\ UNCHANGED <<serial, usb, rx, queue, bus, mounts, cmd, event, report, target,
                       lost, reported>>
    BY <1>6 DEF LoopIdle
  <2> QED BY <1>1, <2>1, DiscardInv DEF CorePC
<1>7. ASSUME LoopWfe PROVE PicoInv'
  <2>1. pc = "wfe" /\ ~event => queue = << >> /\ bus = host
    BY DEF PicoInv, Awake
  <2>2. /\ pc \in {"wfe", "asleep"} /\ event' = FALSE
        /\ pc' = "task" \/ (pc' = "asleep" /\ pc = "wfe" /\ ~event)
        /\ UNCHANGED <<serial, usb, rx, queue, bus, mounts, cmd, report, target, lost, reported>>
    BY <1>7 DEF LoopWfe
  <2> QED BY <1>1, <2>1, <2>2, DiscardInv DEF CorePC
<1> QED BY <1>2, <1>3, <1>4, <1>5, <1>6, <1>7 DEF Core0

\* The bus changes, the target polls, or the timer ticks.
LEMMA HostInv ==
    ASSUME PicoInv,
           \/ \E h \in {"up", "suspended", "gone"} : HostChanges(h)
           \/ HostPolls
           \/ LivenessTick
    PROVE  PicoInv'
<1> USE DEF PicoInv, serial, usb
<1>1. NoCmd \in Cmd /\ NoCmd.of = 0
    BY PicoConstants DEF NoCmd, Cmd, Byte
<1>2. ASSUME NEW h \in {"up", "suspended", "gone"}, HostChanges(h) PROVE PicoInv'
  <2>1. /\ target' \in {NoCmd, target} /\ changes' = changes + 1 /\ changes < MaxHost
        /\ host' = h /\ host = bus /\ event' = TRUE
        /\ UNCHANGED <<serial, rx, queue, bus, mounts, pc, cmd, report, lost, reported>>
    BY <1>2 DEF HostChanges
  <2>2. Parsing' /\ Sequenced' /\ Faithful' /\ \A i \in DOMAIN events' : Stamped(events'[i])
    BY <1>1, <2>1, HeldInv
  <2>3. PicoTypeOK'
    BY <1>1, <2>1, PicoConstants DEF PicoTypeOK
  <2>4. Mounted'
    <3>1. host' = "up" => pc # "wait"
        BY <1>2 DEF HostChanges
    <3>2. ~(bus = "gone" /\ host' = "suspended")
        BY <1>2 DEF HostChanges
    <3>3. mounts + (IF bus = "gone" /\ h # "gone" THEN 1 ELSE 0) <= changes' + 1
        <4>1. mounts \in Int /\ changes \in Int /\ mounts <= changes + 1
            BY <2>1 DEF Mounted, PicoTypeOK
        <4> QED BY <2>1, <4>1
    <3> QED BY <2>1, <3>1, <3>2, <3>3 DEF Mounted, NothingFromBeforeMount
  <2>5. Awake'
    BY <2>1 DEF Awake
  <2> QED BY <2>1, <2>2, <2>3, <2>4, <2>5 DEF Stamped
<1>3. ASSUME HostPolls \/ LivenessTick PROVE PicoInv'
  <2>1. /\ target' \in {target, report} /\ report' \in {NoCmd, report} /\ event' = TRUE
        /\ UNCHANGED <<serial, usb, rx, queue, bus, mounts, pc, cmd, lost, reported>>
    BY <1>3 DEF HostPolls, LivenessTick
  <2>2. Parsing' /\ Sequenced' /\ Faithful' /\ \A i \in DOMAIN events' : Stamped(events'[i])
    BY <1>1, <2>1, HeldInv
  <2>3. PicoTypeOK'
    BY <1>1, <2>1 DEF PicoTypeOK
  <2>4. Mounted' /\ Awake'
    BY <2>1 DEF Mounted, NothingFromBeforeMount, Awake
  <2> QED BY <2>1, <2>2, <2>3, <2>4 DEF Stamped
<1> QED BY <1>2, <1>3

LEMMA PicoStepInv == ASSUME PicoInv, [PicoNext]_picoVars PROVE PicoInv'
<1>1. ASSUME NEW code, NEW type, KeyMessage(code, type) PROVE PicoInv'
    BY <1>1, KeyMessageInv
<1>2. CASE UNCHANGED picoVars
  <2> USE <1>2 DEF picoVars, PicoInv
  <2>1. PicoTypeOK' /\ Parsing' /\ Mounted' /\ Awake'
    BY DEF PicoTypeOK, Parsing, Mounted, Awake, NothingFromBeforeMount
  <2>2. Sequenced'
    BY DEF Sequenced, ReportsInOrder, Carried, Waiting, Need
  <2>3. Faithful' /\ \A i \in DOMAIN events' : Stamped(events'[i])
    BY DEF Faithful, Copied
  <2> QED BY <2>1, <2>2, <2>3 DEF Stamped
<1> QED BY <1>1, <1>2, OnUartRxInv, Core0Inv, HostInv DEF PicoNext

-----------------------------------------------------------------------------
(* The theorems.                                                           *)

\* The invariant holds in every reachable state.
THEOREM PicoInvariance == PicoSpec => []PicoInv
<1>1. PicoInv /\ [PicoNext]_picoVars => PicoInv'
    BY PicoStepInv
<1> QED BY PicoInitInv, <1>1, PTL DEF PicoSpec

\* The variables keep their types; cmd_queue never holds more than Depth.
THEOREM PicoTypes == PicoSpec => []PicoTypeOK
<1>1. PicoInv => PicoTypeOK
    BY DEF PicoInv
<1> QED BY PicoInvariance, <1>1, PTL

\* Commands reach the endpoint in the order typed and once each, through the
\* line, the parser, cmd_queue and usb_loop_once, whatever is lost between them.
THEOREM ReportsAreInOrder == PicoSpec => []ReportsInOrder
<1>1. PicoInv => ReportsInOrder
    BY DEF PicoInv, Sequenced
<1> QED BY PicoInvariance, <1>1, PTL

\* Nothing received before a target was plugged in is typed into it: the drains
\* of tud_mount_cb and tud_umount_cb are enough.
THEOREM MountsStartClean == PicoSpec => []NothingFromBeforeMount
<1>1. PicoInv => NothingFromBeforeMount
    BY DEF PicoInv, Mounted
<1> QED BY PicoInvariance, <1>1, PTL

\* Core 0 never sleeps on a queued command or a pending USB event: the check
\* before __wfe and the event register close the race with core 1.
THEOREM SleepIsSafe == PicoSpec => []NoLostWakeup
<1>1. PicoInv => NoLostWakeup
    BY DEF PicoInv, Awake, NoLostWakeup
<1> QED BY PicoInvariance, <1>1, PTL

\* The report the target saw last names the key of its event and no other, and
\* shows a modifier as that event left it.
THEOREM TargetSeesTheKey == PicoSpec => []KeyIdentified
<1>1. ASSUME PicoInv, target.of # 0
      PROVE  LET e == events[target.of]
                 shown == {c \in DOMAIN hidUsage : hidUsage[c] = target.kc} IN
             /\ shown = IF e.type = "down" /\ ~IsModifier(e.code) THEN {e.code} ELSE {}
             /\ IsModifier(e.code) =>
                   (HasBit(target.mod, 2 ^ (hidUsage[e.code] - 224)) <=> e.type = "down")
  <2> DEFINE e == events[target.of]
  <2>1. target.of \in DOMAIN events /\ EncodeKeyEvent(e) = <<SyncByte, target.mod, target.kc>>
    BY <1>1 DEF PicoInv, Faithful, Copied
  <2>2. e \in KeyEvent /\ Stamped(e)
    <3>1. events \in Seq(KeyEvent)
        BY <1>1 DEF PicoInv, PicoTypeOK, KeyEvent
    <3> QED BY <1>1, <2>1, <3>1, LenProperties, ElementOfSeq DEF PicoInv
  <2> HIDE DEF e
  <2>3. target.mod = e.mods
    <3>1. EncodeKeyEvent(e) # << >> /\ EncodeKeyEvent(e)[2] = target.mod
        BY <2>1
    <3>2. PICK k \in 0..254 : EncodeKeyEvent(e) = <<SyncByte, e.mods, k>>
        BY <2>2, <3>1, FrameShape
    <3> QED BY <3>1, <3>2
  <2>4. {c \in DOMAIN hidUsage : hidUsage[c] = target.kc}
           = IF e.type = "down" /\ ~IsModifier(e.code) THEN {e.code} ELSE {}
    BY <2>1, <2>2, <2>3, FrameTellsKey
  <2>5. IsModifier(e.code) =>
           (HasBit(target.mod, 2 ^ (hidUsage[e.code] - 224)) <=> e.type = "down")
    BY <2>2, <2>3, BitOfModifier DEF Stamped
  <2> QED BY <2>4, <2>5 DEF e
<1>2. PicoInv => KeyIdentified
    BY <1>1 DEF KeyIdentified
<1> QED BY PicoInvariance, <1>2, PTL

-----------------------------------------------------------------------------
(* A fault costs one command.                                              *)

\* The frames that never reach the target for want of an intact parse, and the
\* ones with all eight modifiers held.
Missing == DOMAIN events \ Accounted
AllHeld == {i \in DOMAIN events : events[i].mods = SyncByte}

Within(S) == Cardinality(S) <= faults + Cardinality(AllHeld)

\* The last frame, with modifier byte m and key byte k, is arriving untouched:
\* the parser is where the rest of the line continues.
Arriving(m, k) ==
    LET n == Len(events) IN
    /\ n # 0 /\ EncodeKeyEvent(events[n]) = <<SyncByte, m, k>>
    /\ \/ line = <<[v |-> SyncByte, of |-> n], [v |-> m, of |-> n], [v |-> k, of |-> n]>>
       \/ rx.state = "mod" /\ line = <<[v |-> m, of |-> n], [v |-> k, of |-> n]>>
       \/ rx.state = "kc" /\ rx.mod = m /\ rx.of = n /\ line = <<[v |-> k, of |-> n]>>

OnTrack == \E m, k \in 0..254 : Arriving(m, k)

\* A frame that is still arriving is not missing yet.
Resync == Within(Missing) \/ (OnTrack /\ Within(Missing \ {Len(events)}))

\* The sets that are counted are finite.
LEMMA CountedFinite ==
    ASSUME PicoTypeOK
    PROVE  /\ IsFiniteSet(DOMAIN events) /\ DOMAIN events = 1..Len(events) /\ Len(events) \in Nat
           /\ \A S \in SUBSET DOMAIN events : IsFiniteSet(S) /\ Cardinality(S) \in Nat
           /\ Missing \subseteq DOMAIN events /\ AllHeld \subseteq DOMAIN events
           /\ faults \in Nat
<1>1. DOMAIN events = 1..Len(events) /\ Len(events) \in Nat
    BY LenProperties DEF PicoTypeOK
<1>2. IsFiniteSet(DOMAIN events)
    BY <1>1, FS_Interval
<1>3. \A S \in SUBSET DOMAIN events : IsFiniteSet(S) /\ Cardinality(S) \in Nat
    BY <1>2, FS_Subset, FS_CardinalityType
<1>4. faults \in Nat
    BY DEF PicoTypeOK
<1> QED BY <1>1, <1>2, <1>3, <1>4 DEF Missing, AllHeld

\* With the same frames and the same faults, fewer missing frames are within.
LEMMA WithinFewer ==
    ASSUME PicoTypeOK, UNCHANGED <<events, faults>>,
           NEW S \in SUBSET DOMAIN events, NEW T \in SUBSET S, Within(S)
    PROVE  Within(T)'
<1>1. Cardinality(T) <= Cardinality(S) /\ Cardinality(T) \in Nat /\ Cardinality(S) \in Nat
    BY CountedFinite, FS_Subset
<1>2. Cardinality(AllHeld) \in Nat /\ faults \in Nat /\ AllHeld' = AllHeld /\ faults' = faults
    BY CountedFinite DEF AllHeld
<1> QED BY <1>1, <1>2 DEF Within

\* Nothing is forgotten once it is accounted for.
LEMMA StaysAccounted ==
    ASSUME PicoInv,
           \/ Core0
           \/ \E h \in {"up", "suspended", "gone"} : HostChanges(h)
           \/ HostPolls
           \/ LivenessTick
    PROVE  /\ UNCHANGED <<events, line, rx, faults>>
           /\ Accounted \ {0} \subseteq Accounted'
<1> USE DEF serial, usb
<1>1. Accounted = ToSet(reported) \cup lost \cup Waiting \cup {cmd.of}
    BY DEF Accounted, Waiting
<1>2. Accounted' = ToSet(reported') \cup lost' \cup Waiting' \cup {cmd'.of}
    BY DEF Accounted, Waiting
<1>3. (pc # "wait" => cmd.of = 0) /\ NoCmd.of = 0
    BY DEF PicoInv, Mounted, NoCmd
<1>4. DrainCmdQueue => lost' = lost \cup (Waiting \ {0})
    BY DEF DrainCmdQueue, Waiting
<1>5. queue' = queue => Waiting' = Waiting
    BY DEF Waiting
<1>6. ASSUME LoopTask \/ LoopPoll
      PROVE  UNCHANGED <<events, line, rx, faults>> /\ Accounted \ {0} \subseteq Accounted'
  <2>1. UNCHANGED <<serial, rx, cmd>> /\ TudTask
    BY <1>6 DEF LoopTask, LoopPoll
  <2>2. reported' = reported /\ (DrainCmdQueue \/ UNCHANGED <<queue, lost>>)
    BY <2>1 DEF TudTask
  <2>3. lost \cup (Waiting \ {0}) \subseteq lost' \cup Waiting'
    BY <1>4, <1>5, <2>2
  <2> QED BY <1>1, <1>2, <2>1, <2>2, <2>3
<1>7. ASSUME LoopTake
      PROVE  UNCHANGED <<events, line, rx, faults>> /\ Accounted \ {0} \subseteq Accounted'
  <2>1. pc = "take" /\ UNCHANGED <<serial, rx, reported>>
    BY <1>7 DEF LoopTake
  <2>2. CASE DrainCmdQueue /\ cmd' = cmd
    BY <1>1, <1>2, <1>4, <2>1, <2>2
  <2>3. CASE UNCHANGED <<queue, lost, cmd>>
    BY <1>1, <1>2, <1>5, <2>1, <2>3
  <2>4. CASE queue # << >> /\ cmd' = Head(queue) /\ queue' = Tail(queue) /\ lost' = lost
    <3>1. /\ DOMAIN queue = 1..Len(queue) /\ Len(queue) \in Nat \ {0}
          /\ DOMAIN queue' = 1..Len(queue) - 1
          /\ cmd' = queue[1] /\ \A i \in 1..Len(queue) - 1 : queue'[i] = queue[i + 1]
        BY <2>4, HeadTailProperties, EmptySeq, LenProperties DEF PicoInv, PicoTypeOK
    <3>2. ASSUME NEW i \in DOMAIN queue PROVE queue[i].of \in Waiting' \cup {cmd'.of}
        <4>1. CASE i = 1
            BY <3>1, <4>1
        <4>2. CASE i # 1
            <5>1. i - 1 \in DOMAIN queue' /\ queue'[i - 1] = queue[i]
                BY <3>1, <4>2
            <5> QED BY <5>1 DEF Waiting
        <4> QED BY <4>1, <4>2
    <3>3. Waiting \subseteq Waiting' \cup {cmd'.of}
        BY <3>2 DEF Waiting
    <3> QED BY <1>1, <1>2, <1>3, <2>1, <2>4, <3>3
  <2> QED BY <1>7, <2>2, <2>3, <2>4 DEF LoopTake
<1>8. ASSUME LoopReport
      PROVE  UNCHANGED <<events, line, rx, faults>> /\ Accounted \ {0} \subseteq Accounted'
  <2>1. UNCHANGED <<serial, rx, queue, lost>> /\ reported' = Append(reported, cmd.of)
    BY <1>8 DEF LoopReport, Report
  <2>2. ToSet(reported) \cup {cmd.of} \subseteq ToSet(reported')
    <3>1. reported \in Seq(0..MaxEvents) /\ cmd.of \in 0..MaxEvents
        BY PicoShape DEF PicoInv, PicoTypeOK
    <3>2. /\ Len(reported') = Len(reported) + 1 /\ reported'[Len(reported) + 1] = cmd.of
          /\ \A i \in 1..Len(reported) : reported'[i] = reported[i]
          /\ DOMAIN reported' = 1..Len(reported') /\ DOMAIN reported = 1..Len(reported)
          /\ Len(reported) \in Nat
        BY <2>1, <3>1, AppendProperties, LenProperties
    <3>3. Len(reported) + 1 \in DOMAIN reported' /\ DOMAIN reported \subseteq DOMAIN reported'
        BY <3>2
    <3> QED BY <3>2, <3>3 DEF ToSet
  <2> QED BY <1>1, <1>2, <1>5, <2>1, <2>2
<1>9. ASSUME LoopTimeout
      PROVE  UNCHANGED <<events, line, rx, faults>> /\ Accounted \ {0} \subseteq Accounted'
  <2>1. UNCHANGED <<serial, rx, queue, reported>> /\ lost' = lost \cup ({cmd.of} \ {0})
    BY <1>9 DEF LoopTimeout
  <2> QED BY <1>1, <1>2, <1>5, <2>1
<1>10. ASSUME \/ LoopIdle \/ LoopWfe \/ HostPolls \/ LivenessTick
              \/ \E h \in {"up", "suspended", "gone"} : HostChanges(h)
       PROVE  UNCHANGED <<events, line, rx, faults>> /\ Accounted \ {0} \subseteq Accounted'
  <2>1. UNCHANGED <<serial, rx, queue, reported, lost, cmd>>
    BY <1>10 DEF LoopIdle, LoopWfe, HostPolls, LivenessTick, HostChanges
  <2> QED BY <1>1, <1>2, <1>5, <2>1
<1> QED BY <1>6, <1>7, <1>8, <1>9, <1>10 DEF Core0

\* A byte of a frame that arrives untouched brings it on, or in.
LEMMA ArrivingStep ==
    ASSUME PicoInv, OnUartRx, NEW m \in 0..254, NEW k \in 0..254, Arriving(m, k)
    PROVE  OnTrack' \/ Len(events) \in Accounted'
<1> DEFINE n == Len(events)
           b == Head(line)
<1>1. n # 0 /\ EncodeKeyEvent(events[n]) = <<SyncByte, m, k>> /\ events' = events
    BY DEF Arriving, OnUartRx
<1>2. line' = Tail(line)
    BY DEF OnUartRx
<1>3. CASE line = <<[v |-> SyncByte, of |-> n], [v |-> m, of |-> n], [v |-> k, of |-> n]>>
  <2>1. b.v = SyncByte /\ line' = <<[v |-> m, of |-> n], [v |-> k, of |-> n]>>
    BY <1>2, <1>3
  <2>2. rx' = [rx EXCEPT !.state = "mod"]
    BY <2>1 DEF OnUartRx
  <2>3. rx'.state = "mod"
    BY <2>2 DEF PicoInv, PicoTypeOK
  <2>4. Arriving(m, k)'
    BY <1>1, <2>1, <2>3 DEF Arriving
  <2> QED BY <2>4 DEF OnTrack
<1>4. CASE rx.state = "mod" /\ line = <<[v |-> m, of |-> n], [v |-> k, of |-> n]>>
  <2>1. b.v = m /\ b.of = n /\ m # SyncByte /\ line' = <<[v |-> k, of |-> n]>>
    <3>1. b = [v |-> m, of |-> n] /\ line' = <<[v |-> k, of |-> n]>>
        BY <1>2, <1>4
    <3>2. m # SyncByte
        BY DEF SyncByte
    <3> QED BY <3>1, <3>2
  <2>2. rx' = [state |-> "kc", mod |-> m, of |-> n]
    BY <1>4, <2>1 DEF OnUartRx
  <2>3. Arriving(m, k)'
    BY <1>1, <2>1, <2>2 DEF Arriving
  <2> QED BY <2>3 DEF OnTrack
<1>5. CASE rx.state = "kc" /\ rx.mod = m /\ rx.of = n /\ line = <<[v |-> k, of |-> n]>>
  <2>1. b.v = k /\ b.of = n /\ b.v # SyncByte
    BY <1>5 DEF SyncByte
  <2>2. Intact(rx.mod, b.v, rx.of, b.of) = n
    BY <1>1, <1>5, <2>1 DEF Intact
  <2> DEFINE new == [mod |-> rx.mod, kc |-> b.v, mount |-> mounts,
                     of |-> Intact(rx.mod, b.v, rx.of, b.of)]
  <2>3. new.of = n
    BY <2>2
  <2>4. \/ queue' = Append(queue, new)
        \/ lost' = lost \cup ({new.of} \ {0})
    BY <1>5, <2>1 DEF OnUartRx
  <2>5. CASE queue' = Append(queue, new)
    <3> HIDE DEF new
    <3>1. Len(queue) + 1 \in DOMAIN queue' /\ queue'[Len(queue) + 1] = new
        BY <2>5, LenProperties DEF PicoInv, PicoTypeOK
    <3> QED BY <2>3, <3>1 DEF Accounted
  <2>6. CASE lost' = lost \cup ({new.of} \ {0})
    BY <1>1, <2>3, <2>6 DEF Accounted
  <2> QED BY <2>4, <2>5, <2>6
<1> QED BY <1>3, <1>4, <1>5 DEF Arriving

LEMMA ByteResync == ASSUME PicoInv, Resync, OnUartRx PROVE Resync'
<1>1. UNCHANGED <<events, faults>> /\ PicoTypeOK
    BY DEF OnUartRx, PicoInv
<1>2. Accounted \subseteq Accounted'
  <2>1. /\ reported' = reported /\ cmd' = cmd /\ lost \subseteq lost'
        /\ queue' = queue \/ \E new : queue' = Append(queue, new)
    BY DEF OnUartRx
  <2>2. Waiting \subseteq Waiting'
    <3>1. CASE queue' = queue
        BY <3>1 DEF Waiting
    <3>2. ASSUME NEW new, queue' = Append(queue, new) PROVE Waiting \subseteq Waiting'
        <4>1. \A i \in DOMAIN queue : i \in DOMAIN queue' /\ queue'[i] = queue[i]
            BY <1>1, <3>2, LenProperties DEF PicoTypeOK
        <4> QED BY <4>1 DEF Waiting
    <3> QED BY <2>1, <3>1, <3>2
  <2> QED BY <2>1, <2>2 DEF Accounted, Waiting
<1>3. Missing' \subseteq Missing
    BY <1>1, <1>2 DEF Missing
<1>4. CASE Within(Missing)
  <2>1. Within(Missing)'
    BY <1>1, <1>3, <1>4, CountedFinite, WithinFewer DEF Within
  <2> QED BY <2>1 DEF Resync
<1>5. CASE OnTrack /\ Within(Missing \ {Len(events)})
  <2>1. OnTrack' \/ Len(events) \in Accounted'
    BY <1>5, ArrivingStep DEF OnTrack
  <2> DEFINE S == Missing \ {Len(events)}
  <2>2. S \in SUBSET DOMAIN events /\ Within(S)
    BY <1>1, <1>5, CountedFinite
  <2>3. CASE Len(events) \in Accounted'
    <3>1. Missing' \in SUBSET S
        BY <1>1, <1>3, <2>3 DEF Missing
    <3> HIDE DEF S
    <3>2. Within(Missing)'
        BY <1>1, <2>2, <3>1, WithinFewer DEF Within
    <3> QED BY <3>2 DEF Resync
  <2>4. CASE OnTrack'
    <3> DEFINE T == Missing' \ {Len(events')}
    <3>1. T \in SUBSET S
        BY <1>1, <1>3
    <3> HIDE DEF S
    <3>2. Within(Missing \ {Len(events)})'
        BY <1>1, <2>2, <3>1, WithinFewer DEF Within
    <3> QED BY <2>4, <3>2 DEF Resync
  <2> QED BY <2>1, <2>3, <2>4
<1> QED BY <1>4, <1>5 DEF Resync

LEMMA CoreResync ==
    ASSUME PicoInv, Resync,
           \/ Core0
           \/ \E h \in {"up", "suspended", "gone"} : HostChanges(h)
           \/ HostPolls
           \/ LivenessTick
    PROVE  Resync'
<1>1. PicoTypeOK /\ UNCHANGED <<events, line, rx, faults>> /\ Accounted \ {0} \subseteq Accounted'
    BY StaysAccounted DEF PicoInv
<1>2. Missing' \subseteq Missing
    BY <1>1, CountedFinite DEF Missing
<1>3. CASE Within(Missing)
  <2>1. Within(Missing)'
    BY <1>1, <1>2, <1>3, CountedFinite, WithinFewer DEF Within
  <2> QED BY <2>1 DEF Resync
<1>4. CASE OnTrack /\ Within(Missing \ {Len(events)})
  <2>1. OnTrack'
    BY <1>1, <1>4 DEF OnTrack, Arriving
  <2> DEFINE S == Missing \ {Len(events)}
             T == Missing' \ {Len(events')}
  <2>2. S \in SUBSET DOMAIN events /\ Within(S) /\ T \in SUBSET S
    BY <1>1, <1>2, <1>4, CountedFinite
  <2> HIDE DEF S
  <2>3. Within(Missing \ {Len(events)})'
    BY <1>1, <2>2, WithinFewer DEF Within
  <2> QED BY <2>1, <2>3 DEF Resync
<1> QED BY <1>3, <1>4 DEF Resync

\* A frame that is written: it arrives untouched, or has all modifiers held, or
\* is the frame a fault of the line costs.
LEMMA KeyResync ==
    ASSUME PicoInv, Resync, NEW code, NEW type, KeyMessage(code, type)
    PROVE  Resync'
<1> USE DEF PicoInv
<1> DEFINE n == Len(events)
<1>1. Within(Missing)
  <2>1. line = << >>
    BY DEF KeyMessage
  <2>2. ~OnTrack
    BY <2>1 DEF OnTrack, Arriving
  <2> QED BY <2>2 DEF Resync
<1>2. UNCHANGED <<queue, cmd, lost, reported>>
    BY KeyMessageDoes
<1>3. Accounted' = Accounted
    BY <1>2 DEF Accounted
<1>4. CASE UNCHANGED <<events, line, faults>>
  <2>1. Within(Missing)'
    BY <1>1, <1>3, <1>4 DEF Within, Missing, AllHeld
  <2> QED BY <2>1 DEF Resync
<1>5. ASSUME NEW e \in KeyEvent, events' = Append(events, e), EncodeKeyEvent(e) # << >>,
             \/ line' = Sent(EncodeKeyEvent(e)) /\ faults' = faults
             \/ faults' = faults + 1 /\ faults' \in 0..MaxFaults
      PROVE  Resync'
  <2>1. /\ DOMAIN events = 1..n /\ n \in Nat
        /\ events' \in Seq(KeyEvent) /\ Len(events') = n + 1 /\ DOMAIN events' = 1..n + 1
        /\ \A i \in 1..n : events'[i] = events[i]
        /\ events'[n + 1] = e
    <3>1. events \in Seq(KeyEvent)
        BY DEF PicoTypeOK, KeyEvent
    <3> QED BY <1>5, <3>1, AppendProperties, LenProperties
  <2>2. DOMAIN events' = DOMAIN events \cup {n + 1}
    BY <2>1
  <2>3. /\ IsFiniteSet(DOMAIN events) /\ Missing \subseteq DOMAIN events
        /\ AllHeld \subseteq DOMAIN events /\ faults \in Nat
        /\ Cardinality(Missing) \in Nat /\ Cardinality(AllHeld) \in Nat
        /\ IsFiniteSet(Missing) /\ IsFiniteSet(AllHeld)
    BY CountedFinite
  <2>4. Missing' \subseteq Missing \cup {n + 1}
    BY <1>3, <2>2 DEF Missing
  <2>5. AllHeld' = IF e.mods = SyncByte THEN AllHeld \cup {n + 1} ELSE AllHeld
    BY <2>1, <2>2 DEF AllHeld
  <2>6. n + 1 \notin AllHeld
    BY <2>1, <2>3
  <2>7. /\ IsFiniteSet(Missing \cup {n + 1})
        /\ Cardinality(Missing \cup {n + 1}) <= Cardinality(Missing) + 1
        /\ Cardinality(Missing \cup {n + 1}) \in Nat
        /\ Cardinality(AllHeld \cup {n + 1}) = Cardinality(AllHeld) + 1
    <3>1. /\ IsFiniteSet(Missing \cup {n + 1})
          /\ Cardinality(Missing \cup {n + 1})
               = IF n + 1 \in Missing THEN Cardinality(Missing) ELSE Cardinality(Missing) + 1
        BY <2>3, FS_AddElement
    <3>2. Cardinality(AllHeld \cup {n + 1})
             = IF n + 1 \in AllHeld THEN Cardinality(AllHeld) ELSE Cardinality(AllHeld) + 1
        BY <2>3, FS_AddElement
    <3> QED BY <2>3, <2>6, <3>1, <3>2
  <2>8. /\ Cardinality(Missing') <= Cardinality(Missing) + 1 /\ Cardinality(Missing') \in Nat
    <3> DEFINE M == Missing'
               S == Missing \cup {n + 1}
    <3>1. M \in SUBSET S /\ IsFiniteSet(S)
        BY <2>4, <2>7
    <3>2. Cardinality(S) <= Cardinality(Missing) + 1 /\ Cardinality(S) \in Nat
        BY <2>7
    <3> HIDE DEF M, S
    <3>3. Cardinality(M) <= Cardinality(S) /\ Cardinality(M) \in Nat
        BY <3>1, FS_Subset, FS_CardinalityType
    <3>4. Cardinality(M) <= Cardinality(Missing) + 1
        BY <2>3, <3>2, <3>3
    <3> QED BY <3>3, <3>4 DEF M
  <2>9. Cardinality(AllHeld') >= Cardinality(AllHeld) /\ Cardinality(AllHeld') \in Nat
    BY <2>3, <2>5, <2>7
  <2>10. Cardinality(Missing) <= faults + Cardinality(AllHeld)
    BY <1>1 DEF Within
  <2>11. CASE faults' = faults + 1
    <3>1. Cardinality(Missing') <= faults' + Cardinality(AllHeld')
        BY <2>3, <2>8, <2>9, <2>10, <2>11
    <3> QED BY <3>1 DEF Resync, Within
  <2>12. CASE faults' = faults /\ e.mods = SyncByte
    <3>1. Cardinality(Missing') <= faults' + Cardinality(AllHeld')
        BY <2>3, <2>5, <2>7, <2>8, <2>10, <2>12
    <3> QED BY <3>1 DEF Resync, Within
  <2>13. CASE line' = Sent(EncodeKeyEvent(e)) /\ faults' = faults /\ e.mods # SyncByte
    <3>1. PICK k \in 0..254 : EncodeKeyEvent(e) = <<SyncByte, e.mods, k>>
        BY <1>5, FrameShape
    <3> DEFINE m == e.mods
    <3>2. m \in 0..254
        BY <2>13 DEF KeyEvent, Byte, SyncByte
    <3>3. EncodeKeyEvent(e) = <<SyncByte, m, k>>
        BY <3>1
    <3> HIDE DEF m
    <3>4. line' = <<[v |-> SyncByte, of |-> n + 1], [v |-> m, of |-> n + 1], [v |-> k, of |-> n + 1]>>
        BY <2>1, <2>13, <3>3 DEF Sent
    <3>5. Arriving(m, k)'
        BY <2>1, <3>3, <3>4 DEF Arriving
    <3>6. OnTrack'
        BY <3>2, <3>5 DEF OnTrack
    <3>7. Within(Missing \ {Len(events)})'
        <4> DEFINE M == Missing' \ {Len(events')}
        <4>1. M \in SUBSET Missing
            BY <2>1, <2>4
        <4> HIDE DEF M
        <4>2. Cardinality(M) <= Cardinality(Missing) /\ Cardinality(M) \in Nat
            BY <2>3, <4>1, FS_Subset, FS_CardinalityType
        <4>3. Cardinality(M) <= faults' + Cardinality(AllHeld')
            BY <2>3, <2>9, <2>10, <2>13, <4>2
        <4> QED BY <4>3 DEF M, Within
    <3> QED BY <3>6, <3>7 DEF Resync
  <2> QED BY <1>5, <2>11, <2>12, <2>13
<1>6. \/ UNCHANGED <<events, line, faults>>
      \/ \E e \in KeyEvent :
            /\ events' = Append(events, e)
            /\ EncodeKeyEvent(e) # << >>
            /\ \/ line' = Sent(EncodeKeyEvent(e)) /\ faults' = faults
               \/ faults' = faults + 1 /\ faults' \in 0..MaxFaults
    BY KeyMessageDoes
<1> QED BY <1>4, <1>5, <1>6

LEMMA ResyncStep == ASSUME PicoInv, Resync, [PicoNext]_picoVars PROVE Resync'
<1>1. CASE UNCHANGED picoVars
  <2>1. UNCHANGED <<events, faults, line, rx, reported, lost, queue, cmd>>
    BY <1>1 DEF picoVars
  <2>2. Missing' = Missing /\ AllHeld' = AllHeld
    BY <2>1 DEF Missing, AllHeld, Accounted
  <2>3. OnTrack' = OnTrack
    BY <2>1 DEF OnTrack, Arriving
  <2> QED BY <2>1, <2>2, <2>3 DEF Resync, Within
<1> QED BY <1>1, KeyResync, ByteResync, CoreResync DEF PicoNext

\* A fault of the line costs one command at most (hydra-keyboard.c:39-43): the
\* parser is back in step with the next frame.
THEOREM FaultsCostOneCommand == PicoSpec => []ResyncWithinOne
<1>1. PicoInit => Resync
  <2> SUFFICES ASSUME PicoInit PROVE Resync
    OBVIOUS
  <2>1. DOMAIN events = {} /\ faults = 0
    BY DEF PicoInit
  <2>2. Missing = {} /\ AllHeld = {}
    BY <2>1 DEF Missing, AllHeld
  <2>3. Cardinality({}) = 0
    BY FS_EmptySet
  <2>4. Within(Missing)
    BY <2>1, <2>2, <2>3 DEF Within
  <2> QED BY <2>4 DEF Resync
<1>2. PicoInv /\ Resync /\ [PicoNext]_picoVars => Resync'
    BY ResyncStep
<1>3. Resync => ResyncWithinOne
    BY DEF Resync, OnTrack, Arriving, Within, Missing, AllHeld, ResyncWithinOne
<1> QED BY PicoInvariance, <1>1, <1>2, <1>3, PTL DEF PicoSpec
=============================================================================
