---------------------------- MODULE KeyPathProofs ----------------------------
(***************************************************************************)
(* The path of a key through Channel.Run, for every set of Clients,        *)
(* Channels, Handles and key codes: unless two Run bodies of a Channel     *)
(* overlapped, mask and stamps are exact.                                  *)
(***************************************************************************)
EXTENDS KeyPath, ApplicationProofs

-----------------------------------------------------------------------------
(* What holds of Application holds with Run added to it.                   *)

LEMMA ElsewhereIsNext == Elsewhere => Next
BY DEF Elsewhere, Next, ClientStep

LEMMA KeyStepIsNext == [KeyNext]_allVars => [Next]_vars
<1> SUFFICES ASSUME [KeyNext]_allVars PROVE [Next]_vars
    OBVIOUS
<1>1. ASSUME NEW c \in Clients, NEW e \in Edge, Press(c, e) PROVE Next
    BY <1>1 DEF Press, Next, ClientStep
<1>2. ASSUME NEW c \in Clients, NEW h \in Handles, TakeEdge(c, h) PROVE Next
    BY <1>2 DEF TakeEdge, Next
<1>3. ASSUME NEW ch \in Channels, NEW h \in Handles, Body(ch, h) PROVE UNCHANGED vars
    BY <1>3 DEF Body, LoadMask, StoreMask, StampEvent, ReportKeyEvent
<1>4. ASSUME NEW ch \in Channels, NEW h \in Handles, LeaveRun(ch, h) PROVE Next
    BY <1>4 DEF LeaveRun, Next
<1>5. CASE UNCHANGED allVars
    BY <1>5 DEF allVars
<1> QED BY <1>1, <1>2, <1>3, <1>4, <1>5, ElsewhereIsNext DEF KeyNext

\* The indexes, reference counts and fan-out sets stay consistent while keys go
\* through.
THEOREM KeyIndInvariance == KeySpec => []IndInv
<1>1. KeyInit => IndInv
    BY InitInd DEF KeyInit
<1>2. IndInv /\ [KeyNext]_allVars => IndInv'
    BY StepInd, KeyStepIsNext
<1> QED BY <1>1, <1>2, PTL DEF KeySpec

-----------------------------------------------------------------------------
(* The invariant of Run.                                                   *)

KeyShape ==
    /\ edge \in [Clients -> Edge \cup {NoEdge}]
    /\ kbd \in [Channels -> SUBSET Modifiers]
    /\ job \in [Channels -> [Handles -> Job]]
    /\ ref \in [Channels -> SUBSET Modifiers]
    /\ raced \in [Channels -> BOOLEAN]

\* A Client inside SendKeyEdge has an edge to send.
EdgeInHand == \A c \in Clients : pc[c] = "sending" => edge[c] \in Edge

\* What a body that is alone holds at each of its points.
Midway(j, m, r) ==
    /\ j.at = "load" => r = Applied(m, j.e)
    /\ j.at = "store" => r = Applied(m, j.e) /\ j.mask = m
    /\ j.at = "stamp" => r = m
    /\ j.at = "report" => r = m /\ j.mask = r

Alone(ch) ==
    \A g, h \in Handles : job[ch][g] # Idle /\ job[ch][h] # Idle => g = h

Exact(ch) ==
    ~raced[ch] =>
        /\ Alone(ch)
        /\ Quiet(ch) => kbd[ch] = ref[ch]
        /\ \A h \in Handles : Midway(job[ch][h], kbd[ch], ref[ch])

KeyInv ==
    /\ KeyShape
    /\ EdgeInHand
    /\ \A ch \in Channels : Exact(ch)

Busy == [at : {"load", "store", "stamp", "report"}, e : Edge,
         mask : SUBSET Modifiers]

LEMMA JobFacts ==
    /\ Job = {Idle} \cup Busy
    /\ Idle.at = "select"
    /\ \A j \in Busy : j # Idle /\ j.at # "select"
    /\ \A m \in SUBSET Modifiers, e \in Edge : Applied(m, e) \in SUBSET Modifiers
    /\ \A m, e : e.code \notin Modifiers => Applied(m, e) = m
<1>1. Job = {Idle} \cup Busy
    BY DEF Job, Busy
<1>2. Idle.at = "select" /\ \A j \in Busy : j # Idle /\ j.at # "select"
    BY DEF Idle, Busy
<1>3. ASSUME NEW m \in SUBSET Modifiers, NEW e \in Edge PROVE Applied(m, e) \in SUBSET Modifiers
  <2>1. e.down \in BOOLEAN
    BY DEF Edge
  <2> QED BY <2>1 DEF Applied
<1>4. ASSUME NEW m, NEW e, e.code \notin Modifiers PROVE Applied(m, e) = m
    BY <1>4 DEF Applied
<1> QED BY <1>1, <1>2, <1>3, <1>4

\* One Run of one Channel goes from one point of its body to the next.
LEMMA BodyMoves ==
    ASSUME KeyInv, NEW ch \in Channels, NEW h \in Handles, job[ch][h] # Idle,
           NEW j \in Job, NEW m \in SUBSET Modifiers,
           job' = [job EXCEPT ![ch][h] = j],
           kbd' = [kbd EXCEPT ![ch] = m],
           UNCHANGED <<vars, edge, ref, raced>>,
           ~raced[ch] => Midway(j, m, ref[ch]) /\ (j = Idle => m = ref[ch])
    PROVE  KeyInv'
<1>1. KeyShape'
    BY DEF KeyInv, KeyShape
<1>2. EdgeInHand'
    BY DEF KeyInv, EdgeInHand, vars, locks
<1>3. /\ job'[ch][h] = j /\ kbd'[ch] = m
      /\ \A g \in Handles \ {h} : job'[ch][g] = job[ch][g]
      /\ \A d \in Channels \ {ch} : job'[d] = job[d] /\ kbd'[d] = kbd[d]
    BY DEF KeyInv, KeyShape
<1>4. ASSUME NEW d \in Channels PROVE Exact(d)'
  <2>1. CASE d # ch
    BY <1>3, <2>1 DEF KeyInv, Exact, Alone, Quiet
  <2>2. CASE d = ch /\ ~raced[ch]
    <3>1. Alone(ch) /\ \A g \in Handles \ {h} : job[ch][g] = Idle
      BY <2>2 DEF KeyInv, Exact, Alone
    <3>2. \A g \in Handles \ {h} : job'[ch][g] = Idle
      BY <1>3, <3>1
    <3>3. Alone(ch)'
      BY <3>2 DEF Alone
    <3>4. \A g \in Handles \ {h} : Midway(job'[ch][g], m, ref[ch])
      BY <3>2, JobFacts DEF Midway
    <3>5. \A g \in Handles : Midway(job'[ch][g], kbd'[ch], ref'[ch])
      BY <1>3, <2>2, <3>4
    <3>6. Quiet(ch)' => kbd'[ch] = ref'[ch]
      BY <1>3, <2>2 DEF Quiet
    <3> QED BY <2>2, <3>3, <3>5, <3>6 DEF Exact
  <2>3. CASE d = ch /\ raced[ch]
    BY <2>3 DEF Exact
  <2> QED BY <2>1, <2>2, <2>3
<1> QED BY <1>1, <1>2, <1>4 DEF KeyInv

LEMMA BodyInv ==
    ASSUME KeyInv, NEW ch \in Channels, NEW h \in Handles, Body(ch, h) PROVE KeyInv'
<1> DEFINE j == job[ch][h]
<1>1. /\ job \in [Channels -> [Handles -> Job]] /\ j \in Job
      /\ kbd \in [Channels -> SUBSET Modifiers]
      /\ kbd[ch] \in SUBSET Modifiers /\ kbd = [kbd EXCEPT ![ch] = kbd[ch]]
      /\ ~raced[ch] => Midway(j, kbd[ch], ref[ch])
    BY DEF KeyInv, KeyShape, Exact
<1>2. j.at # "select" => j # Idle /\ j \in Busy
    BY <1>1, JobFacts
<1>3. CASE LoadMask(ch, h)
  <2> DEFINE next == [j EXCEPT !.mask = kbd[ch], !.at = "store"]
  <2>1. job' = [job EXCEPT ![ch][h] = next]
    BY <1>1, <1>3 DEF LoadMask
  <2>2. j.at = "load" /\ j \in Busy /\ j # Idle
    BY <1>2, <1>3 DEF LoadMask
  <2>3. next \in Busy /\ next.at = "store" /\ next.mask = kbd[ch] /\ next.e = j.e
    BY <1>1, <2>2 DEF Busy
  <2>4. next \in Job /\ next # Idle
    BY <2>3, JobFacts
  <2>5. ~raced[ch] => Midway(next, kbd[ch], ref[ch])
    BY <1>1, <2>2, <2>3 DEF Midway
  <2> HIDE DEF next
  <2>6. job[ch][h] # Idle /\ UNCHANGED <<vars, edge, kbd, ref, raced>>
    BY <1>3, <2>2 DEF LoadMask
  <2>7. kbd' = [kbd EXCEPT ![ch] = kbd[ch]]
    BY <1>1, <2>6
  <2>8. ~raced[ch] => Midway(next, kbd[ch], ref[ch]) /\ (next = Idle => kbd[ch] = ref[ch])
    BY <2>4, <2>5
  <2> QED BY <1>1, <2>1, <2>4, <2>6, <2>7, <2>8, BodyMoves
<1>4. CASE StoreMask(ch, h)
  <2> DEFINE next == [j EXCEPT !.mask = {}, !.at = "stamp"]
             m == Applied(j.mask, j.e)
  <2>1. job' = [job EXCEPT ![ch][h] = next] /\ kbd' = [kbd EXCEPT ![ch] = m]
    BY <1>1, <1>4 DEF StoreMask
  <2>2. j.at = "store" /\ j \in Busy /\ j # Idle
    BY <1>2, <1>4 DEF StoreMask
  <2>3. next \in Busy /\ next.at = "stamp"
    BY <1>1, <2>2 DEF Busy
  <2>4. next \in Job /\ next # Idle
    BY <2>3, JobFacts
  <2>5. m \in SUBSET Modifiers
    BY <2>2, JobFacts DEF Busy
  <2>6. ~raced[ch] => Midway(next, m, ref[ch])
    BY <1>1, <2>2, <2>3 DEF Midway
  <2> HIDE DEF next, m
  <2>7. job[ch][h] # Idle /\ UNCHANGED <<vars, edge, ref, raced>>
    BY <1>4, <2>2 DEF StoreMask
  <2>8. ~raced[ch] => Midway(next, m, ref[ch]) /\ (next = Idle => m = ref[ch])
    BY <2>4, <2>6
  <2> QED BY <2>1, <2>4, <2>5, <2>7, <2>8, BodyMoves
<1>5. CASE StampEvent(ch, h)
  <2> DEFINE next == [j EXCEPT !.mask = kbd[ch], !.at = "report"]
  <2>1. job' = [job EXCEPT ![ch][h] = next]
    BY <1>1, <1>5 DEF StampEvent
  <2>2. j.at = "stamp" /\ j \in Busy /\ j # Idle
    BY <1>2, <1>5 DEF StampEvent
  <2>3. next \in Busy /\ next.at = "report" /\ next.mask = kbd[ch]
    BY <1>1, <2>2 DEF Busy
  <2>4. next \in Job /\ next # Idle
    BY <2>3, JobFacts
  <2>5. ~raced[ch] => Midway(next, kbd[ch], ref[ch])
    BY <1>1, <2>2, <2>3 DEF Midway
  <2> HIDE DEF next
  <2>6. job[ch][h] # Idle /\ UNCHANGED <<vars, edge, kbd, ref, raced>>
    BY <1>5, <2>2 DEF StampEvent
  <2>7. kbd' = [kbd EXCEPT ![ch] = kbd[ch]]
    BY <1>1, <2>6
  <2>8. ~raced[ch] => Midway(next, kbd[ch], ref[ch]) /\ (next = Idle => kbd[ch] = ref[ch])
    BY <2>4, <2>5
  <2> QED BY <1>1, <2>1, <2>4, <2>6, <2>7, <2>8, BodyMoves
<1>6. CASE ReportKeyEvent(ch, h)
  <2>1. j.at = "report" /\ j # Idle /\ Idle \in Job
    BY <1>2, <1>6, JobFacts DEF ReportKeyEvent
  <2>2. ~raced[ch] => Midway(Idle, kbd[ch], ref[ch]) /\ kbd[ch] = ref[ch]
    BY <1>1, <2>1, JobFacts DEF Midway
  <2>3. job' = [job EXCEPT ![ch][h] = Idle] /\ UNCHANGED <<vars, edge, kbd, ref, raced>>
    BY <1>6 DEF ReportKeyEvent
  <2>4. kbd' = [kbd EXCEPT ![ch] = kbd[ch]]
    BY <1>1, <2>3
  <2> QED BY <1>1, <2>1, <2>2, <2>3, <2>4, BodyMoves
<1> QED BY <1>3, <1>4, <1>5, <1>6 DEF Body

LEMMA TakeInv ==
    ASSUME IndInv, KeyInv, NEW c \in Clients, NEW h \in Handles, TakeEdge(c, h),
           NEW ch, ch = req[c], NEW e, e = edge[c]
    PROVE  KeyInv'
<1> DEFINE next == [at |-> IF e.code \in Modifiers THEN "load" ELSE "stamp",
                    e |-> e, mask |-> {}]
<1>1. pc[c] = "sending" /\ job[ch][h] = Idle
    BY DEF TakeEdge, SendKeyEdge
<1>2. ch \in Channels /\ e \in Edge
    BY <1>1 DEF IndInv, Located, KeyInv, EdgeInHand
<1>3. next \in Busy /\ next \in Job
    BY <1>2, JobFacts DEF Busy
<1>4. /\ job' = [job EXCEPT ![ch][h] = next]
      /\ edge' = [edge EXCEPT ![c] = NoEdge]
      /\ ref' = [ref EXCEPT ![ch] = Applied(ref[ch], e)]
      /\ raced' = [raced EXCEPT ![ch] = raced[ch] \/ \E g \in Handles \ {h} : job[ch][g] # Idle]
      /\ kbd' = kbd
    BY DEF TakeEdge
<1>5. \A d \in Clients : pc'[d] = "sending" => pc[d] = "sending" /\ d # c
    BY <1>2 DEF TakeEdge, SendKeyEdge, Goto, IndInv, TypeOK
<1>6. next.e = e /\ next.at \in {"load", "stamp"} /\ (next.at = "stamp" => e.code \notin Modifiers)
    OBVIOUS
<1> HIDE DEF next
<1>7. KeyShape'
  <2>1. ref' \in [Channels -> SUBSET Modifiers]
    BY <1>2, <1>4, JobFacts DEF KeyInv, KeyShape
  <2>2. job' \in [Channels -> [Handles -> Job]] /\ edge' \in [Clients -> Edge \cup {NoEdge}]
    BY <1>2, <1>3, <1>4 DEF KeyInv, KeyShape
  <2>3. raced' \in [Channels -> BOOLEAN]
    BY <1>4 DEF KeyInv, KeyShape
  <2> QED BY <1>4, <2>1, <2>2, <2>3 DEF KeyInv, KeyShape
<1>8. EdgeInHand'
    BY <1>4, <1>5 DEF KeyInv, KeyShape, EdgeInHand
<1>9. /\ job'[ch][h] = next
      /\ \A g \in Handles \ {h} : job'[ch][g] = job[ch][g]
      /\ \A d \in Channels \ {ch} : job'[d] = job[d] /\ ref'[d] = ref[d] /\ raced'[d] = raced[d]
      /\ ref'[ch] = Applied(ref[ch], e)
    BY <1>2, <1>4 DEF KeyInv, KeyShape
<1>10. ASSUME NEW d \in Channels PROVE Exact(d)'
  <2>1. CASE d # ch
    BY <1>4, <1>9, <2>1 DEF KeyInv, Exact, Alone, Quiet
  <2>2. CASE d = ch /\ ~raced'[ch]
    <3>1. ~raced[ch] /\ \A g \in Handles \ {h} : job[ch][g] = Idle
      BY <1>2, <1>4, <2>2 DEF KeyInv, KeyShape
    <3>2. \A g \in Handles : job[ch][g] = Idle
      BY <1>1, <3>1
    <3>3. kbd[ch] = ref[ch]
      BY <1>2, <3>1, <3>2 DEF KeyInv, Exact, Quiet
    <3>4. Midway(next, kbd[ch], ref'[ch])
      BY <1>6, <1>9, <3>3, JobFacts DEF Midway
    <3>5. \A g \in Handles \ {h} : job'[ch][g] = Idle /\ Midway(job'[ch][g], kbd[ch], ref'[ch])
      BY <1>9, <3>1, JobFacts DEF Midway
    <3>6. \A g \in Handles : Midway(job'[ch][g], kbd'[ch], ref'[ch])
      BY <1>4, <1>9, <3>4, <3>5
    <3>7. Alone(ch)'
      BY <3>5 DEF Alone
    <3>8. ~Quiet(ch)'
      BY <1>3, <1>9, JobFacts DEF Quiet
    <3> QED BY <2>2, <3>6, <3>7, <3>8 DEF Exact
  <2>3. CASE d = ch /\ raced'[ch]
    BY <2>3 DEF Exact
  <2> QED BY <2>1, <2>2, <2>3
<1> QED BY <1>7, <1>8, <1>10 DEF KeyInv

\* A step that neither Run's body nor its keys take part in: nobody
\* starts to send.
LEMMA OtherInv ==
    ASSUME KeyInv, UNCHANGED keyVars,
           \A c \in Clients : pc'[c] = "sending" => pc[c] = "sending"
    PROVE  KeyInv'
<1>1. UNCHANGED <<edge, kbd, job, ref, raced>>
    BY DEF keyVars
<1> QED BY <1>1 DEF KeyInv, KeyShape, EdgeInHand, Exact, Alone, Quiet

LEMMA ElsewhereInv == IndInv /\ KeyInv /\ Elsewhere => KeyInv'
<1> SUFFICES ASSUME IndInv, KeyInv, Elsewhere PROVE KeyInv'
    OBVIOUS
<1>1. pc \in [Clients -> Location]
    BY DEF IndInv, TypeOK
<1>2. \A c \in Clients : pc'[c] = "sending" => pc[c] = "sending"
  <2>1. \A c, d \in Clients : \A l \in Location \ {"sending"} :
            Goto(c, l) => (pc'[d] = "sending" => pc[d] = "sending")
    BY <1>1 DEF Goto
  <2> QED BY <1>1, <2>1 DEF Elsewhere, AddClient, SwitchChannel, RemoveClient, Proceed,
        LockChannel, UnregisterClient, Detach, DetachTo, Attach, RegisterClient,
        ResumePump, Forget, EmitMJPEGURL, Return, NotifyBegin, NotifyEnd, SuperviseExit,
        locks, Location, Critical
<1>3. UNCHANGED keyVars
    BY DEF Elsewhere
<1> QED BY <1>2, <1>3, OtherInv

LEMMA KeyStepInv == IndInv /\ KeyInv /\ [KeyNext]_allVars => KeyInv'
<1> SUFFICES ASSUME IndInv, KeyInv, [KeyNext]_allVars PROVE KeyInv'
    OBVIOUS
<1>1. ASSUME NEW c \in Clients, NEW e \in Edge, Press(c, e) PROVE KeyInv'
  <2>1. edge' = [edge EXCEPT ![c] = e] /\ UNCHANGED <<kbd, job, ref, raced>>
    BY <1>1 DEF Press
  <2>2. \A d \in Clients \ {c} : pc'[d] = pc[d]
    BY <1>1 DEF Press, RecordKeyEvent, Goto, IndInv, TypeOK
  <2>3. KeyShape' /\ EdgeInHand'
    BY <2>1, <2>2 DEF KeyInv, KeyShape, EdgeInHand
  <2> QED BY <2>1, <2>3 DEF KeyInv, Exact, Alone, Quiet
<1>2. ASSUME NEW c \in Clients, NEW h \in Handles, TakeEdge(c, h) PROVE KeyInv'
    BY <1>2, TakeInv
<1>3. ASSUME NEW ch \in Channels, NEW h \in Handles, Body(ch, h) PROVE KeyInv'
    BY <1>3, BodyInv
<1>4. ASSUME NEW ch \in Channels, NEW h \in Handles, LeaveRun(ch, h) PROVE KeyInv'
    BY <1>4, OtherInv DEF LeaveRun, RunExit, locks
<1>5. CASE Elsewhere
    BY <1>5, ElsewhereInv
<1>6. CASE UNCHANGED allVars
    BY <1>6, OtherInv DEF allVars, vars, locks, gors
<1> QED BY <1>1, <1>2, <1>3, <1>4, <1>5, <1>6 DEF KeyNext

THEOREM KeyInvariance == KeySpec => [](IndInv /\ KeyInv)
<1>1. KeyInit => KeyInv
  <2> SUFFICES ASSUME KeyInit PROVE KeyInv
    OBVIOUS
  <2> USE DEF KeyInit
  <2>1. \A ch \in Channels, h \in Handles : job[ch][h] = Idle
    OBVIOUS
  <2>2. KeyShape
    BY JobFacts DEF KeyShape
  <2>3. EdgeInHand
    BY DEF EdgeInHand, Init
  <2>4. \A ch \in Channels : Exact(ch)
    BY <2>1, JobFacts DEF Exact, Alone, Midway
  <2> QED BY <2>2, <2>3, <2>4 DEF KeyInv
<1>2. IndInv /\ KeyInv /\ [KeyNext]_allVars => KeyInv'
    BY KeyStepInv
<1> QED BY <1>1, <1>2, KeyIndInvariance, PTL DEF KeySpec

\* Every variable of KeyPath keeps its type.
THEOREM KeyTypes == KeySpec => []KeyTypeOK
<1>1. IndInv /\ KeyInv => KeyTypeOK
    BY DEF IndInv, KeyInv, KeyShape, KeyTypeOK
<1> QED BY <1>1, KeyInvariance, PTL

\* Unless two Run bodies of a Channel overlapped, its mask and the stamp of
\* each KeyEvent are those of the edges in the order taken (channel.go:48,84).
THEOREM MasksAreExact == KeySpec => []MaskExact
<1>1. KeyInv => MaskExact
  <2> SUFFICES ASSUME KeyInv, NEW ch \in Channels, ~raced[ch]
               PROVE  /\ Quiet(ch) => kbd[ch] = ref[ch]
                      /\ \A h \in Handles :
                            job[ch][h].at = "report" => job[ch][h].mask = ref[ch]
      BY DEF MaskExact
  <2> QED BY DEF KeyInv, Exact, Midway
<1> QED BY <1>1, KeyInvariance, PTL

\* What the HTTP layer is promised (application.go:212,315) it gets of the whole
\* path of a key: with Run's unlocked steps in between, KeyPath behaves as
\* Application does, and an edge that is taken goes where the atomic registry
\* sends it.
THEOREM KeyPathImplements == KeySpec => Spec /\ ImplementsRegistry
<1>1. KeyInit => Init
    BY DEF KeyInit
<1>2. KeySpec => Spec
    BY <1>1, KeyStepIsNext, PTL DEF KeySpec, Spec
<1> QED BY <1>2, Refinement
=============================================================================
