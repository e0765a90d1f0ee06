------------------------- MODULE ApplicationProofs -------------------------
(***************************************************************************)
(* Proofs about Application, for every set of Clients, Channels and        *)
(* Handles.                                                                *)
(***************************************************************************)
EXTENDS Application, TLAPS

LEMMA InitInd == Init => IndInv
BY ConstantsDistinct DEF Init, IndInv, TypeOK, Location, Critical, Locking, Located,
   Indexed, FanoutSets, Registered, RunAlive, Pumped

LEMMA StepTypeOK == IndInv /\ [Next]_vars => TypeOK'
<1> SUFFICES ASSUME IndInv, [Next]_vars PROVE TypeOK'
    OBVIOUS
<1> USE DEF IndInv, TypeOK, Location, Critical
<1>1. ASSUME NEW c \in Clients, AddClient(c) PROVE TypeOK'
  BY <1>1 DEF AddClient, Goto, gors
<1>2. ASSUME NEW c \in Clients, NEW t \in Channels \cup {Nil}, SwitchChannel(c, t)
      PROVE TypeOK'
  BY <1>2 DEF SwitchChannel, Goto, gors, index
<1>3. ASSUME NEW c \in Clients, RemoveClient(c) PROVE TypeOK'
  BY <1>3 DEF RemoveClient, Goto, gors, index
<1>4. ASSUME NEW c \in Clients, LockChannel(c) PROVE TypeOK'
  BY <1>4 DEF LockChannel, Goto, gors, index
<1>5. ASSUME NEW c \in Clients, UnregisterClient(c) PROVE TypeOK'
  BY <1>5 DEF UnregisterClient, Goto, gors, index
<1>6. ASSUME NEW c \in Clients, Detach(c) PROVE TypeOK'
  BY <1>6 DEF Detach, DetachTo, Goto, gors, index
<1>7. ASSUME NEW c \in Clients, Attach(c) PROVE TypeOK'
  BY <1>7 DEF Attach, StartChannel, FreeHandles, Goto, gors, index, Located
<1>8. ASSUME NEW c \in Clients, RegisterClient(c) PROVE TypeOK'
  BY <1>8 DEF RegisterClient, Return, Goto, gors, index
<1>9. ASSUME NEW c \in Clients, ResumePump(c) PROVE TypeOK'
  BY <1>9 DEF ResumePump, Return, Goto, gors, index
<1>10. ASSUME NEW c \in Clients, EmitMJPEGURL(c) PROVE TypeOK'
  BY <1>10 DEF EmitMJPEGURL, Goto, gors, index
<1>11. ASSUME NEW c \in Clients, Forget(c) PROVE TypeOK'
  BY <1>11 DEF Forget, Return, Goto, gors, index
<1>12. ASSUME NEW c \in Clients, RecordKeyEvent(c) PROVE TypeOK'
  BY <1>12 DEF RecordKeyEvent, Goto, gors, index
<1>13. ASSUME NEW c \in Clients, NEW h \in Handles, SendKeyEdge(c, h) PROVE TypeOK'
  BY <1>13 DEF SendKeyEdge, Goto, gors, index, Located
<1>14. ASSUME NEW ch \in Channels, NEW h \in Handles,
              RunExit(ch, h) \/ NotifyBegin(ch, h) \/ NotifyEnd(ch, h) \/ SuperviseExit(ch, h)
       PROVE TypeOK'
  BY <1>14 DEF RunExit, NotifyBegin, NotifyEnd, SuperviseExit, locks, index
<1>15. CASE UNCHANGED vars
  BY <1>15 DEF vars, locks, index, gors
<1> QED
  BY <1>1, <1>2, <1>3, <1>4, <1>5, <1>6, <1>7, <1>8, <1>9, <1>10, <1>11, <1>12, <1>13,
     <1>14, <1>15 DEF Next, ClientStep, Proceed

LEMMA StepInd == IndInv /\ [Next]_vars => IndInv'
<1> DEFINE Rest == Locking /\ (\A d \in Clients : Located(d)) /\ Indexed
                   /\ FanoutSets /\ RunAlive /\ Pumped
<1> SUFFICES ASSUME IndInv, [Next]_vars PROVE TypeOK' /\ Rest'
    BY DEF IndInv
<1>0. TypeOK /\ TypeOK' /\ Rest
  BY StepTypeOK DEF IndInv
<1>1. ASSUME NEW c \in Clients, AddClient(c)
      PROVE  Rest'
  <2>1. Locking' /\ (\A d \in Clients : Located(d))'
    BY <1>0, <1>1, ConstantsDistinct DEF TypeOK, Location, Critical, Locking, Located,
       AddClient, Goto, gors
  <2>2. Indexed' /\ RunAlive'
    BY <1>0, <1>1, ConstantsDistinct DEF TypeOK, Location, Critical, Locking, Located,
       Indexed, RunAlive, AddClient, Goto, gors
  <2>3. FanoutSets' /\ Pumped'
    BY <1>0, <1>1, ConstantsDistinct DEF TypeOK, Location, Critical, Locking, Located,
       FanoutSets, Registered, Pumped, AddClient, Goto, gors
  <2> QED BY <2>1, <2>2, <2>3
<1>2. ASSUME NEW c \in Clients, NEW t \in Channels \cup {Nil}, SwitchChannel(c, t)
      PROVE  Rest'
  <2>1. Locking' /\ (\A d \in Clients : Located(d))'
    BY <1>0, <1>2, ConstantsDistinct DEF TypeOK, Location, Critical, Locking, Located,
       SwitchChannel, Goto, gors, index
  <2>2. Indexed' /\ RunAlive'
    BY <1>0, <1>2, ConstantsDistinct DEF TypeOK, Location, Critical, Locking, Located,
       Indexed, RunAlive, SwitchChannel, Goto, gors, index
  <2>3. FanoutSets' /\ Pumped'
    BY <1>0, <1>2, ConstantsDistinct DEF TypeOK, Location, Critical, Locking, Located,
       FanoutSets, Registered, Pumped, SwitchChannel, Goto, gors, index
  <2> QED BY <2>1, <2>2, <2>3
<1>3. ASSUME NEW c \in Clients, RemoveClient(c)
      PROVE  Rest'
  <2>1. Locking' /\ (\A d \in Clients : Located(d))'
    BY <1>0, <1>3, ConstantsDistinct DEF TypeOK, Location, Critical, Locking, Located,
       RemoveClient, Goto, gors, index
  <2>2. Indexed' /\ RunAlive'
    BY <1>0, <1>3, ConstantsDistinct DEF TypeOK, Location, Critical, Locking, Located,
       Indexed, RunAlive, RemoveClient, Goto, gors, index
  <2>3. FanoutSets' /\ Pumped'
    BY <1>0, <1>3, ConstantsDistinct DEF TypeOK, Location, Critical, Locking, Located,
       FanoutSets, Registered, Pumped, RemoveClient, Goto, gors, index
  <2> QED BY <2>1, <2>2, <2>3
<1>4. ASSUME NEW c \in Clients, LockChannel(c)
      PROVE  Rest'
  <2>1. Locking' /\ (\A d \in Clients : Located(d))'
    BY <1>0, <1>4, ConstantsDistinct DEF TypeOK, Location, Critical, Locking, Located,
       LockChannel, Goto, gors, index
  <2>2. Indexed' /\ RunAlive'
    BY <1>0, <1>4, ConstantsDistinct DEF TypeOK, Location, Critical, Locking, Located,
       Indexed, RunAlive, LockChannel, Goto, gors, index
  <2>3. FanoutSets' /\ Pumped'
    BY <1>0, <1>4, ConstantsDistinct DEF TypeOK, Location, Critical, Locking, Located,
       FanoutSets, Registered, Pumped, LockChannel, Goto, gors, index
  <2> QED BY <2>1, <2>2, <2>3
<1>5. ASSUME NEW c \in Clients, UnregisterClient(c)
      PROVE  Rest'
  <2>1. Locking' /\ (\A d \in Clients : Located(d))'
    BY <1>0, <1>5, ConstantsDistinct DEF TypeOK, Location, Critical, Locking, Located,
       UnregisterClient, Goto, gors
  <2>2. Indexed' /\ RunAlive'
    BY <1>0, <1>5, ConstantsDistinct DEF TypeOK, Location, Critical, Locking, Located,
       Indexed, RunAlive, UnregisterClient, Goto, gors
  <2>3. FanoutSets' /\ Pumped'
    BY <1>0, <1>5, ConstantsDistinct DEF TypeOK, Location, Critical, Locking, Located,
       FanoutSets, Registered, Pumped, UnregisterClient, Goto, gors
  <2> QED BY <2>1, <2>2, <2>3
<1>6. ASSUME NEW c \in Clients, Detach(c)
      PROVE  Rest'
  <2>1. Locking' /\ (\A d \in Clients : Located(d))'
    BY <1>0, <1>6, ConstantsDistinct DEF TypeOK, Location, Critical, Locking, Located,
       Detach, DetachTo, Goto
  <2>2. Indexed' /\ RunAlive'
    BY <1>0, <1>6, ConstantsDistinct DEF TypeOK, Location, Critical, Locking, Located,
       Indexed, RunAlive, Detach, DetachTo, Goto
  <2>3. FanoutSets' /\ Pumped'
    BY <1>0, <1>6, ConstantsDistinct DEF TypeOK, Location, Critical, Locking, Located,
       FanoutSets, Registered, Pumped, Detach, DetachTo, Goto
  <2> QED BY <2>1, <2>2, <2>3
<1>7. ASSUME NEW c \in Clients, Attach(c)
      PROVE  Rest'
  <2>1. Locking' /\ (\A d \in Clients : Located(d))'
    BY <1>0, <1>7, ConstantsDistinct DEF TypeOK, Location, Critical, Locking, Located,
       Attach, StartChannel, FreeHandles, Goto
  <2>2. Indexed' /\ RunAlive'
    BY <1>0, <1>7, ConstantsDistinct DEF TypeOK, Location, Critical, Locking, Located,
       Indexed, RunAlive, Attach, StartChannel, FreeHandles, Goto
  <2>3. FanoutSets' /\ Pumped'
    BY <1>0, <1>7, ConstantsDistinct DEF TypeOK, Location, Critical, Locking, Located,
       FanoutSets, Registered, Pumped, Attach, StartChannel, FreeHandles, Goto
  <2> QED BY <2>1, <2>2, <2>3
<1>8. ASSUME NEW c \in Clients, RegisterClient(c)
      PROVE  Rest'
  <2>1. Locking' /\ (\A d \in Clients : Located(d))'
    BY <1>0, <1>8, ConstantsDistinct DEF TypeOK, Location, Critical, Locking, Located,
       RegisterClient, Return, Goto, gors
  <2>2. Indexed' /\ RunAlive'
    BY <1>0, <1>8, ConstantsDistinct DEF TypeOK, Location, Critical, Locking, Located,
       Indexed, RunAlive, RegisterClient, Return, Goto, gors
  <2>3. FanoutSets' /\ Pumped'
    BY <1>0, <1>8, ConstantsDistinct DEF TypeOK, Location, Critical, Locking, Located,
       FanoutSets, Registered, Pumped, RegisterClient, Return, Goto, gors
  <2> QED BY <2>1, <2>2, <2>3
<1>9. ASSUME NEW c \in Clients, ResumePump(c)
      PROVE  Rest'
  <2>1. Locking' /\ (\A d \in Clients : Located(d))'
    BY <1>0, <1>9, ConstantsDistinct DEF TypeOK, Location, Critical, Locking, Located,
       ResumePump, Return, Goto, gors, index
  <2>2. Indexed' /\ RunAlive'
    BY <1>0, <1>9, ConstantsDistinct DEF TypeOK, Location, Critical, Locking, Located,
       Indexed, RunAlive, ResumePump, Return, Goto, gors, index
  <2>3. FanoutSets' /\ Pumped'
    BY <1>0, <1>9, ConstantsDistinct DEF TypeOK, Location, Critical, Locking, Located,
       FanoutSets, Registered, Pumped, ResumePump, Return, Goto, gors, index
  <2> QED BY <2>1, <2>2, <2>3
<1>10. ASSUME NEW c \in Clients, EmitMJPEGURL(c)
      PROVE  Rest'
  <2>1. Locking' /\ (\A d \in Clients : Located(d))'
    BY <1>0, <1>10, ConstantsDistinct DEF TypeOK, Location, Critical, Locking, Located,
       EmitMJPEGURL, Goto, gors, index
  <2>2. Indexed' /\ RunAlive'
    BY <1>0, <1>10, ConstantsDistinct DEF TypeOK, Location, Critical, Locking, Located,
       Indexed, RunAlive, EmitMJPEGURL, Goto, gors, index
  <2>3. FanoutSets' /\ Pumped'
    BY <1>0, <1>10, ConstantsDistinct DEF TypeOK, Location, Critical, Locking, Located,
       FanoutSets, Registered, Pumped, EmitMJPEGURL, Goto, gors, index
  <2> QED BY <2>1, <2>2, <2>3
<1>11. ASSUME NEW c \in Clients, Forget(c)
      PROVE  Rest'
  <2>1. Locking' /\ (\A d \in Clients : Located(d))'
    BY <1>0, <1>11, ConstantsDistinct DEF TypeOK, Location, Critical, Locking, Located,
       Forget, Return, Goto, gors
  <2>2. Indexed' /\ RunAlive'
    BY <1>0, <1>11, ConstantsDistinct DEF TypeOK, Location, Critical, Locking, Located,
       Indexed, RunAlive, Forget, Return, Goto, gors
  <2>3. FanoutSets' /\ Pumped'
    BY <1>0, <1>11, ConstantsDistinct DEF TypeOK, Location, Critical, Locking, Located,
       FanoutSets, Registered, Pumped, Forget, Return, Goto, gors
  <2> QED BY <2>1, <2>2, <2>3
<1>12. ASSUME NEW c \in Clients, RecordKeyEvent(c)
      PROVE  Rest'
  <2>1. Locking' /\ (\A d \in Clients : Located(d))'
    BY <1>0, <1>12, ConstantsDistinct DEF TypeOK, Location, Critical, Locking, Located,
       RecordKeyEvent, Goto, gors, index
  <2>2. Indexed' /\ RunAlive'
    BY <1>0, <1>12, ConstantsDistinct DEF TypeOK, Location, Critical, Locking, Located,
       Indexed, RunAlive, RecordKeyEvent, Goto, gors, index
  <2>3. FanoutSets' /\ Pumped'
    BY <1>0, <1>12, ConstantsDistinct DEF TypeOK, Location, Critical, Locking, Located,
       FanoutSets, Registered, Pumped, RecordKeyEvent, Goto, gors, index
  <2> QED BY <2>1, <2>2, <2>3
<1>13. ASSUME NEW c \in Clients, NEW h \in Handles, SendKeyEdge(c, h)
      PROVE  Rest'
  <2>1. Locking' /\ (\A d \in Clients : Located(d))'
    BY <1>0, <1>13, ConstantsDistinct DEF TypeOK, Location, Critical, Locking, Located,
       SendKeyEdge, Goto, gors, index
  <2>2. Indexed' /\ RunAlive'
    BY <1>0, <1>13, ConstantsDistinct DEF TypeOK, Location, Critical, Locking, Located,
       Indexed, RunAlive, SendKeyEdge, Goto, gors, index
  <2>3. FanoutSets' /\ Pumped'
    BY <1>0, <1>13, ConstantsDistinct DEF TypeOK, Location, Critical, Locking, Located,
       FanoutSets, Registered, Pumped, SendKeyEdge, Goto, gors, index
  <2> QED BY <2>1, <2>2, <2>3
<1>14. ASSUME NEW ch \in Channels, NEW h \in Handles,
              RunExit(ch, h) \/ NotifyBegin(ch, h) \/ NotifyEnd(ch, h) \/ SuperviseExit(ch, h)
      PROVE  Rest'
  <2>1. Locking' /\ (\A d \in Clients : Located(d))'
    BY <1>0, <1>14, ConstantsDistinct DEF TypeOK, Location, Critical, Locking, Located,
       RunExit, NotifyBegin, NotifyEnd, SuperviseExit, Cancelled, locks, index
  <2>2. Indexed' /\ RunAlive'
    BY <1>0, <1>14, ConstantsDistinct DEF TypeOK, Location, Critical, Locking, Located,
       Indexed, RunAlive, RunExit, NotifyBegin, NotifyEnd, SuperviseExit, Cancelled, locks, index
  <2>3. FanoutSets' /\ Pumped'
    BY <1>0, <1>14, ConstantsDistinct DEF TypeOK, Location, Critical, Locking, Located,
       FanoutSets, Registered, Pumped, RunExit, NotifyBegin, NotifyEnd,
       SuperviseExit, Cancelled, locks, index
  <2> QED BY <2>1, <2>2, <2>3
<1>15. CASE UNCHANGED vars
  BY <1>0, <1>15 DEF vars, locks, index, gors, Locking, Located, Indexed, FanoutSets,
     Registered, RunAlive, Pumped
<1> QED
  BY <1>0, <1>1, <1>2, <1>3, <1>4, <1>5, <1>6, <1>7, <1>8, <1>9, <1>10, <1>11, <1>12,
     <1>13, <1>14, <1>15 DEF Next, ClientStep, Proceed

\* Every state of Application satisfies the inductive invariant.
THEOREM Invariance == Spec => []IndInv
<1>1. Init => IndInv
  BY InitInd
<1>2. IndInv /\ [Next]_vars => IndInv'
  BY StepInd
<1> QED
  BY <1>1, <1>2, PTL DEF Spec

\* Every variable keeps its type.
THEOREM TypeSafety == Spec => []TypeOK
BY Invariance, PTL DEF IndInv

\* A Run goroutine, and with video a supervisor, that nobody cancelled is there
\* for every Channel that somebody is attached to, and for no other.
THEOREM RefCounting == Spec => []RefCounted
<1>1. IndInv => RefCounted
  <2> SUFFICES ASSUME IndInv, NEW ch \in Channels,
                      NEW attached, attached = {c \in Clients : clientChan[c] = ch}
               PROVE  /\ channelClients[ch] = attached
                      /\ Uncancelled(drainers, ch) # {} <=> attached # {}
                      /\ ch \in VideoChannels =>
                            (Uncancelled(videos, ch) # {} <=> attached # {})
      BY DEF RefCounted
  <2>1. channelClients[ch] = attached /\ (running[ch] # NoHandle <=> attached # {})
    BY DEF IndInv, Indexed
  <2>2. Uncancelled(drainers, ch) # {} <=> running[ch] # NoHandle
    BY ConstantsDistinct DEF IndInv, TypeOK, RunAlive, Uncancelled, Cancelled
  <2>3. ch \in VideoChannels => (Uncancelled(videos, ch) # {} <=> running[ch] # NoHandle)
    BY ConstantsDistinct DEF IndInv, TypeOK, RunAlive, Uncancelled, Cancelled
  <2> QED BY <2>1, <2>2, <2>3
<1> QED BY <1>1, Invariance, PTL

\* Frames and notifications of a Channel reach only Clients whose keys go to
\* it, and between operations every attached Client.
THEOREM FanoutSound == Spec => [](FanoutConfined /\ FanoutComplete)
<1>1. IndInv => FanoutConfined
  <2> SUFFICES ASSUME IndInv, NEW ch \in Channels, NEW c \in members[ch]
               PROVE  clientChan[c] = ch /\ running[ch] # NoHandle
      BY DEF FanoutConfined
  <2>1. c \in Clients /\ clientChan[c] = ch
    BY DEF IndInv, TypeOK, FanoutSets
  <2>2. channelClients[ch] # {}
    BY <2>1 DEF IndInv, Indexed
  <2> QED
    BY <2>1, <2>2 DEF IndInv, Indexed
<1>2. IndInv => FanoutComplete
  <2> SUFFICES ASSUME IndInv, mu = NoOne, NEW c \in Clients, clientChan[c] \in Channels
               PROVE  c \in members[clientChan[c]]
      BY DEF FanoutComplete
  <2>1. pc[c] \notin Critical
    BY ConstantsDistinct DEF IndInv, Locking
  <2> QED
    BY <2>1 DEF IndInv, FanoutSets, Registered, Critical
<1>3. IndInv => FanoutConfined /\ FanoutComplete
  BY <1>1, <1>2
<1> QED
  BY Invariance, <1>3, PTL

\* Between operations the fan-out set of a Channel is complete (attachLocked and
\* detachLocked never leave one without the Client).
THEOREM FanoutCompletes == Spec => []FanoutComplete
BY FanoutSound, PTL

\* A sender's Channel is not stale when the edge is handed over, and a Run
\* goroutine that nobody cancelled is there to take it.
THEOREM SendersServed == Spec => []SenderServed
<1>1. IndInv => SenderServed
  BY DEF IndInv, SenderServed, Located, Indexed, RunAlive, TypeOK
<1> QED
  BY Invariance, <1>1, PTL

\* Between operations the no-channel pump feeds exactly the unattached Clients.
THEOREM PumpsMatch == Spec => []PumpIffUnattached
<1>1. IndInv => PumpIffUnattached
  BY ConstantsDistinct DEF IndInv, PumpIffUnattached, Pumped, Locking, Critical, TypeOK
<1> QED
  BY Invariance, <1>1, PTL

\* No step stops or restarts a Channel's goroutines under a Client that stays.
THEOREM WatchersKeepTheChannel == Spec => NeverStoppedUnderWatcher
<1> DEFINE Kept == \A ch \in Channels :
          running'[ch] # running[ch] =>
              ~\E c \in Clients : clientChan[c] = ch /\ clientChan'[c] = ch
<1>1. IndInv /\ IndInv' /\ [Next]_vars => [Kept]_vars
  <2> SUFFICES ASSUME IndInv, IndInv', [Next]_vars PROVE Kept
      OBVIOUS
  <2> USE DEF Kept
  <2>1. CASE running' = running
    BY <2>1
  <2>2. ASSUME NEW c \in Clients, Detach(c) PROVE Kept
    BY <2>2 DEF Detach, DetachTo, IndInv, TypeOK, Indexed
  <2>3. ASSUME NEW c \in Clients, Attach(c) PROVE Kept
    BY <2>3 DEF Attach, StartChannel, FreeHandles, IndInv, TypeOK, Indexed, Located
  <2>4. running' = running \/ \E c \in Clients : Detach(c) \/ Attach(c)
    BY DEF Next, ClientStep, Proceed, AddClient, SwitchChannel, RemoveClient, LockChannel,
       UnregisterClient, RegisterClient, ResumePump, EmitMJPEGURL, Forget, RecordKeyEvent,
       SendKeyEdge, RunExit, NotifyBegin, NotifyEnd, SuperviseExit, gors, vars
  <2> QED
    BY <2>1, <2>2, <2>3, <2>4
<1> QED
  BY Invariance, <1>1, PTL DEF Spec, NeverStoppedUnderWatcher

-----------------------------------------------------------------------------
LEMMA InitRefines == Init => Registry!Init
BY DEF Init, Registry!Init, AttBar, Moved

LEMMA StepRefines == IndInv /\ [Next]_vars => [Registry!Next]_Registry!vars
<1> SUFFICES ASSUME IndInv, [Next]_vars PROVE [Registry!Next]_Registry!vars
    OBVIOUS
<1> USE ConstantsDistinct DEF IndInv, TypeOK, Moved, AttBar, Registry!Next, Registry!vars
<1>1. ASSUME NEW c \in Clients, AddClient(c) PROVE Registry!Connect(c)
  BY <1>1 DEF AddClient, Goto, gors, Located, Registry!Connect
<1>2. ASSUME NEW c \in Clients, NEW t \in Channels \cup {Nil}, SwitchChannel(c, t)
      PROVE Registry!Switch(c, t) \/ UNCHANGED Registry!vars
  BY <1>2 DEF SwitchChannel, Goto, gors, index, Located, Registry!Switch
<1>3. ASSUME NEW c \in Clients, RemoveClient(c)
      PROVE Registry!Disconnect(c) \/ UNCHANGED Registry!vars
  BY <1>3 DEF RemoveClient, Goto, gors, index, Located, Registry!Disconnect
<1>4. ASSUME NEW c \in Clients, Detach(c)
      PROVE Registry!Disconnect(c) \/ \E t \in Channels \cup {Nil} : Registry!Switch(c, t)
  <2>1. AttBar' = [AttBar EXCEPT ![c] = req[c]]
    BY <1>4 DEF Detach, DetachTo, Goto, Located
  <2>2. AttBar[c] # Absent /\ UNCHANGED keyedTo
    BY <1>4 DEF Detach, DetachTo, Located
  <2>3. CASE req[c] = Absent
    BY <2>1, <2>2, <2>3 DEF Registry!Disconnect
  <2>4. CASE req[c] # Absent
    BY <2>1, <2>2, <2>4 DEF Registry!Switch
  <2> QED
    BY <2>3, <2>4
<1>5. ASSUME NEW c \in Clients,
             LockChannel(c) \/ UnregisterClient(c) \/ Attach(c) \/ RegisterClient(c)
             \/ ResumePump(c) \/ EmitMJPEGURL(c) \/ Forget(c) \/ RecordKeyEvent(c)
      PROVE UNCHANGED Registry!vars
  BY <1>5 DEF LockChannel, UnregisterClient, Attach, RegisterClient, ResumePump,
     EmitMJPEGURL, Forget, RecordKeyEvent, Return, Goto, gors, index, Located
<1>6. ASSUME NEW c \in Clients, NEW h \in Handles, SendKeyEdge(c, h)
      PROVE Registry!Key(c)
  BY <1>6 DEF SendKeyEdge, Goto, gors, index, Located, Registry!Key
<1>7. ASSUME NEW ch \in Channels, NEW h \in Handles,
             RunExit(ch, h) \/ NotifyBegin(ch, h) \/ NotifyEnd(ch, h) \/ SuperviseExit(ch, h)
      PROVE UNCHANGED Registry!vars
  BY <1>7 DEF RunExit, NotifyBegin, NotifyEnd, SuperviseExit, locks, index
<1>8. CASE UNCHANGED vars
  BY <1>8 DEF vars, locks, index, gors
<1> QED
  BY <1>1, <1>2, <1>3, <1>4, <1>5, <1>6, <1>7, <1>8 DEF Next, ClientStep, Proceed

\* The lock-level Application implements the atomic registry.
THEOREM Refinement == Spec => ImplementsRegistry
<1>1. Spec => Registry!Init /\ [][Registry!Next]_Registry!vars
  BY Invariance, InitRefines, StepRefines, PTL DEF Spec
<1> QED
  BY <1>1 DEF ImplementsRegistry, Registry!Spec
=============================================================================
