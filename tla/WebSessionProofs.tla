-------------------------- MODULE WebSessionProofs --------------------------
(***************************************************************************)
(* The page and its sessions, for every set of Channels and any number of  *)
(* failures and acts: a key reaches the Channel its operator saw or none,  *)
(* at most once, the keys of one connection in order.                      *)
(***************************************************************************)
EXTENDS WebSession, SequenceTheorems, TLAPS

\* Which sessions there are, and what phase and handler say of them.
Started ==
    /\ \A s \in Sessions : token[s] = "none" =>
          sess[s] = "none" /\ up[s] = << >> /\ att[s] = Absent
    /\ cur = None <=> phase \in {"fetch", "timer"}
    /\ cur # None => token[cur] # "none"
    /\ phase = "opening" => up[cur] = << >> /\ att[cur] \in {NoChannel, Absent}
    /\ \A s \in Sessions : sess[s] \in {"registered", "loop"} => att[s] # Absent

\* Each message carries the entry the selector shows after it.  A key of a
\* sequence without gaps shows what the message before it left there,
Steady(q) == \A i \in 2..Len(q) : q[i].id # 0 => q[i].ch = q[i - 1].ch

\* the last message what the selector shows now,
EndsAt(q, e) == q # << >> => q[Len(q)].ch = e

\* and the first, if it is a key, where the session is attached, if it is.
Leads(a, q) == q # << >> /\ q[1].id # 0 => a \in {q[1].ch, NoChannel, Absent}

\* What is on its way has no gaps, from the Application to the selector.
Following ==
    /\ \A s \in Sessions : Steady(up[s]) /\ Leads(att[s], up[s])
    /\ Steady(queue) /\ EndsAt(queue, selector)
    /\ phase = "open" => queue = << >>
    /\ phase = "open" /\ cur \notin broken =>
          /\ EndsAt(up[cur], selector)
          /\ up[cur] = << >> => att[cur] \in {selector, NoChannel, Absent}

\* The keys of a sequence of messages, and that they are in order.
Keys(q) == {q[i].id : i \in DOMAIN q} \ {0}
Rising(q) == \A i, j \in DOMAIN q : i < j /\ q[i].id # 0 /\ q[j].id # 0 => q[i].id < q[j].id

\* A key is in one place: queued, on its way in one session, or taken.
Numbered ==
    /\ Rising(queue) /\ Keys(queue) \subseteq 1..acts
    /\ Keys(taken) \subseteq 1..acts
    /\ \A k \in Keys(taken), l \in Keys(queue) : k < l
    /\ \A s \in Sessions :
          /\ Rising(up[s]) /\ Keys(up[s]) \subseteq 1..acts
          /\ \A k \in Keys(up[s]), l \in Keys(queue) : k < l
          /\ \A t \in Sessions \ {s} : Keys(up[s]) \cap Keys(up[t]) = {}
          /\ Keys(up[s]) \cap Keys(taken) = {}
          /\ \A k \in Keys(up[s]), i \in DOMAIN taken : taken[i].by = s => taken[i].id < k

SessionInv ==
    /\ SessionTypeOK /\ Started /\ Following /\ Numbered
    /\ KeysFollowSelector /\ KeysOnceInOrder

-----------------------------------------------------------------------------
(* Sequences of messages.                                                  *)

\* A key that shows what the last message showed, or any switch, leaves no gap.
LEMMA SteadyAppend ==
    ASSUME NEW q \in Seq(Message), NEW m \in Message, NEW e,
           Steady(q), EndsAt(q, e), m.id # 0 => m.ch = e
    PROVE  Steady(Append(q, m)) /\ EndsAt(Append(q, m), m.ch)
<1>1. /\ Append(q, m) \in Seq(Message) /\ Len(Append(q, m)) = Len(q) + 1 /\ Len(q) \in Nat
      /\ \A i \in 1..Len(q) : Append(q, m)[i] = q[i]
      /\ Append(q, m)[Len(q) + 1] = m
    BY AppendProperties, LenProperties
<1>2. q # << >> <=> Len(q) # 0
    BY EmptySeq
<1>3. Steady(Append(q, m))
    BY <1>1, <1>2 DEF Steady, EndsAt
<1> QED BY <1>1, <1>3 DEF EndsAt

\* When the first message has been handled, the session is attached where that
\* message showed or nowhere, and what follows still has no gap.
LEMMA SteadyTail ==
    ASSUME NEW q \in Seq(Message), q # << >>, Steady(q)
    PROVE  /\ Tail(q) \in Seq(Message) /\ Steady(Tail(q))
           /\ Leads(Head(q).ch, Tail(q)) /\ Leads(NoChannel, Tail(q))
           /\ \A e : EndsAt(q, e) => /\ EndsAt(Tail(q), e)
                                     /\ Tail(q) = << >> => Head(q).ch = e
<1>1. /\ Tail(q) \in Seq(Message) /\ Len(Tail(q)) = Len(q) - 1 /\ Len(q) \in Nat \ {0}
      /\ \A i \in 1..Len(q) - 1 : Tail(q)[i] = q[i + 1]
      /\ Head(q) = q[1]
    BY HeadTailProperties, EmptySeq
<1>2. Tail(q) # << >> <=> Len(q) # 1
  <2>1. Tail(q) # << >> => Len(Tail(q)) # 0
    BY <1>1, EmptySeq
  <2>2. Tail(q) = << >> => Len(Tail(q)) = 0
    BY EmptySeq
  <2> QED BY <1>1, <2>1, <2>2
<1>3. Steady(Tail(q))
    BY <1>1 DEF Steady
<1>4. Leads(Head(q).ch, Tail(q)) /\ Leads(NoChannel, Tail(q))
    BY <1>1, <1>2 DEF Steady, Leads
<1>5. ASSUME NEW e, EndsAt(q, e)
      PROVE  EndsAt(Tail(q), e) /\ (Tail(q) = << >> => Head(q).ch = e)
    BY <1>1, <1>2, <1>5 DEF EndsAt
<1> QED BY <1>1, <1>3, <1>4, <1>5

LEMMA NothingSteady ==
    Steady(<< >>) /\ Rising(<< >>) /\ Keys(<< >>) = {}
        /\ (\A e : EndsAt(<< >>, e)) /\ (\A a : Leads(a, << >>))
BY DEF Steady, Rising, Keys, EndsAt, Leads

\* A message that is not yet typed, or a switch, is appended.
LEMMA KeysAppend ==
    ASSUME NEW q \in Seq(Message), NEW m \in Message,
           Rising(q), \A k \in Keys(q) : m.id # 0 => k < m.id
    PROVE  /\ Append(q, m) \in Seq(Message)
           /\ Rising(Append(q, m))
           /\ Keys(Append(q, m)) = Keys(q) \cup ({m.id} \ {0})
<1>1. /\ Append(q, m) \in Seq(Message)
      /\ DOMAIN Append(q, m) = 1..Len(q) + 1 /\ DOMAIN q = 1..Len(q) /\ Len(q) \in Nat
      /\ \A i \in 1..Len(q) : Append(q, m)[i] = q[i]
      /\ Append(q, m)[Len(q) + 1] = m
    BY AppendProperties, LenProperties
<1>2. \A i \in 1..Len(q) : q[i].id # 0 => q[i].id \in Keys(q)
    BY <1>1 DEF Keys
<1>3. Rising(Append(q, m))
    BY <1>1, <1>2 DEF Rising
<1>4. Keys(Append(q, m)) = Keys(q) \cup ({m.id} \ {0})
    BY <1>1 DEF Keys
<1> QED BY <1>1, <1>3, <1>4

\* The first message is taken away.
LEMMA KeysTail ==
    ASSUME NEW q \in Seq(Message), q # << >>, Rising(q)
    PROVE  /\ Head(q) \in Message /\ Tail(q) \in Seq(Message)
           /\ Rising(Tail(q))
           /\ Keys(Tail(q)) \subseteq Keys(q)
           /\ Head(q).id # 0 => /\ Head(q).id \in Keys(q)
                                /\ \A k \in Keys(Tail(q)) : Head(q).id < k
<1>1. /\ Head(q) \in Message /\ Tail(q) \in Seq(Message) /\ Head(q) = q[1]
      /\ DOMAIN Tail(q) = 1..Len(q) - 1 /\ DOMAIN q = 1..Len(q) /\ Len(q) \in Nat \ {0}
      /\ \A i \in 1..Len(q) - 1 : Tail(q)[i] = q[i + 1]
    BY HeadTailProperties, LenProperties, EmptySeq
<1>2. Rising(Tail(q))
    BY <1>1 DEF Rising
<1>3. Keys(Tail(q)) \subseteq Keys(q)
    BY <1>1 DEF Keys
<1>4. ASSUME Head(q).id # 0 PROVE Head(q).id \in Keys(q)
    BY <1>1, <1>4 DEF Keys
<1>5. ASSUME Head(q).id # 0, NEW k \in Keys(Tail(q)) PROVE Head(q).id < k
  <2>1. PICK i \in 1..Len(q) - 1 : k = q[i + 1].id /\ k # 0
    BY <1>1, <1>5 DEF Keys
  <2> QED BY <1>1, <1>5, <2>1 DEF Rising
<1> QED BY <1>1, <1>2, <1>3, <1>4, <1>5

-----------------------------------------------------------------------------
(* Types, and what phase and handler say.                                  *)

Taken == [id : 1..MaxActs, shown : Channels \cup {NoChannel}, to : Channels, by : Sessions]

LEMMA SessionInitInv == SessionInit => SessionInv
<1> SUFFICES ASSUME SessionInit PROVE SessionInv
    OBVIOUS
<1> USE SessionConstants, NothingSteady, EmptySeq DEF SessionInit, App!Init
<1>1. SessionTypeOK
    BY DEF SessionTypeOK, SessPC, Sessions, None
<1>2. Started
    BY DEF Started, None
<1>3. Following /\ Numbered
    BY DEF Following, Numbered
<1>4. KeysFollowSelector /\ KeysOnceInOrder
    BY DEF KeysFollowSelector, KeysOnceInOrder
<1> QED BY <1>1, <1>2, <1>3, <1>4 DEF SessionInv

\* The page sends or queues a message.
LEMMA SendTypes ==
    ASSUME SessionTypeOK, NEW m \in Message, Send(m)
    PROVE  queue' \in Seq(Message) /\ up' \in [Sessions -> Seq(Message)]
<1> USE DEF SessionTypeOK
<1>1. CASE phase = "open"
  <2>1. cur \in Sessions => Append(up[cur], m) \in Seq(Message)
    BY AppendProperties
  <2> QED BY <1>1, <2>1 DEF Send, None
<1>2. CASE phase # "open"
  <2>1. Append(queue, m) \in Seq(Message)
    BY AppendProperties
  <2> QED BY <1>2, <2>1 DEF Send
<1> QED BY <1>1, <1>2

LEMMA PageTypes == SessionTypeOK /\ Started /\ (PageStep \/ Operator) => SessionTypeOK' /\ Started'
<1> SUFFICES ASSUME SessionTypeOK, Started, PageStep \/ Operator PROVE SessionTypeOK' /\ Started'
    OBVIOUS
<1> USE SessionConstants DEF SessionTypeOK, Started, SessPC, page, server, wire, None
<1>1. ASSUME NEW s \in Sessions, FetchOk(s) PROVE SessionTypeOK' /\ Started'
    BY <1>1 DEF FetchOk, Sessions
<1>2. CASE ReconnectTimer \/ Notice \/ Close
    BY <1>2 DEF ReconnectTimer, Notice, Close
<1>3. CASE Open
  <2>1. cur \in Sessions /\ up[cur] \o queue \in Seq(Message)
    BY <1>3, ConcatProperties DEF Open
  <2> QED BY <1>3, <2>1 DEF Open
<1>4. CASE Type
  <2>1. [id |-> acts + 1, ch |-> selector] \in Message /\ acts + 1 \in 0..MaxActs
    BY <1>4 DEF Type, Message
  <2>2. queue' \in Seq(Message) /\ up' \in [Sessions -> Seq(Message)]
    BY <1>4, <2>1, SendTypes DEF Type
  <2>3. SessionTypeOK'
    BY <1>4, <2>1, <2>2 DEF Type
  <2>4. Started'
    BY <1>4 DEF Type, Send
  <2> QED BY <2>3, <2>4
<1>5. ASSUME NEW e \in Channels \cup {NoChannel}, Choose(e) PROVE SessionTypeOK' /\ Started'
  <2>1. Switch(e) \in Message /\ acts + 1 \in 0..MaxActs
    BY <1>5 DEF Choose, Switch, Message
  <2>2. queue' \in Seq(Message) /\ up' \in [Sessions -> Seq(Message)]
    BY <1>5, <2>1, SendTypes DEF Choose
  <2>3. SessionTypeOK'
    BY <1>5, <2>1, <2>2 DEF Choose
  <2>4. Started'
    BY <1>5 DEF Choose, Send
  <2> QED BY <2>3, <2>4
<1> QED BY <1>1, <1>2, <1>3, <1>4, <1>5 DEF PageStep, Operator

LEMMA HandlerTypes ==
    ASSUME SessionTypeOK, Started, NEW s \in Sessions, SessionStep(s)
    PROVE  SessionTypeOK' /\ Started'
<1> USE SessionConstants DEF SessionTypeOK, Started, SessPC, page, server, wire, None, GoSess, Written
<1>1. CASE HandleWS(s)
    BY <1>1 DEF HandleWS
<1>2. CASE Register(s)
    BY <1>2 DEF Register, App!Connect
<1>3. CASE PushURL(s)
    BY <1>3 DEF PushURL
<1>4. CASE HandleSwitch(s)
  <2>1. Head(up[s]) \in Message /\ Tail(up[s]) \in Seq(Message)
    BY <1>4, HeadTailProperties DEF HandleSwitch
  <2>2. Head(up[s]).ch \in Channels \cup {NoChannel}
    BY <2>1 DEF Message
  <2>3. SessionTypeOK'
    BY <1>4, <2>1, <2>2 DEF HandleSwitch, App!Switch
  <2>4. Started'
    BY <1>4, <2>2 DEF HandleSwitch, App!Switch
  <2> QED BY <2>3, <2>4
<1>5. CASE HandleKey(s)
  <2>1. Head(up[s]) \in Message /\ Tail(up[s]) \in Seq(Message)
    BY <1>5, HeadTailProperties DEF HandleKey
  <2>2. taken' \in Seq(Taken) /\ att' = att /\ keyedTo' \in [Sessions -> Channels \cup {NoChannel}]
    <3>1. CASE att[s] = NoChannel
        BY <1>5, <3>1 DEF HandleKey, Taken
    <3>2. CASE att[s] # NoChannel
      <4> DEFINE k == [id |-> Head(up[s]).id, shown |-> Head(up[s]).ch, to |-> att[s], by |-> s]
      <4>1. k \in Taken /\ att' = att /\ keyedTo' = [keyedTo EXCEPT ![s] = att[s]] /\ att[s] \in Channels
        BY <1>5, <2>1, <3>2 DEF HandleKey, App!Key, Taken, Message
      <4>2. taken' = Append(taken, k)
        BY <1>5, <3>2 DEF HandleKey
      <4> HIDE DEF k
      <4>3. taken' \in Seq(Taken)
        BY <4>1, <4>2, AppendProperties DEF Taken
      <4> QED BY <4>1, <4>3
    <3> QED BY <3>1, <3>2
  <2>3. SessionTypeOK'
    BY <1>5, <2>1, <2>2 DEF HandleKey, Taken
  <2>4. Started'
    BY <1>5, <2>2 DEF HandleKey
  <2> QED BY <2>3, <2>4
<1>6. CASE ReadFails(s)
    BY <1>6, EmptySeq DEF ReadFails
<1>7. CASE Release(s)
    BY <1>7 DEF Release
<1>8. CASE RemoveSession(s)
    BY <1>8 DEF RemoveSession, App!Disconnect
<1>9. CASE CloseSession(s)
    BY <1>9, EmptySeq DEF CloseSession
<1> QED BY <1>1, <1>2, <1>3, <1>4, <1>5, <1>6, <1>7, <1>8, <1>9 DEF SessionStep

LEMMA FailureTypes == SessionTypeOK /\ Started /\ Failure => SessionTypeOK' /\ Started'
<1> SUFFICES ASSUME SessionTypeOK, Started, Failure PROVE SessionTypeOK' /\ Started'
    OBVIOUS
<1> USE SessionConstants DEF SessionTypeOK, Started, SessPC, page, server, wire, None
<1>1. CASE FetchFails
    BY <1>1 DEF FetchFails
<1>2. CASE ServerRestarts
    BY <1>2, EmptySeq DEF ServerRestarts
<1>3. ASSUME NEW s \in Sessions, TokenExpires(s) PROVE SessionTypeOK' /\ Started'
    BY <1>3 DEF TokenExpires
<1>4. ASSUME NEW s \in Sessions, Break(s) PROVE SessionTypeOK' /\ Started'
    BY <1>4 DEF Break
<1>5. ASSUME NEW s \in Sessions, AcceptFails(s) PROVE SessionTypeOK' /\ Started'
    BY <1>5 DEF AcceptFails, GoSess
<1>6. ASSUME NEW s \in Sessions, RegisterFails(s) PROVE SessionTypeOK' /\ Started'
    BY <1>6 DEF RegisterFails, GoSess
<1> QED BY <1>1, <1>2, <1>3, <1>4, <1>5, <1>6 DEF Failure

-----------------------------------------------------------------------------
(* What is on its way follows the selector.                                *)

LEMMA PageFollows ==
    SessionTypeOK /\ Started /\ Following /\ (PageStep \/ Operator) => Following'
<1> SUFFICES ASSUME SessionTypeOK, Started, Following, PageStep \/ Operator PROVE Following'
    OBVIOUS
<1> USE DEF Following, wire
<1>1. ASSUME NEW s \in Sessions, FetchOk(s) PROVE Following'
    BY <1>1 DEF FetchOk
<1>2. CASE ReconnectTimer \/ Notice \/ Close
    BY <1>2 DEF ReconnectTimer, Notice, Close, server
<1>3. CASE Open
  <2>1. cur \in Sessions /\ up[cur] = << >> /\ up[cur] \o queue = queue
    BY <1>3, ConcatEmptySeq DEF Open, Started, SessionTypeOK
  <2>2. up' = [up EXCEPT ![cur] = queue] /\ queue' = << >>
    BY <1>3, <2>1 DEF Open
  <2>3. UNCHANGED <<cur, selector, att, broken>> /\ att[cur] \in {NoChannel, Absent}
    BY <1>3 DEF Open, server, Started
  <2>4. Leads(att[cur], queue)
    BY <2>3 DEF Leads
  <2> QED BY <2>1, <2>2, <2>3, <2>4, NothingSteady DEF SessionTypeOK
<1>4. ASSUME NEW m \in Message, NEW e, Send(m), m.ch = e, m.id # 0 => e = selector,
             selector' = e, UNCHANGED <<phase, cur, att, broken>>
      PROVE  Following'
  <2>1. CASE phase # "open"
    <3>1. queue' = Append(queue, m) /\ up' = up
        BY <1>4, <2>1 DEF Send
    <3>2. Steady(queue') /\ EndsAt(queue', selector')
        BY <1>4, <3>1, SteadyAppend DEF SessionTypeOK
    <3> QED BY <1>4, <2>1, <3>1, <3>2
  <2>2. CASE phase = "open" /\ cur \in broken
    <3>1. UNCHANGED <<queue, up>> /\ queue = << >>
        BY <1>4, <2>2 DEF Send
    <3> QED BY <1>4, <2>2, <3>1, NothingSteady
  <2>3. CASE phase = "open" /\ cur \notin broken
    <3>1. /\ up' = [up EXCEPT ![cur] = Append(@, m)] /\ queue' = queue /\ queue = << >>
          /\ cur \in Sessions /\ up[cur] \in Seq(Message)
        BY <1>4, <2>3 DEF Send, Started, SessionTypeOK
    <3>2. Steady(Append(up[cur], m)) /\ EndsAt(Append(up[cur], m), e)
        BY <1>4, <2>3, <3>1, SteadyAppend
    <3>3. Leads(att[cur], Append(up[cur], m)) /\ Append(up[cur], m) # << >>
      <4>1. CASE up[cur] = << >>
        <5>1. Append(up[cur], m)[1] = m
            BY <4>1
        <5> QED BY <1>4, <2>3, <3>1, <4>1, <5>1, AppendProperties DEF Leads
      <4>2. CASE up[cur] # << >>
        <5>1. Append(up[cur], m)[1] = up[cur][1] /\ Append(up[cur], m) # << >>
            BY <3>1, <4>2, AppendProperties, EmptySeq
        <5> QED BY <3>1, <4>2, <5>1 DEF Leads
      <4> QED BY <4>1, <4>2
    <3>4. up'[cur] = Append(up[cur], m) /\ \A s \in Sessions \ {cur} : up'[s] = up[s]
        BY <3>1 DEF SessionTypeOK
    <3> QED BY <1>4, <2>3, <3>1, <3>2, <3>3, <3>4, NothingSteady
  <2> QED BY <2>1, <2>2, <2>3
<1>5. CASE Type
  <2>1. [id |-> acts + 1, ch |-> selector] \in Message /\ acts' = acts + 1
    BY <1>5, SessionConstants DEF Type, Message, SessionTypeOK
  <2> QED BY <1>4, <1>5, <2>1 DEF Type, server
<1>6. ASSUME NEW e \in Channels \cup {NoChannel}, Choose(e) PROVE Following'
  <2>1. Switch(e) \in Message /\ Switch(e).ch = e /\ Switch(e).id = 0
    BY SessionConstants DEF Message, Switch
  <2> QED BY <1>4, <1>6, <2>1 DEF Choose, server
<1> QED BY <1>1, <1>2, <1>3, <1>5, <1>6 DEF PageStep, Operator

LEMMA HandlerFollows ==
    ASSUME SessionTypeOK, Started, Following, NEW s \in Sessions, SessionStep(s)
    PROVE  Following'
<1> USE DEF Following, wire, page
<1>1. CASE HandleWS(s) \/ PushURL(s) \/ Release(s)
    BY <1>1 DEF HandleWS, PushURL, Release
<1>2. CASE Register(s)
  <2>1. att' = [att EXCEPT ![s] = NoChannel] /\ UNCHANGED <<page, wire>>
    BY <1>2 DEF Register, App!Connect
  <2> QED BY <2>1 DEF SessionTypeOK, Leads
<1>3. CASE RemoveSession(s)
  <2>1. att' = [att EXCEPT ![s] = Absent] /\ UNCHANGED <<page, wire>>
    BY <1>3 DEF RemoveSession, App!Disconnect
  <2> QED BY <2>1 DEF SessionTypeOK, Leads
<1>4. ASSUME UNCHANGED <<page, broken>>, up[s] # << >>,
             up' = [up EXCEPT ![s] = Tail(@)],
             att'[s] \in {Head(up[s]).ch, NoChannel},
             \A t \in Sessions \ {s} : att'[t] = att[t]
      PROVE  Following'
  <2>1. up[s] \in Seq(Message) /\ Steady(up[s])
    BY DEF SessionTypeOK
  <2>2. /\ up'[s] = Tail(up[s])
        /\ \A t \in Sessions \ {s} : up'[t] = up[t]
    BY <1>4 DEF SessionTypeOK
  <2>3. /\ Steady(Tail(up[s]))
        /\ Leads(Head(up[s]).ch, Tail(up[s])) /\ Leads(NoChannel, Tail(up[s]))
        /\ \A e : EndsAt(up[s], e) => /\ EndsAt(Tail(up[s]), e)
                                      /\ Tail(up[s]) = << >> => Head(up[s]).ch = e
    BY <1>4, <2>1, SteadyTail
  <2>4. phase = "open" => cur \in Sessions
    BY DEF Started, SessionTypeOK
  <2> QED BY <1>4, <2>2, <2>3, <2>4
<1>5. CASE HandleSwitch(s)
    BY <1>4, <1>5 DEF HandleSwitch, App!Switch, SessionTypeOK
<1>6. CASE HandleKey(s)
  <2>1. Head(up[s]) = up[s][1] /\ att' = att /\ att[s] # Absent
    BY <1>6 DEF HandleKey, App!Key, Started
  <2>2. att[s] \in {Head(up[s]).ch, NoChannel}
    BY <1>6, <2>1 DEF HandleKey, Leads
  <2> QED BY <1>4, <1>6, <2>1, <2>2 DEF HandleKey
<1>7. CASE ReadFails(s)
    BY <1>7, NothingSteady DEF ReadFails, SessionTypeOK
<1>8. CASE CloseSession(s)
    BY <1>8, NothingSteady DEF CloseSession, SessionTypeOK
<1> QED BY <1>1, <1>2, <1>3, <1>5, <1>6, <1>7, <1>8 DEF SessionStep

LEMMA FailureFollows == SessionTypeOK /\ Started /\ Following /\ Failure => Following'
<1> SUFFICES ASSUME SessionTypeOK, Started, Following, Failure PROVE Following'
    OBVIOUS
<1> USE DEF Following, wire, page, server
<1>1. CASE FetchFails
    BY <1>1 DEF FetchFails
<1>2. CASE ServerRestarts
  <2>1. \A s \in Sessions : up'[s] = << >> /\ att'[s] = Absent
    BY <1>2 DEF ServerRestarts
  <2>2. UNCHANGED page /\ (phase = "open" => cur \in Sessions)
    BY <1>2 DEF ServerRestarts, Started, SessionTypeOK
  <2> QED BY <2>1, <2>2, NothingSteady
<1>3. ASSUME NEW s \in Sessions,
             TokenExpires(s) \/ AcceptFails(s) \/ RegisterFails(s) \/ Break(s)
      PROVE  Following'
    BY <1>3 DEF TokenExpires, AcceptFails, RegisterFails, Break
<1> QED BY <1>1, <1>2, <1>3 DEF Failure

-----------------------------------------------------------------------------
(* Every key is in one place, and in order.                                *)

\* The taken keys, as far as the numbers go.
InOrder == KeysFollowSelector /\ KeysOnceInOrder

LEMMA TakenShape ==
    SessionTypeOK =>
        /\ taken \in Seq(Taken) /\ DOMAIN taken = 1..Len(taken) /\ Len(taken) \in Nat
        /\ \A i \in DOMAIN taken : taken[i] \in Taken /\ taken[i].id \in Keys(taken)
                                   /\ taken[i].id \in 1..MaxActs
<1> SUFFICES ASSUME SessionTypeOK PROVE
        /\ taken \in Seq(Taken) /\ DOMAIN taken = 1..Len(taken) /\ Len(taken) \in Nat
        /\ \A i \in DOMAIN taken : taken[i] \in Taken /\ taken[i].id \in Keys(taken)
                                   /\ taken[i].id \in 1..MaxActs
    OBVIOUS
<1>1. taken \in Seq(Taken)
    BY DEF SessionTypeOK, Taken
<1>2. DOMAIN taken = 1..Len(taken) /\ Len(taken) \in Nat
    BY <1>1, LenProperties
<1>3. \A i \in DOMAIN taken : taken[i] \in Taken
    BY <1>1, <1>2, ElementOfSeq
<1>4. \A i \in DOMAIN taken : taken[i].id \in 1..MaxActs
    BY <1>3 DEF Taken
<1>5. \A i \in DOMAIN taken : taken[i].id \in Keys(taken)
    BY <1>4 DEF Keys
<1> QED BY <1>1, <1>2, <1>3, <1>4, <1>5

LEMMA TakenAppend ==
    ASSUME NEW q \in Seq(Taken), NEW k \in Taken
    PROVE  /\ Append(q, k) \in Seq(Taken)
           /\ DOMAIN Append(q, k) = 1..Len(q) + 1 /\ DOMAIN q = 1..Len(q) /\ Len(q) \in Nat
           /\ \A i \in 1..Len(q) : Append(q, k)[i] = q[i]
           /\ Append(q, k)[Len(q) + 1] = k
           /\ Keys(Append(q, k)) = Keys(q) \cup {k.id}
           /\ \A i \in 1..Len(q) : q[i].id \in Keys(q)
<1>1. /\ Append(q, k) \in Seq(Taken)
      /\ DOMAIN Append(q, k) = 1..Len(q) + 1 /\ DOMAIN q = 1..Len(q) /\ Len(q) \in Nat
      /\ \A i \in 1..Len(q) : Append(q, k)[i] = q[i] /\ q[i] \in Taken
      /\ Append(q, k)[Len(q) + 1] = k
    BY AppendProperties, LenProperties, ElementOfSeq
<1>2. k.id # 0 /\ \A i \in 1..Len(q) : q[i].id # 0
    BY <1>1 DEF Taken
<1>3. Keys(Append(q, k)) = Keys(q) \cup {k.id}
    BY <1>1, <1>2 DEF Keys
<1>4. \A i \in 1..Len(q) : q[i].id \in Keys(q)
    BY <1>1, <1>2 DEF Keys
<1> QED BY <1>1, <1>3, <1>4

\* Messages stay where they are or are dropped.
LEMMA DropKeepsNumbers ==
    ASSUME Numbered, InOrder, UNCHANGED <<queue, acts, taken>>,
           \A s \in Sessions : Rising(up'[s]) /\ Keys(up'[s]) \subseteq Keys(up[s])
    PROVE  Numbered' /\ InOrder'
<1>1. Numbered'
    BY DEF Numbered
<1>2. InOrder'
    BY DEF InOrder, KeysFollowSelector, KeysOnceInOrder
<1> QED BY <1>1, <1>2

\* The next message is typed: it has the next number, or is a switch.
LEMMA SendKeepsNumbers ==
    ASSUME SessionTypeOK, Started, Following, Numbered, InOrder,
           NEW m \in Message, Send(m), m.id \in {0, acts + 1},
           acts' = acts + 1, taken' = taken
    PROVE  Numbered' /\ InOrder'
<1> USE DEF Numbered
<1>1. acts \in Nat /\ \A k \in 1..acts : k < acts + 1 /\ k \in 1..acts'
    BY SessionConstants DEF SessionTypeOK
<1>2. {m.id} \ {0} \subseteq {acts'} /\ acts' \in 1..acts'
    BY <1>1
<1>3. \A q : Keys(q) \subseteq 1..acts => \A k \in Keys(q) : m.id # 0 => k < m.id
    BY <1>1
<1>4. InOrder'
    BY DEF InOrder, KeysFollowSelector, KeysOnceInOrder
<1>5. CASE phase # "open"
  <2>1. queue' = Append(queue, m) /\ up' = up /\ queue \in Seq(Message)
    BY <1>5 DEF Send, SessionTypeOK
  <2>2. Rising(queue') /\ Keys(queue') = Keys(queue) \cup ({m.id} \ {0})
    BY <1>3, <2>1, KeysAppend
  <2>3. Keys(queue') \subseteq Keys(queue) \cup {acts'} /\ Keys(queue') \subseteq 1..acts'
    BY <1>1, <1>2, <2>2
  <2>4. \A k \in 1..acts, l \in Keys(queue') \ Keys(queue) : k < l
    BY <1>1, <2>3
  <2>5. Numbered'
    BY <1>1, <2>1, <2>2, <2>3, <2>4
  <2> QED BY <1>4, <2>5
<1>6. CASE phase = "open" /\ cur \in broken
  <2>1. UNCHANGED <<queue, up>>
    BY <1>6 DEF Send
  <2> QED BY <1>1, <1>4, <2>1
<1>7. CASE phase = "open" /\ cur \notin broken
  <2>1. /\ cur \in Sessions /\ up[cur] \in Seq(Message)
        /\ queue' = queue /\ queue = << >>
    BY <1>7 DEF Send, Started, Following, SessionTypeOK
  <2>2. up'[cur] = Append(up[cur], m) /\ \A s \in Sessions \ {cur} : up'[s] = up[s]
    BY <1>7, <2>1 DEF Send, SessionTypeOK
  <2>3. Rising(up'[cur]) /\ Keys(up'[cur]) = Keys(up[cur]) \cup ({m.id} \ {0})
    BY <1>3, <2>1, <2>2, KeysAppend
  <2>4. Keys(up'[cur]) \subseteq Keys(up[cur]) \cup {acts'} /\ Keys(queue') = {}
    BY <1>2, <2>1, <2>3, NothingSteady
  <2>5. \A i \in DOMAIN taken : taken[i].id \in 1..acts
    BY TakenShape
  <2>6. \A s \in Sessions : Rising(up'[s]) /\ Keys(up'[s]) \subseteq Keys(up[s]) \cup {acts'}
    BY <2>2, <2>3, <2>4
  <2>7. \A s \in Sessions : Keys(up'[s]) \subseteq 1..acts' /\ Keys(up'[s]) \cap Keys(taken') = {}
    BY <1>1, <1>2, <2>6
  <2>8. \A s \in Sessions : \A k \in Keys(up'[s]), i \in DOMAIN taken :
           taken[i].by = s => taken[i].id < k
    <3>1. TAKE s \in Sessions
    <3>2. TAKE k \in Keys(up'[s]), i \in DOMAIN taken
    <3>3. CASE k \in Keys(up[s])
        BY <3>3
    <3>4. CASE k = acts'
        BY <1>1, <2>5, <3>4
    <3> QED BY <2>6, <3>3, <3>4
  <2>9. \A s \in Sessions : \A t \in Sessions \ {s} : Keys(up'[s]) \cap Keys(up'[t]) = {}
    <3>1. \A t \in Sessions \ {cur} : /\ Keys(up'[cur]) \cap Keys(up'[t]) = {}
                                      /\ Keys(up'[t]) \cap Keys(up'[cur]) = {}
      <4>1. \A t \in Sessions : acts' \notin Keys(up[t])
        BY <1>1
      <4>2. \A t \in Sessions \ {cur} : Keys(up[cur]) \cap Keys(up[t]) = {}
        BY <2>1
      <4> HIDE DEF Numbered
      <4> QED BY <2>2, <2>4, <4>1, <4>2
    <3>2. \A s \in Sessions \ {cur} : \A t \in Sessions \ {cur, s} :
             Keys(up'[s]) \cap Keys(up'[t]) = {}
        BY <2>2
    <3> QED BY <3>1, <3>2
  <2>10. Rising(queue') /\ Keys(taken') \subseteq 1..acts'
    BY <1>1, <2>1
  <2>11. Numbered'
    BY <2>4, <2>6, <2>7, <2>8, <2>9, <2>10
  <2> QED BY <1>4, <2>11
<1> QED BY <1>5, <1>6, <1>7

LEMMA PageNumbers ==
    SessionTypeOK /\ Started /\ Following /\ Numbered /\ InOrder /\ (PageStep \/ Operator)
        => Numbered' /\ InOrder'
<1> SUFFICES ASSUME SessionTypeOK, Started, Following, Numbered, InOrder, PageStep \/ Operator
             PROVE  Numbered' /\ InOrder'
    OBVIOUS
<1>1. ASSUME NEW s \in Sessions, FetchOk(s) PROVE Numbered' /\ InOrder'
  <2>1. UNCHANGED <<queue, acts, taken, up>>
    BY <1>1 DEF FetchOk, wire
  <2> QED BY <2>1, DropKeepsNumbers DEF Numbered
<1>2. CASE ReconnectTimer \/ Notice \/ Close
  <2>1. UNCHANGED <<queue, acts, taken, up>>
    BY <1>2 DEF ReconnectTimer, Notice, Close, wire, server
  <2> QED BY <2>1, DropKeepsNumbers DEF Numbered
<1>3. CASE Open
  <2>1. cur \in Sessions /\ up[cur] = << >> /\ up[cur] \o queue = queue
    BY <1>3, ConcatEmptySeq DEF Open, Started, SessionTypeOK
  <2>2. /\ up'[cur] = queue /\ queue' = << >> /\ UNCHANGED <<acts, taken>>
        /\ \A s \in Sessions \ {cur} : up'[s] = up[s]
    BY <1>3, <2>1 DEF Open, SessionTypeOK, server
  <2>3. InOrder'
    BY <2>2 DEF InOrder, KeysFollowSelector, KeysOnceInOrder
  <2>4. Rising(queue') /\ Keys(queue') = {} /\ Keys(taken') \subseteq 1..acts'
    BY <2>2, NothingSteady DEF Numbered
  <2>5. \A k \in Keys(queue), l \in Keys(taken) : l < k /\ k # l
    BY SessionConstants DEF Numbered, SessionTypeOK
  <2>6. \A s \in Sessions : \A k \in Keys(up[s]), l \in Keys(queue) : k # l
    BY SessionConstants DEF Numbered, SessionTypeOK
  <2>7. \A i \in DOMAIN taken : taken[i].id \in Keys(taken)
    BY TakenShape
  <2>8. \A s \in Sessions : /\ Rising(up'[s]) /\ Keys(up'[s]) \subseteq 1..acts'
                            /\ Keys(up'[s]) \cap Keys(taken') = {}
    BY <2>2, <2>5 DEF Numbered
  <2>9. \A s \in Sessions : \A k \in Keys(up'[s]), i \in DOMAIN taken' :
           taken'[i].by = s => taken'[i].id < k
    BY <2>2, <2>5, <2>7 DEF Numbered
  <2>10. \A s \in Sessions : \A t \in Sessions \ {s} : Keys(up'[s]) \cap Keys(up'[t]) = {}
    BY <2>2, <2>6 DEF Numbered
  <2>11. Numbered'
    BY <2>4, <2>8, <2>9, <2>10 DEF Numbered
  <2> QED BY <2>3, <2>11
<1>4. CASE Type
  <2>1. [id |-> acts + 1, ch |-> selector] \in Message /\ acts' = acts + 1
    BY <1>4, SessionConstants DEF Type, Message, SessionTypeOK
  <2> QED BY <1>4, <2>1, SendKeepsNumbers DEF Type, server
<1>5. ASSUME NEW e \in Channels \cup {NoChannel}, Choose(e) PROVE Numbered' /\ InOrder'
  <2>1. Switch(e) \in Message /\ Switch(e).id = 0
    BY SessionConstants DEF Message, Switch
  <2> QED BY <1>5, <2>1, SendKeepsNumbers DEF Choose, server
<1> QED BY <1>1, <1>2, <1>3, <1>4, <1>5 DEF PageStep, Operator

\* The first message of a session is handled, and goes no further.
LEMMA PopKeepsNumbers ==
    ASSUME SessionTypeOK, Numbered, InOrder, NEW s \in Sessions,
           up[s] # << >>, up' = [up EXCEPT ![s] = Tail(@)], UNCHANGED <<queue, acts, taken>>
    PROVE  Numbered' /\ InOrder'
<1>1. /\ Rising(Tail(up[s])) /\ Keys(Tail(up[s])) \subseteq Keys(up[s])
    BY KeysTail DEF SessionTypeOK, Numbered
<1>2. up'[s] = Tail(up[s]) /\ \A t \in Sessions \ {s} : up'[t] = up[t]
    BY DEF SessionTypeOK
<1>3. \A t \in Sessions : Rising(up'[t]) /\ Keys(up'[t]) \subseteq Keys(up[t])
    BY <1>1, <1>2 DEF Numbered
<1> QED BY <1>3, DropKeepsNumbers

\* The first message of a session is a key, and its Channel takes it.
LEMMA TakeKeepsNumbers ==
    ASSUME SessionTypeOK, Started, Following, Numbered, InOrder, NEW s \in Sessions,
           sess[s] = "loop", up[s] # << >>, Head(up[s]).id # 0, att[s] \in Channels,
           up' = [up EXCEPT ![s] = Tail(@)], UNCHANGED <<queue, acts>>,
           taken' = Append(taken, [id |-> Head(up[s]).id, shown |-> Head(up[s]).ch,
                                   to |-> att[s], by |-> s])
    PROVE  Numbered' /\ InOrder'
<1> DEFINE k == [id |-> Head(up[s]).id, shown |-> Head(up[s]).ch, to |-> att[s], by |-> s]
<1>1. /\ up[s] \in Seq(Message) /\ Rising(up[s]) /\ Head(up[s]) = up[s][1]
      /\ Head(up[s]) \in Message
      /\ Rising(Tail(up[s])) /\ Keys(Tail(up[s])) \subseteq Keys(up[s])
      /\ k.id \in Keys(up[s]) /\ \A l \in Keys(Tail(up[s])) : k.id < l
  <2>1. up[s] \in Seq(Message) /\ Rising(up[s]) /\ Head(up[s]) = up[s][1] /\ k.id = Head(up[s]).id
    BY DEF SessionTypeOK, Numbered
  <2> HIDE DEF k
  <2> QED BY <2>1, KeysTail
<1>2. k \in Taken /\ k.to = k.shown /\ k.by = s
    BY <1>1, SessionConstants DEF Message, Taken, Following, Leads
<1> HIDE DEF k
<1>3. up'[s] = Tail(up[s]) /\ \A t \in Sessions \ {s} : up'[t] = up[t]
    BY DEF SessionTypeOK
<1>4. taken' = Append(taken, k) /\ taken \in Seq(Taken)
    BY TakenShape DEF k
<1>5. /\ DOMAIN taken' = 1..Len(taken) + 1 /\ DOMAIN taken = 1..Len(taken) /\ Len(taken) \in Nat
      /\ \A i \in 1..Len(taken) : taken'[i] = taken[i] /\ taken[i].id \in Keys(taken)
      /\ taken'[Len(taken) + 1] = k
      /\ Keys(taken') = Keys(taken) \cup {k.id}
    BY <1>2, <1>4, TakenAppend
<1>6. KeysFollowSelector'
    BY <1>2, <1>5 DEF InOrder, KeysFollowSelector
<1>7. \A i \in 1..Len(taken) : taken[i].id # k.id /\ (taken[i].by = s => taken[i].id < k.id)
    BY <1>1, <1>5 DEF Numbered
<1>8. KeysOnceInOrder'
    BY <1>2, <1>5, <1>7 DEF InOrder, KeysOnceInOrder
<1>9. /\ Rising(queue') /\ Keys(queue') \subseteq 1..acts' /\ Keys(taken') \subseteq 1..acts'
      /\ \A i \in Keys(taken'), l \in Keys(queue') : i < l
  <2>1. k.id \in 1..acts /\ \A l \in Keys(queue) : k.id < l
    BY <1>1 DEF Numbered
  <2> QED BY <1>5, <2>1 DEF Numbered
<1>10. \A t \in Sessions : /\ Rising(up'[t]) /\ Keys(up'[t]) \subseteq Keys(up[t])
                           /\ k.id \notin Keys(up'[t])
  <2>1. k.id \notin Keys(up'[s])
    BY <1>1, <1>2, <1>3 DEF Taken
  <2>2. \A t \in Sessions \ {s} : k.id \notin Keys(up'[t])
    BY <1>1, <1>3 DEF Numbered
  <2>3. \A t \in Sessions : Rising(up'[t]) /\ Keys(up'[t]) \subseteq Keys(up[t])
    BY <1>1, <1>3 DEF Numbered
  <2> QED BY <2>1, <2>2, <2>3
<1>11. \A t \in Sessions : \A l \in Keys(up'[t]), i \in DOMAIN taken' :
           taken'[i].by = t => taken'[i].id < l
    BY <1>1, <1>2, <1>3, <1>5, <1>10 DEF Numbered
<1>12. Numbered'
  <2>1. \A t \in Sessions : /\ Keys(up'[t]) \subseteq 1..acts'
                            /\ \A i \in Keys(up'[t]), l \in Keys(queue') : i < l
                            /\ Keys(up'[t]) \cap Keys(taken') = {}
    <3>1. \A t \in Sessions : Keys(up[t]) \cap Keys(taken) = {}
        BY DEF Numbered
    <3>2. \A t \in Sessions : Keys(up'[t]) \cap Keys(taken') = {}
        BY <1>5, <1>10, <3>1
    <3>3. \A t \in Sessions : /\ Keys(up[t]) \subseteq 1..acts'
                              /\ \A i \in Keys(up[t]), l \in Keys(queue') : i < l
        BY DEF Numbered
    <3> QED BY <1>10, <3>2, <3>3
  <2>2. \A t \in Sessions : \A r \in Sessions \ {t} : Keys(up'[t]) \cap Keys(up'[r]) = {}
    BY <1>10 DEF Numbered
  <2> QED BY <1>9, <1>10, <1>11, <2>1, <2>2 DEF Numbered
<1> QED BY <1>6, <1>8, <1>12 DEF InOrder

LEMMA HandlerNumbers ==
    ASSUME SessionTypeOK, Started, Following, Numbered, InOrder,
           NEW s \in Sessions, SessionStep(s)
    PROVE  Numbered' /\ InOrder'
<1> USE DEF page, wire
<1>1. CASE HandleWS(s) \/ PushURL(s) \/ Release(s) \/ Register(s) \/ RemoveSession(s)
  <2>1. UNCHANGED <<queue, acts, taken, up>>
    BY <1>1 DEF HandleWS, PushURL, Release, Register, RemoveSession
  <2> QED BY <2>1, DropKeepsNumbers DEF Numbered
<1>2. CASE HandleSwitch(s)
    BY <1>2, PopKeepsNumbers DEF HandleSwitch
<1>3. CASE HandleKey(s)
  <2>1. CASE att[s] = NoChannel
    BY <1>3, <2>1, PopKeepsNumbers DEF HandleKey
  <2>2. CASE att[s] # NoChannel
    BY <1>3, <2>2, TakeKeepsNumbers DEF HandleKey, App!Key
  <2> QED BY <2>1, <2>2
<1>4. CASE ReadFails(s) \/ CloseSession(s)
  <2>1. UNCHANGED <<queue, acts, taken>> /\ up' = [up EXCEPT ![s] = << >>]
    BY <1>4 DEF ReadFails, CloseSession
  <2>2. up'[s] = << >> /\ \A t \in Sessions \ {s} : up'[t] = up[t]
    BY <2>1 DEF SessionTypeOK
  <2> QED BY <2>1, <2>2, NothingSteady, DropKeepsNumbers DEF Numbered
<1> QED BY <1>1, <1>2, <1>3, <1>4 DEF SessionStep

LEMMA FailureNumbers == Numbered /\ InOrder /\ Failure => Numbered' /\ InOrder'
<1> SUFFICES ASSUME Numbered, InOrder, Failure PROVE Numbered' /\ InOrder'
    OBVIOUS
<1> USE DEF page, wire, server
<1>1. CASE ServerRestarts
  <2>1. UNCHANGED <<queue, acts, taken>> /\ \A s \in Sessions : up'[s] = << >>
    BY <1>1 DEF ServerRestarts
  <2> QED BY <2>1, NothingSteady, DropKeepsNumbers
<1>2. CASE FetchFails \/ \E s \in Sessions :
              TokenExpires(s) \/ AcceptFails(s) \/ RegisterFails(s) \/ Break(s)
  <2>1. UNCHANGED <<queue, acts, taken, up>>
    BY <1>2 DEF FetchFails, TokenExpires, AcceptFails, RegisterFails, Break
  <2> QED BY <2>1, DropKeepsNumbers DEF Numbered
<1> QED BY <1>1, <1>2 DEF Failure

-----------------------------------------------------------------------------
LEMMA SessionStepInv == SessionInv /\ [SessionNext]_sessionVars => SessionInv'
<1> SUFFICES ASSUME SessionInv, [SessionNext]_sessionVars PROVE SessionInv'
    OBVIOUS
<1> USE DEF SessionInv, InOrder
<1>1. CASE PageStep \/ Operator
    BY <1>1, PageTypes, PageFollows, PageNumbers
<1>2. ASSUME NEW s \in Sessions, SessionStep(s) PROVE SessionInv'
    BY <1>2, HandlerTypes, HandlerFollows, HandlerNumbers
<1>3. CASE Failure
    BY <1>3, FailureTypes, FailureFollows, FailureNumbers
<1>4. CASE UNCHANGED sessionVars
    BY <1>4 DEF sessionVars, page, server, wire, SessionTypeOK, Started, Following, Numbered,
       KeysFollowSelector, KeysOnceInOrder
<1> QED BY <1>1, <1>2, <1>3, <1>4 DEF SessionNext

\* The invariant of the page and its sessions: where each key is, and what each
\* message shows.
THEOREM SessionInvariance == SessionSpec => []SessionInv
<1>1. SessionInit => SessionInv
    BY SessionInitInv
<1>2. SessionInv /\ [SessionNext]_sessionVars => SessionInv'
    BY SessionStepInv
<1> QED BY <1>1, <1>2, PTL DEF SessionSpec

\* The variables have their types.
THEOREM SessionTypes == SessionSpec => []SessionTypeOK
<1>1. SessionInv => SessionTypeOK
    BY DEF SessionInv
<1> QED BY <1>1, SessionInvariance, PTL

\* However often the page loses its connection, queues and reconnects, no key
\* reaches a Channel other than the one its operator saw selected.
THEOREM KeysReachTheSelected == SessionSpec => []KeysFollowSelector
<1>1. SessionInv => KeysFollowSelector
    BY DEF SessionInv
<1> QED BY <1>1, SessionInvariance, PTL

\* No reconnect, restart or flushed queue makes a Channel take a key twice, and
\* the keys sent over one connection are taken in the order they were typed.
THEOREM KeysTakenOnce == SessionSpec => []KeysOnceInOrder
<1>1. SessionInv => KeysOnceInOrder
    BY DEF SessionInv
<1> QED BY <1>1, SessionInvariance, PTL
=============================================================================
