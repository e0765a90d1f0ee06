--------------------------- MODULE ClientRegistry ---------------------------
(***************************************************************************)
(* What kvm.Application promises the HTTP layer, without its lock, its     *)
(* indexes or its goroutines: every known Client is attached to at most    *)
(* one Channel, moves at once, and only at its own request, and each key   *)
(* edge it sends is handed to the Channel it is attached to at that        *)
(* moment.  Application.tla is shown to implement this specification.      *)
(***************************************************************************)
CONSTANTS
    Clients,     \* the browser sessions
    Channels,    \* the KVM channels
    Nil,         \* known to the server but attached to no Channel
    Absent       \* not known to the server

VARIABLES
    att,         \* att[c]: the Channel of c, Nil or Absent
    keyedTo      \* keyedTo[c]: the Channel that took the last key edge of c, or Nil

vars == <<att, keyedTo>>

Init ==
    /\ att = [c \in Clients |-> Absent]
    /\ keyedTo = [c \in Clients |-> Nil]

Connect(c) ==
    /\ att[c] = Absent
    /\ att' = [att EXCEPT ![c] = Nil]
    /\ UNCHANGED keyedTo

Switch(c, t) ==
    /\ att[c] # Absent
    /\ att' = [att EXCEPT ![c] = t]
    /\ UNCHANGED keyedTo

Disconnect(c) ==
    /\ att[c] # Absent
    /\ att' = [att EXCEPT ![c] = Absent]
    /\ UNCHANGED keyedTo

\* An edge goes where the Client is attached when the Channel takes it, never
\* to a Channel the Client has left.
Key(c) ==
    /\ att[c] \in Channels
    /\ keyedTo' = [keyedTo EXCEPT ![c] = att[c]]
    /\ UNCHANGED att

Next ==
    \E c \in Clients :
        \/ Connect(c)
        \/ \E t \in Channels \cup {Nil} : Switch(c, t)
        \/ Disconnect(c)
        \/ Key(c)

Spec == Init /\ [][Next]_vars
=============================================================================
