---------------------------- MODULE VideoSource ----------------------------
(***************************************************************************)
(* What a kvm.VideoSource (server/internal/kvm/interfaces.go) promises to  *)
(* those who subscribe: Application, which relies on a closed channel to   *)
(* learn of a failure and on nothing else.  Frames are left out.           *)
(***************************************************************************)
CONSTANT Subs  \* calls of Subscribe; one is reused once it is forgotten

VARIABLES
    feed,      \* feed[s]: "none", "asked" (in Subscribe), "open" or "closed"
    cancelled  \* the subscriptions whose ctx is cancelled

sourceVars == <<feed, cancelled>>

Init ==
    /\ feed = [s \in Subs |-> "none"]
    /\ cancelled = {}

\* Subscribe is called; it may return at once,
Ask(s) ==
    /\ feed[s] = "none"
    /\ \E f \in {"asked", "open"} : feed' = [feed EXCEPT ![s] = f]
    /\ UNCHANGED cancelled

\* or later, but always with an open channel.
Answer(s) ==
    /\ feed[s] = "asked"
    /\ feed' = [feed EXCEPT ![s] = "open"]
    /\ UNCHANGED cancelled

Cancel(s) ==
    /\ feed[s] # "none" /\ s \notin cancelled
    /\ cancelled' = cancelled \cup {s}
    /\ UNCHANGED feed

\* The channel is closed, once: the source failed or ctx is cancelled.
Close(s) ==
    /\ feed[s] = "open"
    /\ feed' = [feed EXCEPT ![s] = "closed"]
    /\ UNCHANGED cancelled

\* A subscription leaves something behind until ctx is cancelled.
Forget(s) ==
    /\ feed[s] = "closed" /\ s \in cancelled
    /\ feed' = [feed EXCEPT ![s] = "none"]
    /\ cancelled' = cancelled \ {s}

Next == \E s \in Subs : Ask(s) \/ Answer(s) \/ Cancel(s) \/ Close(s) \/ Forget(s)

Spec == Init /\ [][Next]_sourceVars

\* Subscribe returns, and the channel of a cancelled subscription is closed.
Settles ==
    \A s \in Subs :
        feed[s] = "asked" \/ s \in cancelled
            ~> (feed[s] = "open" /\ s \notin cancelled) \/ feed[s] \in {"closed", "none"}

Promise == Spec /\ Settles
=============================================================================
