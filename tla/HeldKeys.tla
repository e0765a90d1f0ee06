------------------------------ MODULE HeldKeys ------------------------------
(***************************************************************************)
(* KeyPath from the side of one Client: the modifiers it holds down        *)
(* itself, beside those the KeyEvents of its own keys carry.  Every step   *)
(* is a step of KeyPath; the variables added here are history.             *)
(***************************************************************************)
EXTENDS KeyPath

VARIABLES
    held,   \* held[c]: the modifiers that c's edges taken so far leave down
    own     \* own[ch][h]: held of the Client whose edge h took last

Taken(c) == edge[c] # NoEdge /\ edge'[c] = NoEdge

HeldInit ==
    /\ KeyInit
    /\ held = [c \in Clients |-> {}]
    /\ own = [ch \in Channels |-> [h \in Handles |-> {}]]

\* A Client that AddClient has yet to make holds nothing.
HeldNext ==
    /\ KeyNext
    /\ held' = [c \in Clients |->
                   CASE Taken(c) -> Applied(held[c], edge[c])
                     [] pc[c] = "new" -> {}
                     [] OTHER -> held[c]]
    /\ own' = [ch \in Channels |-> [h \in Handles |->
                  IF job[ch][h] = Idle /\ job'[ch][h] # Idle
                    THEN UNION {held'[c] : c \in {d \in Clients : Taken(d)}}
                    ELSE own[ch][h]]]

HeldSpec == HeldInit /\ [][HeldNext]_<<allVars, held, own>>

\* docs/implementation-plan.md, of two Clients that drive one Channel:
\* "per-Client state (held modifiers, etc.) does not bleed between clients".
\* The KeyEvent of a Client's key carries no modifier that this Client does
\* not hold.  (Refuted: KbdState is the Channel's, channel.go:93-105.)
NoModifierBleed ==
    \A ch \in Channels, h \in Handles :
        job[ch][h].at = "report" => job[ch][h].mask \subseteq own[ch][h]
=============================================================================
