-------------------------- MODULE RequestLifecycle --------------------------
(***************************************************************************)
(* What the OWP/1 session rules promise their callers, with no message in  *)
(* sight: one top-level request at a time, ids that only grow, and exactly *)
(* one terminal outcome per request.  A request that was asked to stop may *)
(* still finish, in which case the session goes on; once a stop has been   *)
(* acknowledged no request can ever start again.                           *)
(***************************************************************************)
EXTENDS Naturals

VARIABLES
    phase,    \* where the session is
    current,  \* the id of the request under way, or 0
    latest    \* the greatest id ever started

lifecycleVars == <<phase, current, latest>>

Init == phase = "opening" /\ current = 0 /\ latest = 0

Open == phase = "opening" /\ phase' = "ready" /\ UNCHANGED <<current, latest>>

Start ==
    /\ phase = "ready"
    /\ phase' = "busy"
    /\ latest' \in Nat /\ latest' > latest
    /\ current' = latest'

Stop == phase = "busy" /\ phase' = "stopping" /\ UNCHANGED <<current, latest>>

Finish ==
    /\ phase \in {"busy", "stopping"}
    /\ phase' = "ready"
    /\ current' = 0
    /\ UNCHANGED latest

Acknowledge ==
    /\ phase = "stopping"
    /\ phase' = "stopped"
    /\ current' = 0
    /\ UNCHANGED latest

Close ==
    /\ phase \in {"ready", "stopped"}
    /\ phase' = "closed"
    /\ UNCHANGED <<current, latest>>

Abort == phase' = "aborted" /\ current' = 0 /\ UNCHANGED latest

Next == Open \/ Start \/ Stop \/ Finish \/ Acknowledge \/ Close
        \/ (phase # "aborted" /\ Abort)

Spec == Init /\ [][Next]_lifecycleVars
=============================================================================
