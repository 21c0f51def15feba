--------------------------- MODULE ReplyLifecycle ---------------------------
(***************************************************************************)
(* What an agent promises a host that follows the protocol: replies are    *)
(* started one at a time; a running reply ends, or pauses for the user and *)
(* is resumed; a new reply is not started over a running or a paused one;  *)
(* an ended reply stays ended.                                             *)
(***************************************************************************)
EXTENDS Integers

CONSTANT MaxReplies     \* bound: replies ever started

VARIABLE phase

Phases == {"unborn", "running", "paused", "ended"}

Init == phase = [p \in 1..MaxReplies |-> "unborn"]

Move(p, from, to) == phase[p] \in from /\ phase' = [phase EXCEPT ![p] = to]

Start(p) ==
    /\ \A q \in 1..MaxReplies : phase[q] \in {"unborn", "ended"}
    /\ Move(p, {"unborn"}, "running")

Resume(p) ==
    /\ \A q \in 1..MaxReplies : phase[q] # "running"
    /\ Move(p, {"paused"}, "running")

Pause(p) == Move(p, {"running"}, "paused")

End(p) == Move(p, {"running"}, "ended")

Leave(p) == Pause(p) \/ End(p)

Next == \E p \in 1..MaxReplies : Start(p) \/ Resume(p) \/ Leave(p)

Spec == Init /\ [][Next]_phase /\ \A p \in 1..MaxReplies : WF_phase(Leave(p))

=============================================================================
