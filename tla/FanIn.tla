------------------------------- MODULE FanIn -------------------------------
(***************************************************************************)
(* What a delegation group promises to the turn that opened it: members    *)
(* join until the group is closed, each reports once, and when the closed  *)
(* group has every report the coordinator is told, once.                   *)
(* DelegationGroups implements this.                                       *)
(***************************************************************************)
EXTENDS Naturals

CONSTANT Members

VARIABLES members,   \* tasks that joined
          reported,  \* tasks whose outcome is known
          closed,    \* no task may join any more
          told       \* summaries sent to the coordinator

vars == <<members, reported, closed, told>>

Init == members = {} /\ reported = {} /\ closed = FALSE /\ told = 0

Join(m) == /\ ~closed
           /\ members' = members \union {m}
           /\ UNCHANGED <<reported, closed, told>>

Report(m) == /\ m \in members \ reported
             /\ reported' = reported \union {m}
             /\ UNCHANGED <<members, closed, told>>

Close == /\ ~closed /\ members # {}
         /\ closed' = TRUE
         /\ UNCHANGED <<members, reported, told>>

Tell == /\ closed /\ members \subseteq reported
        /\ told = 0
        /\ told' = 1
        /\ UNCHANGED <<members, reported, closed>>

Next == Close \/ Tell \/ \E m \in Members : Join(m) \/ Report(m)

Spec == Init /\ [][Next]_vars
=============================================================================
