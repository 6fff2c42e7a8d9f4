---------------------------- MODULE JobLifecycle ----------------------------
(***************************************************************************)
(* What one durable job promises to the rest of the gateway, whatever the  *)
(* queue, its leases, its crashes and its retries do: a job is created     *)
(* once, moves between "pending" and "running", never returns from an end, *)
(* and is started a bounded number of times. DurableQueue implements this. *)
(* The statuses are those of JobDoc in storage/collections.ts.             *)
(***************************************************************************)
EXTENDS Naturals

CONSTANTS Jobs,       \* job ids
          MaxStarts   \* starts a job may consume over its whole life

VARIABLES status,  \* JobDoc.status, "absent" before the first put
          starts   \* JobDoc.attempts: claims granted so far

vars == <<status, starts>>

Ends == {"completed", "failed", "interrupted", "cancelled"}
Statuses == {"absent", "pending", "running"} \union Ends

Init == /\ status = [j \in Jobs |-> "absent"]
        /\ starts = [j \in Jobs |-> 0]

Create(j) == /\ status[j] = "absent"
             /\ status' = [status EXCEPT ![j] = "pending"]
             /\ UNCHANGED starts

Start(j) == /\ status[j] = "pending"
            /\ starts[j] < MaxStarts
            /\ status' = [status EXCEPT ![j] = "running"]
            /\ starts' = [starts EXCEPT ![j] = @ + 1]

\* A retry or a reclaim is granted only while a start is left for it.
Requeue(j) == /\ status[j] = "running"
              /\ starts[j] < MaxStarts
              /\ status' = [status EXCEPT ![j] = "pending"]
              /\ UNCHANGED starts

End(j) == /\ status[j] = "running"
          /\ \E s \in Ends : status' = [status EXCEPT ![j] = s]
          /\ UNCHANGED starts

\* cancelJob also ends a job that is waiting or that was interrupted.
Cancel(j) == /\ status[j] \in {"pending", "interrupted"}
             /\ status' = [status EXCEPT ![j] = "cancelled"]
             /\ UNCHANGED starts

Next == \E j \in Jobs :
          Create(j) \/ Start(j) \/ Requeue(j) \/ End(j) \/ Cancel(j)

Spec == Init /\ [][Next]_vars
=============================================================================
