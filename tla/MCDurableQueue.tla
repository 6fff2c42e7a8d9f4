--------------------------- MODULE MCDurableQueue ---------------------------
(* DurableQueue instantiated for TLC: the .cfg files give the constants. *)
EXTENDS DurableQueue, TLC

AllKinds == {"chat_turn", "worker_task"}
WorkersOnly == {"worker_task"}

\* Lanes and activations of dispatchLane are interchangeable.
Symmetric == Permutations(Lanes) \union Permutations(Dispatchers)

\* With a single lane only the activations are.
OneLane == Permutations(Dispatchers)
=============================================================================
