--------------------------- MODULE MCCronScheduler ---------------------------
(* CronScheduler instantiated for TLC: the .cfg files give the constants. *)
EXTENDS CronScheduler, TLC

\* Activations of execute and callers are interchangeable.
Symmetric == Permutations(Execs) \union Permutations(Clients)
=============================================================================
