------------------------------- MODULE MCTask -------------------------------
(* Three tasks for TLC. *)
EXTENDS Task, TLC

Identities == Permutations(Tasks)

NoneOrBoth == {{}, Settled}
NoneOnly == {{}}
=============================================================================
