----------------------------- MODULE MCConnection -----------------------------
(* An administrator and a manager, who may be demoted or switched off while a *)
(* tab of either, and another device, are connected.                           *)
EXTENDS Connection, TLC

CONSTANTS boss, dev

MCManager == [p \in {} |-> NoOne]
MCSeeded == boss :> "ADMIN" @@ dev :> "PROJECT_MANAGER"
MCAccountPatch == {[role |-> "DEVELOPER"], [active |-> FALSE]}

Symmetry == Permutations(Clerk)
===============================================================================
