---------------------------- MODULE SessionLife ----------------------------
(***************************************************************************)
(* What a refresh-token family promises (auth.service.ts): a sign-in opens *)
(* it, it can be ended, and what has ended is never open again.  Several   *)
(* can end at once ("revoke every session for this user").                 *)
(***************************************************************************)
CONSTANT Family

VARIABLE phase   \* phase[f]: what has become of family f

Init == phase = [f \in Family |-> "none"]

Open(f) ==
    /\ phase[f] = "none"
    /\ phase' = [phase EXCEPT ![f] = "open"]

End(S) ==
    /\ \A f \in S : phase[f] = "open"
    /\ phase' = [f \in Family |-> IF f \in S THEN "ended" ELSE phase[f]]

Next == (\E f \in Family : Open(f)) \/ (\E S \in SUBSET Family : End(S))

Spec == Init /\ [][Next]_phase
=============================================================================
