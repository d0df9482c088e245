----------------------------- MODULE HighWater -----------------------------
(***************************************************************************)
(* What an account's activity cursor promises (schema.prisma, model        *)
(* ActivityCursor; advanceActivityCursor): a mark that takes in one        *)
(* acknowledgement at a time, keeps the highest, and never goes back.      *)
(***************************************************************************)
EXTENDS Naturals

CONSTANTS Start,  \* the mark when the observation starts
          Number  \* what can be acknowledged

VARIABLES mark,   \* the highest acknowledged number
          taken   \* the numbers acknowledged so far

Init == mark = Start /\ taken = {}

Acknowledge(n) ==
    /\ mark' = IF mark < n THEN n ELSE mark
    /\ taken' = taken \cup {n}

Next == \E n \in Number : Acknowledge(n)

Spec == Init /\ [][Next]_<<mark, taken>>
=============================================================================
