------------------------------- MODULE Pairing -------------------------------
(***************************************************************************)
(* What a duel lobby promises: every member is alone or has one partner,   *)
(* a pair forms only between two members who are alone, and only a whole   *)
(* pair comes apart.  One pair changes at a time.                          *)
(***************************************************************************)
CONSTANTS
    Members,
    Alone       \* the partner of a member who has none

VARIABLE partner

Init == partner = [m \in Members |-> Alone]

\* Two members who are alone become partners
Pair(m, n) ==
    /\ m # n
    /\ partner[m] = Alone /\ partner[n] = Alone
    /\ partner' = [partner EXCEPT ![m] = n, ![n] = m]

\* A pair comes apart
Part(m, n) ==
    /\ m # n
    /\ partner[m] = n /\ partner[n] = m
    /\ partner' = [partner EXCEPT ![m] = Alone, ![n] = Alone]

Next == \E m, n \in Members : Pair(m, n) \/ Part(m, n)

Spec == Init /\ [][Next]_partner
=============================================================================
