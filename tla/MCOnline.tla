------------------------------- MODULE MCOnline -------------------------------
(* OnlineSlot with an account that connects twice and one that connects once. *)
EXTENDS OnlineSlot, TLC

CONSTANTS amy, ben, first, again, other

MCCharOf == (first :> amy) @@ (again :> amy) @@ (other :> ben)
MCAccountOf == (amy :> amy) @@ (ben :> ben)
=============================================================================
