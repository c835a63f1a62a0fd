---------------------------- MODULE MCReplication ----------------------------
(* Replication with two places in one cell, and one two cells away. *)
EXTENDS Replication

MCPlaces == {<<0, 0>>, <<1, 1>>, <<5, 0>>}
MCSpawns == {<<0, 0>>}
=============================================================================
