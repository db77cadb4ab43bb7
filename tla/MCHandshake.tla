---------------------------- MODULE MCHandshake ----------------------------
(* Two nodes for TLC: "hub" has the greater full ID and wins every duel. *)
EXTENDS Handshake

TwoNodes == {"agent", "hub"}
RankOfNode == [n \in TwoNodes |-> IF n = "hub" THEN 2 ELSE 1]
=============================================================================
