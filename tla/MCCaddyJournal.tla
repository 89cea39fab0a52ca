--------------------------- MODULE MCCaddyJournal ---------------------------
(***************************************************************************)
(* Caddy's site files on small instances.                                  *)
(***************************************************************************)
EXTENDS CaddyJournal, TLC

Symmetry == Permutations(Sites) \cup Permutations(Hosts)
=============================================================================
