------------------------ MODULE MCUsernsMigration ------------------------
(* One volume and one bind source from the start, one volume later on. *)
EXTENDS UsernsMigration

MCVols == {"data"}
MCBinds == {"bind"}
=============================================================================
