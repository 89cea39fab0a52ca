--------------------------- MODULE MCContainerUpdate ---------------------------
(* A database that runs as its image's user, and a web service that does not. *)
EXTENDS ContainerUpdate

MCRefOf == [s \in Services |-> s]
=============================================================================
