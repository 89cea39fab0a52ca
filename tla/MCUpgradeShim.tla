--------------------------- MODULE MCUpgradeShim ---------------------------
(***************************************************************************)
(* The platform upgrade on small instances.                                *)
(***************************************************************************)
EXTENDS UpgradeShim

\* Release 2 migrates the manifests; a third, where there is one, does not.
SchemaDef == [v \in 1 .. MaxVersion |-> IF v = 1 THEN 1 ELSE 2]
=============================================================================
