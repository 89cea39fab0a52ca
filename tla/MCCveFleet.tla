------------------------------ MODULE MCCveFleet ------------------------------
(***************************************************************************)
(* Three projects and two CVEs without a fix: a high one, which every      *)
(* project would be quarantined for, and a medium one, which only the      *)
(* projects with added capabilities would.                                 *)
(***************************************************************************)
EXTENDS CveFleet

Plain == [declared |-> TRUE, off |-> FALSE, readOnly |-> "unset", nnp |-> FALSE, caps |-> FALSE,
          privileged |-> FALSE, overlayNnp |-> TRUE, overlayCaps |-> FALSE]

MCPolicy ==
    [p \in 1 .. NProjects |->
        [posture |-> "balanced", danger |-> FALSE, runtimes |-> {},
         services |-> {[Plain EXCEPT !.caps = p > 1]}]]

MCFinding ==
    [c \in Cves |->
        LET rank == IF c = "high" THEN High ELSE Medium
        IN [severity |-> rank, ratings |-> [v \in 1 .. Vendors |-> rank], status |-> "affected",
            network |-> TRUE, runtime |-> "system", fix |-> FALSE]]
=============================================================================
