----------------------------- MODULE MCTestNodes -----------------------------
(* A build of three tests and a build of one, on two nodes for the smoke    *)
(* tests and one for the installation, or on nodes two of which bear both   *)
(* labels.                                                                  *)
EXTENDS TestNodes, TLC

MCLabelOf == [t \in Tests |-> IF t = "Install" THEN "os_install" ELSE "smoke_test"]
MCLabelMaps ==
  {[n \in Nodes |-> IF n = 3 THEN {"os_install"} ELSE {"smoke_test", "vm"}],
   [n \in Nodes |-> IF n = 1 THEN {"smoke_test"} ELSE {"smoke_test", "os_install"}]}
MCTestsOf == [c \in Builds |-> IF c = "A" THEN Tests ELSE {"CIT"}]
=============================================================================
