---------------------------- MODULE MCReleaseTag -----------------------------
(* Two repositories, one of which refers to the other; their branches get up *)
(* to two commits each from developers, their new branches one; three tries  *)
(* for each block, one midnight.                                             *)
EXTENDS ReleaseTag
=============================================================================
