---------------------------- MODULE MCDebianBuild ----------------------------
(* Two component repositories and RackHD; two tries; one midnight.          *)
EXTENDS DebianBuild
=============================================================================
