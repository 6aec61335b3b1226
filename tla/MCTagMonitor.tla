---------------------------- MODULE MCTagMonitor -----------------------------
(* Three tags on two commits, two edits and one killed run.                  *)
EXTENDS TagMonitor
=============================================================================
