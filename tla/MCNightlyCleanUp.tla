-------------------------- MODULE MCNightlyCleanUp ---------------------------
(* A component and RackHD, two pages of images; a range of the past, one     *)
(* that reaches into the future, one the wrong way round, and none at all.   *)
EXTENDS NightlyCleanUp

MCRepos == <<"on-core", "rackhd">>
MCWindows == {<<0, 2>>, <<0, 4>>, <<2, 1>>, <<>>}
=============================================================================
