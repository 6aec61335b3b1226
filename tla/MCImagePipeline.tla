--------------------------- MODULE MCImagePipeline ---------------------------
(* Two builds that make the same box version of different RackHD versions,   *)
(* and a docker node for each of them or one for both.  One branch, which     *)
(* waits for packer_bri, may be tried twice.                                 *)
EXTENDS ImagePipeline

MCVersionOf == [b \in Builds |-> b]
MCBoxVersionOf == [b \in Builds |-> "nightly"]
MCMaxTries ==
  [b \in Builds |-> [i \in Images |-> IF b = 1 /\ i = "ova" THEN 2 ELSE 1]]
=============================================================================
