------------------------------ MODULE MCWlState ------------------------------
(* A small instance of WlState: a data key and one account to be generated. *)
EXTENDS WlState, TLC

CONSTANTS k1, vp1

MCVpKey == {vp1}
MCKey == {k1} \cup MCVpKey
MCvp_key == (0 :> vp1)

=============================================================================
