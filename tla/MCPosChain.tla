----------------------------- MODULE MCPosChain -----------------------------
(* Small chains of proof of stake for TLC.                                 *)
EXTENDS PosChain

CONSTANTS a, b, c, d

Abcd == <<a, b, c, d>>
OneVotePerToken == [num |-> 1, den |-> 1]

(* Two consensus slots, one validator below capacity, one to come.         *)
ThreeStakes == <<[val |-> a, stake |-> 2], [val |-> b, stake |-> 2],
                 [val |-> c, stake |-> 1]>>

(* Two consensus slots, two validators below capacity.                     *)
FourStakes == <<[val |-> a, stake |-> 4], [val |-> b, stake |-> 3],
                [val |-> c, stake |-> 3], [val |-> d, stake |-> 2]>>
=============================================================================
