------------------------------ MODULE MCParts ------------------------------
(***************************************************************************)
(* Six components that share no state with one another, side by side: a    *)
(* behaviour is a behaviour of one of them, while the others stay in an    *)
(* initial state.                                                          *)
(***************************************************************************)
EXTENDS PosLiveness, RocksDb, EthBridge, BlockAlloc, Governance, EpochedData

CONSTANTS v1, v2, d1

VARIABLE part

partsVars == <<part, livenessVars, dbVars, bridgeVars, allocVars, govVars, epochedVars>>

(* A component that does not take part has one initial state only *)
PartsInit ==
    /\ part \in {"liveness", "db", "bridge", "alloc", "gov", "epoched"}
    /\ LivenessInit /\ DbInit /\ BridgeInit /\ AllocInit /\ GovInit
    /\ EpochedInit
    /\ part # "liveness" => window = Max(Window) /\ consensus_set(states, 0) = Core
    /\ part # "gov" => min_funds = Min(MinFunds) /\ stewards = {}
    /\ part # "epoched" =>
        past = Max(PastEpochs) /\ deltas = Unwritten /\ discrete = Unwritten

PartsNext ==
    \/ /\ part = "liveness" /\ LivenessNext
       /\ UNCHANGED <<part, dbVars, bridgeVars, allocVars, govVars, epochedVars>>
    \/ /\ part = "db" /\ DbNext
       /\ UNCHANGED <<part, livenessVars, bridgeVars, allocVars, govVars, epochedVars>>
    \/ /\ part = "bridge" /\ BridgeNext
       /\ UNCHANGED <<part, livenessVars, dbVars, allocVars, govVars, epochedVars>>
    \/ /\ part = "alloc" /\ AllocNext
       /\ UNCHANGED <<part, livenessVars, dbVars, bridgeVars, govVars, epochedVars>>
    \/ /\ part = "gov" /\ GovNext
       /\ UNCHANGED <<part, livenessVars, dbVars, bridgeVars, allocVars, epochedVars>>
    \/ /\ part = "epoched" /\ EpochedNext
       /\ UNCHANGED <<part, livenessVars, dbVars, bridgeVars, allocVars, govVars>>

PartsSpec == PartsInit /\ [][PartsNext]_partsVars

-----------------------------------------------------------------------------
(* PosLiveness: one vote of the window must be cast *)
MCthreshold(w) == w - 1

(* EthBridge: v2 has two thirds of the stake in the first epoch, v1 more than a
   half in the second *)
MCstake(v, e) == IF v = v1 THEN (IF e = 0 THEN 1 ELSE 3) ELSE 2

(* BlockAlloc: protocol transactions, wrappers with the same inner transaction, one
   that expires, and sizes that do not all fit *)
Protocol(len) == [kind |-> "protocol", len |-> len, gas |-> 0, fee |-> 0, inner |-> 0, exp |-> 0]
Wrapper(len, gas, fee, inner, exp) ==
    [kind |-> "wrapper", len |-> len, gas |-> gas, fee |-> fee, inner |-> inner, exp |-> exp]
MCtxs == {Protocol(1), Protocol(2), Protocol(3), Wrapper(2, 2, 1, 1, 9), Wrapper(1, 2, 1, 1, 9),
          Wrapper(1, 1, 2, 2, 1)}

(* Governance: a delegator with more stake than their validator *)
MCvalidators == <<v1, v2>>
MCself_bond == [v \in {v1, v2} |-> 1]
MCdelegation == [x \in {d1} \X {v1, v2} |-> IF x[2] = v1 THEN 2 ELSE 0]
============================================================================
