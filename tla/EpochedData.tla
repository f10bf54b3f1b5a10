----------------------------- MODULE EpochedData -----------------------------
(***************************************************************************)
(* Epoched data of proof of stake (crates/proof_of_stake/src/epoched.rs): a *)
(* map from epochs to deltas (EpochedDelta: a validator's stake) and a map  *)
(* from epochs to values (Epoched: a validator's state), which are written  *)
(* at an offset from the current epoch, and trimmed when they are written   *)
(* to the number of past epochs that a parameter asks for (PastEpochs).     *)
(*                                                                          *)
(* A handle is a record: the epoch of its last update, its oldest epoch and *)
(* its map.  For the properties, every write is also kept untrimmed.        *)
(***************************************************************************)
EXTENDS Integers, FiniteSetsExt, Functions

CONSTANTS
    Delta,             \* changes that are added
    EpochedValue,      \* values that are set
    future_epochs,     \* FutureEpochs::value: the pipeline length
    PastEpochs,        \* values that PastEpochs::value takes as parameters change
    MaxDataEpoch,      \* bound: epochs
    MaxWrites          \* bound: writes and changes of parameters

ASSUME EpochedAssumption ==
    /\ Delta \subseteq Int
    /\ future_epochs \in Nat
    /\ PastEpochs \subseteq Nat

VARIABLES
    data_epoch,   \* the current epoch
    past,         \* PastEpochs::value of the parameters in storage
    deltas,       \* the EpochedDelta handle
    discrete,     \* the Epoched handle
    written,      \* history: what was written, untrimmed
    asked,        \* history, for each handle: the parameter at the last write, and
                  \* the oldest epoch that the parameters asked to keep
    writes

epochedVars == <<data_epoch, past, deltas, discrete, written, asked, writes>>

NoData == "None"

(* init_at_genesis *)
init_at_genesis(value) == [last_update |-> 0, oldest |-> 0, map |-> [e \in {0} |-> value]]

(* A handle that was never written, as of a validator that is not of genesis *)
Unwritten == [last_update |-> -1, oldest |-> -1, map |-> [e \in {} |-> 0]]

EpochedInit ==
    /\ data_epoch = 0
    /\ past \in PastEpochs
    /\ deltas \in {Unwritten} \cup {init_at_genesis(d) : d \in Delta}
    /\ discrete \in {Unwritten} \cup {init_at_genesis(v) : v \in EpochedValue}
    /\ written = [deltas |-> deltas.map, discrete |-> discrete.map]
    /\ asked = [h \in {"deltas", "discrete"} |-> [past |-> past, oldest |-> 0]]
    /\ writes = 0

Minimum(a, b) == IF a < b THEN a ELSE b
Maximum(a, b) == IF a > b THEN a ELSE b

sub_past_epochs(epoch) == Maximum(epoch - past, 0)

Sum(map, S) == MapThenSumSet(LAMBDA e : map[e], S \cap DOMAIN map)

-----------------------------------------------------------------------------
(* Reads *)

(* EpochedDelta::get_sum, from the oldest epoch that the parameters of today keep
   to the given one.  Without a delta in it, or of a handle never written, there is
   no sum; the callers take that for zero. *)
get_sum(h, epoch) ==
    Sum(h.map, sub_past_epochs(h.last_update)..Minimum(epoch, h.last_update + future_epochs))

(* Epoched::get: the nearest value at or before the epoch.  The search goes one
   epoch down at a time and stops at the oldest epoch to keep. *)
get(h, epoch) ==
    LET from  == Minimum(epoch, h.last_update + future_epochs)
        found == {e \in DOMAIN h.map :
                    e <= from /\ (e = from \/ e >= sub_past_epochs(h.last_update))}
    IN  IF found = {} THEN NoData ELSE h.map[Max(found)]

-----------------------------------------------------------------------------
(* Writes *)

(* Mutant of trim_deltas: what is removed is not added to the oldest epoch *)
trim_deltas_Drop(h, removed, to) == Restrict(h.map, DOMAIN h.map \ removed)

(* EpochedDelta::update_data: the deltas removed are summed into the oldest epoch *)
trim_deltas(h, removed, to) ==
    LET kept == DOMAIN h.map \ removed
    IN  [e \in kept \cup {to} |->
            IF e = to THEN Sum(h.map, removed \cup {to}) ELSE h.map[e]]

(* Epoched::update_data: the last value removed moves to the oldest epoch, unless
   that has one *)
trim_values(h, removed, to) ==
    LET kept == DOMAIN h.map \ removed
    IN  [e \in kept \cup {to} |->
            IF e \in kept THEN h.map[e] ELSE h.map[Max(removed)]]

(* The epochs that update_data removes *)
Outdated(h) == {e \in DOMAIN h.map : e >= h.oldest /\ e < sub_past_epochs(data_epoch)}

(* update_data of both kinds, given the map after trimming: nothing is moved when
   nothing was removed, and the first write decides the oldest epoch *)
update_data(h, trimmed) ==
    CASE h = Unwritten -> [h EXCEPT !.last_update = data_epoch, !.oldest = data_epoch]
      [] h # Unwritten /\ Outdated(h) = {} -> [h EXCEPT !.last_update = data_epoch]
      [] h # Unwritten /\ Outdated(h) # {} ->
            [last_update |-> data_epoch, oldest |-> sub_past_epochs(data_epoch),
             map |-> trimmed]

set_at_epoch(map, value, epoch) ==
    [e \in DOMAIN map \cup {epoch} |-> IF e = epoch THEN value ELSE map[e]]

Asked(h) == [past |-> past, oldest |-> Maximum(asked[h].oldest, sub_past_epochs(data_epoch))]

(* EpochedDelta::add *)
AddDelta(d, offset) ==
    LET to == sub_past_epochs(data_epoch)
        h  == update_data(deltas, trim_deltas(deltas, Outdated(deltas), to))
        at == data_epoch + offset
        Cur(map) == IF at \in DOMAIN map THEN map[at] ELSE 0
    IN  /\ writes < MaxWrites
        /\ deltas' = [h EXCEPT !.map = set_at_epoch(@, Cur(@) + d, at)]
        /\ written' = [written EXCEPT !.deltas = set_at_epoch(@, Cur(@) + d, at)]
        /\ asked' = [asked EXCEPT !["deltas"] = Asked("deltas")]
        /\ writes' = writes + 1
        /\ UNCHANGED <<data_epoch, past, discrete>>

(* Epoched::set *)
SetValue(v, offset) ==
    LET to == sub_past_epochs(data_epoch)
        h  == update_data(discrete, trim_values(discrete, Outdated(discrete), to))
        at == data_epoch + offset
    IN  /\ writes < MaxWrites
        /\ discrete' = [h EXCEPT !.map = set_at_epoch(@, v, at)]
        /\ written' = [written EXCEPT !.discrete = set_at_epoch(@, v, at)]
        /\ asked' = [asked EXCEPT !["discrete"] = Asked("discrete")]
        /\ writes' = writes + 1
        /\ UNCHANGED <<data_epoch, past, deltas>>

NextDataEpoch ==
    /\ data_epoch < MaxDataEpoch
    /\ data_epoch' = data_epoch + 1
    /\ UNCHANGED <<past, deltas, discrete, written, asked, writes>>

(* A governance proposal changes the parameters behind PastEpochs; nothing is
   trimmed until the next write *)
ChangeParameters(p) ==
    /\ writes < MaxWrites
    /\ p # past
    /\ past' = p
    /\ writes' = writes + 1
    /\ UNCHANGED <<data_epoch, deltas, discrete, written, asked>>

EpochedNext ==
    \/ \E d \in Delta, o \in 0..future_epochs : AddDelta(d, o)
    \/ \E v \in EpochedValue, o \in 0..future_epochs : SetValue(v, o)
    \/ NextDataEpoch
    \/ \E p \in PastEpochs : ChangeParameters(p)

EpochedSpec == EpochedInit /\ [][EpochedNext]_epochedVars

-----------------------------------------------------------------------------
(* Properties *)

DeltasThrough(epoch) == Sum(written.deltas, 0..epoch)

ValueAt(epoch) ==
    LET before == {e \in DOMAIN written.discrete : e <= epoch}
    IN  IF before = {} THEN NoData ELSE written.discrete[Max(before)]

(* As long as the parameters ask for no fewer epochs than at a write, every epoch
   from the oldest that they asked to keep reads as if nothing had ever been
   trimmed: trimming moves what is older, and only that, into the oldest epoch,
   whatever was raised or lowered before (epoched.rs, update_data). *)
KeptEpochsExact ==
    \A e \in 0..(data_epoch + future_epochs) :
        /\ past >= asked["deltas"].past /\ e >= asked["deltas"].oldest =>
            get_sum(deltas, e) = DeltasThrough(e)
        /\ past >= asked["discrete"].past /\ e >= asked["discrete"].oldest =>
            get(discrete, e) = ValueAt(e)

(* The sum that is read for the current epoch is the sum of the deltas up through
   it, as the comment of get_sum says (epoched.rs:507). *)
CurrentSumExact == get_sum(deltas, data_epoch) = DeltasThrough(data_epoch)
===============================================================================
