------------------------------ MODULE Governance ------------------------------
(***************************************************************************)
(* On-chain governance: deposits, proposals and votes as the governance VP  *)
(* lets them into storage (crates/namada/src/ledger/governance/mod.rs), and *)
(* their tally and execution at the start of the activation epoch           *)
(* (shell/governance.rs and crates/governance/src/utils.rs), while bonds    *)
(* change and validators are jailed.                                        *)
(*                                                                          *)
(* Proposal ids are positions in the sequence of proposals.  There is one   *)
(* author, who may be a steward, and one target of public goods funding.    *)
(* Left out: transactions that write keys of a proposal that is already     *)
(* stored, proposal contents and their sizes, the payment of continuous     *)
(* fundings with inflation, transfers over IBC.                             *)
(***************************************************************************)
EXTENDS Integers, Sequences, FiniteSets, SequencesExt, FiniteSetsExt

CONSTANTS
    GovValidator,         \* a sequence: validators in the order of their vote keys
    GovDelegator,         \* delegators
    self_bond, delegation, \* genesis bonds
    Kind,                 \* the kinds of proposals made, see Kinds
    gov_pipeline,         \* pipeline_len
    min_grace_epochs, min_voting_period, max_proposal_period, max_latency,
    MinFunds,             \* values of the parameter min_proposal_fund
    author_funds, pgf_funds, retro_amount,
    GenesisStewards,      \* the sets of stewards that genesis may have
    MaxGovEpoch, MaxGovSteps, \* bounds: epochs; deposits or proposals, votes and stake changes
    MaxDeposit, MaxMade   \* bounds: what a transaction deposits, and how many
                          \* proposals it makes

Kinds == {"Default", "WasmOk", "WasmFails", "AddSteward", "RemoveSteward",
          "Retro", "AddFunding", "RemoveFunding"}
PgfPayment == {"Retro", "AddFunding", "RemoveFunding"}
Side == {"yay", "nay", "abstain"}
Val == ToSet(GovValidator)
GovEpoch == 0..MaxGovEpoch

ASSUME GovAssumption ==
    /\ Kind \subseteq Kinds
    /\ self_bond \in [Val -> Nat]
    /\ delegation \in [GovDelegator \X Val -> Nat]
    /\ {gov_pipeline, min_grace_epochs, min_voting_period} \subseteq Nat \ {0}
    /\ MinFunds \subseteq Nat
    /\ GenesisStewards \subseteq SUBSET {"author"}

VARIABLES
    gov_epoch,
    proposals,      \* sequence of proposals in storage
    votes,          \* proposal id, voter and validator to the side voted for
    bonds,          \* epoch to the delegations of that epoch
    active,         \* epoch to the total active stake, a sum of deltas
    jailed,         \* epoch to the jailed validators
    min_funds,      \* the parameter min_proposal_fund
    account,        \* native token: author, gov, pgf, target and what was burnt
    stewards, fundings,
    results,        \* the stored results, in the order of execution
    code_writes,    \* the proposals whose code has its writes in storage
    tx_log,         \* those whose code has its writes in the transaction log
    gov_error,      \* finalize_block has returned an error
    deposits,       \* the deposits and the proposals they are for (history only)
    spent           \* deposits or proposals, votes and stake changes, for their bound

txVars == <<proposals, votes, bonds, active, jailed, deposits, spent>>
blockVars == <<min_funds, account, stewards, fundings, results, code_writes, tx_log>>
govVars == <<gov_epoch, txVars, blockVars, gov_error>>

GovInit ==
    /\ gov_epoch = 0
    /\ proposals = <<>>
    /\ votes = <<>>
    /\ bonds = [e \in GovEpoch |-> delegation]
    /\ active = [e \in GovEpoch |-> MapThenSumSet(LAMBDA v : self_bond[v], Val)
                     + MapThenSumSet(LAMBDA dv : delegation[dv], GovDelegator \X Val)]
    /\ jailed = [e \in GovEpoch |-> {}]
    /\ min_funds \in MinFunds
    /\ account = [author |-> author_funds, gov |-> 0, pgf |-> pgf_funds, target |-> 0,
                  burnt |-> 0]
    /\ stewards \in GenesisStewards
    /\ fundings = {}
    /\ results = <<>>
    /\ code_writes = {} /\ tx_log = {}
    /\ gov_error = FALSE
    /\ deposits = <<>>
    /\ spent = 0

-----------------------------------------------------------------------------
(* Transactions *)

(* is_valid_start_epoch, is_valid_end_epoch and is_valid_activation_epoch *)
ValidEpochs(start, end, activation) ==
    /\ start > gov_epoch /\ start - gov_epoch <= max_latency
    /\ end > start
    /\ (end - start) % min_voting_period = 0
    /\ end - start <= max_proposal_period
    /\ activation > end /\ activation - end >= min_grace_epochs
    /\ activation - start <= max_proposal_period

(* The author pays an amount into the governance account.  is_valid_funds relates
   the funds of a proposal to what the account gained in its transaction,
   is_valid_balance is for every change of the account. *)
is_valid_funds(funds, amount) == funds >= min_funds /\ funds = amount
is_valid_balance(amount) == amount > 0 /\ amount >= min_funds

(* What may be written under a new id next to a deposit *)
NewProposals(amount) ==
    {p \in [kind : Kind, start : GovEpoch, end : GovEpoch, activation : GovEpoch,
            funds : {amount}] :
        ValidEpochs(p.start, p.end, p.activation) /\ is_valid_funds(p.funds, amount)}

(* validate_tx.  init_proposal makes one proposal with the minimal funds; the
   validity predicate also lets in a larger deposit, a deposit with no proposal,
   and several proposals next to one deposit, each compared with all of it. *)
InitProposals(amount) ==
    /\ spent < MaxGovSteps
    /\ amount <= account.author
    /\ is_valid_balance(amount)
    /\ account' = [account EXCEPT !.author = @ - amount, !.gov = @ + amount]
    /\ \E made \in BoundedSeq(NewProposals(amount), MaxMade) :
        /\ spent' = spent + Max({1, Len(made)}) /\ spent' <= MaxGovSteps
        /\ proposals' = proposals \o made
        /\ deposits' = Append(deposits, [amount |-> amount,
                ids |-> (Len(proposals) + 1)..(Len(proposals) + Len(made))])
    /\ UNCHANGED <<gov_epoch, votes, bonds, active, jailed, min_funds, stewards,
                   fundings, results, code_writes, tx_log, gov_error>>

is_valid_validator_voting_period(p) ==
    gov_epoch >= p.start /\ gov_epoch * 3 <= p.start + p.end * 2

is_valid_voting_window(p) == gov_epoch >= p.start /\ gov_epoch <= p.end

(* is_valid_vote_key.  A delegator is someone who had a bond when the vote
   started; nothing relates the validator of the key to their bonds. *)
VoteProposal(id, voter, validator, side) ==
    LET p == proposals[id]
    IN  /\ spent < MaxGovSteps
        /\ is_valid_voting_window(p)
        /\ \/ voter = validator /\ is_valid_validator_voting_period(p)
           \/ voter \in GovDelegator /\ \E v \in Val : bonds[p.start][voter, v] > 0
        /\ votes' = [k \in DOMAIN votes \cup {<<id, voter, validator>>} |->
                        IF k = <<id, voter, validator>> THEN side ELSE votes[k]]
        /\ spent' = spent + 1
        /\ UNCHANGED <<gov_epoch, proposals, bonds, active, jailed, deposits, blockVars,
                       gov_error>>

(* Bonds and unbonds count from the pipeline epoch on, for the total active stake
   only if the validator is not jailed at that epoch *)
ChangeBond(d, v, amount) ==
    LET offset_epoch == gov_epoch + gov_pipeline
        Change(e) == amount - bonds[e][d, v]
    IN  /\ spent < MaxGovSteps
        /\ offset_epoch <= MaxGovEpoch
        /\ Change(offset_epoch) # 0
        /\ bonds' = [e \in GovEpoch |-> IF e >= offset_epoch
                                        THEN [bonds[e] EXCEPT ![d, v] = amount] ELSE bonds[e]]
        /\ active' = [e \in GovEpoch |-> IF e >= offset_epoch /\ v \notin jailed[offset_epoch]
                                         THEN active[e] + Change(e) ELSE active[e]]
        /\ spent' = spent + 1
        /\ UNCHANGED <<gov_epoch, proposals, votes, jailed, deposits, blockVars, gov_error>>

(* Jailing counts from the next epoch on and leaves the total active stake *)
JailValidator(v) ==
    /\ spent < MaxGovSteps
    /\ jailed' = [e \in GovEpoch |-> IF e > gov_epoch THEN jailed[e] \cup {v} ELSE jailed[e]]
    /\ spent' = spent + 1
    /\ UNCHANGED <<gov_epoch, proposals, votes, bonds, active, deposits, blockVars, gov_error>>

-----------------------------------------------------------------------------
(* The tally *)

validator_stake(v, epoch) ==
    self_bond[v] + MapThenSumSet(LAMBDA d : bonds[epoch][d, v], GovDelegator)

(* read_total_active_stake: the sum of the deltas, not of the stakes *)
total_active_stake(epoch) == active[epoch]

(* compute_proposal_votes: the votes that concern active validators; the vote of
   a delegator is the one of the last key read *)
compute_proposal_votes(id, epoch) ==
    LET Counted(w, v) == <<id, w, v>> \in DOMAIN votes /\ v \notin jailed[epoch]
        Voted(d) == SelectSeq(GovValidator, LAMBDA v : Counted(d, v))
    IN  [validators |-> [v \in {u \in Val : Counted(u, u)} |-> votes[id, v, v]],
         delegators |-> [d \in {c \in GovDelegator : Voted(c) # <<>>} |->
                            votes[id, d, Last(Voted(d))]],
         delegations |-> {<<d, v>> \in GovDelegator \X Val : Counted(d, v)}]

Power(side, amount) == [s \in Side |-> IF s = side THEN amount ELSE 0]
Plus(p, q)  == [s \in Side |-> p[s] + q[s]]
Minus(p, q) == [s \in Side |-> p[s] - q[s]]
NoPower == [s \in Side |-> 0]

(* Mutant of Override: abstaining validators keep the stake of their delegators *)
Override_KeepAbstain(power, cast, dv, amount) ==
    LET mine == cast.delegators[dv[1]]
    IN  IF dv[2] \in DOMAIN cast.validators
        THEN IF cast.validators[dv[2]] = mine THEN power
             ELSE IF cast.validators[dv[2]] = "abstain" THEN Plus(power, Power(mine, amount))
             ELSE Minus(Plus(power, Power(mine, amount)),
                        Power(cast.validators[dv[2]], amount))
        ELSE Plus(power, Power(mine, amount))

(* A delegator's stake moves from the side of the validator to their own; it is
   only added when the validator did not vote *)
Override(power, cast, dv, amount) ==
    LET mine == cast.delegators[dv[1]]
    IN  IF dv[2] \in DOMAIN cast.validators
        THEN IF cast.validators[dv[2]] = mine THEN power
             ELSE Minus(Plus(power, Power(mine, amount)),
                        Power(cast.validators[dv[2]], amount))
        ELSE Plus(power, Power(mine, amount))

(* compute_proposal_result, the sums: validators first, then their delegators *)
TallyPower(cast, epoch) ==
    LET AddValidator(power, v) ==
            Plus(power, Power(cast.validators[v], validator_stake(v, epoch)))
        AddDelegation(power, dv) == Override(power, cast, dv, bonds[epoch][dv])
    IN  FoldLeft(AddDelegation,
                 FoldLeft(AddValidator, NoPower, SetToSeq(DOMAIN cast.validators)),
                 SetToSeq(cast.delegations))

Ceil(a, num, den) == (a * num + den - 1) \div den
Voted(p) == p["yay"] + p["nay"] + p["abstain"]

(* TallyType::from and TallyResult::new *)
Passes(kind, is_steward, p, total) ==
    IF kind \notin PgfPayment \cup {"AddSteward", "RemoveSteward"}
    THEN /\ Voted(p) >= Ceil(total, 2, 3)
         /\ p["yay"] >= Ceil(p["yay"] + p["nay"], 2, 3)
    ELSE IF kind \in PgfPayment /\ is_steward
    THEN Voted(p) < Ceil(total, 1, 3) \/ p["yay"] > p["nay"]
    ELSE Voted(p) >= Ceil(total, 1, 3) /\ p["yay"] > p["nay"]

two_thirds_nay_over_two_thirds_total(p, total) ==
    /\ Voted(p) >= Ceil(total, 2, 3)
    /\ p["nay"] >= Ceil(p["yay"] + p["nay"], 2, 3)

-----------------------------------------------------------------------------
(* Execution.  The state of a block's governance is a record, so that the       *)
(* proposals of one epoch are executed one after the other.                     *)

GovState == [min_funds |-> min_funds, account |-> account, stewards |-> stewards,
             fundings |-> fundings, results |-> results, code_writes |-> code_writes,
             tx_log |-> tx_log, error |-> FALSE]

(* The code of a proposal writes, in the transaction log, a key of its own, and
   code that succeeds the parameter min_proposal_fund; what is in the log is
   committed as a whole. *)
dispatch_tx(s, id) == [s EXCEPT !.tx_log = @ \cup {id}]

OtherMinFunds(m) == CHOOSE n \in MinFunds : n # m \/ MinFunds = {m}

commit_tx(s) ==
    [s EXCEPT !.code_writes = @ \cup s.tx_log, !.tx_log = {}, !.min_funds = OtherMinFunds(@)]

(* Mutant of drop_tx: what the failed code wrote stays in the log *)
drop_tx_Keep(s) == s

drop_tx(s) == [s EXCEPT !.tx_log = {}]

(* execute_default_proposal.  A Default proposal has no code, so that running it
   fails at once; other code may fail after it has written. *)
execute_default_proposal(s, id, kind) ==
    CASE kind = "Default"   -> drop_tx(s)
      [] kind = "WasmFails" -> drop_tx(dispatch_tx(s, id))
      [] kind = "WasmOk"    -> commit_tx(dispatch_tx(s, id))

(* What a passed proposal does.  A retroactive payment that the account cannot
   pay is logged and passed over. *)
ExecuteProposal(s, id, kind) ==
    CASE kind \in {"Default", "WasmOk", "WasmFails"} -> execute_default_proposal(s, id, kind)
      [] kind = "AddSteward"    -> [s EXCEPT !.stewards = @ \cup {"author"}]
      [] kind = "RemoveSteward" -> [s EXCEPT !.stewards = @ \ {"author"}]
      [] kind = "AddFunding"    -> [s EXCEPT !.fundings = @ \cup {"target"}]
      [] kind = "RemoveFunding" -> [s EXCEPT !.fundings = @ \ {"target"}]
      [] kind = "Retro" ->
            IF s.account.pgf < retro_amount THEN s
            ELSE [s EXCEPT !.account.pgf = @ - retro_amount,
                           !.account.target = @ + retro_amount]

(* The author of a passed proposal gets the funds back, those of a rejected one
   are burnt.  A refund that the account cannot pay is an error of finalize_block;
   of what is to be burnt, at most the balance is. *)
Refund(s, funds) ==
    IF s.account.gov < funds THEN [s EXCEPT !.error = TRUE]
    ELSE [s EXCEPT !.account.gov = @ - funds, !.account.author = @ + funds]

(* Mutant of burn_tokens: the parameter of today is burnt, not the funds locked *)
burn_tokens_Today(s, funds) ==
    LET burnt == IF s.account.gov >= s.min_funds THEN s.min_funds ELSE s.account.gov
    IN  [s EXCEPT !.account.gov = @ - burnt, !.account.burnt = @ + burnt]

burn_tokens(s, funds) ==
    LET burnt == IF s.account.gov >= funds THEN funds ELSE s.account.gov
    IN  [s EXCEPT !.account.gov = @ - burnt, !.account.burnt = @ + burnt]

(* One round of the loop of execute_governance_proposals *)
ExecuteOne(s, id) ==
    LET p      == proposals[id]
        power  == TallyPower(compute_proposal_votes(id, p.end), p.end)
        total  == total_active_stake(p.end)
        passed == Passes(p.kind, "author" \in s.stewards, power, total)
        stored == [s EXCEPT !.results = Append(@, [id |-> id, power |-> power,
                                                   passed |-> passed])]
        kept   == IF p.kind \in PgfPayment /\ two_thirds_nay_over_two_thirds_total(power, total)
                  THEN [stored EXCEPT !.stewards = @ \ {"author"}] ELSE stored
    IN  IF s.error THEN s
        ELSE IF passed THEN Refund(ExecuteProposal(stored, id, p.kind), p.funds)
        ELSE burn_tokens(kept, p.funds)

(* load_proposals: the ids whose committing key has this epoch, in order *)
load_proposals(epoch) ==
    SelectSeq([i \in 1..Len(proposals) |-> i], LAMBDA i : proposals[i].activation = epoch)

(* finalize_block of governance in the first block of an epoch.  A block that ends
   in an error is not committed, and ends the same way when it is executed again. *)
NewGovEpoch ==
    /\ gov_epoch < MaxGovEpoch
    /\ \E s \in {FoldLeft(ExecuteOne, GovState, load_proposals(gov_epoch + 1))} :
        /\ gov_error' = s.error
        /\ IF s.error THEN UNCHANGED <<gov_epoch, blockVars>>
           ELSE /\ gov_epoch' = gov_epoch + 1
                /\ min_funds' = s.min_funds
                /\ account' = s.account
                /\ stewards' = s.stewards
                /\ fundings' = s.fundings
                /\ results' = s.results
                /\ code_writes' = s.code_writes
                /\ tx_log' = s.tx_log
    /\ UNCHANGED txVars

GovNext ==
    /\ ~gov_error
    /\ \/ \E amount \in 1..MaxDeposit : InitProposals(amount)
       \/ \E id \in 1..Len(proposals), v \in Val, side \in Side :
            \E voter \in GovDelegator \cup {v} : VoteProposal(id, voter, v, side)
       \/ \E d \in GovDelegator, v \in Val : ChangeBond(d, v, 0) \/ ChangeBond(d, v, 2)
       \/ \E v \in Val : JailValidator(v)
       \/ NewGovEpoch

GovSpec == GovInit /\ [][GovNext]_govVars

-----------------------------------------------------------------------------
(* Properties *)

executed == {results[i].id : i \in 1..Len(results)}

OwnDeposits == \A i \in 1..Len(deposits) : Cardinality(deposits[i].ids) <= 1
Donated == {i \in 1..Len(deposits) : deposits[i].ids = {}}

(* Unless several proposals were made next to one deposit, the governance account
   holds exactly the funds of the proposals that are not executed yet and the
   deposits made for none, so that every refund can be paid: whatever the
   parameter has become since a proposal was made, and whatever other proposals
   of the same epoch did, its own funds are paid back or burnt.  In any case no
   token is made or lost (shell/governance.rs, is_valid_funds). *)
EscrowExactUnlessShared ==
    /\ OwnDeposits =>
        /\ ~gov_error
        /\ account.gov
            = MapThenSumSet(LAMBDA id : proposals[id].funds, DOMAIN proposals \ executed)
              + MapThenSumSet(LAMBDA i : deposits[i].amount, Donated)
    /\ account.author + account.gov + account.pgf + account.target + account.burnt
        = author_funds + pgf_funds

(* Of the proposals executed so far, storage has the writes of exactly those that
   passed and whose code succeeded: code that fails after it has written leaves
   nothing in the log for a later proposal, or for the block's transactions, to
   commit, and takes nothing away from an earlier one (execute_default_proposal). *)
OnlyAcceptedCodeStays ==
    /\ code_writes = {results[i].id : i \in {j \in 1..Len(results) :
                        results[j].passed /\ proposals[results[j].id].kind = "WasmOk"}}
    /\ tx_log = {}

(* Who decides about a part of a validator's stake at the end of the vote: the
   delegator that owns it if they voted through that validator, else the
   validator, if they voted.  A delegator has one side, however they voted. *)
Decided(cast, d, v) ==
    IF <<d, v>> \in cast.delegations THEN {cast.delegators[d]}
    ELSE IF v \in DOMAIN cast.validators THEN {cast.validators[v]} ELSE {}

(* The stored result of a proposal counts every bond of an active validator
   once, for the side that its owner or their validator voted for, as bonds,
   states and votes stand at the end of the vote: nothing that happens in the
   grace epochs changes it, and no sum underflows (compute_proposal_result). *)
TallyExact ==
    \A i \in 1..Len(results) :
        LET id  == results[i].id
            end == proposals[id].end
            cast == compute_proposal_votes(id, end)
            Own(v) == IF <<id, v, v>> \in DOMAIN votes /\ v \notin jailed[end]
                      THEN {votes[id, v, v]} ELSE {}
            Counts(side) ==
                MapThenSumSet(LAMBDA v : self_bond[v], {v \in Val : side \in Own(v)})
                + MapThenSumSet(LAMBDA dv : bonds[end][dv],
                                {dv \in GovDelegator \X Val : side \in Decided(cast, dv[1], dv[2])})
        IN  \A side \in Side : results[i].power[side] = Counts(side)
===============================================================================
