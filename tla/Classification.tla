---------------------------- MODULE Classification ----------------------------
(***************************************************************************)
(* The classification engine (gulfwatch-classification: lib.rs), as        *)
(* operators on a parsed transaction: it derives the transfer legs as seen *)
(* from the focal account, the fee payer, asks its classifiers one after   *)
(* the other until one matches (the trace it keeps of them is left out).   *)
(* Programs are named by what the engine knows them for.                   *)
(***************************************************************************)
EXTENDS SequencesExt, Enumerations

-----------------------------------------------------------------------------
(* derive_features *)

\* A transaction's accounts begin with its fee payer.
Focal(tx) == tx.accounts[1]

Legal == {"TokenTransfer", "TokenTransferChecked", "SystemTransfer"}
DestinationAlwaysSecond(kind) == 2

DestinationIndex(kind) == IF kind = "TokenTransferChecked" THEN 3 ELSE 2

Direction(focal, source, destination) ==
    CASE source = destination -> "Internal"
      [] source # destination /\ focal = source -> "Outflow"
      [] source # destination /\ focal = destination -> "Inflow"
      [] OTHER -> "External"

Leg(tx, i) ==
    LET ix == tx.instructions[i]
        source == ix.accounts[1]
        destination == ix.accounts[DestinationIndex(ix.kind.kind)]
    IN  [index |-> i, source |-> source, destination |-> destination,
         amount |-> ix.kind.amount, sol |-> ix.kind.kind = "SystemTransfer",
         nft |-> ix.kind.kind = "TokenTransferChecked" /\ ix.kind.amount = 1 /\ ix.kind.decimals = 0,
         direction |-> Direction(Focal(tx), source, destination)]

\* A transfer whose accounts are too few to have a destination makes no leg.
Legs(tx) ==
    LET makes(ix) == ix.kind.kind \in Legal /\ Len(ix.accounts) >= DestinationIndex(ix.kind.kind)
        indices == InOrder({i \in DOMAIN tx.instructions : makes(tx.instructions[i])})
    IN  [k \in DOMAIN indices |-> Leg(tx, indices[k])]

\* sum_legs
Amounts(legs, direction, sols) ==
    Total([k \in DOMAIN legs |-> IF legs[k].direction = direction /\ legs[k].sol \in sols
                                 THEN legs[k].amount ELSE 0])

Kinds(tx) == {tx.instructions[i].kind.kind : i \in DOMAIN tx.instructions}

\* The names parsed from the data: those of IDLs and logs do not count here.
ParsedNames(tx) ==
    UNION {IF tx.instructions[i].kind.kind = "Other" THEN {tx.instructions[i].kind.name} ELSE {} :
              i \in DOMAIN tx.instructions}

Touches(tx, programs) == \E i \in DOMAIN tx.instructions : tx.instructions[i].program \in programs

Dexes == {"raydium", "jupiter"}
Stakes == {"stake", "stakePool"}

Features(tx, type) ==
    [legs |-> Legs(tx),
     authority |-> Kinds(tx) \cap {"SetAuthority", "Upgrade"} # {},
     swap |-> \/ ParsedNames(tx) \cap {<<"swap">>, <<"route">>, <<"sharedAccountsRoute">>} # {}
              \/ Touches(tx, Dexes)
              \/ type \in {<<"swap">>, <<"route">>},
     memo |-> Touches(tx, {"memo"}),
     bridge |-> Touches(tx, {"bridge"}),
     privacy |-> Touches(tx, {"privacy"}),
     nft |-> Touches(tx, {"nft"}),
     marketplace |-> Touches(tx, {"marketplace"}),
     stake |-> Touches(tx, Stakes),
     delegate |-> "StakeDelegate" \in Kinds(tx) \/ type = <<"StakeDelegate">>,
     withdraw |-> "StakeWithdraw" \in Kinds(tx) \/ type = <<"StakeWithdraw">>]

-----------------------------------------------------------------------------
(* The classifiers: the category each gives, or none *)

NoMatch == "none"

In(f) == Amounts(f.legs, "Inflow", BOOLEAN)
Out(f) == Amounts(f.legs, "Outflow", BOOLEAN)
SolIn(f) == Amounts(f.legs, "Inflow", {TRUE})
SolOut(f) == Amounts(f.legs, "Outflow", {TRUE})
Has(f, direction, nft) == \E i \in DOMAIN f.legs : f.legs[i].direction = direction /\ f.legs[i].nft = nft
Flows(f) == In(f) > 0 \/ Out(f) > 0

NftMoves(f) == Has(f, "Inflow", TRUE) \/ Has(f, "Outflow", TRUE)
NftTrade(f) ==
    IF Has(f, "Inflow", TRUE) /\ Has(f, "Outflow", FALSE) THEN "nft_purchase"
    ELSE IF Has(f, "Outflow", TRUE) /\ Has(f, "Inflow", FALSE) THEN "nft_sale"
    ELSE IF Has(f, "Inflow", TRUE) THEN "nft_receive" ELSE "nft_send"

If(condition, category) == IF condition THEN category ELSE NoMatch

AuthorityChangeThatWorked(tx, f) ==
    If(f.authority /\ tx.success, "security_authority_change")

AuthorityChange(tx, f) == If(f.authority, "security_authority_change")
FailedTx(tx, f) == If(~tx.success, "failed_transaction")
SolanaPay(tx, f) == If(f.memo /\ Flows(f), "solana_pay")
Bridge(tx, f) ==
    If(f.bridge /\ In(f) # Out(f), IF In(f) > Out(f) THEN "bridge_in" ELSE "bridge_out")
PrivacyCash(tx, f) ==
    If(f.privacy /\ Flows(f), IF Out(f) >= In(f) THEN "privacy_deposit" ELSE "privacy_withdraw")
NftMint(tx, f) == If(f.nft /\ Has(f, "Inflow", TRUE) /\ ~Has(f, "Outflow", TRUE), "nft_mint")
NftTransfer(tx, f) ==
    If((f.nft \/ f.marketplace \/ \E i \in DOMAIN f.legs : f.legs[i].nft) /\ NftMoves(f), NftTrade(f))
StakeDeposit(tx, f) == If(f.stake /\ f.delegate /\ SolOut(f) > 0, "stake_deposit")
StakeWithdraw(tx, f) == If(f.stake /\ f.withdraw /\ SolIn(f) > 0, "stake_withdraw")
Swap(tx, f) ==
    If(/\ f.swap /\ Len(f.legs) >= 2
       /\ \E i \in DOMAIN f.legs : f.legs[i].direction = "Inflow"
       /\ \E i \in DOMAIN f.legs : f.legs[i].direction = "Outflow", "defi_swap")
Airdrop(tx, f) ==
    If(~f.bridge /\ ~f.privacy /\ ~f.stake /\ In(f) > SolIn(f) /\ Out(f) = SolOut(f), "airdrop")
FeeOnly(tx, f) == If(tx.fee > 0 /\ f.legs = << >>, "fee_only")
Transfer(tx, f) ==
    If(/\ f.legs # << >> /\ ~f.swap /\ ~f.bridge /\ ~f.privacy
       /\ \A i \in DOMAIN f.legs : f.legs[i].nft => f.legs[i].direction = "Internal",
       IF Len(f.legs) = 1 THEN "token_transfer" ELSE "token_transfer_batch")
Fallback(tx, f) == "other"

-----------------------------------------------------------------------------
(* ClassificationService *)

FailedAskedLate == <<100, 9, 95, 88, 86, 85, 84, 82, 81, 80, 70, 60, 20, 0>>

\* The order of ClassificationService::new is that of the priorities already.
Priorities == <<100, 99, 95, 88, 86, 85, 84, 82, 81, 80, 70, 60, 20, 0>>

Answers(tx, f) ==
    <<AuthorityChange(tx, f), FailedTx(tx, f), SolanaPay(tx, f), Bridge(tx, f), PrivacyCash(tx, f),
      NftMint(tx, f), NftTransfer(tx, f), StakeDeposit(tx, f), StakeWithdraw(tx, f), Swap(tx, f),
      Airdrop(tx, f), FeeOnly(tx, f), Transfer(tx, f), Fallback(tx, f)>>

\* The classifiers are sorted by priority; those of one priority stay as they were.
AskedBefore(i, j) ==
    \/ Priorities[i] > Priorities[j]
    \/ Priorities[i] = Priorities[j] /\ i < j

\* The first asked that matches decides; the fallback always does.
Outcome(tx, type) ==
    LET f == Features(tx, type)
        answers == Answers(tx, f)
        matching == {i \in DOMAIN answers : answers[i] # NoMatch}
        first == CHOOSE i \in matching : \A j \in matching \ {i} : AskedBefore(i, j)
    IN  [category |-> answers[first], legs |-> f.legs]
=============================================================================
