------------------------------ MODULE TxAnalysis ------------------------------
(***************************************************************************)
(* A transaction on its way from the chain to the alerts: the client       *)
(* parses it (TxParser), and the worker names its instructions, classifies *)
(* it (Classification) and runs the stateless detections (Detections).     *)
(*                                                                         *)
(* The chain is external.  It lists instructions one by one and executes   *)
(* them: an instruction changes balances as its fields moves and also say, *)
(* the fee is taken, and a failed transaction changes nothing else.        *)
(* Wallets and the token accounts they own are different accounts.  How    *)
(* instructions get their names is NameResolution's part: here the IDLs    *)
(* name those of the programs in IdlNames, and the logs, if they are       *)
(* there, those in LogNames.                                               *)
(* Shapes[k] is what the k-th instruction can be; Loaded are the accounts  *)
(* that a lookup table supplies.                                           *)
(***************************************************************************)
EXTENDS TxParser, Classification, Detections, Integers

CONSTANTS
    Shapes, Keys, Loaded,
    TokenAccounts,          \* the accounts that can hold tokens
    Lamports, Tokens,       \* what each account holds at first
    Fee,
    IdlNames, LogNames,
    Monitored, Watched, Threshold

Instruction ==
    [program : STRING, accounts : Seq(STRING),
     data : [len : Nat, word : Nat, amount : Nat, decimals : Nat],
     moves : SUBSET [sol : BOOLEAN, from : STRING, to : STRING, amount : Nat],
     also : SUBSET [sol : BOOLEAN, account : STRING, by : Int]]

ASSUME ShapesAreInstructions == Shapes \in Seq(SUBSET Instruction)

\* What the data of a transfer says is in moves: the system program moves lamports,
\* and the token programs tokens, out of the first account into the second, or the
\* third with the mint between.  Whatever else an instruction of any kind changes is
\* in also: what creating or closing an account, minting, burning, a payout of the
\* stake program or a TransferCheckedWithFee do, and the fee of a token extension that
\* the destination of a checked transfer goes without.
TransferMoves(ix) ==
    LET kind == Classify(ix.program, ix.data)
        at == IF kind.kind = "TokenTransferChecked" THEN 3 ELSE 2
    IN  IF kind.kind \in TokenTransfers \cup {"SystemTransfer"}
        THEN /\ at <= Len(ix.accounts)
             /\ ix.moves = {[sol |-> kind.kind = "SystemTransfer", from |-> ix.accounts[1],
                              to |-> ix.accounts[at], amount |-> kind.amount]}
        ELSE ix.moves = {}

ASSUME TransfersMove == \A i \in DOMAIN Shapes : \A ix \in Shapes[i] : TransferMoves(ix)
ASSUME KeysAreNotLoaded ==
    /\ Keys \in Seq(STRING) \ {<< >>} /\ Loaded \in Seq(STRING)
    /\ ToSet(Keys) \cap ToSet(Loaded) = {}
\* A fee payer is an account of the system program, never one of a token program.
ASSUME FeePayerHoldsNoTokens == Keys[1] \notin TokenAccounts
ASSUME NumbersAreNat == Threshold \in Nat /\ Fee \in Nat

Accounts == Keys \o Loaded
ASSUME HoldingsAreNat == {Lamports, Tokens} \subseteq [DOMAIN Accounts -> Nat]

VARIABLES
    raw,        \* what the chain has
    stage,      \* "building", "parsed" or "processed"
    tx,         \* the Transaction
    result      \* [type, headline, category, legs, alerts]
analysisVars == <<raw, stage, tx, result>>

Count == Len(raw.top) + Len(raw.inner)
None == [none |-> TRUE]

AnalysisInit ==
    /\ raw = [keys |-> Keys, top |-> << >>, inner |-> << >>]
    /\ stage = "building" /\ tx = None /\ result = None

List(where) ==
    /\ stage = "building" /\ Count < Len(Shapes)
    /\ \E ix \in Shapes[Count + 1] : raw' = [raw EXCEPT ![where] = Append(@, ix)]
    /\ UNCHANGED <<stage, tx, result>>

ListTop == raw.inner = << >> /\ List("top")
ListInner == raw.top # << >> /\ List("inner")

Listing == raw.top \o raw.inner

\* What account a gains when an amount is moved.
Flow(from, to, amount, a) == (IF to = a THEN amount ELSE 0) - (IF from = a THEN amount ELSE 0)

\* What account a gains by what an instruction moves, in lamports (sol) or tokens, and
\* by what else it does.
Moved(ix, a, sol) ==
    IF \E m \in ix.moves : m.sol = sol
    THEN LET m == CHOOSE m \in ix.moves : m.sol = sol IN Flow(m.from, m.to, m.amount, a)
    ELSE 0
Also(ix, a, sol) ==
    IF \E c \in ix.also : c.sol = sol /\ c.account = a
    THEN (CHOOSE c \in ix.also : c.sol = sol /\ c.account = a).by ELSE 0

Gained(a, sol) ==
    Total([i \in DOMAIN Listing |-> Moved(Listing[i], a, sol) + Also(Listing[i], a, sol)])

\* An instruction that would change the tokens of another account fails.
Possible(ix) ==
    /\ \A m \in ix.moves : ~m.sol => {m.from, m.to} \subseteq TokenAccounts
    /\ \A c \in ix.also : ~c.sol => c.account \in TokenAccounts

\* Token accounts that hold nothing are not listed.
Listed(held) ==
    [key \in {<<i, "mint">> : i \in {i \in DOMAIN held : held[i] # 0}} |-> held[key[1]]]

Executed(failed) ==
    LET after(before, sol) ==
            [i \in DOMAIN Accounts |-> before[i] + IF failed THEN 0 ELSE Gained(Accounts[i], sol)]
        lamports == after(Lamports, TRUE)
    IN  [keys |-> raw.keys, top |-> raw.top, inner |-> raw.inner,
         failed |-> failed, fee |-> Fee,
         pre |-> Lamports, post |-> [lamports EXCEPT ![1] = @ - Fee],
         preTokens |-> Listed(Tokens), postTokens |-> Listed(after(Tokens, FALSE))]

\* Nobody spends what they do not have.
Parse(failed) ==
    /\ stage = "building" /\ raw.top # << >>
    /\ failed \/ \A i \in DOMAIN Listing : Possible(Listing[i])
    /\ raw' = Executed(failed)
    /\ \A i \in DOMAIN Accounts : raw'.post[i] >= 0
    /\ \A key \in DOMAIN raw'.postTokens : raw'.postTokens[key] >= 0
    /\ tx' = ParseTransaction(raw', Monitored)
    /\ stage' = "parsed"
    /\ UNCHANGED result

-----------------------------------------------------------------------------
(* The worker *)

NameOf(ix, logged) ==
    IF ix.program \in DOMAIN IdlNames THEN IdlNames[ix.program]
    ELSE IF logged /\ ix.program \in DOMAIN LogNames THEN LogNames[ix.program] ELSE << >>

Named(logged) ==
    LET list == tx.instructions
    IN  [tx EXCEPT !.instructions =
            [i \in DOMAIN list |-> [list[i] EXCEPT !.name = NameOf(list[i], logged)]]]

\* Some of the parsed kinds are names like others to the classifiers.
ToClassification(list) ==
    LET opaque == {"InitializeTransferHook", "UpdateTransferHook", "SetTransferFee",
                   "InitializePermanentDelegate", "InitializeDefaultAccountState",
                   "UpdateDefaultAccountState"}
    IN  [i \in DOMAIN list |-> IF list[i].kind.kind \in opaque
                               THEN [list[i] EXCEPT !.kind = Other(<<@.kind>>)] ELSE list[i]]

Detect(t) ==
    AuthorityChanged(t) \cup TransferHookUpgrade(t) \cup PermanentDelegate(t)
    \cup TransferFeeAuthority(t) \cup DefaultStateFrozen(t)
    \cup LargeTransfer(t, Watched, Threshold)

\* Transactions of programs that are not monitored are dropped.
Process(logged) ==
    /\ stage = "parsed" /\ tx.program \in Monitored
    /\ tx' = Named(logged)
    /\ LET list == tx'.instructions
           type == InstructionType(list)
           outcome == Outcome([tx' EXCEPT !.instructions = ToClassification(list)], type)
       IN  result' = [type |-> type, headline |-> Headline(list), alerts |-> Detect(tx'),
                      category |-> outcome.category, legs |-> outcome.legs]
    /\ stage' = "processed"
    /\ UNCHANGED raw

AnalysisNext ==
    \/ ListTop \/ ListInner
    \/ \E failed \in BOOLEAN : Parse(failed)
    \/ \E logged \in BOOLEAN : Process(logged)

AnalysisSpec == AnalysisInit /\ [][AnalysisNext]_analysisVars

-----------------------------------------------------------------------------
(* Properties *)

Processed == stage = "processed"
AllInKeys ==
    \A i \in DOMAIN Listing :
        ToSet(Listing[i].accounts) \cup {Listing[i].program} \subseteq ToSet(raw.keys)

Delta(diffs, i) ==
    IF \E d \in diffs : d.index = i THEN (CHOOSE d \in diffs : d.index = i).delta ELSE 0

\* What the balances of the i-th account changed by, the fee apart.
Net(i, sol) ==
    IF sol THEN Delta(tx.sol, i) + (IF i = 1 THEN Fee ELSE 0) ELSE Delta(tx.tokens, i)

\* The part of it that no transfer moved, and the rest.
Unseen(i, sol) == Total([k \in DOMAIN Listing |-> Also(Listing[k], Keys[i], sol)])
ByTransfers(i, sol) == Net(i, sol) - Unseen(i, sol)

\* What the legs say agrees with what the balances say, account by account, though
\* one is read from the data of the instructions and the other from the metadata: the
\* legs leave out what no transfer moved, and nothing else, in a successful transaction
\* without loaded accounts (lib.rs:919-992, parser.rs:161-271).
LegsExplainBalances ==
    Processed /\ tx.success /\ AllInKeys =>
        \A i \in DOMAIN Keys : \A sol \in BOOLEAN :
            LET flow(l) ==
                    IF l.sol = sol THEN Flow(l.source, l.destination, l.amount, Keys[i]) ELSE 0
            IN  Total([k \in DOMAIN result.legs |-> flow(result.legs[k])]) = ByTransfers(i, sol)

Large(m) == ~m.sol /\ m.amount >= Threshold /\ m.from \in Watched

\* A successful transaction without loaded accounts raises a large transfer alert
\* if and only if a Transfer or TransferChecked moves as many tokens out of a watched
\* account, and the alert names the accounts of such a move (large_transfer.rs:43-86).
\* Tokens that leave by other instructions, a TransferCheckedWithFee too, raise none.
LargeTransfersAreReal ==
    Processed /\ tx.success /\ AllInKeys =>
        LET moved == {<<m.from, m.to>> :
                        m \in {m \in UNION {Listing[i].moves : i \in DOMAIN Listing} : Large(m)}}
            raised == {a.metric : a \in {a \in result.alerts : a.rule = "large_transfer"}}
        IN  /\ raised \subseteq moved
            /\ moved # {} => raised # {}

Rules == {a.rule : a \in result.alerts}

\* Category, alerts and headline, each with its own reading of the kinds, agree on
\* what an authority change is, also in a failed transaction; an authority of a token
\* extension never changes without that alert (lib.rs:133-163, authority_change.rs,
\* token2022.rs, transaction.rs:72-99).
AuthorityIsAgreedOn ==
    Processed =>
        /\ "authority_change" \in Rules <=> result.category = "security_authority_change"
        /\ "transfer_fee_authority_change" \in Rules => "authority_change" \in Rules
        /\ "permanent_delegate" \in Rules /\ "InitializePermanentDelegate" \notin Kinds(tx)
            => "authority_change" \in Rules
        /\ "authority_change" \in Rules =>
            tx.instructions[result.headline].kind.kind \in {"SetAuthority", "Upgrade"}

OfTokens == {"airdrop", "nft_mint", "nft_purchase", "nft_sale", "nft_receive", "nft_send"}

\* The category fits the balances as far as transfers moved them, though it is found
\* from the instructions alone, by classifiers asked one after the other (lib.rs:133-815).
\* A failed transaction has none that says something moved.  Where all accounts are in
\* the keys, what is in for the fee payer is a gain of lamports, what is out a loss.
\* The categories that need tokens to reach or leave the fee payer are never given:
\* tokens are in token accounts, and the legs compare those with its wallet.  And a
\* fee_only transaction is one without transfers, not one that changed nothing but the
\* fee: what other instructions changed is not looked at.
CategoryMatchesTheBalances ==
    Processed =>
        /\ ~tx.success => result.category \in {"security_authority_change", "failed_transaction"}
        /\ tx.success => result.category # "failed_transaction"
        /\ tx.success /\ AllInKeys =>
            /\ result.category \in {"bridge_in", "privacy_withdraw"} => ByTransfers(1, TRUE) > 0
            /\ result.category = "bridge_out" => ByTransfers(1, TRUE) < 0
            /\ result.category = "privacy_deposit" => ByTransfers(1, TRUE) <= 0
            /\ result.category \notin OfTokens
            /\ result.category = "fee_only" =>
                \A i \in DOMAIN Keys : \A sol \in BOOLEAN : ByTransfers(i, sol) = 0
=============================================================================
