------------------------------ MODULE Detections ------------------------------
(***************************************************************************)
(* The detections that keep no state (gulfwatch-core: detections/), as the *)
(* set of alerts they raise for a parsed transaction.                      *)
(***************************************************************************)
EXTENDS SequencesExt

Alert(rule, metric) == [rule |-> rule, metric |-> metric]

KindsIn(tx) == {tx.instructions[i].kind : i \in DOMAIN tx.instructions}
Sets(tx, type) == [kind |-> "SetAuthority", type |-> type] \in KindsIn(tx)
HasKind(tx, kinds) == \E k \in KindsIn(tx) : k.kind \in kinds

\* The first SetAuthority or Upgrade.
AuthorityChanged(tx) ==
    LET i == SelectInSeq(tx.instructions, LAMBDA ix : ix.kind.kind \in {"SetAuthority", "Upgrade"})
    IN  IF i = 0 THEN {} ELSE {Alert("authority_change", <<tx.instructions[i].kind.kind>>)}

TRANSFER_FEE_CONFIG == 4
PERMANENT_DELEGATE == 8
TRANSFER_HOOK_PROGRAM_ID == 10

Fire(rule, matched) == IF matched THEN {Alert(rule, <<rule>>)} ELSE {}

TransferHookUpgrade(tx) ==
    Fire("transfer_hook_upgrade", \/ HasKind(tx, {"InitializeTransferHook", "UpdateTransferHook"})
                                  \/ Sets(tx, TRANSFER_HOOK_PROGRAM_ID))
PermanentDelegate(tx) ==
    Fire("permanent_delegate", \/ HasKind(tx, {"InitializePermanentDelegate"})
                               \/ Sets(tx, PERMANENT_DELEGATE))
TransferFeeAuthority(tx) ==
    Fire("transfer_fee_authority_change", Sets(tx, TRANSFER_FEE_CONFIG))
DefaultStateFrozen(tx) ==
    Fire("default_account_state_frozen",
         \E k \in {"InitializeDefaultAccountState", "UpdateDefaultAccountState"} :
            [kind |-> k, frozen |-> TRUE] \in KindsIn(tx))

TokenTransfers == {"TokenTransfer", "TokenTransferChecked"}
Unknown == "?"

SourceOf(ix) == IF ix.accounts = << >> THEN Unknown ELSE ix.accounts[1]
DestinationOf(ix) ==
    LET at == IF ix.kind.kind = "TokenTransfer" THEN 2 ELSE 3
    IN  IF at \in DOMAIN ix.accounts THEN ix.accounts[at] ELSE Unknown

Above(amount, threshold) == amount > threshold

Reaches(amount, threshold) == amount >= threshold

\* The first transfer of at least the threshold out of a watched account.  Without
\* accounts to watch nothing is ever raised; u64::MAX as threshold is out of reach.
LargeTransfer(tx, watched, threshold) ==
    LET large(ix) == /\ ix.kind.kind \in TokenTransfers
                     /\ Reaches(ix.kind.amount, threshold)
                     /\ SourceOf(ix) \in watched
        i == SelectInSeq(tx.instructions, large)
    IN  IF i = 0 THEN {}
        ELSE {Alert("large_transfer", <<SourceOf(tx.instructions[i]), DestinationOf(tx.instructions[i])>>)}
=============================================================================
