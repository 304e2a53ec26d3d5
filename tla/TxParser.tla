------------------------------- MODULE TxParser -------------------------------
(***************************************************************************)
(* What becomes of an answer to getTransaction (gulfwatch-ingest:          *)
(* parser.rs; gulfwatch-core: transaction.rs), as operators.               *)
(*                                                                         *)
(* A raw transaction has the account keys of its message, its top level    *)
(* instructions, those called from them, its error and its balances.       *)
(* Accounts are named, not indexed: what an index of an instruction means  *)
(* is an account, and one that a lookup table supplied is not among the    *)
(* keys.  Instruction data is [len, word, amount, decimals]: its length,   *)
(* its first four bytes (little endian, zero beyond len), and what stands  *)
(* where a transfer has its amount and decimals.  The two names the parser *)
(* knows Jupiter's eight bytes by are the words Route and SharedRoute.     *)
(* Names are tuples: <<"ix", 7>> is "ix_7".                                *)
(***************************************************************************)
EXTENDS SequencesExt, Enumerations

Byte(d, i) == (d.word \div (256 ^ i)) % 256
Tag(d) == Byte(d, 0)
Route == 229
SharedRoute == 193

Kind(k) == [kind |-> k]
Other(name) == [kind |-> "Other", name |-> name]

-----------------------------------------------------------------------------
(* classify_instruction *)

SplToken(d) ==
    CASE Tag(d) = 3 /\ d.len >= 9 -> [kind |-> "TokenTransfer", amount |-> d.amount]
      [] Tag(d) = 6 -> [kind |-> "SetAuthority", type |-> IF d.len >= 2 THEN Byte(d, 1) ELSE 255]
      [] Tag(d) = 12 /\ d.len >= 10 ->
            [kind |-> "TokenTransferChecked", amount |-> d.amount, decimals |-> d.decimals]
      [] OTHER -> Other(<<"token_ix", Tag(d)>>)

Frozen(k, d) == [kind |-> k, frozen |-> Byte(d, 2) = 2]

\* Where the extension's data is cut short or unknown, the tag is SPL Token's.
Token2022(d) ==
    CASE Tag(d) = 26 /\ d.len >= 2 /\ Byte(d, 1) \in {0, 5} -> Kind("SetTransferFee")
      [] Tag(d) = 28 /\ d.len >= 3 /\ Byte(d, 1) = 0 -> Frozen("InitializeDefaultAccountState", d)
      [] Tag(d) = 28 /\ d.len >= 3 /\ Byte(d, 1) = 1 -> Frozen("UpdateDefaultAccountState", d)
      [] Tag(d) = 35 -> Kind("InitializePermanentDelegate")
      [] Tag(d) = 36 /\ d.len >= 2 /\ Byte(d, 1) = 0 -> Kind("InitializeTransferHook")
      [] Tag(d) = 36 /\ d.len >= 2 /\ Byte(d, 1) = 1 -> Kind("UpdateTransferHook")
      [] OTHER -> SplToken(d)

System(d) ==
    IF d.len >= 12 /\ d.word = 2 THEN [kind |-> "SystemTransfer", amount |-> d.amount]
    ELSE Other(<<"system_ix", Tag(d)>>)

Stake(d) ==
    CASE d.len < 4 -> Kind("Unknown")
      [] d.len >= 4 /\ d.word = 2 -> Kind("StakeDelegate")
      [] d.len >= 4 /\ d.word = 4 -> Kind("StakeWithdraw")
      [] OTHER -> Other(<<"stake_ix", d.word>>)

Loader(d) ==
    IF d.len >= 4 /\ d.word = 3 THEN Kind("Upgrade") ELSE Other(<<"loader_ix", Tag(d)>>)

AssociatedToken(d) ==
    LET names == <<"createAta", "createAtaIdempotent", "recoverNestedAta">>
    IN  Other(IF Tag(d) < 3 THEN <<names[Tag(d) + 1]>> ELSE <<"ata_ix", Tag(d)>>)

\* With their argument, which is left out.
ComputeBudget(d) ==
    LET names == <<"requestUnitsDeprecated", "requestHeapFrame", "setComputeUnitLimit",
                   "setComputeUnitPrice", "setLoadedAccountsDataSizeLimit">>
        sizes == <<1, 5, 5, 9, 5>>
    IN  Other(IF Tag(d) < 5 /\ d.len >= sizes[Tag(d) + 1] THEN <<names[Tag(d) + 1]>>
              ELSE <<"compute_budget_ix", Tag(d)>>)

Raydium(d) ==
    CASE Tag(d) = 9 -> Other(<<"swap">>)
      [] Tag(d) = 1 -> Other(<<"initialize">>)
      [] Tag(d) = 3 -> Other(<<"addLiquidity">>)
      [] Tag(d) = 4 -> Other(<<"removeLiquidity">>)
      [] OTHER -> Other(<<"unknown", d.word>>)

Jupiter(d) ==
    CASE d.word = Route -> Other(<<"route">>)
      [] d.word = SharedRoute -> Other(<<"sharedAccountsRoute">>)
      [] OTHER -> Other(<<"unknown", d.word>>)

Classify(program, d) ==
    CASE d.len = 0 -> Kind("Unknown")
      [] d.len > 0 /\ program = "token" -> SplToken(d)
      [] d.len > 0 /\ program = "token2022" -> Token2022(d)
      [] d.len > 0 /\ program = "system" -> System(d)
      [] d.len > 0 /\ program \in {"stake", "stakePool"} -> Stake(d)
      [] d.len > 0 /\ program = "memo" -> Other(<<"memo">>)
      [] d.len > 0 /\ program = "loader" -> Loader(d)
      [] d.len > 0 /\ program = "associatedToken" -> AssociatedToken(d)
      [] d.len > 0 /\ program = "computeBudget" -> ComputeBudget(d)
      [] d.len >= 8 /\ program = "raydium" -> Raydium(d)
      [] d.len >= 8 /\ program = "jupiter" -> Jupiter(d)
      [] OTHER -> Other(<<"ix", Tag(d)>>)

-----------------------------------------------------------------------------
(* parse_transaction *)

InKeys(raw, a) == a \in ToSet(raw.keys)

\* An account that is not among the keys is left out, and those behind it move up.
ParseInstruction(raw, ix) ==
    [program |-> ix.program, kind |-> Classify(ix.program, ix.data),
     accounts |-> Picked(ix.accounts, {i \in DOMAIN ix.accounts : InKeys(raw, ix.accounts[i])}),
     name |-> << >>]

ParseAll(raw, ixs) ==
    LET parsed == Picked(ixs, {i \in DOMAIN ixs : InKeys(raw, ixs[i].program)})
    IN  [i \in DOMAIN parsed |-> ParseInstruction(raw, parsed[i])]

\* The first top level instruction of a monitored program, or else the first.
Attributed(top, monitored) ==
    LET own == SelectSeq(top, LAMBDA ix : ix.program \in monitored)
    IN  IF own # << >> THEN own[1].program ELSE IF top # << >> THEN top[1].program ELSE ""

\* What an account listed at index i is called: a loaded one has no name.
NameAt(raw, i) == IF i <= Len(raw.keys) THEN raw.keys[i] ELSE ""

SolDiffs(raw) ==
    {[index |-> i, account |-> NameAt(raw, i), delta |-> raw.post[i] - raw.pre[i]] :
        i \in {i \in DOMAIN raw.pre : raw.pre[i] # raw.post[i]}}

\* The balances of both sides meet by account and mint; a missing side counts 0.
TokenDiffs(raw) ==
    LET amount(side, key) == IF key \in DOMAIN side THEN side[key] ELSE 0
        delta(key) == amount(raw.postTokens, key) - amount(raw.preTokens, key)
    IN  {[index |-> key[1], account |-> NameAt(raw, key[1]), mint |-> key[2], delta |-> delta(key)] :
            key \in {key \in DOMAIN raw.preTokens \cup DOMAIN raw.postTokens : delta(key) # 0}}

ParseTransaction(raw, monitored) ==
    LET top == ParseAll(raw, raw.top)
    IN  [program |-> Attributed(top, monitored),
         success |-> ~raw.failed,
         fee |-> raw.fee,
         accounts |-> raw.keys,
         topCount |-> Len(top),
         instructions |-> top \o ParseAll(raw, raw.inner),
         sol |-> SolDiffs(raw), tokens |-> TokenDiffs(raw)]

-----------------------------------------------------------------------------
(* transaction.rs *)

Ranks == [SetAuthority |-> 100, Upgrade |-> 99, InitializePermanentDelegate |-> 98,
          InitializeDefaultAccountState |-> 97, UpdateDefaultAccountState |-> 96,
          InitializeTransferHook |-> 95, UpdateTransferHook |-> 94, SetTransferFee |-> 93,
          StakeWithdraw |-> 80, StakeDelegate |-> 79, TokenTransferChecked |-> 50,
          TokenTransfer |-> 49, SystemTransfer |-> 48, Other |-> 10, Unknown |-> 0]

KindPriority(ix) == Ranks[ix.kind.kind]

HeadlinePriority(ix) ==
    IF ix.name # << >> /\ Ranks[ix.kind.kind] < 60 THEN 60 ELSE Ranks[ix.kind.kind]

\* The index of the last instruction of highest priority, 0 for none.
Headline(list) ==
    IF list = << >> THEN 0
    ELSE CHOOSE i \in DOMAIN list : \A j \in DOMAIN list :
            \/ HeadlinePriority(list[j]) < HeadlinePriority(list[i])
            \/ HeadlinePriority(list[j]) = HeadlinePriority(list[i]) /\ j <= i

DisplayName(ix) ==
    CASE ix.name # << >> -> ix.name
      [] ix.name = << >> /\ ix.kind.kind = "Other" -> ix.kind.name
      [] ix.name = << >> /\ ix.kind.kind = "Unknown" -> << >>
      [] OTHER -> <<ix.kind.kind>>

InstructionType(list) == IF list = << >> THEN << >> ELSE DisplayName(list[Headline(list)])
=============================================================================
