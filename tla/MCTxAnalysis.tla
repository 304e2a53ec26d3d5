----------------------------- MODULE MCTxAnalysis -----------------------------
(***************************************************************************)
(* The instance of TxAnalysis for TLC: the wallets w, that pays, and b,    *)
(* the token accounts wt, bt, ct and one in a lookup table.  Any shape can *)
(* come first, those that matter in company second, transfers third.       *)
(***************************************************************************)
EXTENDS TxAnalysis

Data(len, word, amount, decimals) ==
    [len |-> len, word |-> word, amount |-> amount, decimals |-> decimals]
Ix(program, data, accounts) ==
    [program |-> program, data |-> data, accounts |-> accounts, moves |-> {}, also |-> {}]
Move(sol, from, to, n) == {[sol |-> sol, from |-> from, to |-> to, amount |-> n]}

Sol(from, to, n) ==
    [Ix("system", Data(12, 2, n, 0), <<from, to>>) EXCEPT !.moves = Move(TRUE, from, to, n)]
Tok(from, to, n) ==
    [Ix("token", Data(9, 3, n, 0), <<from, to, from>>) EXCEPT !.moves = Move(FALSE, from, to, n)]
Checked(from, to, n, decimals) ==
    [Ix("token2022", Data(10, 12, n, decimals), <<from, "mint", to, from>>)
        EXCEPT !.moves = Move(FALSE, from, to, n)]
Call(program, len, word) == Ix(program, Data(len, word, 0, 0), <<"w">>)

\* What else an instruction changes, and a few that do: the fee of a transfer withheld,
\* createAccount, a stake withdrawal, closeAccount, mintTo, burn, TransferCheckedWithFee.
Change(sol, account, n) == [sol |-> sol, account |-> account, by |-> n]
With(ix, changes) == [ix EXCEPT !.also = changes]
Withheld(from, to, n) == With(Checked(from, to, n, 6), {Change(FALSE, to, -1)})
Unparsed == {With(Call("system", 52, 0), {Change(TRUE, "w", -2), Change(TRUE, "bt", 2)}),
             With(Call("stake", 12, 4), {Change(TRUE, "w", 3)}),
             With(Call("token", 1, 9), {Change(TRUE, "w", 2), Change(TRUE, "ct", -2)}),
             With(Call("token", 9, 7), {Change(FALSE, "wt", 2)}),
             With(Call("token", 9, 8), {Change(FALSE, "wt", -5)}),
             With(Call("token2022", 19, 26 + 256), {Change(FALSE, "wt", -5), Change(FALSE, "bt", 4)})}

\* The one between w and b cannot succeed: they are no token accounts.
Transfers == {Sol("w", "b", 5), Sol("b", "w", 3), Tok("wt", "bt", 5), Tok("bt", "wt", 2),
              Tok("b", "w", 2), Checked("wt", "bt", 1, 0), Withheld("ct", "bt", 5),
              Tok("wt", "looked", 5), Checked("looked", "bt", 5, 6), Tok("wt", "wt", 5)}

\* An authority of each kind; programs the classifiers look for.
Company == {Call("token", 35, 6), Call("token2022", 35, 6 + 256 * 8), Call("token2022", 35, 6 + 256 * 4),
            Call("loader", 4, 3), Call("memo", 1, 1), Call("bridge", 1, 1), Call("privacy", 1, 1),
            Call("nft", 1, 1), Call("marketplace", 1, 1), Call("stake", 4, 2), Call("stakePool", 4, 4),
            Call("jupiter", 8, 229), Call("token2022", 3, 28 + 65536 * 2)}

\* Every branch of classify_instruction, and data one byte short for it.
Others == {Call("other", 0, 0), Call("other", 1, 7), Call("jupiter", 7, 229), Call("jupiter", 8, 193),
           Call("jupiter", 8, 0), Call("token", 8, 3), Call("token", 9, 12), Call("token", 1, 6),
           Call("token2022", 2, 26), Call("token2022", 1, 26), Call("token2022", 3, 28),
           Call("token2022", 3, 28 + 256 + 65536 * 2), Call("token2022", 2, 28), Call("token2022", 1, 35),
           Call("token2022", 2, 36), Call("token2022", 2, 36 + 256), Call("token2022", 1, 36 + 256),
           Call("token2022", 2, 6 + 256 * 10), Call("system", 11, 2), Call("system", 4, 8),
           Call("stake", 3, 2), Call("stake", 4, 3), Call("loader", 4, 0), Call("loader", 3, 3),
           Call("associatedToken", 1, 0), Call("associatedToken", 1, 1), Call("associatedToken", 1, 3),
           Call("computeBudget", 5, 2), Call("computeBudget", 9, 3), Call("computeBudget", 4, 2),
           Call("raydium", 8, 9), Call("raydium", 8, 1), Call("raydium", 8, 3), Call("raydium", 8, 4),
           Call("raydium", 8, 2), Call("raydium", 1, 9)}

MCShapes == <<Transfers \cup Company \cup Others \cup Unparsed, Transfers \cup Company \cup Unparsed,
              Transfers>>
MCKeys == <<"w", "b", "wt", "bt", "ct", "mint", "system", "token", "token2022", "stake", "stakePool", "memo",
            "loader", "associatedToken", "computeBudget", "raydium", "jupiter", "bridge", "privacy",
            "nft", "marketplace", "other">>
MCLoaded == <<"looked">>
MCHolding == [i \in 1 .. Len(MCKeys) + 1 |-> 20]
MCTokenAccounts == {"wt", "bt", "ct", "looked"}
\* w can spend all it holds, b opens its token account by receiving.
MCTokens == [i \in 1 .. Len(MCKeys) + 1 |-> CASE i = 3 -> 5 [] i \in {5, Len(MCKeys) + 1} -> 10 [] OTHER -> 0]
MCIdlNames == [p \in {"jupiter"} |-> <<"route">>]
MCLogNames == [p \in {"token", "token2022"} |-> <<"Logged">>]
MCMonitored == ToSet(MCKeys) \ {"marketplace"}
MCWatched == {"wt"}
=============================================================================
