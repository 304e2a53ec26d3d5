# GulfWatch in TLA+

GulfWatch watches Solana programs: it subscribes to their logs, fetches the
transactions, names and classifies what they do, keeps a rolling window of
metrics per program, runs detections and threshold rules, and serves the
result over REST, a WebSocket stream, a terminal dashboard and an MCP adapter.
The modules here are translated from the Rust workspace under `src/crates`;
`PROJECT.json` maps every definition to the lines it stands for.

## 1. The system

| component | state | operations | model |
|---|---|---|---|
| ingest client (`gulfwatch-ingest/client.rs`, `rpc.rs`) | socket, backoff, notification in hand | subscribe, receive, fetch with retries, send into the channel, reconnect | `IngestClient`, `Delivery` |
| parser (`parser.rs`, `transaction.rs`) | none | JSON to `Transaction`: program, instructions, balance differences, headline | `TxParser`; its list in `NameResolution` |
| shared state and worker (`gulfwatch-core/pipeline.rs`) | programs, windows, IDL maps, recent alerts, a lock each; ingest channel, two broadcast channels | add and remove program, upsert and remove IDL, the worker loop, the alert recorder | `Pipeline`, `IdlState`, `AlertFeed`, `NameResolution` |
| rolling window (`rolling_window.rs`, `metrics.rs`) | a queue of transactions per program | push, summary, timeseries, recent | `RollingWindow`, `SharedWindows`, `MetricsWindow` |
| threshold alerts (`alert.rs`) | rules, fire times | evaluate every tick; REST edits the rules | `AlertEngine` |
| correlation (`detections/correlation.rs`) | touches per signer and kind, pending failures, fire times | evaluate a transaction | `Correlation` |
| failed cluster (`detections/failed_tx_cluster.rs`) | failures per signer | evaluate a transaction | `FailedTxCluster` |
| stateless detections (`large_transfer.rs`, `authority_change.rs`, `token2022.rs`) | none | evaluate a transaction | `Detections` |
| classification (`gulfwatch-classification`) | none | transaction to legs and category | `Classification` |
| compute unit attribution (`cu_attribution.rs`) | a stack while it parses | parse a log | `CuAttribution` |
| IDL parser and decoder (`idl.rs`, `idl_decode.rs`) | none | parse, resolve a name, decode arguments | `IdlParser`, `IdlDecode` |
| IDL discovery (`discover.rs`, `idl_registry.rs`) | one task per program | fetch, fall back, register, record a failure | `IdlState` |
| REST server (`routes.rs`, `lib.rs`) | none of its own | handlers on the shared state, transaction queries | `Pipeline`, `AlertEngine`, `IdlState`, `TransactionQueries` |
| WebSocket stream (`ws.rs`) | a subscription per client, two receivers | subscribe, unsubscribe, forward | `AlertFeed` |
| start (`gulfwatch-server/main.rs`) | none | spawns the tasks | `Boot`, `StartRecorder`, `ProgramIds` |
| terminal dashboard (`gulfwatch-tui/app.rs`, `main.rs`, `ui.rs`) | feeds, selection, focus, view, scroll, cursor | poll, draw, keys, mouse | `TuiApp`, `ExplainTab` |
| wizard and configuration, MCP adapter, web dashboard | | input and output, thin clients | not modelled |

Tasks meet at mpsc and broadcast channels and at the locks of `AppState`:

    socket -> ingest client -> [ingest channel] -> worker -> windows
                                                     |-> alert_broadcast <- alert engine
                                                     |-> tx_broadcast        |
    REST handlers -> programs, windows, rules, IDLs  `-> WebSocket, TUI      `-> recorder -> recent alerts
    boot discovery -> IDLs, status, failure reasons

What is hard: the worker checks a program, lets the lock go and stores later
while handlers add and remove programs; `add_program` and `remove_program`
hold one lock while they wait for another, and may be cancelled there; an IDL
upsert takes three locks one after the other; the engine evaluates a copy of
rules that change; one transaction is notified once per subscription, and
notifications under way are lost with their socket; timestamps are block times,
which step back; broadcast rings overflow; logs are truncated, and what a
program logs looks like what the runtime logs; the same movement is read from
instructions, from balances and from logs, by code that must agree; the mouse
is mapped to a byte through what another frame drew. `PROJECT.json` lists each
such place with its line.

## 2. The modules

**`Correlation`** (with `MCCorrelation`). One action per outcome of `evaluate`:
`Skip` (the early returns), `Quiet`, `Fire`. `touches`, `pending`, `lastFired`
are the three maps of the struct; a missing key is `NoTime` or the empty queue.
`latest`, `probe`, `fires`, `ordered` are history: what a perfect memory would
say; `fires` lists the times of a signer's alerts of a kind in the order they were
raised, so that a second alert with the same timestamp shows. `Evict` drops from the front, `Record` refreshes a program where it
stands. A transaction is reduced to its signer, program, time, success and two
flags (some instruction moves at least the threshold; some instruction sets a
permanent delegate). The order of kinds inside one transaction is `Rank`.

**`FailedTxCluster`**. `NoFeePayer`, `Failure`, `RoutineSuccess`, `Cluster` are
the outcomes of `evaluate`. History: `since` holds all failures since the last
alert.

**`RollingWindow`**, **`TransactionQueries`**, **`SharedWindows`**, **`MetricsWindow`**
(with `MCMetricsWindow`). The window and the queries over one or all windows as
operators on sequences; the windows of `AppState` and the clock, which
`AlertEngine` reads too; and a state machine in which transactions arrive late and
time passes (`WindowsSpec`); `arrived` is history, what was
pushed for each program and when. Rates and averages are pairs of
numerator and denominator. The interval of a time series is any integer, as a
client may ask for any: a negative one cuts like its amount (`Width`), and 0
divides by zero as soon as there is a transaction to put in a bucket (`Panic`). `Scan` is the factor by which a query reads more
than its limit before it filters (4 in the code).

**`IdlState`**. Boot tasks and REST requests, each with a program counter; one
action per lock taken, so an upsert is `InsertIdl`, `ClearFailure`, `SetLoaded`
and a failure `RecordFailure`, `SetUnavailable`. `HangUp` drops a REST handler at
the await it has reached, as `Disconnect` does in `Pipeline`: what it wrote stays.
`deleted`, `overlapped` and `torn` are history; `torn` are the programs that a
dropped handler left half-written and no operation has finished on since. Of an
IDL only its origin is kept.

**`AlertEngine`** (with `MCAlertEngine`). `CloneRules`, `LockWindows`, one step per
rule (`SkipRule`, `FireRule`), `GoToSleep`; handlers edit rules and programs at
any time, except that writers of the windows wait while the engine reads them.

**`Pipeline`**. The worker from await to await (`Receive`, `DeadLetter` or
`Accept`, `Detect`, `Store`, `Publish`) and REST clients that add, remove or read,
over two fair reader-writer locks modelled as queues, which is what tokio's
`RwLock` promises. `Disconnect` drops the future of a waiting handler. Eviction
is any prefix here: time belongs to `MetricsWindow`.

**`IngestClient`** (with `MCIngestClient`), **`Delivery`**. The client's loop
(connect, subscribe, read, fetch up to three times, send into the bounded
channel, sleep with a doubled backoff) beside an external node that notifies
each subscription of a transaction in any order, may close or break the socket
with messages under way, and may answer a fetch with the transaction, nothing,
an error, or never; a worker that may end; and clients that edit the programs.
`notices`, `fate`, `handed`, `landed` are history. `Delivery` says what a reader
of the channel may rely on, and `IngestClient` implements it (`Promise`).

**`CuAttribution`**, **`NameResolution`** (with `MCNameResolution`). The Solana
runtime is external: a transaction is any tree of calls, each logging what the
runtime prints, and the log collector may lose lines that do not fit.
`parse_logs` is a fold over lines, so each logged line is parsed in the step
that logs it. When the execution is over, `Resolve` lists the instructions as
the parser does and names them, and the error, as the worker does (`NamesSpec`).

**`TxParser`**, **`Classification`**, **`Detections`** as operators, composed by
**`TxAnalysis`** (with `MCTxAnalysis`). The chain is external: it lists
instructions one by one, executes them (an instruction changes balances as its
fields `moves` and `also` say), takes the fee, and a failed transaction changes
nothing else. Then the client parses what it fetched, and the worker names,
classifies and searches it (`AnalysisSpec`). Accounts are named; instruction data is its
length, its first bytes, and the amount and decimals where a transfer has them.
`TransfersMove` says of the system and token programs, which are external, what the code
relies on: the transfers it recognises move the amount in their data between the
accounts at their places. What else an instruction of any kind changes is in `also`: an
account created or closed, tokens minted or burnt, a stake account paying out, a
`TransferCheckedWithFee`, or the fee that a token extension withholds from the
destination of a checked transfer. The legs of the code leave these out, so the
properties compare legs and categories with the balances less that part (`ByTransfers`,
`Unseen`). Wallets and token accounts are different accounts: only `TokenAccounts` hold
tokens, an instruction that would change the tokens of another fails (`Possible`), and
the fee payer, an account of the system program, is none of them
(`FeePayerHoldsNoTokens`).

**`Enumerations`** puts sets of positions in order; what a filter keeps of a
sequence (`TxParser`, `Classification`, `TransactionQueries`), the buckets of a time series
(`RollingWindow`) and the order of execution (`NameResolution`) are such positions.
`Total` is the sum of a sequence.

**`IdlParser`**, **`IdlDecode`** as operators, composed by **`ExplainTab`** (with
`MCExplainTab`). A published IDL is JSON as records and sequences, with `Junk`
where something else stands; `parse_idl_json` accepts or rejects it. A caller
encodes a call argument by argument, possibly cut short or padded, and the tab
decodes, colours and labels the bytes. Only the length of a decoded value is
kept, not its text.

**`AlertFeed`**. Two broadcast channels as sequences with a ring, the recorder
of recent alerts and one WebSocket client with its subscription. An event is
its place in its channel.

**`TuiApp`** (with `MCTuiApp`). A turn of the loop is `Frame` (drain both
receivers, refresh the programs, draw) and at most one event. `cells` is what
the Explain tab leaves for the mouse; `shown` is history, the item the last
frame highlighted. A frame may find the terminal resized: the panel is any of
`Rects`. The paragraph wraps every line that is too long, so of each panel is given
how many rows wrapping adds above the dump (`Wrapped`, which depends on what is
shown) and to each row of the dump (`Folded`, none where the panel is as wide as a
row, `RowWidth`).

**`CorrelationProofs`, `ClusterProofs`, `AlertProofs`, `IdlProofs`, `PipelineProofs`,
`IngestProofs`, `FeedProofs`, `TuiProofs`** hold the theorems of section 5.

## 3. The runs

| run | instance | states | shows |
|---|---|---|---|
| `correlation` | 1 signer, 2 programs, window 1, times 0..3, step back 1 | 299 219 | spacing of alerts in any order of timestamps; nothing lost or missed while timestamps are in order |
| `cluster` | 2 signers, threshold 2, window 2, times 0..4, step back 2 | 113 052 | alert exactly at the threshold in order; nothing forgotten in any order |
| `window` | 2 programs, 4 arrivals, late by up to 2, window 1, intervals -2, 0, 1 and 2, limits 1 and 2, scan 2 | 102 545 | a window loses only aged transactions; its views agree; queries miss only what is old |
| `idl` | 2 programs, one bundled, 2 requests, clients that hang up | 138 651 | loaded implies an IDL; serial operations leave the three maps in agreement unless a client hung up between two writes; discovery settles |
| `alert_cooldown` | 3 rules, two of one id, clock steps back by 1 | 1 102 608 | cooldown per id, no rule hides another |
| `pipeline` | 2 clients, 1 program, 3 transactions, channel of 1 | 171 274 | the two maps agree, nothing lost or doubled, everything ends |
| `ingest` | 2 subscriptions, 1 more program, 2 transactions, channel of 1, 2 broken connections, 1 edit | 728 055 | every notification accounted for, what comes through and under which program, refinement of `Delivery`, no waiting for anyone but the node |
| `names` | 3 calls of 3 programs, depth 2, truncation | 1 936 040 | profile and badge are exact, names and errors go to whom they belong |
| `analysis` | up to 3 instructions, wallets and token accounts, one of them looked up, with and without failure | 359 744 | legs, alerts, headline and category agree with what transfers moved and with each other |
| `idl_args` | IDLs of three formats, well formed and not, data cut by up to 9 bytes | 1 830 | arguments decoded where they were encoded, names and colours agree |
| `feed` | ring 1, buffer 2, 3 events, 2 client messages | 453 006 | recorder and client under lag |
| `tui` | 3 transactions, 3 alerts, feeds of 2 and 1, ring 2, a panel of two widths, 2 programs edited | 2 027 058 | feeds current, Enter opens what is shown, a click selects what is drawn, or what wrapping has moved it to |

Why the bounds are enough.

* *Correlation* and *cluster* compare timestamps only with each other and with
  the window; the range holds times inside, at and beyond the window on both
  sides, and a signer never meets another's state (a second one is in `cluster`
  to check just that). The same goes for `window`; there the second program is
  for the queries that merge windows, and a scan of twice the limit is already
  more than one and less than all.
* In `pipeline` the interesting cases need one transaction in the worker, one
  in the channel and one blocked, and two handlers, one of which holds a lock
  the other waits for; programs do not interact.
* In `ingest` two transactions that mention two subscribed programs are four
  notifications, enough to fill the channel, the hand and the socket; the second
  broken connection doubles the backoff to its limit.
* In `feed` a ring of one lags at the second event and the buffer overflows at
  the third. In `tui`, with a ring of two and three items in each channel, both
  lists overflow (they hold two and one), both receivers lag at the third item
  that is not taken in, and one frame takes in two items at once. The wide panel
  is just as wide as a row of the dump; the narrow one takes two lines for each,
  and one transaction has a wrapped line above its dump.
* In `idl` two requests are what it takes for one to be dropped between its writes
  and the other to overlap it or to repair what it left.
* In `names` three calls give a caller with two callees, a sibling after a
  call, and a call of a program by itself; the units are chosen so that no two
  sums agree by accident.
* In `alert_cooldown` two rules of one id and one of another are what a tick
  can confuse.
* In `analysis` a first instruction can be of any kind the parser knows, with
  data one byte short for each, or one that changes balances without a transfer
  (`Unparsed`); a second one is whatever the classifiers and detections look for
  in company; a third one moves something.
* `idl_args` has few states, each a whole call: every form of type, a recursive
  one beyond the depth limit of 8 (through `MaxNest` in the caller's values),
  variants, prefixes, fixed arrays, and every cut of the last nine bytes.

`CHECK_DEADLOCK FALSE` stands where the inputs are bounded: when they are used
up, the system waits for more. That nothing waits on a lock for ever is
`EverythingEnds`; that the client never waits for a channel or a worker that is
gone is `WaitsOnlyForTheNode`. In `tui` deadlock is checked: the loop always
turns.

Fairness. Tokio runs every task that can go on, and its locks are queues, so
`Pipeline` has weak fairness on the worker and each handler, `IdlState` on the
steps of a task once it has its answer, `AlertFeed` on the recorder, and
`IngestClient` on its own steps other than connecting and the answer to a fetch
(`Progress`: neither has a timeout) and on the worker that takes from the
channel. Nothing makes a client send, a node answer or a transaction arrive, so
none of these is fair, nor is a client that reads its socket. The other modules
have safety properties only.

The order of timestamps. Properties that say `ordered =>` hold while no
timestamp steps back. The code makes no such promise (block times are fetched
with retries, and a missing one becomes the wall clock), so the runs let them
step back, and the properties without `ordered` are those that survive it.

## 4. Disagreements found

Each is in `PROJECT.json` under `findings`, with the line it disagrees with. The
properties are stated so that they hold of the code as it is: each names, in its
comment or its premise, the case that is set aside.

| where | what the code does | property that steps around it |
|---|---|---|
| `correlation.rs:86` | a program refreshed at the front of the queue shields older ones from eviction, and the alert counts programs touched outside the window (against `README.md:93`) | `NoMissedCorrelation` claims only that none is missed |
| `pipeline.rs:63` | a client that hangs up while its POST waits for the windows leaves a monitored program without a window (against `routes.rs:181`) | `WindowsFollowPrograms` sets such programs (`torn`) aside |
| `pipeline.rs:258` | logged names, in execution order, are handed out in list order (against the comment at `pipeline.rs:241`) | `AlignedNamesAreOwn` claims programs whose two orders agree |
| `pipeline.rs:218` | an error raised by a nested call is looked up in the IDL of the outer one | `ErrorNamesTheRaiser` claims errors of the top level call |
| `cu_attribution.rs:164` | "Program log: success" reads as the end of a call (against `docs/cu-attribution.md:87`) | the programs of `names` log other messages (`PlainMessages`) |
| `parser.rs:314` | accounts supplied by a lookup table are dropped, and those behind them move up | `AllInKeys` in `LargeTransfersAreReal` and the other balance properties |
| `large_transfer.rs:53` | fires for failed transactions, which moved nothing | claims successful ones |
| `transaction.rs:94` | of two named calls the inner transfer gets the headline (against `transaction.rs:74`) | `AuthorityIsAgreedOn` claims the headline of authority changes |
| classification `lib.rs:509` | a stake withdrawal is one only with a system transfer to the fee payer, which the stake program does not make: it is `fee_only`, and so is an account created, or tokens minted | `CategoryMatchesTheBalances` claims of `fee_only` only that no transfer moved anything |
| classification `lib.rs:959` | the fee payer's wallet is compared with the accounts of a token transfer, which are token accounts: what it gets or sends in tokens has no direction, and no airdrop, NFT or token swap is ever told | `CategoryMatchesTheBalances` states that these categories are never given, and of bridges and privacy programs what they do to lamports |
| `rolling_window.rs:95` | an interval of 0, which a client may ask for, divides by zero | `TimeseriesSplitsSummary` claims every other interval |
| `idl.rs:370` | constant arguments of a Codama discriminator stay among the arguments, so all are decoded one place off | `DecodesWhatWasEncoded` claims the other formats |
| `parser.rs:328` | data of fewer than 8 bytes has no discriminator for the worker | `WorkerAndTabAgree` asks for 8 bytes |
| `app.rs:331` | a click is not corrected for wrapped lines, those above the dump and, in a panel narrower than a row of the dump, its own rows | `ClickSelectsTheDrawnByte` states the shift (`Wrapped`, `Folded`) |
| `ui.rs:845` | the Overview tab lists the first 12 of 14 decisions | not modelled |

Met while modelling, and not listed there: overlapping upserts leave a failure
reason under a loaded status (`pipeline.rs:83`, `docs/idl-loading.md:158`), and so
does a client that hangs up between the writes of its upload, or leaves an IDL
without a status (`pipeline.rs:86`);
deleting an IDL leaves the status loaded (`routes.rs:146`); a quiet window is never evicted
(`rolling_window.rs:22`); rules that only post to a webhook never reach the
recent alerts; `window_seconds` of a condition is not read; `Subscribe` with an
empty list silences a client although `ws.rs:45` says that empty means all; a
transaction that reaches a monitored program only by a nested call is
dead-lettered (`parser.rs:71`), and one that mentions two subscribed programs is
notified, fetched and stored twice (`client.rs:62`); after the worker has ended
the client says that it stops, and goes on (`client.rs:134`).

## 5. What is proved

Eight modules hold the theorems; each extends the modules it is about. Their
assumptions are the `ASSUME`s of these modules, which TLC evaluates in their runs,
and in three theorems `MessagesArePlain`, of which more below.

**`CorrelationProofs`**, from `ParametersAreNat`, `ShapesAreShapes` and, where a
signer must be one, `NoSignerIsNoSigner`. `EvictDropsAPrefix`, `EvictKeepsFresh`
and `RecordRefreshes` say what the two operators on a queue do for every queue;
`EvaluateRecords` reduces a step to "the clock moves" or "the transaction is
recorded".

| theorem | property | inductive invariant, and why |
|---|---|---|
| `CorrelationTypes` | `TypeOK` (proved only) | itself |
| `CountsDistinct` | `QueuedOnce` (proved only) | with `TypeOK`: `Evict` leaves a suffix, `Record` appends only a program it did not find |
| `TouchesKept` | `NoTouchLost` | with `NoneFromTheFuture`: in order, the new touch is at least as new as what it replaces |
| `PendingExact` | `PendingIsExact` | with `TypeOK`: the cutoff only moves forward, so what the sweep dropped stays out of the window |
| `Spacing` | `FiresSpaced` | with `LastIsLatest`: `lastFired` is at least every time in `fires`, and an alert must be more than a window later, so neither a timestamp that steps back nor one that comes twice raises another |
| `NoneMissed` | `NoMissedCorrelation` | `MissInv`: the one of `TouchesKept`, and `Remembered` (what `lastFired` says did happen). The newest touch of a signer is the transaction that was just evaluated; `QueueCounts` bounds the programs touched within the window by the length of the queue, so the code saw the threshold reached, and whatever kept it from firing is an alert the property allows |

**`ClusterProofs`**, from `ParametersAreNat` and `NoSignerIsNoSigner`. The
invariant relates the queue to the history of unanswered failures (`Kept`: the
queue is that history without its first d entries, all older than the window),
and, while times are in order, adds that order (`TimesInOrder`).

| theorem | property | why |
|---|---|---|
| `AlertsAreClusters` | `AlertIffCluster` | in order, an eviction that stops at the first failure inside the window leaves exactly those inside |
| `FailuresKept` | `NoFailureLost` | `OnlyOldLost` survives any order: the eviction drops a prefix of which each entry was older than a cutoff that only matters until the clock passes it |

The same module follows a transaction of `TxAnalysis` from the parser to the alerts,
from `ShapesAreInstructions`, `TransfersMove`, `KeysAreNotLoaded`, `FeePayerHoldsNoTokens`,
`HoldingsAreNat` and `NumbersAreNat`, for any instructions, accounts, holdings, amounts, names and IDLs. The
invariants are short (`AnalysisInv`, `LargeInv`, `BalanceInv`: the raw transaction is well
formed, its transfers move, between parsing and processing `tx` is what the parser made of
it, its diffs are those of balances that the listing settles, and no instruction of a
successful one touches tokens where there are none); the work is in what the
operators do to any list of instructions.

| theorem | property | why |
|---|---|---|
| `AuthorityAgreed` | `AuthorityIsAgreedOn` | whatever its data, an instruction gets a kind that has a rank (`KindsAreRanked`); naming keeps kinds (`NamingKeepsParsed`), and so does the conversion for the classifiers as far as authorities go (`ConversionKeepsAuthority`); the classifier of authority changes is asked first (`CategoryMeans`), and the headline has the highest rank (`HeadlineIsHighest`), which only authority changes reach. Nothing is asked of accounts or success |
| `LargeAlertsAreReal` | `LargeTransfersAreReal` | where all accounts and programs are in the keys the parser drops nothing (`AllPicked`), so the worker's list is the chain's, place by place (`ListIsListing`), and each large transfer in it is a move (`TransferMoves`) and the other way round (`LargeAlerts`) |
| `LegsMatchBalances` | `LegsExplainBalances` | the legs are the instructions that make one, in order (`LegsAreInOrder`); each moves what its instruction moved, and an instruction without a leg moved nothing by a transfer (`LegsSayWhatMoves`), so the legs add up to what transfers moved (`LegsAddUp`); an account gained that and the rest (`MovedAndMore`); and the diffs of before and after are those gains, less the fee (`SolDiffsSay`, `TokenDiffsSay`) |
| `CategoriesMatchBalances` | `CategoryMatchesTheBalances` | the first classifier that matches decides (`FirstMatchDecides`), so a category means that its own condition holds and those before it do not (`CategoryMeans`); no token leg begins or ends at the fee payer (`OnlyLamportsReach`), so the conditions on tokens fail, and the others compare the lamports that legs bring in and take out, which is what transfers brought the fee payer (`InAndOut`): the previous theorem tells its sign |

The last two rest on facts about `Total`, which is defined by a recursive function:
that it has the values its equation says is `SumsExist`, that the total of
differences is the difference of totals (`TotalOfDifferences`) and that zeros may be left
out of a sequence (`TotalOfPicked`) hold because there is no least length at which they do
not.

**`AlertProofs`**, from `ParametersAreNat`. `EventsSpaced` proves
`EventsCooledDown`: the invariant adds that `lastFired` holds the time of the
latest event of each id, which survives a clock that steps back because a rule
fires only when the difference to the stored time is at least the cooldown.
`TicksComplete` proves `TickIsComplete`: the invariant adds that every stored
time is that of an event (`FiredLogged`), so a rule that was skipped for its
cooldown has an event to show. Only the engine's index and times are typed; the
ids are whatever clients post, and are typed by some set.

The same module proves `WindowsAreLive` (`WindowIsTheLive`) of the windows the
engine reads, for `MetricsWindow` and from `WindowParametersAreGiven`. Its invariant `Follows` is `WindowIsTheLive` with places in place of `IsSuffix`: a
window is its program's arrivals without the first few, and these were too old
when the last one came. It is inductive because `EvictAgedDropsAPrefix`: an eviction
drops a prefix of aged transactions up to one that is not, and what was too old for
an earlier arrival is too old for a later one.

`QueriesAnswerTheNewest` proves `QueriesMissOnlyTheOld` of the queries on these
windows. The invariant adds `Numbered`: a program's arrivals are numbered, so what is
left of them in a window has numbers that follow each other, and no transaction is at
two places. The rest is about lists cut from finite sets. `ChainsAreRanked`: where
the sets "up to x" form a chain, their sizes number the elements; so `InOrder` lists
the matching positions (`InOrderEnumerates`) and `NewestFirst` what the windows gave
(`NewestFirstArranges`, from `BeforeIsAnOrder`), each element once. `FirstMatching`
then says what filter and limit make of such a list, and `BehindTheScan` that what a
query does not reach has enough later arrivals. That `Programs` is finite is part of
`WindowParametersAreGiven`: a map of windows is.

`SeriesSplitsTheSummary` proves `TimeseriesSplitsSummary`, for every interval a client
may ask for but 0: a negative one has the buckets of its amount. Two block times are in one
interval exactly if one is between the start of the other's and the next
(`SameInterval`), and starts are multiples of the size, so they are apart
(`MultiplesAreApart`). `CountsAddUp`: what is counted value by value, in the order of
the values, adds up to what there is, because the sum of the first k counts is the
number of elements with one of the first k values, and no least k has another
(`TotalIsTheLast`).

**`IdlProofs`**, from `NoIdlIsNoIdl` and `TasksAreDistinct`.

| theorem | property | inductive invariant, and why |
|---|---|---|
| `IdlTypes` | `TypeOK` (proved only) | itself |
| `LoadedHasIdl` | `LoadedAfterInsert` | with `InsertedBefore`: an upsert on its way to the status has inserted |
| `SerialOperationsAgree` | `SerialAgreement` | with `OneBusy`, `HalfWritten` and `OwnProgram`: without overlap one task is between its writes, and what it wrote fits its last one. `AgreeAtRest` adds that the maps agree also under a request that has written nothing yet (`Unwritten`): it may be dropped there |

The same module follows the log of a transaction through `CuAttribution` and
`NameResolution`, for any programs, any tree of calls and any limit of the log.

| theorem | property | inductive invariant, and why |
|---|---|---|
| `CompleteLogsAreExact` | `CompleteIsExact` | `RuntimeInv` says what the calls of a transaction look like (the open ones are nested in the order they were opened, everything behind is over, native ones have a fixed price); `Pictured` says that while no line is lost the parser's state is a function of the runtime's: its stack is the list of open calls, and each invocation is the `Picture` of its call |
| `ErrorsNameTheRaiser` | `ErrorNamesTheRaiser` | `RuntimeInv`: the call that failed last at the top level is the last of the top level (`LargestIsLast`), so the index the worker is given points at it in its list, whatever is nested |
| `AlignedNames` | `AlignedNamesAreOwn` | with `Pictured`: the queue of a program's logged names is the sequence of its calls (`QueueOfAllCalls`), the k-th unnamed instruction of the program takes the k-th of the queue (`ResolvedByLogs`), and two enumerations of as many numbers in the same order agree rank by rank (`InOrderEnumerates`, `SameRank`) |

`MessagesArePlain` says that no program prints a line that `parse_logs` takes for the end,
the beginning or the consumption of a call; names they may print. Without it the first and
the last are false, which is the finding about `cu_attribution.rs:164`: the run `names` has it too
(`PlainMessages`). `ErrorsNameTheRaiser` does not read the log and does without.

**`PipelineProofs`**, from `BootArePrograms` and `WorkerIsNoClient`.

| theorem | property | inductive invariant, and why |
|---|---|---|
| `WindowsFollow` | `WindowsFollowPrograms` | `MapsInv`: a handler between its two writes is the first in the queue of the programs (`SecondIsFirst`), so there is at most one, and nobody who may read the programs sees the maps while they disagree on its program (`AgreeUnlessHalfDone`); the queue of the windows is not needed |
| `StoredFirst` | `StoredBeforePublished` | `MapsInv`: a transaction whose program was not removed since the check finds the window where it left it (`KeptHasWindow`) |
| `AllAccounted` | `Accounted` | `CountInv`: the numbers through, in hand and in the channel follow each other (`InTurn`), and those through are split between the two logs (`Through`) |
| `AlertsFollowTheFeed` | `AlertsMatchFeed` | `CountInv`, with the alerts ahead of the feed only between `Detect` and `Publish` |

That a fair lock is a queue is used as it stands in the model: `HolderIsFirst` says
whom a holder may be behind, `AskKeepsFirst` and `LeaveKeepsFirst` that its head
stays while others come and go.

**`IngestProofs`**, from `ConfiguredArePrograms` and `ShapesAreTxs`.
`ImplementsDelivery` proves the refinement `Spec => Promise!Spec`, which is the
property `DeliversInOrder`: initial states map to initial states, a transaction
that lands maps to `Offer`, a send to `HandOn`, everything else to a stutter.
The step to `HandOn` needs that the notification in hand is newer than all
handed on: `InTurn` keeps what was handed on, the hand and the socket's queue in
one order, through retries and lost connections.
`EachHasItsFate` proves `Accounted` and `OnlyThroughSubscriptions` proves
`ComesThroughSubscriptions` from a second invariant on top, `LedgerInv`: a
notification is pending exactly while it is in the socket or in hand, and sent
exactly while it is in the channel; what waits is newer than all handed on, so it
cannot be in both; a subscription is notified of a transaction once.

**`FeedProofs`**, from `SizesArePositive`. The recorder and the client share
only the channels, so there are two independent invariants. `RecorderInv` (with
its place between receive and store) proves `RecorderKeepsTheTail`
(`RecentIsTheTail`); `ClientInv` proves `WantedArrive` (`WantedAreDelivered`),
where the step that matters is a change of subscription: what is unwanted for a
moment is set aside for good, what stays wanted is sent or in hand.

**`TuiProofs`**, from `LimitsArePositive` (a feed and a ring hold something, the
panel shows a row), `DataIsGiven`, `PlacesAreOnScreen`, `LinesAreWrapped` and `RowsAreEven`.

| theorem | property | inductive invariant, and why |
|---|---|---|
| `FeedsStayCurrent` | `FeedsAreCurrent` | `FeedInv`: what waits in a receiver are the last numbers sent (`WaitingNumbers`), and the list holds lower ones, newest first: all of them up to its limit unless the receiver has lagged (`Leads`). `DrainInserts` puts a whole batch in front, newest first, and a list that has lagged takes in a full ring, so the last `Ring` lead it again (`DrainKeeps`) |
| `EnterOpensTheHighlighted` | `OpensWhatIsShown` | `ScreenInv`: until the next event, the highlighted item is the selected one of the list as it is now. Items come and the list is filtered only in a frame, which draws again |
| `ClicksSelectTheDrawn` | `ClickSelectsTheDrawnByte` | `ScreenInv`: the cell holds the row of the dump drawn (`CellsAreDrawn`) and the cursor is on the data. `ColumnOfAByte` and `RowAndColumn` invert the layout of a row, gap included, and `TargetOfAByte` adds the rows by which wrapping has moved it |

`Drain` and `Filtered` are functions recursive on a number; that they exist and obey
their equations is `StepsDefine`, and what they keep holds after each step because
there is no least step after which it does not (`AllSteps`).

Only model-checked:

* liveness (`DiscoverySettles`, `EverythingEnds`, `RecorderCatchesUp`,
  `WaitsOnlyForTheNode`), out of the prover's reach;
* `VerifiedIsExact`, which is true of calls whose units do not add up by accident, as in
  the run, and not of every choice of `OwnUnits`: a lost call that consumed nothing
  does not show in a total;
* `idl_args` (`DecodesWhatWasEncoded`, `WorkerAndTabAgree`, `ColoursMatchTheLabel`): types
  nest, so their decoder is a RECURSIVE operator.

## 6. Not modelled, and what is left

Not modelled: the layout and wording of text; the debug trace of the classifiers;
top instructions of a summary; the wizard and configuration, sequential input
and file output; the MCP adapter, one HTTP request per tool; the web dashboard;
webhook delivery, one detached attempt of which only the start is kept; the
memory that the maps of the correlation detection take (`correlation.rs:82`
evicts a signer's queue only when the signer is seen again); the scan of IDL
directories, of which only the result is kept (`Bundled`).

Left of the plan: an abstract detection with perfect memory that `Correlation` and
`FailedTxCluster` implement while timestamps are in order.
