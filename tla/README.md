# Horus: a verification of the block pipeline and of bitcoin-tool

Horus follows the Bitcoin chain through a bitcore database. For every block it
assigns ids to addresses, appends the block's coins to a transaction table,
computes a row of statistics from the addresses those coins touch, and merges
the coins into the per-address state. Charts, predictions and back-tests read
the rows. Addresses are made of public keys by `bitcoin-tool`, a C program in
`app/tools` that `service-btc.jl` calls. This directory holds TLA+ models of
both, TLC configurations that check them, and TLAPS proofs.

## The system

| component | source (`src/app/`) | state | operations |
|---|---|---|---|
| block pipeline | `pipeline-v3.jl`, `procedure-exit.jl` | `LastDoneBlock`, the locks `synchronizing`, `accepted`, `emergency_stop`, `tmpBalanceDict` | start, `SyncResults`, TCP trigger, `saveWorkspace`, emergency stop, `InitHistory` |
| block timestamps | `service-block_timestamp.jl` | shared mmap: height -> second | lookups both ways |
| transaction table | `service-transactions.jl` | table of rows in block order, cache of block positions | `txLocateBlock`, `GetSeqBlockCoinsRange` |
| address ids | `service-address2id.jl` | dictionary from the CRC of an address to its id, the largest id, a log file | `ReadID`, `HardReadID`, `GenerateID`, `SetID`, save, open |
| address state | `service-address.jl`, `middleware-calc_addr_diff.jl` | shared mmap: id -> statistics; price cache | `InitAddressState`, `SubTouchAddressState`, `MergeBlock2AddressState`, `GetPriceAtBlockN` |
| market data | `service-FinanceDB.jl` | shared mmaps of minutes and hours | `syncBitcoin`, `syncBitcoinIndex`, lookups of prices |
| calculations | `procedure-calculations.jl` | none (reads the address state) | seven calculations run in parallel, one result row |
| results, windows | `middleware-results-flexible.jl`, `functions-generate_window.jl` | shared mmap: height -> row | weighted merge of rows, windows over time |
| gini, back-test, indicators | `isolate-gini.jl`, `test-backtest.jl`, `functions-ma.jl`, `utils.jl` | matrices, lists | pure algorithms over the tables |
| bitcoin-tool | `tools/main.c`, `keys.c`, `prefix.c`, `hash.c` | one record: options, input, keys, hashes, address, and which of them are set | parse options, read a line, check its size, convert, format, write |
| its codecs | `tools/base58.c`, `combination.c`, `segwit_addr.c`, `utility.c` | none; the repair's positions and digits | encode and decode hex, base58, base58check, bech32; `FixBase58Check`; `fwrite_safe` |
| outside | bitcore (MongoDB), the exchange, clients of port 8021, the operator | | |

How they interact. `SyncResults` is the only writer of the tables while the
service runs. It calls, in order: `SyncBlockInfo` (headers into block
timestamps), `syncBitcoin` (klines into market data), and for each block from
`LastDoneBlock + 1` to the last one before now `DigestTransactionsOnBlock`
(bitcore's coins into ids, balances and rows), `CalculateResultOnBlock` (rows
and the address state into a result), and `MergeBlock2AddressState` (rows into
the address state). It is called by the main task, at start and at the REPL,
and by the listener for every connection to port 8021.

`bitcoin-tool` shares nothing with the service but its output. It reads one
input, or each line of a file, decodes it, converts it along private key,
public key, sha256, ripemd160, address, and writes one of these or all. One
record lives through all lines, and nothing in it is cleared between two.

What is hard. Two Julia tasks share locks that are dictionary entries, and a
task yields at every request, sleep and log line. The stores fall into two
kinds: shared mmaps, which survive a kill at the row they were at, and memory,
which falls back to files that only a deployed snapshot replaces. Where the
service stands is not stored; it is recovered from the latest timestamp in the
address state. Bitcore and the exchange answer late, short, or not at all.
bitcoin-tool is hard in another way: state left behind by an earlier line,
conversion cases that fall through into each other, types told by size alone,
errors of which some are passed over and others not, and a search over texts
whose indexes have to stay inside the text. The hazards are listed in
`PROJECT.json`, each at its line, with the properties that watch it.

What makes each part correct:

- pipeline: one sync at a time; blocks merged once and in order, over any
  number of kills and restored snapshots; stores in memory agree with each
  other; a save that is complete can be put back; triggers are not lost for
  ever; a stop stops.
- transaction table: the rows found for a block are its rows, all and only;
  a search ends.
- coins: ids, rows, balances, the input of the calculations and the address
  state tell the same story as the chain.
- market data: minutes and hours are whole and final; a block old enough has
  its price.
- bitcoin-tool: what is written is made of the line read last and the command
  line, is all that was asked for, and is taken back as what it was; a batch
  that ends well has read its file; the program ends.
- codecs: what was copied right is read as it was written; what was copied
  wrong is refused or repaired to the nearest text that fits, within the text.
- timestamps: looking up a block's own second leads back to it.
- calculations, windows, back-test (planned): indexes stay inside their
  vectors, shares add up, a window covers its time.

## The modules

| module | what it is |
|---|---|
| `BlockTimestamp` | the lookups of `service-block_timestamp.jl`, as operators over the number of known blocks |
| `Pipeline` | the service: both tasks, bitcore, kills, saves, restored snapshots |
| `PipelineInv` | inductive invariants of `Pipeline`, and its map to `BlockLedger` |
| `BlockLedger` | abstract: what the address state promises |
| `MCPipeline` | values for the constants of `Pipeline` |
| `TxTable` | the transaction table and `txLocateBlock`, loop by loop |
| `CoinLedger`, `MCCoinLedger` | what a block's coins become |
| `SeqOps` | the sum of a sequence, and its elements in a set in their order |
| `MarketData` | `syncBitcoin`, the hours, the price of a block |
| `Networks`, `ToolOptions` | the networks of `prefix.c`; the command line of `bitcoin-tool` |
| `BitcoinTool`, `MCBitcoinTool` | the program: options, lines, conversions, outputs |
| `Base58`, `Bech32` | the codecs, as operators |
| `Transcription`, `MCTranscription` | a text written, copied with slips, decoded and repaired |
| `DataLemmas` | lemmas on least and greatest numbers, folds, sums and parts of sequences |
| `PipelineProofs`, `SnapshotProofs` | theorems about `BlockTimestamp` and `Pipeline`, the second on top of the first |
| `CoinLedgerProofs`, `TxTableProofs`, `MarketDataProofs`, `BitcoinToolProofs`, `TranscriptionProofs` | theorems about these modules |

A definition with the comment "Mutant" is not part of a specification: it is
the definition after it with a plausible bug, and `PROJECT.json` says which
property notices.

**Pipeline.** `known`, `applied` and `results` are the three mmaps (headers,
rows merged per block, results). `tx`, `ids` and `bal` are the memory and
`disk` the files it is loaded from; `ids` and `bal` hold the block whose
digest last changed the dictionary. `pc`, `cur`, `to` and `row` are the
control and the locals of the tasks `main` and `listener`. An action ends where
the code yields, since Julia's tasks are cooperative (the service starts no
threads but those that `DoCalculations` waits for); the rows of
`MergeBlock2AddressState`, between which nothing yields, are separate steps
because a kill may come between them, and `Yielded` keeps every other task out.
`Raise` is an exception leaving `SyncResults`: during the start it ends the
process, later it is caught with `synchronizing` still set. A coin is only
counted here.

**CoinLedger** takes the same three calls one after the other and gives coins
an address, a value, a height of birth and a height of spending. Bitcore may be
any number of blocks ahead, so a row may already carry a `spentHeight` of the
future, as in the code.

**TxTable** makes each iteration of the loops of `txLocateBlock` an action;
first row and first step (2048 and 65535) are constants, small and of the same
kind (the step is one less than a power of two); `TxTableAssumption` keeps what
matters of them, that the table has the first row and the step reaches it.

**MarketData** is one process, since only `SyncResults` calls `syncBitcoin`
while rows are missing at the end of the table: the call in
`functions-display.jl:114` needs a missing row before it. A minute is its own
row; a row remembers whether its minute was over when the exchange answered.

**BitcoinTool** extends `ToolOptions`, which extends `Networks`. `options` and
`self` are the parts of `struct BitcoinTool`; the `_set` flags are the set
`self.set`. Bytes are sequences of fields `<<width, tag, value>>`: sizes, on
which the code decides, are the program's, and hashes and curve points are
terms that are equal only if they are made of the same thing. Texts are records
of a format and the bytes in it, with typing mistakes counted; what the codecs
make of characters is `Transcription`'s subject. `ParseArgument` and `Run` are
`parseOptions` and the start of `run`; `NothingRead`, `EndOfFile`, `ReadLine`
and `ReadOnce` are `ParseInput`; then come `CheckInputSize`,
`ConvertInputToOutput` and `WriteOutput`, with `Crash` for the null pointer
that is read when bech32 is to be written without a network. The operators
`FromPrivate` to `FromAddress` call each other where the cases of the code fall
through. `Meant` and the operators before it say the same the other way round,
from what is asked for to the bytes of the line and a network, and are what the
output is compared with. `LineNetworks` says which network that may be: it is
the command line's or none, or the HRP's of a bech32 text, except that in a
batch of these an earlier line may have stored its own among the options.

**Transcription** puts the codecs to work: encode, `fwrite_safe` piece by
piece, slips of whoever copies the text, and a later run that decodes it.
`NextRound`, `Try` and `NextCombination` are the loops of `FixBase58Check`.
`Base58` takes radix, byte and checksum as parameters; `Bech32` is the real
code, words of the checksum being sets of bits.

## What is checked

| run | instance | shows |
|---|---|---|
| `crash` | 3 blocks, two of one second; 2 kills, 1 save, 1 failing call | `MergedInOrder`, `MergedOnce`, `ResultFirst`, `MemoryAgrees`, `WedgedStays`, and that the pipeline implements `BlockLedger` (`LedgerSpec`) |
| `service` | 3 blocks, one of zero value; 2 saves, 1 failing call, a stop | `MutualExclusion`, `CursorMeans`, `SnapshotUsable`, `OnlyNextBlockMoves` |
| `live` | 3 blocks, 3 saves, a stop, nothing fails but a save | `BlocksGetMerged`, `SavesEnd`, `StopEndsListener` |
| `slow` | 3 blocks, bitcore slower than the sleeps | `NoBlockPassedOver` |
| `tx` | 4 blocks of 1 to 13 rows in every combination | `RangeExact`, `NewestFound` |
| `coins` | 3 blocks, 2 addresses, up to 4 coins of value 0 or 1 | `BalanceIsUnspent`, `RowsChain`, `NewInFirstBlock`, `NetTransferExact`, `TransactionPerBlock`, `TradePerBlock` |
| `market` | 5 minutes to fetch, 3 klines a request, 2 minutes count as current, hours of 2 minutes, one gap, 1 kill | `TicksClosed`, `HoursWhole`, `OldBlocksPriced`, `SyncReturns` |
| `tool` | every input type in every format it comes in to every output type, 3 networks, 3 compressions; files of 0 to 2 lines, ended by a newline or not, or missing; 8 refused command lines | `WrittenIsDerived`, `AllIsWritten`, `ReadsBack`, `SuccessMeansAllRead`, `ProgramEnds` |
| `transcription` | base 3 in bytes of 4 with a checksum of 2, up to 2 slips and 2 changes; real bech32, 1 or 2 slips | `KeepsWhatWasWritten`, `SlipsRefused`, `FixIsNearest`, `FixChangesFew`, `PositionsInText`, `SearchEnds` |
| `startup`, `save_race`, `tool_network` | | what the code says of itself and does not do (below) |

Why the bounds are enough. Three blocks are one that history was initialised
with, one that is merged in two rows so that a kill can split it, and one after
it; two kills let the second come during the recovery from the first. One save
and a deploy give a snapshot older than the stores. The three saves of `live`
are one that ends, one of the same block, which raises at `cp`, and one of a
later block, which gives the flag back. The sizes of blocks in `tx`
are on both sides of every step the search can make (1, 3, 7, 15), and four
blocks are one on each side of the searched block and one more to stand behind.
In `coins`, four coins are enough for an address to receive twice and pay in
one block, to spend in the block of birth, and to take change. In `market` a
request is shorter than the backlog, so the limit and the lag meet. In `tool`
two lines are one that leaves something behind and one that could pick it up:
the state between two lines is the whole record, so a third adds nothing that
the second does not have; the texts are two of each type that differ in what
they lead to, one of a wrong size, one of an unknown network, and mistyped ones
nearer and farther than the repair reaches. In `transcription` a small base
keeps the set of texts near another small enough to be enumerated, which is
what "nearest" is checked against; two changes are what it takes for positions
and digits to be carried. The bech32 sources end in p and in other letters,
since a q more or less before a p at the end leaves the checksum right.

Where `CHECK_DEADLOCK` is off, the instance really stops: the chain is at its
bound, or the service is down with stores its assertion rejects.

Fairness. Julia runs every task that can run, so each task's steps are weakly
fair, except that a call fails: the environment never has to fail. The clock
moves, bitcore delivers the coins it announced, its trigger keeps connecting,
and an operator restarts a service that is down. `saveWorkspace`, a kill and a
stop are never forced. `txLocateBlock` and `syncBitcoin` are plain sequential
code: weak fairness says that they go on. `bitcoin-tool` is a program that is
run: it takes its next step if it has one, while slips are nobody's duty
(`Transcription!FairSpec` spells out `WF_vars(Program)`, because TLC would
decode every text once more to find out what is enabled). No strong fairness is
used.
`SyncReturns` needs the clock to be slower than the requests, which the bound
on the clock stands for.

### What the code does not keep

- `startup`: the service asserts at its start that the last result and the
  last merged block agree (`pipeline-v3.jl:339`). Results are stored first; a
  kill in between leaves a service that does not start.
- `save_race`: `saveWorkspace` asserts the same before copying
  (`pipeline-v3.jl:308`), but a sync under way goes on between two copies.
- `tool_network`: "obtain network type from the HRP part of the address"
  (`tools/main.c:978`) is done for the first line of a batch that has an HRP;
  later lines are given that network, whatever their own HRP.

Not runs, but of the same kind. A second save at the same block raises at `cp`,
which finds the log of the first (`pipeline-v3.jl:320`), and `"accepted"` stays
set: the service is `Deaf`, ignoring every trigger, until another save ends
(lines 307-329). `SavesEnd` says of which saves that is true, and
`BlocksGetMerged` leaves it out. "Make sure bitcore has collected full data"
(`pipeline-v3.jl:235`) is a sleep; a slower bitcore gives a short block, and it
is never digested again (`NoBlockPassedOver` is what remains true then). The
search under "locate position" (`service-transactions.jl:40`) can go left and
right for ever when it meets the last row of the table while it looks for an
older block; `SyncResults` asks for the last block, or for its predecessor from
the cache, and is not affected (`NewestFound`). And of bitcoin-tool:

- `--ignore-input-errors`: "Continue processing batch input if errors are
  found" (`tools/README.md:92`) is true of what `ParseInput` refuses; bytes of
  a wrong size, and a conversion that is impossible, end the batch
  (`main.c:1552-1562`). A single input that is refused ends the program well,
  with nothing written. With a file that is not there, a batch loops for ever:
  `ProgramEnds` asks for the file.
- A batch over a file that ends with a newline meets the end of the file only
  by a failing read: without `--ignore-input-errors` it ends in failure after
  having written every line.
- `address-checksum` asked for from a key is the checksum of an address that
  was never made (`main.c:756`); `WrittenIsDerived` leaves that out, and
  base58 of nothing but zeros (`base58.c:68`), of a checksum too if there is
  one, is left out of `KeepsWhatWasWritten`.
- The raw output format is accepted and always fails (`main.c:1328-1339`);
  bech32 output of an input without a network reads a null pointer
  (`main.c:1369`), `all` included; `--fix-base58check` after
  `--fix-base58check-change-chars` puts the number back to 3.
- `--public-key-compression` has no effect on a WIF or a mini key;
  `--network` decides the prefix of an address made from a WIF key, not that of
  the key.
- `FixBase58Check` takes the numbers of changes, removals and insertions in
  another order than `main.c` passes them (only the first is used), and has no
  answer to a text shorter than the number of changes: its positions leave the
  text. The theorem `StaysInText` is about texts that are long enough
  (`NextRound` ends in `killed` otherwise). In base 58 no search gets there: the
  decoder does not survive a text that short, or the text fits in an earlier
  round.

Two more things the models show without a line of the code saying otherwise. After a
minute for which the exchange has no kline, `syncBitcoin` never returns once the
gap is half an hour old. And an exception in `SyncResults` leaves its lock set:
the service answers and does nothing until it is restarted (`WedgedStays`).

## What is proved

The theorems on the service hold for every chain, every number of coins, kills,
saves and failures; they rest on the named assumptions of the constants only
(`TsAssumption`: seconds are natural numbers that do not decrease;
`PipelineAssumption`: every block has a coin, and history ends in a block that
is not all zeros), and on the hypotheses named in the statements:

- `Timely`: bitcore has every block complete within the sleeps of
  `SyncResults`. The code does not ensure it: its sleeps are fixed and it does
  not look again. What is lost without it, run `slow` and `LateBlocksNotPassed`
  are about.
- `SaveWhenIdle`: saves are made only while no sync runs. The code leaves it to
  the operator; run `save_race` is about a save beside a sync.
- `StrictTs`: no two blocks share a second.

| module | theorems |
|---|---|
| `PipelineProofs` | `LastBlockNotBelow`, `LastBlockExact` (`StrictTs`), `RangeEncloses`; `PipelineTypes` (`TypeOK`), `PipelineMutualExclusion`, `PipelineWedged` (`WedgedStays`); with `Timely` and `SaveWhenIdle`, `LedgerInOrder` (`MergedInOrder`) and `LedgerCursor` (`CursorMeans`) |
| `SnapshotProofs` | `LedgerOnce` (`MergedOnce`), `LedgerResultFirst` (`ResultFirst`), `LedgerMoves` (`OnlyNextBlockMoves`), `LateBlocksNotPassed` (`NoBlockPassedOver`); with `SaveWhenIdle`, `IdsFollowTable` (`MemoryAgrees`); with `Timely` and `SaveWhenIdle`, `SnapshotsUsable` (`SnapshotUsable`), `SnapshotWithItsRows`, `PipelineImplementsLedger` (`LedgerSpec`); with `StrictTs` too, `StrictSecondsNotPassed` (`NoBlockPassedOver`) |
| `CoinLedgerProofs` | `LedgerShape`, `NewAddresses` (`NewInFirstBlock`), `BalancesChain` (`RowsChain`), `BalancesHeld` (`BalanceIsUnspent`), `NetTransfers` (`NetTransferExact`); with `StrictTs`, `TransactionsCounted` (`TransactionPerBlock`) and `TradesCounted` (`TradePerBlock`) |
| `TxTableProofs` | `SearchInvariant`, `TxTableTypes` (`TypeOK`), `RowsExact` (`RangeExact`) |
| `MarketDataProofs` | `MarketInvariant`, `MinutesAreOver` (`TicksClosed`), `HoursFollow` (`HoursWhole`), `PricesOfOldBlocks` (`OldBlocksPriced`) |
| `BitcoinToolProofs` | `BatchInvariant`, `BatchComplete` (`SuccessMeansAllRead`), `ConversionInvariant`, `NamedNetwork`, `WrittenDerived` (`WrittenIsDerived`), `AllWritten` (`AllIsWritten`), `SizesInvariant`, `WrittenReadsBack` (`ReadsBack`), `ToolTypes` (`TypeOK`) |
| `TranscriptionProofs` | `FixInvariant`, `StaysInText` (`PositionsInText`), `ChangesFew` (`FixChangesFew`), `RepairNearest` (`FixIsNearest`), `WrittenIsKept` (`KeepsWhatWasWritten`) |

**Types and locks.** `TypeOK` needs `LoopInRange` beside the types: `lastDone`
is a block only because the loop stays in its range. Mutual exclusion needs
`LockInv`, which adds that no two tasks are inside even when the lock says so,
and that a process that is down holds nothing. `WedgedStays` then goes by
action: each either needs the lock or does not touch the stores.

**The ledger.** A kill may leave the address state in the middle of a block and
memory far behind it; the properties hold because stale memory never makes
progress. `LedgerInv` says why. `GoodTable` and `Covered`: a transaction table,
in memory, on disk or in a snapshot, is a prefix of the chain and every block
of it is wholly merged in the address state beside it. `GoodLedger`: results
cover what is merged, and everything below a result is merged whole.
`GoodCursor` and `GoodLoop`: a task that is past the digest of block n has
found block n - 1 in the table, so n - 1 is merged; that is where a wrong
cursor stops. The one exception to `Covered`, a block digested and not yet
merged, is `NotYetMerged`: it is the next block, and the lock is held or was
left set by an exception. `GoodSave`: a save is alone, so what it has copied is
still what the stores hold. Nothing is assumed about seconds: `crash` has two
blocks of one second, and the cursor that such a restart gets wrong makes the
next digest raise, not merge. The step lemmas go by action; those that only
move control share `ControlStep`. `CursorMeans` says what is merged below
`LastDoneBlock` and above it, and nothing of `LastDoneBlock` itself: after a
kill within a merge the cursor is back at the block that is merged in part.
`LedgerInv` needs `Timely`, since a short block is never wholly merged, and
`SaveWhenIdle`, since a save beside a sync copies stores of different blocks.

**However late bitcore is.** `LedgerOnce`, `LedgerResultFirst` and `LedgerMoves`
have neither hypothesis; `LateInv` is what is left of `LedgerInv` without them.
A table may have a block short, but not with more than its coins
(`LateTables`), and a row is merged only of a block whose result is stored
(`LateStores`). Above the cursor nothing is merged but the block in the merge
loop (`LateCursor`). So a merge begins at a block without a merged row, and
`row` counts its merged rows until it is done (`LateLoop`). A save beside a sync
copies the address state before the results, and results are only added while
the process runs: the copies may be of different blocks, but no row in the
first is without its result in the second (`LateSave`), and a start from them
finds the cursor at the last result or does not begin.

**Blocks passed over.** `NoBlockPassedOver` is proved in two cases, and is
false without either: a restart that takes the cursor from a second which two
blocks share may find the later of them. `LateBlocksNotPassed` is about a
process that was never killed, however late bitcore is: `FirstLife` says that
every block with a result has a coin in the address state or is being merged
now, and `LateRepl` that nobody sits at the REPL before the first sync is done,
so there is no snapshot of an earlier moment. `StrictSecondsNotPassed` is about
any number of lives when the second tells the block: then the cursor after a
restart is the last block merged, and `LedgerInv` does the rest.

**Snapshots.** `MemoryAgrees` needs the same of every copy (`AgreeInv`: the
files, and each finished snapshot, since a deployed one becomes the files) and
of one half made (`SaveAlone`); it needs saves while no sync runs, and nothing
about bitcore. `SnapshotUsable` says of a finished snapshot that its table,
ids, balances, results and address state are all of the folder's block.
`ResultsInv` has the results without gaps up to the last one, from which the
folder takes its number, and `FreshInv` that the table has every block that has
a result. The latter ends with the process: the results survive it, and the
table in memory does not, so a save after a restart may write a short table
under the number of a later block. That is why `SnapshotsUsable` is about a
process that was not killed and had no failing call. `SnapshotWithItsRows`
covers every later life, and says that this is all that can be wrong: if the
table has the rows of the folder's block, every other store is of it too.

**The refinement.** `PipelineInv` maps the pipeline to `BlockLedger`: a block is
in the ledger once its result is stored and its rows and those of every block
below are merged (`Entered`). A block without a coin of value enters with its
result, every other one with its last row. `PipelineImplementsLedger` shows
that each step enters at most one block, the next one (`EntersOrStays`), that a
save records a prefix which was the whole ledger, and that a deployed snapshot
takes the ledger back to one that was recorded.

**Coins.** All six properties of `CoinLedger` are theorems, for every chain,
any number of addresses and coins of any value; only the two that count need
`StrictTs`, since the code tells the first row of a block by its second.
`BaseInv` has the forms of things: rows are of digested blocks, ids are given
one to an address and without a gap, and exactly the addresses with rows have
one and are in the dictionary of balances. `StampsInv` says that an address
whose coins of value have not moved has no statistics (so `isNew` is right), and
that no stamp is later than the last merged block (so the first row of a block
is recognised). On these rest:

- `CountsInv`: transactions and trades are numbers of blocks. `Merging` says
  what the merge has made of the statistics of an address after any number of
  its rows: what counts is whether it has met a row and whether it has paid.
- `ChainInv`: the dictionary has what the last row of an id ends with.
- `HeldInv`: the dictionary is the sum of the coins bitcore knows as unspent
  *at the digested height*, whatever is spent later; and it is ahead of the
  address state by what the rows of the block that is not merged yet move.
- `NetInv`: what an entry for the calculations adds up to is what the rows
  move. A coin minted and spent in its block has two rows, and each passes both
  filters; row by row there is an excess (`ExcessOf`), and over the block it
  cancels.

These compare folds over different sequences. The induction theorems of the
library cannot be used, but the least number with a property exists (`MinOfNats`,
from the well-foundedness of finite sets), and that is enough for an induction over
the places of one sequence (`PrefixInduction`). So `DataLemmas` shows that a
fold has a value at each place, each made from the one before (`FoldExists`,
`FoldSteps`), and from this what sums are of two sequences joined, of a part
taken in order (`SumInOrder`), of two parts that overlap (`TwoParts`), and of a
sequence whose elements changed where they count for nothing (`SumOverGrown`).

**The transaction table.** `RangeExact` depends on where a search that moves by
steps, halves them, and sets them back near the end of the table may stand.
`SearchInv` says it per phase of the loop: `Enlarging` while the search goes
right by the full step, `Locating` while it goes both ways and the step is
halved at each turn (and set back to half the position near the ends of the
table), with `MovedRight` and `MovedLeft`: after a move to
the right the block's first row is within the last step, after one to the left
it is not behind. So one step to the left of the row that ends the search is
before the block's first row, and the range begins with it. `GoodCache` keeps
that true while rows are appended. The theorem is about the rows of a search
that ends; that one ends is `NewestFound`, which TLC checks.

**Market data.** `MarketInv` follows the rows from the request to the table.
What is asked for begins with the last stored minute and ends before the minute
that was running when the number was computed (`Fetching`); the answer may be
later, so the clock has moved on and what is held is over: the kline at place j
is j minutes behind the last stored one, or it is behind a hole and no row will
be made of it (`Storing`). When a sync has left the loop, all minutes up to
`Lag` before its last look at the clock are stored (`CaughtUp`), which gives
`OldBlocksPriced`. `Lag` is positive (30 in the code); with a lag of zero a sync
could begin with nothing to ask for.

**bitcoin-tool.** `BatchComplete` holds for files of any number of lines
(`MaxLinesAssumption`), any texts and any command line. It needs `CountInv`:
each line is left, on its way, written or refused; the end of the file is seen
only when none is left, and only that ends a batch well. `RecordsInv` is there
because an update of a record says something about its other fields only if
they are known to be fields.

`WrittenDerived` holds for any texts, any command line and a batch of any
length. One record lives through all the lines and is never cleared, so the
property needs to know what a line may leave behind for the next.
`NetworkInv` says it of the network among the options (`NamedNetwork`): it is
the command line's, or none, unless a bech32 line has stored its own there; then
a batch goes on with some network of the table, which `tool_network` shows to be
the wrong one. `BetweenLines` says it of the rest of the record: the compression of a raw key is the command line's (a
WIF or mini key puts in its own first); a public network is there only if the
options or the line name one; and with `--output-type all`, no flag is
set that the line does not lead to. The conversion falls from case to case, so
there is one lemma per case (`AddressStage`, `RmdStage`, `ShaStage`,
`PublicStage`, `WIFStage`), each from the one below it, saying which fields it
makes of which and that it refuses what cannot be derived. `DueIsMeant` is what
holds before writing. The prefixes of a WIF key's network come from
`PrefixFound`: a prefix of the table leads back to its own entry, with a
private prefix 128 above the public one.
`AllWritten` is the other direction, that nothing due is missing (`AllInv`).

`WrittenReadsBack`: the program knows what its input is by size alone, so what
it writes of a type has to have that type's size, whatever line it is of.
`SizesInv` follows the sizes from the line to the output: what the line means
has the size of its type in every form (`MeantSize`, from the lemmas on sizes of
joined bytes, which rest on `SumTwo` of `DataLemmas`), and what is due is what
the line means. Of a WIF key it adds that the network is one of the table, and
that nothing but a key leads to a WIF key; several networks share a private
prefix, but those that do share the public one (`NetworkByPrefix`). HRPs are
all different (`HrpFound`). The same invariant has the sizes of all that the
record holds from earlier lines, which is most of `TypeOK` (`ToolTypes`).

Assumed of the texts is `FieldsAssumption`: bytes are fields with a width, and
the fields end where the program cuts, so that what has the size of an address
or of a WIF key begins with a field of one byte, and a WIF key goes on with one
of 32. Real bytes can be cut anywhere; the assumption is about how the model
writes them. TLC evaluates it for the texts of the runs, and for all that they
may be read as. `TextsAssumption` says that the bytes of a text are a sequence of
such fields.

**The repair.** `StaysInText` and `ChangesFew` hold for texts of any length in
any base with any checksum. They need `PositionsInv`: position i of r is at
least i and at most i less r from the end, and the positions increase;
`NextCombinationStays` shows that `Combination_next` keeps that, and rests on
the existence of the last position that can move. `TextInv` says that a
base58check text is a sequence of characters all the way, from `Base58Typed`:
what `EncodeBase58` makes of bytes are digits. Assumed is `SourceAssumption`:
bytes are bytes, those of a checksum too, and an address has a prefix. TLC
evaluates it for the sources of the run.

`RepairNearest`: what the repair finds is among the nearest texts that fit, and
it gives up only if none fits within the changes allowed. `TriedInv` says what
is known on the way: nothing nearer fits, and nothing fits that comes before the
positions and digits at hand, positions compared from the front (`Before`),
digits from behind (`Below`). A step keeps that because the code counts in this
very order and leaves nothing out: between a list of positions and what
`Combination_next` makes of it there is no other (`CombinationNext`), nor
between two lists of digits (`DigitsNext`), and where either ends there is no
greater one (`CombinationLast`, `DigitsLast`). That the lists reach every text
is `NearbyPlaced`: a text near `out` is `out` with the digits placed where the
two differ, and the places where they differ are one of the lists (`Listed`).

**The codecs.** `WrittenIsKept`: a text that was written whole, in however many
pieces, and copied without a slip is read as what was written, in any of the
four formats. `KeepInv` follows the text: what is out is a front of what was
encoded; a faultless copy is that text, or an address in capitals; and once it
is decoded, what was read are the bytes of the source. Nothing weaker is
inductive: that the lengths agree at the end, as the property has it, says
nothing until it is known that what is out never differed. That the repair does
not begin for such a text follows from what it was read as. The rest are lemmas
on the codecs, each about the operators of `Base58` or `Bech32` alone:

- base58: a number has digits (`DigitsMake`), and they are the only ones without
  a zero in front (`DigitsOfNumber`); the zeros in front are counted apart
  (`LeadsOnce`, `Stripped`). So a change of base is undone by the opposite one
  (`ConvertBack`, `Base58Back`, `Base58CheckBack`), for any two bases: neither 58
  nor 256 matters.
- hex: `HexBack`; that the square of `Nibble` is `Byte` is all it needs.
- the checksum of bech32: a step is linear in exclusive or (`StepXor`) and
  moves a word below 2^25 up by five bits (`StepUp`). So values put where six
  zeros were add themselves to the result, each in its group (`TakeIn`), and
  those that `bech32_encode` makes of the result leave 1, which is what
  `bech32_decode` asks for (`Verifies`, `SumVerifies`).
- the rest of bech32: eight bits to five and back (`Regrouped`, `OctetsBack`); no
  character twice in `charset` (`CharsetOnce`); the separator found is the one
  written, since `charset` has none (`Bech32Back`); capitals have the same
  values (`HrpCase`, `RevOf`). `SegwitBack` has it together, for an address as it
  was written or in capitals.

The exception is what the code's loop over leading zeros does with a source of
zeros only (`base58.c:68`), for base58check a source whose checksum is zeros as
well; the checksum of the run has none such.

Folds over sequences are reasoned about as in `DataLemmas` (`NumberSteps`,
`AbsorbSteps`): the induction is over the places of one sequence.

**Only model-checked.** Liveness (`BlocksGetMerged`, `SavesEnd`,
`StopEndsListener`, `NewestFound`, `SyncReturns`, `ProgramEnds`, `SearchEnds`):
fairness is out of the prover's reach. And `SlipsRefused` of `Transcription`,
which is not true for any number of slips: a checksum of 30 bits notices few,
and how few is the minimum distance of this code, a fact about its five
constants that is found by trying, not by an argument a prover could follow.

## What is not modelled, and the plan

Not modelled: plots and their configuration, the neural network, HTTP calls to
the trading service, authentication, the shell wrapper (no state of their own,
or pure input and output); bitcore's queries (external); the archived versions
and `service-address2id.traditional.jl` (nothing includes them). Of
bitcoin-tool: help, lists and logging; the set-up of the curve from its numbers
(`keys.c:66-222`), which is the library's; `sha256.c`, which its Makefile does
not build; lines longer than its buffer, which arrive in pieces; the 32
characters of the buffer an HRP is decoded into (`main.c:967`); and witness
versions other than 0. Reorganisations of the chain are not handled by the
code and are absent from the models.

Next, in this order:

1. `Calculations`: selections and index arithmetic of the seven calculations,
   against reference definitions, composed with `CoinLedger` through its
   `inputOf`; their failure is what `CallRaises` stands for.
2. `Windows`: weighted merge and windows over `BlockTimestamp`, with blocks on
   boundaries and windows without a block or without a result.
3. `InitHistory` and `firstSync` in `Pipeline`: the replay of history, with
   `lastNewID` set back at block 1.
4. `Backtest`, then `Smooth!`, `getPercent` and the averages; gini last.
