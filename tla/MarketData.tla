----------------------------- MODULE MarketData -----------------------------
(***************************************************************************)
(* service-FinanceDB.jl: the table of minutes, how syncBitcoin fills it    *)
(* from the exchange, the table of hours made from it, and the prices that *)
(* SyncResults takes from it (middleware-calc_addr_diff.jl).               *)
(*                                                                         *)
(* Time is in whole minutes since baseTickTs, so that a minute is its own  *)
(* row of TableTick.  Of the fields of a row one thing is kept: whether it *)
(* was taken when the minute was over ("closed") or still running          *)
(* ("open").  Only SyncResults calls syncBitcoin, holding its lock: the    *)
(* other call, in functions-display.jl, needs a row that is missing before *)
(* the last one.  SetRow is one step; the process may be killed between    *)
(* any two.                                                                *)
(***************************************************************************)
EXTENDS Integers, Sequences, FiniteSets, FiniteSetsExt

CONSTANTS
  Limit,      \* klines asked for at once: 1000 in the code
  Lag,        \* minutes behind that count as current: 30
  Hour,       \* minutes of an hour: 60
  Halted,     \* the minutes the exchange has no kline of
  MaxTime,    \* bound on the clock
  MaxKills    \* bound on kills

ASSUME MarketAssumption ==
  /\ Limit \in Nat /\ Limit > 1 /\ Lag \in Nat \ {0} /\ Hour \in Nat \ {0}
  /\ MaxTime \in Nat /\ MaxTime > 2 * Hour /\ MaxKills \in Nat
  /\ Halted \subseteq 2 * Hour + 1 .. MaxTime

VARIABLES
  clock,            \* the running minute
  TableTick,        \* shared mmap: what each minute's row holds
  TableTickIndex,   \* shared mmap: rows of hours
  BlockPriceDict,   \* the price of a block mined in each minute
  pc,               \* where the sync is
  currentTs,        \* of SyncResults: the minute syncBitcoin returned in
  prevTs, tmpN, ret,   \* its locals
  checked,          \* the minute at its last look at the clock
  kills

mmaps  == <<TableTick, TableTickIndex>>
locals == <<prevTs, tmpN, ret>>
vars   == <<clock, mmaps, BlockPriceDict, pc, currentTs, locals, checked, kills>>

Minutes == 1 .. MaxTime

\* GetBTCLastTs: the minute before the first empty row.
GetBTCLastTs == Min({m \in 1 .. MaxTime + 1 : m = MaxTime + 1 \/ TableTick[m] = "none"}) - 1

baseTickIndexTs == 2 * Hour

ts2ind_findex(t) == (t - baseTickIndexTs) \div Hour + 1

\* The timestamp of the last row of hours.
LastIndexTs == TableTickIndex[Len(TableTickIndex)].ts

\* The service starts with the tables an operator has put there, which reach
\* the first row of hours.
Init ==
  /\ clock = 2 * Hour + 1
  /\ TableTick = [m \in Minutes |-> IF m <= 2 * Hour THEN "closed" ELSE "none"]
  /\ TableTickIndex = <<[ts |-> 2 * Hour, minutes |-> {"closed"}]>>
  /\ BlockPriceDict = [m \in Minutes |-> "unknown"]
  /\ pc = "idle" /\ currentTs = 0
  /\ prevTs = 0 /\ tmpN = 0 /\ ret = <<>>
  /\ checked = 0 /\ kills = 0

Tick ==
  /\ clock < MaxTime
  /\ clock' = clock + 1
  /\ UNCHANGED <<mmaps, BlockPriceDict, pc, currentTs, locals, checked, kills>>

-----------------------------------------------------------------------------
\* SyncResults calls syncBitcoin.
Call ==
  /\ pc = "idle" /\ pc' = "begin"
  /\ UNCHANGED <<clock, mmaps, BlockPriceDict, currentTs, locals, checked, kills>>

\* syncBitcoin returns: true, and SyncResults goes on, or false.
ReturnTo(label) ==
  /\ pc' = label
  /\ currentTs' = IF label = "merge" THEN clock ELSE 0
  /\ prevTs' = 0 /\ tmpN' = 0 /\ ret' = <<>>

\* Mutant: the running minute is asked for too.
AskedOpen == Min({clock - GetBTCLastTs + 1, Limit})

\* How many klines to ask for, from the last stored minute on.
Asked == Min({clock - GetBTCLastTs, Limit})

\* "get derivative"
Begin ==
  /\ pc = "begin"
  /\ checked' = clock
  /\ IF Asked <= 1
     THEN ReturnTo("merge")
     ELSE /\ pc' = "fetch" /\ prevTs' = GetBTCLastTs /\ tmpN' = Asked
          /\ UNCHANGED <<currentTs, ret>>
  /\ UNCHANGED <<clock, mmaps, BlockPriceDict, kills>>

\* The i-th of a set of minutes.
NthMinute(S, i) == CHOOSE t \in S : Cardinality({u \in S : u < t}) = i - 1

\* The exchange's klines from minute m on.
Klines(m) ==
  LET minutes == (m .. clock) \ Halted
  IN  [i \in 1 .. Cardinality(minutes) |->
         LET t == NthMinute(minutes, i)
         IN  [ts |-> t, is |-> IF t < clock THEN "closed" ELSE "open"]]

\* Mutant: the first kline, which is stored, is not dropped.
AnswerWhole(klines) == klines

Answer(klines) == Tail(klines)

Fetch ==
  /\ pc = "fetch"
  /\ LET klines == Klines(prevTs)
     IN  ret' = Answer(SubSeq(klines, 1, Min({tmpN, Len(klines)})))
  /\ pc' = "store"
  /\ UNCHANGED <<clock, mmaps, BlockPriceDict, currentTs, prevTs, tmpN, checked, kills>>

FetchFails ==
  /\ pc = "fetch"
  /\ ReturnTo("idle")
  /\ UNCHANGED <<clock, mmaps, BlockPriceDict, checked, kills>>

\* Mutant: a kline after a gap is stored too.
FollowsAny(t) == t > prevTs

Follows(t) == t = prevTs + 1

\* "write data"; a kline that is not later than prevTs would be thrown at.
StoreRow ==
  /\ pc = "store" /\ ret # <<>>
  /\ Head(ret).ts > prevTs
  /\ ret' = Tail(ret)
  /\ IF Follows(Head(ret).ts)
     THEN /\ TableTick' = [TableTick EXCEPT ![Head(ret).ts] = Head(ret).is]
          /\ prevTs' = Head(ret).ts
     ELSE UNCHANGED <<TableTick, prevTs>>
  /\ UNCHANGED <<clock, TableTickIndex, BlockPriceDict, pc, currentTs, tmpN, checked, kills>>

\* Mutant: one answer is enough.
BehindNever(s) == FALSE

\* s: 0 in the first second of the minute, 1 later.
Behind(s) == clock - Lag + s > prevTs

\* More than half an hour behind: once more, from the start.
Check ==
  /\ pc = "store" /\ ret = <<>>
  /\ checked' = clock
  /\ \E s \in {0, 1} : pc' = IF Behind(s) THEN "begin" ELSE "index"
  /\ UNCHANGED <<clock, mmaps, BlockPriceDict, currentTs, locals, kills>>

\* Mutant: an hour counts when its last minute is still missing.
HourOverEarly == GetBTCLastTs - LastIndexTs >= Hour - 1

HourOver == GetBTCLastTs - LastIndexTs >= Hour

\* calcFinanceIndex(t): from the minutes of the hour, both its ends included.
calcFinanceIndex(t) ==
  TableTickIndex' =
    [i \in 1 .. ts2ind_findex(t) |->
       IF i = ts2ind_findex(t) THEN [ts |-> t, minutes |-> {TableTick[m] : m \in t - Hour .. t}]
       ELSE TableTickIndex[i]]

\* syncBitcoinIndex
IndexRow ==
  /\ pc = "index" /\ HourOver
  /\ calcFinanceIndex(LastIndexTs + Hour)
  /\ UNCHANGED <<clock, TableTick, BlockPriceDict, pc, currentTs, locals, checked, kills>>

IndexDone ==
  /\ pc = "index" /\ ~HourOver
  /\ ReturnTo("merge")
  /\ UNCHANGED <<clock, mmaps, BlockPriceDict, checked, kills>>

-----------------------------------------------------------------------------
\* GetPriceAtBlockN of a block of minute m: a price is looked up once.
GetPriceAtBlockN(m) ==
  /\ pc = "merge" /\ m <= currentTs
  /\ BlockPriceDict[m] = "unknown"
  /\ BlockPriceDict' = [BlockPriceDict EXCEPT ![m] = TableTick[m]]
  /\ UNCHANGED <<clock, mmaps, pc, currentTs, locals, checked, kills>>

\* SyncResults ends.
SyncEnds ==
  /\ pc = "merge" /\ ReturnTo("idle")
  /\ UNCHANGED <<clock, mmaps, BlockPriceDict, checked, kills>>

Crash ==
  /\ kills < MaxKills /\ kills' = kills + 1
  /\ BlockPriceDict' = [m \in Minutes |-> "unknown"]
  /\ ReturnTo("idle")
  /\ UNCHANGED <<clock, mmaps, checked>>

syncBitcoin == Begin \/ Fetch \/ FetchFails \/ StoreRow \/ Check \/ IndexRow \/ IndexDone

Next ==
  \/ Tick \/ Call \/ syncBitcoin
  \/ \E m \in Minutes : GetPriceAtBlockN(m)
  \/ SyncEnds \/ Crash

Spec == Init /\ [][Next]_vars

\* syncBitcoin is sequential code that goes on until it returns, and curl ends.
FairSpec == Spec /\ WF_vars(syncBitcoin)

-----------------------------------------------------------------------------
\* The rows of minutes are the klines of minutes that were over, from the first
\* on and without a hole, although the clock runs on between the request and
\* the answer and the exchange leaves minutes out.
TicksClosed ==
  \A m \in Minutes : IF m <= GetBTCLastTs THEN TableTick[m] = "closed" ELSE TableTick[m] = "none"

\* The rows of hours follow each other without a hole, each made from sixty-one
\* minutes that were all there, whenever the process was killed.
HoursWhole ==
  \A i \in DOMAIN TableTickIndex :
    /\ TableTickIndex[i].ts = baseTickIndexTs + (i - 1) * Hour
    /\ TableTickIndex[i].minutes = {"closed"}

\* After a sync that returned true, a block has a price unless its minute was
\* the running one at the sync's last look at the clock, or one of the Lag
\* minutes that a sync stopped by the limit may leave out.
OldBlocksPriced ==
  [][\A m \in Minutes :
       BlockPriceDict[m] = "unknown" /\ BlockPriceDict'[m] # "unknown" /\ m <= checked - Lag
         => BlockPriceDict'[m] = "closed"]_vars

\* A sync comes to an end, as long as the exchange has left no minute out.
SyncReturns == pc = "begin" ~> pc \in {"idle", "merge"} \/ \E m \in Halted : m <= clock
=============================================================================
