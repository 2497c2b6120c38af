------------------------------ MODULE Pipeline ------------------------------
(***************************************************************************)
(* pipeline-v3.jl: the service that follows the chain block by block.      *)
(*                                                                         *)
(* For every new block SyncResults digests the coins bitcore holds into    *)
(* the transaction table, stores the block's result row and merges the     *)
(* rows into the per-address state.  Two tasks call it: the main task (at  *)
(* start, and the operator at the REPL afterwards) and the TCP listener.   *)
(* saveWorkspace, run at the REPL, copies every store to a snapshot folder.*)
(*                                                                         *)
(* The stores differ in what a crash does to them.  The address state, the *)
(* results and the block timestamps are shared mmaps and survive; the      *)
(* transaction table, the address ids and the balances live in memory and  *)
(* are loaded at start from files only a deployed snapshot replaces.       *)
(*                                                                         *)
(* Julia tasks are cooperative: another task runs only where the current   *)
(* one yields (I/O, sleep, wait), so every action below ends at a yield,   *)
(* except in the merge loop, whose rows are separate steps because the     *)
(* process may be killed between them.                                     *)
(*                                                                         *)
(* Abstracted: what a coin is (a block is a number of coins), the values   *)
(* of results and statistics, the diff dictionary of a digest, and the ids *)
(* a digest assigns before it raises.                                      *)
(*                                                                         *)
(* A definition marked "Mutant" is not part of the specification: it is    *)
(* the definition after it with a plausible bug, for checking that the     *)
(* properties notice.                                                      *)
(***************************************************************************)
EXTENDS BlockTimestamp

CONSTANTS
  Coins,        \* coins of each block once bitcore has them all
  ZeroBlocks,   \* blocks all of whose coins have value zero
  Base,         \* the block up to which history was initialised
  Timely,       \* TRUE: bitcore completes a block within the sleeps
  SaveWhenIdle, \* TRUE: the operator saves only while "synchronizing" is false
  AllowStop,    \* TRUE: the operator may ask for an emergency stop
  MaxCrashes, MaxSaves, MaxFaults   \* bounds

Absent == -1    \* a block with no row in the transaction table

ASSUME PipelineAssumption ==
  /\ Coins \in [Blocks -> Nat \ {0}]
  /\ ZeroBlocks \subseteq Blocks
  /\ Base \in Blocks
  /\ Base \notin ZeroBlocks
  /\ Timely \in BOOLEAN /\ SaveWhenIdle \in BOOLEAN /\ AllowStop \in BOOLEAN
  /\ MaxCrashes \in Nat /\ MaxSaves \in Nat /\ MaxFaults \in Nat

Tasks == {"main", "listener"}

VARIABLES
  tip, coins, clock,                  \* bitcore: headers, coins; wall clock
  known, applied, results,            \* shared mmaps, survive a crash
  tx, ids, bal,                       \* memory: TableTx, address ids, balances
  disk,                               \* the files memory is loaded from
  snap,                               \* snapshot folders, by result id
  lastDone,                           \* GlobalRuntime["LastDoneBlock"]
  synchronizing, accepted, stop,      \* PipelineLocks
  pending,                            \* a connection waits for accept
  pc, cur, to, row,                   \* control and locals of each task
  crashes, saves, faults              \* how much of each bound is used

env    == <<tip, coins, clock>>
mmaps  == <<known, applied, results>>
memory == <<tx, ids, bal>>
files  == <<disk, snap>>
locks  == <<synchronizing, accepted, stop>>
locals == <<cur, to, row>>
bounds == <<crashes, saves, faults>>
vars   == <<env, mmaps, memory, files, lastDone, locks, pending, pc, locals, bounds>>

SyncPcs == {"info", "market", "sleep", "digest", "calc", "merge"}
SavePcs == {"saveAddress", "saveResults", "saveIds", "saveLog", "saveTx", "saveBalance"}
MainPcs == {"down", "repl"} \cup SyncPcs \cup SavePcs
ListenerPcs == {"off", "check", "accept", "done"} \cup SyncPcs

Up      == pc["main"] # "down"
Syncing == {t \in Tasks : pc[t] \in SyncPcs}

\* The merge loop does not yield: nobody else runs while a task is in it.
Yielded == \A t \in Tasks : pc[t] # "merge"

-----------------------------------------------------------------------------
\* What the stores say.

\* Rows of block n that change the address state: those of non-zero amount.
MergeRows(n) == IF n \in ZeroBlocks THEN 0 ELSE tx[n]

\* A fully collected block's contribution to the address state.
Whole(n) == IF n \in ZeroBlocks THEN 0 ELSE Coins[n]

\* GetLastProcessedTimestamp: the latest TimestampLastActive of any address.
GetLastProcessedTimestamp ==
  LET active == {Ts[n] : n \in {m \in Blocks : applied[m] > 0}}
  IN  IF active = {} THEN 0 ELSE Max(active)

GetLastResultsID == IF results = {} THEN 0 ELSE Max(results)

LastProcessedBlock == Timestamp2LastBlockN(known, GetLastProcessedTimestamp)

\* Mutant: the cursor starts at the end of the initialised history.
CursorAtBase == Base

\* The LastDoneBlock the service starts with.
CursorAtStart == LastProcessedBlock

\* The @assert of saveWorkspace and of the start of the service.
StoresAgree == LastProcessedBlock = GetLastResultsID

\* Mutant: with runtime_assert off, nobody looks for the rows before.
BlockAssumed(n) == TRUE

\* txLocateBlock finds the rows of block n.
BlockLocated(n) == tx[n] # Absent

\* A row with a block number above n follows the rows of n.
RowsAfter(n) == \E m \in Blocks : m > n /\ tx[m] # Absent

-----------------------------------------------------------------------------
NoSnapshot ==
  [addr |-> [n \in Blocks |-> 0], res |-> {}, ids |-> 0, log |-> FALSE,
   tx |-> [n \in Blocks |-> Absent], bal |-> 0, done |-> FALSE]

\* History is initialised up to Base, the service is not running.
Init ==
  /\ tip = Base /\ known = Base /\ clock = Ts[Base]
  /\ coins = [n \in Blocks |-> IF n <= Base THEN Coins[n] ELSE 0]
  /\ tx = [n \in Blocks |-> IF n <= Base THEN Coins[n] ELSE Absent]
  /\ applied = [n \in Blocks |-> IF n <= Base THEN Whole(n) ELSE 0]
  /\ results = 1 .. Base
  /\ ids = Base /\ bal = Base
  /\ disk = [tx |-> tx, ids |-> ids, bal |-> bal]
  /\ snap = [n \in Blocks |-> NoSnapshot]
  /\ lastDone = 0
  /\ synchronizing = FALSE /\ accepted = FALSE /\ stop = FALSE /\ pending = FALSE
  /\ pc = [t \in Tasks |-> IF t = "main" THEN "down" ELSE "off"]
  /\ cur = [t \in Tasks |-> 0] /\ to = [t \in Tasks |-> 0] /\ row = 0
  /\ crashes = 0 /\ saves = 0 /\ faults = 0

-----------------------------------------------------------------------------
\* Bitcore and the clock.

\* A header is visible before the coins of its block are.
NewBlock ==
  /\ tip < N
  /\ tip' = tip + 1
  /\ UNCHANGED <<coins, clock, mmaps, memory, files, lastDone, locks, pending, pc, locals, bounds>>

CollectCoin(n) ==
  /\ n <= tip /\ coins[n] < Coins[n]
  /\ coins' = [coins EXCEPT ![n] = @ + 1]
  /\ UNCHANGED <<tip, clock, mmaps, memory, files, lastDone, locks, pending, pc, locals, bounds>>

Tick ==
  /\ clock < Ts[N]
  /\ clock' = clock + 1
  /\ UNCHANGED <<tip, coins, mmaps, memory, files, lastDone, locks, pending, pc, locals, bounds>>

\* Somebody connects to port 8021.  More waiting connections add nothing.
Connect ==
  /\ pc["listener"] \notin {"off", "done"}
  /\ ~pending
  /\ pending' = TRUE
  /\ UNCHANGED <<env, mmaps, memory, files, lastDone, locks, pc, locals, bounds>>

-----------------------------------------------------------------------------
\* How a call of SyncResults ends.

\* The process is gone; memory already shows what the next start will load.
Halt ==
  /\ pc' = [t \in Tasks |-> IF t = "main" THEN "down" ELSE "off"]
  /\ synchronizing' = FALSE /\ accepted' = FALSE /\ stop' = FALSE /\ pending' = FALSE
  /\ tx' = disk.tx /\ ids' = disk.ids /\ bal' = disk.bal
  /\ lastDone' = 0
  /\ cur' = [t \in Tasks |-> 0] /\ to' = [t \in Tasks |-> 0] /\ row' = 0

\* Mutant: the listener goes back to accept without looking at "stop".
ReturnUnchecked(t) ==
  /\ pc' = IF t = "listener" THEN [pc EXCEPT ![t] = "accept"]
           ELSE [u \in Tasks |-> IF u = t THEN "repl"
                                 ELSE IF pc[u] = "off" THEN "check" ELSE pc[u]]
  /\ accepted' = (accepted /\ t # "listener")
  /\ cur' = [cur EXCEPT ![t] = 0]
  /\ to' = [to EXCEPT ![t] = 0]

\* The caller goes on: the listener to its loop, after its "finally"; the main
\* task to the REPL, after starting the listener if this was the first sync.
Return(t) ==
  /\ pc' = IF t = "listener" THEN [pc EXCEPT ![t] = "check"]
           ELSE [u \in Tasks |-> IF u = t THEN "repl"
                                 ELSE IF pc[u] = "off" THEN "check" ELSE pc[u]]
  /\ accepted' = (accepted /\ t # "listener")
  /\ cur' = [cur EXCEPT ![t] = 0]
  /\ to' = [to EXCEPT ![t] = 0]

\* Mutant: a return that forgets the lock.
ReleaseForgets(t) == Return(t) /\ UNCHANGED synchronizing

\* A return that frees the lock.
Release(t) == Return(t) /\ synchronizing' = FALSE

\* Mutant: a "finally" that frees the lock after an exception.
RaiseReleases(t) ==
  IF pc["listener"] = "off"
  THEN Halt
  ELSE Release(t) /\ UNCHANGED <<stop, pending, memory, lastDone, row>>

\* An exception leaves SyncResults with the lock still set.  It ends the process
\* if the service was starting; a later one is caught, or shown at the REPL.
Raise(t) ==
  IF pc["listener"] = "off"
  THEN Halt
  ELSE /\ Return(t)
       /\ UNCHANGED <<synchronizing, stop, pending, memory, lastDone, row>>

Fault == faults < MaxFaults /\ faults' = faults + 1

-----------------------------------------------------------------------------
\* SyncResults, in task t.

\* Mutant: the lock is taken without being tested.
SyncBeginsUnlocked(t) ==
  /\ synchronizing' = TRUE
  /\ pc' = [pc EXCEPT ![t] = "info"]
  /\ UNCHANGED <<cur, to>>

\* Mutant: a second caller frees the lock of the first.
SyncBeginsReleases(t) ==
  IF synchronizing THEN Release(t) ELSE SyncBeginsUnlocked(t)

\* Line 215: a second caller returns at once.
SyncBegins(t) ==
  IF synchronizing
  THEN Return(t) /\ UNCHANGED synchronizing
  ELSE /\ synchronizing' = TRUE
       /\ pc' = [pc EXCEPT ![t] = "info"]
       /\ UNCHANGED <<cur, to>>

\* Mutant: one header too far.
HeadersTooFar == known .. tip + 1

\* Where a pass over the headers not in the table may have stopped.
Headers == known .. tip

\* SyncBlockInfo stops at the first header it cannot read.
SyncBlockInfo(t) ==
  /\ Yielded /\ pc[t] = "info"
  /\ \E h \in Headers :
       /\ known' = h
       /\ IF h < tip THEN Fault ELSE UNCHANGED faults
  /\ pc' = [pc EXCEPT ![t] = "market"]
  /\ UNCHANGED <<env, applied, results, memory, files, lastDone, locks, pending, locals, crashes, saves>>

\* syncBitcoin succeeded: fix the range of blocks, then sleep.
MarketSynced(t) ==
  /\ Yielded /\ pc[t] = "market"
  /\ LET toBlock == Timestamp2LastBlockN(known, clock)
     IN  IF toBlock < lastDone + 1
         THEN Release(t)
         ELSE /\ pc' = [pc EXCEPT ![t] = "sleep"]
              /\ cur' = [cur EXCEPT ![t] = lastDone + 1]
              /\ to' = [to EXCEPT ![t] = toBlock]
              /\ UNCHANGED <<synchronizing, accepted>>
  /\ UNCHANGED <<env, mmaps, memory, files, lastDone, stop, pending, row, bounds>>

MarketFails(t) ==
  /\ Yielded /\ pc[t] = "market"
  /\ Fault
  /\ Release(t)
  /\ UNCHANGED <<env, mmaps, memory, files, lastDone, stop, pending, row, crashes, saves>>

\* "make sure bitcore has collected full data": three to eight seconds.
Sleep(t) ==
  /\ Yielded /\ pc[t] = "sleep"
  /\ Timely => \A n \in cur[t] .. to[t] : coins[n] = Coins[n]
  /\ pc' = [pc EXCEPT ![t] = "digest"]
  /\ UNCHANGED <<env, mmaps, memory, files, lastDone, locks, pending, locals, bounds>>

\* Mutant: tmpBalanceDict is not written back.
AppendRowsOnly(n) ==
  /\ tx' = [tx EXCEPT ![n] = coins[n]]
  /\ ids' = n
  /\ UNCHANGED bal

\* BatchInsert, with the ids and balances the rows needed.
AppendRows(n) ==
  /\ tx' = [tx EXCEPT ![n] = coins[n]]
  /\ ids' = n
  /\ bal' = n

\* DigestTransactionsOnBlock(n): append the coins bitcore holds now, or skip
\* when rows follow block n - 1 already.
Digest(t) ==
  LET n == cur[t]
  IN  /\ Yielded /\ pc[t] = "digest"
      /\ BlockLocated(n - 1)
      /\ IF RowsAfter(n - 1) \/ coins[n] = 0
         THEN UNCHANGED memory
         ELSE AppendRows(n)
      /\ pc' = [pc EXCEPT ![t] = "calc"]
      /\ UNCHANGED <<env, mmaps, files, lastDone, locks, pending, locals, bounds>>

\* txLocateBlock finds no row of block n - 1: its @assert, or an empty range.
DigestRaises(t) ==
  /\ Yielded /\ pc[t] = "digest"
  /\ ~BlockLocated(cur[t] - 1)
  /\ Raise(t)
  /\ UNCHANGED <<env, mmaps, files, bounds>>

\* Mutant: the row goes to the id before.
SetRowBefore(n) == results \cup {n - 1}

\* TableResults.SetRow(n, ...).
SetRow(n) == results \cup {n}

\* CalculateResultOnBlock(n), which waits for its workers, then SetRow.
StoreResult(t) ==
  /\ Yielded /\ pc[t] = "calc"
  /\ BlockLocated(cur[t])
  /\ results' = SetRow(cur[t])
  /\ pc' = [pc EXCEPT ![t] = "merge"]
  /\ row' = 0
  /\ UNCHANGED <<env, known, applied, memory, files, lastDone, locks, pending, cur, to, bounds>>

StoreRaises(t) ==
  /\ Yielded /\ pc[t] = "calc"
  /\ ~BlockLocated(cur[t])
  /\ Raise(t)
  /\ UNCHANGED <<env, mmaps, files, bounds>>

\* Bitcore, the exchange or a worker raises: every call of SyncResults that
\* reaches outside the process, or asserts about its numbers.
CallRaises(t) ==
  /\ Yielded /\ pc[t] \in {"info", "market", "digest", "calc"}
  /\ Fault
  /\ Raise(t)
  /\ UNCHANGED <<env, mmaps, files, crashes, saves>>

\* MergeBlock2AddressState(n), one row.
MergeRow(t) ==
  /\ pc[t] = "merge" /\ row < MergeRows(cur[t])
  /\ applied' = [applied EXCEPT ![cur[t]] = @ + 1]
  /\ row' = row + 1
  /\ UNCHANGED <<env, known, results, memory, files, lastDone, locks, pending, pc, cur, to, bounds>>

\* Mutant: LastDoneBlock is not moved.
CursorKept(t) == lastDone

\* The LastDoneBlock after a block.
CursorAfter(t) == cur[t]

\* The block is done; the next one, or the end of the loop.
MergeDone(t) ==
  /\ pc[t] = "merge" /\ row >= MergeRows(cur[t])
  /\ lastDone' = CursorAfter(t)
  /\ row' = 0
  /\ IF cur[t] < to[t]
     THEN /\ cur' = [cur EXCEPT ![t] = @ + 1]
          /\ pc' = [pc EXCEPT ![t] = "digest"]
          /\ UNCHANGED <<synchronizing, accepted, to>>
     ELSE Release(t)
  /\ UNCHANGED <<env, mmaps, memory, files, stop, pending, bounds>>

-----------------------------------------------------------------------------
\* The callers of SyncResults.

\* The service starts: the @assert holds, memory is loaded.
Start ==
  /\ ~Up
  /\ StoresAgree
  /\ lastDone' = CursorAtStart
  /\ SyncBegins("main")
  /\ UNCHANGED <<env, mmaps, memory, files, accepted, stop, pending, row, bounds>>

\* The operator calls SyncResults at the REPL.
OperatorSync ==
  /\ Yielded /\ pc["main"] = "repl"
  /\ SyncBegins("main")
  /\ accepted' = accepted
  /\ UNCHANGED <<env, mmaps, memory, files, lastDone, stop, pending, row, bounds>>

ListenerChecks ==
  /\ Yielded /\ pc["listener"] = "check"
  /\ pc' = [pc EXCEPT !["listener"] = IF stop THEN "done" ELSE "accept"]
  /\ UNCHANGED <<env, mmaps, memory, files, lastDone, locks, pending, locals, bounds>>

\* Mutant: every connection starts a sync.
NoneIgnored == FALSE

\* "accepted" is set by the trigger itself, or by a save.
TriggerIgnored == accepted

\* tcpTrigger, one connection.
TcpTrigger ==
  /\ Yielded /\ pc["listener"] = "accept" /\ pending
  /\ pending' = FALSE
  /\ IF TriggerIgnored
     THEN /\ pc' = [pc EXCEPT !["listener"] = "check"]
          /\ UNCHANGED <<accepted, synchronizing, cur, to>>
     ELSE /\ SyncBegins("listener")
          /\ accepted' = ~synchronizing
  /\ UNCHANGED <<env, mmaps, memory, files, lastDone, stop, row, bounds>>

\* procedure-exit.jl, of which only the first lines run: set the flag, connect.
EmergencyStop ==
  /\ AllowStop /\ Yielded /\ pc["main"] = "repl"
  /\ pc["listener"] # "done" /\ ~stop
  /\ stop' = TRUE
  /\ pending' = TRUE
  /\ UNCHANGED <<env, mmaps, memory, files, lastDone, synchronizing, accepted, pc, locals, bounds>>

-----------------------------------------------------------------------------
\* saveWorkspace, at the REPL: one store after another, a log line (a yield)
\* between two of them.

\* Line 307 sets "accepted" before the @assert, and never reads it.
SaveBegins ==
  /\ Yielded /\ pc["main"] = "repl" /\ saves < MaxSaves
  /\ SaveWhenIdle => ~synchronizing
  /\ saves' = saves + 1
  /\ accepted' = TRUE
  /\ IF StoresAgree
     THEN /\ pc' = [pc EXCEPT !["main"] = "saveAddress"]
          /\ cur' = [cur EXCEPT !["main"] = GetLastResultsID]
     ELSE UNCHANGED <<pc, cur>>
  /\ UNCHANGED <<env, mmaps, memory, files, lastDone, synchronizing, stop, pending, to, row, crashes, faults>>

\* One store is written to the folder of the snapshot.
SaveStore(at, next, field, value) ==
  /\ Yielded /\ pc["main"] = at
  /\ snap' = [snap EXCEPT ![cur["main"]] = [@ EXCEPT ![field] = value]]
  /\ pc' = [pc EXCEPT !["main"] = next]
  /\ UNCHANGED <<env, mmaps, memory, disk, lastDone, locks, pending, locals, bounds>>

\* The first write into a folder that held a complete snapshot spoils it.
SaveAddress ==
  /\ Yielded /\ pc["main"] = "saveAddress"
  /\ snap' = [snap EXCEPT ![cur["main"]] = [@ EXCEPT !.addr = applied, !.done = FALSE]]
  /\ pc' = [pc EXCEPT !["main"] = "saveResults"]
  /\ UNCHANGED <<env, mmaps, memory, disk, lastDone, locks, pending, locals, bounds>>

SaveResults == SaveStore("saveResults", "saveIds", "res", results)
SaveIds     == SaveStore("saveIds", "saveLog", "ids", ids)
SaveTx      == SaveStore("saveTx", "saveBalance", "tx", tx)

\* cp does not overwrite: a second save of the same block raises here, and
\* leaves "accepted" set.
SaveLog ==
  /\ Yielded /\ pc["main"] = "saveLog"
  /\ IF snap[cur["main"]].log
     THEN /\ pc' = [pc EXCEPT !["main"] = "repl"]
          /\ cur' = [cur EXCEPT !["main"] = 0]
          /\ UNCHANGED snap
     ELSE /\ snap' = [snap EXCEPT ![cur["main"]] = [@ EXCEPT !.log = TRUE]]
          /\ pc' = [pc EXCEPT !["main"] = "saveTx"]
          /\ UNCHANGED cur
  /\ UNCHANGED <<env, mmaps, memory, disk, lastDone, locks, pending, to, row, bounds>>

\* Mutant: "accepted" stays set.
SaveBalanceForgets ==
  /\ Yielded /\ pc["main"] = "saveBalance"
  /\ snap' = [snap EXCEPT ![cur["main"]] = [@ EXCEPT !.bal = bal, !.done = TRUE]]
  /\ pc' = [pc EXCEPT !["main"] = "repl"]
  /\ cur' = [cur EXCEPT !["main"] = 0]
  /\ UNCHANGED <<env, mmaps, memory, disk, lastDone, locks, pending, to, row, bounds>>

SaveBalance ==
  /\ Yielded /\ pc["main"] = "saveBalance"
  /\ snap' = [snap EXCEPT ![cur["main"]] = [@ EXCEPT !.bal = bal, !.done = TRUE]]
  /\ accepted' = FALSE
  /\ pc' = [pc EXCEPT !["main"] = "repl"]
  /\ cur' = [cur EXCEPT !["main"] = 0]
  /\ UNCHANGED <<env, mmaps, memory, disk, lastDone, synchronizing, stop, pending, to, row, bounds>>

-----------------------------------------------------------------------------
\* The process is killed or the machine stops it, at any point.
Crash ==
  /\ Up /\ crashes < MaxCrashes
  /\ crashes' = crashes + 1
  /\ Halt
  /\ UNCHANGED <<env, mmaps, files, saves, faults>>

\* With the service down, the operator copies a complete snapshot into place.
Deploy(id) ==
  LET s == snap[id]
  IN  /\ ~Up /\ s.done
      /\ applied' = s.addr /\ results' = s.res
      /\ disk' = [tx |-> s.tx, ids |-> s.ids, bal |-> s.bal]
      /\ tx' = s.tx /\ ids' = s.ids /\ bal' = s.bal
      /\ UNCHANGED <<env, known, snap, lastDone, locks, pending, pc, locals, bounds>>

SyncStep(t) ==
  \/ SyncBlockInfo(t) \/ MarketSynced(t) \/ MarketFails(t) \/ Sleep(t)
  \/ Digest(t) \/ DigestRaises(t) \/ StoreResult(t) \/ StoreRaises(t)
  \/ CallRaises(t) \/ MergeRow(t) \/ MergeDone(t)

SaveStep == SaveAddress \/ SaveResults \/ SaveIds \/ SaveLog \/ SaveTx \/ SaveBalance

Next ==
  \/ NewBlock \/ Tick \/ Connect
  \/ \E n \in Blocks : CollectCoin(n)
  \/ Start \/ OperatorSync \/ ListenerChecks \/ TcpTrigger \/ EmergencyStop
  \/ \E t \in Tasks : SyncStep(t)
  \/ SaveBegins \/ SaveStep
  \/ Crash
  \/ \E id \in Blocks : Deploy(id)

Spec == Init /\ [][Next]_vars

\* The scheduler runs every task that can run; time passes, bitcore finishes
\* the blocks it announced, and its client keeps connecting.
Fairness ==
  /\ \A t \in Tasks : WF_vars(SyncStep(t) /\ faults' = faults)
  /\ WF_vars(ListenerChecks) /\ WF_vars(TcpTrigger) /\ WF_vars(Start)
  /\ WF_vars(SaveStep)
  /\ WF_vars(Connect) /\ WF_vars(Tick)
  /\ \A n \in Blocks : WF_vars(CollectCoin(n))

FairSpec == Spec /\ Fairness

-----------------------------------------------------------------------------
(* What must hold. *)

Table == [Blocks -> Nat \cup {Absent}]

SnapshotType ==
  [addr : [Blocks -> Nat], res : SUBSET Blocks, ids : Nat, log : BOOLEAN,
   tx : Table, bal : Nat, done : BOOLEAN]

StoresType ==
  /\ tip \in Blocks /\ coins \in [Blocks -> Nat] /\ clock \in Nat
  /\ known \in Blocks /\ applied \in [Blocks -> Nat] /\ results \in SUBSET Blocks
  /\ tx \in Table /\ ids \in Nat /\ bal \in Nat
  /\ disk \in [tx : Table, ids : Nat, bal : Nat]
  /\ snap \in [Blocks -> SnapshotType]

PcType ==
  /\ pc \in [Tasks -> MainPcs \cup ListenerPcs]
  /\ pc["main"] \in MainPcs /\ pc["listener"] \in ListenerPcs

LocksType ==
  /\ synchronizing \in BOOLEAN /\ accepted \in BOOLEAN
  /\ stop \in BOOLEAN /\ pending \in BOOLEAN

LocalsType ==
  /\ lastDone \in 0 .. N
  /\ cur \in [Tasks -> 0 .. N] /\ to \in [Tasks -> 0 .. N] /\ row \in Nat
  /\ crashes \in Nat /\ saves \in Nat /\ faults \in Nat

TypeOK == StoresType /\ PcType /\ LocksType /\ LocalsType

\* At most one task is inside SyncResults, and it holds the lock: a save that
\* ends, a trigger that is ignored or a call that returns early never frees it.
MutualExclusion ==
  /\ \A t, u \in Syncing : t = u
  /\ Syncing # {} => synchronizing

\* No row of a block is merged before every row of the blocks below it, over
\* any number of crashes, restarts and deployed snapshots.
MergedInOrder ==
  \A m, n \in Blocks : m < n /\ applied[n] > 0 => applied[m] = Whole(m)

\* No coin is merged twice, however often SyncResults is called or restarted.
MergedOnce == \A n \in Blocks : applied[n] <= Whole(n)

\* The result of a block is computed from the address state before the block:
\* it is on disk before the first of the block's rows is merged.
ResultFirst == \A n \in Blocks : applied[n] > 0 => n \in results

\* The cursor: everything below LastDoneBlock is merged, and above it only the
\* block some task is merging right now.
CursorMeans ==
  Up => /\ \A n \in Blocks : n < lastDone => applied[n] = Whole(n)
        /\ \A n \in Blocks : n > lastDone /\ applied[n] > 0 =>
              \E t \in Tasks : pc[t] = "merge" /\ cur[t] = n

\* However late bitcore is, no block is counted as done without any of its coins.
NoBlockPassedOver ==
  Up => \A n \in Blocks \ ZeroBlocks : n <= lastDone => applied[n] > 0

\* Address ids and balances in memory are those of the last digested block:
\* otherwise the next digest hands out ids twice or starts from wrong balances.
LastTx(table) == Max({n \in Blocks : table[n] # Absent})

MemoryAgrees == ids = LastTx(tx) /\ bal = LastTx(tx)

\* A complete snapshot is of one block, its folder's number, in every store: it
\* can be put back without losing, repeating or renaming anything.
Usable(id) ==
  /\ snap[id].res = 1 .. id
  /\ \A n \in Blocks : snap[id].addr[n] = IF n <= id THEN Whole(n) ELSE 0
  /\ LastTx(snap[id].tx) = id /\ snap[id].ids = id /\ snap[id].bal = id

SnapshotUsable == \A id \in Blocks : snap[id].done => Usable(id)

\* While the service is up the address state changes only at the block after
\* the cursor, by the task that holds the lock.
OnlyNextBlockMoves ==
  [][Up => \A n \in Blocks : applied'[n] # applied[n] =>
       n = lastDone + 1 /\ synchronizing /\ \E t \in Syncing : cur[t] = n]_vars

\* An exception in SyncResults stops the pipeline until the process restarts:
\* calls keep returning as if there were nothing to do.
Wedged == Up /\ synchronizing /\ Syncing = {}
WedgedStays ==
  [][Wedged /\ Up' => Wedged' /\ UNCHANGED <<applied, results, tx, lastDone>>]_vars

\* A save has raised (at the assertion of line 308, or at cp, line 320): its
\* flag is still set, and nobody is at work who would set it back.
Deaf == Up /\ accepted /\ pc["main"] \notin SavePcs /\ pc["listener"] \notin SyncPcs

\* Every block bitcore announces is merged in the end, unless the service is
\* told to stop or left deaf by a save.
BlocksGetMerged ==
  \A n \in Blocks : tip >= n ~> Up /\ (lastDone >= n \/ stop \/ Deaf)

\* The flag that keeps triggers out is given back: by the sync of a trigger, and
\* by the first save of a block, even if an earlier one has raised. A second
\* save of that block raises instead, and keeps it (lines 307-329).
SavesEnd ==
  /\ pc["listener"] \in SyncPcs ~> ~accepted
  /\ \A id \in Blocks :
       /\ pc["main"] \in SavePcs /\ cur["main"] = id /\ ~snap[id].log ~> ~accepted
       /\ pc["main"] = "saveAddress" /\ cur["main"] = id /\ snap[id].log ~> Deaf

\* An emergency stop ends the listener, after at most the sync it is in.
StopEndsListener == stop ~> pc["listener"] = "done"

\* The two store cursors the @assert compares agree whenever the service starts.
StartupAssert == ~Up => StoresAgree

\* The address state of a snapshot was saved at the block of its results.
SnapshotOfOneBlock ==
  \A id \in Blocks : snap[id].done =>
    /\ snap[id].res = 1 .. id
    /\ \A n \in Blocks : snap[id].addr[n] > 0 => n <= id
=============================================================================
