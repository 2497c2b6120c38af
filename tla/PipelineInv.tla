----------------------------- MODULE PipelineInv -----------------------------
(***************************************************************************)
(* The inductive invariants behind Pipeline's properties, and the map from *)
(* its state to the abstract ledger.  PipelineProofs and SnapshotProofs    *)
(* prove them.                                                             *)
(***************************************************************************)
EXTENDS Pipeline

LoopPcs == {"sleep", "digest", "calc", "merge"}

\* The loop of SyncResults stays in the range it computed.
LoopInRange ==
  \A t \in Tasks : pc[t] \in LoopPcs =>
    cur[t] \in Blocks /\ to[t] \in Blocks /\ cur[t] <= to[t]

TypeInv == TypeOK /\ LoopInRange

\* Whoever is inside SyncResults holds the lock, nobody else is inside, and a
\* process that is down holds nothing.
LockInv ==
  /\ \A t \in Tasks : pc[t] \in SyncPcs => synchronizing
  /\ ~(pc["main"] \in SyncPcs /\ pc["listener"] \in SyncPcs)
  /\ pc["main"] = "down" => pc["listener"] = "off" /\ ~synchronizing

-----------------------------------------------------------------------------
(* The ledger: why stale stores never make progress. *)

\* A transaction table holds every coin of a prefix of the chain.
GoodTable(table) ==
  \A n \in Blocks : table[n] # Absent =>
    table[n] = Coins[n] /\ \A m \in Blocks : m < n => table[m] # Absent

\* Every block of a table is merged: a table may lag behind the address state,
\* and then the next digest raises, but it never runs ahead of it.
Covered(table, addr) ==
  \A n \in Blocks : table[n] # Absent => addr[n] = Whole(n)

\* Rows are merged after the block's result, results after the blocks below.
GoodLedger(addr, res) ==
  /\ Base \in res
  /\ \A n \in Blocks : addr[n] <= Whole(n)
  /\ \A n \in Blocks : addr[n] > 0 => n \in res
  /\ \A m, n \in Blocks : m < n /\ n \in res => addr[m] = Whole(m)

GoodFiles ==
  /\ GoodTable(disk.tx) /\ Covered(disk.tx, applied)
  /\ \A id \in Blocks : snap[id].done =>
       /\ GoodTable(snap[id].tx) /\ Covered(snap[id].tx, snap[id].addr)
       /\ GoodLedger(snap[id].addr, snap[id].res)

\* The one block that may be digested and not yet merged is the next one, while
\* a sync is past its digest or has raised there.
EarlyPcs == {"info", "market", "sleep", "digest"}

NotYetMerged(n) ==
  /\ synchronizing /\ n = lastDone + 1
  /\ \A t \in Tasks : pc[t] \notin EarlyPcs

GoodMemory ==
  /\ GoodTable(tx)
  /\ \A n \in Blocks : tx[n] # Absent => applied[n] = Whole(n) \/ NotYetMerged(n)
  /\ ~Up => tx = disk.tx

GoodCursor ==
  Up => /\ lastDone \in results
        /\ \A n \in Blocks : n > lastDone /\ applied[n] > 0 =>
             \E t \in Tasks : pc[t] = "merge" /\ cur[t] = n

\* What a task inside the loop has already established.
GoodLoop ==
  \A t \in Tasks :
    /\ pc[t] \in LoopPcs => cur[t] = lastDone + 1
    /\ pc[t] \in LoopPcs \ {"sleep"} =>
         \A n \in Blocks : cur[t] <= n /\ n <= to[t] => coins[n] = Coins[n]
    /\ pc[t] \in {"calc", "merge"} => tx[lastDone] # Absent
    /\ pc[t] = "merge" =>
         /\ tx[cur[t]] # Absent /\ cur[t] \in results
         /\ applied[cur[t]] = row /\ row <= MergeRows(cur[t])

\* A save runs alone: what it has written is still what the stores hold.
GoodSave ==
  LET s == snap[cur["main"]]
  IN  /\ pc["main"] \in SavePcs => accepted /\ ~synchronizing /\ cur["main"] \in Blocks
      /\ pc["main"] \in SavePcs \ {"saveAddress"} => s.addr = applied /\ ~s.done
      /\ pc["main"] \in {"saveIds", "saveLog", "saveTx", "saveBalance"} => s.res = results
      /\ pc["main"] = "saveBalance" => s.tx = tx

LedgerInv ==
  /\ GoodLedger(applied, results)
  /\ GoodFiles /\ GoodMemory /\ GoodCursor /\ GoodLoop /\ GoodSave

-----------------------------------------------------------------------------
(* Ids and balances: why a snapshot is of one moment. *)

\* The ids and balances are those of the last block of the table.
Agree(table, i, b) == i = LastTx(table) /\ b = LastTx(table)

\* A save shuts out every sync, and what it has written of the ids and of the
\* table is still what is in memory.
SaveAlone ==
  LET s == snap[cur["main"]]
  IN  /\ pc["main"] \in SavePcs => accepted /\ ~synchronizing
      /\ cur["main"] \in Blocks =>
           /\ pc["main"] \in SavePcs \ {"saveAddress"} => ~s.done
           /\ pc["main"] \in {"saveLog", "saveTx", "saveBalance"} => s.ids = ids
           /\ pc["main"] = "saveBalance" => s.tx = tx

AgreeInv ==
  /\ SaveAlone
  /\ Agree(tx, ids, bal) /\ Agree(disk.tx, disk.ids, disk.bal)
  /\ \A id \in Blocks : snap[id].done => Agree(snap[id].tx, snap[id].ids, snap[id].bal)

-----------------------------------------------------------------------------
(* Results: why a snapshot with its block's rows lacks nothing. *)

Gapless(res) == \A n \in res, m \in Blocks : m < n => m \in res

\* Every block of the table has its result.
Listed(table, res) == \A n \in Blocks : table[n] # Absent => n \in res

\* Every result has its block in the table: the table is not stale.
Fresh(table, res) == \A n \in res : table[n] # Absent

ResultsInv ==
  /\ Gapless(results)
  /\ Listed(disk.tx, results)
  /\ \A n \in Blocks : tx[n] # Absent => n \in results \/ NotYetMerged(n)
  /\ \A t \in Tasks : pc[t] = "calc" => tx[cur[t]] # Absent
  /\ pc["main"] \in SavePcs => cur["main"] = GetLastResultsID
  /\ \A id \in Blocks : snap[id].done =>
       snap[id].res = 1 .. id /\ Listed(snap[id].tx, snap[id].res)

\* The table falls behind the results only when the process ends.
FreshInv ==
  crashes = 0 /\ faults = 0 =>
    /\ Fresh(tx, results)
    /\ \A id \in Blocks : snap[id].done => Fresh(snap[id].tx, snap[id].res)

-----------------------------------------------------------------------------
(* However late bitcore is, and whatever sync a save runs beside. *)

\* A block has some of its rows in a table, perhaps not all.
PartOfBlocks(table) == \A n \in Blocks : table[n] # Absent => table[n] <= Coins[n]

\* What is merged of a block is not more than the block, and its result is there.
ResultsCover(addr, res) ==
  \A n \in Blocks : addr[n] <= Whole(n) /\ (addr[n] > 0 => n \in res)

LateTables ==
  /\ \A n \in Blocks : coins[n] <= Coins[n]
  /\ PartOfBlocks(tx) /\ PartOfBlocks(disk.tx)
  /\ \A id \in Blocks : PartOfBlocks(snap[id].tx)

LateStores ==
  /\ ResultsCover(applied, results)
  /\ \A id \in Blocks : snap[id].done => ResultsCover(snap[id].addr, snap[id].res)

\* Nothing is merged above the cursor but the block that is being merged.
LateCursor ==
  Up => \A n \in Blocks : n > lastDone /\ applied[n] > 0 =>
          \E t \in Tasks : pc[t] = "merge" /\ cur[t] = n

LateLoop ==
  \A t \in Tasks :
    /\ pc[t] \in LoopPcs => cur[t] = lastDone + 1
    /\ pc[t] = "merge" =>
         /\ cur[t] \in results
         /\ applied[cur[t]] = row /\ row <= MergeRows(cur[t])

\* A save writes the address state before the results, which only grow.
LateSave ==
  LET s == snap[cur["main"]]
  IN  cur["main"] \in Blocks =>
        /\ pc["main"] \in SavePcs \ {"saveAddress"} => ~s.done
        /\ pc["main"] = "saveResults" => ResultsCover(s.addr, results)
        /\ pc["main"] \in {"saveIds", "saveLog", "saveTx", "saveBalance"} =>
             ResultsCover(s.addr, s.res)

LateInv == LateTables /\ LateStores /\ LateCursor /\ LateLoop /\ LateSave

-----------------------------------------------------------------------------
(* However late bitcore is: what holds until the process is killed. *)

\* Block n has coins in the address state, or is being merged right now.
Counted(n) == applied[n] > 0 \/ \E t \in Tasks : pc[t] = "merge" /\ cur[t] = n

FirstLife ==
  /\ pc["listener"] = "off" => \A id \in Blocks : ~snap[id].done
  /\ Gapless(results) /\ \A n \in results \ ZeroBlocks : Counted(n)
  /\ \A n \in Blocks : tx[n] # 0 /\ disk.tx[n] # 0
  /\ Up => lastDone \in results \cup {0}
  /\ \A t \in Tasks :
       /\ pc[t] \in LoopPcs => cur[t] = lastDone + 1
       /\ pc[t] = "merge" =>
            cur[t] \in results /\ tx[cur[t]] # Absent /\ row <= applied[cur[t]]

\* Nobody is at the REPL before the first sync has returned.
LateRepl == pc["listener"] = "off" => pc["main"] \in {"down"} \cup SyncPcs

PassInv == LateRepl /\ (crashes = 0 => FirstLife)

-----------------------------------------------------------------------------
(* The abstract ledger. *)

\* A block is in the ledger once its result is stored and its rows are merged,
\* and those of every block below: that counts blocks without a coin of value too.
Entered(addr, res) == {n \in res : \A m \in 1 .. n : addr[m] = Whole(m)}
Prefix(addr, res)  == Max({0} \cup Entered(addr, res))

Merged == Prefix(applied, results)
Saved  == {Prefix(snap[id].addr, snap[id].res) : id \in {i \in Blocks : snap[i].done}}

Ledger == INSTANCE BlockLedger WITH
  Last <- N, First <- Base, merged <- Merged, saved <- Saved

LedgerSpec == Ledger!Spec
=============================================================================
