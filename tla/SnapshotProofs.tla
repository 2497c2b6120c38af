---------------------------- MODULE SnapshotProofs ----------------------------
(***************************************************************************)
(* Pipeline.tla for every chain, every number of crashes, saves and        *)
(* faults: which blocks may be passed over, that ids and balances follow   *)
(* the transaction table, when a snapshot can be put back, what holds      *)
(* however late bitcore is, and when the pipeline implements the abstract  *)
(* ledger of BlockLedger.tla.                                              *)
(***************************************************************************)
EXTENDS PipelineProofs

-----------------------------------------------------------------------------
(* No block is passed over before the process is killed, however late       *)
(* bitcore is.                                                              *)

\* Control moves within SyncResults, into it or out of it, within a save, or
\* to the end.
LEMMA Moves ==
  ASSUME LockInv, Next
  PROVE  \/ pc' = pc \/ Halt
         \/ \E t \in Tasks, q \in SyncPcs :
              /\ pc[t] \in SyncPcs \/ (t = "main" /\ pc[t] \in {"down", "repl"})
                   \/ (t = "listener" /\ pc[t] = "accept")
              /\ pc' = [pc EXCEPT ![t] = q]
         \/ \E t \in Tasks : Return(t)
              /\ (pc[t] \in SyncPcs \/ (t = "main" /\ pc[t] = "repl")
                    \/ (t = "listener" /\ pc[t] = "accept"))
         \/ (SaveBegins \/ SaveStep) /\ \E q \in SavePcs \cup {"repl"} :
              pc["main"] \in SavePcs \cup {"repl"} /\ pc' = [pc EXCEPT !["main"] = q]
         \/ \E q \in {"check", "accept", "done"} :
              pc["listener"] \in {"check", "accept"} /\ pc' = [pc EXCEPT !["listener"] = q]
<1>1. CASE NewBlock \/ Tick \/ Connect \/ EmergencyStop \/ (\E n \in Blocks : CollectCoin(n))
             \/ \E id \in Blocks : Deploy(id)
  BY <1>1 DEF NewBlock, Tick, Connect, EmergencyStop, CollectCoin, Deploy
<1>2. CASE Start
  <2>1. ~synchronizing /\ pc["main"] = "down"
    BY <1>2 DEF Start, Up, LockInv
  <2>2. QED
    BY <1>2, <2>1 DEF Start, SyncBegins, Tasks, SyncPcs
<1>3. CASE OperatorSync
  BY <1>3 DEF OperatorSync, SyncBegins, Tasks, SyncPcs
<1>4. CASE ListenerChecks
  BY <1>4 DEF ListenerChecks
<1>5. CASE TcpTrigger
  BY <1>5 DEF TcpTrigger, SyncBegins, Tasks, SyncPcs
<1>6. ASSUME NEW t \in Tasks, SyncStep(t)
      PROVE  \/ pc' = pc \/ Halt
             \/ pc[t] \in SyncPcs /\ \E q \in SyncPcs : pc' = [pc EXCEPT ![t] = q]
             \/ pc[t] \in SyncPcs /\ Return(t)
  <2>1. CASE SyncBlockInfo(t) \/ MarketSynced(t) \/ MarketFails(t) \/ Sleep(t) \/ Digest(t)
    BY <2>1 DEF SyncBlockInfo, MarketSynced, MarketFails, Sleep, Digest, Release, SyncPcs
  <2>2. CASE DigestRaises(t) \/ StoreRaises(t) \/ CallRaises(t)
    BY <2>2 DEF DigestRaises, StoreRaises, CallRaises, Raise, SyncPcs
  <2>3. CASE StoreResult(t) \/ MergeRow(t) \/ MergeDone(t)
    BY <2>3 DEF StoreResult, MergeRow, MergeDone, Release, SyncPcs
  <2>4. QED
    BY <1>6, <2>1, <2>2, <2>3 DEF SyncStep
<1>7. CASE SaveBegins
  BY <1>7 DEF SaveBegins, SavePcs
<1>8. CASE SaveStep
  BY <1>8 DEF SaveStep, SaveStore, SaveAddress, SaveResults, SaveIds, SaveLog, SaveTx, SaveBalance,
       SavePcs
<1>9. CASE Crash
  BY <1>9 DEF Crash
<1>10. QED
  BY <1>1, <1>2, <1>3, <1>4, <1>5, <1>6, <1>7, <1>8, <1>9 DEF Next

\* The listener, once started, is there until the process ends.
LEMMA ListenerStays ==
  ASSUME PcType, LockInv, LateRepl, Next
  PROVE  LateRepl' /\ (pc'["listener"] = "off" => pc["listener"] = "off" \/ Halt)
<1> USE DEF LateRepl, PcType
<1>1. CASE pc' = pc \/ Halt
  BY <1>1 DEF Halt, Tasks
<1>2. ASSUME NEW t \in Tasks, NEW q \in SyncPcs, pc' = [pc EXCEPT ![t] = q],
             pc[t] \in SyncPcs \/ (t = "main" /\ pc[t] \in {"down", "repl"})
               \/ (t = "listener" /\ pc[t] = "accept")
      PROVE  LateRepl' /\ (pc'["listener"] = "off" => pc["listener"] = "off")
  BY <1>2 DEF Tasks, SyncPcs
<1>3. ASSUME NEW t \in Tasks, Return(t),
             pc[t] \in SyncPcs \/ (t = "main" /\ pc[t] = "repl")
               \/ (t = "listener" /\ pc[t] = "accept")
      PROVE  LateRepl' /\ (pc'["listener"] = "off" => pc["listener"] = "off")
  <2>1. CASE t = "main"
    BY <1>3, <2>1 DEF Return, Tasks
  <2>2. CASE t = "listener"
    BY <1>3, <2>2 DEF Return, Tasks
  <2>3. QED
    BY <2>1, <2>2 DEF Tasks
<1>4. ASSUME NEW q \in SavePcs \cup {"repl"}, pc["main"] \in SavePcs \cup {"repl"},
             pc' = [pc EXCEPT !["main"] = q]
      PROVE  LateRepl' /\ (pc'["listener"] = "off" => pc["listener"] = "off")
  BY <1>4 DEF Tasks, SavePcs, SyncPcs
<1>5. ASSUME NEW q \in {"check", "accept", "done"}, pc["listener"] \in {"check", "accept"},
             pc' = [pc EXCEPT !["listener"] = q]
      PROVE  LateRepl' /\ (pc'["listener"] = "off" => pc["listener"] = "off")
  BY <1>5 DEF Tasks
<1>6. QED
  BY <1>1, <1>2, <1>3, <1>4, <1>5, Moves

\* Steps that move control and leave the stores alone.
LEMMA FirstLifeControl ==
  ASSUME FirstLife, StoresStay, LoopsStay, Up' => Up,
         pc'["listener"] = "off" => pc["listener"] = "off"
  PROVE  FirstLife'
<1> USE DEF FirstLife, StoresStay
<1>1. \A n \in results' \ ZeroBlocks : Counted(n)'
  BY DEF Counted, LoopsStay
<1>2. ASSUME NEW t \in Tasks, pc'[t] \in LoopPcs
      PROVE  cur'[t] = lastDone' + 1 /\ (pc'[t] = "merge" => row' = row /\ pc[t] = "merge")
             /\ cur'[t] = cur[t]
  BY <1>2 DEF LoopsStay
<1>3. \A t \in Tasks : pc'[t] = "merge" => pc'[t] \in LoopPcs
  BY DEF LoopPcs
<1>4. Gapless(results)' /\ (Up' => lastDone' \in results' \cup {0})
  BY DEF Gapless
<1>5. (pc'["listener"] = "off" => \A id \in Blocks : ~snap'[id].done)
      /\ \A n \in Blocks : tx'[n] # 0 /\ disk'.tx[n] # 0
  OBVIOUS
<1>6. \A t \in Tasks :
        /\ pc'[t] \in LoopPcs => cur'[t] = lastDone' + 1
        /\ pc'[t] = "merge" =>
             cur'[t] \in results' /\ tx'[cur'[t]] # Absent /\ row' <= applied'[cur'[t]]
  BY <1>2, <1>3
<1>7. QED
  BY <1>1, <1>4, <1>5, <1>6

\* A task returns from outside of the merge loop.
LEMMA ReturnLoops ==
  ASSUME PcType, LockInv, NEW t \in Tasks, Return(t), row' = row,
         pc[t] \in SyncPcs \ {"merge"}
           \/ (t = "main" /\ pc[t] = "repl") \/ (t = "listener" /\ pc[t] = "accept")
  PROVE  LoopsStay /\ (Up' <=> Up) /\ (pc'["listener"] = "off" => pc["listener"] = "off")
<1>1. CASE t = "listener"
  BY <1>1 DEF Return, LoopsStay, PcType, Up, LockInv, Tasks, LoopPcs, SyncPcs
<1>2. CASE t = "main"
  BY <1>2 DEF Return, LoopsStay, PcType, Up, LockInv, Tasks, LoopPcs, SyncPcs
<1>3. QED
  BY <1>1, <1>2 DEF Tasks

\* A task moves to a point outside of the loop.
LEMMA OutsideLoops ==
  ASSUME PcType, NEW t \in Tasks, NEW q, pc' = [pc EXCEPT ![t] = q],
         q \notin LoopPcs \cup {"off", "down"}, pc[t] # "merge",
         UNCHANGED <<to, row>>, \A u \in Tasks : u # t => cur'[u] = cur[u]
  PROVE  LoopsStay /\ (pc'["listener"] = "off" => pc["listener"] = "off")
         /\ (pc[t] # "down" => (Up' => Up))
  BY DEF LoopsStay, PcType, Up, Tasks, LoopPcs

\* Around a sync: bitcore, clients, the operator, and the two ends of SyncResults.
LEMMA FirstLifeOutside ==
  ASSUME PcType, LocalsType, LockInv, LateRepl, FirstLife,
         \/ NewBlock \/ Tick \/ Connect \/ EmergencyStop \/ ListenerChecks
         \/ \E n \in Blocks : CollectCoin(n)
         \/ OperatorSync \/ TcpTrigger \/ SaveBegins
         \/ \E t \in Tasks : SyncBlockInfo(t) \/ MarketFails(t)
  PROVE  FirstLife'
<1> USE DEF env, mmaps, memory, files, locks, locals, bounds
<1>1. StoresStay /\ row' = row
  BY DEF StoresStay, NewBlock, Tick, Connect, EmergencyStop, ListenerChecks, CollectCoin,
       OperatorSync, TcpTrigger, SaveBegins, SyncBlockInfo, MarketFails
<1>2. CASE UNCHANGED <<pc, cur, to>>
  <2>1. LoopsStay /\ (Up' => Up)
    BY <1>1, <1>2 DEF LoopsStay, Up
  <2>2. QED
    BY <1>1, <1>2, <2>1, FirstLifeControl
<1>3. CASE NewBlock \/ Tick \/ Connect \/ EmergencyStop \/ \E n \in Blocks : CollectCoin(n)
  BY <1>2, <1>3 DEF NewBlock, Tick, Connect, EmergencyStop, CollectCoin
<1>4. CASE ListenerChecks
  <2>1. PICK q \in {"done", "accept"} : pc' = [pc EXCEPT !["listener"] = q]
    BY <1>4 DEF ListenerChecks
  <2>2. "listener" \in Tasks /\ UNCHANGED <<cur, to>> /\ pc["listener"] = "check"
    BY <1>4 DEF ListenerChecks, Tasks
  <2>3. QED
    BY <1>1, <2>1, <2>2, OutsideLoops, FirstLifeControl DEF LoopPcs
<1>5. ASSUME NEW t \in Tasks, SyncBegins(t),
             (t = "main" /\ pc[t] = "repl") \/ (t = "listener" /\ pc[t] = "accept")
      PROVE  FirstLife'
  <2>1. CASE synchronizing
    BY <1>1, <1>5, <2>1, ReturnLoops, FirstLifeControl DEF SyncBegins
  <2>2. CASE ~synchronizing
    <3>1. pc' = [pc EXCEPT ![t] = "info"] /\ cur' = cur /\ to' = to
      BY <1>5, <2>2 DEF SyncBegins
    <3>2. pc[t] \notin {"merge", "down"}
      BY <1>5
    <3>3. QED
      BY <1>1, <3>1, <3>2, OutsideLoops, FirstLifeControl DEF LoopPcs
  <2>3. QED
    BY <2>1, <2>2
<1>6. CASE OperatorSync
  BY <1>5, <1>6 DEF OperatorSync, Tasks
<1>7. CASE TcpTrigger
  <2>1. CASE accepted
    <3>1. pc' = [pc EXCEPT !["listener"] = "check"] /\ UNCHANGED <<cur, to>>
          /\ pc["listener"] = "accept" /\ "listener" \in Tasks
      BY <1>7, <2>1 DEF TcpTrigger, TriggerIgnored, Tasks
    <3>2. QED
      BY <1>1, <3>1, OutsideLoops, FirstLifeControl DEF LoopPcs
  <2>2. CASE ~accepted
    BY <1>5, <1>7, <2>2 DEF TcpTrigger, TriggerIgnored, Tasks
  <2>3. QED
    BY <2>1, <2>2
<1>8. CASE SaveBegins
  <2>1. UNCHANGED <<to, row>> /\ pc["main"] = "repl" /\ "main" \in Tasks
        /\ (UNCHANGED <<pc, cur>> \/ (/\ pc' = [pc EXCEPT !["main"] = "saveAddress"]
                                      /\ cur' = [cur EXCEPT !["main"] = GetLastResultsID]))
    BY <1>8 DEF SaveBegins, Tasks
  <2>2. CASE UNCHANGED <<pc, cur>>
    BY <1>2, <2>1, <2>2
  <2>3. CASE pc' = [pc EXCEPT !["main"] = "saveAddress"]
             /\ cur' = [cur EXCEPT !["main"] = GetLastResultsID]
    <3>1. \A u \in Tasks : u # "main" => cur'[u] = cur[u]
      BY <2>3 DEF LocalsType
    <3>2. QED
      BY <1>1, <2>1, <2>3, <3>1, OutsideLoops, FirstLifeControl DEF LoopPcs
  <2>4. QED
    BY <2>1, <2>2, <2>3
<1>9. ASSUME NEW t \in Tasks, SyncBlockInfo(t) PROVE FirstLife'
  <2>1. pc' = [pc EXCEPT ![t] = "market"] /\ pc[t] = "info" /\ UNCHANGED <<cur, to>>
    BY <1>9 DEF SyncBlockInfo
  <2>2. QED
    BY <1>1, <2>1, OutsideLoops, FirstLifeControl DEF LoopPcs
<1>10. ASSUME NEW t \in Tasks, MarketFails(t) PROVE FirstLife'
  BY <1>1, <1>10, ReturnLoops, FirstLifeControl DEF MarketFails, Release, SyncPcs
<1>11. QED
  BY <1>3, <1>4, <1>6, <1>7, <1>8, <1>9, <1>10

\* The start of the service takes the cursor from the results.
LEMMA FirstLifeStart ==
  ASSUME TypeOK, LockInv, FirstLife, Start
  PROVE  FirstLife'
<1> USE DEF mmaps, memory, files
<1>1. pc["main"] = "down" /\ pc["listener"] = "off" /\ ~synchronizing
  BY DEF Start, Up, LockInv
<1>2. pc' = [pc EXCEPT !["main"] = "info"] /\ row' = row
      /\ UNCHANGED <<results, applied, tx, disk, snap>>
  BY <1>1 DEF Start, SyncBegins
<1>3. \A u \in Tasks : pc'[u] \notin LoopPcs /\ pc[u] # "merge" /\ pc'[u] # "merge"
  BY <1>1, <1>2 DEF TypeOK, PcType, Tasks, LoopPcs
<1>4. lastDone' \in results \cup {0}
  <2>1. lastDone' = GetLastResultsID
    BY DEF Start, StoresAgree, CursorAtStart
  <2>2. results # {} => Max(results) \in results
    <3>1. results \in SUBSET Nat /\ N \in Nat /\ \A n \in results : n <= N
      BY TsAssumption DEF TypeOK, StoresType, Blocks
    <3>2. QED
      BY <3>1, MaxOfNats
  <2>3. QED
    BY <2>1, <2>2 DEF GetLastResultsID
<1>5. pc'["listener"] = "off" => pc["listener"] = "off"
  BY <1>1
<1>6. QED
  BY <1>2, <1>3, <1>4, <1>5 DEF FirstLife, Gapless, Counted

\* An exception outside of the merge loop: the process ends or the call does.
LEMMA FirstLifeRaise ==
  ASSUME PcType, LockInv, FirstLife, NEW t \in Tasks, pc[t] \in SyncPcs \ {"merge"}, Raise(t),
         UNCHANGED <<env, mmaps, files>>
  PROVE  FirstLife'
<1> USE DEF mmaps, memory, files
<1>1. CASE Halt
  <2>1. \A u \in Tasks : pc[u] # "merge" /\ pc'[u] \notin LoopPcs
    BY <1>1, Alone DEF Halt, LoopPcs, SyncPcs
  <2>2. ~Up' /\ tx' = disk.tx
    BY <1>1 DEF Halt, Up, Tasks
  <2>3. \A n \in results : n \notin ZeroBlocks => applied[n] > 0
    BY <2>1 DEF FirstLife, Counted
  <2>4. CASE pc["listener"] = "off"
    BY <2>1, <2>2, <2>3, <2>4 DEF FirstLife, Gapless, Counted, LoopPcs
  <2>5. CASE pc["listener"] # "off"
    <3>1. Return(t) /\ row' = row
      BY <2>5 DEF Raise
    <3>2. QED
      BY <2>2, <3>1, ReturnLoops, Alone
  <2>6. QED
    BY <2>4, <2>5
<1>2. CASE ~Halt
  BY <1>2, ReturnLoops, FirstLifeControl DEF Raise, StoresStay
<1>3. QED
  BY <1>1, <1>2

\* Inside the loop of SyncResults.
LEMMA FirstLifeLoop ==
  ASSUME TypeInv, LockInv, FirstLife, NEW t \in Tasks,
         MarketSynced(t) \/ Sleep(t) \/ Digest(t) \/ StoreResult(t)
  PROVE  FirstLife'
<1> USE DEF env, mmaps, memory, files, locks, locals
<1>0. PcType /\ LocalsType /\ StoresType
  BY DEF TypeInv, TypeOK
<1>1. pc[t] \in SyncPcs \ {"merge"} /\ Up /\ (\A u \in Tasks : pc[u] # "merge")
      /\ \A u \in Tasks : u # t => pc[u] \notin LoopPcs
  <2>1. pc[t] \in SyncPcs \ {"merge"}
    BY DEF MarketSynced, Sleep, Digest, StoreResult, SyncPcs
  <2>2. QED
    BY <1>0, <2>1, Alone DEF SyncPcs, LoopPcs
<1>2. CASE MarketSynced(t) /\ Timestamp2LastBlockN(known, clock) < lastDone + 1
  BY <1>0, <1>1, <1>2, ReturnLoops, FirstLifeControl DEF MarketSynced, Release, StoresStay
<1>3. ASSUME NEW q \in {"sleep", "digest", "calc", "merge"}, pc' = [pc EXCEPT ![t] = q],
             UNCHANGED <<applied, disk, snap, lastDone>>,
             cur'[t] = lastDone + 1,
             results' = results \/ (results' = results \cup {lastDone + 1} /\ q = "merge"),
             q = "merge" => /\ cur[t] = cur'[t] /\ lastDone + 1 \in results' /\ row' = 0
                            /\ tx'[lastDone + 1] # Absent /\ lastDone + 1 \in Blocks,
             \A n \in Blocks : tx'[n] # 0
      PROVE  FirstLife'
  <2>1. pc'[t] = q /\ Up' /\ \A u \in Tasks : u # t => pc'[u] = pc[u]
    BY <1>0, <1>1, <1>3 DEF PcType, Up, Tasks
  <2>2. pc'["listener"] = "off" => pc["listener"] = "off"
    BY <1>3, <2>1 DEF Tasks
  <2>3. \A n \in results : n \notin ZeroBlocks => applied[n] > 0
    BY <1>1 DEF FirstLife, Counted
  <2>4. \A n \in results' \ ZeroBlocks : Counted(n)'
    <3>1. CASE results' = results
      BY <1>3, <2>3, <3>1 DEF Counted
    <3>2. CASE results' = results \cup {lastDone + 1} /\ q = "merge"
      BY <1>3, <2>1, <2>3, <3>2 DEF Counted
    <3>3. QED
      BY <1>3, <3>1, <3>2
  <2>5. lastDone \in results \cup {0} /\ Gapless(results)
    BY <1>1 DEF FirstLife
  <2>6. Gapless(results')
    <3>1. \A m \in Blocks : m < lastDone + 1 => m < lastDone \/ m = lastDone
      BY <1>0, TsAssumption DEF LocalsType, Blocks
    <3>2. \A m \in Blocks : m < lastDone + 1 => m \in results
      BY <2>5, <3>1, TsAssumption DEF Gapless, Blocks
    <3>3. QED
      BY <1>3, <2>5, <3>2 DEF Gapless
  <2>7. Gapless(results)'
    BY <2>6 DEF Gapless
  <2>8. lastDone' \in results' \cup {0}
    BY <1>3, <2>5
  <2>9. \A u \in Tasks :
          /\ pc'[u] \in LoopPcs => cur'[u] = lastDone' + 1
          /\ pc'[u] = "merge" =>
               cur'[u] \in results' /\ tx'[cur'[u]] # Absent /\ row' <= applied'[cur'[u]]
    <3>1. ASSUME NEW u \in Tasks, pc'[u] \in LoopPcs PROVE u = t
      BY <1>1, <2>1, <3>1
    <3>2. \A u \in Tasks : pc'[u] = "merge" => pc'[u] \in LoopPcs
      BY DEF LoopPcs
    <3>3. q = "merge" => 0 <= applied[lastDone + 1]
      BY <1>0, <1>3 DEF StoresType
    <3>4. QED
      BY <1>3, <2>1, <3>1, <3>2, <3>3
  <2>10. (pc'["listener"] = "off" => \A id \in Blocks : ~snap'[id].done)
         /\ \A n \in Blocks : tx'[n] # 0 /\ disk'.tx[n] # 0
    BY <1>3, <2>2 DEF FirstLife
  <2>11. QED
    BY <2>4, <2>7, <2>8, <2>9, <2>10 DEF FirstLife
<1>4. CASE MarketSynced(t) /\ ~(Timestamp2LastBlockN(known, clock) < lastDone + 1)
  <2>1. pc' = [pc EXCEPT ![t] = "sleep"] /\ cur' = [cur EXCEPT ![t] = lastDone + 1]
        /\ UNCHANGED <<applied, disk, snap, lastDone, results, tx>>
    BY <1>4 DEF MarketSynced
  <2>2. cur'[t] = lastDone + 1
    BY <1>0, <2>1 DEF LocalsType
  <2>3. \A n \in Blocks : tx'[n] # 0
    BY <2>1 DEF FirstLife
  <2>4. QED
    BY <1>3, <2>1, <2>2, <2>3
<1>5. ASSUME pc[t] \in LoopPcs, cur' = cur PROVE cur'[t] = lastDone + 1 /\ cur[t] \in Blocks
  BY <1>5 DEF FirstLife, TypeInv, LoopInRange
<1>6. CASE Sleep(t)
  <2>1. \A n \in Blocks : tx'[n] # 0
    BY <1>6 DEF Sleep, FirstLife
  <2>2. QED
    BY <1>3, <1>5, <1>6, <2>1 DEF Sleep, LoopPcs
<1>7. CASE Digest(t)
  <2>1. \A n \in Blocks : tx'[n] # 0
    <3>1. tx' = tx \/ (tx' = [tx EXCEPT ![cur[t]] = coins[cur[t]]] /\ coins[cur[t]] # 0)
      BY <1>7 DEF Digest, AppendRows
    <3>2. QED
      BY <1>0, <3>1 DEF FirstLife, StoresType, Table
  <2>2. QED
    BY <1>3, <1>5, <1>7, <2>1 DEF Digest, LoopPcs
<1>8. CASE StoreResult(t)
  <2>1. \A n \in Blocks : tx'[n] # 0
    BY <1>8 DEF StoreResult, FirstLife
  <2>2. pc[t] \in LoopPcs /\ cur' = cur /\ tx[cur[t]] # Absent /\ results' = results \cup {cur[t]}
        /\ row' = 0 /\ tx' = tx /\ pc' = [pc EXCEPT ![t] = "merge"]
        /\ UNCHANGED <<applied, disk, snap, lastDone>>
    BY <1>8 DEF StoreResult, BlockLocated, SetRow, LoopPcs
  <2>3. QED
    BY <1>3, <1>5, <2>1, <2>2
<1>9. QED
  BY <1>2, <1>4, <1>6, <1>7, <1>8

LEMMA FirstLifeMergeRow ==
  ASSUME TypeInv, FirstLife, NEW t \in Tasks, MergeRow(t)
  PROVE  FirstLife'
<1> USE DEF env, mmaps, memory, files, locks, locals
<1>0. applied \in [Blocks -> Nat] /\ row \in Nat /\ cur[t] \in Blocks
  BY DEF TypeInv, TypeOK, StoresType, LocalsType, LoopInRange, MergeRow, LoopPcs
<1>1. /\ pc[t] = "merge" /\ row' = row + 1 /\ applied' = [applied EXCEPT ![cur[t]] = @ + 1]
      /\ UNCHANGED <<pc, cur, tx, results, disk, snap, lastDone>>
  BY DEF MergeRow
<1>2. applied'[cur[t]] = applied[cur[t]] + 1 /\ \A n \in Blocks : applied'[n] >= applied[n]
  BY <1>0, <1>1
<1>3. \A n \in results' \ ZeroBlocks : Counted(n)'
  <2>1. \A n \in Blocks : applied[n] > 0 => applied'[n] > 0
    BY <1>0, <1>1
  <2>2. results \subseteq Blocks
    BY DEF TypeInv, TypeOK, StoresType
  <2>3. QED
    BY <1>1, <2>1, <2>2 DEF FirstLife, Counted
<1>4. ASSUME NEW u \in Tasks, pc[u] = "merge" PROVE row' <= applied'[cur[u]]
  <2>1. cur[u] = cur[t] /\ row <= applied[cur[t]]
    BY <1>1, <1>4 DEF FirstLife, LoopPcs
  <2>2. QED
    BY <1>0, <1>1, <1>2, <2>1
<1>5. QED
  BY <1>1, <1>3, <1>4 DEF FirstLife, Gapless, Up

LEMMA FirstLifeMergeDone ==
  ASSUME TypeInv, LockInv, FirstLife, NEW t \in Tasks, MergeDone(t)
  PROVE  FirstLife'
<1> USE DEF env, mmaps, memory, files, locks, locals
<1> DEFINE c == cur[t]
<1>0. PcType /\ LocalsType /\ StoresType /\ c \in Blocks
  BY DEF TypeInv, TypeOK, LoopInRange, MergeDone, LoopPcs
<1>1. /\ pc[t] = "merge" /\ row >= MergeRows(c) /\ lastDone' = c
      /\ UNCHANGED <<tx, results, applied, disk, snap>>
  BY DEF MergeDone, CursorAfter
<1>2. \A u \in Tasks : u # t => pc[u] \notin SyncPcs /\ pc[u] \notin LoopPcs
  BY <1>0, <1>1, Alone DEF SyncPcs, LoopPcs
<1>3. c \notin ZeroBlocks => applied[c] > 0
  <2>1. tx[c] # Absent /\ tx[c] # 0 /\ row <= applied[c] /\ tx[c] \in Nat \cup {Absent}
    BY <1>0, <1>1 DEF FirstLife, StoresType, Table
  <2>2. row \in Nat /\ applied[c] \in Nat
    BY <1>0 DEF LocalsType, StoresType
  <2>3. QED
    BY <1>1, <2>1, <2>2 DEF MergeRows
<1>4. \A n \in results \ ZeroBlocks : applied[n] > 0
  BY <1>1, <1>2, <1>3 DEF FirstLife, Counted, SyncPcs
<1>5. (\A u \in Tasks : pc'[u] # "merge")
      /\ (\A u \in Tasks : pc'[u] \in LoopPcs => cur'[u] = c + 1)
      /\ (pc'["listener"] = "off" => pc["listener"] = "off")
  <2>1. CASE c < to[t]
    <3>1. pc' = [pc EXCEPT ![t] = "digest"] /\ cur' = [cur EXCEPT ![t] = c + 1]
      BY <2>1 DEF MergeDone
    <3>2. QED
      BY <1>0, <1>2, <3>1 DEF PcType, LocalsType, SyncPcs
  <2>2. CASE ~(c < to[t])
    <3>1. Return(t)
      BY <2>2 DEF MergeDone, Release
    <3>2. CASE t = "main"
      BY <1>0, <1>2, <3>1, <3>2 DEF Return, PcType, Tasks, SyncPcs, LoopPcs
    <3>3. CASE t = "listener"
      BY <1>0, <1>2, <3>1, <3>3 DEF Return, PcType, Tasks, SyncPcs, LoopPcs
    <3>4. QED
      BY <3>2, <3>3 DEF Tasks
  <2>3. QED
    BY <2>1, <2>2
<1>6. c \in results
  BY <1>1 DEF FirstLife
<1>7. QED
  BY <1>1, <1>4, <1>5, <1>6 DEF FirstLife, Gapless, Counted

LEMMA FirstLifeSave ==
  ASSUME PcType, LocalsType, LateRepl, FirstLife, SaveStep
  PROVE  FirstLife'
<1> USE DEF env, mmaps, memory, files, locks, locals
<1>1. /\ UNCHANGED <<applied, results, tx, disk, lastDone, row>> /\ pc["main"] \in SavePcs
      /\ \E q \in SavePcs \cup {"repl"} : pc' = [pc EXCEPT !["main"] = q]
      /\ cur' = cur \/ cur' = [cur EXCEPT !["main"] = 0]
  BY DEF SaveStep, SaveStore, SaveAddress, SaveResults, SaveIds, SaveLog, SaveTx, SaveBalance,
       SavePcs
<1>2. pc'["listener"] = pc["listener"] /\ pc["listener"] # "off" /\ Up
  BY <1>1 DEF LateRepl, PcType, SavePcs, SyncPcs, Up, Tasks
<1>3. pc["main"] \notin LoopPcs /\ pc'["main"] \notin LoopPcs
  BY <1>1 DEF PcType, SavePcs, LoopPcs, Tasks
<1>4. \A u \in Tasks : (pc'[u] \in LoopPcs => pc'[u] = pc[u] /\ u = "listener")
                       /\ (pc[u] = "merge" => pc'[u] = "merge" /\ u = "listener")
  BY <1>2, <1>3 DEF Tasks, LoopPcs
<1>5. cur'["listener"] = cur["listener"]
  BY <1>1 DEF LocalsType, Tasks
<1>6. \A u \in Tasks : pc'[u] = "merge" => pc'[u] \in LoopPcs
  BY DEF LoopPcs
<1>7. \A n \in results' \ ZeroBlocks : Counted(n)'
  BY <1>1, <1>4, <1>5 DEF FirstLife, Counted
<1>8. QED
  BY <1>1, <1>2, <1>4, <1>5, <1>6, <1>7 DEF FirstLife, Gapless

LEMMA PassInit == Init => PassInv
<1> SUFFICES ASSUME Init PROVE PassInv
  OBVIOUS
<1> USE TsAssumption, PipelineAssumption DEF Blocks
<1>1. pc["main"] = "down" /\ \A t \in Tasks : pc[t] \notin LoopPcs
  BY DEF Init, Tasks, LoopPcs
<1>2. \A id \in Blocks : ~snap[id].done
  BY DEF Init, NoSnapshot
<1>3. Gapless(results) /\ \A n \in results \ ZeroBlocks : Counted(n)
  <2>1. results = 1 .. Base /\ \A n \in Blocks : n <= Base => applied[n] = Whole(n)
    BY DEF Init
  <2>2. \A n \in Blocks \ ZeroBlocks : Whole(n) > 0
    BY DEF Whole
  <2>3. QED
    BY <2>1, <2>2 DEF Gapless, Counted
<1>4. \A n \in Blocks : tx[n] # 0 /\ disk.tx[n] # 0
  BY DEF Init, Absent
<1>5. QED
  BY <1>1, <1>2, <1>3, <1>4 DEF PassInv, LateRepl, FirstLife, Up, LoopPcs

LEMMA PassStep == TypeInv /\ LockInv /\ PassInv /\ [Next]_vars => PassInv'
<1> SUFFICES ASSUME TypeInv, LockInv, PassInv, [Next]_vars PROVE PassInv'
  OBVIOUS
<1> USE DEF bounds
<1>0. TypeOK /\ PcType /\ LocalsType /\ LateRepl /\ crashes \in Nat
  BY DEF TypeInv, TypeOK, LocalsType, PassInv
<1>1. CASE UNCHANGED vars
  <2>1. LateRepl' /\ StoresStay /\ LoopsStay /\ Up' = Up /\ crashes' = crashes
        /\ pc' = pc
    BY <1>0, <1>1 DEF vars, env, mmaps, memory, files, locks, locals, LateRepl, StoresStay,
         LoopsStay, Up
  <2>2. QED
    BY <2>1, FirstLifeControl DEF PassInv
<1>2. CASE Next
  <2>1. LateRepl'
    BY <1>0, <1>2, ListenerStays
  <2>2. SUFFICES ASSUME crashes' = 0 PROVE FirstLife'
    BY <2>1 DEF PassInv
  <2>3. ASSUME crashes' = crashes PROVE FirstLife
    BY <2>2, <2>3 DEF PassInv
  <2>4. CASE NewBlock \/ Tick \/ Connect \/ EmergencyStop \/ ListenerChecks
               \/ \E n \in Blocks : CollectCoin(n)
    <3>1. crashes' = crashes
      BY <2>4 DEF NewBlock, Tick, Connect, EmergencyStop, ListenerChecks, CollectCoin
    <3>2. QED
      BY <1>0, <2>3, <2>4, <3>1, FirstLifeOutside
  <2>5. CASE OperatorSync \/ TcpTrigger \/ SaveBegins
    <3>1. crashes' = crashes
      BY <2>5 DEF OperatorSync, TcpTrigger, SaveBegins
    <3>2. QED
      BY <1>0, <2>3, <2>5, <3>1, FirstLifeOutside
  <2>6. CASE Start
    <3>1. crashes' = crashes
      BY <2>6 DEF Start
    <3>2. QED
      BY <1>0, <2>3, <2>6, <3>1, FirstLifeStart
  <2>7. ASSUME NEW t \in Tasks, SyncStep(t) PROVE FirstLife'
    <3>1. crashes' = crashes
      BY <2>7 DEF SyncStep, SyncBlockInfo, MarketSynced, MarketFails, Sleep, Digest, DigestRaises,
           StoreResult, StoreRaises, CallRaises, MergeRow, MergeDone
    <3>2. FirstLife
      BY <2>3, <3>1
    <3>3. CASE SyncBlockInfo(t) \/ MarketFails(t)
      BY <1>0, <3>2, <3>3, FirstLifeOutside
    <3>4. CASE MarketSynced(t) \/ Sleep(t) \/ Digest(t) \/ StoreResult(t)
      BY <3>2, <3>4, FirstLifeLoop
    <3>5. CASE DigestRaises(t) \/ StoreRaises(t) \/ CallRaises(t)
      <4>1. pc[t] \in SyncPcs \ {"merge"} /\ Raise(t) /\ UNCHANGED <<env, mmaps, files>>
        BY <3>5 DEF DigestRaises, StoreRaises, CallRaises, SyncPcs
      <4>2. QED
        BY <1>0, <3>2, <4>1, FirstLifeRaise
    <3>6. CASE MergeRow(t) \/ MergeDone(t)
      BY <3>2, <3>6, FirstLifeMergeRow, FirstLifeMergeDone
    <3>7. QED
      BY <2>7, <3>3, <3>4, <3>5, <3>6 DEF SyncStep
  <2>8. CASE SaveStep
    <3>1. crashes' = crashes
      BY <2>8 DEF SaveStep, SaveStore, SaveAddress, SaveResults, SaveIds, SaveLog, SaveTx, SaveBalance
    <3>2. QED
      BY <1>0, <2>3, <2>8, <3>1, FirstLifeSave
  <2>9. CASE Crash
    BY <1>0, <2>2, <2>9 DEF Crash
  <2>10. ASSUME NEW id \in Blocks, Deploy(id) PROVE FALSE
    <3>1. FirstLife /\ pc["listener"] = "off" /\ snap[id].done
      BY <2>3, <2>10 DEF Deploy, Up, LockInv
    <3>2. QED
      BY <3>1 DEF FirstLife
  <2>11. QED
    BY <1>2, <2>4, <2>5, <2>6, <2>7, <2>8, <2>9, <2>10 DEF Next
<1>3. QED
  BY <1>1, <1>2

\* However late bitcore is, and however many calls raise: a process that was
\* never killed has coins of every block it counts as done.  A block whose coins
\* are not there yet ends the call with an exception instead.
THEOREM LateBlocksNotPassed == Spec => [](crashes = 0 => NoBlockPassedOver)
<1>1. Init => TypeInv /\ LockInv /\ PassInv
  BY TypeInit, LockInit, PassInit
<1>2. TypeInv /\ LockInv /\ PassInv /\ [Next]_vars => (TypeInv /\ LockInv /\ PassInv)'
  BY TypeStep, LockStep, PassStep
<1>3. TypeInv /\ PassInv => (crashes = 0 => NoBlockPassedOver)
  <2> SUFFICES ASSUME TypeInv, FirstLife, Up, NEW n \in Blocks \ ZeroBlocks, n <= lastDone
               PROVE  applied[n] > 0
    BY DEF PassInv, NoBlockPassedOver
  <2>1. lastDone \in results /\ n \in Int /\ lastDone \in Int
    BY TsAssumption DEF FirstLife, TypeInv, TypeOK, LocalsType, Blocks
  <2>2. n \in results
    BY <2>1 DEF FirstLife, Gapless
  <2>3. ~\E t \in Tasks : pc[t] = "merge" /\ cur[t] = n
    BY <2>1 DEF FirstLife, LoopPcs
  <2>4. QED
    BY <2>2, <2>3 DEF FirstLife, Counted
<1>4. QED
  BY <1>1, <1>2, <1>3, PTL DEF Spec

-----------------------------------------------------------------------------
(* Over restarts the same holds if no two blocks share a second: then the     *)
(* cursor the service starts with is a block that has coins.                  *)

LastCounted == Up => lastDone \in ZeroBlocks \/ applied[lastDone] > 0

\* What can happen while the process is down.
LEMMA DownSteps ==
  ASSUME PcType, LockInv, Next, ~Up
  PROVE  \/ Start \/ \E id \in Blocks : Deploy(id)
         \/ NewBlock \/ Tick \/ \E n \in Blocks : CollectCoin(n)
<1>1. pc["main"] = "down" /\ pc["listener"] = "off"
  BY DEF Up, LockInv
<1>2. ASSUME NEW t \in Tasks, SyncStep(t) PROVE FALSE
  <2>1. pc[t] \in SyncPcs
    BY <1>2 DEF SyncStep, SyncBlockInfo, MarketSynced, MarketFails, Sleep, Digest, DigestRaises,
         StoreResult, StoreRaises, CallRaises, MergeRow, MergeDone, SyncPcs
  <2>2. QED
    BY <2>1, Alone
<1>3. ~(Connect \/ OperatorSync \/ ListenerChecks \/ TcpTrigger \/ EmergencyStop \/ SaveBegins)
  BY <1>1 DEF Connect, OperatorSync, ListenerChecks, TcpTrigger, EmergencyStop, SaveBegins
<1>4. ~SaveStep /\ ~Crash
  BY <1>1 DEF SaveStep, SaveStore, SaveAddress, SaveResults, SaveIds, SaveLog, SaveTx, SaveBalance,
       Crash, Up
<1>5. QED
  BY <1>2, <1>3, <1>4 DEF Next

LEMMA LastCountedStart ==
  ASSUME FullInv, StrictTs, Start
  PROVE  applied[GetLastResultsID] > 0
<1> DEFINE active == {Ts[n] : n \in {m \in Blocks : applied[m] > 0}}
           L == GetLastResultsID
<1>0. TypeOK /\ StoresType /\ GoodLedger(applied, results)
  BY DEF FullInv, TypeInv, TypeOK, LedgerInv
<1>1. L \in results /\ L \in Blocks /\ \A n \in results : n <= L
  BY <1>0, LastResultIsBlock, LastResultsType
<1>2. Timestamp2LastBlockN(known, GetLastProcessedTimestamp) = L
  BY DEF Start, StoresAgree, LastProcessedBlock
<1>3. active \in SUBSET Nat /\ Ts[N] \in Nat /\ \A s \in active : s <= Ts[N]
  BY TsAssumption DEF Blocks
<1>4. known \in Nat /\ known <= N /\ L \in Nat /\ L # 0
  BY <1>0, <1>1, TsAssumption DEF StoresType, Blocks
<1> DEFINE upTo(ts) == {m \in 1 .. known : Ts[m] <= ts}
<1>5. ASSUME NEW ts \in Int, Timestamp2LastBlockN(known, ts) = L PROVE L \in upTo(ts)
  <2>1. upTo(ts) # {}
    BY <1>4, <1>5 DEF Timestamp2LastBlockN
  <2>2. upTo(ts) \in SUBSET Nat /\ \A m \in upTo(ts) : m <= known
    BY <1>4
  <2>3. Max(upTo(ts)) \in upTo(ts)
    BY <1>4, <2>1, <2>2, MaxOfNats
  <2>4. QED
    BY <1>5, <2>1, <2>3 DEF Timestamp2LastBlockN
<1>6. active # {}
  <2>1. SUFFICES ASSUME active = {} PROVE FALSE
    OBVIOUS
  <2>2. L \in upTo(0)
    BY <1>2, <1>5, <2>1 DEF GetLastProcessedTimestamp
  <2>3. QED
    BY <1>1, <2>2, TsAssumption
<1>7. PICK k \in Blocks : applied[k] > 0 /\ GetLastProcessedTimestamp = Ts[k]
  <2>1. Max(active) \in active
    BY <1>3, <1>6, MaxOfNats
  <2>2. QED
    BY <1>6, <2>1 DEF GetLastProcessedTimestamp
<1>8. k <= L
  BY <1>0, <1>1, <1>7 DEF GoodLedger
<1>9. Ts[L] <= Ts[k]
  <2>1. Ts[k] \in Int
    BY TsAssumption
  <2>2. QED
    BY <1>2, <1>5, <1>7, <2>1
<1>10. ~(k < L)
  <2>1. k < L => Ts[k] < Ts[L]
    BY <1>1 DEF StrictTs
  <2>2. Ts[k] \in Int /\ Ts[L] \in Int
    BY <1>1, TsAssumption
  <2>3. QED
    BY <1>9, <2>1, <2>2
<1>11. k = L
  BY <1>1, <1>8, <1>10 DEF Blocks
<1>12. QED
  BY <1>7, <1>11

LEMMA LastCountedStep ==
  ASSUME StrictTs, FullInv, LastCounted, [Next]_vars
  PROVE  LastCounted'
<1>0. PcType /\ LockInv /\ LedgerInv /\ StoresType
  BY DEF FullInv, TypeInv, TypeOK
<1>1. CASE UNCHANGED <<applied, lastDone>> /\ (Up' => Up)
  BY <1>1 DEF LastCounted
<1>2. CASE UNCHANGED vars
  BY <1>1, <1>2 DEF vars, mmaps, Up
<1>3. CASE Start
  <2>1. applied[GetLastResultsID] > 0
    BY <1>3, LastCountedStart
  <2>2. lastDone' = GetLastResultsID /\ applied' = applied
    BY <1>3 DEF Start, StoresAgree, CursorAtStart, mmaps
  <2>3. QED
    BY <2>1, <2>2 DEF LastCounted
<1>4. CASE ~Up /\ Next /\ ~Start
  BY <1>0, <1>4, DownSteps DEF Deploy, NewBlock, Tick, CollectCoin, Up, LastCounted
<1>5. ASSUME Up, NEW t \in Tasks, SyncStep(t) PROVE LastCounted'
  <2>1. CASE MergeRow(t)
    <3>1. lastDone \in Blocks /\ cur[t] \in Blocks /\ applied \in [Blocks -> Nat]
      BY <2>1, InLoop DEF MergeRow, LoopPcs, StoresType
    <3>2. lastDone' = lastDone /\ applied' = [applied EXCEPT ![cur[t]] = @ + 1]
      BY <2>1 DEF MergeRow
    <3>3. applied[lastDone] > 0 => applied'[lastDone] > 0
      BY <3>1, <3>2
    <3>4. QED
      BY <1>5, <3>2, <3>3 DEF LastCounted
  <2>2. CASE MergeDone(t)
    <3>1. cur[t] \in Blocks /\ lastDone' = cur[t] /\ applied' = applied
      BY <2>2, InLoop DEF MergeDone, CursorAfter, LoopPcs, mmaps
    <3>2. applied[cur[t]] = Whole(cur[t])
      BY <1>0, <2>2, InMerge DEF MergeDone, StoresType
    <3>3. QED
      BY <3>1, <3>2, PipelineAssumption DEF LastCounted, Whole
  <2>3. CASE DigestRaises(t) \/ StoreRaises(t) \/ CallRaises(t)
    <3>1. Halt => ~Up'
      BY DEF Halt, Up, Tasks
    <3>2. ~Halt => UNCHANGED <<applied, lastDone>>
      BY <2>3 DEF DigestRaises, StoreRaises, CallRaises, Raise, mmaps
    <3>3. QED
      BY <1>1, <1>5, <3>1, <3>2 DEF LastCounted
  <2>4. CASE SyncBlockInfo(t) \/ MarketSynced(t) \/ MarketFails(t) \/ Sleep(t) \/ Digest(t)
               \/ StoreResult(t)
    BY <1>1, <1>5, <2>4 DEF SyncBlockInfo, MarketSynced, MarketFails, Sleep, Digest, StoreResult,
         mmaps
  <2>5. QED
    BY <1>5, <2>1, <2>2, <2>3, <2>4 DEF SyncStep
<1>6. CASE NewBlock \/ Tick \/ Connect \/ EmergencyStop \/ ListenerChecks \/ OperatorSync
             \/ TcpTrigger \/ SaveBegins \/ SaveStep \/ \E n \in Blocks : CollectCoin(n)
  <2>1. UNCHANGED <<applied, lastDone>>
    BY <1>6 DEF NewBlock, Tick, Connect, EmergencyStop, ListenerChecks, CollectCoin, OperatorSync,
         TcpTrigger, SaveBegins, SaveStep, SaveStore, SaveAddress, SaveResults, SaveIds, SaveLog,
         SaveTx, SaveBalance, mmaps
  <2>2. CASE Up
    BY <1>1, <2>1, <2>2
  <2>3. CASE ~Up /\ ~Start
    BY <1>4, <1>6, <2>3 DEF Next
  <2>4. QED
    BY <1>3, <2>2, <2>3
<1>7. CASE Crash \/ \E id \in Blocks : Deploy(id)
  BY <1>7 DEF Crash, Halt, Deploy, Up, LastCounted, Tasks
<1>8. QED
  BY <1>2, <1>3, <1>5, <1>6, <1>7, <1>4 DEF Next

\* With one block per second at most, bitcore complete within the sleeps and
\* saves made only while no sync runs, a restart after a kill anywhere finds a
\* cursor that has coins: no block is counted as done without them, ever.
THEOREM StrictSecondsNotPassed ==
  ASSUME Timely, SaveWhenIdle, StrictTs
  PROVE  Spec => []NoBlockPassedOver
<1>1. Init => LastCounted
  BY DEF Init, LastCounted, Up, Tasks
<1>2. FullInv /\ LastCounted => NoBlockPassedOver
  <2> SUFFICES ASSUME FullInv, LastCounted, Up, NEW n \in Blocks \ ZeroBlocks, n <= lastDone
               PROVE  applied[n] > 0
    BY DEF NoBlockPassedOver
  <2>1. CASE n = lastDone
    BY <2>1 DEF LastCounted
  <2>2. CASE n # lastDone
    <3>1. GoodLedger(applied, results) /\ lastDone \in results /\ lastDone \in Blocks
      BY DEF FullInv, LedgerInv, GoodCursor, TypeInv, TypeOK, StoresType
    <3>2. n < lastDone
      BY <2>2, <3>1, TsAssumption DEF Blocks
    <3>3. applied[n] = Whole(n)
      BY <3>1, <3>2 DEF GoodLedger
    <3>4. QED
      BY <3>3, PipelineAssumption DEF Whole
  <2>3. QED
    BY <2>1, <2>2
<1>3. Spec => []FullInv
  BY FullInvariant
<1>4. FullInv /\ LastCounted /\ [Next]_vars => LastCounted'
  BY LastCountedStep
<1>5. QED
  BY <1>1, <1>2, <1>3, <1>4, PTL DEF Spec

-----------------------------------------------------------------------------
(* Ids and balances follow the transaction table, in memory and in every      *)
(* snapshot, if saves are made only while no sync runs.                       *)

\* LastTx finds the last block that has rows.
LEMMA LastTxIs ==
  ASSUME NEW table, NEW n \in Blocks, table[n] # Absent,
         \A m \in Blocks : m > n => table[m] = Absent
  PROVE  LastTx(table) = n
<1> DEFINE rows == {m \in Blocks : table[m] # Absent}
<1>1. n \in rows /\ rows \in SUBSET Nat /\ n \in Nat
  BY TsAssumption DEF Blocks
<1>2. \A m \in rows : m <= n
  BY TsAssumption DEF Blocks
<1>3. Max(rows) \in rows /\ n <= Max(rows)
  BY <1>1, <1>2, MaxOfNats
<1>4. Max(rows) = n
  BY <1>1, <1>2, <1>3
<1>5. QED
  BY <1>4 DEF LastTx

\* BatchInsert after the last row makes its block the last one of the table.
LEMMA LastTxAppend ==
  ASSUME NEW table \in Table, NEW n \in Blocks, NEW c \in Nat,
         \A m \in Blocks : m > n - 1 => table[m] = Absent
  PROVE  LastTx([table EXCEPT ![n] = c]) = n
<1> DEFINE new == [table EXCEPT ![n] = c]
<1>1. new[n] = c /\ \A m \in Blocks : m # n => new[m] = table[m]
  BY DEF Table
<1>2. \A m \in Blocks : m > n => m > n - 1 /\ m # n
  BY TsAssumption DEF Blocks
<1>3. new[n] # Absent /\ \A m \in Blocks : m > n => new[m] = Absent
  BY <1>1, <1>2 DEF Absent
<1>4. QED
  BY <1>3, LastTxIs

\* While a save runs, only bitcore, clients and a kill act besides it.
LEMMA SavingSteps ==
  ASSUME PcType, LockInv, SaveAlone, pc["main"] \in SavePcs, Next
  PROVE  \/ SaveStep \/ Crash
         \/ /\ UNCHANGED <<memory, files, applied, results>>
            /\ UNCHANGED <<lastDone, cur, accepted, synchronizing>> /\ pc'["main"] = pc["main"]
<1> USE DEF env, mmaps, memory, files, locks, locals
<1>1. accepted /\ ~synchronizing /\ Up
  BY DEF SaveAlone, Up, SavePcs
<1>2. \A t \in Tasks : pc[t] \notin SyncPcs
  BY <1>1 DEF LockInv
<1>3. ASSUME NEW t \in Tasks, SyncStep(t) PROVE FALSE
  BY <1>2, <1>3 DEF SyncStep, SyncBlockInfo, MarketSynced, MarketFails, Sleep, Digest, DigestRaises,
       StoreResult, StoreRaises, CallRaises, MergeRow, MergeDone, SyncPcs
<1>4. ~Start /\ ~OperatorSync /\ ~EmergencyStop /\ ~SaveBegins /\ \A id \in Blocks : ~Deploy(id)
  BY <1>1 DEF Start, OperatorSync, EmergencyStop, SaveBegins, Deploy, SavePcs
<1>5. CASE NewBlock \/ Tick \/ Connect \/ \E n \in Blocks : CollectCoin(n)
  BY <1>5 DEF NewBlock, Tick, Connect, CollectCoin
<1>6. CASE ListenerChecks
  BY <1>6 DEF ListenerChecks, PcType, Tasks
<1>7. CASE TcpTrigger
  BY <1>1, <1>7 DEF TcpTrigger, TriggerIgnored, PcType, Tasks
<1>8. QED
  BY <1>3, <1>4, <1>5, <1>6, <1>7 DEF Next

\* Nothing but SaveBegins starts a save.
LEMMA NoSaveStarts ==
  ASSUME PcType, LockInv, Next, ~SaveBegins, pc["main"] \notin SavePcs
  PROVE  pc'["main"] \notin SavePcs
<1>1. ~SaveStep
  BY DEF SaveStep, SaveStore, SaveAddress, SaveResults, SaveIds, SaveLog, SaveTx, SaveBalance,
       SavePcs
<1>2. CASE pc' = pc \/ Halt
  BY <1>2 DEF Halt, SavePcs, Tasks
<1>3. ASSUME NEW t \in Tasks, NEW q \in SyncPcs, pc' = [pc EXCEPT ![t] = q]
      PROVE  pc'["main"] \notin SavePcs
  BY <1>3 DEF PcType, Tasks, SyncPcs, SavePcs
<1>4. ASSUME NEW t \in Tasks, Return(t) PROVE pc'["main"] \notin SavePcs
  <2>1. CASE t = "main"
    BY <1>4, <2>1 DEF Return, Tasks, SavePcs
  <2>2. CASE t = "listener"
    BY <1>4, <2>2 DEF Return, PcType, Tasks
  <2>3. QED
    BY <2>1, <2>2 DEF Tasks
<1>5. ASSUME NEW q \in {"check", "accept", "done"}, pc' = [pc EXCEPT !["listener"] = q]
      PROVE  pc'["main"] \notin SavePcs
  BY <1>5 DEF PcType, Tasks
<1>6. QED
  BY <1>1, <1>2, <1>3, <1>4, <1>5, Moves

\* Each stage of a save writes its store and keeps the others.
LEMMA StageKeeps ==
  ASSUME NEW s \in SnapshotType, NEW v
  PROVE  /\ [s EXCEPT !.ids = v].ids = v /\ [s EXCEPT !.ids = v].done = s.done
         /\ [s EXCEPT !.tx = v].tx = v /\ [s EXCEPT !.tx = v].done = s.done
         /\ [s EXCEPT !.tx = v].ids = s.ids
         /\ [s EXCEPT !.log = v].done = s.done /\ [s EXCEPT !.log = v].ids = s.ids
  BY DEF SnapshotType

LEMMA SaveAloneStep ==
  ASSUME SaveWhenIdle, TypeInv, LockInv, SaveAlone, Next
  PROVE  SaveAlone'
<1> USE DEF memory, files
<1> DEFINE c == cur["main"]
           s == snap[c]
<1>0. PcType /\ snap \in [Blocks -> SnapshotType]
  BY DEF TypeInv, TypeOK, StoresType
<1>1. CASE pc'["main"] \notin SavePcs
  BY <1>1 DEF SaveAlone, SavePcs
<1>2. CASE SaveBegins
  <2>1. pc' = [pc EXCEPT !["main"] = "saveAddress"] \/ pc' = pc
    BY <1>2 DEF SaveBegins
  <2>2. pc["main"] = "repl" /\ ~synchronizing /\ synchronizing' = synchronizing /\ accepted'
    BY <1>2 DEF SaveBegins
  <2>3. pc'["main"] \in {"saveAddress", "repl"}
    BY <1>0, <2>1, <2>2 DEF PcType, Tasks
  <2>4. QED
    BY <2>2, <2>3 DEF SaveAlone, SavePcs
<1>3. CASE ~SaveBegins /\ pc["main"] \notin SavePcs
  BY <1>0, <1>1, <1>3, NoSaveStarts
<1>4. CASE pc["main"] \in SavePcs /\ ~SaveStep
  <2>1. CASE Crash
    BY <1>1, <2>1 DEF Crash, Halt, SavePcs, Tasks
  <2>2. CASE ~Crash
    BY <1>0, <1>4, <2>2, SavingSteps DEF SaveAlone
  <2>3. QED
    BY <2>1, <2>2
<1>5. CASE SaveStep
  <2>0. pc["main"] \in SavePcs
    BY <1>5 DEF SaveStep, SaveStore, SaveAddress, SaveResults, SaveIds, SaveLog, SaveTx, SaveBalance,
         SavePcs
  <2>1. accepted /\ ~synchronizing
    BY <2>0 DEF SaveAlone
  <2>2. \A q : pc' = [pc EXCEPT !["main"] = q] => pc'["main"] = q
    BY <1>0 DEF PcType, Tasks
  <2>3. c \in Blocks => s \in SnapshotType /\ \A r : snap' = [snap EXCEPT ![c] = r] => snap'[c] = r
    BY <1>0
  <2>4. CASE SaveAddress
    <3>1. /\ pc' = [pc EXCEPT !["main"] = "saveResults"] /\ UNCHANGED <<cur, accepted, synchronizing>>
          /\ snap' = [snap EXCEPT ![c] = [s EXCEPT !.addr = applied, !.done = FALSE]]
      BY <2>4 DEF SaveAddress, locks, locals
    <3>2. c \in Blocks => ~snap'[c].done
      BY <2>3, <3>1 DEF SnapshotType
    <3>3. QED
      BY <2>1, <2>2, <3>1, <3>2 DEF SaveAlone, SavePcs
  <2>5. CASE SaveResults
    <3>1. /\ pc' = [pc EXCEPT !["main"] = "saveIds"] /\ UNCHANGED <<cur, accepted, synchronizing>>
          /\ snap' = [snap EXCEPT ![c] = [s EXCEPT !.res = results]] /\ pc["main"] = "saveResults"
      BY <2>5 DEF SaveResults, SaveStore, locks, locals
    <3>2. c \in Blocks => ~s.done
      BY <3>1 DEF SaveAlone, SavePcs
    <3>3. c \in Blocks => ~snap'[c].done
      BY <2>3, <3>1, <3>2 DEF SnapshotType
    <3>4. QED
      BY <2>1, <2>2, <3>1, <3>3 DEF SaveAlone, SavePcs
  <2>6. CASE SaveIds
    <3>1. /\ pc' = [pc EXCEPT !["main"] = "saveLog"] /\ UNCHANGED <<cur, accepted, synchronizing, ids>>
          /\ snap' = [snap EXCEPT ![c] = [s EXCEPT !.ids = ids]] /\ pc["main"] = "saveIds"
      BY <2>6 DEF SaveIds, SaveStore, locks, locals
    <3>2. c \in Blocks => ~s.done
      BY <3>1 DEF SaveAlone, SavePcs
    <3>3. c \in Blocks => ~snap'[c].done /\ snap'[c].ids = ids
      <4>1. ASSUME c \in Blocks PROVE s \in SnapshotType /\ snap'[c] = [s EXCEPT !.ids = ids]
        BY <2>3, <3>1, <4>1
      <4>2. ASSUME s \in SnapshotType
            PROVE  [s EXCEPT !.ids = ids].ids = ids /\ [s EXCEPT !.ids = ids].done = s.done
        BY <4>2, StageKeeps
      <4>3. QED
        BY <3>1, <3>2, <4>1, <4>2
    <3>4. QED
      BY <2>1, <2>2, <3>1, <3>3 DEF SaveAlone, SavePcs
  <2>7. CASE SaveLog /\ s.log
    <3>1. pc' = [pc EXCEPT !["main"] = "repl"]
      BY <2>7 DEF SaveLog
    <3>2. QED
      BY <1>1, <2>2, <3>1 DEF SavePcs
  <2>8. CASE SaveLog /\ ~s.log
    <3>1. /\ pc' = [pc EXCEPT !["main"] = "saveTx"] /\ UNCHANGED <<cur, accepted, synchronizing, ids>>
          /\ snap' = [snap EXCEPT ![c] = [s EXCEPT !.log = TRUE]] /\ pc["main"] = "saveLog"
      BY <2>8 DEF SaveLog, locks
    <3>2. c \in Blocks => ~s.done /\ s.ids = ids
      BY <3>1 DEF SaveAlone, SavePcs
    <3>3. c \in Blocks => ~snap'[c].done /\ snap'[c].ids = ids
      <4>1. ASSUME c \in Blocks PROVE s \in SnapshotType /\ snap'[c] = [s EXCEPT !.log = TRUE]
        BY <2>3, <3>1, <4>1
      <4>2. QED
        BY <3>1, <3>2, <4>1, StageKeeps
    <3>4. QED
      BY <2>1, <2>2, <3>1, <3>3 DEF SaveAlone, SavePcs
  <2>9. CASE SaveTx
    <3>1. /\ pc' = [pc EXCEPT !["main"] = "saveBalance"] /\ pc["main"] = "saveTx"
          /\ UNCHANGED <<cur, accepted, synchronizing, ids, tx>>
          /\ snap' = [snap EXCEPT ![c] = [s EXCEPT !.tx = tx]]
      BY <2>9 DEF SaveTx, SaveStore, locks, locals
    <3>2. c \in Blocks => ~s.done /\ s.ids = ids
      BY <3>1 DEF SaveAlone, SavePcs
    <3>3. c \in Blocks => ~snap'[c].done /\ snap'[c].ids = ids /\ snap'[c].tx = tx
      <4>1. ASSUME c \in Blocks PROVE s \in SnapshotType /\ snap'[c] = [s EXCEPT !.tx = tx]
        BY <2>3, <3>1, <4>1
      <4>2. ASSUME s \in SnapshotType
            PROVE  [s EXCEPT !.tx = tx].tx = tx /\ [s EXCEPT !.tx = tx].done = s.done /\ [s EXCEPT !.tx = tx].ids = s.ids
        BY <4>2, StageKeeps
      <4>3. QED
        BY <3>1, <3>2, <4>1, <4>2
    <3>4. QED
      BY <2>1, <2>2, <3>1, <3>3 DEF SaveAlone, SavePcs
  <2>10. CASE SaveBalance
    <3>1. pc' = [pc EXCEPT !["main"] = "repl"]
      BY <2>10 DEF SaveBalance
    <3>2. QED
      BY <1>1, <2>2, <3>1 DEF SavePcs
  <2>11. QED
    BY <1>5, <2>4, <2>5, <2>6, <2>7, <2>8, <2>9, <2>10 DEF SaveStep
<1>6. QED
  BY <1>2, <1>3, <1>4, <1>5

\* Only a save writes to the folders of the snapshots.
LEMMA FolderSteps ==
  ASSUME Next
  PROVE  snap' = snap \/ SaveStep
<1> USE DEF files
<1>1. ASSUME NEW t \in Tasks, SyncStep(t) PROVE snap' = snap
  BY <1>1 DEF SyncStep, SyncBlockInfo, MarketSynced, MarketFails, Sleep, Digest, DigestRaises,
       StoreResult, StoreRaises, CallRaises, MergeRow, MergeDone
<1>2. CASE NewBlock \/ Tick \/ Connect \/ \E n \in Blocks : CollectCoin(n)
  BY <1>2 DEF NewBlock, Tick, Connect, CollectCoin
<1>3. CASE Start \/ OperatorSync \/ ListenerChecks \/ TcpTrigger \/ EmergencyStop
  BY <1>3 DEF Start, OperatorSync, ListenerChecks, TcpTrigger, EmergencyStop
<1>4. CASE SaveBegins \/ Crash \/ \E i \in Blocks : Deploy(i)
  BY <1>4 DEF SaveBegins, Crash, Deploy
<1>5. QED
  BY <1>1, <1>2, <1>3, <1>4 DEF Next

\* A finished snapshot is what it was, or was finished just now.
LEMMA SnapshotSteps ==
  ASSUME StoresType, Next, NEW id \in Blocks, snap'[id].done
  PROVE  \/ snap'[id] = snap[id]
         \/ /\ SaveBalance /\ id = cur["main"]
            /\ snap'[id] = [snap[id] EXCEPT !.bal = bal, !.done = TRUE]
         \/ (SaveResults \/ SaveIds \/ SaveLog \/ SaveTx) /\ id = cur["main"] /\ snap[id].done
<1> USE DEF env, mmaps, memory, files
<1>0. snap \in [Blocks -> SnapshotType]
  BY DEF StoresType
<1>1. CASE snap' = snap
  BY <1>1
<1>2. CASE ~SaveStep
  BY <1>1, <1>2, FolderSteps
<1>3. ASSUME NEW r, snap' = [snap EXCEPT ![cur["main"]] = r]
      PROVE  (id = cur["main"] /\ snap'[id] = r) \/ (id # cur["main"] /\ snap'[id] = snap[id])
  BY <1>0, <1>3
<1>4. CASE SaveAddress
  <2>1. snap' = [snap EXCEPT ![cur["main"]] = [snap[cur["main"]] EXCEPT !.addr = applied, !.done = FALSE]]
    BY <1>4 DEF SaveAddress
  <2>2. ASSUME id = cur["main"] PROVE FALSE
    BY <1>0, <1>3, <2>1, <2>2 DEF SnapshotType
  <2>3. QED
    BY <1>3, <2>1, <2>2
<1>5. CASE SaveBalance
  BY <1>3, <1>5 DEF SaveBalance
<1>6. CASE SaveResults
  <2>1. snap' = [snap EXCEPT ![cur["main"]] = [snap[cur["main"]] EXCEPT !.res = results]]
    BY <1>6 DEF SaveResults, SaveStore
  <2>2. id = cur["main"] => snap[id].done
    BY <1>0, <1>3, <2>1 DEF SnapshotType
  <2>3. QED
    BY <1>3, <1>6, <2>1, <2>2
<1>7. CASE SaveIds
  <2>1. snap' = [snap EXCEPT ![cur["main"]] = [snap[cur["main"]] EXCEPT !.ids = ids]]
    BY <1>7 DEF SaveIds, SaveStore
  <2>2. id = cur["main"] => snap[id].done
    BY <1>0, <1>3, <2>1 DEF SnapshotType
  <2>3. QED
    BY <1>3, <1>7, <2>1, <2>2
<1>8. CASE SaveTx
  <2>1. snap' = [snap EXCEPT ![cur["main"]] = [snap[cur["main"]] EXCEPT !.tx = tx]]
    BY <1>8 DEF SaveTx, SaveStore
  <2>2. id = cur["main"] => snap[id].done
    BY <1>0, <1>3, <2>1 DEF SnapshotType
  <2>3. QED
    BY <1>3, <1>8, <2>1, <2>2
<1>9. CASE SaveLog /\ snap' # snap
  <2>1. snap' = [snap EXCEPT ![cur["main"]] = [snap[cur["main"]] EXCEPT !.log = TRUE]]
    BY <1>9 DEF SaveLog
  <2>2. id = cur["main"] => snap[id].done
    BY <1>0, <1>3, <2>1 DEF SnapshotType
  <2>3. QED
    BY <1>3, <1>9, <2>1, <2>2
<1>10. QED
  BY <1>1, <1>2, <1>4, <1>5, <1>6, <1>7, <1>8, <1>9 DEF SaveStep

LEMMA AgreeInit == Init => AgreeInv
<1> SUFFICES ASSUME Init PROVE AgreeInv
  OBVIOUS
<1> USE TsAssumption, PipelineAssumption DEF Blocks
<1>1. pc["main"] \notin SavePcs
  BY DEF Init, Tasks, SavePcs
<1>2. LastTx(tx) = Base
  <2>1. tx[Base] # Absent /\ \A m \in Blocks : m > Base => tx[m] = Absent
    BY DEF Init, Absent
  <2>2. Base \in Blocks
    OBVIOUS
  <2>3. QED
    BY <2>1, <2>2, LastTxIs
<1>3. ids = Base /\ bal = Base /\ disk.tx = tx /\ disk.ids = ids /\ disk.bal = bal
  BY DEF Init
<1>4. \A id \in Blocks : ~snap[id].done
  BY DEF Init, NoSnapshot
<1>5. QED
  BY <1>1, <1>2, <1>3, <1>4 DEF AgreeInv, SaveAlone, Agree, SavePcs

\* What a step does to the stores in memory.
LEMMA MemorySteps ==
  ASSUME Next
  PROVE  \/ UNCHANGED memory
         \/ \E t \in Tasks : Digest(t) /\ AppendRows(cur[t]) /\ ~RowsAfter(cur[t] - 1)
         \/ Halt
         \/ \E id \in Blocks : Deploy(id)
<1>1. CASE NewBlock \/ Tick \/ Connect \/ \E n \in Blocks : CollectCoin(n)
  BY <1>1 DEF NewBlock, Tick, Connect, CollectCoin
<1>2. CASE Start \/ OperatorSync \/ ListenerChecks \/ TcpTrigger \/ EmergencyStop
  BY <1>2 DEF Start, OperatorSync, ListenerChecks, TcpTrigger, EmergencyStop
<1>3. ASSUME NEW t \in Tasks, SyncStep(t)
      PROVE  UNCHANGED memory \/ (Digest(t) /\ AppendRows(cur[t]) /\ ~RowsAfter(cur[t] - 1)) \/ Halt
  BY <1>3 DEF SyncStep, SyncBlockInfo, MarketSynced, MarketFails, Sleep, Digest, DigestRaises,
       StoreResult, StoreRaises, CallRaises, MergeRow, MergeDone, Raise
<1>4. CASE SaveBegins \/ SaveStep
  BY <1>4 DEF SaveBegins, SaveStep, SaveStore, SaveAddress, SaveResults, SaveIds, SaveLog, SaveTx,
       SaveBalance
<1>5. CASE Crash
  BY <1>5 DEF Crash
<1>6. QED
  BY <1>1, <1>2, <1>3, <1>4, <1>5 DEF Next

LEMMA DiskSteps ==
  ASSUME Next
  PROVE  disk' = disk \/ \E id \in Blocks : Deploy(id)
<1> USE DEF files
<1>1. CASE NewBlock \/ Tick \/ Connect \/ \E n \in Blocks : CollectCoin(n)
  BY <1>1 DEF NewBlock, Tick, Connect, CollectCoin
<1>2. CASE Start \/ OperatorSync \/ ListenerChecks \/ TcpTrigger \/ EmergencyStop
  BY <1>2 DEF Start, OperatorSync, ListenerChecks, TcpTrigger, EmergencyStop
<1>3. ASSUME NEW t \in Tasks, SyncStep(t) PROVE disk' = disk
  BY <1>3 DEF SyncStep, SyncBlockInfo, MarketSynced, MarketFails, Sleep, Digest, DigestRaises,
       StoreResult, StoreRaises, CallRaises, MergeRow, MergeDone
<1>4. CASE SaveBegins \/ SaveStep \/ Crash
  BY <1>4 DEF SaveBegins, SaveStep, SaveStore, SaveAddress, SaveResults, SaveIds, SaveLog, SaveTx,
       SaveBalance, Crash
<1>5. QED
  BY <1>1, <1>2, <1>3, <1>4 DEF Next

LEMMA AgreeStep ==
  ASSUME SaveWhenIdle, TypeInv, LockInv, AgreeInv, Next
  PROVE  AgreeInv'
<1>0. /\ StoresType /\ SaveAlone /\ Agree(tx, ids, bal) /\ Agree(disk.tx, disk.ids, disk.bal)
      /\ \A id \in Blocks : snap[id].done => Agree(snap[id].tx, snap[id].ids, snap[id].bal)
  BY DEF TypeInv, TypeOK, AgreeInv
<1>1. SaveAlone'
  BY <1>0, SaveAloneStep
<1>2. ASSUME NEW id \in Blocks, Deploy(id)
      PROVE  Agree(tx, ids, bal)' /\ Agree(disk.tx, disk.ids, disk.bal)'
  <2>1. /\ snap[id].done /\ tx' = snap[id].tx /\ ids' = snap[id].ids /\ bal' = snap[id].bal
        /\ disk' = [tx |-> snap[id].tx, ids |-> snap[id].ids, bal |-> snap[id].bal]
    BY <1>2 DEF Deploy
  <2>2. QED
    BY <1>0, <2>1 DEF Agree, LastTx
<1>3. Agree(tx, ids, bal)'
  <2>1. CASE UNCHANGED memory
    BY <1>0, <2>1 DEF Agree, LastTx, memory
  <2>2. CASE Halt
    BY <1>0, <2>2 DEF Halt, Agree, LastTx
  <2>3. ASSUME NEW t \in Tasks, Digest(t), AppendRows(cur[t]), ~RowsAfter(cur[t] - 1)
        PROVE  Agree(tx, ids, bal)'
    <3>1. cur[t] \in Blocks
      BY <2>3 DEF Digest, TypeInv, LoopInRange, LoopPcs
    <3>2. coins[cur[t]] \in Nat /\ tx \in Table
      BY <1>0, <3>1 DEF StoresType
    <3>3. \A m \in Blocks : m > cur[t] - 1 => tx[m] = Absent
      BY <2>3 DEF RowsAfter
    <3>4. LastTx([tx EXCEPT ![cur[t]] = coins[cur[t]]]) = cur[t]
      BY <3>1, <3>2, <3>3, LastTxAppend
    <3>5. tx' = [tx EXCEPT ![cur[t]] = coins[cur[t]]] /\ ids' = cur[t] /\ bal' = cur[t]
      BY <2>3 DEF AppendRows
    <3>6. LastTx(tx') = cur[t]
      BY <3>4, <3>5
    <3>7. QED
      BY <3>5, <3>6 DEF Agree, LastTx
  <2>4. QED
    BY <1>2, <2>1, <2>2, <2>3, MemorySteps
<1>4. Agree(disk.tx, disk.ids, disk.bal)'
  <2>1. CASE disk' = disk
    BY <1>0, <2>1 DEF Agree, LastTx
  <2>2. QED
    BY <1>2, <2>1, DiskSteps
<1>5. ASSUME NEW id \in Blocks, snap'[id].done
      PROVE  Agree(snap[id].tx, snap[id].ids, snap[id].bal)'
  <2>1. CASE snap'[id] = snap[id]
    BY <1>0, <1>5, <2>1 DEF Agree, LastTx
  <2>2. CASE SaveBalance /\ id = cur["main"]
             /\ snap'[id] = [snap[id] EXCEPT !.bal = bal, !.done = TRUE]
    <3>1. snap[id].tx = tx /\ snap[id].ids = ids
      BY <1>0, <2>2 DEF SaveBalance, SaveAlone
    <3>2. snap[id] \in SnapshotType
      BY <1>0 DEF StoresType
    <3>3. snap'[id].tx = tx /\ snap'[id].ids = ids /\ snap'[id].bal = bal
      BY <2>2, <3>1, <3>2 DEF SnapshotType
    <3>4. QED
      BY <1>0, <3>3 DEF Agree, LastTx
  <2>3. CASE (SaveResults \/ SaveIds \/ SaveLog \/ SaveTx) /\ id = cur["main"] /\ snap[id].done
    BY <1>0, <2>3 DEF SaveResults, SaveIds, SaveLog, SaveTx, SaveStore, SaveAlone, SavePcs
  <2>4. QED
    BY <1>0, <1>5, <2>1, <2>2, <2>3, SnapshotSteps
<1>6. QED
  BY <1>1, <1>3, <1>4, <1>5 DEF AgreeInv, Agree, LastTx

LEMMA AgreeStutter ==
  ASSUME AgreeInv, UNCHANGED vars
  PROVE  AgreeInv'
  BY DEF vars, memory, files, locks, locals, AgreeInv, SaveAlone, Agree, LastTx

LEMMA AgreeInvariant ==
  ASSUME SaveWhenIdle
  PROVE  Spec => [](TypeInv /\ LockInv /\ AgreeInv)
<1>1. Init => TypeInv /\ LockInv /\ AgreeInv
  BY TypeInit, LockInit, AgreeInit
<1>2. TypeInv /\ LockInv /\ AgreeInv /\ [Next]_vars => (TypeInv /\ LockInv /\ AgreeInv)'
  BY TypeStep, LockStep, AgreeStep, AgreeStutter
<1>3. QED
  BY <1>1, <1>2, PTL DEF Spec

\* Whatever is digested, killed, restarted, saved and put back: the address ids
\* and balances in memory belong to the last block of the table in memory, so a
\* digest never hands out an id twice or starts from another block's balances.
THEOREM IdsFollowTable ==
  ASSUME SaveWhenIdle
  PROVE  Spec => []MemoryAgrees
<1>1. AgreeInv => MemoryAgrees
  BY DEF AgreeInv, Agree, MemoryAgrees
<1>2. Spec => [](TypeInv /\ LockInv /\ AgreeInv)
  BY AgreeInvariant
<1>3. QED
  BY <1>1, <1>2, PTL

-----------------------------------------------------------------------------
(* Results and the transaction table: what a snapshot holds.                  *)

LEMMA ResultSteps ==
  ASSUME Next
  PROVE  results' = results \/ (\E t \in Tasks : StoreResult(t)) \/ \E id \in Blocks : Deploy(id)
<1> USE DEF mmaps
<1>1. CASE NewBlock \/ Tick \/ Connect \/ \E n \in Blocks : CollectCoin(n)
  BY <1>1 DEF NewBlock, Tick, Connect, CollectCoin
<1>2. CASE Start \/ OperatorSync \/ ListenerChecks \/ TcpTrigger \/ EmergencyStop
  BY <1>2 DEF Start, OperatorSync, ListenerChecks, TcpTrigger, EmergencyStop
<1>3. ASSUME NEW t \in Tasks, SyncStep(t) PROVE results' = results \/ StoreResult(t)
  BY <1>3 DEF SyncStep, SyncBlockInfo, MarketSynced, MarketFails, Sleep, Digest, DigestRaises,
       StoreRaises, CallRaises, MergeRow, MergeDone
<1>4. CASE SaveBegins \/ SaveStep \/ Crash
  BY <1>4 DEF SaveBegins, SaveStep, SaveStore, SaveAddress, SaveResults, SaveIds, SaveLog, SaveTx,
       SaveBalance, Crash
<1>5. QED
  BY <1>1, <1>2, <1>3, <1>4 DEF Next

\* The digested block that is not merged yet keeps waiting, or gets its result,
\* or its rows are gone with the process.
LEMMA WaitSteps ==
  ASSUME FullInv, Next, NEW n \in Blocks, NotYetMerged(n)
  PROVE  NotYetMerged(n)' \/ n \in results' \/ Halt
<1> USE DEF env, mmaps, memory, files, locks, locals
<1>0. PcType /\ LockInv /\ LedgerInv
  BY DEF FullInv, TypeInv, TypeOK
<1>1. synchronizing /\ n = lastDone + 1 /\ Up /\ \A u \in Tasks : pc[u] \notin EarlyPcs
  BY <1>0 DEF NotYetMerged, Up, LockInv
<1>2. ASSUME UNCHANGED <<synchronizing, lastDone>>, \A u \in Tasks : pc'[u] \notin EarlyPcs
      PROVE  NotYetMerged(n)'
  BY <1>1, <1>2 DEF NotYetMerged
<1>3. ASSUME NEW t \in Tasks, Return(t) PROVE \A u \in Tasks : pc'[u] \notin EarlyPcs
  <2>1. CASE t = "main"
    BY <1>1, <1>3, <2>1 DEF Return, EarlyPcs, Tasks
  <2>2. CASE t = "listener"
    BY <1>0, <1>1, <1>3, <2>2 DEF Return, PcType, EarlyPcs, Tasks
  <2>3. QED
    BY <2>1, <2>2 DEF Tasks
<1>4. CASE NewBlock \/ Tick \/ Connect \/ EmergencyStop \/ \E m \in Blocks : CollectCoin(m)
  BY <1>1, <1>2, <1>4 DEF NewBlock, Tick, Connect, EmergencyStop, CollectCoin
<1>5. ~Start /\ \A id \in Blocks : ~Deploy(id)
  BY <1>1 DEF Start, Deploy
<1>6. ASSUME NEW t \in Tasks, SyncBegins(t), lastDone' = lastDone PROVE NotYetMerged(n)'
  BY <1>1, <1>2, <1>3, <1>6 DEF SyncBegins
<1>7. CASE OperatorSync \/ TcpTrigger
  <2>1. CASE TcpTrigger /\ accepted
    <3>1. pc' = [pc EXCEPT !["listener"] = "check"] /\ UNCHANGED <<synchronizing, lastDone>>
      BY <2>1 DEF TcpTrigger, TriggerIgnored
    <3>2. \A u \in Tasks : pc'[u] \notin EarlyPcs
      BY <1>0, <1>1, <3>1 DEF PcType, EarlyPcs
    <3>3. QED
      BY <1>2, <3>1, <3>2
  <2>2. CASE OperatorSync \/ (TcpTrigger /\ ~accepted)
    BY <1>6, <2>2 DEF OperatorSync, TcpTrigger, TriggerIgnored, Tasks
  <2>3. QED
    BY <1>7, <2>1, <2>2
<1>8. CASE ListenerChecks
  <2>1. UNCHANGED <<synchronizing, lastDone>>
    BY <1>8 DEF ListenerChecks
  <2>2. \A u \in Tasks : pc'[u] \notin EarlyPcs
    BY <1>0, <1>1, <1>8 DEF ListenerChecks, PcType, EarlyPcs
  <2>3. QED
    BY <1>2, <2>1, <2>2
<1>9. CASE SaveBegins \/ SaveStep
  <2>1. UNCHANGED <<synchronizing, lastDone>>
    BY <1>9 DEF SaveBegins, SaveStep, SaveStore, SaveAddress, SaveResults, SaveIds, SaveLog, SaveTx,
         SaveBalance
  <2>2. pc' = pc \/ \E q \in SavePcs \cup {"repl"} : pc' = [pc EXCEPT !["main"] = q]
    BY <1>9 DEF SaveBegins, SaveStep, SaveStore, SaveAddress, SaveResults, SaveIds, SaveLog, SaveTx,
         SaveBalance, SavePcs
  <2>3. \A u \in Tasks : pc'[u] \notin EarlyPcs
    BY <1>0, <1>1, <2>2 DEF PcType, EarlyPcs, SavePcs
  <2>4. QED
    BY <1>2, <2>1, <2>3
<1>10. CASE Crash
  BY <1>10 DEF Crash
<1>11. ASSUME NEW t \in Tasks, SyncStep(t) PROVE NotYetMerged(n)' \/ n \in results' \/ Halt
  <2>1. pc[t] \notin {"info", "market", "sleep", "digest"}
    BY <1>1 DEF EarlyPcs
  <2>2. CASE StoreResult(t)
    <3>1. cur[t] = lastDone + 1
      BY <2>2, InLoop DEF StoreResult, LoopPcs
    <3>2. QED
      BY <1>1, <2>2, <3>1 DEF StoreResult, SetRow
  <2>3. CASE MergeRow(t)
    BY <1>1, <1>2, <2>3 DEF MergeRow
  <2>4. CASE MergeDone(t)
    <3>1. cur[t] = lastDone + 1
      BY <2>4, InLoop DEF MergeDone, LoopPcs
    <3>2. cur[t] \in results
      BY <2>4, InMerge DEF MergeDone
    <3>3. QED
      BY <1>1, <2>4, <3>1, <3>2 DEF MergeDone
  <2>5. CASE StoreRaises(t) \/ CallRaises(t)
    BY <1>1, <1>2, <1>3, <2>5 DEF StoreRaises, CallRaises, Raise
  <2>6. QED
    BY <1>11, <2>1, <2>2, <2>3, <2>4, <2>5 DEF SyncStep, SyncBlockInfo, MarketSynced, MarketFails,
         Sleep, Digest, DigestRaises
<1>12. QED
  BY <1>4, <1>5, <1>7, <1>8, <1>9, <1>10, <1>11 DEF Next

\* A task about to compute a result has just digested, or stays where it is.
LEMMA CalcSteps ==
  ASSUME PcType, LocalsType, LockInv, Next, NEW t \in Tasks, pc'[t] = "calc"
  PROVE  Digest(t) \/ (pc[t] = "calc" /\ cur'[t] = cur[t])
<1> USE DEF locals, locks
<1>1. CASE NewBlock \/ Tick \/ Connect \/ EmergencyStop \/ (\E n \in Blocks : CollectCoin(n))
             \/ \E id \in Blocks : Deploy(id)
  BY <1>1 DEF NewBlock, Tick, Connect, EmergencyStop, CollectCoin, Deploy
<1>2. ASSUME NEW u \in Tasks, Return(u) PROVE pc[t] = "calc" /\ cur'[t] = cur[t]
  <2>1. CASE u = "main"
    BY <1>2, <2>1 DEF Return, LocalsType, PcType, Tasks
  <2>2. CASE u = "listener"
    BY <1>2, <2>2 DEF Return, LocalsType, PcType, Tasks
  <2>3. QED
    BY <2>1, <2>2 DEF Tasks
<1>3. ASSUME NEW u \in Tasks, NEW q, q # "calc", pc' = [pc EXCEPT ![u] = q],
             \A v \in Tasks : v # u => cur'[v] = cur[v]
      PROVE  pc[t] = "calc" /\ cur'[t] = cur[t]
  BY <1>3 DEF PcType
<1>4. ASSUME NEW u \in Tasks, SyncBegins(u) PROVE pc[t] = "calc" /\ cur'[t] = cur[t]
  BY <1>2, <1>3, <1>4 DEF SyncBegins
<1>5. CASE Start \/ OperatorSync
  BY <1>4, <1>5 DEF Start, OperatorSync, Tasks
<1>6. CASE ListenerChecks
  BY <1>3, <1>6 DEF ListenerChecks, Tasks
<1>7. CASE TcpTrigger
  BY <1>3, <1>4, <1>7 DEF TcpTrigger, Tasks
<1>8. ~Halt
  BY DEF Halt, Tasks
<1>9. ASSUME NEW u \in Tasks, SyncStep(u)
      PROVE  Digest(t) \/ (pc[t] = "calc" /\ cur'[t] = cur[t])
  <2>1. CASE SyncBlockInfo(u) \/ Sleep(u) \/ StoreResult(u)
    BY <1>3, <2>1 DEF SyncBlockInfo, Sleep, StoreResult
  <2>2. CASE MarketFails(u) \/ DigestRaises(u) \/ StoreRaises(u) \/ CallRaises(u)
    BY <1>2, <1>8, <2>2 DEF MarketFails, DigestRaises, StoreRaises, CallRaises, Raise, Release
  <2>3. CASE MarketSynced(u)
    <3>1. CASE Timestamp2LastBlockN(known, clock) < lastDone + 1
      BY <1>2, <2>3, <3>1 DEF MarketSynced, Release
    <3>2. CASE ~(Timestamp2LastBlockN(known, clock) < lastDone + 1)
      BY <1>3, <2>3, <3>2 DEF MarketSynced, LocalsType
    <3>3. QED
      BY <3>1, <3>2
  <2>4. CASE Digest(u)
    BY <2>4 DEF Digest, PcType
  <2>5. CASE MergeRow(u)
    BY <2>5 DEF MergeRow
  <2>6. CASE MergeDone(u)
    <3>1. CASE cur[u] < to[u]
      BY <1>3, <2>6, <3>1 DEF MergeDone, LocalsType
    <3>2. CASE ~(cur[u] < to[u])
      BY <1>2, <2>6, <3>2 DEF MergeDone, Release
    <3>3. QED
      BY <3>1, <3>2
  <2>7. QED
    BY <1>9, <2>1, <2>2, <2>3, <2>4, <2>5, <2>6 DEF SyncStep
<1>10. CASE SaveBegins \/ SaveStep
  <2>1. pc' = pc \/ \E q \in SavePcs \cup {"repl"} : pc' = [pc EXCEPT !["main"] = q]
    BY <1>10 DEF SaveBegins, SaveStep, SaveStore, SaveAddress, SaveResults, SaveIds, SaveLog, SaveTx,
         SaveBalance, SavePcs
  <2>2. cur' = cur \/ \E k : cur' = [cur EXCEPT !["main"] = k]
    BY <1>10 DEF SaveBegins, SaveStep, SaveStore, SaveAddress, SaveResults, SaveIds, SaveLog, SaveTx,
         SaveBalance
  <2>3. pc["main"] # "calc"
    BY <1>10 DEF SaveBegins, SaveStep, SaveStore, SaveAddress, SaveResults, SaveIds, SaveLog, SaveTx,
         SaveBalance
  <2>4. t # "main"
    BY <2>1, <2>3 DEF PcType, SavePcs
  <2>5. QED
    BY <2>1, <2>2, <2>4 DEF PcType, LocalsType, Tasks
<1>11. CASE Crash
  BY <1>8, <1>11 DEF Crash
<1>12. QED
  BY <1>1, <1>5, <1>6, <1>7, <1>9, <1>10, <1>11 DEF Next

\* What a digest does to the table: the block is there afterwards, and when the
\* digest adds it, it is the one block not merged yet.
LEMMA DigestTable ==
  ASSUME FullInv, NEW t \in Tasks, Digest(t)
  PROVE  /\ tx'[cur[t]] # Absent /\ NotYetMerged(cur[t])'
         /\ \A n \in Blocks : tx'[n] # Absent => n = cur[t] \/ tx[n] # Absent
         /\ \A n \in Blocks : tx[n] # Absent => ~NotYetMerged(n)
<1> DEFINE n == cur[t]
<1>1. pc[t] \in LoopPcs /\ pc[t] \in EarlyPcs /\ pc[t] = "digest"
  BY DEF Digest, LoopPcs, EarlyPcs
<1>2. /\ lastDone \in Blocks /\ n = lastDone + 1 /\ LedgerInv /\ StoresType
      /\ n \in Blocks /\ to[t] \in Blocks /\ n <= to[t] /\ synchronizing
  BY <1>1, InLoop
<1>3. \A u \in Tasks : pc'[u] \notin EarlyPcs
  <2>1. pc' = [pc EXCEPT ![t] = "calc"] /\ "calc" \in LoopPcs
    BY DEF Digest, LoopPcs
  <2>2. pc'[t] = "calc" /\ \A u \in Tasks : u # t => pc'[u] \notin EarlyPcs
    BY <1>1, <2>1, LoopMove
  <2>3. QED
    BY <2>2 DEF EarlyPcs
<1>4. NotYetMerged(n)'
  BY <1>2, <1>3 DEF Digest, NotYetMerged, locks, locals
<1>5. \A m \in Blocks : ~NotYetMerged(m)
  BY <1>1 DEF NotYetMerged
<1>6. coins[n] = Coins[n] /\ Coins[n] \in Nat \ {0}
  <2>1. n <= n
    BY <1>2, TsAssumption DEF Blocks
  <2>2. QED
    BY <1>1, <1>2, <2>1, PipelineAssumption DEF LedgerInv, GoodLoop, LoopPcs
<1>7. tx'[n] # Absent /\ \A m \in Blocks : m # n => tx'[m] = tx[m]
  <2>1. CASE RowsAfter(n - 1)
    <3>1. PICK m \in Blocks : m > n - 1 /\ tx[m] # Absent
      BY <2>1 DEF RowsAfter
    <3>2. m = n \/ n < m
      BY <1>2, <3>1, TsAssumption DEF Blocks
    <3>3. tx[n] # Absent
      BY <1>2, <3>1, <3>2 DEF LedgerInv, GoodMemory, GoodTable
    <3>4. tx' = tx
      BY <2>1 DEF Digest, memory
    <3>5. QED
      BY <3>3, <3>4
  <2>2. CASE ~RowsAfter(n - 1)
    <3>1. tx' = [tx EXCEPT ![n] = coins[n]]
      BY <1>6, <2>2 DEF Digest, AppendRows
    <3>2. QED
      BY <1>2, <1>6, <3>1 DEF StoresType, Table, Absent
  <2>3. QED
    BY <2>1, <2>2
<1>8. QED
  BY <1>4, <1>5, <1>7

LEMMA ResultsInit == Init => ResultsInv
<1> SUFFICES ASSUME Init PROVE ResultsInv
  OBVIOUS
<1> USE TsAssumption, PipelineAssumption DEF Blocks
<1>1. pc["main"] \notin SavePcs /\ \A t \in Tasks : pc[t] # "calc"
  BY DEF Init, Tasks, SavePcs
<1>2. results = 1 .. Base /\ Base \in Nat /\ disk.tx = tx
      /\ \A n \in Blocks : tx[n] # Absent => n <= Base
  BY DEF Init, Absent
<1>3. Gapless(results) /\ Listed(tx, results)
  BY <1>2 DEF Gapless, Listed
<1>4. \A id \in Blocks : ~snap[id].done
  BY DEF Init, NoSnapshot
<1>5. QED
  BY <1>1, <1>2, <1>3, <1>4 DEF ResultsInv, Listed

\* Below the block whose result is stored every block has its result already.
LEMMA StoreGapless ==
  ASSUME FullInv, Gapless(results), NEW t \in Tasks, StoreResult(t)
  PROVE  Gapless(results')
<1>1. pc[t] \in LoopPcs
  BY DEF StoreResult, LoopPcs
<1>2. lastDone \in Blocks /\ cur[t] = lastDone + 1 /\ LedgerInv /\ Up
  BY <1>1, InLoop
<1>3. lastDone \in results /\ results' = results \cup {cur[t]}
  BY <1>2 DEF LedgerInv, GoodCursor, StoreResult, SetRow
<1>4. ASSUME NEW m \in Blocks, m < cur[t] PROVE m \in results
  <2>1. m = lastDone \/ m < lastDone
    BY <1>2, <1>4, TsAssumption DEF Blocks
  <2>2. QED
    BY <1>3, <2>1 DEF Gapless
<1>5. QED
  BY <1>3, <1>4 DEF Gapless

\* Gapless results are the blocks up to the last.
LEMMA ResultsAre ==
  ASSUME TypeOK, GoodLedger(applied, results), Gapless(results)
  PROVE  results = 1 .. GetLastResultsID
<1>1. GetLastResultsID \in results /\ GetLastResultsID \in Blocks
  BY LastResultIsBlock
<1>2. results \subseteq Blocks /\ \A n \in results : n <= GetLastResultsID
  BY LastResultsType DEF TypeOK, StoresType
<1>3. \A n \in 1 .. GetLastResultsID : n \in Blocks /\ (n = GetLastResultsID \/ n < GetLastResultsID)
  BY <1>1, TsAssumption DEF Blocks
<1>4. \A n \in results : n \in 1 .. GetLastResultsID
  BY <1>1, <1>2, TsAssumption DEF Blocks
<1>5. \A n \in 1 .. GetLastResultsID : n \in results
  BY <1>1, <1>3 DEF Gapless
<1>6. QED
  BY <1>4, <1>5

LEMMA ResultsStep ==
  ASSUME FullInv, SaveAlone, ResultsInv, Next
  PROVE  ResultsInv'
<1>0. /\ StoresType /\ PcType /\ LocalsType /\ TypeOK /\ LockInv /\ LedgerInv
      /\ GoodSave /\ GoodLedger(applied, results)
  BY DEF FullInv, TypeInv, TypeOK, LedgerInv
<1>1. /\ Gapless(results) /\ Listed(disk.tx, results)
      /\ \A n \in Blocks : tx[n] # Absent => n \in results \/ NotYetMerged(n)
      /\ \A t \in Tasks : pc[t] = "calc" => tx[cur[t]] # Absent
      /\ pc["main"] \in SavePcs => cur["main"] = GetLastResultsID
      /\ \A id \in Blocks : snap[id].done =>
           snap[id].res = 1 .. id /\ Listed(snap[id].tx, snap[id].res)
  BY DEF ResultsInv
<1>2. ASSUME NEW id \in Blocks, Deploy(id)
      PROVE  /\ results' = 1 .. id /\ Gapless(results')
             /\ disk'.tx = snap[id].tx /\ tx' = snap[id].tx /\ Listed(tx', results')
             /\ Listed(disk'.tx, results')
  <2>1. /\ snap[id].done /\ results' = snap[id].res /\ tx' = snap[id].tx
        /\ disk'.tx = snap[id].tx
    BY <1>2 DEF Deploy
  <2>2. results' = 1 .. id /\ Listed(tx', results')
    BY <1>1, <2>1 DEF Listed
  <2>3. QED
    BY <2>1, <2>2, TsAssumption DEF Gapless, Listed, Blocks
<1>3. Gapless(results)'
  <2>1. Gapless(results')
    BY <1>1, <1>2, StoreGapless, ResultSteps
  <2>2. QED
    BY <2>1 DEF Gapless
<1>4. (\E id \in Blocks : Deploy(id)) \/ results \subseteq results'
  <2>1. ASSUME NEW t \in Tasks, StoreResult(t) PROVE results \subseteq results'
    BY <2>1 DEF StoreResult, SetRow
  <2>2. QED
    BY <2>1, ResultSteps
<1>5. Listed(disk.tx, results)'
  <2>1. CASE disk' = disk /\ results \subseteq results'
    BY <1>1, <2>1 DEF Listed
  <2>2. QED
    BY <1>2, <1>4, <2>1, DiskSteps DEF Listed
<1>6. ASSUME NEW n \in Blocks, tx'[n] # Absent PROVE n \in results' \/ NotYetMerged(n)'
  <2>1. CASE \E id \in Blocks : Deploy(id)
    BY <1>2, <1>6, <2>1 DEF Listed
  <2>2. CASE Halt /\ results \subseteq results'
    <3>1. tx' = disk.tx
      BY <2>2 DEF Halt
    <3>2. QED
      BY <1>1, <1>6, <2>2, <3>1 DEF Listed
  <2>3. CASE UNCHANGED memory /\ results \subseteq results' /\ ~Halt
    <3>1. tx[n] # Absent
      BY <1>6, <2>3 DEF memory
    <3>2. QED
      BY <1>1, <2>3, <3>1, WaitSteps
  <2>4. ASSUME NEW t \in Tasks, Digest(t), results \subseteq results'
        PROVE  n \in results' \/ NotYetMerged(n)'
    <3>1. n = cur[t] \/ (tx[n] # Absent /\ ~NotYetMerged(n))
      BY <1>6, <2>4, DigestTable
    <3>2. NotYetMerged(cur[t])'
      BY <2>4, DigestTable
    <3>3. CASE n = cur[t]
      <4>1. cur' = cur
        BY <2>4 DEF Digest, locals
      <4>2. QED
        BY <3>2, <3>3, <4>1 DEF NotYetMerged
    <3>4. QED
      BY <1>1, <2>4, <3>1, <3>3
  <2>5. QED
    BY <1>4, <2>1, <2>2, <2>3, <2>4, MemorySteps
<1>7. ASSUME NEW t \in Tasks, pc'[t] = "calc" PROVE tx'[cur'[t]] # Absent
  <2>1. CASE Digest(t)
    <3>1. cur' = cur
      BY <2>1 DEF Digest, locals
    <3>2. QED
      BY <2>1, <3>1, DigestTable
  <2>2. CASE ~Digest(t)
    <3>1. pc[t] = "calc" /\ cur'[t] = cur[t]
      BY <1>0, <1>7, <2>2, CalcSteps
    <3>2. Up /\ \A u \in Tasks : ~Digest(u)
      BY <1>0, <3>1, Alone DEF Digest, SyncPcs
    <3>3. ~Halt /\ \A id \in Blocks : ~Deploy(id)
      BY <1>7, <3>2 DEF Halt, Deploy, Tasks
    <3>4. tx' = tx
      BY <3>2, <3>3, MemorySteps DEF memory
    <3>5. QED
      BY <1>1, <3>1, <3>4
  <2>3. QED
    BY <2>1, <2>2
<1>8. ASSUME pc'["main"] \in SavePcs PROVE cur'["main"] = GetLastResultsID'
  <2>1. CASE pc["main"] \in SavePcs
    <3>1. pc["main"] \notin {"down"} /\ ~synchronizing
      BY <1>0, <2>1 DEF GoodSave, SavePcs
    <3>2. cur'["main"] = cur["main"]
      <4>1. CASE SaveStep
        <5>1. cur' = cur \/ pc' = [pc EXCEPT !["main"] = "repl"]
          BY <4>1 DEF SaveStep, SaveStore, SaveAddress, SaveResults, SaveIds, SaveLog, SaveTx,
               SaveBalance, locals
        <5>2. QED
          BY <1>0, <1>8, <5>1 DEF PcType, Tasks, SavePcs
      <4>2. CASE Crash
        BY <1>8, <4>2 DEF Crash, Halt, Tasks, SavePcs
      <4>3. QED
        BY <1>0, <2>1, <4>1, <4>2, SavingSteps
    <3>3. results' = results
      BY <1>0, <3>1, ResultSteps DEF StoreResult, Deploy, Up, LockInv, SyncPcs
    <3>4. QED
      BY <1>1, <2>1, <3>2, <3>3 DEF GetLastResultsID
  <2>2. CASE pc["main"] \notin SavePcs
    <3>1. SaveBegins
      BY <1>0, <1>8, <2>2, NoSaveStarts
    <3>2. cur'["main"] = GetLastResultsID /\ results' = results
      BY <1>0, <1>8, <2>2, <3>1 DEF SaveBegins, LocalsType, Tasks, mmaps
    <3>3. QED
      BY <3>2 DEF GetLastResultsID
  <2>3. QED
    BY <2>1, <2>2
<1>9. ASSUME NEW id \in Blocks, snap'[id].done
      PROVE  snap'[id].res = 1 .. id /\ Listed(snap'[id].tx, snap'[id].res)
  <2>1. CASE snap'[id] = snap[id]
    BY <1>1, <1>9, <2>1
  <2>2. CASE SaveBalance /\ id = cur["main"]
             /\ snap'[id] = [snap[id] EXCEPT !.bal = bal, !.done = TRUE]
    <3>1. pc["main"] = "saveBalance" /\ pc["main"] \in SavePcs
      BY <2>2 DEF SaveBalance, SavePcs
    <3>2. snap[id].res = results /\ snap[id].tx = tx /\ ~synchronizing /\ id = GetLastResultsID
      BY <1>0, <1>1, <2>2, <3>1 DEF GoodSave
    <3>3. snap[id] \in SnapshotType
      BY <1>0 DEF StoresType
    <3>4. snap'[id].res = results /\ snap'[id].tx = tx
      BY <2>2, <3>2, <3>3 DEF SnapshotType
    <3>5. results = 1 .. id
      BY <1>0, <1>1, <3>2, ResultsAre
    <3>6. Listed(tx, results)
      BY <1>1, <3>2 DEF Listed, NotYetMerged
    <3>7. QED
      BY <3>4, <3>5, <3>6
  <2>3. CASE (SaveResults \/ SaveIds \/ SaveLog \/ SaveTx) /\ id = cur["main"] /\ snap[id].done
    BY <1>0, <2>3 DEF SaveResults, SaveIds, SaveLog, SaveTx, SaveStore, GoodSave, SavePcs
  <2>4. QED
    BY <1>0, <1>9, <2>1, <2>2, <2>3, SnapshotSteps
<1>10. QED
  BY <1>3, <1>5, <1>6, <1>7, <1>8, <1>9 DEF ResultsInv, Listed

LEMMA ResultsStutter ==
  ASSUME ResultsInv, UNCHANGED vars
  PROVE  ResultsInv'
  BY DEF vars, mmaps, memory, files, locks, locals, ResultsInv, Gapless, Listed, NotYetMerged,
       GetLastResultsID

LEMMA ResultsInvariant ==
  ASSUME Timely, SaveWhenIdle
  PROVE  Spec => [](FullInv /\ AgreeInv /\ ResultsInv)
<1>1. Init => ResultsInv
  BY ResultsInit
<1>2. FullInv /\ AgreeInv /\ ResultsInv /\ [Next]_vars => ResultsInv'
  BY ResultsStep, ResultsStutter DEF AgreeInv
<1>3. Spec => []FullInv
  BY FullInvariant
<1>4. Spec => []AgreeInv
  <2>1. Spec => [](TypeInv /\ LockInv /\ AgreeInv)
    BY AgreeInvariant
  <2>2. QED
    BY <2>1, PTL
<1>5. QED
  BY <1>1, <1>2, <1>3, <1>4, PTL DEF Spec

\* A finished snapshot lacks at most rows of its transaction table.
LEMMA UsableWithRows ==
  ASSUME FullInv, AgreeInv, ResultsInv, NEW id \in Blocks, snap[id].done, snap[id].tx[id] # Absent
  PROVE  Usable(id)
<1> DEFINE s == snap[id]
<1>1. /\ s.res = 1 .. id /\ Listed(s.tx, s.res) /\ s.ids = LastTx(s.tx) /\ s.bal = LastTx(s.tx)
  BY DEF ResultsInv, AgreeInv, Agree
<1>2. /\ GoodTable(s.tx) /\ Covered(s.tx, s.addr) /\ GoodLedger(s.addr, s.res)
      /\ s \in SnapshotType
  BY DEF FullInv, LedgerInv, GoodFiles, TypeInv, TypeOK, StoresType
<1>3. LastTx(s.tx) = id
  <2>1. ASSUME NEW m \in Blocks, m > id PROVE s.tx[m] = Absent
    <3>1. m \notin s.res
      BY <1>1, <2>1, TsAssumption DEF Blocks
    <3>2. QED
      BY <1>1, <3>1 DEF Listed
  <2>2. QED
    BY <2>1, LastTxIs
<1>4. ASSUME NEW n \in Blocks PROVE s.addr[n] = IF n <= id THEN Whole(n) ELSE 0
  <2>1. CASE n <= id
    <3>1. n = id \/ n < id
      BY <2>1, TsAssumption DEF Blocks
    <3>2. s.tx[n] # Absent
      BY <1>2, <3>1 DEF GoodTable
    <3>3. QED
      BY <1>2, <2>1, <3>2 DEF Covered
  <2>2. CASE ~(n <= id)
    <3>1. n \notin s.res
      BY <1>1, <2>2, TsAssumption DEF Blocks
    <3>2. s.addr[n] \in Nat /\ ~(s.addr[n] > 0)
      BY <1>2, <3>1 DEF GoodLedger, SnapshotType
    <3>3. QED
      BY <2>2, <3>2
  <2>3. QED
    BY <2>1, <2>2
<1>5. QED
  BY <1>1, <1>3, <1>4 DEF Usable

\* If bitcore completes every block within the sleeps and saves are made only
\* while no sync runs, over any number of kills, restarts and restored snapshots: a
\* finished snapshot whose transaction table has the rows of the folder's block is of
\* that block in every store.  What a restart can take from it is only the end
\* of the table, which the process loads from the files of the last deployment.
THEOREM SnapshotWithItsRows ==
  ASSUME Timely, SaveWhenIdle
  PROVE  Spec => [](\A id \in Blocks :
                      snap[id].done /\ snap[id].tx[id] # Absent => Usable(id))
<1>1. FullInv /\ AgreeInv /\ ResultsInv =>
        \A id \in Blocks : snap[id].done /\ snap[id].tx[id] # Absent => Usable(id)
  BY UsableWithRows
<1>2. QED
  BY <1>1, ResultsInvariant, PTL

-----------------------------------------------------------------------------
(* Until the process ends, the table in memory has the rows of every result.  *)

\* The table in memory changes by a digest, or when the process ends: killed, by
\* an exception of a call before there is a listener, or with it down.
LEMMA TableSteps ==
  ASSUME Next
  PROVE  \/ tx' = tx \/ (\E t \in Tasks : Digest(t)) \/ Crash
         \/ (\E t \in Tasks : DigestRaises(t) \/ StoreRaises(t))
         \/ faults' # faults
         \/ \E id \in Blocks : Deploy(id)
<1> USE DEF memory
<1>1. CASE NewBlock \/ Tick \/ Connect \/ \E n \in Blocks : CollectCoin(n)
  BY <1>1 DEF NewBlock, Tick, Connect, CollectCoin
<1>2. CASE Start \/ OperatorSync \/ ListenerChecks \/ TcpTrigger \/ EmergencyStop
  BY <1>2 DEF Start, OperatorSync, ListenerChecks, TcpTrigger, EmergencyStop
<1>3. ASSUME NEW t \in Tasks, SyncStep(t)
      PROVE  tx' = tx \/ Digest(t) \/ DigestRaises(t) \/ StoreRaises(t) \/ CallRaises(t)
  BY <1>3 DEF SyncStep, SyncBlockInfo, MarketSynced, MarketFails, Sleep, StoreResult, MergeRow,
       MergeDone
<1>4. ASSUME NEW t \in Tasks, CallRaises(t) PROVE tx' = tx \/ faults' # faults
  <2>1. faults' = faults + 1
    BY <1>4 DEF CallRaises, Fault
  <2>2. QED
    BY <1>4, <2>1
<1>5. CASE SaveBegins \/ SaveStep
  BY <1>5 DEF SaveBegins, SaveStep, SaveStore, SaveAddress, SaveResults, SaveIds, SaveLog, SaveTx,
       SaveBalance
<1>6. QED
  BY <1>1, <1>2, <1>3, <1>4, <1>5 DEF Next

\* Faults are only ever added.
LEMMA FaultsGrow ==
  ASSUME LocalsType, Next
  PROVE  faults' = faults \/ faults' = faults + 1
<1> USE DEF bounds
<1>1. ASSUME NEW t \in Tasks, SyncStep(t) PROVE faults' = faults \/ faults' = faults + 1
  BY <1>1 DEF SyncStep, SyncBlockInfo, MarketSynced, MarketFails, Sleep, Digest, DigestRaises,
       StoreResult, StoreRaises, CallRaises, MergeRow, MergeDone, Fault
<1>2. CASE NewBlock \/ Tick \/ Connect \/ \E n \in Blocks : CollectCoin(n)
  BY <1>2 DEF NewBlock, Tick, Connect, CollectCoin
<1>3. CASE Start \/ OperatorSync \/ ListenerChecks \/ TcpTrigger \/ EmergencyStop
  BY <1>3 DEF Start, OperatorSync, ListenerChecks, TcpTrigger, EmergencyStop
<1>4. CASE SaveBegins \/ SaveStep \/ Crash \/ \E id \in Blocks : Deploy(id)
  BY <1>4 DEF SaveBegins, SaveStep, SaveStore, SaveAddress, SaveResults, SaveIds, SaveLog, SaveTx,
       SaveBalance, Crash, Deploy
<1>5. QED
  BY <1>1, <1>2, <1>3, <1>4 DEF Next

LEMMA CrashesGrow ==
  ASSUME LocalsType, Next
  PROVE  crashes' = crashes \/ Crash
<1> USE DEF bounds
<1>1. ASSUME NEW t \in Tasks, SyncStep(t) PROVE crashes' = crashes
  BY <1>1 DEF SyncStep, SyncBlockInfo, MarketSynced, MarketFails, Sleep, Digest, DigestRaises,
       StoreResult, StoreRaises, CallRaises, MergeRow, MergeDone
<1>2. CASE NewBlock \/ Tick \/ Connect \/ \E n \in Blocks : CollectCoin(n)
  BY <1>2 DEF NewBlock, Tick, Connect, CollectCoin
<1>3. CASE Start \/ OperatorSync \/ ListenerChecks \/ TcpTrigger \/ EmergencyStop
  BY <1>3 DEF Start, OperatorSync, ListenerChecks, TcpTrigger, EmergencyStop
<1>4. CASE SaveBegins \/ SaveStep \/ \E id \in Blocks : Deploy(id)
  BY <1>4 DEF SaveBegins, SaveStep, SaveStore, SaveAddress, SaveResults, SaveIds, SaveLog, SaveTx,
       SaveBalance, Deploy
<1>5. QED
  BY <1>1, <1>2, <1>3, <1>4 DEF Next

LEMMA FreshInit == Init => FreshInv
<1> SUFFICES ASSUME Init PROVE FreshInv
  OBVIOUS
<1> USE TsAssumption, PipelineAssumption DEF Blocks
<1>1. results = 1 .. Base /\ \A n \in 1 .. Base : tx[n] # Absent
  BY DEF Init, Absent
<1>2. \A id \in Blocks : ~snap[id].done
  BY DEF Init, NoSnapshot
<1>3. QED
  BY <1>1, <1>2 DEF FreshInv, Fresh

LEMMA FreshStep ==
  ASSUME FullInv, ResultsInv, FreshInv, Next
  PROVE  FreshInv'
<1> SUFFICES ASSUME crashes' = 0, faults' = 0
             PROVE  /\ Fresh(tx', results')
                    /\ \A id \in Blocks : snap'[id].done => Fresh(snap'[id].tx, snap'[id].res)
  BY DEF FreshInv, Fresh
<1>0. /\ StoresType /\ PcType /\ LocalsType /\ LockInv /\ LedgerInv /\ GoodSave
      /\ crashes \in Nat /\ faults \in Nat
  BY DEF FullInv, TypeInv, TypeOK, LedgerInv, LocalsType
<1>1. ~Crash
  BY <1>0 DEF Crash
<1>2. crashes = 0 /\ faults = 0 /\ faults' = faults
  BY <1>0, <1>1, CrashesGrow, FaultsGrow
<1>3. Fresh(tx, results) /\ \A id \in Blocks : snap[id].done => Fresh(snap[id].tx, snap[id].res)
  BY <1>2 DEF FreshInv
<1>4. ASSUME NEW id \in Blocks, Deploy(id) PROVE Fresh(tx', results')
  BY <1>3, <1>4 DEF Deploy
<1>5. ASSUME NEW t \in Tasks PROVE ~DigestRaises(t) /\ ~StoreRaises(t)
  <2>1. ~DigestRaises(t)
    <3> SUFFICES ASSUME DigestRaises(t) PROVE FALSE
      OBVIOUS
    <3>1. pc[t] = "digest" /\ tx[cur[t] - 1] = Absent
      BY DEF DigestRaises, BlockLocated
    <3>2. lastDone \in Blocks /\ cur[t] = lastDone + 1 /\ Up
      BY <3>1, InLoop DEF LoopPcs
    <3>3. lastDone \in results /\ cur[t] - 1 = lastDone
      BY <1>0, <3>2, TsAssumption DEF LedgerInv, GoodCursor, Blocks
    <3>4. QED
      BY <1>3, <3>1, <3>3 DEF Fresh
  <2>2. ~StoreRaises(t)
    BY DEF StoreRaises, BlockLocated, ResultsInv
  <2>3. QED
    BY <2>1, <2>2
<1>6. Fresh(tx', results')
  <2>1. CASE \E id \in Blocks : Deploy(id)
    BY <1>4, <2>1
  <2>2. ASSUME NEW t \in Tasks, Digest(t) PROVE Fresh(tx', results')
    <3>1. results' = results
      BY <2>2 DEF Digest, mmaps
    <3>2. tx' = tx \/ \E c \in Nat : tx' = [tx EXCEPT ![cur[t]] = c]
      <4>1. cur[t] \in Blocks
        BY <2>2, InLoop DEF Digest, LoopPcs
      <4>2. QED
        BY <1>0, <2>2, <4>1 DEF Digest, AppendRows, memory, StoresType
    <3>3. \A n \in Blocks : tx[n] # Absent => tx'[n] # Absent
      BY <1>0, <3>2 DEF StoresType, Table, Absent
    <3>4. QED
      BY <1>0, <1>3, <3>1, <3>3 DEF Fresh, StoresType
  <2>3. CASE tx' = tx /\ ~\E id \in Blocks : Deploy(id)
    <3>1. ASSUME NEW t \in Tasks, StoreResult(t) PROVE Fresh(tx', results')
      BY <1>3, <2>3, <3>1 DEF StoreResult, SetRow, BlockLocated, Fresh
    <3>2. QED
      BY <1>3, <2>3, <3>1, ResultSteps
  <2>4. QED
    BY <1>1, <1>2, <1>5, <2>1, <2>2, <2>3, TableSteps
<1>7. ASSUME NEW id \in Blocks, snap'[id].done PROVE Fresh(snap'[id].tx, snap'[id].res)
  <2>1. CASE snap'[id] = snap[id]
    BY <1>3, <1>7, <2>1
  <2>2. CASE SaveBalance /\ id = cur["main"]
             /\ snap'[id] = [snap[id] EXCEPT !.bal = bal, !.done = TRUE]
    <3>1. snap[id].res = results /\ snap[id].tx = tx
      BY <1>0, <2>2 DEF SaveBalance, GoodSave
    <3>2. snap[id] \in SnapshotType
      BY <1>0 DEF StoresType
    <3>3. snap'[id].res = results /\ snap'[id].tx = tx
      BY <2>2, <3>1, <3>2 DEF SnapshotType
    <3>4. QED
      BY <1>3, <3>3
  <2>3. CASE (SaveResults \/ SaveIds \/ SaveLog \/ SaveTx) /\ id = cur["main"] /\ snap[id].done
    BY <1>0, <2>3 DEF SaveResults, SaveIds, SaveLog, SaveTx, SaveStore, GoodSave, SavePcs
  <2>4. QED
    BY <1>0, <1>7, <2>1, <2>2, <2>3, SnapshotSteps
<1>8. QED
  BY <1>6, <1>7

LEMMA FreshStutter ==
  ASSUME FreshInv, UNCHANGED vars
  PROVE  FreshInv'
  BY DEF vars, mmaps, memory, files, bounds, FreshInv, Fresh

\* If bitcore completes every block within the sleeps and saves are made only
\* while no sync runs, as long as the process has not been killed and no call
\* outside has failed, a finished snapshot is of one block, its folder's number, in every store:
\* putting it back loses, repeats and renames nothing.  A restart breaks this:
\* the results survive it and the rows of the table do not.
THEOREM SnapshotsUsable ==
  ASSUME Timely, SaveWhenIdle
  PROVE  Spec => [](crashes = 0 /\ faults = 0 => SnapshotUsable)
<1>1. Init => FreshInv
  BY FreshInit
<1>2. FullInv /\ AgreeInv /\ ResultsInv /\ FreshInv /\ [Next]_vars => FreshInv'
  BY FreshStep, FreshStutter
<1>3. FullInv /\ AgreeInv /\ ResultsInv /\ FreshInv => (crashes = 0 /\ faults = 0 => SnapshotUsable)
  <2> SUFFICES ASSUME FullInv, AgreeInv, ResultsInv, FreshInv, crashes = 0, faults = 0,
                      NEW id \in Blocks, snap[id].done
               PROVE  Usable(id)
    BY DEF SnapshotUsable
  <2>1. snap[id].res = 1 .. id /\ Fresh(snap[id].tx, snap[id].res)
    BY DEF ResultsInv, FreshInv
  <2>2. id \in 1 .. id
    BY TsAssumption DEF Blocks
  <2>3. QED
    BY <2>1, <2>2, UsableWithRows DEF Fresh
<1>4. Spec => [](FullInv /\ AgreeInv /\ ResultsInv)
  BY ResultsInvariant
<1>5. QED
  BY <1>1, <1>2, <1>3, <1>4, PTL DEF Spec

-----------------------------------------------------------------------------
(* What needs no assumption: that blocks are counted once, after their        *)
(* results, and at the cursor only, however late bitcore is and whatever      *)
(* sync a save runs beside.                                                   *)

LEMMA CoinSteps ==
  ASSUME Next
  PROVE  coins' = coins \/ \E n \in Blocks : CollectCoin(n)
<1> USE DEF env
<1>1. CASE NewBlock \/ Tick \/ Connect
  BY <1>1 DEF NewBlock, Tick, Connect
<1>2. CASE Start \/ OperatorSync \/ ListenerChecks \/ TcpTrigger \/ EmergencyStop
  BY <1>2 DEF Start, OperatorSync, ListenerChecks, TcpTrigger, EmergencyStop
<1>3. ASSUME NEW t \in Tasks, SyncStep(t) PROVE coins' = coins
  BY <1>3 DEF SyncStep, SyncBlockInfo, MarketSynced, MarketFails, Sleep, Digest, DigestRaises,
       StoreResult, StoreRaises, CallRaises, MergeRow, MergeDone
<1>4. CASE SaveBegins \/ SaveStep \/ Crash \/ \E id \in Blocks : Deploy(id)
  BY <1>4 DEF SaveBegins, SaveStep, SaveStore, SaveAddress, SaveResults, SaveIds, SaveLog, SaveTx,
       SaveBalance, Crash, Deploy
<1>5. QED
  BY <1>1, <1>2, <1>3, <1>4 DEF Next

\* The table in a folder is the one that was there, or the one in memory.
LEMMA FolderTables ==
  ASSUME StoresType, Next, NEW id \in Blocks
  PROVE  snap'[id].tx = snap[id].tx \/ snap'[id].tx = tx
<1>0. snap \in [Blocks -> SnapshotType]
  BY DEF StoresType
<1> DEFINE s == snap[cur["main"]]
<1>1. ASSUME NEW r, snap' = [snap EXCEPT ![cur["main"]] = r],
             cur["main"] \in Blocks => r.tx = s.tx \/ r.tx = tx
      PROVE  snap'[id].tx = snap[id].tx \/ snap'[id].tx = tx
  <2>1. snap'[id] = IF id = cur["main"] THEN r ELSE snap[id]
    BY <1>0, <1>1
  <2>2. QED
    BY <1>1, <2>1
<1>2. cur["main"] \in Blocks => s \in SnapshotType
  BY <1>0
<1>3. CASE SaveAddress
  <2>1. cur["main"] \in Blocks => [s EXCEPT !.addr = applied, !.done = FALSE].tx = s.tx
    BY <1>2 DEF SnapshotType
  <2>2. QED
    BY <1>1, <1>3, <2>1 DEF SaveAddress
<1>4. CASE SaveResults
  <2>1. cur["main"] \in Blocks => [s EXCEPT !.res = results].tx = s.tx
    BY <1>2 DEF SnapshotType
  <2>2. QED
    BY <1>1, <1>4, <2>1 DEF SaveResults, SaveStore
<1>5. CASE SaveIds
  <2>1. cur["main"] \in Blocks => [s EXCEPT !.ids = ids].tx = s.tx
    BY <1>2 DEF SnapshotType
  <2>2. QED
    BY <1>1, <1>5, <2>1 DEF SaveIds, SaveStore
<1>6. CASE SaveLog
  <2>1. cur["main"] \in Blocks => [s EXCEPT !.log = TRUE].tx = s.tx
    BY <1>2 DEF SnapshotType
  <2>2. QED
    BY <1>1, <1>6, <2>1 DEF SaveLog
<1>7. CASE SaveTx
  <2>1. cur["main"] \in Blocks => [s EXCEPT !.tx = tx].tx = tx
    BY <1>2, StageKeeps
  <2>2. QED
    BY <1>1, <1>7, <2>1 DEF SaveTx, SaveStore
<1>8. CASE SaveBalance
  <2>1. cur["main"] \in Blocks => [s EXCEPT !.bal = bal, !.done = TRUE].tx = s.tx
    BY <1>2 DEF SnapshotType
  <2>2. QED
    BY <1>1, <1>8, <2>1 DEF SaveBalance
<1>9. QED
  BY <1>3, <1>4, <1>5, <1>6, <1>7, <1>8, FolderSteps DEF SaveStep

LEMMA LateTablesStep ==
  ASSUME StoresType, LateTables, Next
  PROVE  LateTables'
<1>1. \A n \in Blocks : coins'[n] <= Coins[n]
  <2>1. CASE coins' = coins
    BY <2>1 DEF LateTables
  <2>2. ASSUME NEW n \in Blocks, CollectCoin(n) PROVE \A m \in Blocks : coins'[m] <= Coins[m]
    <3>1. coins \in [Blocks -> Nat] /\ Coins[n] \in Nat
      BY PipelineAssumption DEF StoresType
    <3>2. coins'[n] = coins[n] + 1 /\ coins[n] < Coins[n]
          /\ \A m \in Blocks : m # n => coins'[m] = coins[m]
      BY <2>2, <3>1 DEF CollectCoin
    <3>3. coins'[n] <= Coins[n]
      BY <3>1, <3>2
    <3>4. QED
      BY <3>2, <3>3 DEF LateTables
  <2>3. QED
    BY <2>1, <2>2, CoinSteps
<1>2. PartOfBlocks(tx')
  <2>1. CASE UNCHANGED memory
    BY <2>1 DEF memory, LateTables
  <2>2. ASSUME NEW t \in Tasks, AppendRows(cur[t]) PROVE PartOfBlocks(tx')
    <3>1. tx' = [tx EXCEPT ![cur[t]] = coins[cur[t]]]
      BY <2>2 DEF AppendRows
    <3>2. ASSUME NEW n \in Blocks PROVE tx'[n] = tx[n] \/ tx'[n] = coins[n]
      BY <3>1 DEF StoresType, Table
    <3>3. QED
      BY <3>2 DEF LateTables, PartOfBlocks
  <2>3. CASE Halt
    BY <2>3 DEF Halt, LateTables
  <2>4. CASE \E id \in Blocks : Deploy(id)
    BY <2>4 DEF Deploy, LateTables
  <2>5. QED
    BY <2>1, <2>2, <2>3, <2>4, MemorySteps
<1>3. PartOfBlocks(disk'.tx)
  BY DiskSteps DEF Deploy, LateTables
<1>4. \A id \in Blocks : PartOfBlocks(snap'[id].tx)
  BY FolderTables DEF LateTables, PartOfBlocks
<1>5. QED
  BY <1>1, <1>2, <1>3, <1>4 DEF LateTables, PartOfBlocks

\* What a task in its merge loop may still merge.
LEMMA LateMerge ==
  ASSUME TypeInv, LateTables, LateLoop, NEW t \in Tasks, pc[t] = "merge"
  PROVE  /\ cur[t] \in Blocks /\ cur[t] \in results
         /\ row \in Nat /\ MergeRows(cur[t]) \in Int /\ MergeRows(cur[t]) <= Whole(cur[t])
         /\ applied \in [Blocks -> Nat] /\ applied[cur[t]] = row
<1>1. cur[t] \in Blocks /\ tx[cur[t]] \in Nat \cup {Absent} /\ Coins[cur[t]] \in Nat
  BY PipelineAssumption DEF TypeInv, TypeOK, StoresType, LoopInRange, LoopPcs, Table
<1>2. MergeRows(cur[t]) \in Int /\ MergeRows(cur[t]) <= Whole(cur[t])
  BY <1>1 DEF MergeRows, Whole, LateTables, PartOfBlocks, Absent
<1>3. QED
  BY <1>1, <1>2 DEF LateLoop, TypeInv, TypeOK, StoresType, LocalsType

LEMMA LateStoresStep ==
  ASSUME TypeInv, LockInv, LateInv, Next
  PROVE  LateStores'
<1> USE DEF mmaps
<1>0. StoresType /\ LateStores /\ LateTables /\ LateLoop /\ LateSave
  BY DEF TypeInv, TypeOK, LateInv
<1>1. ResultsCover(applied', results')
  <2>1. CASE applied' = applied /\ results \subseteq results'
    BY <1>0, <2>1 DEF LateStores, ResultsCover
  <2>2. ASSUME NEW t \in Tasks, StoreResult(t) PROVE applied' = applied /\ results \subseteq results'
    BY <2>2 DEF StoreResult, SetRow
  <2>3. ASSUME NEW t \in Tasks, MergeRow(t) PROVE ResultsCover(applied', results')
    <3>1. pc[t] = "merge" /\ row < MergeRows(cur[t]) /\ results' = results
          /\ applied' = [applied EXCEPT ![cur[t]] = @ + 1]
      BY <2>3 DEF MergeRow
    <3>2. /\ cur[t] \in Blocks /\ cur[t] \in results
          /\ row \in Nat /\ MergeRows(cur[t]) \in Int /\ MergeRows(cur[t]) <= Whole(cur[t])
          /\ applied \in [Blocks -> Nat] /\ applied[cur[t]] = row
      BY <1>0, <3>1, LateMerge
    <3>3. Whole(cur[t]) \in Int
      BY <3>2, PipelineAssumption DEF Whole
    <3>4. applied'[cur[t]] = row + 1 /\ \A n \in Blocks : n # cur[t] => applied'[n] = applied[n]
      BY <3>1, <3>2
    <3>5. applied'[cur[t]] <= Whole(cur[t])
      BY <3>1, <3>2, <3>3, <3>4
    <3>6. QED
      BY <1>0, <3>1, <3>2, <3>4, <3>5 DEF LateStores, ResultsCover
  <2>4. CASE \E id \in Blocks : Deploy(id)
    BY <1>0, <2>4 DEF Deploy, LateStores
  <2>5. QED
    BY <2>1, <2>2, <2>3, <2>4, AppliedSteps, ResultSteps
<1>2. ASSUME NEW id \in Blocks, snap'[id].done PROVE ResultsCover(snap'[id].addr, snap'[id].res)
  <2>1. CASE snap'[id] = snap[id]
    BY <1>0, <1>2, <2>1 DEF LateStores
  <2>2. CASE /\ SaveBalance /\ id = cur["main"]
             /\ snap'[id] = [snap[id] EXCEPT !.bal = bal, !.done = TRUE]
    <3>1. snap'[id].addr = snap[id].addr /\ snap'[id].res = snap[id].res
      BY <1>0, <2>2 DEF StoresType, SnapshotType
    <3>2. ResultsCover(snap[id].addr, snap[id].res)
      BY <1>0, <2>2 DEF SaveBalance, LateSave
    <3>3. QED
      BY <3>1, <3>2
  <2>3. CASE (SaveResults \/ SaveIds \/ SaveLog \/ SaveTx) /\ id = cur["main"] /\ snap[id].done
    BY <1>0, <2>3 DEF SaveResults, SaveIds, SaveLog, SaveTx, SaveStore, LateSave, SavePcs
  <2>4. \/ snap'[id] = snap[id]
        \/ /\ SaveBalance /\ id = cur["main"]
           /\ snap'[id] = [snap[id] EXCEPT !.bal = bal, !.done = TRUE]
        \/ (SaveResults \/ SaveIds \/ SaveLog \/ SaveTx) /\ id = cur["main"] /\ snap[id].done
    BY <1>0, <1>2, SnapshotSteps, Zenon
  <2>5. QED
    BY <2>1, <2>2, <2>3, <2>4, Zenon
<1>3. QED
  BY <1>1, <1>2 DEF LateStores, ResultsCover, Whole

\* Steps that leave what is merged alone, and let nobody into the loop.
LEMMA LateControl ==
  ASSUME LateCursor, LateLoop, LoopsStay, UNCHANGED <<applied, tx, lastDone>>,
         results \subseteq results', Up' => Up
  PROVE  LateCursor' /\ LateLoop'
<1>1. LateCursor'
  BY DEF LateCursor, LoopsStay
<1>2. ASSUME NEW u \in Tasks
      PROVE  /\ pc'[u] \in LoopPcs => cur'[u] = lastDone' + 1
             /\ pc'[u] = "merge" =>
                  /\ cur'[u] \in results'
                  /\ applied'[cur'[u]] = row' /\ row' <= MergeRows(cur[u])'
  <2>1. pc'[u] \in LoopPcs => pc'[u] = pc[u] /\ cur'[u] = cur[u]
    BY DEF LoopsStay
  <2>2. pc'[u] = "merge" => row' = row /\ pc'[u] \in LoopPcs
    BY DEF LoopsStay, LoopPcs
  <2>3. pc'[u] \in LoopPcs => MergeRows(cur[u])' = MergeRows(cur[u])
    BY <2>1 DEF MergeRows
  <2>4. QED
    BY <2>1, <2>2, <2>3 DEF LateLoop
<1>3. QED
  BY <1>1, <1>2 DEF LateLoop

\* Nobody is in the loop, and nothing is merged above the cursor.
LEMMA LateNobody ==
  ASSUME \A u \in Tasks : pc'[u] \notin LoopPcs,
         Up' => \A n \in Blocks : n > lastDone' => ~(applied'[n] > 0)
  PROVE  LateCursor' /\ LateLoop'
BY DEF LateCursor, LateLoop, LoopPcs

\* Around a sync: bitcore, clients, the operator, and the two ends of SyncResults.
LEMMA LateOutside ==
  ASSUME PcType, LocalsType, LockInv, LateCursor, LateLoop,
         \/ NewBlock \/ Tick \/ Connect \/ EmergencyStop \/ ListenerChecks
         \/ \E n \in Blocks : CollectCoin(n)
         \/ OperatorSync \/ TcpTrigger \/ SaveBegins
         \/ \E t \in Tasks : SyncBlockInfo(t) \/ MarketFails(t)
  PROVE  LateCursor' /\ LateLoop'
<1> USE DEF env, mmaps, memory, files, locks, locals, bounds
<1>1. UNCHANGED <<applied, tx, lastDone>> /\ results \subseteq results' /\ row' = row
  BY DEF NewBlock, Tick, Connect, EmergencyStop, ListenerChecks, CollectCoin,
       OperatorSync, TcpTrigger, SaveBegins, SyncBlockInfo, MarketFails
<1>2. CASE UNCHANGED <<pc, cur, to>>
  <2>1. LoopsStay /\ (Up' => Up)
    BY <1>1, <1>2 DEF LoopsStay, Up
  <2>2. QED
    BY <1>1, <1>2, <2>1, LateControl
<1>3. CASE NewBlock \/ Tick \/ Connect \/ EmergencyStop \/ \E n \in Blocks : CollectCoin(n)
  BY <1>2, <1>3 DEF NewBlock, Tick, Connect, EmergencyStop, CollectCoin
<1>4. CASE ListenerChecks
  <2>1. PICK q \in {"done", "accept"} : pc' = [pc EXCEPT !["listener"] = q]
    BY <1>4 DEF ListenerChecks
  <2>2. "listener" \in Tasks /\ UNCHANGED <<cur, to>> /\ pc["listener"] = "check"
    BY <1>4 DEF ListenerChecks, Tasks
  <2>3. QED
    BY <1>1, <2>1, <2>2, OutsideLoops, LateControl DEF LoopPcs
<1>5. ASSUME NEW t \in Tasks, SyncBegins(t),
             (t = "main" /\ pc[t] = "repl") \/ (t = "listener" /\ pc[t] = "accept")
      PROVE  LateCursor' /\ LateLoop'
  <2>1. CASE synchronizing
    BY <1>1, <1>5, <2>1, ReturnLoops, LateControl DEF SyncBegins
  <2>2. CASE ~synchronizing
    <3>1. pc' = [pc EXCEPT ![t] = "info"] /\ cur' = cur /\ to' = to
      BY <1>5, <2>2 DEF SyncBegins
    <3>2. pc[t] \notin {"merge", "down"}
      BY <1>5
    <3>3. QED
      BY <1>1, <3>1, <3>2, OutsideLoops, LateControl DEF LoopPcs
  <2>3. QED
    BY <2>1, <2>2
<1>6. CASE OperatorSync
  BY <1>5, <1>6 DEF OperatorSync, Tasks
<1>7. CASE TcpTrigger
  <2>1. CASE accepted
    <3>1. pc' = [pc EXCEPT !["listener"] = "check"] /\ UNCHANGED <<cur, to>>
          /\ pc["listener"] = "accept" /\ "listener" \in Tasks
      BY <1>7, <2>1 DEF TcpTrigger, TriggerIgnored, Tasks
    <3>2. QED
      BY <1>1, <3>1, OutsideLoops, LateControl DEF LoopPcs
  <2>2. CASE ~accepted
    BY <1>5, <1>7, <2>2 DEF TcpTrigger, TriggerIgnored, Tasks
  <2>3. QED
    BY <2>1, <2>2
<1>8. CASE SaveBegins
  <2>1. UNCHANGED <<to, row>> /\ pc["main"] = "repl" /\ "main" \in Tasks
        /\ (UNCHANGED <<pc, cur>> \/ (/\ pc' = [pc EXCEPT !["main"] = "saveAddress"]
                                      /\ cur' = [cur EXCEPT !["main"] = GetLastResultsID]))
    BY <1>8 DEF SaveBegins, Tasks
  <2>2. CASE UNCHANGED <<pc, cur>>
    BY <1>2, <2>1, <2>2
  <2>3. CASE pc' = [pc EXCEPT !["main"] = "saveAddress"]
             /\ cur' = [cur EXCEPT !["main"] = GetLastResultsID]
    <3>1. \A u \in Tasks : u # "main" => cur'[u] = cur[u]
      BY <2>3 DEF LocalsType
    <3>2. QED
      BY <1>1, <2>1, <2>3, <3>1, OutsideLoops, LateControl DEF LoopPcs
  <2>4. QED
    BY <2>1, <2>2, <2>3
<1>9. ASSUME NEW t \in Tasks, SyncBlockInfo(t) PROVE LateCursor' /\ LateLoop'
  <2>1. pc' = [pc EXCEPT ![t] = "market"] /\ pc[t] = "info" /\ UNCHANGED <<cur, to>>
    BY <1>9 DEF SyncBlockInfo
  <2>2. QED
    BY <1>1, <2>1, OutsideLoops, LateControl DEF LoopPcs
<1>10. ASSUME NEW t \in Tasks, MarketFails(t) PROVE LateCursor' /\ LateLoop'
  BY <1>1, <1>10, ReturnLoops, LateControl DEF MarketFails, Release, SyncPcs
<1>11. QED
  BY <1>3, <1>4, <1>6, <1>7, <1>8, <1>9, <1>10

\* The cursor a service starts with is its last result, above all that is merged.
LEMMA LateStart ==
  ASSUME TypeInv, LockInv, LateStores, Start
  PROVE  LateCursor' /\ LateLoop'
<1>0. TypeOK
  BY DEF TypeInv
<1>1. \A u \in Tasks : pc'[u] \notin LoopPcs
  <2>1. pc["main"] = "down" /\ pc["listener"] = "off" /\ ~synchronizing
    BY DEF Start, Up, LockInv
  <2>2. pc' = [pc EXCEPT !["main"] = "info"]
    BY <2>1 DEF Start, SyncBegins
  <2>3. QED
    BY <1>0, <2>1, <2>2 DEF TypeOK, PcType, Tasks, LoopPcs
<1>2. lastDone' = GetLastResultsID /\ applied' = applied
  BY DEF Start, StoresAgree, CursorAtStart, mmaps
<1>3. ASSUME NEW n \in Blocks, n > GetLastResultsID PROVE ~(applied[n] > 0)
  <2>1. n \in results => n <= GetLastResultsID
    BY <1>0, LastResultsType
  <2>2. n \in Int /\ GetLastResultsID \in Int
    BY <1>0, LastResultsType, TsAssumption DEF Blocks
  <2>3. QED
    BY <1>3, <2>1, <2>2 DEF LateStores, ResultsCover
<1>4. QED
  BY <1>1, <1>2, <1>3, LateNobody

\* An exception outside of the merge loop: the process ends or the call does.
LEMMA LateRaise ==
  ASSUME PcType, LockInv, LateCursor, LateLoop, NEW t \in Tasks, pc[t] \in SyncPcs \ {"merge"},
         Raise(t), UNCHANGED mmaps
  PROVE  LateCursor' /\ LateLoop'
<1>1. CASE Halt
  BY <1>1, LateNobody DEF Halt, Up, Tasks, LoopPcs
<1>2. CASE ~Halt
  <2>1. Return(t) /\ UNCHANGED <<applied, results, tx, lastDone, row>>
    BY <1>2 DEF Raise, mmaps, memory
  <2>2. QED
    BY <2>1, ReturnLoops, LateControl
<1>3. QED
  BY <1>1, <1>2

\* Into the loop of SyncResults, and from stage to stage of it.
LEMMA LateInLoop ==
  ASSUME TypeInv, LockInv, LateTables, LateStores, LateCursor, LateLoop, NEW t \in Tasks,
         MarketSynced(t) \/ Sleep(t) \/ Digest(t) \/ StoreResult(t)
  PROVE  LateCursor' /\ LateLoop'
<1> USE DEF env, mmaps, memory, files, locks, locals
<1>0. PcType /\ LocalsType /\ StoresType
  BY DEF TypeInv, TypeOK
<1>1. pc[t] \in SyncPcs \ {"merge"} /\ Up /\ (\A u \in Tasks : pc[u] # "merge")
      /\ \A u \in Tasks : u # t => pc[u] \notin LoopPcs
  <2>1. pc[t] \in SyncPcs \ {"merge"}
    BY DEF MarketSynced, Sleep, Digest, StoreResult, SyncPcs
  <2>2. QED
    BY <1>0, <2>1, Alone DEF SyncPcs, LoopPcs
<1>2. \A n \in Blocks : n > lastDone => ~(applied[n] > 0)
  BY <1>1 DEF LateCursor
<1>3. CASE MarketSynced(t) /\ Timestamp2LastBlockN(known, clock) < lastDone + 1
  BY <1>0, <1>1, <1>3, ReturnLoops, LateControl DEF MarketSynced, Release
<1>4. ASSUME NEW q \in {"sleep", "digest", "calc"}, pc' = [pc EXCEPT ![t] = q],
             UNCHANGED <<applied, lastDone>>, cur'[t] = lastDone + 1
      PROVE  LateCursor' /\ LateLoop'
  <2>1. pc'[t] = q /\ \A u \in Tasks : u # t => pc'[u] = pc[u]
    BY <1>0, <1>4 DEF PcType
  <2>2. \A u \in Tasks : pc'[u] # "merge" /\ (pc'[u] \in LoopPcs => u = t)
    BY <1>1, <2>1
  <2>3. LateLoop'
    BY <1>4, <2>2 DEF LateLoop
  <2>4. LateCursor'
    BY <1>2, <1>4 DEF LateCursor
  <2>5. QED
    BY <2>3, <2>4
<1>5. CASE MarketSynced(t) /\ ~(Timestamp2LastBlockN(known, clock) < lastDone + 1)
  <2>1. pc' = [pc EXCEPT ![t] = "sleep"] /\ cur' = [cur EXCEPT ![t] = lastDone + 1]
        /\ UNCHANGED <<applied, lastDone>>
    BY <1>5 DEF MarketSynced
  <2>2. cur'[t] = lastDone + 1
    BY <1>0, <2>1 DEF LocalsType
  <2>3. QED
    BY <1>4, <2>1, <2>2
<1>6. CASE Sleep(t)
  BY <1>4, <1>6 DEF Sleep, LateLoop, LoopPcs
<1>7. CASE Digest(t)
  BY <1>4, <1>7 DEF Digest, LateLoop, LoopPcs
<1>8. CASE StoreResult(t)
  <2> DEFINE c == cur[t]
  <2>1. /\ pc[t] \in LoopPcs /\ cur' = cur /\ tx[c] # Absent /\ results' = results \cup {c}
        /\ row' = 0 /\ pc' = [pc EXCEPT ![t] = "merge"] /\ UNCHANGED <<applied, lastDone, tx>>
    BY <1>8 DEF StoreResult, BlockLocated, SetRow, LoopPcs
  <2>2. c = lastDone + 1 /\ c \in Blocks
    BY <2>1 DEF LateLoop, TypeInv, LoopInRange
  <2>3. pc'[t] = "merge" /\ \A u \in Tasks : u # t => pc'[u] = pc[u]
    BY <1>0, <2>1 DEF PcType
  <2>4. applied[c] = 0
    <3>1. c > lastDone /\ applied[c] \in Nat
      BY <1>0, <2>2 DEF LocalsType, StoresType
    <3>2. QED
      BY <1>2, <2>2, <3>1
  <2>5. 0 <= MergeRows(c)
    BY <1>0, <2>1, <2>2 DEF MergeRows, StoresType, Table
  <2>6. LateCursor'
    BY <1>2, <2>1 DEF LateCursor
  <2>7. ASSUME NEW u \in Tasks, pc'[u] \in LoopPcs
        PROVE  /\ cur'[u] = lastDone' + 1 /\ cur'[u] \in results'
               /\ applied'[cur'[u]] = row' /\ row' <= MergeRows(cur[u])'
    <3>1. u = t
      BY <1>1, <2>3, <2>7
    <3>2. MergeRows(cur[u])' = MergeRows(c)
      BY <2>1, <3>1 DEF MergeRows
    <3>3. QED
      BY <2>1, <2>2, <2>4, <2>5, <3>1, <3>2
  <2>8. \A u \in Tasks : pc'[u] = "merge" => pc'[u] \in LoopPcs
    BY DEF LoopPcs
  <2>9. LateLoop'
    BY <2>7, <2>8 DEF LateLoop
  <2>10. QED
    BY <2>6, <2>9
<1>9. QED
  BY <1>3, <1>5, <1>6, <1>7, <1>8

LEMMA LateMergeRow ==
  ASSUME TypeInv, LateTables, LateCursor, LateLoop, NEW t \in Tasks, MergeRow(t)
  PROVE  LateCursor' /\ LateLoop'
<1> USE DEF memory, mmaps, locals
<1>1. /\ pc[t] = "merge" /\ row < MergeRows(cur[t]) /\ row' = row + 1
      /\ applied' = [applied EXCEPT ![cur[t]] = @ + 1]
      /\ UNCHANGED <<pc, cur, tx, results, lastDone>>
  BY DEF MergeRow
<1>2. /\ cur[t] \in Blocks /\ row \in Nat /\ MergeRows(cur[t]) \in Int
      /\ applied \in [Blocks -> Nat] /\ applied[cur[t]] = row
  BY <1>1, LateMerge
<1>3. applied'[cur[t]] = row + 1 /\ \A n \in Blocks : n # cur[t] => applied'[n] = applied[n]
  BY <1>1, <1>2
<1>4. LateCursor'
  BY <1>1, <1>3 DEF LateCursor, Up
<1>5. ASSUME NEW u \in Tasks, pc[u] = "merge"
      PROVE  applied'[cur[u]] = row' /\ row' <= MergeRows(cur[u])
  <2>1. cur[u] = cur[t]
    BY <1>1, <1>5 DEF LateLoop, LoopPcs
  <2>2. QED
    BY <1>1, <1>2, <1>3, <2>1
<1>6. LateLoop'
  BY <1>1, <1>5 DEF LateLoop, MergeRows
<1>7. QED
  BY <1>4, <1>6

LEMMA LateMergeDone ==
  ASSUME TypeInv, LockInv, LateCursor, LateLoop, NEW t \in Tasks, MergeDone(t)
  PROVE  LateCursor' /\ LateLoop'
<1> USE DEF memory, mmaps
<1> DEFINE c == cur[t]
<1>0. PcType /\ LocalsType /\ c \in Blocks /\ c = lastDone + 1
  BY DEF TypeInv, TypeOK, LoopInRange, LateLoop, MergeDone, LoopPcs
<1>1. pc[t] = "merge" /\ lastDone' = c /\ applied' = applied
  BY DEF MergeDone, CursorAfter
<1>2. Up /\ \A u \in Tasks : u # t => pc[u] \notin SyncPcs /\ pc[u] \notin LoopPcs
  BY <1>0, <1>1, Alone DEF SyncPcs, LoopPcs
<1>3. ASSUME NEW n \in Blocks, n > c PROVE ~(applied[n] > 0)
  <2>1. n > lastDone /\ n # c
    BY <1>0, <1>3, TsAssumption DEF LocalsType, Blocks
  <2>2. ~\E u \in Tasks : pc[u] = "merge" /\ cur[u] = n
    BY <1>2, <2>1 DEF LoopPcs
  <2>3. QED
    BY <1>2, <2>1, <2>2 DEF LateCursor
<1>4. LateCursor'
  BY <1>1, <1>3 DEF LateCursor
<1>5. (\A u \in Tasks : pc'[u] # "merge")
      /\ (\A u \in Tasks : pc'[u] \in LoopPcs => cur'[u] = c + 1)
  <2>1. CASE c < to[t]
    <3>1. pc' = [pc EXCEPT ![t] = "digest"] /\ cur' = [cur EXCEPT ![t] = c + 1]
      BY <2>1 DEF MergeDone
    <3>2. QED
      BY <1>0, <1>2, <3>1 DEF PcType, LocalsType, SyncPcs
  <2>2. CASE ~(c < to[t])
    <3>1. Return(t)
      BY <2>2 DEF MergeDone, Release
    <3>2. CASE t = "main"
      BY <1>0, <1>2, <3>1, <3>2 DEF Return, PcType, Tasks, SyncPcs, LoopPcs
    <3>3. CASE t = "listener"
      BY <1>0, <1>2, <3>1, <3>3 DEF Return, PcType, Tasks, SyncPcs, LoopPcs
    <3>4. QED
      BY <3>2, <3>3 DEF Tasks
  <2>3. QED
    BY <2>1, <2>2
<1>6. LateLoop'
  BY <1>1, <1>5 DEF LateLoop
<1>7. QED
  BY <1>4, <1>6

LEMMA LateSaving ==
  ASSUME PcType, LocalsType, LockInv, LateCursor, LateLoop, SaveStep
  PROVE  LateCursor' /\ LateLoop'
<1> USE DEF memory, mmaps, locals
<1>1. /\ UNCHANGED <<applied, results, tx, lastDone, row, to>> /\ pc["main"] \in SavePcs
      /\ \E q \in SavePcs \cup {"repl"} : pc' = [pc EXCEPT !["main"] = q]
      /\ cur' = cur \/ cur' = [cur EXCEPT !["main"] = 0]
  BY DEF SaveStep, SaveStore, SaveAddress, SaveResults, SaveIds, SaveLog, SaveTx, SaveBalance,
       SavePcs
<1>2. PICK q \in SavePcs \cup {"repl"} : pc' = [pc EXCEPT !["main"] = q]
  BY <1>1
<1>3. pc["main"] \notin {"merge", "down"} /\ q \notin LoopPcs \cup {"off", "down"} /\ "main" \in Tasks
  BY <1>1 DEF SavePcs, LoopPcs, Tasks
<1>4. \A u \in Tasks : u # "main" => cur'[u] = cur[u]
  BY <1>1 DEF LocalsType
<1>5. LoopsStay /\ (Up' => Up)
  BY <1>1, <1>2, <1>3, <1>4, OutsideLoops
<1>6. QED
  BY <1>1, <1>5, LateControl

\* Whatever runs beside a save leaves its place and its folder alone, unless the
\* process ends.
LEMMA BesideSave ==
  ASSUME TypeInv, LockInv, pc["main"] \in SavePcs, Next, ~SaveStep
  PROVE  \/ Halt
         \/ /\ pc'["main"] = pc["main"] /\ cur'["main"] = cur["main"]
            /\ snap' = snap /\ results \subseteq results'
<1> USE DEF mmaps, files, locals
<1>0. PcType /\ LocalsType
  BY DEF TypeInv, TypeOK
<1>1. Up /\ pc["main"] \notin SyncPcs \cup {"down", "repl"}
  BY DEF Up, SavePcs, SyncPcs
<1>2. ~Start /\ ~OperatorSync /\ ~EmergencyStop /\ ~SaveBegins /\ \A id \in Blocks : ~Deploy(id)
  BY <1>1 DEF Start, OperatorSync, EmergencyStop, SaveBegins, Deploy
<1>3. snap' = snap
  BY FolderSteps
<1>4. results \subseteq results'
  <2>1. ASSUME NEW t \in Tasks, StoreResult(t) PROVE results \subseteq results'
    BY <2>1 DEF StoreResult, SetRow
  <2>2. QED
    BY <1>2, <2>1, ResultSteps
<1>5. CASE NewBlock \/ Tick \/ Connect \/ \E n \in Blocks : CollectCoin(n)
  BY <1>3, <1>4, <1>5 DEF NewBlock, Tick, Connect, CollectCoin
<1>6. CASE ListenerChecks
  BY <1>0, <1>3, <1>4, <1>6 DEF ListenerChecks, PcType, Tasks
<1>7. ASSUME Return("listener") PROVE pc'["main"] = pc["main"] /\ cur'["main"] = cur["main"]
  BY <1>0, <1>7 DEF Return, PcType, LocalsType, Tasks
<1>8. ASSUME NEW q, pc' = [pc EXCEPT !["listener"] = q] PROVE pc'["main"] = pc["main"]
  BY <1>0, <1>8 DEF PcType, Tasks
<1>9. CASE TcpTrigger
  BY <1>3, <1>4, <1>7, <1>8, <1>9 DEF TcpTrigger, SyncBegins
<1>10. ASSUME NEW t \in Tasks, SyncStep(t)
       PROVE  Halt \/ (pc'["main"] = pc["main"] /\ cur'["main"] = cur["main"])
  <2>1. t = "listener"
    <3>1. pc[t] \in SyncPcs
      BY <1>10 DEF SyncStep, SyncBlockInfo, MarketSynced, MarketFails, Sleep, Digest, DigestRaises,
           StoreResult, StoreRaises, CallRaises, MergeRow, MergeDone, SyncPcs
    <3>2. QED
      BY <1>1, <3>1 DEF Tasks
  <2>2. \A v : cur' = [cur EXCEPT !["listener"] = v] => cur'["main"] = cur["main"]
    BY <1>0 DEF LocalsType, Tasks
  <2>3. CASE DigestRaises(t) \/ StoreRaises(t) \/ CallRaises(t)
    BY <1>7, <2>1, <2>3 DEF DigestRaises, StoreRaises, CallRaises, Raise
  <2>4. CASE SyncBlockInfo(t) \/ MarketSynced(t) \/ MarketFails(t) \/ Sleep(t)
    BY <1>7, <1>8, <2>1, <2>2, <2>4 DEF SyncBlockInfo, MarketSynced, MarketFails, Sleep, Release
  <2>5. CASE Digest(t) \/ StoreResult(t) \/ MergeRow(t) \/ MergeDone(t)
    BY <1>7, <1>8, <2>1, <2>2, <2>5 DEF Digest, StoreResult, MergeRow, MergeDone, Release
  <2>6. QED
    BY <1>10, <2>3, <2>4, <2>5 DEF SyncStep
<1>11. CASE Crash
  BY <1>11 DEF Crash
<1>12. QED
  BY <1>2, <1>3, <1>4, <1>5, <1>6, <1>9, <1>10, <1>11 DEF Next

LEMMA LateSaveStep ==
  ASSUME TypeInv, LockInv, LateStores, LateSave, Next
  PROVE  LateSave'
<1> USE DEF mmaps
<1> DEFINE c == cur["main"]
           s == snap[c]
<1>0. PcType /\ snap \in [Blocks -> SnapshotType]
  BY DEF TypeInv, TypeOK, StoresType
<1>1. CASE pc'["main"] \notin SavePcs \ {"saveAddress"}
  BY <1>1 DEF LateSave, SavePcs
<1>2. CASE pc["main"] \notin SavePcs
  <2>1. CASE SaveBegins
    <3>1. pc' = [pc EXCEPT !["main"] = "saveAddress"] \/ pc' = pc
      BY <2>1 DEF SaveBegins
    <3>2. pc'["main"] \notin SavePcs \ {"saveAddress"}
      BY <1>0, <1>2, <3>1 DEF PcType, Tasks
    <3>3. QED
      BY <1>1, <3>2
  <2>2. CASE ~SaveBegins
    BY <1>0, <1>1, <1>2, <2>2, NoSaveStarts
  <2>3. QED
    BY <2>1, <2>2
<1>3. CASE pc["main"] \in SavePcs /\ ~SaveStep
  <2>1. CASE Halt
    BY <1>1, <2>1 DEF Halt, SavePcs, Tasks
  <2>2. CASE ~Halt
    <3>1. /\ pc'["main"] = pc["main"] /\ cur'["main"] = c
          /\ snap' = snap /\ results \subseteq results'
      BY <1>3, <2>2, BesideSave
    <3>2. \A addr : ResultsCover(addr, results) => ResultsCover(addr, results')
      BY <3>1 DEF ResultsCover
    <3>3. QED
      BY <3>1, <3>2 DEF LateSave, ResultsCover, Whole
  <2>3. QED
    BY <2>1, <2>2
<1>4. CASE SaveStep
  <2>1. \A q : pc' = [pc EXCEPT !["main"] = q] => pc'["main"] = q
    BY <1>0 DEF PcType, Tasks
  <2>2. c \in Blocks => s \in SnapshotType /\ \A r : snap' = [snap EXCEPT ![c] = r] => snap'[c] = r
    BY <1>0
  <2>3. CASE SaveAddress
    <3> DEFINE r == [s EXCEPT !.addr = applied, !.done = FALSE]
    <3>1. pc'["main"] = "saveResults" /\ cur' = cur /\ results' = results
          /\ snap' = [snap EXCEPT ![c] = r]
      BY <2>1, <2>3 DEF SaveAddress, locals
    <3>2. c \in Blocks => snap'[c].addr = applied /\ ~snap'[c].done
      BY <2>2, <3>1 DEF SnapshotType
    <3>3. QED
      BY <3>1, <3>2 DEF LateSave, LateStores, ResultsCover, Whole
  <2>4. CASE SaveResults
    <3> DEFINE r == [s EXCEPT !.res = results]
    <3>1. pc'["main"] = "saveIds" /\ cur' = cur /\ pc["main"] = "saveResults"
          /\ snap' = [snap EXCEPT ![c] = r]
      BY <2>1, <2>4 DEF SaveResults, SaveStore, locals
    <3>2. c \in Blocks => ~s.done /\ ResultsCover(s.addr, results)
      BY <3>1 DEF LateSave, SavePcs
    <3>3. c \in Blocks => snap'[c].addr = s.addr /\ snap'[c].res = results /\ ~snap'[c].done
      <4>1. ASSUME c \in Blocks PROVE s \in SnapshotType /\ snap'[c] = r
        BY <2>2, <3>1, <4>1
      <4>2. ASSUME s \in SnapshotType PROVE r.addr = s.addr /\ r.res = results /\ r.done = s.done
        BY <4>2 DEF SnapshotType
      <4>3. QED
        BY <3>2, <4>1, <4>2
    <3>4. QED
      BY <3>1, <3>2, <3>3 DEF LateSave, ResultsCover, Whole
  <2>5. ASSUME NEW q \in {"saveLog", "saveTx", "saveBalance"}, pc'["main"] = q, cur' = cur,
               pc["main"] \in {"saveIds", "saveLog", "saveTx"},
               NEW r, snap' = [snap EXCEPT ![c] = r],
               c \in Blocks => r.addr = s.addr /\ r.res = s.res /\ r.done = s.done
        PROVE  LateSave'
    <3>1. c \in Blocks => ~s.done /\ ResultsCover(s.addr, s.res)
      BY <2>5 DEF LateSave, SavePcs
    <3>2. c \in Blocks => snap'[c].addr = s.addr /\ snap'[c].res = s.res /\ ~snap'[c].done
      BY <2>2, <2>5, <3>1
    <3>3. QED
      BY <2>5, <3>1, <3>2 DEF LateSave, ResultsCover, Whole
  <2>6. CASE SaveIds
    <3> DEFINE r == [s EXCEPT !.ids = ids]
    <3>1. pc'["main"] = "saveLog" /\ cur' = cur /\ pc["main"] = "saveIds"
          /\ snap' = [snap EXCEPT ![c] = r]
      BY <2>1, <2>6 DEF SaveIds, SaveStore, locals
    <3>2. c \in Blocks => r.addr = s.addr /\ r.res = s.res /\ r.done = s.done
      BY <2>2 DEF SnapshotType
    <3>3. QED
      BY <2>5, <3>1, <3>2
  <2>7. CASE SaveLog /\ s.log
    BY <1>1, <2>1, <2>7 DEF SaveLog, SavePcs
  <2>8. CASE SaveLog /\ ~s.log
    <3> DEFINE r == [s EXCEPT !.log = TRUE]
    <3>1. pc'["main"] = "saveTx" /\ cur' = cur /\ pc["main"] = "saveLog"
          /\ snap' = [snap EXCEPT ![c] = r]
      BY <2>1, <2>8 DEF SaveLog
    <3>2. c \in Blocks => r.addr = s.addr /\ r.res = s.res /\ r.done = s.done
      BY <2>2 DEF SnapshotType
    <3>3. QED
      BY <2>5, <3>1, <3>2
  <2>9. CASE SaveTx
    <3> DEFINE r == [s EXCEPT !.tx = tx]
    <3>1. pc'["main"] = "saveBalance" /\ cur' = cur /\ pc["main"] = "saveTx"
          /\ snap' = [snap EXCEPT ![c] = r]
      BY <2>1, <2>9 DEF SaveTx, SaveStore, locals
    <3>2. c \in Blocks => r.addr = s.addr /\ r.res = s.res /\ r.done = s.done
      BY <2>2 DEF SnapshotType
    <3>3. QED
      BY <2>5, <3>1, <3>2
  <2>10. CASE SaveBalance
    BY <1>1, <2>1, <2>10 DEF SaveBalance, SavePcs
  <2>11. QED
    BY <1>4, <2>3, <2>4, <2>6, <2>7, <2>8, <2>9, <2>10 DEF SaveStep
<1>5. QED
  BY <1>2, <1>3, <1>4

LEMMA LateInit == Init => LateInv
<1> SUFFICES ASSUME Init PROVE LateInv
  OBVIOUS
<1> USE PipelineAssumption, TsAssumption DEF Blocks
<1>1. pc["main"] = "down" /\ cur["main"] = 0 /\ \A t \in Tasks : pc[t] \notin LoopPcs
  BY DEF Init, Tasks, LoopPcs
<1>2. \A n \in Blocks : coins[n] <= Coins[n]
  BY DEF Init
<1>3. PartOfBlocks(tx) /\ disk.tx = tx
  BY DEF Init, PartOfBlocks
<1>4. \A id \in Blocks : snap[id] = NoSnapshot
  BY DEF Init
<1>5. PartOfBlocks(NoSnapshot.tx) /\ ~NoSnapshot.done
  BY DEF NoSnapshot, PartOfBlocks
<1>6. ResultsCover(applied, results)
  BY DEF Init, ResultsCover, Whole
<1>7. LateTables /\ LateStores
  BY <1>2, <1>3, <1>4, <1>5, <1>6 DEF LateTables, LateStores
<1>8. LateCursor /\ LateLoop
  BY <1>1 DEF LateCursor, LateLoop, Up, LoopPcs
<1>9. LateSave
  BY <1>1 DEF LateSave
<1>10. QED
  BY <1>7, <1>8, <1>9 DEF LateInv

LEMMA LateLoopStep ==
  ASSUME TypeInv, LockInv, LateInv, Next
  PROVE  LateCursor' /\ LateLoop'
<1>0. /\ TypeOK /\ PcType /\ LocalsType
      /\ LateTables /\ LateStores /\ LateCursor /\ LateLoop
  BY DEF TypeInv, TypeOK, LateInv
<1>1. CASE \/ NewBlock \/ Tick \/ Connect \/ EmergencyStop \/ ListenerChecks
           \/ \E n \in Blocks : CollectCoin(n)
           \/ OperatorSync \/ TcpTrigger \/ SaveBegins
           \/ \E t \in Tasks : SyncBlockInfo(t) \/ MarketFails(t)
  BY <1>0, <1>1, LateOutside
<1>2. CASE Start
  BY <1>0, <1>2, LateStart
<1>3. ASSUME NEW t \in Tasks, SyncStep(t) PROVE LateCursor' /\ LateLoop'
  <2>1. CASE SyncBlockInfo(t) \/ MarketFails(t)
    BY <1>1, <2>1
  <2>2. CASE MarketSynced(t) \/ Sleep(t) \/ Digest(t) \/ StoreResult(t)
    BY <1>0, <2>2, LateInLoop
  <2>3. CASE DigestRaises(t) \/ StoreRaises(t) \/ CallRaises(t)
    <3>1. pc[t] \in SyncPcs \ {"merge"} /\ Raise(t) /\ UNCHANGED mmaps
      BY <2>3 DEF DigestRaises, StoreRaises, CallRaises, SyncPcs
    <3>2. QED
      BY <1>0, <3>1, LateRaise
  <2>4. CASE MergeRow(t) \/ MergeDone(t)
    BY <1>0, <2>4, LateMergeRow, LateMergeDone
  <2>5. QED
    BY <1>3, <2>1, <2>2, <2>3, <2>4 DEF SyncStep
<1>4. CASE SaveStep
  BY <1>0, <1>4, LateSaving
<1>5. CASE Crash
  BY <1>5, LateNobody DEF Crash, Halt, Up, Tasks, LoopPcs
<1>6. CASE \E id \in Blocks : Deploy(id)
  <2>1. ~Up /\ pc' = pc
    BY <1>6 DEF Deploy
  <2>2. \A u \in Tasks : pc[u] \notin SyncPcs
    BY <1>0, <2>1, Alone
  <2>3. QED
    BY <2>1, <2>2, LateNobody DEF Up, SyncPcs, LoopPcs
<1>7. QED
  BY <1>1, <1>2, <1>3, <1>4, <1>5, <1>6 DEF Next

LEMMA LateStep == TypeInv /\ LockInv /\ LateInv /\ [Next]_vars => LateInv'
<1> SUFFICES ASSUME TypeInv, LockInv, LateInv, [Next]_vars PROVE LateInv'
  OBVIOUS
<1>1. CASE UNCHANGED vars
  <2>1. UNCHANGED <<coins, applied, results, tx, disk, snap, lastDone, pc, cur, row>>
    BY <1>1 DEF vars, env, mmaps, memory, files, locals
  <2>2. LateTables' /\ LateStores'
    BY <2>1 DEF LateInv, LateTables, LateStores, PartOfBlocks, ResultsCover, Whole
  <2>3. LateCursor' /\ LateLoop'
    BY <2>1 DEF LateInv, LateCursor, LateLoop, Up, MergeRows
  <2>4. LateSave'
    BY <2>1 DEF LateInv, LateSave, ResultsCover, Whole
  <2>5. QED
    BY <2>2, <2>3, <2>4 DEF LateInv
<1>2. CASE Next
  BY <1>2, LateTablesStep, LateStoresStep, LateLoopStep, LateSaveStep
     DEF LateInv, TypeInv, TypeOK
<1>3. QED
  BY <1>1, <1>2

LEMMA LateInvariant == Spec => [](TypeInv /\ LockInv /\ LateInv)
<1>1. Init => TypeInv /\ LockInv /\ LateInv
  BY TypeInit, LockInit, LateInit
<1>2. TypeInv /\ LockInv /\ LateInv /\ [Next]_vars => (TypeInv /\ LockInv /\ LateInv)'
  BY TypeStep, LockStep, LateStep
<1>3. QED
  BY <1>1, <1>2, PTL DEF Spec

\* No restart, no repeated call and no restored snapshot makes
\* MergeBlock2AddressState count a coin a second time, even if bitcore has only
\* part of a block when it is digested or a save runs beside a sync.
THEOREM LedgerOnce == Spec => []MergedOnce
<1>1. LateInv => MergedOnce
  BY DEF LateInv, LateStores, ResultsCover, MergedOnce
<1>2. QED
  BY <1>1, LateInvariant, PTL

\* The result row of a block is stored before the first of its coins reaches
\* the address state, so results are always computed from the state before.
THEOREM LedgerResultFirst == Spec => []ResultFirst
<1>1. LateInv => ResultFirst
  BY DEF LateInv, LateStores, ResultsCover, ResultFirst
<1>2. QED
  BY <1>1, LateInvariant, PTL

\* While the service runs, the address state moves only at the block after
\* LastDoneBlock, and only by the task that holds the lock.
THEOREM LedgerMoves == Spec => OnlyNextBlockMoves
<1> DEFINE NextMoves == Up => \A n \in Blocks : applied'[n] # applied[n] =>
             n = lastDone + 1 /\ synchronizing /\ \E t \in Syncing : cur[t] = n
<1>1. TypeInv /\ LockInv /\ LateInv /\ [Next]_vars => [NextMoves]_vars
  <2> SUFFICES ASSUME TypeInv, LockInv, LateInv, Next PROVE NextMoves
    OBVIOUS
  <2>1. ASSUME NEW t \in Tasks, MergeRow(t) PROVE NextMoves
    <3>1. pc[t] = "merge" /\ pc[t] \in LoopPcs /\ t \in Syncing
      BY <2>1 DEF MergeRow, LoopPcs, Syncing, SyncPcs
    <3>2. /\ synchronizing /\ cur[t] = lastDone + 1 /\ cur[t] \in Blocks
          /\ applied \in [Blocks -> Nat]
      BY <3>1 DEF LockInv, Syncing, LateInv, LateLoop, TypeInv, TypeOK, StoresType, LoopInRange
    <3>3. \A n \in Blocks : n # cur[t] => applied'[n] = applied[n]
      BY <2>1, <3>2 DEF MergeRow
    <3>4. QED
      BY <3>1, <3>2, <3>3
  <2>2. CASE applied' = applied
    BY <2>2
  <2>3. CASE \E id \in Blocks : Deploy(id)
    BY <2>3 DEF Deploy
  <2>4. QED
    BY <2>1, <2>2, <2>3, AppliedSteps
<1>2. QED
  BY <1>1, LateInvariant, PTL DEF Spec, OnlyNextBlockMoves

-----------------------------------------------------------------------------
(* The pipeline implements the abstract ledger.                               *)

LEMMA PrefixIs ==
  ASSUME NEW addr, NEW res \in SUBSET Blocks, NEW n \in Entered(addr, res),
         \A k \in Entered(addr, res) : k <= n
  PROVE  Prefix(addr, res) = n
<1> DEFINE S == {0} \cup Entered(addr, res)
<1>0. Entered(addr, res) \in SUBSET Nat
  <2>1. Blocks \in SUBSET Nat
    BY TsAssumption DEF Blocks
  <2>2. \A k \in Entered(addr, res) : k \in res
    BY DEF Entered
  <2>3. QED
    BY <2>1, <2>2
<1>1. n \in S /\ n \in Nat /\ S \in SUBSET Nat /\ \A k \in S : k <= n
  BY <1>0
<1>2. Max(S) \in S /\ n <= Max(S)
  BY <1>1, MaxOfNats
<1>3. QED
  BY <1>1, <1>2 DEF Prefix

LEMMA LedgerStarts == Init => Ledger!Init
<1> SUFFICES ASSUME Init PROVE Merged = Base /\ Saved = {}
  BY DEF Ledger!Init
<1> USE TsAssumption, PipelineAssumption DEF Blocks
<1>1. results = 1 .. Base /\ results \in SUBSET Blocks
      /\ \A m \in 1 .. Base : applied[m] = Whole(m)
  BY DEF Init
<1>2. Base \in Entered(applied, results) /\ \A k \in Entered(applied, results) : k <= Base
  BY <1>1 DEF Entered
<1>3. Merged = Base
  BY <1>1, <1>2, PrefixIs DEF Merged
<1>4. Saved = {}
  BY DEF Init, NoSnapshot, Saved
<1>5. QED
  BY <1>3, <1>4

\* From its result to its last row, the block after the cursor is the one that
\* enters the ledger next.
LEMMA EnteredBefore ==
  ASSUME FullInv, Gapless(results), NEW t \in Tasks, pc[t] \in {"calc", "merge"},
         cur[t] \notin results \/ applied[cur[t]] # Whole(cur[t])
  PROVE  /\ lastDone \in Entered(applied, results)
         /\ \A k \in Entered(applied, results) : k <= lastDone
         /\ \A k \in results : k <= cur[t]
         /\ \A m \in Blocks : m < cur[t] => applied[m] = Whole(m)
<1> DEFINE c == cur[t]
<1>1. pc[t] \in LoopPcs
  BY DEF LoopPcs
<1>2. lastDone \in Blocks /\ c \in Blocks /\ c = lastDone + 1 /\ LedgerInv /\ Up /\ StoresType
  BY <1>1, InLoop
<1>3. lastDone \in Nat /\ lastDone \in results /\ tx[lastDone] # Absent /\ results \subseteq Blocks
  BY <1>2, TsAssumption, SMTT(30) DEF LedgerInv, GoodCursor, GoodLoop, Blocks, StoresType
<1>4. ASSUME NEW m \in Blocks, m < c PROVE applied[m] = Whole(m)
  <2>1. m <= lastDone /\ lastDone <= lastDone /\ lastDone \in Int
    BY <1>2, <1>3, <1>4, TsAssumption DEF Blocks
  <2>2. QED
    BY <1>2, <1>3, <2>1, MergedBelow DEF LedgerInv
<1>5. lastDone \in Entered(applied, results)
  <2>1. \A m \in 1 .. lastDone : m \in Blocks /\ m < c
    BY <1>2, <1>3, TsAssumption DEF Blocks
  <2>2. QED
    BY <1>3, <1>4, <2>1 DEF Entered
<1>6. ASSUME NEW k \in results, k > c PROVE FALSE
  <2>1. c \in results
    BY <1>2, <1>6 DEF Gapless
  <2>2. applied[c] = Whole(c)
    BY <1>2, <1>3, <1>6 DEF LedgerInv, GoodLedger
  <2>3. QED
    BY <2>1, <2>2
<1>7. \A k \in results : k <= c
  BY <1>2, <1>3, <1>6, TsAssumption DEF Blocks
<1>8. c \notin Entered(applied, results)
  BY <1>2, TsAssumption DEF Entered, Blocks
<1>9. \A k \in Entered(applied, results) : k <= lastDone
  BY <1>2, <1>3, <1>7, <1>8, TsAssumption DEF Entered, Blocks
<1>10. QED
  BY <1>4, <1>5, <1>7, <1>9

\* A step that makes the block after the cursor complete adds it to the ledger;
\* one that does not leaves the ledger as it is.
LEMMA EntersOrStays ==
  ASSUME FullInv, Gapless(results), NEW t \in Tasks, pc[t] \in {"calc", "merge"},
         cur[t] \notin results \/ applied[cur[t]] # Whole(cur[t]),
         results' = results \cup {cur[t]},
         \A m \in Blocks : m # cur[t] => applied'[m] = applied[m]
  PROVE  Merged' = Merged \/ (Merged < N /\ Merged' = Merged + 1)
<1> DEFINE c == cur[t]
           E == Entered(applied, results)
           F == Entered(applied', results')
<1>1. lastDone \in Blocks /\ c \in Blocks /\ c = lastDone + 1 /\ results \in SUBSET Blocks
  BY InLoop DEF LoopPcs, StoresType
<1>2. /\ lastDone \in E /\ \A k \in E : k <= lastDone
      /\ \A k \in results : k <= c
      /\ \A m \in Blocks : m < c => applied[m] = Whole(m)
  BY EnteredBefore
<1>3. lastDone \in Nat /\ c \in Nat /\ c <= N /\ results' \in SUBSET Blocks
  BY <1>1, TsAssumption DEF Blocks
<1>4. Merged = lastDone
  BY <1>1, <1>2, PrefixIs DEF Merged
<1>5. ASSUME NEW m \in Blocks, m < c PROVE applied'[m] = Whole(m)
  BY <1>1, <1>2, <1>3, <1>5, TsAssumption DEF Blocks
<1>6. lastDone \in F
  <2>1. \A m \in 1 .. lastDone : m \in Blocks /\ m < c
    BY <1>1, <1>3, TsAssumption DEF Blocks
  <2>2. lastDone \in results
    BY <1>2 DEF Entered
  <2>3. QED
    BY <1>5, <2>1, <2>2 DEF Entered
<1>7. Merged' = Prefix(applied', results')
  BY DEF Merged, Prefix, Entered, Whole
<1>8. CASE applied'[c] = Whole(c)
  <2>1. \A m \in 1 .. c : m \in Blocks /\ (m = c \/ m < c)
    BY <1>1, <1>3, TsAssumption DEF Blocks
  <2>2. c \in F
    BY <1>5, <1>8, <2>1 DEF Entered
  <2>3. \A k \in F : k <= c
    BY <1>2, <1>3 DEF Entered
  <2>4. Merged' = c
    BY <1>3, <1>7, <2>2, <2>3, PrefixIs
  <2>5. QED
    BY <1>1, <1>3, <1>4, <2>4, TsAssumption
<1>9. CASE applied'[c] # Whole(c)
  <2>1. c \notin F
    BY <1>1, <1>3, <1>9 DEF Entered
  <2>2. \A k \in F : k \in results' /\ k # c
    BY <2>1 DEF Entered
  <2>3. \A k \in F : k <= c /\ k \in Nat
    BY <1>2, <1>3, <2>2, TsAssumption DEF Blocks
  <2>4. ASSUME NEW k \in F PROVE k <= lastDone
    <3>1. k <= c /\ k # c /\ k \in Nat
      BY <2>2, <2>3
    <3>2. QED
      BY <1>1, <1>3, <3>1
  <2>5. Merged' = lastDone
    BY <1>3, <1>6, <1>7, <2>4, PrefixIs
  <2>6. QED
    BY <1>4, <2>5
<1>10. QED
  BY <1>8, <1>9

\* What a save does to the prefixes that can be put back.
LEMMA SaveRefines ==
  ASSUME FullInv, SaveStep
  PROVE  Saved' = Saved \cup {Merged} \/ Saved' \in SUBSET Saved
<1> DEFINE c == cur["main"]
           P(s) == Prefix(s.addr, s.res)
           Done == {i \in Blocks : snap[i].done}
<1>0. StoresType /\ GoodSave
  BY DEF FullInv, TypeInv, TypeOK, LedgerInv
<1>1. pc["main"] \in SavePcs
  BY DEF SaveStep, SaveStore, SaveAddress, SaveResults, SaveIds, SaveLog, SaveTx, SaveBalance, SavePcs
<1>2. c \in Blocks /\ snap[c] \in SnapshotType
  BY <1>0, <1>1 DEF GoodSave, StoresType
<1>3. Saved = {P(snap[i]) : i \in Done}
  BY DEF Saved
<1>4. Saved' = {P(snap'[i]) : i \in {j \in Blocks : snap'[j].done}}
  BY DEF Saved, Prefix, Entered, Whole
<1>5. ASSUME NEW r, snap' = [snap EXCEPT ![c] = r]
      PROVE  snap'[c] = r /\ \A i \in Blocks : i # c => snap'[i] = snap[i]
  BY <1>0, <1>2, <1>5 DEF StoresType
<1>6. ASSUME NEW r, snap' = [snap EXCEPT ![c] = r], ~r.done PROVE Saved' \in SUBSET Saved
  <2>1. ASSUME NEW i \in Blocks, snap'[i].done PROVE snap'[i] = snap[i]
    BY <1>5, <1>6, <2>1
  <2>2. ASSUME NEW i \in Blocks, snap'[i].done PROVE P(snap'[i]) \in Saved
    BY <1>3, <2>1, <2>2
  <2>3. QED
    BY <1>4, <2>2
<1>7. CASE SaveAddress
  <2> DEFINE r == [snap[c] EXCEPT !.addr = applied, !.done = FALSE]
  <2>1. ~r.done /\ snap' = [snap EXCEPT ![c] = r]
    BY <1>2, <1>7 DEF SaveAddress, SnapshotType
  <2>2. QED
    BY <1>6, <2>1
<1>8. CASE SaveResults \/ SaveIds \/ SaveLog \/ SaveTx
  <2>1. ~snap[c].done
    BY <1>0, <1>8 DEF SaveResults, SaveIds, SaveLog, SaveTx, SaveStore, GoodSave, SavePcs
  <2>2. \A v : ~[snap[c] EXCEPT !.res = v].done /\ ~[snap[c] EXCEPT !.ids = v].done
               /\ ~[snap[c] EXCEPT !.tx = v].done /\ ~[snap[c] EXCEPT !.log = v].done
    BY <1>2, <2>1 DEF SnapshotType
  <2>3. snap' = snap \/ \E v : \/ snap' = [snap EXCEPT ![c] = [snap[c] EXCEPT !.res = v]]
                               \/ snap' = [snap EXCEPT ![c] = [snap[c] EXCEPT !.ids = v]]
                               \/ snap' = [snap EXCEPT ![c] = [snap[c] EXCEPT !.tx = v]]
                               \/ snap' = [snap EXCEPT ![c] = [snap[c] EXCEPT !.log = v]]
    BY <1>8 DEF SaveResults, SaveIds, SaveLog, SaveTx, SaveStore
  <2>4. CASE snap' = snap
    BY <1>3, <1>4, <2>4
  <2>5. QED
    BY <1>6, <2>2, <2>3, <2>4
<1>9. CASE SaveBalance
  <2> DEFINE r == [snap[c] EXCEPT !.bal = bal, !.done = TRUE]
  <2>1. snap[c].addr = applied /\ snap[c].res = results /\ ~snap[c].done
    BY <1>0, <1>9 DEF SaveBalance, GoodSave, SavePcs
  <2>2. r.done /\ r.addr = applied /\ r.res = results
    BY <1>2, <2>1 DEF SnapshotType
  <2>3. snap'[c] = r /\ \A i \in Blocks : i # c => snap'[i] = snap[i]
    BY <1>5, <1>9 DEF SaveBalance
  <2>4. {j \in Blocks : snap'[j].done} = Done \cup {c} /\ c \notin Done
    BY <1>2, <2>1, <2>2, <2>3
  <2>5. P(snap'[c]) = Merged /\ \A i \in Done : snap'[i] = snap[i]
    BY <2>1, <2>2, <2>3 DEF Merged
  <2>6. Saved' = Saved \cup {Merged}
    BY <1>3, <1>4, <2>4, <2>5
  <2>7. QED
    BY <2>6
<1>10. QED
  BY <1>7, <1>8, <1>9 DEF SaveStep

LEMMA StepRefines ==
  ASSUME FullInv, Gapless(results), Next
  PROVE  [Ledger!Next]_<<Merged, Saved>>
<1>0. StoresType /\ PcType /\ LockInv /\ LedgerInv
  BY DEF FullInv, TypeInv, TypeOK
<1>1. CASE UNCHANGED <<applied, results>>
  <2>1. Merged' = Merged
    BY <1>1 DEF Merged, Prefix, Entered, Whole
  <2>2. CASE snap' = snap
    <3>1. Saved' = Saved
      BY <2>2 DEF Saved, Prefix, Entered, Whole
    <3>2. QED
      BY <2>1, <3>1
  <2>3. CASE SaveStep
    BY <2>1, <2>3, SaveRefines DEF Ledger!Next, Ledger!Save, Ledger!Spoil
  <2>4. QED
    BY <2>2, <2>3, FolderSteps
<1>2. ASSUME NEW id \in Blocks, Deploy(id) PROVE [Ledger!Next]_<<Merged, Saved>>
  <2>1. snap[id].done /\ applied' = snap[id].addr /\ results' = snap[id].res /\ snap' = snap
    BY <1>2 DEF Deploy
  <2>2. Saved' = Saved /\ Merged' = Prefix(snap[id].addr, snap[id].res)
    BY <2>1 DEF Saved, Merged, Prefix, Entered, Whole
  <2>3. Merged' \in Saved
    BY <2>1, <2>2 DEF Saved
  <2>4. QED
    BY <2>2, <2>3 DEF Ledger!Next, Ledger!Restore
<1>3. ASSUME NEW t \in Tasks, pc[t] \in {"calc", "merge"},
             cur[t] \notin results \/ applied[cur[t]] # Whole(cur[t]),
             results' = results \cup {cur[t]}, snap' = snap,
             \A m \in Blocks : m # cur[t] => applied'[m] = applied[m]
      PROVE  [Ledger!Next]_<<Merged, Saved>>
  <2>1. Saved' = Saved
    BY <1>3 DEF Saved, Prefix, Entered, Whole
  <2>2. Merged' = Merged \/ (Merged < N /\ Merged' = Merged + 1)
    BY <1>3, EntersOrStays
  <2>3. QED
    BY <2>1, <2>2 DEF Ledger!Next, Ledger!Apply
<1>4. ASSUME NEW t \in Tasks, StoreResult(t) PROVE [Ledger!Next]_<<Merged, Saved>>
  <2>1. /\ pc[t] = "calc" /\ results' = results \cup {cur[t]}
        /\ applied' = applied /\ snap' = snap
    BY <1>4 DEF StoreResult, SetRow, files
  <2>2. CASE cur[t] \in results
    <3>1. results' = results
      BY <2>1, <2>2
    <3>2. QED
      BY <1>1, <2>1, <3>1
  <2>3. CASE cur[t] \notin results
    BY <1>3, <2>1, <2>3
  <2>4. QED
    BY <2>2, <2>3
<1>5. ASSUME NEW t \in Tasks, MergeRow(t) PROVE [Ledger!Next]_<<Merged, Saved>>
  <2>1. /\ pc[t] = "merge" /\ row < MergeRows(cur[t])
        /\ applied' = [applied EXCEPT ![cur[t]] = @ + 1]
        /\ results' = results /\ snap' = snap
    BY <1>5 DEF MergeRow, files
  <2>2. /\ cur[t] \in results /\ applied[cur[t]] = row /\ row \in Nat
        /\ MergeRows(cur[t]) = Whole(cur[t]) /\ MergeRows(cur[t]) \in Nat
    BY <2>1, InMerge
  <2>3. applied[cur[t]] # Whole(cur[t]) /\ results' = results \cup {cur[t]}
    BY <2>1, <2>2
  <2>4. \A m \in Blocks : m # cur[t] => applied'[m] = applied[m]
    BY <1>0, <2>1 DEF StoresType
  <2>5. QED
    BY <1>3, <2>1, <2>3, <2>4
<1>6. QED
  BY <1>1, <1>2, <1>4, <1>5, AppliedSteps, ResultSteps

\* If bitcore completes every block within the sleeps and saves are made only
\* while no sync runs, the address state, with the results, behaves as the ledger
\* of BlockLedger: whatever the tasks, kills and exceptions do in between, what one sees is
\* blocks entering one at a time in order, and restored snapshots that take it
\* back to what it was when they were saved.
THEOREM PipelineImplementsLedger ==
  ASSUME Timely, SaveWhenIdle
  PROVE  Spec => LedgerSpec
<1>1. Init => Ledger!Init
  BY LedgerStarts
<1>2. FullInv /\ AgreeInv /\ ResultsInv /\ [Next]_vars => [Ledger!Next]_<<Merged, Saved>>
  <2>1. CASE UNCHANGED vars
    BY <2>1 DEF vars, mmaps, files, Merged, Saved, Prefix, Entered, Whole
  <2>2. QED
    BY <2>1, StepRefines DEF ResultsInv
<1>3. QED
  BY <1>1, <1>2, ResultsInvariant, PTL DEF Spec, LedgerSpec, Ledger!Spec
===============================================================================
