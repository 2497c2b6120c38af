--------------------------- MODULE PipelineProofs ---------------------------
(***************************************************************************)
(* Pipeline.tla for every chain, every number of crashes, saves and        *)
(* faults: the lookups of block timestamps it starts from, its types, the  *)
(* lock of SyncResults, what is left when the lock is never freed, and the *)
(* ledger.                                                                 *)
(***************************************************************************)
EXTENDS PipelineInv, DataLemmas

-----------------------------------------------------------------------------
(* What the lookups of service-block_timestamp.jl return, for every table of *)
(* the blocks 1 .. top.                                                      *)

\* Timestamp2LastBlockN finds a block of the table, or none.
LEMMA LastBlockType ==
  ASSUME NEW top \in 0 .. N, NEW ts \in Int
  PROVE  Timestamp2LastBlockN(top, ts) \in 0 .. top
<1> DEFINE upTo == {m \in 1 .. top : Ts[m] <= ts}
<1>1. CASE upTo = {}
  BY <1>1, TsAssumption DEF Timestamp2LastBlockN
<1>2. CASE upTo # {}
  <2>1. upTo \in SUBSET Nat /\ top \in Nat /\ \A m \in upTo : m <= top
    BY TsAssumption
  <2>2. Max(upTo) \in upTo
    BY <1>2, <2>1, MaxOfNats
  <2>3. QED
    BY <1>2, <2>2 DEF Timestamp2LastBlockN
<1>3. QED
  BY <1>1, <1>2

\* Looking up the second of block n never finds a block below n: a restart from
\* the address state's last second may skip blocks, it never repeats one.
THEOREM LastBlockNotBelow ==
  ASSUME NEW top \in 0 .. N, NEW n \in 1 .. top
  PROVE  n <= Timestamp2LastBlockN(top, BlockNum2Timestamp(n))
<1> DEFINE upTo == {m \in 1 .. top : Ts[m] <= Ts[n]}
<1>1. n \in upTo
  BY TsAssumption DEF Blocks
<1>2. upTo \in SUBSET Nat /\ top \in Nat /\ \A m \in upTo : m <= top
  BY TsAssumption
<1>3. n <= Max(upTo)
  BY <1>1, <1>2, MaxOfNats
<1>4. QED
  BY <1>1, <1>3 DEF Timestamp2LastBlockN, BlockNum2Timestamp

\* It finds exactly block n when no two blocks share a second; the proof shows
\* where the assumption is needed, and the code has nothing else to rely on.
THEOREM LastBlockExact ==
  ASSUME StrictTs, NEW top \in 0 .. N, NEW n \in 1 .. top
  PROVE  Timestamp2LastBlockN(top, BlockNum2Timestamp(n)) = n
<1> DEFINE upTo == {m \in 1 .. top : Ts[m] <= Ts[n]}
<1>1. n \in upTo /\ n \in Nat
  BY TsAssumption DEF Blocks
<1>2. ASSUME NEW m \in upTo PROVE m <= n
  <2>1. m \in Blocks /\ n \in Blocks /\ Ts[m] \in Nat /\ Ts[n] \in Nat
    BY <1>2, TsAssumption DEF Blocks
  <2>2. ~(n < m)
    BY <1>2, <2>1 DEF StrictTs
  <2>3. QED
    BY <2>1, <2>2 DEF Blocks
<1>3. upTo \in SUBSET Nat
  BY TsAssumption
<1>4. Max(upTo) \in upTo /\ n <= Max(upTo)
  BY <1>1, <1>2, <1>3, MaxOfNats
<1>5. Max(upTo) = n
  BY <1>1, <1>2, <1>3, <1>4
<1>6. QED
  BY <1>1, <1>5 DEF Timestamp2LastBlockN, BlockNum2Timestamp

\* The two lookups of one second enclose every block of that second, so a range
\* from the first to the last is never empty when the second has a block.
THEOREM RangeEncloses ==
  ASSUME NEW top \in 0 .. N, NEW n \in 1 .. top
  PROVE  n \in Timestamp2FirstBlockN(top, Ts[n]) .. Timestamp2LastBlockN(top, Ts[n])
<1> DEFINE from == {m \in 1 .. top : Ts[m] >= Ts[n]}
<1>1. n \in from /\ from \in SUBSET Nat
  BY TsAssumption DEF Blocks
<1>2. Min(from) \in Nat /\ Min(from) <= n
  BY <1>1, MinOfNats
<1>3. Timestamp2FirstBlockN(top, Ts[n]) = Min(from)
  BY <1>1 DEF Timestamp2FirstBlockN
<1>4. Timestamp2LastBlockN(top, Ts[n]) \in Nat
  <2>1. Ts[n] \in Int
    BY TsAssumption DEF Blocks
  <2>2. Timestamp2LastBlockN(top, Ts[n]) \in 0 .. top
    BY <2>1, LastBlockType
  <2>3. QED
    BY <2>2
<1>5. QED
  BY <1>2, <1>3, <1>4, LastBlockNotBelow, TsAssumption DEF BlockNum2Timestamp

-----------------------------------------------------------------------------
(* The values the stores report. *)

LEMMA LastProcessedType ==
  ASSUME TypeOK
  PROVE  LastProcessedBlock \in 0 .. N
<1> DEFINE active == {Ts[n] : n \in {m \in Blocks : applied[m] > 0}}
<1>1. active \in SUBSET Nat /\ Ts[N] \in Nat /\ \A s \in active : s <= Ts[N]
  BY TsAssumption DEF Blocks
<1>2. active # {} => Max(active) \in Nat
  BY <1>1, MaxOfNats
<1>3. GetLastProcessedTimestamp \in Int
  BY <1>2 DEF GetLastProcessedTimestamp
<1>4. known \in 0 .. N
  BY DEF TypeOK, StoresType, Blocks
<1>5. LastProcessedBlock \in 0 .. known
  BY <1>3, <1>4, LastBlockType DEF LastProcessedBlock
<1>6. QED
  BY <1>4, <1>5, TsAssumption

LEMMA LastResultsType ==
  ASSUME TypeOK
  PROVE  /\ GetLastResultsID \in 0 .. N
         /\ \A n \in results : n <= GetLastResultsID
<1>1. results \in SUBSET Nat /\ N \in Nat /\ \A n \in results : n <= N
  BY TsAssumption DEF TypeOK, StoresType, Blocks
<1>2. CASE results = {}
  BY <1>1, <1>2 DEF GetLastResultsID
<1>3. CASE results # {}
  <2>1. Max(results) \in results /\ \A n \in results : n <= Max(results)
    BY <1>1, <1>3, MaxOfNats
  <2>2. PICK m \in results : m = Max(results)
    BY <2>1
  <2>3. m \in 0 .. N
    BY <1>1
  <2>4. GetLastResultsID = m
    BY <1>3, <2>2 DEF GetLastResultsID
  <2>5. QED
    BY <2>1, <2>2, <2>3, <2>4
<1>4. QED
  BY <1>2, <1>3

-----------------------------------------------------------------------------
(* Types. *)

LEMMA TypeInit == Init => TypeInv
<1> SUFFICES ASSUME Init PROVE TypeInv
  OBVIOUS
<1> USE TsAssumption, PipelineAssumption DEF Init, Blocks, Absent, Table
<1>1. \A n \in Blocks : Whole(n) \in Nat
  BY DEF Whole
<1>2. Ts[Base] \in Nat
  OBVIOUS
<1>3. NoSnapshot \in SnapshotType
  BY DEF NoSnapshot, SnapshotType
<1>4. /\ tip \in Blocks /\ coins \in [Blocks -> Nat] /\ clock \in Nat
      /\ known \in Blocks /\ applied \in [Blocks -> Nat] /\ results \in SUBSET Blocks
      /\ tx \in Table /\ ids \in Nat /\ bal \in Nat
  BY <1>1, <1>2
<1>5. disk \in [tx : Table, ids : Nat, bal : Nat]
  BY <1>4
<1>6. snap \in [Blocks -> SnapshotType]
  BY <1>3
<1>7. PcType /\ pc["main"] = "down" /\ pc["listener"] = "off"
  BY DEF PcType, Tasks, MainPcs, ListenerPcs
<1>8. LocalsType /\ LocksType
  <2>1. cur \in [Tasks -> 0 .. N] /\ to \in [Tasks -> 0 .. N] /\ lastDone \in 0 .. N
    OBVIOUS
  <2>2. /\ synchronizing \in BOOLEAN /\ accepted \in BOOLEAN
        /\ stop \in BOOLEAN /\ pending \in BOOLEAN
    OBVIOUS
  <2>3. row \in Nat /\ crashes \in Nat /\ saves \in Nat /\ faults \in Nat
    OBVIOUS
  <2>4. QED
    BY <2>1, <2>2, <2>3 DEF LocalsType, LocksType
<1>9. TypeOK
  BY <1>4, <1>5, <1>6, <1>7, <1>8 DEF TypeOK, StoresType
<1>10. LoopInRange
  BY <1>7 DEF LoopInRange, LoopPcs, Tasks
<1>11. QED
  BY <1>9, <1>10 DEF TypeInv

\* One task moves to a point of SyncResults, or of its own code.
LEMMA PcMove ==
  ASSUME PcType, NEW t \in Tasks, NEW q,
         pc' = [pc EXCEPT ![t] = q],
         \/ q \in SyncPcs
         \/ t = "main" /\ q \in MainPcs
         \/ t = "listener" /\ q \in ListenerPcs
  PROVE  PcType'
  BY DEF PcType, Tasks, MainPcs, ListenerPcs

\* The locals survive a move that keeps them and does not enter the loop.
LEMMA LoopKept ==
  ASSUME LoopInRange,
         \A t \in Tasks : pc'[t] \in LoopPcs =>
           pc[t] \in LoopPcs /\ cur'[t] = cur[t] /\ to'[t] = to[t]
  PROVE  LoopInRange'
  BY DEF LoopInRange

LEMMA ReturnType ==
  ASSUME TypeInv, NEW t \in Tasks, Return(t)
  PROVE  /\ accepted' \in BOOLEAN
         /\ cur' \in [Tasks -> 0 .. N] /\ to' \in [Tasks -> 0 .. N]
         /\ PcType' /\ LoopInRange'
<1> USE TsAssumption DEF TypeInv, TypeOK, Return, Tasks
<1>1. accepted' \in BOOLEAN
  BY DEF LocksType
<1>2. cur' \in [Tasks -> 0 .. N] /\ to' \in [Tasks -> 0 .. N]
  BY DEF LocalsType
<1>3. PcType'
  <2>1. CASE t = "listener"
    BY <2>1 DEF PcType, MainPcs, ListenerPcs
  <2>2. CASE t = "main"
    BY <2>2 DEF PcType, MainPcs, ListenerPcs
  <2>3. QED
    BY <2>1, <2>2
<1>4. \A u \in Tasks : pc'[u] \in LoopPcs =>
        pc[u] \in LoopPcs /\ cur'[u] = cur[u] /\ to'[u] = to[u]
  <2>1. CASE t = "listener"
    BY <2>1 DEF PcType, LocalsType, LoopPcs
  <2>2. CASE t = "main"
    BY <2>2 DEF PcType, LocalsType, LoopPcs
  <2>3. QED
    BY <2>1, <2>2
<1>5. QED
  BY <1>1, <1>2, <1>3, <1>4, LoopKept

LEMMA HaltType ==
  ASSUME TypeInv, Halt
  PROVE  /\ tx' \in Table /\ ids' \in Nat /\ bal' \in Nat
         /\ lastDone' \in 0 .. N /\ row' \in Nat
         /\ synchronizing' \in BOOLEAN /\ accepted' \in BOOLEAN
         /\ stop' \in BOOLEAN /\ pending' \in BOOLEAN
         /\ cur' \in [Tasks -> 0 .. N] /\ to' \in [Tasks -> 0 .. N]
         /\ PcType' /\ LoopInRange'
<1>1. PcType' /\ LoopInRange'
  BY DEF Halt, PcType, LoopInRange, LoopPcs, Tasks, MainPcs, ListenerPcs
<1>2. tx' \in Table /\ ids' \in Nat /\ bal' \in Nat
  BY DEF Halt, TypeInv, TypeOK, StoresType
<1>3. /\ lastDone' \in 0 .. N /\ row' \in Nat
      /\ cur' \in [Tasks -> 0 .. N] /\ to' \in [Tasks -> 0 .. N]
  BY TsAssumption DEF Halt
<1>4. /\ synchronizing' \in BOOLEAN /\ accepted' \in BOOLEAN
      /\ stop' \in BOOLEAN /\ pending' \in BOOLEAN
  BY DEF Halt
<1>5. QED
  BY <1>1, <1>2, <1>3, <1>4

\* What an exception may change, whichever way it ends.
LEMMA RaiseType ==
  ASSUME TypeInv, NEW t \in Tasks, Raise(t)
  PROVE  /\ tx' \in Table /\ ids' \in Nat /\ bal' \in Nat
         /\ lastDone' \in 0 .. N /\ row' \in Nat
         /\ synchronizing' \in BOOLEAN /\ accepted' \in BOOLEAN
         /\ stop' \in BOOLEAN /\ pending' \in BOOLEAN
         /\ cur' \in [Tasks -> 0 .. N] /\ to' \in [Tasks -> 0 .. N]
         /\ PcType' /\ LoopInRange'
<1>1. CASE pc["listener"] = "off"
  BY <1>1, HaltType DEF Raise
<1>2. CASE pc["listener"] # "off"
  <2>1. Return(t) /\ UNCHANGED <<synchronizing, stop, pending, memory, lastDone, row>>
    BY <1>2 DEF Raise
  <2>2. QED
    BY <2>1, ReturnType DEF TypeInv, TypeOK, StoresType, LocalsType, LocksType, memory
<1>3. QED
  BY <1>1, <1>2

\* One field of one snapshot is rewritten, or one count of a table moves.
LEMMA SnapUpdate ==
  ASSUME StoresType, NEW c, NEW r, c \in Blocks => r \in SnapshotType
  PROVE  [snap EXCEPT ![c] = r] \in [Blocks -> SnapshotType]
  BY DEF StoresType

\* What each stage of saveWorkspace makes of a snapshot is a snapshot.
LEMMA SnapshotEdit ==
  ASSUME NEW s \in SnapshotType, NEW a \in [Blocks -> Nat], NEW r \in SUBSET Blocks,
         NEW i \in Nat, NEW x \in Table
  PROVE  /\ [s EXCEPT !.addr = a, !.done = FALSE] \in SnapshotType
         /\ [s EXCEPT !.res = r] \in SnapshotType
         /\ [s EXCEPT !.ids = i] \in SnapshotType
         /\ [s EXCEPT !.log = TRUE] \in SnapshotType
         /\ [s EXCEPT !.tx = x] \in SnapshotType
         /\ [s EXCEPT !.bal = i, !.done = TRUE] \in SnapshotType
  BY DEF SnapshotType

LEMMA AppliedUpdate ==
  ASSUME StoresType, NEW c
  PROVE  [applied EXCEPT ![c] = @ + 1] \in [Blocks -> Nat]
<1>1. applied \in [Blocks -> Nat]
  BY DEF StoresType
<1>2. \A n \in Blocks : [applied EXCEPT ![c] = @ + 1][n] \in Nat
  BY <1>1
<1>3. QED
  BY <1>1, <1>2

LEMMA TypeStep == TypeInv /\ [Next]_vars => TypeInv'
<1> SUFFICES ASSUME TypeInv, [Next]_vars PROVE TypeInv'
  OBVIOUS
<1>0. StoresType /\ PcType /\ LocksType /\ LocalsType /\ LoopInRange
  BY DEF TypeInv, TypeOK
<1> USE TsAssumption DEF env, mmaps, memory, files, locks, locals, bounds,
       Headers, SetRow, AppendRows, CursorAfter, CursorAtStart, TriggerIgnored
<1>1. CASE NewBlock
  <2>1. StoresType'
    BY <1>1, <1>0 DEF NewBlock, StoresType, Blocks
  <2>2. PcType'
    BY <1>1, <1>0 DEF NewBlock, PcType
  <2>3. LocalsType'
    BY <1>1, <1>0 DEF NewBlock, LocalsType
  <2>4. LoopInRange'
    BY <1>1, <1>0 DEF NewBlock, LoopInRange, LoopPcs
  <2>5. LocksType'
    BY <1>1, <1>0 DEF NewBlock, LocksType
  <2>6. QED
    BY <2>1, <2>2, <2>3, <2>4, <2>5 DEF TypeInv, TypeOK
<1>2. CASE Tick
  <2>1. StoresType'
    BY <1>2, <1>0 DEF Tick, StoresType
  <2>2. PcType'
    BY <1>2, <1>0 DEF Tick, PcType
  <2>3. LocalsType'
    BY <1>2, <1>0 DEF Tick, LocalsType
  <2>4. LoopInRange'
    BY <1>2, <1>0 DEF Tick, LoopInRange, LoopPcs
  <2>5. LocksType'
    BY <1>2, <1>0 DEF Tick, LocksType
  <2>6. QED
    BY <2>1, <2>2, <2>3, <2>4, <2>5 DEF TypeInv, TypeOK
<1>3. CASE Connect
  <2>1. StoresType'
    BY <1>3, <1>0 DEF Connect, StoresType
  <2>2. PcType'
    BY <1>3, <1>0 DEF Connect, PcType
  <2>3. LocalsType'
    BY <1>3, <1>0 DEF Connect, LocalsType
  <2>4. LoopInRange'
    BY <1>3, <1>0 DEF Connect, LoopInRange, LoopPcs
  <2>5. LocksType'
    BY <1>3, <1>0 DEF Connect, LocksType
  <2>6. QED
    BY <2>1, <2>2, <2>3, <2>4, <2>5 DEF TypeInv, TypeOK
<1>4. ASSUME NEW n \in Blocks, CollectCoin(n) PROVE TypeInv'
  <2>1. StoresType'
    BY <1>4, <1>0 DEF CollectCoin, StoresType
  <2>2. PcType'
    BY <1>4, <1>0 DEF CollectCoin, PcType
  <2>3. LocalsType'
    BY <1>4, <1>0 DEF CollectCoin, LocalsType
  <2>4. LoopInRange'
    BY <1>4, <1>0 DEF CollectCoin, LoopInRange, LoopPcs
  <2>5. LocksType'
    BY <1>4, <1>0 DEF CollectCoin, LocksType
  <2>6. QED
    BY <2>1, <2>2, <2>3, <2>4, <2>5 DEF TypeInv, TypeOK
<1>5. CASE Start
  <2>0. LastProcessedBlock \in 0 .. N
    BY <1>0, LastProcessedType DEF TypeOK
  <2>1. StoresType'
    BY <1>5, <1>0 DEF Start, StoresType
  <2>2. PcType'
    BY <1>5, <1>0, ReturnType, PcMove DEF Start, SyncBegins, Tasks, SyncPcs
  <2>3. LocalsType'
    BY <1>5, <1>0, <2>0, ReturnType DEF Start, LocalsType, SyncBegins, Tasks
  <2>4. LoopInRange'
    BY <1>5, <1>0, ReturnType DEF Start, SyncBegins, Tasks, LoopInRange, LoopPcs, PcType, TypeInv, TypeOK
  <2>5. LocksType'
    BY <1>5, <1>0, ReturnType DEF Start, LocksType, SyncBegins, Tasks
  <2>6. QED
    BY <2>1, <2>2, <2>3, <2>4, <2>5 DEF TypeInv, TypeOK
<1>6. CASE OperatorSync
  <2>1. StoresType'
    BY <1>6, <1>0 DEF OperatorSync, StoresType
  <2>2. PcType'
    BY <1>6, <1>0, ReturnType, PcMove DEF OperatorSync, SyncBegins, Tasks, SyncPcs
  <2>3. LocalsType'
    BY <1>6, <1>0, ReturnType DEF OperatorSync, LocalsType, SyncBegins, Tasks
  <2>4. LoopInRange'
    BY <1>6, <1>0, ReturnType DEF OperatorSync, SyncBegins, Tasks, LoopInRange, LoopPcs, PcType
  <2>5. LocksType'
    BY <1>6, <1>0, ReturnType DEF OperatorSync, LocksType, SyncBegins, Tasks
  <2>6. QED
    BY <2>1, <2>2, <2>3, <2>4, <2>5 DEF TypeInv, TypeOK
<1>7. CASE ListenerChecks
  <2>1. StoresType'
    BY <1>7, <1>0 DEF ListenerChecks, StoresType
  <2>2. PcType'
    BY <1>7, <1>0, PcMove DEF ListenerChecks, Tasks, ListenerPcs
  <2>3. LocalsType'
    BY <1>7, <1>0 DEF ListenerChecks, LocalsType
  <2>4. LoopInRange'
    BY <1>7, <1>0 DEF ListenerChecks, LoopInRange, LoopPcs, PcType, Tasks
  <2>5. LocksType'
    BY <1>7, <1>0 DEF ListenerChecks, LocksType
  <2>6. QED
    BY <2>1, <2>2, <2>3, <2>4, <2>5 DEF TypeInv, TypeOK
<1>8. CASE TcpTrigger
  <2>1. StoresType'
    BY <1>8, <1>0 DEF TcpTrigger, StoresType
  <2>2. PcType'
    BY <1>8, <1>0, ReturnType, PcMove DEF TcpTrigger, SyncBegins, Tasks, SyncPcs, ListenerPcs
  <2>3. LocalsType'
    BY <1>8, <1>0, ReturnType DEF TcpTrigger, LocalsType, SyncBegins, Tasks
  <2>4. LoopInRange'
    BY <1>8, <1>0, ReturnType DEF TcpTrigger, SyncBegins, Tasks, LoopInRange, LoopPcs, PcType
  <2>5. LocksType'
    BY <1>8, <1>0, ReturnType DEF TcpTrigger, LocksType, SyncBegins, Tasks
  <2>6. QED
    BY <2>1, <2>2, <2>3, <2>4, <2>5 DEF TypeInv, TypeOK
<1>9. CASE EmergencyStop
  <2>1. StoresType'
    BY <1>9, <1>0 DEF EmergencyStop, StoresType
  <2>2. PcType'
    BY <1>9, <1>0 DEF EmergencyStop, PcType
  <2>3. LocalsType'
    BY <1>9, <1>0 DEF EmergencyStop, LocalsType
  <2>4. LoopInRange'
    BY <1>9, <1>0 DEF EmergencyStop, LoopInRange, LoopPcs
  <2>5. LocksType'
    BY <1>9, <1>0 DEF EmergencyStop, LocksType
  <2>6. QED
    BY <2>1, <2>2, <2>3, <2>4, <2>5 DEF TypeInv, TypeOK
<1>10. ASSUME NEW t \in Tasks, SyncBlockInfo(t) PROVE TypeInv'
  <2>0. known' \in Blocks
    BY <1>10, <1>0 DEF SyncBlockInfo, StoresType, Blocks
  <2>1. StoresType'
    BY <1>10, <1>0, <2>0 DEF SyncBlockInfo, StoresType
  <2>2. PcType'
    BY <1>10, <1>0, PcMove DEF SyncBlockInfo, SyncPcs
  <2>3. LocalsType'
    BY <1>10, <1>0 DEF SyncBlockInfo, LocalsType, Fault
  <2>4. LoopInRange'
    BY <1>10, <1>0 DEF SyncBlockInfo, LoopInRange, LoopPcs, PcType
  <2>5. LocksType'
    BY <1>10, <1>0 DEF SyncBlockInfo, LocksType
  <2>6. QED
    BY <2>1, <2>2, <2>3, <2>4, <2>5 DEF TypeInv, TypeOK
<1>11. ASSUME NEW t \in Tasks, MarketSynced(t) PROVE TypeInv'
  <2>0. Timestamp2LastBlockN(known, clock) \in 0 .. N
    <3>1. known \in 0 .. N /\ clock \in Int /\ N \in Nat
      BY <1>0 DEF StoresType, Blocks
    <3>2. Timestamp2LastBlockN(known, clock) \in 0 .. known
      BY <3>1, LastBlockType
    <3>3. QED
      BY <3>1, <3>2
  <2>1. StoresType'
    BY <1>11, <1>0 DEF MarketSynced, StoresType
  <2>2. PcType'
    BY <1>11, <1>0, ReturnType, PcMove DEF MarketSynced, Release, SyncPcs
  <2>3. LocalsType'
    BY <1>11, <1>0, <2>0, ReturnType DEF MarketSynced, LocalsType, Release
  <2>4. LoopInRange'
    <3>1. CASE Timestamp2LastBlockN(known, clock) < lastDone + 1
      BY <1>11, <3>1, ReturnType DEF MarketSynced, Release
    <3>2. CASE ~(Timestamp2LastBlockN(known, clock) < lastDone + 1)
      <4>1. /\ pc' = [pc EXCEPT ![t] = "sleep"]
            /\ cur' = [cur EXCEPT ![t] = lastDone + 1]
            /\ to' = [to EXCEPT ![t] = Timestamp2LastBlockN(known, clock)]
        BY <1>11, <3>2 DEF MarketSynced
      <4>2. lastDone + 1 \in 1 .. N /\ Timestamp2LastBlockN(known, clock) \in 1 .. N
        BY <1>0, <2>0, <3>2 DEF LocalsType
      <4>3. QED
        BY <1>0, <3>2, <4>1, <4>2 DEF LoopInRange, LoopPcs, PcType, LocalsType, Blocks
    <3>3. QED
      BY <3>1, <3>2
  <2>5. LocksType'
    BY <1>11, <1>0, ReturnType DEF MarketSynced, LocksType, Release
  <2>6. QED
    BY <2>1, <2>2, <2>3, <2>4, <2>5 DEF TypeInv, TypeOK
<1>12. ASSUME NEW t \in Tasks, MarketFails(t) PROVE TypeInv'
  <2>1. StoresType'
    BY <1>12, <1>0 DEF MarketFails, StoresType
  <2>2. PcType'
    BY <1>12, <1>0, ReturnType DEF MarketFails, PcType, Release
  <2>3. LocalsType'
    BY <1>12, <1>0, ReturnType DEF MarketFails, LocalsType, Release, Fault
  <2>4. LoopInRange'
    BY <1>12, <1>0, ReturnType DEF MarketFails, Release
  <2>5. LocksType'
    BY <1>12, <1>0, ReturnType DEF MarketFails, LocksType, Release
  <2>6. QED
    BY <2>1, <2>2, <2>3, <2>4, <2>5 DEF TypeInv, TypeOK
<1>13. ASSUME NEW t \in Tasks, Sleep(t) PROVE TypeInv'
  <2>1. StoresType'
    BY <1>13, <1>0 DEF Sleep, StoresType
  <2>2. PcType'
    BY <1>13, <1>0, PcMove DEF Sleep, SyncPcs
  <2>3. LocalsType'
    BY <1>13, <1>0 DEF Sleep, LocalsType
  <2>4. LoopInRange'
    BY <1>13, <1>0 DEF Sleep, LoopInRange, LoopPcs, PcType
  <2>5. LocksType'
    BY <1>13, <1>0 DEF Sleep, LocksType
  <2>6. QED
    BY <2>1, <2>2, <2>3, <2>4, <2>5 DEF TypeInv, TypeOK
<1>14. ASSUME NEW t \in Tasks, Digest(t) PROVE TypeInv'
  <2>1. StoresType'
    BY <1>14, <1>0 DEF Digest, StoresType, LocalsType, Table
  <2>2. PcType'
    BY <1>14, <1>0, PcMove DEF Digest, SyncPcs
  <2>3. LocalsType'
    BY <1>14, <1>0 DEF Digest, LocalsType
  <2>4. LoopInRange'
    BY <1>14, <1>0 DEF Digest, LoopInRange, LoopPcs, PcType
  <2>5. LocksType'
    BY <1>14, <1>0 DEF Digest, LocksType
  <2>6. QED
    BY <2>1, <2>2, <2>3, <2>4, <2>5 DEF TypeInv, TypeOK
<1>15. ASSUME NEW t \in Tasks, DigestRaises(t) PROVE TypeInv'
  <2>1. StoresType'
    BY <1>15, <1>0, RaiseType DEF DigestRaises, StoresType
  <2>2. PcType'
    BY <1>15, <1>0, RaiseType DEF DigestRaises, PcType
  <2>3. LocalsType'
    BY <1>15, <1>0, RaiseType DEF DigestRaises, LocalsType
  <2>4. LoopInRange'
    BY <1>15, <1>0, RaiseType DEF DigestRaises
  <2>5. LocksType'
    BY <1>15, <1>0, RaiseType DEF DigestRaises, LocksType
  <2>6. QED
    BY <2>1, <2>2, <2>3, <2>4, <2>5 DEF TypeInv, TypeOK
<1>16. ASSUME NEW t \in Tasks, StoreResult(t) PROVE TypeInv'
  <2>1. StoresType'
    BY <1>16, <1>0 DEF StoreResult, StoresType, LoopInRange, LoopPcs
  <2>2. PcType'
    BY <1>16, <1>0, PcMove DEF StoreResult, SyncPcs
  <2>3. LocalsType'
    BY <1>16, <1>0 DEF StoreResult, LocalsType
  <2>4. LoopInRange'
    BY <1>16, <1>0 DEF StoreResult, LoopInRange, LoopPcs, PcType
  <2>5. LocksType'
    BY <1>16, <1>0 DEF StoreResult, LocksType
  <2>6. QED
    BY <2>1, <2>2, <2>3, <2>4, <2>5 DEF TypeInv, TypeOK
<1>17. ASSUME NEW t \in Tasks, StoreRaises(t) PROVE TypeInv'
  <2>1. StoresType'
    BY <1>17, <1>0, RaiseType DEF StoreRaises, StoresType
  <2>2. PcType'
    BY <1>17, <1>0, RaiseType DEF StoreRaises, PcType
  <2>3. LocalsType'
    BY <1>17, <1>0, RaiseType DEF StoreRaises, LocalsType
  <2>4. LoopInRange'
    BY <1>17, <1>0, RaiseType DEF StoreRaises
  <2>5. LocksType'
    BY <1>17, <1>0, RaiseType DEF StoreRaises, LocksType
  <2>6. QED
    BY <2>1, <2>2, <2>3, <2>4, <2>5 DEF TypeInv, TypeOK
<1>18. ASSUME NEW t \in Tasks, CallRaises(t) PROVE TypeInv'
  <2>1. StoresType'
    BY <1>18, <1>0, RaiseType DEF CallRaises, StoresType
  <2>2. PcType'
    BY <1>18, <1>0, RaiseType DEF CallRaises, PcType
  <2>3. LocalsType'
    BY <1>18, <1>0, RaiseType DEF CallRaises, LocalsType, Fault
  <2>4. LoopInRange'
    BY <1>18, <1>0, RaiseType DEF CallRaises
  <2>5. LocksType'
    BY <1>18, <1>0, RaiseType DEF CallRaises, LocksType
  <2>6. QED
    BY <2>1, <2>2, <2>3, <2>4, <2>5 DEF TypeInv, TypeOK
<1>19. ASSUME NEW t \in Tasks, MergeRow(t) PROVE TypeInv'
  <2>0. applied' \in [Blocks -> Nat]
    BY <1>19, <1>0, AppliedUpdate DEF MergeRow
  <2>1. StoresType'
    BY <1>19, <1>0, <2>0 DEF MergeRow, StoresType
  <2>2. PcType'
    BY <1>19, <1>0 DEF MergeRow, PcType
  <2>3. LocalsType'
    BY <1>19, <1>0 DEF MergeRow, LocalsType
  <2>4. LoopInRange'
    BY <1>19, <1>0 DEF MergeRow, LoopInRange, LoopPcs
  <2>5. LocksType'
    BY <1>19, <1>0 DEF MergeRow, LocksType
  <2>6. QED
    BY <2>1, <2>2, <2>3, <2>4, <2>5 DEF TypeInv, TypeOK
<1>20. ASSUME NEW t \in Tasks, MergeDone(t) PROVE TypeInv'
  <2>0. cur[t] \in 0 .. N /\ (cur[t] < to[t] => cur[t] + 1 \in Blocks /\ to[t] \in Blocks)
    BY <1>20, <1>0 DEF MergeDone, LoopInRange, LoopPcs, LocalsType, Blocks
  <2>1. StoresType'
    BY <1>20, <1>0 DEF MergeDone, StoresType
  <2>2. PcType'
    BY <1>20, <1>0, ReturnType, PcMove DEF MergeDone, Release, SyncPcs
  <2>3. LocalsType'
    BY <1>20, <1>0, <2>0, ReturnType DEF MergeDone, LocalsType, Release, Blocks
  <2>4. LoopInRange'
    BY <1>20, <1>0, <2>0, ReturnType DEF MergeDone, Release, LoopInRange, LoopPcs, PcType, LocalsType
  <2>5. LocksType'
    BY <1>20, <1>0, ReturnType DEF MergeDone, LocksType, Release
  <2>6. QED
    BY <2>1, <2>2, <2>3, <2>4, <2>5 DEF TypeInv, TypeOK
<1>21. CASE SaveBegins
  <2>1. StoresType'
    BY <1>21, <1>0 DEF SaveBegins, StoresType
  <2>2. PcType'
    BY <1>21, <1>0, PcMove DEF SaveBegins, Tasks, MainPcs, SavePcs, PcType
  <2>3. LocalsType'
    BY <1>21, <1>0, LastResultsType DEF SaveBegins, LocalsType, TypeInv, TypeOK
  <2>4. LoopInRange'
    BY <1>21, <1>0 DEF SaveBegins, LoopInRange, LoopPcs, PcType, Tasks, LocalsType
  <2>5. LocksType'
    BY <1>21, <1>0 DEF SaveBegins, LocksType
  <2>6. QED
    BY <2>1, <2>2, <2>3, <2>4, <2>5 DEF TypeInv, TypeOK
<1>22. CASE SaveResults
  <2>0. ASSUME cur["main"] \in Blocks
        PROVE  [snap[cur["main"]] EXCEPT !.res = results] \in SnapshotType
    BY <1>0, <2>0, SnapshotEdit DEF StoresType
  <2>1. StoresType'
    BY <1>22, <1>0, <2>0, SnapUpdate DEF SaveResults, StoresType, SaveStore
  <2>2. PcType'
    BY <1>22, <1>0, PcMove DEF SaveResults, SaveStore, Tasks, MainPcs, SavePcs
  <2>3. LocalsType'
    BY <1>22, <1>0 DEF SaveResults, LocalsType, SaveStore
  <2>4. LoopInRange'
    BY <1>22, <1>0 DEF SaveResults, LoopInRange, LoopPcs, SaveStore, PcType
  <2>5. LocksType'
    BY <1>22, <1>0 DEF SaveResults, LocksType, SaveStore
  <2>6. QED
    BY <2>1, <2>2, <2>3, <2>4, <2>5 DEF TypeInv, TypeOK
<1>23. CASE SaveIds
  <2>0. ASSUME cur["main"] \in Blocks
        PROVE  [snap[cur["main"]] EXCEPT !.ids = ids] \in SnapshotType
    BY <1>0, <2>0, SnapshotEdit DEF StoresType
  <2>1. StoresType'
    BY <1>23, <1>0, <2>0, SnapUpdate DEF SaveIds, StoresType, SaveStore
  <2>2. PcType'
    BY <1>23, <1>0, PcMove DEF SaveIds, SaveStore, Tasks, MainPcs, SavePcs
  <2>3. LocalsType'
    BY <1>23, <1>0 DEF SaveIds, LocalsType, SaveStore
  <2>4. LoopInRange'
    BY <1>23, <1>0 DEF SaveIds, LoopInRange, LoopPcs, SaveStore, PcType
  <2>5. LocksType'
    BY <1>23, <1>0 DEF SaveIds, LocksType, SaveStore
  <2>6. QED
    BY <2>1, <2>2, <2>3, <2>4, <2>5 DEF TypeInv, TypeOK
<1>24. CASE SaveTx
  <2>0. ASSUME cur["main"] \in Blocks
        PROVE  [snap[cur["main"]] EXCEPT !.tx = tx] \in SnapshotType
    BY <1>0, <2>0, SnapshotEdit DEF StoresType
  <2>1. StoresType'
    BY <1>24, <1>0, <2>0, SnapUpdate DEF SaveTx, StoresType, SaveStore
  <2>2. PcType'
    BY <1>24, <1>0, PcMove DEF SaveTx, SaveStore, Tasks, MainPcs, SavePcs
  <2>3. LocalsType'
    BY <1>24, <1>0 DEF SaveTx, LocalsType, SaveStore
  <2>4. LoopInRange'
    BY <1>24, <1>0 DEF SaveTx, LoopInRange, LoopPcs, SaveStore, PcType
  <2>5. LocksType'
    BY <1>24, <1>0 DEF SaveTx, LocksType, SaveStore
  <2>6. QED
    BY <2>1, <2>2, <2>3, <2>4, <2>5 DEF TypeInv, TypeOK
<1>25. CASE SaveAddress
  <2>0. ASSUME cur["main"] \in Blocks
        PROVE  [snap[cur["main"]] EXCEPT !.addr = applied, !.done = FALSE] \in SnapshotType
    BY <1>0, <2>0, SnapshotEdit DEF StoresType
  <2>1. StoresType'
    BY <1>25, <1>0, <2>0, SnapUpdate DEF SaveAddress, StoresType
  <2>2. PcType'
    BY <1>25, <1>0, PcMove DEF SaveAddress, Tasks, MainPcs, SavePcs
  <2>3. LocalsType'
    BY <1>25, <1>0 DEF SaveAddress, LocalsType, Tasks
  <2>4. LoopInRange'
    BY <1>25, <1>0 DEF SaveAddress, LoopInRange, LoopPcs, PcType, LocalsType, Tasks
  <2>5. LocksType'
    BY <1>25, <1>0 DEF SaveAddress, LocksType
  <2>6. QED
    BY <2>1, <2>2, <2>3, <2>4, <2>5 DEF TypeInv, TypeOK
<1>26. CASE SaveLog
  <2>0. ASSUME cur["main"] \in Blocks
        PROVE  [snap[cur["main"]] EXCEPT !.log = TRUE] \in SnapshotType
    BY <1>0, <2>0, SnapshotEdit DEF StoresType
  <2>1. StoresType'
    BY <1>26, <1>0, <2>0, SnapUpdate DEF SaveLog, StoresType
  <2>2. PcType'
    BY <1>26, <1>0, PcMove DEF SaveLog, Tasks, MainPcs, SavePcs
  <2>3. LocalsType'
    BY <1>26, <1>0 DEF SaveLog, LocalsType, Tasks
  <2>4. LoopInRange'
    BY <1>26, <1>0 DEF SaveLog, LoopInRange, LoopPcs, PcType, LocalsType, Tasks
  <2>5. LocksType'
    BY <1>26, <1>0 DEF SaveLog, LocksType
  <2>6. QED
    BY <2>1, <2>2, <2>3, <2>4, <2>5 DEF TypeInv, TypeOK
<1>27. CASE SaveBalance
  <2>0. ASSUME cur["main"] \in Blocks
        PROVE  [snap[cur["main"]] EXCEPT !.bal = bal, !.done = TRUE] \in SnapshotType
    BY <1>0, <2>0, SnapshotEdit DEF StoresType
  <2>1. StoresType'
    BY <1>27, <1>0, <2>0, SnapUpdate DEF SaveBalance, StoresType
  <2>2. PcType'
    BY <1>27, <1>0, PcMove DEF SaveBalance, Tasks, MainPcs, SavePcs
  <2>3. LocalsType'
    BY <1>27, <1>0 DEF SaveBalance, LocalsType, Tasks
  <2>4. LoopInRange'
    BY <1>27, <1>0 DEF SaveBalance, LoopInRange, LoopPcs, PcType, LocalsType, Tasks
  <2>5. LocksType'
    BY <1>27, <1>0 DEF SaveBalance, LocksType
  <2>6. QED
    BY <2>1, <2>2, <2>3, <2>4, <2>5 DEF TypeInv, TypeOK
<1>28. CASE Crash
  <2>1. StoresType'
    BY <1>28, <1>0, HaltType DEF Crash, StoresType
  <2>2. PcType'
    BY <1>28, <1>0, HaltType DEF Crash, PcType
  <2>3. LocalsType'
    BY <1>28, <1>0, HaltType DEF Crash, LocalsType
  <2>4. LoopInRange'
    BY <1>28, <1>0, HaltType DEF Crash
  <2>5. LocksType'
    BY <1>28, <1>0, HaltType DEF Crash, LocksType
  <2>6. QED
    BY <2>1, <2>2, <2>3, <2>4, <2>5 DEF TypeInv, TypeOK
<1>29. ASSUME NEW n \in Blocks, Deploy(n) PROVE TypeInv'
  <2>1. StoresType'
    BY <1>29, <1>0 DEF Deploy, StoresType, SnapshotType
  <2>2. PcType'
    BY <1>29, <1>0 DEF Deploy, PcType
  <2>3. LocalsType'
    BY <1>29, <1>0 DEF Deploy, LocalsType
  <2>4. LoopInRange'
    BY <1>29, <1>0 DEF Deploy, LoopInRange, LoopPcs
  <2>5. LocksType'
    BY <1>29, <1>0 DEF Deploy, LocksType
  <2>6. QED
    BY <2>1, <2>2, <2>3, <2>4, <2>5 DEF TypeInv, TypeOK
<1>30. CASE UNCHANGED vars
  BY <1>0, <1>30 DEF vars, TypeInv, TypeOK, StoresType, PcType, LocksType, LocalsType, LoopInRange, LoopPcs
<1>31. QED
  BY <1>1, <1>2, <1>3, <1>4, <1>5, <1>6, <1>7, <1>8, <1>9, <1>10, <1>11, <1>12, <1>13, <1>14, <1>15, <1>16, <1>17, <1>18, <1>19, <1>20, <1>21, <1>22, <1>23, <1>24, <1>25, <1>26, <1>27, <1>28, <1>29, <1>30 DEF Next, SyncStep, SaveStep

\* Every variable keeps its type: the cursors stay on the chain, the tables
\* hold counts, a snapshot is a copy of stores.
THEOREM PipelineTypes == Spec => []TypeOK
<1>1. Spec => []TypeInv
  BY TypeInit, TypeStep, PTL DEF Spec
<1>2. TypeInv => TypeOK
  BY DEF TypeInv
<1>3. QED
  BY <1>1, <1>2, PTL

-----------------------------------------------------------------------------
(* The lock of SyncResults. *)

LEMMA LockInit == Init => LockInv
  BY DEF Init, LockInv, Tasks, SyncPcs

LEMMA LockEnter ==
  ASSUME PcType, LockInv, NEW t \in Tasks, SyncBegins(t),
         pc[t] \in {"down", "repl", "accept"}
  PROVE  LockInv'
<1>1. CASE synchronizing
  BY <1>1 DEF SyncBegins, Return, LockInv, PcType, Tasks, SyncPcs
<1>2. CASE ~synchronizing
  BY <1>2 DEF SyncBegins, LockInv, PcType, Tasks, SyncPcs
<1>3. QED
  BY <1>1, <1>2

\* Inside SyncResults a task moves on, returns with the lock free, or raises.
LEMMA LockMove ==
  ASSUME PcType, LockInv, NEW t \in Tasks, pc[t] \in SyncPcs,
         NEW q \in SyncPcs, pc' = [pc EXCEPT ![t] = q], UNCHANGED synchronizing
  PROVE  LockInv'
  BY DEF LockInv, PcType, Tasks, SyncPcs

LEMMA LockRelease ==
  ASSUME PcType, LockInv, NEW t \in Tasks, pc[t] \in SyncPcs, Release(t)
  PROVE  LockInv'
<1>1. CASE t = "main"
  BY <1>1 DEF Release, Return, LockInv, PcType, Tasks, SyncPcs
<1>2. CASE t = "listener"
  BY <1>2 DEF Release, Return, LockInv, PcType, Tasks, SyncPcs
<1>3. QED
  BY <1>1, <1>2 DEF Tasks

LEMMA LockHalt ==
  ASSUME Halt
  PROVE  LockInv'
  BY DEF Halt, LockInv, Tasks, SyncPcs

LEMMA LockRaise ==
  ASSUME PcType, LockInv, NEW t \in Tasks, pc[t] \in SyncPcs, Raise(t)
  PROVE  LockInv'
<1>1. CASE pc["listener"] = "off"
  BY <1>1, LockHalt DEF Raise
<1>2. CASE pc["listener"] # "off"
  <2>1. Return(t) /\ synchronizing' = synchronizing
    BY <1>2 DEF Raise
  <2>2. CASE t = "main"
    BY <2>1, <2>2, <1>2 DEF Return, LockInv, PcType, Tasks, SyncPcs
  <2>3. CASE t = "listener"
    BY <2>1, <2>3, <1>2 DEF Return, LockInv, PcType, Tasks, SyncPcs
  <2>4. QED
    BY <2>2, <2>3 DEF Tasks
<1>3. QED
  BY <1>1, <1>2

LEMMA LockStep == TypeInv /\ LockInv /\ [Next]_vars => LockInv'
<1> SUFFICES ASSUME TypeInv, LockInv, [Next]_vars PROVE LockInv'
  OBVIOUS
<1>0. PcType /\ LockInv
  BY DEF TypeInv, TypeOK
<1>1. CASE UNCHANGED <<pc, synchronizing>>
  BY <1>0, <1>1 DEF LockInv
<1>2. CASE NewBlock \/ Tick \/ Connect \/ EmergencyStop
        \/ (\E n \in Blocks : CollectCoin(n)) \/ (\E id \in Blocks : Deploy(id))
  BY <1>2, <1>1 DEF NewBlock, Tick, Connect, EmergencyStop, CollectCoin, Deploy, locks
<1>3. CASE Start
  BY <1>0, <1>3, LockEnter DEF Start, Up, Tasks
<1>4. CASE OperatorSync
  BY <1>0, <1>4, LockEnter DEF OperatorSync, Tasks
<1>5. CASE ListenerChecks
  BY <1>0, <1>5 DEF ListenerChecks, LockInv, PcType, Tasks, SyncPcs, locks
<1>6. CASE TcpTrigger
  <2>1. CASE accepted
    BY <1>0, <1>6, <2>1 DEF TcpTrigger, TriggerIgnored, LockInv, PcType, Tasks, SyncPcs
  <2>2. CASE ~accepted
    BY <1>0, <1>6, <2>2, LockEnter DEF TcpTrigger, TriggerIgnored, Tasks
  <2>3. QED
    BY <2>1, <2>2
<1>7. ASSUME NEW t \in Tasks, SyncBlockInfo(t) PROVE LockInv'
  BY <1>0, <1>7, LockMove DEF SyncBlockInfo, SyncPcs, locks
<1>8. ASSUME NEW t \in Tasks, Sleep(t) PROVE LockInv'
  BY <1>0, <1>8, LockMove DEF Sleep, SyncPcs, locks
<1>9. ASSUME NEW t \in Tasks, Digest(t) PROVE LockInv'
  BY <1>0, <1>9, LockMove DEF Digest, SyncPcs, locks
<1>10. ASSUME NEW t \in Tasks, StoreResult(t) PROVE LockInv'
  BY <1>0, <1>10, LockMove DEF StoreResult, SyncPcs, locks
<1>11. ASSUME NEW t \in Tasks, MarketSynced(t) PROVE LockInv'
  <2>1. CASE Timestamp2LastBlockN(known, clock) < lastDone + 1
    BY <1>0, <1>11, <2>1, LockRelease DEF MarketSynced, SyncPcs
  <2>2. CASE ~(Timestamp2LastBlockN(known, clock) < lastDone + 1)
    BY <1>0, <1>11, <2>2, LockMove DEF MarketSynced, SyncPcs
  <2>3. QED
    BY <2>1, <2>2
<1>12. ASSUME NEW t \in Tasks, MarketFails(t) PROVE LockInv'
  BY <1>0, <1>12, LockRelease DEF MarketFails, SyncPcs
<1>13. ASSUME NEW t \in Tasks, DigestRaises(t) PROVE LockInv'
  BY <1>0, <1>13, LockRaise DEF DigestRaises, SyncPcs
<1>14. ASSUME NEW t \in Tasks, StoreRaises(t) PROVE LockInv'
  BY <1>0, <1>14, LockRaise DEF StoreRaises, SyncPcs
<1>15. ASSUME NEW t \in Tasks, CallRaises(t) PROVE LockInv'
  BY <1>0, <1>15, LockRaise DEF CallRaises, SyncPcs
<1>16. ASSUME NEW t \in Tasks, MergeRow(t) PROVE LockInv'
  BY <1>1, <1>16 DEF MergeRow, locks
<1>17. ASSUME NEW t \in Tasks, MergeDone(t) PROVE LockInv'
  <2>1. CASE cur[t] < to[t]
    BY <1>0, <1>17, <2>1, LockMove DEF MergeDone, SyncPcs
  <2>2. CASE ~(cur[t] < to[t])
    BY <1>0, <1>17, <2>2, LockRelease DEF MergeDone, SyncPcs
  <2>3. QED
    BY <2>1, <2>2
<1>18. CASE SaveBegins
  BY <1>0, <1>18 DEF SaveBegins, LockInv, PcType, Tasks, SyncPcs
<1>19. CASE SaveStep
  BY <1>0, <1>19 DEF SaveStep, SaveStore, SaveAddress, SaveResults, SaveIds, SaveLog, SaveTx,
       SaveBalance, LockInv, PcType, Tasks, SyncPcs, locks
<1>20. CASE Crash
  BY <1>20, LockHalt DEF Crash
<1>21. CASE UNCHANGED vars
  BY <1>1, <1>21 DEF vars, locks
<1>22. QED
  BY <1>2, <1>3, <1>4, <1>5, <1>6, <1>7, <1>8, <1>9, <1>10, <1>11, <1>12, <1>13, <1>14, <1>15, <1>16, <1>17, <1>18, <1>19, <1>20, <1>21 DEF Next, SyncStep

\* SyncResults is never run by two tasks at a time, and the lock is never freed
\* under the task that holds it: not by a save, an ignored trigger or a second
\* call that returns early.
THEOREM PipelineMutualExclusion == Spec => []MutualExclusion
<1>1. Spec => [](TypeInv /\ LockInv)
  <2>1. Init => TypeInv /\ LockInv
    BY TypeInit, LockInit
  <2>2. TypeInv /\ LockInv /\ [Next]_vars => (TypeInv /\ LockInv)'
    BY TypeStep, LockStep
  <2>3. QED
    BY <2>1, <2>2, PTL DEF Spec
<1>2. TypeInv /\ LockInv => MutualExclusion
  BY DEF LockInv, MutualExclusion, Syncing, Tasks
<1>3. QED
  BY <1>1, <1>2, PTL

-----------------------------------------------------------------------------
(* A wedged pipeline. *)

\* A task outside of SyncResults moves to another point outside of it.
LEMMA NobodyEnters ==
  ASSUME PcType, Syncing = {}, NEW t \in Tasks, NEW q, q \notin SyncPcs,
         pc' = [pc EXCEPT ![t] = q]
  PROVE  Syncing' = {} /\ (t = "listener" => (Up' <=> Up)) /\ (t = "main" => (Up' <=> q # "down"))
  BY DEF PcType, Syncing, Up, Tasks

\* A call that finds the lock set returns and changes nothing.
LEMMA CallReturns ==
  ASSUME PcType, Wedged, NEW t \in Tasks, SyncBegins(t)
  PROVE  Wedged'
<1>1. Return(t) /\ synchronizing' = synchronizing /\ synchronizing /\ Syncing = {} /\ Up
  BY DEF SyncBegins, Wedged
<1>2. CASE t = "main"
  BY <1>1, <1>2 DEF Return, Wedged, PcType, Syncing, Up, Tasks, SyncPcs
<1>3. CASE t = "listener"
  <2>1. pc' = [pc EXCEPT !["listener"] = "check"]
    BY <1>1, <1>3 DEF Return
  <2>2. QED
    BY <1>1, <1>3, <2>1, NobodyEnters DEF Wedged, SyncPcs
<1>4. QED
  BY <1>2, <1>3 DEF Tasks

LEMMA WedgedStep ==
  ASSUME PcType, Wedged, Next, Up'
  PROVE  Wedged' /\ UNCHANGED <<applied, results, tx, lastDone>>
<1> USE DEF env, mmaps, memory, files, locks, locals, bounds
<1>1. Up /\ synchronizing /\ Syncing = {}
  BY DEF Wedged
<1>2. CASE UNCHANGED <<pc, synchronizing, applied, results, tx, lastDone>>
  BY <1>1, <1>2 DEF Wedged, Up, Syncing
<1>3. CASE NewBlock \/ Tick \/ Connect \/ EmergencyStop \/ \E n \in Blocks : CollectCoin(n)
  BY <1>2, <1>3 DEF NewBlock, Tick, Connect, EmergencyStop, CollectCoin
<1>4. CASE Start \/ \E id \in Blocks : Deploy(id)
  BY <1>1, <1>4 DEF Start, Deploy
<1>5. CASE Crash
  BY <1>5 DEF Crash, Halt, Up, Tasks
<1>6. ASSUME NEW t \in Tasks, SyncStep(t) PROVE FALSE
  <2>1. pc[t] \in SyncPcs
    BY <1>6 DEF SyncStep, SyncBlockInfo, MarketSynced, MarketFails, Sleep, Digest, DigestRaises,
         StoreResult, StoreRaises, CallRaises, MergeRow, MergeDone, SyncPcs
  <2>2. QED
    BY <1>1, <2>1 DEF Syncing
<1>7. CASE OperatorSync
  BY <1>7, CallReturns DEF OperatorSync, Tasks
<1>8. CASE ListenerChecks
  <2>1. PICK q \in {"done", "accept"} : pc' = [pc EXCEPT !["listener"] = q]
    BY <1>8 DEF ListenerChecks
  <2>2. q \notin SyncPcs /\ "listener" \in Tasks
    BY DEF SyncPcs, Tasks
  <2>3. QED
    BY <1>1, <1>8, <2>1, <2>2, NobodyEnters DEF ListenerChecks, Wedged
<1>9. CASE TcpTrigger
  <2>1. CASE accepted
    <3>1. pc' = [pc EXCEPT !["listener"] = "check"] /\ synchronizing' = synchronizing
      BY <1>9, <2>1 DEF TcpTrigger, TriggerIgnored
    <3>2. QED
      BY <1>1, <1>9, <3>1, NobodyEnters DEF TcpTrigger, Wedged, Tasks, SyncPcs
  <2>2. CASE ~accepted
    BY <1>9, <2>2, CallReturns DEF TcpTrigger, TriggerIgnored, Tasks
  <2>3. QED
    BY <2>1, <2>2
<1>10. CASE SaveBegins \/ SaveStep
  <2>1. UNCHANGED <<synchronizing, applied, results, tx, lastDone>>
    BY <1>10 DEF SaveBegins, SaveStep, SaveStore, SaveAddress, SaveResults, SaveIds, SaveLog,
         SaveTx, SaveBalance
  <2>2. pc' = pc \/ \E q \in SavePcs \cup {"repl"} : pc' = [pc EXCEPT !["main"] = q]
    BY <1>10 DEF SaveBegins, SaveStep, SaveStore, SaveAddress, SaveResults, SaveIds, SaveLog,
         SaveTx, SaveBalance, SavePcs
  <2>3. ASSUME NEW q \in SavePcs \cup {"repl"}, pc' = [pc EXCEPT !["main"] = q] PROVE Wedged'
    BY <1>1, <2>1, <2>3, NobodyEnters DEF Wedged, Tasks, SyncPcs, SavePcs
  <2>4. QED
    BY <1>2, <2>1, <2>2, <2>3
<1>11. QED
  BY <1>3, <1>4, <1>5, <1>6, <1>7, <1>8, <1>9, <1>10 DEF Next

\* After an exception in SyncResults nothing but a restart moves the pipeline:
\* no call, trigger or save frees the lock or changes a store.
THEOREM PipelineWedged == Spec => WedgedStays
<1>1. TypeInv /\ [Next]_vars =>
        [Wedged /\ Up' => Wedged' /\ UNCHANGED <<applied, results, tx, lastDone>>]_vars
  BY WedgedStep DEF TypeInv, TypeOK
<1>2. Spec => []TypeInv
  BY TypeInit, TypeStep, PTL DEF Spec
<1>3. QED
  BY <1>1, <1>2, PTL DEF Spec, WedgedStays

-----------------------------------------------------------------------------
(* The ledger: when bitcore completes a block within the sleeps and the     *)
(* operator saves only while no sync runs, the address state is merged in   *)
(* order, and everything below LastDoneBlock is merged.                     *)

FullInv == TypeInv /\ LockInv /\ LedgerInv

-----------------------------------------------------------------------------
(* Consequences of the invariant in one state. *)

\* A task inside SyncResults is the only one.
LEMMA Alone ==
  ASSUME PcType, LockInv, NEW t \in Tasks, pc[t] \in SyncPcs
  PROVE  /\ Up /\ synchronizing
         /\ \A u \in Tasks : u # t => pc[u] \notin SyncPcs
         /\ pc["main"] \notin SavePcs \/ t = "listener"
  BY DEF PcType, LockInv, Up, Tasks, SyncPcs, SavePcs, MainPcs, ListenerPcs

\* Before the digest, and whenever the lock is free, every block of the
\* transaction table is merged.
LEMMA EarlyCovered ==
  ASSUME GoodMemory,
         ~synchronizing \/ \E t \in Tasks : pc[t] \in EarlyPcs
  PROVE  Covered(tx, applied)
  BY DEF GoodMemory, NotYetMerged, Covered

\* A table with block n has every block below it.
LEMMA MergedBelow ==
  ASSUME GoodMemory, NEW k \in Blocks, k <= lastDone, tx[k] # Absent, lastDone \in Int,
         NEW m \in Blocks, m <= k
  PROVE  applied[m] = Whole(m)
<1>1. tx[m] # Absent
  BY DEF GoodMemory, GoodTable, Blocks
<1>2. ~NotYetMerged(m)
  BY TsAssumption DEF NotYetMerged, Blocks
<1>3. QED
  BY <1>1, <1>2 DEF GoodMemory

\* Nothing is merged above the cursor unless a task is in its merge loop.
LEMMA NothingAbove ==
  ASSUME PcType, LockInv, GoodCursor, NEW t \in Tasks, pc[t] \in SyncPcs \ {"merge"},
         NEW n \in Blocks, n > lastDone
  PROVE  ~(applied[n] > 0)
<1>1. Up /\ \A u \in Tasks : pc[u] # "merge"
  BY Alone DEF SyncPcs
<1>2. QED
  BY <1>1 DEF GoodCursor

\* The rows of a block in a table are the coins of the block.
LEMMA RowsOfBlock ==
  ASSUME StoresType, GoodTable(tx), NEW n \in Blocks, tx[n] # Absent
  PROVE  MergeRows(n) = Whole(n) /\ MergeRows(n) \in Nat
  BY PipelineAssumption DEF GoodTable, MergeRows, Whole

-----------------------------------------------------------------------------
(* Steps that move control and leave the stores alone. *)

\* The stores, the cursor and the files stay.
StoresStay == UNCHANGED <<applied, results, tx, disk, snap, lastDone>>

\* Nobody enters the loop of SyncResults, and whoever stays in it keeps its locals.
LoopsStay ==
  /\ \A u \in Tasks : pc'[u] \in LoopPcs => pc'[u] = pc[u] /\ cur'[u] = cur[u] /\ to'[u] = to[u]
  /\ (\E u \in Tasks : pc'[u] = "merge") => row' = row
  /\ \A u \in Tasks : pc[u] = "merge" => pc'[u] = "merge" /\ cur'[u] = cur[u]

CoinsStay == \A n \in Blocks : coins[n] = Coins[n] => coins'[n] = Coins[n]

\* A digested block that waits for its merge keeps waiting.
WaitStays ==
  \/ Covered(tx, applied)
  \/ /\ synchronizing' = synchronizing
     /\ \A u \in Tasks : pc'[u] \in EarlyPcs => pc[u] \in EarlyPcs

SaveStays ==
  pc'["main"] \in SavePcs =>
    /\ pc'["main"] = pc["main"] /\ cur'["main"] = cur["main"]
    /\ accepted' = accepted /\ synchronizing' = synchronizing

LEMMA ControlStep ==
  ASSUME LedgerInv, StoresStay, LoopsStay, CoinsStay, WaitStays, SaveStays, Up' => Up,
         ~Up' => ~Up
  PROVE  LedgerInv'
<1> USE DEF LedgerInv, StoresStay
<1>1. GoodLedger(applied, results)' /\ GoodFiles'
  BY DEF GoodLedger, GoodFiles, GoodTable, Covered, Whole
<1>2. GoodMemory'
  <2>1. GoodTable(tx)' /\ (~Up' => tx' = disk'.tx)
    BY DEF GoodMemory, GoodTable
  <2>2. ASSUME NEW n \in Blocks, tx'[n] # Absent
        PROVE  applied'[n] = Whole(n) \/ NotYetMerged(n)'
    BY <2>2 DEF GoodMemory, WaitStays, Covered, NotYetMerged
  <2>3. QED
    BY <2>1, <2>2 DEF GoodMemory, Whole
<1>3. GoodCursor'
  BY DEF GoodCursor, LoopsStay
<1>4. GoodLoop'
  <2>1. ASSUME NEW u \in Tasks, pc'[u] \in LoopPcs
        PROVE  /\ pc'[u] = pc[u] /\ cur'[u] = cur[u] /\ to'[u] = to[u]
               /\ pc'[u] = "merge" => row' = row
    BY <2>1 DEF LoopsStay
  <2>2. \A n : MergeRows(n)' = MergeRows(n)
    BY DEF MergeRows
  <2>3. \A u \in Tasks : pc'[u] \in {"calc", "merge"} => pc'[u] \in LoopPcs
    BY DEF LoopPcs
  <2>4. QED
    BY <2>1, <2>2, <2>3 DEF GoodLoop, CoinsStay, LoopPcs
<1>5. GoodSave'
  BY DEF GoodSave, SaveStays, SavePcs
<1>6. QED
  BY <1>1, <1>2, <1>3, <1>4, <1>5

-----------------------------------------------------------------------------
(* Bitcore, the clock, the clients, and the callers of SyncResults. *)

LEMMA OutsideStep ==
  ASSUME FullInv,
         NewBlock \/ Tick \/ Connect \/ EmergencyStop \/ ListenerChecks
           \/ \E n \in Blocks : CollectCoin(n)
  PROVE  LedgerInv'
<1> USE DEF env, mmaps, memory, files, locks, locals, bounds
<1>0. PcType /\ StoresType /\ LedgerInv
  BY DEF FullInv, TypeInv, TypeOK
<1>1. StoresStay /\ UNCHANGED <<cur, to, row, synchronizing, accepted>>
  BY DEF StoresStay, NewBlock, Tick, Connect, EmergencyStop, ListenerChecks, CollectCoin
<1>2. CoinsStay
  BY <1>0 DEF CoinsStay, NewBlock, Tick, Connect, EmergencyStop, ListenerChecks, CollectCoin, StoresType
<1>3. pc' = pc \/ pc' = [pc EXCEPT !["listener"] = "done"]
        \/ pc' = [pc EXCEPT !["listener"] = "accept"]
  BY DEF NewBlock, Tick, Connect, EmergencyStop, ListenerChecks, CollectCoin
<1>4. pc' = pc \/ pc["listener"] = "check"
  BY DEF NewBlock, Tick, Connect, EmergencyStop, ListenerChecks, CollectCoin
<1>5. LoopsStay /\ WaitStays /\ SaveStays /\ (Up' <=> Up)
  BY <1>0, <1>1, <1>3, <1>4 DEF LoopsStay, WaitStays, SaveStays, Up, PcType, Tasks, LoopPcs, EarlyPcs, SavePcs
<1>6. QED
  BY <1>0, <1>1, <1>2, <1>5, ControlStep

\* A task that was outside of SyncResults calls it, with the lock taken or free.
LEMMA EnterStep ==
  ASSUME FullInv, StoresStay, NEW t \in Tasks, SyncBegins(t),
         coins' = coins, row' = row, Up,
         pc[t] \in {"repl", "accept"},
         pc["main"] \notin SavePcs
  PROVE  LedgerInv'
<1>0. PcType /\ LockInv /\ LedgerInv
  BY DEF FullInv, TypeInv, TypeOK
<1>1. CASE synchronizing
  <2>1. Return(t) /\ synchronizing' = synchronizing
    BY <1>1 DEF SyncBegins
  <2>2. CASE t = "listener"
    <3>1. pc' = [pc EXCEPT !["listener"] = "check"]
          /\ cur' = [cur EXCEPT !["listener"] = 0] /\ to' = [to EXCEPT !["listener"] = 0]
      BY <2>1, <2>2 DEF Return
    <3>2. LoopsStay /\ WaitStays /\ (Up' <=> Up)
      BY <1>0, <2>1, <2>2, <3>1 DEF LoopsStay, WaitStays, Up, PcType, Tasks, LoopPcs, EarlyPcs
    <3>3. SaveStays
      BY <1>0, <3>1 DEF SaveStays, PcType, Tasks
    <3>4. QED
      BY <1>0, <3>2, <3>3, ControlStep DEF CoinsStay
  <2>3. CASE t = "main"
    <3>1. /\ pc' = [u \in Tasks |-> IF u = "main" THEN "repl" ELSE IF pc[u] = "off" THEN "check" ELSE pc[u]]
          /\ cur' = [cur EXCEPT !["main"] = 0] /\ to' = [to EXCEPT !["main"] = 0]
      BY <2>1, <2>3 DEF Return
    <3>2. LoopsStay /\ WaitStays /\ (Up' <=> Up) /\ SaveStays
      BY <1>0, <2>1, <2>3, <3>1 DEF LoopsStay, WaitStays, Up, PcType, Tasks, LoopPcs, EarlyPcs, SaveStays, SavePcs
    <3>3. QED
      BY <1>0, <3>2, ControlStep DEF CoinsStay
  <2>4. QED
    BY <2>2, <2>3 DEF Tasks
<1>2. CASE ~synchronizing
  <2>1. pc' = [pc EXCEPT ![t] = "info"] /\ cur' = cur /\ to' = to
    BY <1>2 DEF SyncBegins
  <2>2. Covered(tx, applied)
    BY <1>0, <1>2, EarlyCovered DEF LedgerInv
  <2>3. LoopsStay /\ WaitStays /\ (Up' <=> Up) /\ SaveStays
    BY <1>0, <1>2, <2>1, <2>2 DEF LoopsStay, WaitStays, Up, PcType, Tasks, LoopPcs, SaveStays, SavePcs
  <2>4. QED
    BY <1>0, <2>3, ControlStep DEF CoinsStay
<1>3. QED
  BY <1>1, <1>2

LEMMA CallerStep ==
  ASSUME FullInv, OperatorSync \/ TcpTrigger
  PROVE  LedgerInv'
<1> USE DEF env, mmaps, memory, files, locks, locals, bounds
<1>0. PcType /\ LockInv /\ LedgerInv /\ GoodSave
  BY DEF FullInv, TypeInv, TypeOK, LedgerInv
<1>1. StoresStay /\ coins' = coins /\ row' = row
  BY DEF OperatorSync, TcpTrigger, StoresStay
<1>2. CASE OperatorSync
  BY <1>0, <1>1, <1>2, EnterStep DEF OperatorSync, Up, Tasks, SavePcs
<1>3. CASE TcpTrigger /\ ~accepted
  <2>1. pc["main"] \notin SavePcs /\ SyncBegins("listener") /\ pc["listener"] = "accept"
    BY <1>0, <1>3 DEF TcpTrigger, TriggerIgnored, GoodSave
  <2>2. Up
    BY <1>0, <2>1 DEF LockInv, Up
  <2>3. QED
    BY <1>1, <2>1, <2>2, EnterStep DEF Tasks
<1>4. CASE TcpTrigger /\ accepted
  <2>1. pc' = [pc EXCEPT !["listener"] = "check"] /\ pc["listener"] = "accept"
        /\ UNCHANGED <<accepted, synchronizing, cur, to>>
    BY <1>4 DEF TcpTrigger, TriggerIgnored
  <2>2. LoopsStay /\ WaitStays /\ SaveStays /\ (Up' <=> Up)
    BY <1>0, <1>1, <2>1 DEF LoopsStay, WaitStays, SaveStays, Up, PcType, Tasks, LoopPcs, EarlyPcs, SavePcs
  <2>3. QED
    BY <1>0, <1>1, <2>2, ControlStep DEF CoinsStay
<1>5. QED
  BY <1>2, <1>3, <1>4

-----------------------------------------------------------------------------
(* SyncResults: the steps before the digest, and the ways out. *)

\* A task returns from SyncResults, freeing the lock when nothing waits for a
\* merge, or leaving it set.
LEMMA LeaveStep ==
  ASSUME FullInv, StoresStay, NEW t \in Tasks, pc[t] \in SyncPcs \ {"merge"}, Return(t),
         coins' = coins, row' = row,
         synchronizing' = synchronizing \/ Covered(tx, applied)
  PROVE  LedgerInv'
<1>0. PcType /\ LockInv /\ LedgerInv
  BY DEF FullInv, TypeInv, TypeOK
<1>1. Up /\ (\A u \in Tasks : u # t => pc[u] \notin SyncPcs)
         /\ (pc["main"] \notin SavePcs \/ t = "listener")
  BY <1>0, Alone
<1>2. SaveStays
  <2>1. pc["main"] \notin SavePcs
    BY <1>0, Alone DEF LedgerInv, GoodSave
  <2>2. QED
    BY <1>0, <2>1 DEF SaveStays, Return, PcType, Tasks, SavePcs
<1>3. LoopsStay /\ WaitStays /\ (Up' <=> Up)
  <2>1. CASE t = "listener"
    BY <1>0, <1>1, <2>1 DEF Return, LoopsStay, WaitStays, Up, PcType, Tasks, LoopPcs, EarlyPcs, SyncPcs
  <2>2. CASE t = "main"
    BY <1>0, <1>1, <2>2 DEF Return, LoopsStay, WaitStays, Up, PcType, Tasks, LoopPcs, EarlyPcs, SyncPcs
  <2>3. QED
    BY <2>1, <2>2 DEF Tasks
<1>4. QED
  BY <1>0, <1>2, <1>3, ControlStep DEF CoinsStay

LEMMA HaltStep ==
  ASSUME FullInv, Halt, UNCHANGED <<applied, results, disk, snap>>
  PROVE  LedgerInv'
<1> USE DEF LedgerInv
<1>0. LedgerInv /\ tx' = disk.tx
  BY DEF FullInv, Halt
<1>1. \A u \in Tasks : pc'[u] \notin LoopPcs
  BY DEF Halt, LoopPcs
<1>2. ~Up' /\ pc'["main"] \notin SavePcs
  BY DEF Halt, Up, SavePcs, Tasks
<1>3. GoodLedger(applied, results)' /\ GoodFiles'
  BY <1>0 DEF GoodLedger, GoodFiles, GoodTable, Covered, Whole
<1>4. GoodMemory'
  BY <1>0 DEF GoodMemory, GoodFiles, GoodTable, Covered, Whole
<1>5. GoodCursor'
  BY <1>2 DEF GoodCursor
<1>6. GoodLoop'
  BY <1>1 DEF GoodLoop, LoopPcs
<1>7. GoodSave'
  BY <1>2 DEF GoodSave, SavePcs
<1>8. QED
  BY <1>3, <1>4, <1>5, <1>6, <1>7

\* An exception ends the process, or the call with the lock still set.
LEMMA RaiseStep ==
  ASSUME FullInv, NEW t \in Tasks, pc[t] \in SyncPcs \ {"merge"}, Raise(t),
         UNCHANGED <<env, mmaps, files>>
  PROVE  LedgerInv'
<1> USE DEF env, mmaps, memory, files
<1>1. CASE pc["listener"] = "off"
  BY <1>1, HaltStep DEF Raise
<1>2. CASE pc["listener"] # "off"
  BY <1>2, LeaveStep DEF Raise, StoresStay
<1>3. QED
  BY <1>1, <1>2

LEMMA ExitStep ==
  ASSUME FullInv, NEW t \in Tasks,
         MarketFails(t) \/ DigestRaises(t) \/ StoreRaises(t) \/ CallRaises(t)
  PROVE  LedgerInv'
<1>1. CASE MarketFails(t)
  <2>1. Covered(tx, applied)
    BY <1>1, EarlyCovered DEF MarketFails, EarlyPcs, FullInv, LedgerInv
  <2>2. QED
    BY <1>1, <2>1, LeaveStep DEF MarketFails, Release, StoresStay, SyncPcs, env, mmaps, memory, files
<1>2. CASE DigestRaises(t)
  BY <1>2, RaiseStep DEF DigestRaises, SyncPcs
<1>3. CASE StoreRaises(t)
  BY <1>3, RaiseStep DEF StoreRaises, SyncPcs
<1>4. CASE CallRaises(t)
  BY <1>4, RaiseStep DEF CallRaises, SyncPcs
<1>5. QED
  BY <1>1, <1>2, <1>3, <1>4

\* SyncBlockInfo, and the way into the loop: nothing is read yet but the clock.
LEMMA RangeStep ==
  ASSUME FullInv, NEW t \in Tasks, SyncBlockInfo(t) \/ MarketSynced(t)
  PROVE  LedgerInv'
<1> USE DEF env, mmaps, memory, files, locks, locals, bounds
<1>0. PcType /\ LockInv /\ LedgerInv /\ LocalsType
  BY DEF FullInv, TypeInv, TypeOK
<1>1. pc[t] \in EarlyPcs /\ pc[t] \in SyncPcs \ {"merge"}
  BY DEF SyncBlockInfo, MarketSynced, EarlyPcs, SyncPcs
<1>2. /\ Covered(tx, applied)
      /\ Up /\ (\A u \in Tasks : u # t => pc[u] \notin SyncPcs)
      /\ pc["main"] \notin SavePcs
  BY <1>0, <1>1, EarlyCovered, Alone DEF LedgerInv, GoodSave
<1>3. StoresStay /\ coins' = coins /\ row' = row
  BY DEF SyncBlockInfo, MarketSynced, StoresStay
<1>4. CASE SyncBlockInfo(t)
  <2>1. pc' = [pc EXCEPT ![t] = "market"] /\ cur' = cur /\ to' = to
    BY <1>4 DEF SyncBlockInfo
  <2>2. LoopsStay /\ WaitStays /\ SaveStays /\ (Up' <=> Up)
    BY <1>0, <1>1, <1>2, <1>3, <2>1 DEF LoopsStay, WaitStays, SaveStays, Up, PcType, Tasks, LoopPcs, SavePcs, EarlyPcs
  <2>3. QED
    BY <1>0, <1>3, <2>2, ControlStep DEF CoinsStay
<1>5. CASE MarketSynced(t) /\ Timestamp2LastBlockN(known, clock) < lastDone + 1
  BY <1>1, <1>2, <1>3, <1>5, LeaveStep DEF MarketSynced, Release
<1>6. CASE MarketSynced(t) /\ ~(Timestamp2LastBlockN(known, clock) < lastDone + 1)
  <2>1. /\ pc' = [pc EXCEPT ![t] = "sleep"] /\ cur' = [cur EXCEPT ![t] = lastDone + 1]
        /\ UNCHANGED <<synchronizing, accepted>> /\ pc[t] = "market"
    BY <1>6 DEF MarketSynced
  <2>2. \A u \in Tasks : pc'[u] \in LoopPcs => u = t /\ pc'[u] = "sleep" /\ cur'[u] = lastDone + 1
    BY <1>0, <1>2, <2>1 DEF PcType, LocalsType, LoopPcs, SyncPcs
  <2>3. pc'["main"] \notin SavePcs /\ Up'
    BY <1>0, <1>2, <2>1 DEF PcType, Up, SavePcs, Tasks
  <2>4. GoodLedger(applied, results)' /\ GoodFiles'
    BY <1>0, <1>3 DEF LedgerInv, StoresStay, GoodLedger, GoodFiles, GoodTable, Covered, Whole
  <2>5. GoodMemory'
    BY <1>0, <1>2, <1>3, <2>3 DEF LedgerInv, StoresStay, GoodMemory, GoodTable, Covered, Whole
  <2>6. GoodCursor'
    <3>1. \A n \in Blocks : n > lastDone => ~(applied[n] > 0)
      BY <1>0, <1>1, NothingAbove DEF LedgerInv
    <3>2. QED
      BY <1>0, <1>2, <1>3, <3>1 DEF LedgerInv, StoresStay, GoodCursor
  <2>7. GoodLoop'
    BY <1>3, <2>2 DEF GoodLoop, StoresStay, LoopPcs
  <2>8. GoodSave'
    BY <2>3 DEF GoodSave, SavePcs
  <2>9. QED
    BY <2>4, <2>5, <2>6, <2>7, <2>8 DEF LedgerInv
<1>7. QED
  BY <1>4, <1>5, <1>6

-----------------------------------------------------------------------------
(* The loop of SyncResults. *)

\* A task in the loop is at the block after the cursor, and alone.
LEMMA InLoop ==
  ASSUME FullInv, NEW t \in Tasks, pc[t] \in LoopPcs
  PROVE  /\ StoresType /\ PcType /\ LocalsType /\ LockInv /\ LedgerInv
         /\ lastDone \in Blocks /\ cur[t] \in Blocks /\ to[t] \in Blocks
         /\ cur[t] = lastDone + 1 /\ cur[t] <= to[t]
         /\ Up /\ synchronizing
         /\ \A u \in Tasks : u # t => pc[u] \notin SyncPcs /\ pc[u] \notin LoopPcs
         /\ pc["main"] \notin SavePcs
<1>1. StoresType /\ PcType /\ LocalsType /\ LockInv /\ LedgerInv
  BY DEF FullInv, TypeInv, TypeOK
<1>2. pc[t] \in SyncPcs /\ \A u \in Tasks : pc[u] \notin SyncPcs => pc[u] \notin LoopPcs
  BY DEF LoopPcs, SyncPcs
<1>3. /\ Up /\ synchronizing
      /\ \A u \in Tasks : u # t => pc[u] \notin SyncPcs
  BY <1>1, <1>2, Alone
<1>4. pc["main"] \notin SavePcs
  BY <1>1, <1>3 DEF LedgerInv, GoodSave
<1>5. lastDone \in Blocks
  BY <1>1, <1>3 DEF LedgerInv, GoodCursor, StoresType
<1>6. cur[t] \in Blocks /\ to[t] \in Blocks /\ cur[t] <= to[t]
  BY DEF FullInv, TypeInv, LoopInRange
<1>7. cur[t] = lastDone + 1
  BY <1>1 DEF LedgerInv, GoodLoop
<1>8. QED
  BY <1>1, <1>2, <1>3, <1>4, <1>5, <1>6, <1>7

\* A step of the loop that goes on to another point of it.
LEMMA LoopMove ==
  ASSUME FullInv, NEW t \in Tasks, pc[t] \in LoopPcs, NEW q \in LoopPcs,
         pc' = [pc EXCEPT ![t] = q]
  PROVE  /\ pc'[t] = q
         /\ \A u \in Tasks : u # t => pc'[u] = pc[u] /\ pc'[u] \notin LoopPcs /\ pc'[u] \notin EarlyPcs
         /\ Up' /\ pc'["main"] \notin SavePcs
<1>1. PcType /\ pc["main"] \notin SavePcs /\ Up
         /\ \A u \in Tasks : u # t => pc[u] \notin SyncPcs /\ pc[u] \notin LoopPcs
  BY InLoop
<1>2. QED
  BY <1>1 DEF PcType, Up, LoopPcs, SavePcs, EarlyPcs, SyncPcs, Tasks

LEMMA SleepStep ==
  ASSUME Timely, FullInv, NEW t \in Tasks, Sleep(t)
  PROVE  LedgerInv'
<1> USE DEF env, mmaps, memory, files, locks, locals, bounds
<1>0. pc[t] = "sleep" /\ pc' = [pc EXCEPT ![t] = "digest"]
      /\ \A n \in cur[t] .. to[t] : coins[n] = Coins[n]
  BY DEF Sleep
<1>1. pc[t] \in LoopPcs /\ pc[t] \in EarlyPcs /\ pc[t] \in SyncPcs \ {"merge"}
  BY <1>0 DEF LoopPcs, EarlyPcs, SyncPcs
<1>2. /\ lastDone \in Blocks /\ cur[t] = lastDone + 1 /\ LedgerInv /\ PcType /\ LockInv
      /\ cur[t] \in Blocks /\ to[t] \in Blocks
  BY <1>1, InLoop
<1>3. /\ pc'[t] = "digest" /\ Up' /\ pc'["main"] \notin SavePcs
      /\ \A u \in Tasks : u # t => pc'[u] = pc[u] /\ pc'[u] \notin LoopPcs
  BY <1>0, <1>1, LoopMove DEF LoopPcs
<1>4. StoresStay /\ UNCHANGED <<coins, cur, to, row, synchronizing>>
  BY DEF Sleep, StoresStay
<1>5. GoodLedger(applied, results)' /\ GoodFiles'
  BY <1>2, <1>4 DEF LedgerInv, StoresStay, GoodLedger, GoodFiles, GoodTable, Covered, Whole
<1>6. GoodMemory'
  <2>1. Covered(tx, applied)
    BY <1>1, <1>2, EarlyCovered DEF LedgerInv
  <2>2. QED
    BY <1>2, <1>3, <1>4, <2>1 DEF LedgerInv, StoresStay, GoodMemory, GoodTable, Covered, Whole
<1>7. GoodCursor'
  <2>1. \A n \in Blocks : n > lastDone => ~(applied[n] > 0)
    BY <1>1, <1>2, NothingAbove DEF LedgerInv
  <2>2. QED
    BY <1>2, <1>4, <2>1, <1>1, InLoop DEF LedgerInv, StoresStay, GoodCursor
<1>8. GoodLoop'
  <2>1. ASSUME NEW n \in Blocks, cur[t] <= n, n <= to[t] PROVE coins[n] = Coins[n]
    BY <1>0, <1>2, <2>1, TsAssumption DEF Blocks
  <2>2. QED
    BY <1>2, <1>3, <1>4, <2>1 DEF GoodLoop, StoresStay, LoopPcs
<1>9. GoodSave'
  BY <1>3 DEF GoodSave, SavePcs
<1>10. QED
  BY <1>5, <1>6, <1>7, <1>8, <1>9 DEF LedgerInv

LEMMA DigestStep ==
  ASSUME FullInv, NEW t \in Tasks, Digest(t)
  PROVE  LedgerInv'
<1> USE DEF env, mmaps, memory, files, locks, locals, bounds
<1> DEFINE n == cur[t]
<1>0. pc[t] = "digest" /\ pc' = [pc EXCEPT ![t] = "calc"] /\ tx[n - 1] # Absent
  BY DEF Digest, BlockLocated
<1>1. pc[t] \in LoopPcs /\ pc[t] \in EarlyPcs /\ pc[t] \in SyncPcs \ {"merge"}
  BY <1>0 DEF LoopPcs, EarlyPcs, SyncPcs
<1>2. /\ lastDone \in Blocks /\ n = lastDone + 1 /\ LedgerInv /\ PcType /\ LockInv /\ StoresType
      /\ n \in Blocks /\ to[t] \in Blocks /\ n <= to[t] /\ Up /\ synchronizing
  BY <1>1, InLoop
<1>3. /\ pc'[t] = "calc" /\ Up' /\ pc'["main"] \notin SavePcs
      /\ \A u \in Tasks : u # t => pc'[u] = pc[u] /\ pc'[u] \notin LoopPcs /\ pc'[u] \notin EarlyPcs
  BY <1>0, <1>1, LoopMove DEF LoopPcs
<1>4. UNCHANGED <<coins, cur, to, row, synchronizing, applied, results, disk, snap, lastDone>>
  BY DEF Digest
<1>5. GoodLedger(applied, results)' /\ GoodFiles'
  BY <1>2, <1>4 DEF LedgerInv, GoodLedger, GoodFiles, GoodTable, Covered, Whole
<1>6. Covered(tx, applied) /\ GoodTable(tx) /\ lastDone \in Int
  BY <1>1, <1>2, EarlyCovered, TsAssumption DEF LedgerInv, GoodMemory, Blocks
<1>7. coins[n] = Coins[n]
  <2>1. pc[t] \in LoopPcs \ {"sleep"}
    BY <1>0, <1>1
  <2>2. \A m \in Blocks : n <= m /\ m <= to[t] => coins[m] = Coins[m]
    BY <1>2, <2>1 DEF LedgerInv, GoodLoop
  <2>3. n <= n
    BY <1>2 DEF Blocks
  <2>4. QED
    BY <1>2, <2>2, <2>3
<1>8. tx' = tx \/ /\ tx' = [tx EXCEPT ![n] = Coins[n]]
                  /\ \A m \in Blocks : m > n - 1 => tx[m] = Absent
  BY <1>7 DEF Digest, AppendRows, RowsAfter
<1>9. \A m \in Blocks : m < n => tx'[m] = tx[m] /\ tx[m] # Absent
  <2>1. \A m \in Blocks : m < n => m = n - 1 \/ m < n - 1
    BY <1>2, TsAssumption DEF Blocks
  <2>2. n - 1 \in Blocks /\ n - 1 = lastDone
    BY <1>2, <1>6
  <2>3. \A m \in Blocks : m < n => tx[m] # Absent
    BY <1>0, <1>6, <2>1, <2>2 DEF GoodTable
  <2>4. \A m \in Blocks : m < n => m # n
    BY TsAssumption DEF Blocks
  <2>5. QED
    BY <1>2, <1>8, <2>3, <2>4 DEF StoresType, Table
<1>10. GoodMemory'
  <2>1. NotYetMerged(n)'
    <3>1. pc'[t] \notin EarlyPcs
      BY <1>3 DEF EarlyPcs
    <3>2. QED
      BY <1>2, <1>3, <1>4, <3>1 DEF NotYetMerged
  <2>2. CASE tx' = tx
    BY <1>3, <1>4, <1>6, <2>2 DEF GoodMemory, GoodTable, Covered, Whole
  <2>3. CASE tx' = [tx EXCEPT ![n] = Coins[n]] /\ \A m \in Blocks : m > n - 1 => tx[m] = Absent
    <3>1. ASSUME NEW k \in Blocks, tx'[k] # Absent
          PROVE  k = n \/ (k < n /\ tx'[k] = tx[k])
      <4>1. CASE k = n
        BY <4>1
      <4>2. CASE k # n
        <5>1. tx'[k] = tx[k]
          BY <1>2, <2>3, <4>2 DEF StoresType, Table
        <5>2. ~(k > n - 1)
          BY <2>3, <3>1, <5>1
        <5>3. k \in Int /\ n \in Int
          BY <1>2, TsAssumption DEF Blocks
        <5>4. QED
          BY <5>1, <5>2, <5>3
      <4>3. QED
        BY <4>1, <4>2
    <3>2. tx'[n] = Coins[n]
      BY <1>2, <2>3 DEF StoresType, Table
    <3>3. ASSUME NEW k \in Blocks, tx'[k] # Absent, NEW m \in Blocks, m < k PROVE tx'[m] # Absent
      <4>1. m < n
        BY <1>2, <3>1, <3>3, TsAssumption DEF Blocks
      <4>2. QED
        BY <1>9, <4>1
    <3>4. GoodTable(tx)'
      BY <3>1, <3>2, <3>3, <1>6 DEF GoodTable
    <3>5. \A k \in Blocks : tx'[k] # Absent => applied'[k] = Whole(k) \/ NotYetMerged(k)'
      BY <3>1, <2>1, <1>4, <1>6 DEF Covered
    <3>6. QED
      BY <3>4, <3>5, <1>3 DEF GoodMemory, Whole
  <2>4. QED
    BY <1>8, <2>2, <2>3
<1>11. GoodCursor'
  <2>1. \A k \in Blocks : k > lastDone => ~(applied[k] > 0)
    BY <1>1, <1>2, NothingAbove DEF LedgerInv
  <2>2. QED
    BY <1>2, <1>4, <2>1 DEF LedgerInv, GoodCursor
<1>12. GoodLoop'
  <2>1. tx'[lastDone'] # Absent
    BY <1>2, <1>4, <1>9, TsAssumption DEF Blocks
  <2>2. \A m \in Blocks : n <= m /\ m <= to[t] => coins[m] = Coins[m]
    BY <1>0, <1>2 DEF LedgerInv, GoodLoop, LoopPcs
  <2>3. QED
    BY <1>2, <1>3, <1>4, <2>1, <2>2 DEF GoodLoop, LoopPcs
<1>13. GoodSave'
  BY <1>3 DEF GoodSave, SavePcs
<1>14. QED
  BY <1>5, <1>10, <1>11, <1>12, <1>13 DEF LedgerInv

LEMMA StoreStep ==
  ASSUME FullInv, NEW t \in Tasks, StoreResult(t)
  PROVE  LedgerInv'
<1> USE DEF env, mmaps, memory, files, locks, locals, bounds
<1> DEFINE n == cur[t]
<1>0. /\ pc[t] = "calc" /\ pc' = [pc EXCEPT ![t] = "merge"] /\ tx[n] # Absent
      /\ results' = results \cup {n} /\ row' = 0
  BY DEF StoreResult, BlockLocated, SetRow
<1>1. pc[t] \in LoopPcs /\ pc[t] \in SyncPcs \ {"merge"}
  BY <1>0 DEF LoopPcs, SyncPcs
<1>2. /\ lastDone \in Blocks /\ n = lastDone + 1 /\ LedgerInv /\ PcType /\ LockInv /\ StoresType
      /\ n \in Blocks /\ Up /\ synchronizing
  BY <1>1, InLoop
<1>3. /\ pc'[t] = "merge" /\ Up' /\ pc'["main"] \notin SavePcs
      /\ \A u \in Tasks : u # t => pc'[u] = pc[u] /\ pc'[u] \notin LoopPcs /\ pc'[u] \notin EarlyPcs
  BY <1>0, <1>1, LoopMove DEF LoopPcs
<1>4. UNCHANGED <<coins, cur, to, tx, synchronizing, applied, disk, snap, lastDone>>
  BY DEF StoreResult
<1>5. ASSUME NEW m \in Blocks, m < n PROVE applied[m] = Whole(m)
  <2>1. tx[lastDone] # Absent
    BY <1>0, <1>2 DEF LedgerInv, GoodLoop
  <2>2. lastDone \in Int /\ m <= lastDone
    BY <1>2, <1>5, TsAssumption DEF Blocks
  <2>3. lastDone <= lastDone
    BY <2>2
  <2>4. QED
    BY <1>2, <2>1, <2>2, <2>3, MergedBelow DEF LedgerInv
<1>6. GoodLedger(applied, results)'
  <2>1. GoodLedger(applied, results)
    BY <1>2 DEF LedgerInv
  <2>2. \A k \in Blocks : applied[k] <= Whole(k)
    BY <2>1 DEF GoodLedger
  <2>3. \A m, k \in Blocks : m < k /\ k \in results' => applied[m] = Whole(m)
    BY <1>0, <1>5, <2>1 DEF GoodLedger
  <2>4. Base \in results' /\ \A k \in Blocks : applied[k] > 0 => k \in results'
    BY <1>0, <2>1 DEF GoodLedger
  <2>5. QED
    BY <1>4, <2>2, <2>3, <2>4 DEF GoodLedger, Whole
<1>7. GoodFiles'
  BY <1>2, <1>4 DEF LedgerInv, GoodLedger, GoodFiles, GoodTable, Covered, Whole
<1>8. GoodMemory'
  <2>1. ASSUME NEW k \in Blocks, NotYetMerged(k) PROVE NotYetMerged(k)'
    BY <1>3, <1>4, <2>1 DEF NotYetMerged, EarlyPcs
  <2>2. QED
    BY <1>2, <1>3, <1>4, <2>1 DEF LedgerInv, GoodMemory, GoodTable, Whole
<1>9. \A k \in Blocks : k > lastDone => ~(applied[k] > 0)
  BY <1>1, <1>2, NothingAbove DEF LedgerInv
<1>10. GoodCursor'
  BY <1>0, <1>2, <1>4, <1>9 DEF LedgerInv, GoodCursor
<1>11. GoodLoop'
  <2>1. applied[n] = 0
    <3>1. applied[n] \in Nat /\ lastDone \in Int
      BY <1>2, TsAssumption DEF StoresType, Blocks
    <3>2. n > lastDone
      BY <1>2, <3>1
    <3>3. QED
      BY <1>2, <1>9, <3>1, <3>2
  <2>2. MergeRows(n)' = MergeRows(n) /\ MergeRows(n) \in Nat
    BY <1>0, <1>2, <1>4, RowsOfBlock DEF LedgerInv, GoodMemory, MergeRows
  <2>3. tx[lastDone] # Absent
    BY <1>0, <1>2 DEF LedgerInv, GoodLoop
  <2>4. \A m \in Blocks : n <= m /\ m <= to[t] => coins[m] = Coins[m]
    BY <1>0, <1>2 DEF LedgerInv, GoodLoop, LoopPcs
  <2>5. 0 <= MergeRows(n)
    BY <2>2
  <2>6. /\ tx'[cur'[t]] # Absent /\ cur'[t] \in results'
        /\ applied'[cur'[t]] = row' /\ row' <= MergeRows(cur[t])'
    BY <1>0, <1>4, <2>1, <2>2, <2>5
  <2>7. QED
    BY <1>2, <1>3, <1>4, <2>3, <2>4, <2>6 DEF GoodLoop, LoopPcs
<1>12. GoodSave'
  BY <1>3 DEF GoodSave, SavePcs
<1>13. QED
  BY <1>6, <1>7, <1>8, <1>10, <1>11, <1>12 DEF LedgerInv

\* What a task in the merge loop knows.
LEMMA InMerge ==
  ASSUME FullInv, NEW t \in Tasks, pc[t] = "merge"
  PROVE  /\ tx[cur[t]] = Coins[cur[t]] /\ tx[cur[t]] # Absent /\ cur[t] \in results
         /\ MergeRows(cur[t]) = Whole(cur[t]) /\ MergeRows(cur[t]) \in Nat
         /\ applied[cur[t]] = row /\ row <= MergeRows(cur[t]) /\ row \in Nat
         /\ tx[lastDone] # Absent
<1>1. pc[t] \in LoopPcs
  BY DEF LoopPcs
<1>2. LedgerInv /\ StoresType /\ LocalsType /\ cur[t] \in Blocks
  BY <1>1, InLoop
<1>3. /\ tx[cur[t]] # Absent /\ cur[t] \in results /\ tx[lastDone] # Absent
      /\ applied[cur[t]] = row /\ row <= MergeRows(cur[t])
  BY <1>2 DEF LedgerInv, GoodLoop
<1>4. tx[cur[t]] = Coins[cur[t]]
  BY <1>2, <1>3 DEF LedgerInv, GoodMemory, GoodTable
<1>5. MergeRows(cur[t]) = Whole(cur[t]) /\ MergeRows(cur[t]) \in Nat
  BY <1>2, <1>3, RowsOfBlock DEF LedgerInv, GoodMemory
<1>6. row \in Nat
  BY <1>2 DEF LocalsType
<1>7. QED
  BY <1>3, <1>4, <1>5, <1>6

LEMMA MergeRowStep ==
  ASSUME FullInv, NEW t \in Tasks, MergeRow(t)
  PROVE  LedgerInv'
<1> USE DEF env, mmaps, memory, files, locks, locals, bounds
<1> DEFINE c == cur[t]
<1>0. /\ pc[t] = "merge" /\ row < MergeRows(c) /\ row' = row + 1
      /\ applied' = [applied EXCEPT ![c] = @ + 1]
  BY DEF MergeRow
<1>1. pc[t] \in LoopPcs
  BY <1>0 DEF LoopPcs
<1>2. /\ lastDone \in Blocks /\ c = lastDone + 1 /\ LedgerInv /\ PcType /\ LockInv /\ StoresType
      /\ c \in Blocks /\ Up /\ synchronizing /\ pc["main"] \notin SavePcs
      /\ \A u \in Tasks : u # t => pc[u] \notin SyncPcs /\ pc[u] \notin LoopPcs
  BY <1>1, InLoop
<1>3. UNCHANGED <<pc, coins, cur, to, tx, synchronizing, results, disk, snap, lastDone, accepted>>
  BY DEF MergeRow
<1>4. /\ tx[c] # Absent /\ c \in results /\ MergeRows(c) = Whole(c) /\ MergeRows(c) \in Nat
      /\ applied[c] = row /\ row \in Nat /\ tx[lastDone] # Absent
  BY <1>0, InMerge
<1>5. applied'[c] = row + 1 /\ \A m \in Blocks : m # c => applied'[m] = applied[m]
  BY <1>0, <1>2, <1>4 DEF StoresType
<1>6. applied[c] # Whole(c) /\ row + 1 <= MergeRows(c)
  BY <1>0, <1>4
<1>7. GoodLedger(applied, results) /\ GoodFiles /\ GoodMemory /\ GoodCursor /\ GoodLoop
  BY <1>2 DEF LedgerInv
<1>8. \A table : Covered(table, applied) => Covered(table, applied')
  BY <1>2, <1>5, <1>6 DEF Covered
<1>9. GoodLedger(applied, results)'
  <2>1. \A m, n \in Blocks : m < n /\ n \in results => applied'[m] = Whole(m)
    <3>1. \A m, n \in Blocks : m < n /\ n \in results => m # c
      BY <1>2, <1>6, <1>7 DEF GoodLedger
    <3>2. QED
      BY <1>5, <1>7, <3>1 DEF GoodLedger
  <2>2. \A n \in Blocks : applied'[n] <= Whole(n)
    BY <1>4, <1>5, <1>6, <1>7 DEF GoodLedger
  <2>3. Base \in results /\ \A n \in Blocks : applied'[n] > 0 => n \in results
    BY <1>4, <1>5, <1>7 DEF GoodLedger
  <2>4. QED
    BY <1>3, <2>1, <2>2, <2>3 DEF GoodLedger, Whole
<1>10. GoodFiles'
  <2>1. Covered(disk.tx, applied')
    BY <1>7, <1>8 DEF GoodFiles
  <2>2. QED
    BY <1>3, <1>7, <2>1 DEF GoodFiles, GoodTable, Covered, GoodLedger, Whole
<1>11. GoodMemory'
  <2>1. \A u \in Tasks : pc[u] \notin EarlyPcs
    BY <1>0, <1>2 DEF EarlyPcs, SyncPcs
  <2>2. NotYetMerged(c)
    BY <1>2, <2>1 DEF NotYetMerged
  <2>3. \A n \in Blocks : NotYetMerged(n)' = NotYetMerged(n)
    BY <1>3 DEF NotYetMerged
  <2>4. \A n \in Blocks : tx[n] # Absent => applied'[n] = Whole(n) \/ NotYetMerged(n)'
    BY <1>5, <1>7, <2>2, <2>3 DEF GoodMemory
  <2>5. QED
    BY <1>2, <1>3, <1>7, <2>4 DEF GoodMemory, GoodTable, Up, Whole
<1>12. GoodCursor'
  BY <1>0, <1>3, <1>5, <1>7 DEF GoodCursor, Up
<1>13. GoodLoop'
  <2>1. \A n : MergeRows(n)' = MergeRows(n)
    BY <1>3 DEF MergeRows
  <2>2. QED
    BY <1>0, <1>2, <1>3, <1>4, <1>5, <1>6, <1>7, <2>1 DEF GoodLoop, LoopPcs
<1>14. GoodSave'
  BY <1>2, <1>3 DEF GoodSave, SavePcs
<1>15. QED
  BY <1>9, <1>10, <1>11, <1>12, <1>13, <1>14 DEF LedgerInv

LEMMA MergeDoneStep ==
  ASSUME FullInv, NEW t \in Tasks, MergeDone(t)
  PROVE  LedgerInv'
<1> USE DEF env, mmaps, memory, files, locks, locals, bounds
<1> DEFINE c == cur[t]
<1>0. pc[t] = "merge" /\ row >= MergeRows(c) /\ lastDone' = c
  BY DEF MergeDone, CursorAfter
<1>1. pc[t] \in LoopPcs
  BY <1>0 DEF LoopPcs
<1>2. /\ lastDone \in Blocks /\ c = lastDone + 1 /\ LedgerInv /\ PcType /\ LocalsType /\ StoresType
      /\ c \in Blocks /\ to[t] \in Blocks /\ Up /\ synchronizing /\ pc["main"] \notin SavePcs
      /\ \A u \in Tasks : u # t => pc[u] \notin SyncPcs /\ pc[u] \notin LoopPcs
  BY <1>1, InLoop
<1>3. UNCHANGED <<coins, tx, applied, results, disk, snap>>
  BY DEF MergeDone
<1>4. /\ tx[c] # Absent /\ c \in results /\ MergeRows(c) = Whole(c) /\ MergeRows(c) \in Nat
      /\ applied[c] = row /\ row \in Nat /\ row <= MergeRows(c)
  BY <1>0, InMerge
<1>5. applied[c] = Whole(c)
  BY <1>0, <1>4
<1>6. Covered(tx, applied)
  <2>1. ASSUME NEW n \in Blocks, tx[n] # Absent PROVE applied[n] = Whole(n)
    <3>1. applied[n] = Whole(n) \/ n = lastDone + 1
      BY <1>2, <2>1 DEF LedgerInv, GoodMemory, NotYetMerged
    <3>2. QED
      BY <1>2, <1>5, <3>1
  <2>2. QED
    BY <2>1 DEF Covered
<1>7. /\ \A u \in Tasks : pc'[u] \in LoopPcs =>
            u = t /\ pc'[u] = "digest" /\ cur'[u] = c + 1 /\ to'[u] = to[u] /\ c < to[t]
      /\ Up' /\ pc'["main"] \notin SavePcs
  <2>1. CASE c < to[t]
    <3>1. pc' = [pc EXCEPT ![t] = "digest"] /\ cur' = [cur EXCEPT ![t] = c + 1] /\ to' = to
      BY <2>1 DEF MergeDone
    <3>2. QED
      BY <1>2, <2>1, <3>1 DEF PcType, LocalsType, Up, Tasks, SavePcs, LoopPcs
  <2>2. CASE ~(c < to[t])
    <3>1. Return(t)
      BY <2>2 DEF MergeDone, Release
    <3>2. CASE t = "main"
      BY <1>2, <3>1, <3>2 DEF Return, PcType, Up, Tasks, SavePcs, LoopPcs
    <3>3. CASE t = "listener"
      BY <1>2, <3>1, <3>3 DEF Return, PcType, Up, Tasks, SavePcs, LoopPcs
    <3>4. QED
      BY <3>2, <3>3 DEF Tasks
  <2>3. QED
    BY <2>1, <2>2
<1>8. GoodLedger(applied, results)' /\ GoodFiles'
  BY <1>2, <1>3 DEF LedgerInv, GoodLedger, GoodFiles, GoodTable, Covered, Whole
<1>9. GoodMemory'
  BY <1>2, <1>3, <1>6, <1>7 DEF LedgerInv, GoodMemory, GoodTable, Covered, Whole
<1>10. GoodCursor'
  <2>1. ASSUME NEW n \in Blocks, n > c PROVE ~(applied[n] > 0)
    <3>1. n > lastDone /\ n # c
      BY <1>2, <2>1, TsAssumption DEF Blocks
    <3>2. \A u \in Tasks : pc[u] = "merge" => u = t
      BY <1>2 DEF LoopPcs
    <3>3. QED
      BY <1>2, <3>1, <3>2 DEF LedgerInv, GoodCursor
  <2>2. QED
    BY <1>0, <1>3, <1>4, <2>1 DEF GoodCursor
<1>11. GoodLoop'
  <2>1. ASSUME c < to[t] PROVE \A n \in Blocks : c + 1 <= n /\ n <= to[t] => coins[n] = Coins[n]
    <3>1. \A n \in Blocks : c <= n /\ n <= to[t] => coins[n] = Coins[n]
      BY <1>0, <1>2 DEF LedgerInv, GoodLoop, LoopPcs
    <3>2. \A n \in Blocks : c + 1 <= n => c <= n
      BY <1>2, TsAssumption DEF Blocks
    <3>3. QED
      BY <3>1, <3>2
  <2>2. \A u \in Tasks : pc'[u] \in {"calc", "merge"} => pc'[u] \in LoopPcs
    BY DEF LoopPcs
  <2>3. QED
    BY <1>0, <1>3, <1>7, <2>1, <2>2 DEF GoodLoop, LoopPcs
<1>12. GoodSave'
  BY <1>7 DEF GoodSave, SavePcs
<1>13. QED
  BY <1>8, <1>9, <1>10, <1>11, <1>12 DEF LedgerInv

-----------------------------------------------------------------------------
(* The start of the service. *)

LEMMA LastResultIsBlock ==
  ASSUME TypeOK, GoodLedger(applied, results)
  PROVE  GetLastResultsID \in results /\ GetLastResultsID \in Blocks
<1>1. results \in SUBSET Nat /\ results # {} /\ \A n \in results : n <= N
  BY TsAssumption DEF TypeOK, StoresType, Blocks, GoodLedger
<1>2. Max(results) \in results
  BY <1>1, TsAssumption, MaxOfNats
<1>3. QED
  BY <1>1, <1>2 DEF GetLastResultsID, TypeOK, StoresType

LEMMA StartStep ==
  ASSUME FullInv, Start
  PROVE  LedgerInv'
<1> USE DEF env, mmaps, memory, files, locks, locals, bounds
<1>0. TypeOK /\ PcType /\ LockInv /\ LedgerInv /\ StoresType
  BY DEF FullInv, TypeInv, TypeOK
<1>1. pc["main"] = "down" /\ pc["listener"] = "off" /\ ~synchronizing
  BY <1>0 DEF Start, Up, LockInv
<1>2. pc' = [pc EXCEPT !["main"] = "info"]
  BY <1>1 DEF Start, SyncBegins
<1>3. (\A u \in Tasks : pc'[u] \notin LoopPcs) /\ Up' /\ pc'["main"] \notin SavePcs
  BY <1>0, <1>1, <1>2 DEF PcType, Tasks, LoopPcs, Up, SavePcs
<1>4. UNCHANGED <<coins, tx, applied, results, disk, snap>>
  BY DEF Start
<1>5. lastDone' = GetLastResultsID
  BY DEF Start, StoresAgree, CursorAtStart
<1>6. GoodLedger(applied, results)' /\ GoodFiles'
  BY <1>0, <1>4 DEF LedgerInv, GoodLedger, GoodFiles, GoodTable, Covered, Whole
<1>7. GoodMemory'
  <2>1. Covered(tx, applied)
    BY <1>0, <1>1, EarlyCovered DEF LedgerInv
  <2>2. QED
    BY <1>0, <1>3, <1>4, <2>1 DEF LedgerInv, GoodMemory, GoodTable, Covered, Whole
<1>8. GoodCursor'
  <2>1. GetLastResultsID \in results
    BY <1>0, LastResultIsBlock DEF LedgerInv
  <2>2. ASSUME NEW n \in Blocks, n > GetLastResultsID PROVE n \notin results
    BY <1>0, <2>1, <2>2, LastResultsType, TsAssumption DEF Blocks
  <2>3. QED
    BY <1>0, <1>4, <1>5, <2>1, <2>2 DEF LedgerInv, GoodCursor, GoodLedger
<1>9. GoodLoop'
  BY <1>3 DEF GoodLoop, LoopPcs
<1>10. GoodSave'
  BY <1>3 DEF GoodSave, SavePcs
<1>11. QED
  BY <1>6, <1>7, <1>8, <1>9, <1>10 DEF LedgerInv

LEMMA DeployStep ==
  ASSUME FullInv, NEW id \in Blocks, Deploy(id)
  PROVE  LedgerInv'
<1> USE DEF env, mmaps, memory, files, locks, locals, bounds
<1> DEFINE s == snap[id]
<1>0. PcType /\ LockInv /\ LedgerInv
  BY DEF FullInv, TypeInv, TypeOK
<1>1. /\ pc["main"] = "down" /\ ~Up /\ s.done /\ pc' = pc /\ snap' = snap
      /\ applied' = s.addr /\ results' = s.res /\ tx' = s.tx /\ disk'.tx = s.tx
  BY DEF Deploy, Up
<1>2. \A u \in Tasks : pc'[u] \notin LoopPcs
  BY <1>0, <1>1 DEF LockInv, Tasks, LoopPcs
<1>3. GoodTable(s.tx) /\ Covered(s.tx, s.addr) /\ GoodLedger(s.addr, s.res)
  BY <1>0, <1>1 DEF LedgerInv, GoodFiles
<1>4. GoodLedger(applied, results)' /\ GoodFiles'
  BY <1>0, <1>1, <1>3 DEF LedgerInv, GoodLedger, GoodFiles, GoodTable, Covered, Whole
<1>5. GoodMemory'
  BY <1>1, <1>3 DEF GoodMemory, GoodTable, Covered, Whole
<1>6. GoodCursor' /\ GoodSave'
  BY <1>1 DEF GoodCursor, GoodSave, Up, SavePcs
<1>7. GoodLoop'
  BY <1>2 DEF GoodLoop, LoopPcs
<1>8. QED
  BY <1>4, <1>5, <1>6, <1>7 DEF LedgerInv

-----------------------------------------------------------------------------
(* Saves. *)

LEMMA SaveBeginsStep ==
  ASSUME SaveWhenIdle, FullInv, SaveBegins
  PROVE  LedgerInv'
<1> USE DEF env, mmaps, memory, files, locks, locals, bounds
<1>0. TypeOK /\ PcType /\ LocalsType /\ LockInv /\ LedgerInv
  BY DEF FullInv, TypeInv, TypeOK
<1>1. /\ pc["main"] = "repl" /\ ~synchronizing /\ accepted'
      /\ UNCHANGED <<coins, tx, applied, results, disk, snap, lastDone, synchronizing, row, to>>
  BY DEF SaveBegins
<1>2. \/ pc' = pc
      \/ /\ pc' = [pc EXCEPT !["main"] = "saveAddress"]
         /\ cur' = [cur EXCEPT !["main"] = GetLastResultsID]
  BY DEF SaveBegins
<1>3. \A u \in Tasks : pc'[u] \notin LoopPcs /\ pc[u] \notin LoopPcs
  BY <1>0, <1>1, <1>2 DEF LockInv, PcType, Tasks, LoopPcs, SyncPcs
<1>4. Up' /\ Up /\ (pc'["main"] \in SavePcs =>
                      pc'["main"] = "saveAddress" /\ cur'["main"] = GetLastResultsID)
  BY <1>0, <1>1, <1>2 DEF PcType, LocalsType, Up, SavePcs, Tasks
<1>5. GoodLedger(applied, results)' /\ GoodFiles'
  BY <1>0, <1>1 DEF LedgerInv, GoodLedger, GoodFiles, GoodTable, Covered, Whole
<1>6. GoodMemory'
  <2>1. Covered(tx, applied)
    BY <1>0, <1>1, EarlyCovered DEF LedgerInv
  <2>2. QED
    BY <1>0, <1>1, <1>4, <2>1 DEF LedgerInv, GoodMemory, GoodTable, Covered, Whole
<1>7. GoodCursor'
  BY <1>0, <1>1, <1>3, <1>4 DEF LedgerInv, GoodCursor, LoopPcs
<1>8. GoodLoop'
  BY <1>3 DEF GoodLoop, LoopPcs
<1>9. GoodSave'
  <2>1. GetLastResultsID \in Blocks
    BY <1>0, LastResultIsBlock DEF LedgerInv
  <2>2. QED
    BY <1>1, <1>4, <2>1 DEF GoodSave, SavePcs
<1>10. QED
  BY <1>5, <1>6, <1>7, <1>8, <1>9 DEF LedgerInv

\* A save moves to its next store, or ends: everything but the snapshot stays.
LEMMA SavingStep ==
  ASSUME FullInv, pc["main"] \in SavePcs, NEW q \in SavePcs \cup {"repl"},
         pc' = [pc EXCEPT !["main"] = q],
         UNCHANGED <<env, mmaps, memory, disk, lastDone, synchronizing, row>>,
         GoodFiles', GoodSave'
  PROVE  LedgerInv'
<1> USE DEF env, mmaps, memory
<1>0. PcType /\ LockInv /\ LedgerInv /\ ~synchronizing
  BY DEF FullInv, TypeInv, TypeOK, LedgerInv, GoodSave
<1>1. \A u \in Tasks : pc'[u] \notin LoopPcs /\ pc[u] \notin LoopPcs
  BY <1>0 DEF LockInv, PcType, Tasks, LoopPcs, SyncPcs, SavePcs
<1>2. Up' /\ Up
  BY <1>0 DEF PcType, Up, SavePcs, Tasks
<1>3. GoodLedger(applied, results)'
  BY <1>0 DEF LedgerInv, GoodLedger, Whole
<1>4. GoodMemory'
  <2>1. Covered(tx, applied)
    BY <1>0, EarlyCovered DEF LedgerInv
  <2>2. QED
    BY <1>0, <1>2, <2>1 DEF LedgerInv, GoodMemory, GoodTable, Covered, Whole
<1>5. GoodCursor'
  BY <1>0, <1>1, <1>2 DEF LedgerInv, GoodCursor, LoopPcs
<1>6. GoodLoop'
  BY <1>1 DEF GoodLoop, LoopPcs
<1>7. QED
  BY <1>3, <1>4, <1>5, <1>6 DEF LedgerInv

\* Writing to an unfinished snapshot leaves the finished ones alone.
LEMMA FilesStay ==
  ASSUME GoodFiles, NEW c \in Blocks, NEW r, snap' = [snap EXCEPT ![c] = r], ~r.done,
         StoresType, disk' = disk, applied' = applied
  PROVE  GoodFiles' /\ snap'[c] = r
<1>1. snap'[c] = r /\ \A id \in Blocks : id # c => snap'[id] = snap[id]
  BY DEF StoresType
<1>2. ASSUME NEW id \in Blocks, snap'[id].done
      PROVE  /\ GoodTable(snap'[id].tx) /\ Covered(snap'[id].tx, snap'[id].addr)
             /\ GoodLedger(snap'[id].addr, snap'[id].res)
  BY <1>1, <1>2 DEF GoodFiles
<1>3. GoodTable(disk.tx) /\ Covered(disk.tx, applied)
  BY DEF GoodFiles
<1>4. QED
  BY <1>1, <1>2, <1>3 DEF GoodFiles, GoodTable, Covered, GoodLedger, Whole

LEMMA SaveStepKeeps ==
  ASSUME FullInv, SaveStep
  PROVE  LedgerInv'
<1> USE DEF env, mmaps, memory, files, locks, locals, bounds
<1> DEFINE c == cur["main"]
           s == snap[c]
<1>0. StoresType /\ PcType /\ LockInv /\ LedgerInv /\ GoodFiles /\ GoodSave
  BY DEF FullInv, TypeInv, TypeOK, LedgerInv
<1>1. pc["main"] \in SavePcs
  BY DEF SaveStep, SaveStore, SaveAddress, SaveResults, SaveIds, SaveLog, SaveTx, SaveBalance, SavePcs
<1>2. c \in Blocks /\ accepted /\ ~synchronizing /\ s \in SnapshotType
  BY <1>0, <1>1 DEF GoodSave, StoresType
<1>3. \A q : pc' = [pc EXCEPT !["main"] = q] => pc'["main"] = q
  BY <1>0 DEF PcType, Tasks
<1>4. CASE SaveAddress
  <2> DEFINE r == [s EXCEPT !.addr = applied, !.done = FALSE]
  <2>1. ~r.done /\ r.addr = applied
    BY <1>2 DEF SnapshotType
  <2>2. GoodFiles' /\ snap'[c] = r
    BY <1>0, <1>2, <1>4, <2>1, FilesStay DEF SaveAddress
  <2>3. GoodSave'
    BY <1>2, <1>3, <1>4, <2>1, <2>2 DEF SaveAddress, GoodSave
  <2>4. QED
    BY <1>1, <1>4, <2>2, <2>3, SavingStep DEF SaveAddress, SavePcs
<1>5. CASE SaveResults
  <2> DEFINE r == [s EXCEPT !.res = results]
  <2>0. s.addr = applied /\ ~s.done /\ pc["main"] = "saveResults"
    BY <1>0, <1>5 DEF SaveResults, SaveStore, GoodSave, SavePcs
  <2>1. ~r.done /\ r.addr = applied /\ r.res = results
    BY <1>2, <2>0 DEF SnapshotType
  <2>2. GoodFiles' /\ snap'[c] = r
    BY <1>0, <1>2, <1>5, <2>1, FilesStay DEF SaveResults, SaveStore
  <2>3. GoodSave'
    BY <1>2, <1>3, <1>5, <2>1, <2>2 DEF SaveResults, SaveStore, GoodSave
  <2>4. QED
    BY <1>1, <1>5, <2>2, <2>3, SavingStep DEF SaveResults, SaveStore, SavePcs
<1>6. CASE SaveIds
  <2> DEFINE r == [s EXCEPT !.ids = ids]
  <2>0. s.addr = applied /\ ~s.done /\ s.res = results
    BY <1>0, <1>6 DEF SaveIds, SaveStore, GoodSave, SavePcs
  <2>1. ~r.done /\ r.addr = applied /\ r.res = results
    BY <1>2, <2>0 DEF SnapshotType
  <2>2. GoodFiles' /\ snap'[c] = r
    BY <1>0, <1>2, <1>6, <2>1, FilesStay DEF SaveIds, SaveStore
  <2>3. GoodSave'
    BY <1>2, <1>3, <1>6, <2>1, <2>2 DEF SaveIds, SaveStore, GoodSave
  <2>4. QED
    BY <1>1, <1>6, <2>2, <2>3, SavingStep DEF SaveIds, SaveStore, SavePcs
<1>7. CASE SaveTx
  <2> DEFINE r == [s EXCEPT !.tx = tx]
  <2>0. s.addr = applied /\ ~s.done /\ s.res = results
    BY <1>0, <1>7 DEF SaveTx, SaveStore, GoodSave, SavePcs
  <2>1. ~r.done /\ r.addr = applied /\ r.res = results /\ r.tx = tx
    BY <1>2, <2>0 DEF SnapshotType
  <2>2. GoodFiles' /\ snap'[c] = r
    BY <1>0, <1>2, <1>7, <2>1, FilesStay DEF SaveTx, SaveStore
  <2>3. GoodSave'
    BY <1>2, <1>3, <1>7, <2>1, <2>2 DEF SaveTx, SaveStore, GoodSave
  <2>4. QED
    BY <1>1, <1>7, <2>2, <2>3, SavingStep DEF SaveTx, SaveStore, SavePcs
<1>8. CASE SaveLog /\ s.log
  <2>1. pc' = [pc EXCEPT !["main"] = "repl"] /\ snap' = snap
    BY <1>8 DEF SaveLog
  <2>2. disk' = disk /\ applied' = applied
    BY <1>8 DEF SaveLog
  <2>3. GoodFiles'
    BY <1>0, <2>1, <2>2 DEF GoodFiles, GoodTable, Covered, GoodLedger, Whole
  <2>4. pc'["main"] = "repl"
    BY <1>3, <2>1
  <2>5. GoodSave'
    BY <2>4 DEF GoodSave, SavePcs
  <2>6. QED
    BY <1>1, <1>8, <2>3, <2>4, <2>5, SavingStep DEF SaveLog
<1>9. CASE SaveLog /\ ~s.log
  <2> DEFINE r == [s EXCEPT !.log = TRUE]
  <2>0. s.addr = applied /\ ~s.done /\ s.res = results
    BY <1>0, <1>9 DEF SaveLog, GoodSave, SavePcs
  <2>1. ~r.done /\ r.addr = applied /\ r.res = results
    BY <1>2, <2>0 DEF SnapshotType
  <2>2. GoodFiles' /\ snap'[c] = r
    BY <1>0, <1>2, <1>9, <2>1, FilesStay DEF SaveLog
  <2>3. GoodSave'
    BY <1>2, <1>3, <1>9, <2>1, <2>2 DEF SaveLog, GoodSave
  <2>4. QED
    BY <1>1, <1>9, <2>2, <2>3, SavingStep DEF SaveLog, SavePcs
<1>10. CASE SaveBalance
  <2> DEFINE r == [s EXCEPT !.bal = bal, !.done = TRUE]
  <2>0. s.addr = applied /\ s.res = results /\ s.tx = tx
    BY <1>0, <1>10 DEF SaveBalance, GoodSave, SavePcs
  <2>1. r.addr = applied /\ r.res = results /\ r.tx = tx
    BY <1>2, <2>0 DEF SnapshotType
  <2>2. GoodTable(tx) /\ Covered(tx, applied) /\ GoodLedger(applied, results)
    BY <1>0, <1>2, EarlyCovered DEF LedgerInv, GoodMemory
  <2>3. snap'[c] = r /\ \A id \in Blocks : id # c => snap'[id] = snap[id]
    BY <1>0, <1>2, <1>10 DEF SaveBalance, StoresType
  <2>4. GoodFiles'
    <3>1. ASSUME NEW id \in Blocks, snap'[id].done
          PROVE  /\ GoodTable(snap'[id].tx) /\ Covered(snap'[id].tx, snap'[id].addr)
                 /\ GoodLedger(snap'[id].addr, snap'[id].res)
      BY <1>0, <2>1, <2>2, <2>3, <3>1 DEF GoodFiles
    <3>2. disk' = disk /\ applied' = applied
      BY <1>10 DEF SaveBalance
    <3>3. GoodTable(disk.tx) /\ Covered(disk.tx, applied)
      BY <1>0 DEF GoodFiles
    <3>4. QED
      BY <3>1, <3>2, <3>3 DEF GoodFiles, GoodTable, Covered, GoodLedger, Whole
  <2>5. GoodSave'
    BY <1>3, <1>10 DEF SaveBalance, GoodSave, SavePcs
  <2>6. QED
    BY <1>1, <1>10, <2>4, <2>5, SavingStep DEF SaveBalance
<1>11. QED
  BY <1>4, <1>5, <1>6, <1>7, <1>8, <1>9, <1>10 DEF SaveStep

-----------------------------------------------------------------------------
(* The invariant holds from the start and every step keeps it. *)

LEMMA LedgerInit == Init => LedgerInv
<1> SUFFICES ASSUME Init PROVE LedgerInv
  OBVIOUS
<1> USE PipelineAssumption, TsAssumption DEF Blocks
<1>1. pc["main"] = "down" /\ \A t \in Tasks : pc[t] \notin LoopPcs \cup EarlyPcs \cup SavePcs
  BY DEF Init, Tasks, LoopPcs, EarlyPcs, SavePcs
<1>2. GoodTable(tx)
  BY DEF Init, GoodTable, Absent
<1>3. Covered(tx, applied)
  BY DEF Init, Covered, Absent
<1>4. GoodLedger(applied, results)
  BY DEF Init, GoodLedger, Whole
<1>5. GoodFiles
  BY <1>2, <1>3 DEF Init, GoodFiles, NoSnapshot
<1>6. GoodMemory
  BY <1>1, <1>2, <1>3 DEF Init, GoodMemory, Covered
<1>7. GoodCursor /\ GoodLoop /\ GoodSave
  BY <1>1 DEF GoodCursor, GoodLoop, GoodSave, Up, LoopPcs, SavePcs, Tasks
<1>8. QED
  BY <1>4, <1>5, <1>6, <1>7 DEF LedgerInv

LEMMA StutterStep ==
  ASSUME FullInv, UNCHANGED vars
  PROVE  LedgerInv'
<1> USE DEF vars, env, mmaps, memory, files, locks, locals, bounds
<1>1. LedgerInv
  BY DEF FullInv
<1>2. StoresStay /\ LoopsStay /\ CoinsStay /\ WaitStays /\ SaveStays /\ Up' = Up
  BY DEF StoresStay, LoopsStay, CoinsStay, WaitStays, SaveStays, Up
<1>3. QED
  BY <1>1, <1>2, ControlStep

LEMMA LedgerStep ==
  ASSUME Timely, SaveWhenIdle, FullInv, [Next]_vars
  PROVE  LedgerInv'
<1>1. CASE UNCHANGED vars
  BY <1>1, StutterStep
<1>2. CASE NewBlock \/ Tick \/ Connect \/ EmergencyStop \/ ListenerChecks
             \/ \E n \in Blocks : CollectCoin(n)
  BY <1>2, OutsideStep
<1>3. CASE OperatorSync \/ TcpTrigger
  BY <1>3, CallerStep
<1>4. CASE Start
  BY <1>4, StartStep
<1>5. ASSUME NEW t \in Tasks, SyncStep(t) PROVE LedgerInv'
  BY <1>5, RangeStep, ExitStep, SleepStep, DigestStep, StoreStep, MergeRowStep, MergeDoneStep
     DEF SyncStep
<1>6. CASE SaveBegins
  BY <1>6, SaveBeginsStep
<1>7. CASE SaveStep
  BY <1>7, SaveStepKeeps
<1>8. CASE Crash
  BY <1>8, HaltStep DEF Crash, mmaps, files
<1>9. CASE \E id \in Blocks : Deploy(id)
  BY <1>9, DeployStep
<1>10. QED
  BY <1>1, <1>2, <1>3, <1>4, <1>5, <1>6, <1>7, <1>8, <1>9 DEF Next

LEMMA FullInvariant ==
  ASSUME Timely, SaveWhenIdle
  PROVE  Spec => []FullInv
<1>1. Init => FullInv
  BY TypeInit, LockInit, LedgerInit DEF FullInv
<1>2. FullInv /\ [Next]_vars => FullInv'
  BY TypeStep, LockStep, LedgerStep DEF FullInv
<1>3. QED
  BY <1>1, <1>2, PTL DEF Spec

\* What a step does to the address state.
LEMMA AppliedSteps ==
  ASSUME Next
  PROVE  applied' = applied \/ (\E t \in Tasks : MergeRow(t)) \/ \E id \in Blocks : Deploy(id)
<1> USE DEF mmaps
<1>1. CASE NewBlock \/ Tick \/ Connect \/ \E n \in Blocks : CollectCoin(n)
  BY <1>1 DEF NewBlock, Tick, Connect, CollectCoin
<1>2. CASE Start \/ OperatorSync \/ ListenerChecks \/ TcpTrigger \/ EmergencyStop
  BY <1>2 DEF Start, OperatorSync, ListenerChecks, TcpTrigger, EmergencyStop
<1>3. ASSUME NEW t \in Tasks, SyncStep(t) PROVE applied' = applied \/ MergeRow(t)
  BY <1>3 DEF SyncStep, SyncBlockInfo, MarketSynced, MarketFails, Sleep, Digest, DigestRaises,
       StoreResult, StoreRaises, CallRaises, MergeDone
<1>4. CASE SaveBegins \/ SaveStep \/ Crash
  BY <1>4 DEF SaveBegins, SaveStep, SaveStore, SaveAddress, SaveResults, SaveIds, SaveLog, SaveTx,
       SaveBalance, Crash
<1>5. QED
  BY <1>1, <1>2, <1>3, <1>4 DEF Next

-----------------------------------------------------------------------------
(* What follows for the ledger.  Timely is assumed of bitcore and not ensured *)
(* by the code: the sleeps are fixed (3 and 5 seconds), and a digest that      *)
(* comes too early takes what is there.  SaveWhenIdle is assumed of the        *)
(* operator.  SnapshotProofs shows what holds without either.                 *)

\* If bitcore completes every block within the sleeps and saves are made only
\* while no sync runs, however often the process is killed, a call raises or a
\* snapshot is put back: MergeBlock2AddressState touches a block only after it
\* has finished all the blocks below.
THEOREM LedgerInOrder ==
  ASSUME Timely, SaveWhenIdle
  PROVE  Spec => []MergedInOrder
<1>1. FullInv => MergedInOrder
  BY DEF FullInv, LedgerInv, GoodLedger, MergedInOrder
<1>2. QED
  BY <1>1, FullInvariant, PTL

\* On the same two assumptions: every block below LastDoneBlock, which the
\* service guesses at its start from the last active timestamp in the address
\* state, is merged whole, and above it nothing is but rows of the block in the
\* merge loop.  Of the block LastDoneBlock itself it says nothing: after a kill in
\* its merge that block is merged in part.
THEOREM LedgerCursor ==
  ASSUME Timely, SaveWhenIdle
  PROVE  Spec => []CursorMeans
<1>1. FullInv => CursorMeans
  <2> SUFFICES ASSUME FullInv, Up PROVE CursorMeans
    BY DEF CursorMeans
  <2>1. GoodLedger(applied, results) /\ lastDone \in results /\ results \subseteq Blocks
    BY DEF FullInv, LedgerInv, GoodCursor, TypeInv, TypeOK, StoresType
  <2>2. \A n \in Blocks : n < lastDone => applied[n] = Whole(n)
    BY <2>1 DEF GoodLedger
  <2>3. QED
    BY <2>2 DEF CursorMeans, FullInv, LedgerInv, GoodCursor
<1>2. QED
  BY <1>1, FullInvariant, PTL
=============================================================================
