-------------------------- MODULE CoinLedgerProofs --------------------------
(***************************************************************************)
(* CoinLedger.tla for every chain, any number of addresses and coins: ids, *)
(* rows, balances, the input of the calculations and the address state     *)
(* tell one story.                                                         *)
(***************************************************************************)
EXTENDS CoinLedger, DataLemmas, FiniteSetTheorems

-----------------------------------------------------------------------------
(* Ids.  Every address gets the next one, so there are never more ids than  *)
(* addresses.                                                               *)

Known(dict) == {a \in Addresses : dict[a] # 0}

GoodDict(dict) ==
  /\ dict \in [Addresses -> Ids \cup {0}]
  /\ \A a, b \in Known(dict) : dict[a] = dict[b] => a = b
  /\ \A a \in Known(dict) : dict[a] <= TagMax + Cardinality(Known(dict))

LEMMA IdsAreNumbers ==
  /\ Cardinality(Addresses) \in Nat /\ IsFiniteSet(Addresses)
  /\ Ids \subseteq Nat \ {0} /\ \A id \in Ids : id > TagMax
<1>1. IsFiniteSet(Addresses) /\ Cardinality(Addresses) \in Nat
  BY CoinLedgerAssumption, FS_CardinalityType
<1>2. QED
  BY <1>1 DEF Ids, TagMax

\* GenerateID gives an address an id if it has none, and leaves the others alone.
LEMMA GenerateIDGood ==
  ASSUME NEW dict, GoodDict(dict), NEW a \in Addresses
  PROVE  LET new == GenerateID(dict, a) IN
         /\ GoodDict(new) /\ new[a] # 0
         /\ \A b \in Addresses : b # a \/ dict[b] # 0 => new[b] = dict[b]
<1>1. CASE dict[a] # 0
  BY <1>1 DEF GenerateID
<1>2. CASE dict[a] = 0
  <2> DEFINE ids == {dict[b] : b \in Addresses} \cup {TagMax}
             top == Max(ids)
             new == [dict EXCEPT ![a] = top + 1]
             card == Cardinality(Known(dict))
  <2>1. Known(dict) \subseteq Addresses /\ IsFiniteSet(Known(dict)) /\ card \in Nat
    BY IdsAreNumbers, FS_Subset, FS_CardinalityType DEF Known
  <2>2. ids \in SUBSET Nat /\ ids # {} /\ \A i \in ids : i <= TagMax + card
    <3>1. ASSUME NEW b \in Addresses PROVE dict[b] \in Nat /\ dict[b] <= TagMax + card
      <4>1. CASE dict[b] = 0
        BY <2>1, <4>1 DEF TagMax
      <4>2. CASE dict[b] # 0
        <5>1. b \in Known(dict) /\ dict[b] \in Ids
          BY <4>2 DEF GoodDict, Known
        <5>2. QED
          BY <5>1, IdsAreNumbers DEF GoodDict
      <4>3. QED
        BY <4>1, <4>2
    <3>2. QED
      BY <2>1, <3>1 DEF TagMax
  <2>3. /\ top \in Nat /\ TagMax <= top /\ top <= TagMax + card
        /\ \A b \in Addresses : dict[b] <= top
    <3>1. TagMax + card \in Nat
      BY <2>1 DEF TagMax
    <3>2. top \in ids /\ \A i \in ids : i <= top
      <4> HIDE DEF ids
      <4>1. QED
        BY <2>2, <3>1, MaxOfNats
    <3>3. QED
      BY <2>2, <3>2
  <2> HIDE DEF top
  <2>4. dict \in [Addresses -> Ids \cup {0}]
    BY DEF GoodDict
  <2>5. new[a] = top + 1 /\ \A b \in Addresses : b # a => new[b] = dict[b]
    BY <2>4
  <2>6. Known(new) = Known(dict) \cup {a} /\ a \notin Known(dict)
    BY <1>2, <2>3, <2>4 DEF Known
  <2>7. Cardinality(Known(new)) = card + 1
    BY <2>1, <2>6, FS_AddElement
  <2>8. card + 1 <= Cardinality(Addresses)
    <3>1. Known(new) \subseteq Addresses
      BY DEF Known
    <3>2. QED
      BY <2>7, <3>1, IdsAreNumbers, FS_Subset
  <2>9. new \in [Addresses -> Ids \cup {0}]
    <3>1. top + 1 \in Ids
      BY <2>1, <2>3, <2>8, IdsAreNumbers DEF Ids, TagMax
    <3>2. QED
      BY <2>4, <3>1
  <2>10. ASSUME NEW b \in Known(new), NEW c \in Known(new), new[b] = new[c] PROVE b = c
    <3>1. \A d \in Known(dict) : dict[d] # top + 1
      BY <2>1, <2>3, <2>4, IdsAreNumbers DEF Known
    <3>2. QED
      BY <2>5, <2>6, <2>10, <3>1 DEF GoodDict, Known
  <2>11. ASSUME NEW b \in Known(new) PROVE new[b] <= TagMax + Cardinality(Known(new))
    <3>1. CASE b = a
      BY <2>1, <2>3, <2>5, <2>7, <3>1 DEF TagMax
    <3>2. CASE b # a
      <4>1. b \in Known(dict) /\ new[b] = dict[b] /\ dict[b] \in Nat
        BY <2>4, <2>5, <2>6, <3>2, IdsAreNumbers DEF Known
      <4>2. QED
        BY <2>1, <2>7, <4>1 DEF GoodDict, TagMax
    <3>3. QED
      BY <3>1, <3>2
  <2>12. GenerateID(dict, a) = new
    BY <1>2 DEF GenerateID, top
  <2>13. GoodDict(new)
    BY <2>9, <2>10, <2>11 DEF GoodDict
  <2>14. QED
    BY <1>2, <2>3, <2>5, <2>12, <2>13
<1>3. QED
  BY <1>1, <1>2

\* So do all addresses of a list, one after the other.
LEMMA IdsGiven ==
  ASSUME NEW dict, GoodDict(dict), NEW list \in Seq(Addresses)
  PROVE  LET new == FoldLeft(GenerateID, dict, list) IN
         /\ GoodDict(new)
         /\ \A i \in DOMAIN list : new[list[i]] # 0
         /\ \A a \in Addresses : dict[a] # 0 => new[a] = dict[a]
         /\ \A a \in Addresses : new[a] # 0 => dict[a] # 0 \/ \E i \in DOMAIN list : list[i] = a
<1> DEFINE Folding(g) == g = [t \in SUBSET DOMAIN list |->
                                IF t = {} THEN dict
                                ELSE GenerateID(g[t \ {Max(t)}], list[Max(t)])]
           F == CHOOSE g : Folding(g)
<1>1. PICK L \in Nat : L = Len(list) /\ DOMAIN list = 1 .. L
  OBVIOUS
<1>2. PICK X : X = {d \in [Addresses -> Ids \cup {0}] : GoodDict(d)}
  OBVIOUS
<1>3. PICK step : step = [i \in 1 .. L |-> [d \in X |-> GenerateID(d, list[i])]]
  OBVIOUS
<1>4. \A d \in X, i \in 1 .. L : step[i][d] = GenerateID(d, list[i])
  BY <1>3
<1>5. ASSUME NEW d \in X, NEW i \in 1 .. L
      PROVE  /\ GenerateID(d, list[i]) \in X
             /\ GenerateID(d, list[i])[list[i]] # 0
             /\ \A b \in Addresses : b # list[i] \/ d[b] # 0 => GenerateID(d, list[i])[b] = d[b]
  <2>1. GoodDict(d) /\ list[i] \in Addresses
    BY <1>1, <1>2
  <2>2. PICK new : new = GenerateID(d, list[i])
    OBVIOUS
  <2>3. /\ GoodDict(new) /\ new[list[i]] # 0
        /\ \A b \in Addresses : b # list[i] \/ d[b] # 0 => new[b] = d[b]
    BY <2>1, <2>2, GenerateIDGood
  <2>4. new \in X
    BY <1>2, <2>3 DEF GoodDict
  <2>5. QED
    BY <2>2, <2>3, <2>4
<1>6. Steps(X, dict, step, L)
  <2>1. dict \in X
    BY <1>2 DEF GoodDict
  <2>2. step \in [1 .. L -> [X -> X]]
    BY <1>3, <1>5
  <2>3. QED
    BY <2>1, <2>2 DEF Steps
<1>7. \E g : Folding(g)
  <2>1. PICK g \in [SUBSET (1 .. L) -> X] : IsFold(g, X, dict, step, L)
    BY <1>6, FoldExists
  <2>2. \A t \in SUBSET (1 .. L) :
          g[t] = IF t = {} THEN dict ELSE GenerateID(g[t \ {Max(t)}], list[Max(t)])
    BY <1>4, <2>1, MaxOfPart DEF IsFold
  <2>3. Folding(g)
    BY <1>1, <2>2
  <2> HIDE DEF Folding
  <2>4. QED
    BY <2>3
<1>8. Folding(F)
  <2> HIDE DEF Folding
  <2>1. QED
    BY <1>7
<1>9. FoldLeft(GenerateID, dict, list) = F[1 .. L]
  BY <1>1 DEF FoldLeft, MapThenFoldSet
<1> HIDE DEF F
<1>10. IsFold(F, X, dict, step, L)
  <2>1. \A t \in SUBSET (1 .. L) :
          F[t] = IF t = {} THEN dict ELSE GenerateID(F[t \ {Max(t)}], list[Max(t)])
    BY <1>1, <1>8
  <2>2. QED
    BY <1>4, <2>1, MaxOfPart DEF IsFold
<1>11. /\ F[{}] = dict /\ \A i \in 0 .. L : F[1 .. i] \in X
       /\ \A i \in 1 .. L : F[1 .. i] = GenerateID(F[1 .. i - 1], list[i])
  BY <1>4, <1>6, <1>10, FoldSteps
<1> DEFINE Given(d, k) ==
             /\ \A i \in 1 .. k : d[list[i]] # 0
             /\ \A a \in Addresses : dict[a] # 0 => d[a] = dict[a]
             /\ \A a \in Addresses : d[a] # 0 => dict[a] # 0 \/ \E i \in 1 .. k : list[i] = a
           T == {k \in 0 .. L : Given(F[1 .. k], k)}
<1>12. 0 \in T
  <2>1. 1 .. 0 = {}
    OBVIOUS
  <2>2. QED
    BY <1>11, <2>1
<1>13. ASSUME NEW k \in 1 .. L, k - 1 \in T PROVE k \in T
  <2>1. PICK d \in X : d = F[1 .. k - 1]
    BY <1>11
  <2>2. PICK new : new = F[1 .. k]
    OBVIOUS
  <2>3. /\ new[list[k]] # 0
        /\ \A b \in Addresses : b # list[k] \/ d[b] # 0 => new[b] = d[b]
    <3>1. new = GenerateID(d, list[k])
      BY <1>11, <2>1, <2>2
    <3>2. QED
      BY <1>5, <3>1
  <2>4. Given(d, k - 1)
    BY <1>13, <2>1
  <2>5. \A i \in 1 .. k : list[i] \in Addresses
    BY <1>1
  <2>6. \A i \in 1 .. k : new[list[i]] # 0
    BY <2>3, <2>4, <2>5
  <2>7. Given(new, k)
    BY <2>3, <2>4, <2>6
  <2>8. QED
    BY <2>2, <2>7
<1>14. L \in T
  <2>1. \A k \in 1 .. L : k - 1 \in T => k \in T
    BY <1>13
  <2> HIDE DEF T
  <2>2. \A k \in 0 .. L : k \in T
    BY <1>12, <2>1, PrefixInduction
  <2>3. QED
    BY <2>2
<1>15. PICK new : new = FoldLeft(GenerateID, dict, list)
  OBVIOUS
<1>16. new \in X /\ Given(new, L)
  BY <1>9, <1>11, <1>14, <1>15
<1>17. QED
  BY <1>1, <1>2, <1>15, <1>16

-----------------------------------------------------------------------------
(* What is true of every reachable state.  Nothing is known of a block that *)
(* has not been digested, except to bitcore, which may be far ahead.        *)

Statistics ==
  [created : Int, lastActive : Int, lastReceived : Int, lastPayed : Int,
   income : Int, expense : Int, numTx : Int, winning : Int, lossing : Int,
   lastPurchasePrice : Int, balance : Int]

\* The first block that has not been digested.
Undigested == IF pc = "digest" THEN n ELSE n + 1

RowIds == {TableTx[i].id : i \in DOMAIN TableTx}

ControlInv ==
  /\ tip \in 0 .. N /\ n \in 1 .. N + 1 /\ n <= tip + 1
  /\ pc \in {"digest", "calc", "merge"} /\ (pc # "digest" => n <= tip)

CoinsInv ==
  /\ coins \in Seq(Coins)
  /\ \A i \in DOMAIN coins :
       /\ coins[i].mint <= tip
       /\ coins[i].spent = Unspent \/ (coins[i].mint <= coins[i].spent /\ coins[i].spent <= tip)

\* A row is of a digested block, and the dictionaries know the ids of the rows.
RowsInv ==
  /\ TableTx \in Seq(Rows) /\ \A i \in DOMAIN TableTx : TableTx[i].block < Undigested
  /\ GoodDict(AddressHashDict) /\ RowIds = {AddressHashDict[a] : a \in Known(AddressHashDict)}
  /\ tmpBalanceDict \in [RowIds -> Int]

\* An entry of inputOf has as many ids as amounts and tags.
InputsInv ==
  /\ inputOf \in Seq([addrId : Seq(Ids), amount : Seq(Int), tagNew : Seq(BOOLEAN)])
  /\ Len(inputOf) = IF pc = "merge" THEN n ELSE n - 1
  /\ \A b \in DOMAIN inputOf : /\ Len(inputOf[b].amount) = Len(inputOf[b].addrId)
                               /\ Len(inputOf[b].tagNew) = Len(inputOf[b].addrId)

BaseInv == ControlInv /\ CoinsInv /\ RowsInv /\ InputsInv

Balanced(s) == s.balance = s.income - s.expense

\* The stamps in the address state are of merged blocks, and an address
\* without moves has no statistics.
StampsInv ==
  /\ AddressService \in [Ids -> Statistics]
  /\ \A id \in Ids :
       LET s == AddressService[id]
       IN  /\ Balanced(s)
           /\ s.lastActive \in {0} \cup {Ts[b] : b \in 1 .. n - 1}
           /\ s.lastPayed \in {0} \cup {Ts[b] : b \in 1 .. n - 1}
           /\ (MovesBefore(id, n) = {} => s = NoStatistics)
           /\ (MovesBefore(id, n) # {} => s.created # 0)

PayedBefore(id, b) == {i \in MovesBefore(id, b) : TableTx[i].amount < 0}

\* Transactions and trades are counted by block.
CountsInv ==
  \A id \in Ids :
    LET s == AddressService[id]
    IN  MovesBefore(id, n) # {} =>
          /\ s.numTx = Cardinality(BlocksOf(MovesBefore(id, n))) - 1
          /\ s.winning + s.lossing = 2 + Cardinality(BlocksOf(PayedBefore(id, n)))

\* The dictionary of balances has what the last row of an id ends with.
ChainInv ==
  /\ RowsChain
  /\ \A id \in RowIds :
       tmpBalanceDict[id] = TableTx[Max({i \in DOMAIN TableTx : TableTx[i].id = id})].after

\* A coin is not spent before it is minted.
OrderedCoins == {c \in Coins : c.spent = Unspent \/ c.mint <= c.spent}

\* What bitcore's coins leave an address with before block b.
HeldOf(a, b) ==
  [c \in OrderedCoins |->
     IF c.addr = a /\ c.mint < b /\ c.spent \notin 1 .. b - 1 THEN c.value ELSE 0]

Held(a, b) == SumOver(coins, HeldOf(a, b))

\* What the rows of block b move.
MovedOf(id, b) == [r \in Rows |-> IF r.id = id /\ r.block = b THEN r.amount ELSE 0]

MovedBy(id, b) == SumOver(TableTx, MovedOf(id, b))

\* The dictionary of balances is ahead of the address state by the block that
\* has been digested and not merged.
HeldInv ==
  /\ \A i \in DOMAIN coins :
       coins[i].mint < Undigested => coins[i].addr \in Known(AddressHashDict)
  /\ \A a \in Known(AddressHashDict) :
       tmpBalanceDict[AddressHashDict[a]] = Held(a, Undigested)
  /\ \A id \in RowIds : tmpBalanceDict[id] = AddressService[id].balance + MovedBy(id, n)

\* How far what the calculations see of a row of block b is from what it moves.
ExcessOf(id, b) ==
  [r \in Rows |->
     IF r.id = id /\ r.block = b
     THEN (IF r.mint = b THEN Magnitude(r.amount) ELSE 0)
            - (IF r.spent = b THEN Magnitude(r.amount) ELSE 0) - r.amount
     ELSE 0]

ExcessBy(id, b) == SumOver(TableTx, ExcessOf(id, b))

\* What an entry of inputOf has for an address.
EntryOf(e, id) == SumSeq([i \in DOMAIN e.addrId |-> IF e.addrId[i] = id THEN e.amount[i] ELSE 0])

\* It adds up to nothing for every address of a block that has been digested.
NetInv ==
  /\ \A b \in DOMAIN inputOf : \A id \in Ids : EntryOf(inputOf[b], id) = MovedBy(id, b)
  /\ pc = "calc" => \A id \in Ids : ExcessBy(id, n) = 0

-----------------------------------------------------------------------------
(* The step of the digest. *)

WorthOf(r, id) == IF r.id = id THEN r.amount ELSE 0

Worth(rows, id) == [i \in DOMAIN rows |-> WorthOf(rows[i], id)]

IdsOf(rows) == {rows[i].id : i \in DOMAIN rows}

\* The coins of a block.
LEMMA BlockCoins ==
  ASSUME CoinsInv, n \in Blocks
  PROVE  /\ inputs \in Seq(Coins) /\ outputs \in Seq(Coins)
         /\ \A i \in DOMAIN inputs : inputs[i].spent = n /\ \E j \in DOMAIN coins : coins[j] = inputs[i]
         /\ \A i \in DOMAIN outputs : outputs[i].mint = n /\ \E j \in DOMAIN coins : coins[j] = outputs[i]
         /\ \A j \in DOMAIN coins : coins[j].mint = n => \E i \in DOMAIN outputs : coins[j] = outputs[i]
<1>1. coins \in Seq(Coins) /\ \A j \in DOMAIN coins : coins[j] \in Coins
  BY DEF CoinsInv
<1>2. PICK S : S = {c \in Coins : c.spent = n}
  OBVIOUS
<1>3. PICK T : T = {c \in Coins : c.mint = n}
  OBVIOUS
<1>4. inputs = InOrder(coins, S) /\ outputs = InOrder(coins, T)
  BY <1>2, <1>3 DEF inputs, outputs
<1>5. /\ inputs \in Seq(Coins)
      /\ \A i \in DOMAIN inputs : inputs[i] \in S /\ \E j \in DOMAIN coins : coins[j] = inputs[i]
  BY <1>1, <1>4, InOrderElements
<1>6. /\ outputs \in Seq(Coins)
      /\ \A i \in DOMAIN outputs : outputs[i] \in T /\ \E j \in DOMAIN coins : coins[j] = outputs[i]
      /\ \A j \in DOMAIN coins : coins[j] \in T => \E i \in DOMAIN outputs : coins[j] = outputs[i]
  BY <1>1, <1>4, InOrderElements
<1>7. QED
  BY <1>1, <1>2, <1>3, <1>5, <1>6

\* Every address of the block has an id after it, and no other gets one.
LEMMA IdsAfterGood ==
  ASSUME CoinsInv, n \in Blocks, GoodDict(AddressHashDict)
  PROVE  /\ GoodDict(IdsAfter)
         /\ \A i \in DOMAIN inputs : IdsAfter[inputs[i].addr] # 0
         /\ \A i \in DOMAIN outputs : IdsAfter[outputs[i].addr] # 0
         /\ \A a \in Addresses : AddressHashDict[a] # 0 => IdsAfter[a] = AddressHashDict[a]
         /\ \A a \in Addresses :
              IdsAfter[a] # 0 => \/ AddressHashDict[a] # 0
                                 \/ \E i \in DOMAIN inputs : inputs[i].addr = a
                                 \/ \E i \in DOMAIN outputs : outputs[i].addr = a
<1>1. PICK s \in Seq(Coins), t \in Seq(Coins) : s = inputs /\ t = outputs
  BY BlockCoins
<1>2. PICK u \in Seq(Coins) : u = s \o t
  BY Joined
<1>3. /\ DOMAIN s = 1 .. Len(s) /\ DOMAIN t = 1 .. Len(t) /\ DOMAIN u = 1 .. Len(s) + Len(t)
      /\ \A i \in 1 .. Len(s) : u[i] = s[i]
      /\ \A i \in 1 .. Len(t) : u[Len(s) + i] = t[i]
      /\ Len(s) \in Nat /\ Len(t) \in Nat /\ Len(u) = Len(s) + Len(t)
  BY <1>2, Joined
<1>4. PICK list : list = [i \in DOMAIN u |-> u[i].addr]
  OBVIOUS
<1>5. list \in Seq(Addresses) /\ DOMAIN list = DOMAIN u
  <2>1. list \in [1 .. Len(u) -> Addresses]
    <3>1. DOMAIN u = 1 .. Len(u) /\ Len(u) \in Nat
      BY <1>3
    <3>2. \A i \in 1 .. Len(u) : u[i] \in Coins
      OBVIOUS
    <3>3. \A c \in Coins : c.addr \in Addresses
      BY DEF Coins
    <3>4. QED
      BY <1>4, <3>1, <3>2, <3>3
  <2>2. QED
    BY <2>1, <1>3, Tabulated
<1>6. PICK new : new = FoldLeft(GenerateID, AddressHashDict, list)
  OBVIOUS
<1>7. IdsAfter = new
  BY <1>1, <1>2, <1>4, <1>6 DEF IdsAfter
<1>8. /\ GoodDict(new)
      /\ \A i \in DOMAIN list : new[list[i]] # 0
      /\ \A a \in Addresses : AddressHashDict[a] # 0 => new[a] = AddressHashDict[a]
      /\ \A a \in Addresses :
           new[a] # 0 => AddressHashDict[a] # 0 \/ \E i \in DOMAIN list : list[i] = a
  BY <1>5, <1>6, IdsGiven
<1>9. \A i \in DOMAIN s : new[s[i].addr] # 0
  <2>1. SUFFICES ASSUME NEW i \in DOMAIN s PROVE new[s[i].addr] # 0
    OBVIOUS
  <2>2. i \in DOMAIN list /\ list[i] = s[i].addr
    BY <1>3, <1>4, <1>5
  <2>3. QED
    BY <1>8, <2>2
<1>10. \A i \in DOMAIN t : new[t[i].addr] # 0
  <2>1. SUFFICES ASSUME NEW i \in DOMAIN t PROVE new[t[i].addr] # 0
    OBVIOUS
  <2>2. Len(s) + i \in DOMAIN list /\ list[Len(s) + i] = t[i].addr
    BY <1>3, <1>4, <1>5
  <2>3. QED
    BY <1>8, <2>2
<1>11. ASSUME NEW a \in Addresses, NEW i \in DOMAIN list, list[i] = a
       PROVE  (\E j \in DOMAIN s : s[j].addr = a) \/ \E j \in DOMAIN t : t[j].addr = a
  <2>1. CASE i <= Len(s)
    BY <1>3, <1>4, <1>5, <1>11, <2>1
  <2>2. CASE i > Len(s)
    <3>1. PICK j \in 1 .. Len(t) : i = Len(s) + j
      <4>1. i - Len(s) \in 1 .. Len(t) /\ i = Len(s) + (i - Len(s))
        BY <1>3, <1>5, <2>2
      <4>2. QED
        BY <4>1
    <3>2. QED
      BY <1>3, <1>4, <1>5, <1>11, <3>1
  <2>3. QED
    BY <1>3, <1>5, <2>1, <2>2
<1>12. QED
  BY <1>1, <1>7, <1>8, <1>9, <1>10, <1>11

LEMMA BalanceTyped ==
  ASSUME RowsInv, AddressService \in [Ids -> Statistics], NEW id \in Ids
  PROVE  BalanceBefore(id) \in Int
<1>1. CASE id \in RowIds
  BY <1>1 DEF RowsInv, BalanceBefore
<1>2. CASE id \notin RowIds
  <2>1. AddressService[id] \in Statistics
    OBVIOUS
  <2>2. AddressService[id].balance \in Int
    BY <2>1 DEF Statistics
  <2>3. QED
    BY <1>2, <2>2 DEF RowsInv, BalanceBefore
<1>3. QED
  BY <1>1, <1>2

LEMMA RowTyped ==
  ASSUME RowsInv, AddressService \in [Ids -> Statistics], n \in Blocks,
         NEW dict, GoodDict(dict), NEW c \in Coins, dict[c.addr] # 0, NEW sign \in {-1, 1}
  PROVE  LET r == cacheTx(dict, c, sign) IN
         /\ r \in Rows /\ r.id = dict[c.addr] /\ r.block = n /\ r.mint = c.mint /\ r.spent = c.spent
         /\ r.amount = (IF sign = 1 THEN c.value ELSE -c.value) /\ c.value \in Nat
         /\ r.before = BalanceBefore(r.id)
<1>1. c.addr \in Addresses /\ c.value \in Nat /\ c.mint \in Blocks /\ c.spent \in Int
  BY CoinLedgerAssumption DEF Coins
<1>2. PICK id \in Ids : id = dict[c.addr]
  BY <1>1 DEF GoodDict
<1>3. PICK b \in Int : b = BalanceBefore(id)
  BY BalanceTyped
<1>4. PICK v \in Int : v = Amount(c, sign) /\ v = IF sign = 1 THEN c.value ELSE -c.value
  BY <1>1 DEF Amount
<1>5. cacheTx(dict, c, sign) = [id |-> id, block |-> n, mint |-> c.mint, spent |-> c.spent,
                                amount |-> v, before |-> b, after |-> 0]
  BY <1>2, <1>3, <1>4 DEF cacheTx
<1>6. PICK r : r = cacheTx(dict, c, sign)
  OBVIOUS
<1>7. r \in Rows
  BY <1>1, <1>5, <1>6 DEF Rows
<1>8. /\ r.id = id /\ r.block = n /\ r.mint = c.mint /\ r.spent = c.spent
      /\ r.amount = v /\ r.before = b
  BY <1>5, <1>6
<1>9. QED
  BY <1>1, <1>2, <1>3, <1>4, <1>6, <1>7, <1>8

\* The rows of the block: its inputs, then its outputs.
LEMMA RowsOfBlock ==
  ASSUME CoinsInv, RowsInv, AddressService \in [Ids -> Statistics], n \in Blocks
  PROVE  LET rows == RowsOf(IdsAfter) IN
         /\ rows \in Seq(Rows) /\ Len(rows) = Len(inputs) + Len(outputs)
         /\ inputs \in Seq(Coins) /\ outputs \in Seq(Coins)
         /\ \A i \in 1 .. Len(inputs) : rows[i] = cacheTx(IdsAfter, inputs[i], -1)
         /\ \A i \in 1 .. Len(outputs) : rows[Len(inputs) + i] = cacheTx(IdsAfter, outputs[i], 1)
         /\ \A i \in DOMAIN rows : rows[i].block = n /\ rows[i].before = BalanceBefore(rows[i].id)
<1>1. PICK s \in Seq(Coins), t \in Seq(Coins) : s = inputs /\ t = outputs
  BY BlockCoins
<1>2. PICK dict : dict = IdsAfter
  OBVIOUS
<1>3. /\ GoodDict(dict)
      /\ \A i \in DOMAIN s : dict[s[i].addr] # 0
      /\ \A i \in DOMAIN t : dict[t[i].addr] # 0
  <2>1. GoodDict(AddressHashDict)
    BY DEF RowsInv
  <2>2. QED
    BY <1>1, <1>2, <2>1, IdsAfterGood
<1>4. PICK u : u = [i \in DOMAIN s |-> cacheTx(dict, s[i], -1)]
  OBVIOUS
<1>5. PICK v : v = [i \in DOMAIN t |-> cacheTx(dict, t[i], 1)]
  OBVIOUS
<1>6. /\ DOMAIN s = 1 .. Len(s) /\ Len(s) \in Nat /\ DOMAIN t = 1 .. Len(t) /\ Len(t) \in Nat
      /\ \A i \in 1 .. Len(s) : s[i] \in Coins
      /\ \A i \in 1 .. Len(t) : t[i] \in Coins
  OBVIOUS
<1>7. /\ \A i \in 1 .. Len(s) : u[i] = cacheTx(dict, s[i], -1)
      /\ \A i \in 1 .. Len(t) : v[i] = cacheTx(dict, t[i], 1)
  BY <1>4, <1>5, <1>6
<1>8. ASSUME NEW i \in 1 .. Len(s)
      PROVE  u[i] \in Rows /\ u[i].block = n /\ u[i].before = BalanceBefore(u[i].id)
  <2>1. s[i] \in Coins /\ dict[s[i].addr] # 0
    BY <1>3, <1>6
  <2>2. u[i] = cacheTx(dict, s[i], -1)
    BY <1>7
  <2>3. QED
    BY <1>3, <2>1, <2>2, RowTyped
<1>9. ASSUME NEW i \in 1 .. Len(t)
      PROVE  v[i] \in Rows /\ v[i].block = n /\ v[i].before = BalanceBefore(v[i].id)
  <2>1. t[i] \in Coins /\ dict[t[i].addr] # 0
    BY <1>3, <1>6
  <2>2. v[i] = cacheTx(dict, t[i], 1)
    BY <1>7
  <2>3. QED
    BY <1>3, <2>1, <2>2, RowTyped
<1>10. u \in Seq(Rows) /\ Len(u) = Len(s) /\ v \in Seq(Rows) /\ Len(v) = Len(t)
  <2>1. u \in [1 .. Len(s) -> Rows] /\ v \in [1 .. Len(t) -> Rows]
    BY <1>4, <1>5, <1>6, <1>7, <1>8, <1>9
  <2>2. QED
    BY <1>6, <2>1, Tabulated
<1>11. PICK w : w = u \o v
  OBVIOUS
<1>12. /\ w \in Seq(Rows) /\ Len(w) = Len(s) + Len(t) /\ DOMAIN w = 1 .. Len(s) + Len(t)
       /\ \A i \in 1 .. Len(s) : w[i] = u[i]
       /\ \A i \in 1 .. Len(t) : w[Len(s) + i] = v[i]
  <2>1. /\ w \in Seq(Rows) /\ Len(w) = Len(u) + Len(v) /\ DOMAIN w = 1 .. Len(u) + Len(v)
        /\ \A i \in 1 .. Len(u) : w[i] = u[i]
        /\ \A i \in 1 .. Len(v) : w[Len(u) + i] = v[i]
    <3>1. PICK x \in Seq(Rows) : x = u \o v /\ Len(x) = Len(u) + Len(v)
      BY <1>10, Joined
    <3>2. DOMAIN (u \o v) = 1 .. Len(u) + Len(v)
      BY <1>10, Joined
    <3>3. \A i \in 1 .. Len(u) : (u \o v)[i] = u[i]
      BY <1>10, Joined
    <3>4. \A i \in 1 .. Len(v) : (u \o v)[Len(u) + i] = v[i]
      BY <1>10, Joined
    <3>5. QED
      BY <1>11, <3>1, <3>2, <3>3, <3>4
  <2>2. QED
    BY <1>10, <2>1
<1>13. ASSUME NEW i \in DOMAIN w
       PROVE  w[i].block = n /\ w[i].before = BalanceBefore(w[i].id)
  <2>1. CASE i <= Len(s)
    BY <1>6, <1>8, <1>12, <2>1
  <2>2. CASE i > Len(s)
    <3>1. i - Len(s) \in 1 .. Len(t) /\ i = Len(s) + (i - Len(s))
      BY <1>6, <1>12, <2>2
    <3>2. w[i] = v[i - Len(s)]
      BY <1>12, <3>1
    <3>3. QED
      BY <1>9, <3>1, <3>2
  <2>3. QED
    BY <1>6, <1>12, <2>1, <2>2
<1>14. w = RowsOf(dict)
  BY <1>1, <1>4, <1>5, <1>11 DEF RowsOf
<1>15. QED
  BY <1>1, <1>2, <1>7, <1>12, <1>13, <1>14

\* What the digest does to the tables, in terms of the rows it makes.
Digested(rows) ==
  /\ rows \in Seq(Rows)
  /\ \A i \in DOMAIN rows : rows[i].block = n /\ rows[i].before = BalanceBefore(rows[i].id)
  /\ TableTx' \in Seq(Rows) /\ Len(TableTx') = Len(TableTx) + Len(rows)
  /\ \A i \in 1 .. Len(TableTx) : TableTx'[i] = TableTx[i]
  /\ \A i \in 1 .. Len(rows) :
       TableTx'[Len(TableTx) + i] = [rows[i] EXCEPT !.after = tmpBalanceDict'[rows[i].id]]
  /\ tmpBalanceDict' \in [RowIds \cup IdsOf(rows) -> Int]
  /\ \A id \in IdsOf(rows) : tmpBalanceDict'[id] = BalanceBefore(id) + SumSeq(Worth(rows, id))
  /\ \A id \in RowIds \ IdsOf(rows) : tmpBalanceDict'[id] = tmpBalanceDict[id]

LEMMA WorthTyped ==
  ASSUME NEW rows \in Seq(Rows), NEW id
  PROVE  Worth(rows, id) \in Seq(Int) /\ Len(Worth(rows, id)) = Len(rows)
<1>1. \A i \in 1 .. Len(rows) : rows[i].amount \in Int
  <2>1. \A r \in Rows : r.amount \in Int
    BY DEF Rows
  <2>2. QED
    BY <2>1
<1>2. Worth(rows, id) \in [1 .. Len(rows) -> Int]
  BY <1>1 DEF Worth, WorthOf
<1>3. QED
  BY <1>2, Tabulated

LEMMA DigestDoes ==
  ASSUME BaseInv, AddressService \in [Ids -> Statistics], DigestTransactionsOnBlock
  PROVE  n \in Blocks /\ AddressHashDict' = IdsAfter /\ Digested(RowsOf(IdsAfter))
<1>1. n \in Blocks /\ TableTx \in Seq(Rows) /\ tmpBalanceDict \in [RowIds -> Int]
  BY TsAssumption DEF BaseInv, ControlInv, RowsInv, DigestTransactionsOnBlock, Blocks
<1>2. PICK rows \in Seq(Rows) :
        /\ rows = RowsOf(IdsAfter)
        /\ \A i \in DOMAIN rows : rows[i].block = n /\ rows[i].before = BalanceBefore(rows[i].id)
  BY <1>1, RowsOfBlock DEF BaseInv
<1>3. /\ DOMAIN rows = 1 .. Len(rows) /\ Len(rows) \in Nat
      /\ DOMAIN TableTx = 1 .. Len(TableTx) /\ Len(TableTx) \in Nat
      /\ \A i \in DOMAIN rows : rows[i] \in Rows /\ rows[i].id \in Ids
  <2>1. \A r \in Rows : r.id \in Ids
    BY DEF Rows
  <2>2. QED
    BY <1>1, <2>1
<1>4. PICK after : after = BalancesOf(rows)
  OBVIOUS
<1>5. after = [id \in IdsOf(rows) |-> BalanceBefore(id) + SumSeq(Worth(rows, id))]
  BY <1>4 DEF BalancesOf, IdsOf, Worth, WorthOf
<1>6. \A id \in IdsOf(rows) : BalanceBefore(id) \in Int
  BY <1>3, BalanceTyped DEF BaseInv, IdsOf
<1>7. after \in [IdsOf(rows) -> Int]
  <2>1. \A id \in IdsOf(rows) : SumSeq(Worth(rows, id)) \in Int
    BY WorthTyped, SumType
  <2>2. QED
    BY <1>5, <1>6, <2>1
<1>8. tmpBalanceDict' = [id \in DOMAIN tmpBalanceDict \cup DOMAIN after |->
                           IF id \in DOMAIN after THEN after[id] ELSE tmpBalanceDict[id]]
  BY <1>2, <1>4 DEF DigestTransactionsOnBlock, BalancesUpdated
<1>9. /\ tmpBalanceDict' \in [RowIds \cup IdsOf(rows) -> Int]
      /\ \A id \in IdsOf(rows) : tmpBalanceDict'[id] = after[id]
      /\ \A id \in RowIds \ IdsOf(rows) : tmpBalanceDict'[id] = tmpBalanceDict[id]
  BY <1>1, <1>7, <1>8
<1>10. PICK new : new = [i \in DOMAIN rows |-> [rows[i] EXCEPT !.after = after[rows[i].id]]]
  OBVIOUS
<1>11. TableTx' = TableTx \o new
  BY <1>2, <1>4, <1>10 DEF DigestTransactionsOnBlock
<1>12. ASSUME NEW i \in DOMAIN rows
       PROVE  /\ new[i] = [rows[i] EXCEPT !.after = tmpBalanceDict'[rows[i].id]]
              /\ new[i] \in Rows
  <2>1. rows[i].id \in IdsOf(rows)
    BY DEF IdsOf
  <2>2. after[rows[i].id] = tmpBalanceDict'[rows[i].id] /\ after[rows[i].id] \in Int
    BY <1>7, <1>9, <2>1
  <2>3. new[i] = [rows[i] EXCEPT !.after = tmpBalanceDict'[rows[i].id]]
    BY <1>10, <2>2
  <2>4. rows[i] \in Rows
    BY <1>3
  <2>5. QED
    BY <2>2, <2>3, <2>4 DEF Rows
<1>13. new \in Seq(Rows) /\ Len(new) = Len(rows)
  <2>1. new \in [1 .. Len(rows) -> Rows]
    BY <1>3, <1>10, <1>12
  <2>2. QED
    BY <1>3, <2>1, Tabulated
<1>14. /\ TableTx' \in Seq(Rows) /\ Len(TableTx') = Len(TableTx) + Len(rows)
       /\ \A i \in 1 .. Len(TableTx) : TableTx'[i] = TableTx[i]
       /\ \A i \in 1 .. Len(rows) : TableTx'[Len(TableTx) + i] = new[i]
  <2>1. PICK s \in Seq(Rows), t \in Seq(Rows) : s = TableTx /\ t = new
    BY <1>1, <1>13
  <2>2. /\ s \o t \in Seq(Rows) /\ Len(s \o t) = Len(s) + Len(t)
        /\ \A i \in 1 .. Len(s) : (s \o t)[i] = s[i]
        /\ \A i \in 1 .. Len(t) : (s \o t)[Len(s) + i] = t[i]
    OBVIOUS
  <2>3. QED
    BY <1>11, <1>13, <2>1, <2>2
<1>15. Digested(rows)
  BY <1>2, <1>3, <1>5, <1>7, <1>9, <1>12, <1>14 DEF Digested
<1>16. QED
  BY <1>1, <1>2, <1>15 DEF DigestTransactionsOnBlock

\* r is the row s, with the balance after the block filled in.
Filled(r, s) ==
  /\ r.id = s.id /\ r.block = s.block /\ r.mint = s.mint /\ r.spent = s.spent
  /\ r.amount = s.amount /\ r.before = s.before /\ r.after = tmpBalanceDict'[s.id]

\* A row of the new table is an old row or a row of the block.
LEMMA DigestedRow ==
  ASSUME NEW rows, Digested(rows), TableTx \in Seq(Rows)
  PROVE  /\ DOMAIN TableTx = 1 .. Len(TableTx) /\ Len(TableTx) \in Nat
         /\ DOMAIN rows = 1 .. Len(rows) /\ Len(rows) \in Nat
         /\ DOMAIN TableTx' = 1 .. Len(TableTx) + Len(rows)
         /\ \A i \in DOMAIN TableTx : TableTx'[i] = TableTx[i]
         /\ \A i \in DOMAIN rows : Filled(TableTx'[Len(TableTx) + i], rows[i]) /\ rows[i] \in Rows
         /\ \A j \in DOMAIN TableTx' :
              j \in DOMAIN TableTx \/ \E i \in DOMAIN rows : j = Len(TableTx) + i
<1>1. /\ rows \in Seq(Rows) /\ TableTx' \in Seq(Rows) /\ Len(TableTx') = Len(TableTx) + Len(rows)
      /\ \A i \in 1 .. Len(TableTx) : TableTx'[i] = TableTx[i]
      /\ \A i \in 1 .. Len(rows) :
           TableTx'[Len(TableTx) + i] = [rows[i] EXCEPT !.after = tmpBalanceDict'[rows[i].id]]
  BY DEF Digested
<1>2. /\ DOMAIN TableTx = 1 .. Len(TableTx) /\ Len(TableTx) \in Nat
      /\ DOMAIN rows = 1 .. Len(rows) /\ Len(rows) \in Nat
      /\ DOMAIN TableTx' = 1 .. Len(TableTx) + Len(rows)
  BY <1>1
<1>3. ASSUME NEW i \in DOMAIN rows
      PROVE  Filled(TableTx'[Len(TableTx) + i], rows[i]) /\ rows[i] \in Rows
  <2>1. PICK s \in Rows : s = rows[i]
    BY <1>1
  <2>2. TableTx'[Len(TableTx) + i] = [s EXCEPT !.after = tmpBalanceDict'[s.id]]
    BY <1>1, <1>2, <2>1
  <2>3. PICK x : x = tmpBalanceDict'[s.id]
    OBVIOUS
  <2>4. PICK r : r = [s EXCEPT !.after = x]
    OBVIOUS
  <2>5. /\ r.id = s.id /\ r.block = s.block /\ r.mint = s.mint /\ r.spent = s.spent
        /\ r.amount = s.amount /\ r.before = s.before /\ r.after = x
    BY <2>1, <2>4 DEF Rows
  <2>6. QED
    BY <2>1, <2>2, <2>3, <2>4, <2>5 DEF Filled
<1>4. ASSUME NEW j \in DOMAIN TableTx', j \notin DOMAIN TableTx
      PROVE  \E i \in DOMAIN rows : j = Len(TableTx) + i
  <2>1. j - Len(TableTx) \in DOMAIN rows /\ j = Len(TableTx) + (j - Len(TableTx))
    BY <1>2, <1>4
  <2>2. QED
    BY <2>1
<1>5. QED
  BY <1>1, <1>2, <1>3, <1>4

LEMMA DigestKeepsRows ==
  ASSUME BaseInv, AddressService \in [Ids -> Statistics], DigestTransactionsOnBlock
  PROVE  /\ RowsInv'
         /\ \A rows : Digested(rows) => RowIds' = RowIds \cup IdsOf(rows)
<1>1. n \in Blocks /\ AddressHashDict' = IdsAfter
  BY DigestDoes
<1>2. PICK rows : rows = RowsOf(IdsAfter)
  OBVIOUS
<1>3. Digested(rows)
  BY <1>2, DigestDoes
<1>4. TableTx \in Seq(Rows) /\ RowsInv /\ CoinsInv
  BY DEF BaseInv, RowsInv
<1>5. ASSUME NEW new, Digested(new) PROVE RowIds' = RowIds \cup IdsOf(new)
  <2>1. RowIds' \subseteq RowIds \cup IdsOf(new)
    BY <1>4, <1>5, DigestedRow DEF RowIds, IdsOf, Filled
  <2>2. RowIds \subseteq RowIds'
    <3>1. \A i \in DOMAIN TableTx : i \in DOMAIN TableTx' /\ TableTx'[i] = TableTx[i]
      BY <1>4, <1>5, DigestedRow
    <3>2. QED
      BY <3>1 DEF RowIds
  <2>3. IdsOf(new) \subseteq RowIds'
    <3>1. \A i \in DOMAIN new :
            Len(TableTx) + i \in DOMAIN TableTx' /\ TableTx'[Len(TableTx) + i].id = new[i].id
      BY <1>4, <1>5, DigestedRow DEF Filled
    <3>2. QED
      BY <3>1 DEF RowIds, IdsOf
  <2>4. QED
    BY <2>1, <2>2, <2>3
<1>6. \A i \in DOMAIN TableTx' : TableTx'[i].block < Undigested'
  <2>1. n \in Nat /\ Undigested' = n + 1
    BY <1>1 DEF DigestTransactionsOnBlock, Undigested, Blocks
  <2>2. \A i \in DOMAIN TableTx : TableTx'[i] = TableTx[i] /\ TableTx[i].block < n /\ TableTx[i].block \in Nat
    <3>1. \A r \in Rows : r.block \in Nat
      BY DEF Rows, Blocks
    <3>2. \A i \in DOMAIN TableTx : TableTx[i] \in Rows
      BY <1>4
    <3>3. Undigested = n
      BY DEF DigestTransactionsOnBlock, Undigested
    <3>4. QED
      BY <1>3, <1>4, <3>1, <3>2, <3>3, DigestedRow DEF RowsInv
  <2>3. \A i \in DOMAIN rows : TableTx'[Len(TableTx) + i].block = n
    <3>1. \A i \in DOMAIN rows : rows[i].block = n
      BY <1>3 DEF Digested
    <3>2. QED
      BY <1>3, <1>4, <3>1, DigestedRow DEF Filled
  <2>4. QED
    BY <1>3, <1>4, <2>1, <2>2, <2>3, DigestedRow
<1>7. GoodDict(AddressHashDict') /\ TableTx' \in Seq(Rows)
  <2>1. GoodDict(AddressHashDict)
    BY <1>4 DEF RowsInv
  <2>2. QED
    BY <1>1, <1>3, <1>4, <2>1, IdsAfterGood DEF Digested
<1>8. tmpBalanceDict' \in [RowIds' -> Int]
  BY <1>3, <1>5 DEF Digested
<1>9. RowIds' = {IdsAfter[a] : a \in Known(IdsAfter)}
  <2>1. /\ \A i \in DOMAIN inputs : IdsAfter[inputs[i].addr] # 0
        /\ \A i \in DOMAIN outputs : IdsAfter[outputs[i].addr] # 0
        /\ \A a \in Addresses : AddressHashDict[a] # 0 => IdsAfter[a] = AddressHashDict[a]
        /\ \A a \in Addresses :
             IdsAfter[a] # 0 => \/ AddressHashDict[a] # 0
                                \/ \E i \in DOMAIN inputs : inputs[i].addr = a
                                \/ \E i \in DOMAIN outputs : outputs[i].addr = a
    BY <1>1, <1>4, IdsAfterGood DEF RowsInv
  <2>2. PICK s \in Seq(Coins), t \in Seq(Coins) : s = inputs /\ t = outputs
    BY <1>1, <1>4, BlockCoins
  <2>3. /\ Len(rows) = Len(s) + Len(t) /\ Len(s) \in Nat /\ Len(t) \in Nat
        /\ DOMAIN s = 1 .. Len(s) /\ DOMAIN t = 1 .. Len(t) /\ DOMAIN rows = 1 .. Len(rows)
        /\ \A i \in 1 .. Len(s) : rows[i] = cacheTx(IdsAfter, s[i], -1)
        /\ \A i \in 1 .. Len(t) : rows[Len(s) + i] = cacheTx(IdsAfter, t[i], 1)
    BY <1>1, <1>2, <1>4, <2>2, RowsOfBlock
  <2>4. PICK dict : dict = IdsAfter
    OBVIOUS
  <2>5. /\ \A i \in DOMAIN s : i \in DOMAIN rows /\ rows[i].id = dict[s[i].addr]
        /\ \A i \in DOMAIN t : Len(s) + i \in DOMAIN rows /\ rows[Len(s) + i].id = dict[t[i].addr]
    <3>1. \A c, sign : cacheTx(dict, c, sign).id = dict[c.addr]
      BY DEF cacheTx
    <3>2. \A i \in DOMAIN s : i \in DOMAIN rows /\ rows[i].id = dict[s[i].addr]
      BY <2>3, <2>4, <3>1
    <3>3. ASSUME NEW i \in DOMAIN t
          PROVE  Len(s) + i \in DOMAIN rows /\ rows[Len(s) + i].id = dict[t[i].addr]
      <4>1. Len(s) + i \in DOMAIN rows
        BY <2>3
      <4>2. QED
        BY <2>3, <2>4, <3>1, <4>1
    <3>4. QED
      BY <3>2, <3>3
  <2>6. ASSUME NEW i \in DOMAIN rows PROVE \E a \in Known(dict) : rows[i].id = dict[a]
    <3>1. \A c \in Coins : c.addr \in Addresses
      BY DEF Coins
    <3>2. CASE i <= Len(s)
      <4>1. i \in DOMAIN s /\ s[i] \in Coins
        BY <2>3, <2>6, <3>2
      <4>2. s[i].addr \in Known(dict)
        BY <2>1, <2>2, <2>4, <3>1, <4>1 DEF Known
      <4>3. QED
        BY <2>5, <4>1, <4>2
    <3>3. CASE i > Len(s)
      <4>1. PICK j \in DOMAIN t : i = Len(s) + j
        <5>1. i - Len(s) \in DOMAIN t /\ i = Len(s) + (i - Len(s))
          BY <2>3, <2>6, <3>3
        <5>2. QED
          BY <5>1
      <4>2. t[j].addr \in Known(dict)
        <5>1. t[j] \in Coins
          OBVIOUS
        <5>2. QED
          BY <2>1, <2>2, <2>4, <3>1, <5>1 DEF Known
      <4>3. QED
        BY <2>5, <4>1, <4>2
    <3>4. QED
      BY <2>3, <3>2, <3>3
  <2>7. ASSUME NEW a \in Known(dict) PROVE dict[a] \in RowIds \cup IdsOf(rows)
    <3>1. CASE AddressHashDict[a] # 0
      <4>1. a \in Known(AddressHashDict) /\ dict[a] = AddressHashDict[a]
        BY <2>1, <2>4, <3>1 DEF Known
      <4>2. QED
        BY <1>4, <4>1 DEF RowsInv
    <3>2. CASE \E i \in DOMAIN s : s[i].addr = a
      BY <2>5, <3>2 DEF IdsOf
    <3>3. CASE \E i \in DOMAIN t : t[i].addr = a
      BY <2>5, <3>3 DEF IdsOf
    <3>4. QED
      BY <2>1, <2>2, <2>4, <3>1, <3>2, <3>3 DEF Known
  <2>8. \A id \in RowIds : \E a \in Known(dict) : id = dict[a]
    <3>1. \A a \in Known(AddressHashDict) : a \in Known(dict) /\ dict[a] = AddressHashDict[a]
      BY <2>1, <2>4 DEF Known
    <3>2. QED
      BY <1>4, <3>1 DEF RowsInv
  <2>9. RowIds \cup IdsOf(rows) = {dict[a] : a \in Known(dict)}
    BY <2>6, <2>7, <2>8 DEF IdsOf
  <2>10. QED
    BY <1>3, <1>5, <2>4, <2>9
<1>10. RowsInv'
  BY <1>1, <1>6, <1>7, <1>8, <1>9 DEF RowsInv
<1>11. QED
  BY <1>5, <1>10

-----------------------------------------------------------------------------
(* The other steps, and the base invariant. *)

\* A new block adds coins, and spends some that nobody has spent.
LEMMA MineDoes ==
  ASSUME BaseInv, MineBlock
  PROVE  /\ tip \in 0 .. N - 1 /\ coins' \in Seq(Coins)
         /\ DOMAIN coins = 1 .. Len(coins) /\ DOMAIN coins' = 1 .. Len(coins')
         /\ Len(coins) \in Nat /\ Len(coins') \in Nat /\ Len(coins) <= Len(coins')
         /\ \A i \in 1 .. Len(coins) :
              /\ coins'[i].addr = coins[i].addr /\ coins'[i].value = coins[i].value
              /\ coins'[i].mint = coins[i].mint
              /\ \/ coins'[i].spent = coins[i].spent
                 \/ coins[i].spent = Unspent /\ coins'[i].spent = tip + 1
         /\ \A i \in Len(coins) + 1 .. Len(coins') :
              coins'[i].mint = tip + 1 /\ coins'[i].spent \in {Unspent, tip + 1}
<1> DEFINE Fresh(mint) == [addr |-> mint.addr, value |-> mint.value,
                           mint |-> tip + 1, spent |-> Unspent]
<1>1. tip \in 0 .. N - 1 /\ coins \in Seq(Coins) /\ tip + 1 \in Blocks
  BY TsAssumption DEF BaseInv, ControlInv, CoinsInv, MineBlock, Blocks
<1>2. PICK mints \in SeqOf([addr : Addresses, value : Values], MaxMints) :
        LET all == coins \o [i \in DOMAIN mints |-> Fresh(mints[i])]
        IN  \E spends \in SUBSET {i \in DOMAIN all : all[i].spent = Unspent} :
              coins' = [i \in DOMAIN all |->
                          IF i \in spends THEN [all[i] EXCEPT !.spent = tip + 1] ELSE all[i]]
  BY DEF MineBlock
<1>3. PICK m \in Nat : mints \in [1 .. m -> [addr : Addresses, value : Values]]
  BY CoinLedgerAssumption DEF SeqOf
<1>4. PICK new : new = [i \in DOMAIN mints |-> Fresh(mints[i])]
  OBVIOUS
<1>5. ASSUME NEW i \in 1 .. m
      PROVE  new[i] \in Coins /\ new[i].mint = tip + 1 /\ new[i].spent = Unspent
  <2>1. PICK c \in [addr : Addresses, value : Values] : c = mints[i]
    BY <1>3
  <2>2. new[i] = Fresh(c)
    BY <1>3, <1>4, <2>1
  <2>3. Fresh(c) \in Coins /\ Fresh(c).mint = tip + 1 /\ Fresh(c).spent = Unspent
    BY <1>1 DEF Coins, Unspent
  <2>4. QED
    BY <2>2, <2>3
<1>6. new \in Seq(Coins) /\ Len(new) = m
  <2>1. new \in [1 .. m -> Coins]
    BY <1>3, <1>4, <1>5
  <2>2. QED
    BY <2>1, Tabulated
<1>7. PICK all : all = coins \o new
  OBVIOUS
<1>8. PICK spends : /\ spends \in SUBSET {i \in DOMAIN all : all[i].spent = Unspent}
                    /\ coins' = [i \in DOMAIN all |->
                                   IF i \in spends THEN [all[i] EXCEPT !.spent = tip + 1] ELSE all[i]]
  BY <1>2, <1>4, <1>7
<1>9. /\ all \in Seq(Coins) /\ DOMAIN all = 1 .. Len(coins) + m
      /\ DOMAIN coins = 1 .. Len(coins) /\ Len(coins) \in Nat
  <2>1. coins \o new \in Seq(Coins)
    BY <1>1, <1>6
  <2>2. Len(coins \o new) = Len(coins) + Len(new)
    BY <1>1, <1>6
  <2>3. QED
    BY <1>1, <1>6, <1>7, <2>1, <2>2
<1>10. \A i \in 1 .. Len(coins) : all[i] = coins[i]
  BY <1>1, <1>6, <1>7, Joined
<1>11. \A i \in 1 .. m : all[Len(coins) + i] = new[i]
  BY <1>1, <1>6, <1>7, Joined
<1>12. ASSUME NEW i \in DOMAIN all
       PROVE  /\ coins'[i] \in Coins /\ coins'[i].addr = all[i].addr
              /\ coins'[i].value = all[i].value /\ coins'[i].mint = all[i].mint
              /\ \/ coins'[i].spent = all[i].spent
                 \/ all[i].spent = Unspent /\ coins'[i].spent = tip + 1
  <2>1. PICK c \in Coins : c = all[i]
    BY <1>9
  <2>2. CASE i \in spends
    <3>1. coins'[i] = [c EXCEPT !.spent = tip + 1] /\ c.spent = Unspent
      BY <1>8, <2>1, <2>2
    <3>2. QED
      BY <1>1, <2>1, <3>1 DEF Coins
  <2>3. CASE i \notin spends
    BY <1>8, <2>1, <2>3
  <2>4. QED
    BY <2>2, <2>3
<1>13. /\ coins' \in Seq(Coins) /\ Len(coins') = Len(coins) + m
       /\ DOMAIN coins' = 1 .. Len(coins')
  <2>1. coins' \in [1 .. Len(coins) + m -> Coins]
    BY <1>8, <1>9, <1>12
  <2>2. Len(coins) + m \in Nat
    BY <1>9
  <2>3. QED
    BY <2>1, <2>2, Tabulated
<1>14. ASSUME NEW i \in Len(coins) + 1 .. Len(coins')
       PROVE  coins'[i].mint = tip + 1 /\ coins'[i].spent \in {Unspent, tip + 1}
  <2>1. PICK j \in 1 .. m : i = Len(coins) + j
    <3>1. i - Len(coins) \in 1 .. m /\ i = Len(coins) + (i - Len(coins))
      BY <1>9, <1>13
    <3>2. QED
      BY <3>1
  <2>2. i \in DOMAIN all /\ all[i] = new[j]
    BY <1>9, <1>11, <2>1
  <2>3. QED
    BY <1>5, <1>12, <2>2
<1>15. \A i \in 1 .. Len(coins) : i \in DOMAIN all
  BY <1>9
<1>16. QED
  BY <1>1, <1>9, <1>10, <1>12, <1>13, <1>14, <1>15

LEMMA MineKeepsBase ==
  ASSUME BaseInv, MineBlock
  PROVE  BaseInv'
<1>1. ControlInv'
  <2>1. tip \in 0 .. N - 1
    BY MineDoes
  <2>2. tip' = tip + 1 /\ n' = n /\ pc' = pc
    BY DEF MineBlock
  <2>3. QED
    BY <2>1, <2>2, TsAssumption DEF BaseInv, ControlInv
<1>2. CoinsInv'
  <2>1. ASSUME NEW i \in DOMAIN coins'
        PROVE  /\ coins'[i].mint <= tip'
               /\ \/ coins'[i].spent = Unspent
                  \/ coins'[i].mint <= coins'[i].spent /\ coins'[i].spent <= tip'
    <3>1. tip \in Nat /\ tip' = tip + 1
      <4>1. tip \in 0 .. N - 1
        BY MineDoes
      <4>2. tip' = tip + 1
        BY DEF MineBlock
      <4>3. QED
        BY <4>1, <4>2
    <3>2. CASE i \in 1 .. Len(coins)
      <4>1. coins[i] \in Coins /\ i \in DOMAIN coins
        BY <3>2, MineDoes DEF BaseInv, CoinsInv
      <4>2. coins[i].mint \in Nat /\ coins[i].spent \in Int
        BY <4>1 DEF Coins, Blocks
      <4>3. /\ coins[i].mint <= tip
            /\ coins[i].spent = Unspent \/ (coins[i].mint <= coins[i].spent /\ coins[i].spent <= tip)
        BY <4>1 DEF BaseInv, CoinsInv
      <4>4. /\ coins'[i].mint = coins[i].mint
            /\ \/ coins'[i].spent = coins[i].spent
               \/ coins[i].spent = Unspent /\ coins'[i].spent = tip + 1
        BY <3>2, MineDoes
      <4>5. QED
        BY <3>1, <4>2, <4>3, <4>4
    <3>3. CASE i \notin 1 .. Len(coins)
      <4>1. i \in Len(coins) + 1 .. Len(coins')
        BY <2>1, <3>3, MineDoes
      <4>2. QED
        BY <3>1, <4>1, MineDoes
    <3>4. QED
      BY <3>2, <3>3
  <2>2. QED
    BY <2>1, MineDoes DEF CoinsInv
<1>3. RowsInv'
  <2>1. UNCHANGED <<AddressHashDict, tmpBalanceDict, TableTx, pc, n>>
    BY DEF MineBlock
  <2>2. RowIds' = RowIds /\ Undigested' = Undigested
    BY <2>1 DEF RowIds, Undigested
  <2>3. QED
    BY <2>1, <2>2 DEF BaseInv, RowsInv
<1>4. InputsInv'
  BY DEF BaseInv, InputsInv, MineBlock
<1>5. QED
  BY <1>1, <1>2, <1>3, <1>4 DEF BaseInv

LEMMA DigestKeepsBase ==
  ASSUME BaseInv, AddressService \in [Ids -> Statistics], DigestTransactionsOnBlock
  PROVE  BaseInv'
<1>1. ControlInv'
  BY DEF BaseInv, ControlInv, DigestTransactionsOnBlock, bitcore
<1>2. CoinsInv'
  BY DEF BaseInv, CoinsInv, DigestTransactionsOnBlock, bitcore
<1>3. InputsInv'
  BY DEF BaseInv, InputsInv, DigestTransactionsOnBlock
<1>4. QED
  BY <1>1, <1>2, <1>3, DigestKeepsRows DEF BaseInv

\* The rows of block n, the minted ones and the spent ones of them.
LEMMA CalcRows ==
  ASSUME RowsInv
  PROVE  /\ BlockRows \in Seq(Rows) /\ coinsMint \in Seq(Rows) /\ coinsSpent \in Seq(Rows)
         /\ coinsIn \in Seq(Rows) /\ coinsOut \in Seq(Rows)
<1>1. BlockRows \in Seq(Rows)
  BY InOrderElements DEF RowsInv, BlockRows
<1>2. coinsMint \in Seq(Rows) /\ coinsSpent \in Seq(Rows)
  BY <1>1, InOrderElements DEF coinsMint, coinsSpent
<1>3. coinsIn \in Seq(Rows) /\ coinsOut \in Seq(Rows)
  BY <1>1, InOrderElements DEF coinsIn, coinsOut
<1>4. QED
  BY <1>1, <1>2, <1>3

\* What the calculations get: an id, an amount and a tag for every coin.
LEMMA CalcDoes ==
  ASSUME BaseInv, CalculateResultOnBlock
  PROVE  \E e \in [addrId : Seq(Ids), amount : Seq(Int), tagNew : Seq(BOOLEAN)] :
           /\ inputOf' = Append(inputOf, e)
           /\ e.addrId = cacheAddrId /\ e.amount = cacheAmount
           /\ Len(e.amount) = Len(e.addrId) /\ Len(e.tagNew) = Len(e.addrId)
           /\ \A i \in DOMAIN e.addrId : e.tagNew[i] = isNew(e.addrId[i])
<1>1. PICK s \in Seq(Rows), t \in Seq(Rows) : s = coinsMint /\ t = coinsSpent
  BY CalcRows DEF BaseInv
<1>2. /\ s \o t \in Seq(Rows) /\ DOMAIN (s \o t) = 1 .. Len(s) + Len(t)
      /\ DOMAIN s = 1 .. Len(s) /\ DOMAIN t = 1 .. Len(t) /\ Len(s) \in Nat /\ Len(t) \in Nat
  BY Joined
<1>3. PICK u \in Seq(Rows), L \in Nat : u = s \o t /\ L = Len(s) + Len(t) /\ DOMAIN u = 1 .. L
  <2>1. PICK L : L = Len(s) + Len(t)
    OBVIOUS
  <2>2. L \in Nat
    BY <1>2, <2>1
  <2>3. QED
    BY <1>2, <2>1, <2>2, Zenon
<1>4. cacheAddrId = [i \in 1 .. L |-> u[i].id]
  BY <1>1, <1>3 DEF cacheAddrId
<1>5. cacheAddrId \in Seq(Ids) /\ Len(cacheAddrId) = L /\ DOMAIN cacheAddrId = 1 .. L
  <2>1. \A r \in Rows : r.id \in Ids
    BY DEF Rows
  <2>2. \A i \in 1 .. L : u[i] \in Rows
    BY <1>3
  <2>3. cacheAddrId \in [1 .. L -> Ids]
    BY <1>4, <2>1, <2>2
  <2>4. QED
    BY <2>3, Tabulated
<1>6. PICK x : x = [i \in DOMAIN s |-> Magnitude(s[i].amount)]
  OBVIOUS
<1>7. PICK y : y = [i \in DOMAIN t |-> -Magnitude(t[i].amount)]
  OBVIOUS
<1>8. x \in Seq(Int) /\ Len(x) = Len(s) /\ y \in Seq(Int) /\ Len(y) = Len(t)
  <2>1. \A r \in Rows : Magnitude(r.amount) \in Int /\ -Magnitude(r.amount) \in Int
    BY DEF Rows, Magnitude
  <2>2. (\A i \in 1 .. Len(s) : s[i] \in Rows) /\ \A i \in 1 .. Len(t) : t[i] \in Rows
    BY <1>2
  <2>3. x \in [1 .. Len(s) -> Int]
    BY <1>2, <1>6, <2>1, <2>2
  <2>4. y \in [1 .. Len(t) -> Int]
    BY <1>2, <1>7, <2>1, <2>2
  <2>5. Len(s) \in Nat /\ Len(t) \in Nat
    BY <1>2
  <2>6. x \in Seq(Int) /\ Len(x) = Len(s)
    BY <2>3, <2>5, Tabulated, Zenon
  <2>7. y \in Seq(Int) /\ Len(y) = Len(t)
    BY <2>4, <2>5, Tabulated, Zenon
  <2>8. QED
    BY <2>6, <2>7
<1>9. cacheAmount \in Seq(Int) /\ Len(cacheAmount) = L
  <2>1. cacheAmount = x \o y
    BY <1>1, <1>6, <1>7 DEF cacheAmount
  <2>2. x \o y \in Seq(Int) /\ Len(x \o y) = Len(x) + Len(y)
    <3>1. x \in Seq(Int) /\ y \in Seq(Int)
      BY <1>8
    <3>2. QED
      BY <3>1, Joined
  <2>3. QED
    BY <1>3, <1>8, <2>1, <2>2
<1>10. PICK tags : tags = [i \in DOMAIN cacheAddrId |-> isNew(cacheAddrId[i])]
  OBVIOUS
<1>11. tags \in Seq(BOOLEAN) /\ Len(tags) = L
  <2>1. \A id : isNew(id) \in BOOLEAN
    BY DEF isNew
  <2>2. tags \in [1 .. L -> BOOLEAN]
    BY <1>5, <1>10, <2>1
  <2>3. QED
    BY <2>2, Tabulated
<1>12. PICK e : e = [addrId |-> cacheAddrId, amount |-> cacheAmount, tagNew |-> tags]
  OBVIOUS
<1>13. inputOf' = Append(inputOf, e)
  BY <1>10, <1>12 DEF CalculateResultOnBlock
<1>14. /\ e \in [addrId : Seq(Ids), amount : Seq(Int), tagNew : Seq(BOOLEAN)]
       /\ e.addrId = cacheAddrId /\ e.amount = cacheAmount /\ e.tagNew = tags
  BY <1>5, <1>9, <1>11, <1>12
<1>15. \A i \in DOMAIN cacheAddrId : tags[i] = isNew(cacheAddrId[i])
  BY <1>10
<1>16. QED
  BY <1>5, <1>9, <1>11, <1>13, <1>14, <1>15

LEMMA CalcKeepsBase ==
  ASSUME BaseInv, CalculateResultOnBlock
  PROVE  BaseInv'
<1>1. ControlInv'
  BY DEF BaseInv, ControlInv, CalculateResultOnBlock, bitcore
<1>2. CoinsInv'
  BY DEF BaseInv, CoinsInv, CalculateResultOnBlock, bitcore
<1>3. RowsInv'
  <2>1. UNCHANGED <<AddressHashDict, tmpBalanceDict, TableTx>>
    BY DEF CalculateResultOnBlock
  <2>2. RowIds' = RowIds /\ Undigested' = Undigested
    BY <2>1 DEF RowIds, Undigested, CalculateResultOnBlock
  <2>3. QED
    BY <2>1, <2>2 DEF BaseInv, RowsInv
<1>4. InputsInv'
  <2>1. PICK X : X = [addrId : Seq(Ids), amount : Seq(Int), tagNew : Seq(BOOLEAN)]
    OBVIOUS
  <2>2. PICK e \in X : /\ inputOf' = Append(inputOf, e)
                       /\ Len(e.amount) = Len(e.addrId) /\ Len(e.tagNew) = Len(e.addrId)
    BY <2>1, CalcDoes
  <2>3. inputOf \in Seq(X) /\ Len(inputOf) = n - 1 /\ n \in Nat
    BY <2>1 DEF BaseInv, InputsInv, ControlInv, CalculateResultOnBlock
  <2>4. inputOf' \in Seq(X) /\ Len(inputOf') = n
    BY <2>2, <2>3
  <2>5. ASSUME NEW b \in DOMAIN inputOf'
        PROVE  /\ Len(inputOf'[b].amount) = Len(inputOf'[b].addrId)
               /\ Len(inputOf'[b].tagNew) = Len(inputOf'[b].addrId)
    <3>1. CASE b = n
      <4>1. inputOf'[b] = e
        BY <2>2, <2>3, <3>1
      <4>2. QED
        BY <2>2, <4>1
    <3>2. CASE b # n
      <4>1. b \in DOMAIN inputOf /\ inputOf'[b] = inputOf[b]
        BY <2>2, <2>3, <2>4, <3>2
      <4>2. QED
        BY <4>1 DEF BaseInv, InputsInv
    <3>3. QED
      BY <3>1, <3>2
  <2>6. pc' = "merge" /\ n' = n
    BY DEF CalculateResultOnBlock
  <2>7. QED
    BY <2>1, <2>4, <2>5, <2>6 DEF InputsInv
<1>5. QED
  BY <1>1, <1>2, <1>3, <1>4 DEF BaseInv

LEMMA MergeKeepsBase ==
  ASSUME BaseInv, MergeBlock2AddressState
  PROVE  BaseInv'
<1>1. ControlInv'
  <2>1. n \in 1 .. N + 1 /\ n <= tip /\ tip \in 0 .. N /\ N \in Nat
    BY TsAssumption DEF BaseInv, ControlInv, MergeBlock2AddressState
  <2>2. n' = n + 1 /\ tip' = tip /\ pc' = "digest"
    BY DEF MergeBlock2AddressState, bitcore
  <2>3. QED
    BY <2>1, <2>2 DEF ControlInv
<1>2. CoinsInv'
  BY DEF BaseInv, CoinsInv, MergeBlock2AddressState, bitcore
<1>3. RowsInv'
  <2>1. UNCHANGED <<AddressHashDict, tmpBalanceDict, TableTx>>
    BY DEF MergeBlock2AddressState
  <2>2. RowIds' = RowIds /\ Undigested' = Undigested
    BY <2>1 DEF RowIds, Undigested, MergeBlock2AddressState
  <2>3. QED
    BY <2>1, <2>2 DEF BaseInv, RowsInv
<1>4. InputsInv'
  BY DEF BaseInv, InputsInv, ControlInv, MergeBlock2AddressState
<1>5. QED
  BY <1>1, <1>2, <1>3, <1>4 DEF BaseInv

LEMMA InitBase == Init => BaseInv
<1>1. SUFFICES ASSUME Init PROVE BaseInv
  OBVIOUS
<1>2. ControlInv
  BY <1>1, TsAssumption DEF Init, ControlInv
<1>3. CoinsInv
  BY <1>1 DEF Init, CoinsInv
<1>4. RowsInv
  <2>1. RowIds = {} /\ Known(AddressHashDict) = {}
    BY <1>1 DEF Init, RowIds, Known
  <2>2. GoodDict(AddressHashDict)
    BY <1>1, <2>1 DEF Init, GoodDict
  <2>3. QED
    BY <1>1, <2>1, <2>2 DEF Init, RowsInv
<1>5. InputsInv
  BY <1>1 DEF Init, InputsInv
<1>6. QED
  BY <1>2, <1>3, <1>4, <1>5 DEF BaseInv

-----------------------------------------------------------------------------
(* The merge of a block, address by address. *)

Gains(s, r, x) == Balanced(r) /\ r.balance = s.balance + x

\* What the merge of block n has made of the statistics s0: whether rows of
\* the address have been met, and whether it has paid.
Merging(s0, s, touched, payed) ==
  /\ payed => touched
  /\ ~touched => s = s0
  /\ touched =>
       /\ s.created # 0 /\ s.lastActive = Ts[n]
       /\ s.numTx = s0.numTx + IF s0.created = 0 \/ s0.lastActive = Ts[n] THEN 0 ELSE 1
       /\ s.winning + s.lossing =
            (IF s0.created = 0 THEN 2 ELSE s0.winning + s0.lossing)
              + IF payed /\ s0.lastPayed # Ts[n] THEN 1 ELSE 0
       /\ s.lastPayed = IF payed THEN Ts[n] ELSE s0.lastPayed

\* The first row of a block touches the statistics, the others leave it at that.
LEMMA TouchedMerging ==
  ASSUME n \in Blocks, NEW s0 \in Statistics, NEW s \in Statistics,
         NEW touched \in BOOLEAN, NEW payed \in BOOLEAN, Merging(s0, s, touched, payed)
  PROVE  LET t == Touched(s) IN
         /\ t \in Statistics /\ Merging(s0, t, TRUE, payed)
         /\ t.balance = s.balance /\ t.income = s.income /\ t.expense = s.expense
<1>1. Ts[n] \in Nat \ {0} /\ Price[n] \in Nat
  BY TsAssumption, CoinLedgerAssumption
<1>2. PICK ts \in Nat \ {0}, price \in Nat : ts = Ts[n] /\ price = Price[n]
  BY <1>1
<1>3. PICK t : t = Touched(s)
  OBVIOUS
<1>4. CASE s.created = 0
  <2>1. ~touched /\ ~payed /\ s = s0
    BY <1>4 DEF Merging
  <2>2. t = [s EXCEPT !.created = ts, !.lastActive = ts, !.winning = 1, !.lossing = 1,
                      !.lastPurchasePrice = price]
    BY <1>2, <1>3, <1>4 DEF Touched
  <2>3. /\ t \in Statistics /\ t.created = ts /\ t.lastActive = ts /\ t.winning = 1 /\ t.lossing = 1
        /\ t.numTx = s.numTx /\ t.lastPayed = s.lastPayed
        /\ t.balance = s.balance /\ t.income = s.income /\ t.expense = s.expense
    <3>1. t \in Statistics
      <4>1. t = [created |-> ts, lastActive |-> ts, lastReceived |-> s.lastReceived,
                 lastPayed |-> s.lastPayed, income |-> s.income, expense |-> s.expense,
                 numTx |-> s.numTx, winning |-> 1, lossing |-> 1,
                 lastPurchasePrice |-> price, balance |-> s.balance]
        BY <2>2 DEF Statistics
      <4>2. QED
        BY <4>1 DEF Statistics
    <3>2. t.created = ts /\ t.lastActive = ts /\ t.winning = 1 /\ t.lossing = 1
      BY <2>2 DEF Statistics
    <3>3. /\ t.numTx = s.numTx /\ t.lastPayed = s.lastPayed
          /\ t.balance = s.balance /\ t.income = s.income /\ t.expense = s.expense
      BY <2>2 DEF Statistics
    <3>4. QED
      BY <3>1, <3>2, <3>3
  <2>4. s.numTx \in Int
    BY DEF Statistics
  <2>5. QED
    BY <1>2, <1>3, <1>4, <2>1, <2>3, <2>4 DEF Merging
<1>5. CASE s.created # 0 /\ s.lastActive # Ts[n]
  <2>1. ~touched /\ ~payed /\ s = s0
    BY <1>5 DEF Merging
  <2>2. t = [s EXCEPT !.numTx = s.numTx + 1, !.lastActive = ts]
    BY <1>2, <1>3, <1>5 DEF Touched
  <2>3. /\ t \in Statistics /\ t.created = s.created /\ t.lastActive = ts
        /\ t.winning = s.winning /\ t.lossing = s.lossing
        /\ t.numTx = s.numTx + 1 /\ t.lastPayed = s.lastPayed
        /\ t.balance = s.balance /\ t.income = s.income /\ t.expense = s.expense
    <3>1. t = [created |-> s.created, lastActive |-> ts, lastReceived |-> s.lastReceived,
               lastPayed |-> s.lastPayed, income |-> s.income, expense |-> s.expense,
               numTx |-> s.numTx + 1, winning |-> s.winning, lossing |-> s.lossing,
               lastPurchasePrice |-> s.lastPurchasePrice, balance |-> s.balance]
      BY <2>2 DEF Statistics
    <3>2. t \in Statistics
      BY <3>1 DEF Statistics
    <3>3. QED
      BY <3>1, <3>2
  <2>4. s.winning \in Int /\ s.lossing \in Int
    BY DEF Statistics
  <2>5. QED
    BY <1>2, <1>3, <1>5, <2>1, <2>3, <2>4 DEF Merging
<1>6. CASE s.created # 0 /\ s.lastActive = Ts[n]
  <2>1. t = s
    BY <1>3, <1>6 DEF Touched
  <2>2. s.numTx \in Int /\ s.winning \in Int /\ s.lossing \in Int
    BY DEF Statistics
  <2>3. CASE touched
    BY <1>3, <2>1, <2>3
  <2>4. CASE ~touched
    <3>1. s = s0 /\ ~payed
      BY <2>4 DEF Merging
    <3>2. QED
      BY <1>3, <1>6, <2>1, <2>2, <3>1 DEF Merging
  <2>5. QED
    BY <2>3, <2>4
<1>7. QED
  BY <1>4, <1>5, <1>6

\* A coin received.
LEMMA ReceivedMerging ==
  ASSUME n \in Blocks, NEW s0 \in Statistics, NEW s \in Statistics, NEW x \in Int,
         NEW touched \in BOOLEAN, NEW payed \in BOOLEAN, Merging(s0, s, touched, payed),
         Balanced(s), NEW r, r = Received(Touched(s), x)
  PROVE  r \in Statistics /\ Merging(s0, r, TRUE, payed) /\ Gains(s, r, x)
<1>1. PICK t \in Statistics : /\ t = Touched(s) /\ Merging(s0, t, TRUE, payed)
                              /\ t.balance = s.balance /\ t.income = s.income /\ t.expense = s.expense
  BY TouchedMerging
<1>2. Ts[n] \in Int /\ Price[n] \in Int
  BY TsAssumption, CoinLedgerAssumption
<1>3. PICK ts \in Int, price \in Int : ts = Ts[n] /\ price = Price[n]
  BY <1>2
<1>4. r = [t EXCEPT !.lastReceived = ts, !.income = t.income + x,
                    !.lastPurchasePrice = price, !.balance = t.income + x - t.expense]
  BY <1>1, <1>3 DEF Received
<1>6. t.income \in Int /\ t.expense \in Int /\ t.balance \in Int
  BY DEF Statistics
<1>7. /\ r \in Statistics /\ r.created = t.created /\ r.lastActive = t.lastActive
      /\ r.numTx = t.numTx /\ r.winning = t.winning /\ r.lossing = t.lossing
      /\ r.lastPayed = t.lastPayed
      /\ r.income = t.income + x /\ r.expense = t.expense /\ r.balance = t.income + x - t.expense
  <2>1. r = [created |-> t.created, lastActive |-> t.lastActive, lastReceived |-> ts,
             lastPayed |-> t.lastPayed, income |-> t.income + x, expense |-> t.expense,
             numTx |-> t.numTx, winning |-> t.winning, lossing |-> t.lossing,
             lastPurchasePrice |-> price, balance |-> t.income + x - t.expense]
    BY <1>4 DEF Statistics
  <2>2. r \in Statistics
    BY <1>3, <1>6, <2>1 DEF Statistics
  <2>3. QED
    BY <2>1, <2>2
<1>8. Merging(s0, r, TRUE, payed)
  BY <1>1, <1>7 DEF Merging
<1>9. Gains(s, r, x)
  BY <1>1, <1>6, <1>7 DEF Balanced, Gains
<1>10. QED
  BY <1>7, <1>8, <1>9

\* A coin paid, x its amount, which is negative.
LEMMA PayedMerging ==
  ASSUME n \in Blocks, NEW s0 \in Statistics, NEW s \in Statistics, NEW x \in Int,
         NEW touched \in BOOLEAN, NEW payed \in BOOLEAN, Merging(s0, s, touched, payed),
         Balanced(s), NEW y, y = -x, NEW r, r = Payed(Touched(s), y)
  PROVE  r \in Statistics /\ Merging(s0, r, TRUE, TRUE) /\ Gains(s, r, x)
<1>1. PICK t \in Statistics : /\ t = Touched(s) /\ Merging(s0, t, TRUE, payed)
                              /\ t.balance = s.balance /\ t.income = s.income /\ t.expense = s.expense
  BY TouchedMerging
<1>2. Ts[n] \in Int /\ Price[n] \in Int
  BY TsAssumption, CoinLedgerAssumption
<1>3. PICK ts \in Int, price \in Int : ts = Ts[n] /\ price = Price[n]
  BY <1>2
<1>4. PICK new \in 0 .. 1 : new = NewTrade(t) /\ new = IF t.lastPayed # ts THEN 1 ELSE 0
  BY <1>3 DEF NewTrade
<1>5. /\ t.income \in Int /\ t.expense \in Int /\ t.balance \in Int
      /\ t.winning \in Int /\ t.lossing \in Int
  BY DEF Statistics
<1>6. PICK w \in Int, l \in Int :
        /\ w = t.winning + (IF price >= t.lastPurchasePrice THEN new ELSE 0)
        /\ l = t.lossing + (IF price >= t.lastPurchasePrice THEN 0 ELSE new)
  BY <1>4, <1>5
<1>7. w + l = t.winning + t.lossing + new
  BY <1>4, <1>5, <1>6
<1>8. r = [t EXCEPT !.winning = w, !.lossing = l, !.lastPayed = ts,
                    !.expense = t.expense + (-x), !.balance = t.income - t.expense - (-x)]
  BY <1>1, <1>3, <1>4, <1>6 DEF Payed
<1>10. /\ r \in Statistics /\ r.created = t.created /\ r.lastActive = t.lastActive
       /\ r.numTx = t.numTx /\ r.winning = w /\ r.lossing = l /\ r.lastPayed = ts
       /\ r.income = t.income /\ r.expense = t.expense - x /\ r.balance = t.income - t.expense + x
  <2>1. r = [created |-> t.created, lastActive |-> t.lastActive, lastReceived |-> t.lastReceived,
             lastPayed |-> ts, income |-> t.income, expense |-> t.expense + (-x),
             numTx |-> t.numTx, winning |-> w, lossing |-> l,
             lastPurchasePrice |-> t.lastPurchasePrice, balance |-> t.income - t.expense - (-x)]
    BY <1>8 DEF Statistics
  <2>2. r \in Statistics
    BY <1>3, <1>5, <2>1 DEF Statistics
  <2>3. t.expense + (-x) = t.expense - x /\ t.income - t.expense - (-x) = t.income - t.expense + x
    BY <1>5
  <2>4. QED
    BY <2>1, <2>2, <2>3
<1>11. Merging(s0, r, TRUE, TRUE)
  <2>1. /\ t.created # 0 /\ t.lastActive = ts
        /\ t.numTx = s0.numTx + IF s0.created = 0 \/ s0.lastActive = ts THEN 0 ELSE 1
        /\ t.winning + t.lossing =
             (IF s0.created = 0 THEN 2 ELSE s0.winning + s0.lossing)
               + IF payed /\ s0.lastPayed # ts THEN 1 ELSE 0
        /\ t.lastPayed = IF payed THEN ts ELSE s0.lastPayed
    BY <1>1, <1>3 DEF Merging
  <2>2. s0.winning + s0.lossing \in Int
    BY DEF Statistics
  <2>3. w + l = (IF s0.created = 0 THEN 2 ELSE s0.winning + s0.lossing)
                  + IF s0.lastPayed # ts THEN 1 ELSE 0
    BY <1>4, <1>7, <2>1, <2>2
  <2>4. QED
    BY <1>3, <1>10, <2>1, <2>3 DEF Merging
<1>12. Gains(s, r, x)
  BY <1>1, <1>5, <1>10 DEF Balanced, Gains
<1>13. QED
  BY <1>10, <1>11, <1>12

LEMMA MovedTyped ==
  ASSUME n \in Blocks, NEW s \in Statistics, NEW x \in Int
  PROVE  Received(Touched(s), x) \in Statistics /\ Payed(Touched(s), x) \in Statistics
<1>1. PICK t \in Statistics : t = Touched(s)
  <2>1. Merging(s, s, FALSE, FALSE)
    BY DEF Merging
  <2>2. QED
    BY <2>1, TouchedMerging
<1>2. PICK ts \in Int, price \in Int : ts = Ts[n] /\ price = Price[n]
  BY TsAssumption, CoinLedgerAssumption
<1>3. \A y \in Statistics : y.income \in Int /\ y.expense \in Int /\ y.winning \in Int /\ y.lossing \in Int
  BY DEF Statistics
<1>4. PICK r : r = [t EXCEPT !.lastReceived = ts, !.income = t.income + x,
                             !.lastPurchasePrice = price, !.balance = t.income + x - t.expense]
  OBVIOUS
<1>5. r = [created |-> t.created, lastActive |-> t.lastActive, lastReceived |-> ts,
           lastPayed |-> t.lastPayed, income |-> t.income + x, expense |-> t.expense,
           numTx |-> t.numTx, winning |-> t.winning, lossing |-> t.lossing,
           lastPurchasePrice |-> price, balance |-> t.income + x - t.expense]
  BY <1>4 DEF Statistics
<1>6. r \in Statistics
  BY <1>2, <1>3, <1>5 DEF Statistics
<1>7. PICK w \in Int, l \in Int :
        /\ w = t.winning + (IF price >= t.lastPurchasePrice THEN NewTrade(t) ELSE 0)
        /\ l = t.lossing + (IF price >= t.lastPurchasePrice THEN 0 ELSE NewTrade(t))
  BY <1>3 DEF NewTrade
<1>8. PICK q : q = [t EXCEPT !.winning = w, !.lossing = l, !.lastPayed = ts,
                             !.expense = t.expense + x, !.balance = t.income - t.expense - x]
  OBVIOUS
<1>9. q = [created |-> t.created, lastActive |-> t.lastActive, lastReceived |-> t.lastReceived,
           lastPayed |-> ts, income |-> t.income, expense |-> t.expense + x,
           numTx |-> t.numTx, winning |-> w, lossing |-> l,
           lastPurchasePrice |-> t.lastPurchasePrice, balance |-> t.income - t.expense - x]
  BY <1>8 DEF Statistics
<1>10. q \in Statistics
  BY <1>2, <1>3, <1>9 DEF Statistics
<1>11. r = Received(Touched(s), x)
  BY <1>1, <1>2, <1>4 DEF Received
<1>12. q = Payed(Touched(s), x)
  BY <1>1, <1>2, <1>7, <1>8 DEF Payed
<1>13. QED
  BY <1>6, <1>10, <1>11, <1>12

LEMMA MergeOne ==
  ASSUME n \in Blocks, NEW d \in [Ids -> Statistics], NEW r \in Rows
  PROVE  /\ r.id \in Ids /\ r.amount \in Int
         /\ MergeIn(d, r) \in [Ids -> Statistics] /\ MergeOut(d, r) \in [Ids -> Statistics]
         /\ MergeIn(d, r)[r.id] = Received(Touched(d[r.id]), r.amount)
         /\ MergeOut(d, r)[r.id] = Payed(Touched(d[r.id]), -r.amount)
         /\ \A id \in Ids : id # r.id => MergeIn(d, r)[id] = d[id] /\ MergeOut(d, r)[id] = d[id]
<1>1. PICK id \in Ids, x \in Int : id = r.id /\ x = r.amount
  BY DEF Rows
<1>2. PICK s \in Statistics : s = d[id]
  OBVIOUS
<1>4. PICK t \in Statistics, u \in Statistics :
        t = Received(Touched(s), x) /\ u = Payed(Touched(s), -x)
  <2>1. -x \in Int
    OBVIOUS
  <2>2. QED
    BY <2>1, MovedTyped
<1>5. MergeIn(d, r) = [d EXCEPT ![id] = t] /\ MergeOut(d, r) = [d EXCEPT ![id] = u]
  BY <1>1, <1>2, <1>4 DEF MergeIn, MergeOut
<1>6. QED
  BY <1>1, <1>2, <1>4, <1>5

\* The folds have a value at every row.
LEMMA MergeInFold ==
  ASSUME n \in Blocks, NEW service \in [Ids -> Statistics], NEW list \in Seq(Rows)
  PROVE  \E f \in [0 .. Len(list) -> [Ids -> Statistics]] :
           /\ f[0] = service /\ f[Len(list)] = FoldLeft(MergeIn, service, list)
           /\ \A i \in 1 .. Len(list) : f[i] = MergeIn(f[i - 1], list[i])
<1> DEFINE Folding(g) == g = [t \in SUBSET DOMAIN list |->
                                IF t = {} THEN service
                                ELSE MergeIn(g[t \ {Max(t)}], list[Max(t)])]
           F == CHOOSE g : Folding(g)
<1>1. PICK L \in Nat : L = Len(list) /\ DOMAIN list = 1 .. L
  OBVIOUS
<1>2. PICK X : X = [Ids -> Statistics]
  OBVIOUS
<1>3. PICK step : step = [i \in 1 .. L |-> [d \in X |-> MergeIn(d, list[i])]]
  OBVIOUS
<1>4. \A d \in X, i \in 1 .. L : step[i][d] = MergeIn(d, list[i])
  BY <1>3
<1>5. \A d \in X, i \in 1 .. L : MergeIn(d, list[i]) \in X
  <2>1. \A i \in 1 .. L : list[i] \in Rows
    BY <1>1
  <2>2. QED
    BY <1>2, <2>1, MergeOne
<1>6. Steps(X, service, step, L)
  <2>1. step \in [1 .. L -> [X -> X]]
    BY <1>3, <1>5
  <2>2. QED
    BY <1>2, <2>1 DEF Steps
<1>7. \E g : Folding(g)
  <2>1. PICK g \in [SUBSET (1 .. L) -> X] : IsFold(g, X, service, step, L)
    BY <1>6, FoldExists
  <2>2. \A t \in SUBSET (1 .. L) :
          g[t] = IF t = {} THEN service ELSE MergeIn(g[t \ {Max(t)}], list[Max(t)])
    BY <1>4, <2>1, MaxOfPart DEF IsFold
  <2>3. Folding(g)
    BY <1>1, <2>2
  <2> HIDE DEF Folding
  <2>4. QED
    BY <2>3
<1>8. Folding(F)
  <2> HIDE DEF Folding
  <2>1. QED
    BY <1>7
<1>9. FoldLeft(MergeIn, service, list) = F[1 .. L]
  BY <1>1 DEF FoldLeft, MapThenFoldSet
<1> HIDE DEF F
<1>10. IsFold(F, X, service, step, L)
  <2>1. \A t \in SUBSET (1 .. L) :
          F[t] = IF t = {} THEN service ELSE MergeIn(F[t \ {Max(t)}], list[Max(t)])
    BY <1>1, <1>8
  <2>2. QED
    BY <1>4, <2>1, MaxOfPart DEF IsFold
<1>11. /\ F[{}] = service /\ \A i \in 0 .. L : F[1 .. i] \in X
       /\ \A i \in 1 .. L : F[1 .. i] = MergeIn(F[1 .. i - 1], list[i])
  BY <1>4, <1>6, <1>10, FoldSteps
<1>12. PICK f : f = [i \in 0 .. L |-> F[1 .. i]]
  OBVIOUS
<1>13. /\ f \in [0 .. L -> X] /\ f[0] = service /\ f[L] = F[1 .. L]
       /\ \A i \in 1 .. L : f[i] = F[1 .. i] /\ f[i - 1] = F[1 .. i - 1]
  BY <1>11, <1>12
<1>14. \A i \in 1 .. L : f[i] = MergeIn(f[i - 1], list[i])
  BY <1>11, <1>13
<1>15. PICK whole : whole = FoldLeft(MergeIn, service, list)
  OBVIOUS
<1>16. QED
  BY <1>1, <1>2, <1>9, <1>13, <1>14

LEMMA MergeOutFold ==
  ASSUME n \in Blocks, NEW service \in [Ids -> Statistics], NEW list \in Seq(Rows)
  PROVE  \E f \in [0 .. Len(list) -> [Ids -> Statistics]] :
           /\ f[0] = service /\ f[Len(list)] = FoldLeft(MergeOut, service, list)
           /\ \A i \in 1 .. Len(list) : f[i] = MergeOut(f[i - 1], list[i])
<1> DEFINE Folding(g) == g = [t \in SUBSET DOMAIN list |->
                                IF t = {} THEN service
                                ELSE MergeOut(g[t \ {Max(t)}], list[Max(t)])]
           F == CHOOSE g : Folding(g)
<1>1. PICK L \in Nat : L = Len(list) /\ DOMAIN list = 1 .. L
  OBVIOUS
<1>2. PICK X : X = [Ids -> Statistics]
  OBVIOUS
<1>3. PICK step : step = [i \in 1 .. L |-> [d \in X |-> MergeOut(d, list[i])]]
  OBVIOUS
<1>4. \A d \in X, i \in 1 .. L : step[i][d] = MergeOut(d, list[i])
  BY <1>3
<1>5. \A d \in X, i \in 1 .. L : MergeOut(d, list[i]) \in X
  <2>1. \A i \in 1 .. L : list[i] \in Rows
    BY <1>1
  <2>2. QED
    BY <1>2, <2>1, MergeOne
<1>6. Steps(X, service, step, L)
  <2>1. step \in [1 .. L -> [X -> X]]
    BY <1>3, <1>5
  <2>2. QED
    BY <1>2, <2>1 DEF Steps
<1>7. \E g : Folding(g)
  <2>1. PICK g \in [SUBSET (1 .. L) -> X] : IsFold(g, X, service, step, L)
    BY <1>6, FoldExists
  <2>2. \A t \in SUBSET (1 .. L) :
          g[t] = IF t = {} THEN service ELSE MergeOut(g[t \ {Max(t)}], list[Max(t)])
    BY <1>4, <2>1, MaxOfPart DEF IsFold
  <2>3. Folding(g)
    BY <1>1, <2>2
  <2> HIDE DEF Folding
  <2>4. QED
    BY <2>3
<1>8. Folding(F)
  <2> HIDE DEF Folding
  <2>1. QED
    BY <1>7
<1>9. FoldLeft(MergeOut, service, list) = F[1 .. L]
  BY <1>1 DEF FoldLeft, MapThenFoldSet
<1> HIDE DEF F
<1>10. IsFold(F, X, service, step, L)
  <2>1. \A t \in SUBSET (1 .. L) :
          F[t] = IF t = {} THEN service ELSE MergeOut(F[t \ {Max(t)}], list[Max(t)])
    BY <1>1, <1>8
  <2>2. QED
    BY <1>4, <2>1, MaxOfPart DEF IsFold
<1>11. /\ F[{}] = service /\ \A i \in 0 .. L : F[1 .. i] \in X
       /\ \A i \in 1 .. L : F[1 .. i] = MergeOut(F[1 .. i - 1], list[i])
  BY <1>4, <1>6, <1>10, FoldSteps
<1>12. PICK f : f = [i \in 0 .. L |-> F[1 .. i]]
  OBVIOUS
<1>13. /\ f \in [0 .. L -> X] /\ f[0] = service /\ f[L] = F[1 .. L]
       /\ \A i \in 1 .. L : f[i] = F[1 .. i] /\ f[i - 1] = F[1 .. i - 1]
  BY <1>11, <1>12
<1>14. \A i \in 1 .. L : f[i] = MergeOut(f[i - 1], list[i])
  BY <1>11, <1>13
<1>15. PICK whole : whole = FoldLeft(MergeOut, service, list)
  OBVIOUS
<1>16. QED
  BY <1>1, <1>2, <1>9, <1>13, <1>14

\* One row of either fold.
Moved(d, e, r, op) == e = IF op = "out" THEN MergeOut(d, r) ELSE MergeIn(d, r)

\* Some of the first k rows is of the address.
Met(list, k, id) == \E i \in 1 .. k : list[i].id = id

\* Either fold, for one address: whether the list has a row of it is what
\* counts, and what its rows are worth goes into the balance.
LEMMA FoldMerging ==
  ASSUME n \in Blocks, NEW list \in Seq(Rows), NEW f \in [0 .. Len(list) -> [Ids -> Statistics]],
         NEW op \in {"in", "out"},
         \A i \in 1 .. Len(list) : Moved(f[i - 1], f[i], list[i], op),
         NEW id \in Ids, NEW s0 \in Statistics, NEW touched \in BOOLEAN,
         Merging(s0, f[0][id], touched, FALSE), Balanced(f[0][id])
  PROVE  /\ \E t, p \in BOOLEAN :
              /\ t <=> touched \/ id \in IdsOf(list)
              /\ p <=> op = "out" /\ id \in IdsOf(list)
              /\ Merging(s0, f[Len(list)][id], t, p)
         /\ Gains(f[0][id], f[Len(list)][id], SumSeq(Worth(list, id)))
<1>1. PICK L \in Nat : L = Len(list) /\ DOMAIN list = 1 .. L
  OBVIOUS
<1>2. \A i \in 1 .. L : list[i] \in Rows
  BY <1>1
<1>3. \A i \in 0 .. L : f[i] \in [Ids -> Statistics] /\ f[i][id] \in Statistics
  BY <1>1
<1> DEFINE Good(k) == /\ Balanced(f[k][id])
                      /\ \E t, p \in BOOLEAN : /\ t <=> touched \/ Met(list, k, id)
                                               /\ p <=> op = "out" /\ Met(list, k, id)
                                               /\ Merging(s0, f[k][id], t, p)
           T == {k \in 0 .. L : Good(k)}
<1>4. PICK u \in Seq(Int) : u = Worth(list, id) /\ Len(u) = L
  BY <1>1, WorthTyped
<1>5. \A i \in 1 .. L : u[i] = WorthOf(list[i], id)
  BY <1>1, <1>4 DEF Worth
<1>6. ASSUME NEW k \in 1 .. L, Good(k - 1)
      PROVE  Good(k) /\ f[k][id].balance = f[k - 1][id].balance + u[k]
  <2>1. PICK r \in Rows : r = list[k]
    BY <1>2
  <2>2. PICK d \in [Ids -> Statistics], e \in [Ids -> Statistics] : d = f[k - 1] /\ e = f[k]
    BY <1>3
  <2>3. Moved(d, e, r, op)
    BY <1>1, <2>1, <2>2
  <2>4. PICK s \in Statistics : s = d[id]
    OBVIOUS
  <2>5. PICK t \in BOOLEAN, p \in BOOLEAN : /\ t <=> touched \/ Met(list, k - 1, id)
                                            /\ p <=> op = "out" /\ Met(list, k - 1, id)
                                            /\ Merging(s0, s, t, p)
    BY <1>6, <2>2, <2>4
  <2>6. Balanced(s)
    BY <1>6, <2>2, <2>4
  <2>7. /\ r.id = id /\ op = "out" => Merging(s0, e[id], TRUE, TRUE)
        /\ r.id = id /\ op = "in" => Merging(s0, e[id], TRUE, p)
        /\ r.id # id => e[id] = s
        /\ Gains(s, e[id], u[k])
    <3>1. u[k] = WorthOf(r, id)
      BY <1>5, <2>1
    <3>2. CASE r.id # id
      <4>1. e[id] = s
        BY <2>3, <2>4, <3>2, MergeOne DEF Moved
      <4>2. Gains(s, s, 0) /\ u[k] = 0
        BY <2>6, <3>1, <3>2 DEF Statistics, Gains, WorthOf
      <4>3. QED
        BY <3>2, <4>1, <4>2
    <3>3. CASE r.id = id
      <4>1. PICK x \in Int : x = r.amount /\ x = u[k]
        BY <3>1, <3>3 DEF Rows, WorthOf
      <4>2. PICK a : a = e[id]
        OBVIOUS
      <4>3. CASE op = "out"
        <5>1. PICK y : y = -x
          OBVIOUS
        <5>2. a = Payed(Touched(s), y)
          <6>1. MergeOut(d, r)[r.id] = Payed(Touched(d[r.id]), -r.amount)
            BY MergeOne
          <6>2. e = MergeOut(d, r)
            BY <2>3, <4>3 DEF Moved
          <6>3. QED
            BY <2>4, <3>3, <4>1, <4>2, <5>1, <6>1, <6>2
        <5>3. Merging(s0, a, TRUE, TRUE) /\ Gains(s, a, x)
          BY <2>5, <2>6, <5>1, <5>2, PayedMerging
        <5>4. QED
          BY <3>3, <4>1, <4>2, <4>3, <5>3
      <4>4. CASE op = "in"
        <5>1. a = Received(Touched(s), x)
          <6>1. MergeIn(d, r)[r.id] = Received(Touched(d[r.id]), r.amount)
            BY MergeOne
          <6>2. e = MergeIn(d, r)
            BY <2>3, <4>4 DEF Moved
          <6>3. QED
            BY <2>4, <3>3, <4>1, <4>2, <6>1, <6>2
        <5>2. Merging(s0, a, TRUE, p) /\ Gains(s, a, x)
          BY <2>5, <2>6, <5>1, ReceivedMerging
        <5>3. QED
          BY <3>3, <4>1, <4>2, <4>4, <5>2
      <4>5. QED
        BY <4>3, <4>4
    <3>4. QED
      BY <3>2, <3>3
  <2>8. \E t1, p1 \in BOOLEAN : /\ t1 <=> touched \/ Met(list, k, id)
                                /\ p1 <=> op = "out" /\ Met(list, k, id)
                                /\ Merging(s0, e[id], t1, p1)
    <3>1. CASE r.id # id
      <4>1. Met(list, k, id) <=> Met(list, k - 1, id)
        BY <2>1, <3>1 DEF Met
      <4>2. QED
        BY <2>5, <2>7, <3>1, <4>1
    <3>2. CASE r.id = id /\ op = "out"
      <4>1. Met(list, k, id)
        BY <2>1, <3>2 DEF Met
      <4>2. QED
        BY <2>7, <3>2, <4>1
    <3>3. CASE r.id = id /\ op = "in"
      <4>1. Met(list, k, id)
        BY <2>1, <3>3 DEF Met
      <4>2. ~p
        BY <2>5, <3>3
      <4>3. QED
        BY <2>7, <3>3, <4>1, <4>2
    <3>4. QED
      BY <3>1, <3>2, <3>3
  <2>9. Balanced(e[id]) /\ e[id].balance = s.balance + u[k]
    BY <2>7 DEF Gains
  <2>10. QED
    BY <2>2, <2>4, <2>8, <2>9
<1>7. 0 \in T
  <2>1. ~Met(list, 0, id)
    BY DEF Met
  <2>2. Good(0)
    BY <2>1
  <2>3. QED
    BY <2>2
<1>8. \A k \in 0 .. L : k \in T
  <2>1. \A k \in 1 .. L : k - 1 \in T => k \in T
    <3> HIDE DEF Good
    <3>1. QED
      BY <1>6
  <2> HIDE DEF T
  <2>2. QED
    BY <1>7, <2>1, PrefixInduction
<1>9. Good(L) /\ \A k \in 1 .. L : f[k][id].balance = f[k - 1][id].balance + u[k]
  <2>1. \A k \in 0 .. L : Good(k)
    <3> HIDE DEF Good
    <3>1. QED
      BY <1>8
  <2>2. \A k \in 1 .. L : Good(k - 1)
    <3> HIDE DEF Good
    <3>1. QED
      BY <2>1
  <2>3. L \in 0 .. L
    OBVIOUS
  <2> HIDE DEF Good
  <2>4. QED
    BY <1>6, <2>1, <2>2, <2>3
<1>10. Met(list, L, id) <=> id \in IdsOf(list)
  BY <1>1 DEF IdsOf, Met
<1>11. f[L][id].balance = f[0][id].balance + SumSeq(u)
  <2>1. PICK b : b = f[0][id].balance
    OBVIOUS
  <2>2. b \in Int /\ \A k \in 0 .. L : f[k][id].balance \in Int
    <3>1. \A s \in Statistics : s.balance \in Int
      BY DEF Statistics
    <3>2. 0 \in 0 .. L
      OBVIOUS
    <3>3. QED
      BY <1>3, <2>1, <3>1, <3>2
  <2>3. PICK h : h = [k \in 0 .. L |-> f[k][id].balance - b]
    OBVIOUS
  <2>4. h[0] = 0
    BY <2>1, <2>2, <2>3
  <2>5. ASSUME NEW k \in 1 .. L PROVE h[k] = h[k - 1] + u[k]
    <3>1. f[k][id].balance \in Int /\ f[k - 1][id].balance \in Int
      <4>1. k \in 0 .. L /\ k - 1 \in 0 .. L
        OBVIOUS
      <4>2. QED
        BY <2>2, <4>1
    <3>2. f[k][id].balance = f[k - 1][id].balance + u[k]
      BY <1>9
    <3>3. h[k] = f[k][id].balance - b /\ h[k - 1] = f[k - 1][id].balance - b
      BY <2>3
    <3>4. u[k] \in Int
      BY <1>4
    <3>5. PICK x \in Int, y \in Int, z \in Int :
            x = f[k][id].balance /\ y = f[k - 1][id].balance /\ z = u[k]
      BY <3>1, <3>4
    <3>6. x = y + z /\ h[k] = x - b /\ h[k - 1] = y - b /\ b \in Int
      BY <2>2, <3>2, <3>3, <3>5
    <3>7. x - b = (y - b) + z
      BY <3>6
    <3>8. QED
      BY <3>5, <3>6, <3>7
  <2>6. SumSeq(u) = h[L]
    BY <1>4, <2>4, <2>5, SumOf
  <2>7. h[L] = f[L][id].balance - b /\ f[L][id].balance \in Int
    BY <2>2, <2>3
  <2>8. QED
    BY <2>1, <2>2, <2>6, <2>7
<1>12. Gains(f[0][id], f[L][id], SumSeq(u))
  BY <1>9, <1>11 DEF Gains
<1>13. \E t, p \in BOOLEAN : /\ t <=> touched \/ id \in IdsOf(list)
                             /\ p <=> op = "out" /\ id \in IdsOf(list)
                             /\ Merging(s0, f[L][id], t, p)
  BY <1>9, <1>10
<1> HIDE DEF Good
<1>14. QED
  BY <1>1, <1>4, <1>12, <1>13

\* The rows the folds get are those of the block that move something.
LEMMA BlockMoves ==
  ASSUME RowsInv, n \in Blocks, NEW id
  PROVE  /\ id \in IdsOf(coinsIn) <=>
              \E i \in DOMAIN TableTx : TableTx[i].id = id /\ TableTx[i].block = n /\ TableTx[i].amount > 0
         /\ id \in IdsOf(coinsOut) <=>
              \E i \in DOMAIN TableTx : TableTx[i].id = id /\ TableTx[i].block = n /\ TableTx[i].amount < 0
<1>1. TableTx \in Seq(Rows) /\ \A i \in DOMAIN TableTx : TableTx[i] \in Rows
  BY DEF RowsInv
<1>2. PICK rows : rows = BlockRows
  OBVIOUS
<1>3. PICK B : B = {r \in Rows : r.block = n}
  OBVIOUS
<1>4. /\ rows \in Seq(Rows)
      /\ \A i \in DOMAIN rows : rows[i] \in B /\ \E j \in DOMAIN TableTx : TableTx[j] = rows[i]
      /\ \A j \in DOMAIN TableTx : TableTx[j] \in B => \E i \in DOMAIN rows : TableTx[j] = rows[i]
  <2>1. rows = InOrder(TableTx, B)
    BY <1>2, <1>3 DEF BlockRows
  <2>2. QED
    BY <1>1, <2>1, InOrderElements
<1>5. ASSUME NEW S, NEW list, list = InOrder(rows, S)
      PROVE  id \in IdsOf(list) <=>
               \E i \in DOMAIN TableTx : TableTx[i].id = id /\ TableTx[i] \in B /\ TableTx[i] \in S
  <2>1. /\ \A i \in DOMAIN list : list[i] \in S /\ \E j \in DOMAIN rows : rows[j] = list[i]
        /\ \A j \in DOMAIN rows : rows[j] \in S => \E i \in DOMAIN list : rows[j] = list[i]
    BY <1>4, <1>5, InOrderElements
  <2>2. ASSUME NEW i \in DOMAIN list, list[i].id = id
        PROVE  \E k \in DOMAIN TableTx : TableTx[k].id = id /\ TableTx[k] \in B /\ TableTx[k] \in S
    <3>1. PICK j \in DOMAIN rows : rows[j] = list[i] /\ list[i] \in S
      BY <2>1
    <3>2. PICK k \in DOMAIN TableTx : TableTx[k] = rows[j] /\ rows[j] \in B
      BY <1>4
    <3>3. QED
      BY <2>2, <3>1, <3>2
  <2>3. ASSUME NEW k \in DOMAIN TableTx, TableTx[k].id = id, TableTx[k] \in B, TableTx[k] \in S
        PROVE  \E i \in DOMAIN list : list[i].id = id
    <3>1. PICK j \in DOMAIN rows : TableTx[k] = rows[j]
      BY <1>4, <2>3
    <3>2. PICK i \in DOMAIN list : rows[j] = list[i]
      BY <2>1, <2>3, <3>1
    <3>3. QED
      BY <2>3, <3>1, <3>2
  <2>4. QED
    BY <2>2, <2>3 DEF IdsOf
<1>6. id \in IdsOf(coinsIn) <=>
        \E i \in DOMAIN TableTx : /\ TableTx[i].id = id /\ TableTx[i] \in B
                                  /\ TableTx[i] \in {r \in Rows : r.amount > 0}
  <2>1. PICK S : S = {r \in Rows : r.amount > 0}
    OBVIOUS
  <2>2. coinsIn = InOrder(rows, S)
    BY <1>2, <2>1 DEF coinsIn
  <2>3. QED
    BY <1>5, <2>1, <2>2
<1>7. id \in IdsOf(coinsOut) <=>
        \E i \in DOMAIN TableTx : /\ TableTx[i].id = id /\ TableTx[i] \in B
                                  /\ TableTx[i] \in {r \in Rows : r.amount < 0}
  <2>1. PICK S : S = {r \in Rows : r.amount < 0}
    OBVIOUS
  <2>2. coinsOut = InOrder(rows, S)
    BY <1>2, <2>1 DEF coinsOut
  <2>3. QED
    BY <1>5, <2>1, <2>2
<1>8. QED
  BY <1>1, <1>3, <1>6, <1>7

\* What the merge of block n does to the statistics s of an id.
Merged(s, t, id) ==
  \E touched, payed \in BOOLEAN :
    /\ touched <=> id \in IdsOf(coinsIn) \/ id \in IdsOf(coinsOut)
    /\ payed <=> id \in IdsOf(coinsOut)
    /\ Merging(s, t, touched, payed)

LEMMA MergeDoes ==
  ASSUME BaseInv, StampsInv, MergeBlock2AddressState
  PROVE  /\ n \in Blocks /\ AddressService' \in [Ids -> Statistics]
         /\ \A id \in Ids : Merged(AddressService[id], AddressService'[id], id)
         /\ \A id \in Ids :
              /\ Balanced(AddressService'[id])
              /\ AddressService'[id].balance = AddressService[id].balance
                   + SumSeq(Worth(coinsIn, id)) + SumSeq(Worth(coinsOut, id))
<1>1. n \in Blocks /\ RowsInv /\ AddressService \in [Ids -> Statistics]
  BY TsAssumption DEF BaseInv, ControlInv, StampsInv, MergeBlock2AddressState, Blocks
<1>2. PICK s \in Seq(Rows), t \in Seq(Rows) : s = coinsIn /\ t = coinsOut
  BY <1>1, CalcRows
<1>3. PICK f \in [0 .. Len(s) -> [Ids -> Statistics]] :
        /\ f[0] = AddressService /\ f[Len(s)] = FoldLeft(MergeIn, AddressService, s)
        /\ \A i \in 1 .. Len(s) : f[i] = MergeIn(f[i - 1], s[i])
  BY <1>1, MergeInFold
<1>4. PICK mid \in [Ids -> Statistics] : mid = FoldLeft(MergeIn, AddressService, s) /\ mid = f[Len(s)]
  <2>1. Len(s) \in 0 .. Len(s)
    OBVIOUS
  <2>2. QED
    BY <1>3, <2>1
<1>5. PICK g \in [0 .. Len(t) -> [Ids -> Statistics]] :
        /\ g[0] = mid /\ g[Len(t)] = FoldLeft(MergeOut, mid, t)
        /\ \A i \in 1 .. Len(t) : g[i] = MergeOut(g[i - 1], t[i])
  BY <1>1, MergeOutFold
<1>6. AddressService' = g[Len(t)] /\ AddressService' \in [Ids -> Statistics]
  <2>1. AddressService' = FoldLeft(MergeOut, mid, t)
    BY <1>2, <1>4 DEF MergeBlock2AddressState
  <2>2. Len(t) \in 0 .. Len(t)
    OBVIOUS
  <2>3. QED
    BY <1>5, <2>1, <2>2
<1>7. ASSUME NEW id \in Ids
      PROVE  /\ Merged(AddressService[id], AddressService'[id], id)
             /\ Balanced(AddressService'[id])
             /\ AddressService'[id].balance = AddressService[id].balance
                  + SumSeq(Worth(coinsIn, id)) + SumSeq(Worth(coinsOut, id))
  <2>1. PICK s0 \in Statistics : s0 = AddressService[id] /\ Balanced(s0)
    BY <1>1 DEF StampsInv
  <2>2. Merging(s0, s0, FALSE, FALSE)
    BY DEF Merging
  <2>3. /\ \E x, y \in BOOLEAN : /\ x <=> FALSE \/ id \in IdsOf(s)
                                 /\ y <=> "in" = "out" /\ id \in IdsOf(s)
                                 /\ Merging(s0, f[Len(s)][id], x, y)
        /\ Gains(f[0][id], f[Len(s)][id], SumSeq(Worth(s, id)))
    <3>1. \A i \in 1 .. Len(s) : Moved(f[i - 1], f[i], s[i], "in")
      BY <1>3 DEF Moved
    <3>2. Merging(s0, f[0][id], FALSE, FALSE) /\ Balanced(f[0][id])
      BY <1>3, <2>1, <2>2
    <3>3. QED
      BY <1>1, <3>1, <3>2, FoldMerging
  <2>4. PICK x \in BOOLEAN : (x <=> id \in IdsOf(s)) /\ Merging(s0, mid[id], x, FALSE)
    BY <1>4, <2>3
  <2>5. Gains(s0, mid[id], SumSeq(Worth(s, id))) /\ Balanced(mid[id])
    BY <1>3, <1>4, <2>1, <2>3 DEF Gains
  <2>6. /\ \E z, y \in BOOLEAN : /\ z <=> x \/ id \in IdsOf(t)
                                 /\ y <=> "out" = "out" /\ id \in IdsOf(t)
                                 /\ Merging(s0, g[Len(t)][id], z, y)
        /\ Gains(g[0][id], g[Len(t)][id], SumSeq(Worth(t, id)))
    <3>1. \A i \in 1 .. Len(t) : Moved(g[i - 1], g[i], t[i], "out")
      BY <1>5 DEF Moved
    <3>2. Merging(s0, g[0][id], x, FALSE) /\ Balanced(g[0][id])
      BY <1>5, <2>4, <2>5
    <3>3. QED
      BY <1>1, <3>1, <3>2, FoldMerging
  <2>7. Merged(s0, AddressService'[id], id)
    BY <1>2, <1>6, <2>4, <2>6 DEF Merged
  <2>8. Gains(mid[id], AddressService'[id], SumSeq(Worth(t, id)))
    BY <1>5, <1>6, <2>6
  <2>9. QED
    BY <1>2, <2>1, <2>5, <2>7, <2>8 DEF Gains
<1>8. QED
  BY <1>1, <1>6, <1>7

-----------------------------------------------------------------------------
(* What the address state remembers of the moves. *)

\* Digesting block n adds no moves of earlier blocks.
LEMMA MovesDigest ==
  ASSUME BaseInv, AddressService \in [Ids -> Statistics], DigestTransactionsOnBlock,
         NEW id, NEW b \in 1 .. n
  PROVE  /\ MovesBefore(id, b)' = MovesBefore(id, b)
         /\ \A i \in MovesBefore(id, b) : TableTx'[i] = TableTx[i]
<1>1. n \in Blocks /\ TableTx \in Seq(Rows)
  BY DigestDoes DEF BaseInv, RowsInv
<1>2. PICK rows : Digested(rows)
  BY DigestDoes
<1>3. /\ DOMAIN TableTx \subseteq DOMAIN TableTx'
      /\ \A i \in DOMAIN TableTx : TableTx'[i] = TableTx[i]
  BY <1>1, <1>2, DigestedRow
<1>4. \A j \in DOMAIN TableTx' : j \in DOMAIN TableTx \/ TableTx'[j].block = n
  <2>1. SUFFICES ASSUME NEW j \in DOMAIN TableTx', j \notin DOMAIN TableTx
                 PROVE  TableTx'[j].block = n
    OBVIOUS
  <2>2. PICK i \in DOMAIN rows : j = Len(TableTx) + i
    BY <1>1, <1>2, <2>1, DigestedRow
  <2>3. Filled(TableTx'[j], rows[i])
    BY <1>1, <1>2, <2>2, DigestedRow
  <2>4. rows[i].block = n
    BY <1>2 DEF Digested
  <2>5. QED
    BY <2>3, <2>4 DEF Filled
<1>5. ~(n < b)
  BY <1>1 DEF Blocks
<1>6. QED
  BY <1>3, <1>4, <1>5 DEF MovesBefore

NewMoves(id) ==
  {i \in DOMAIN TableTx : TableTx[i].id = id /\ TableTx[i].block = n /\ TableTx[i].amount # 0}

\* Merging it does.
LEMMA MovesMerge ==
  ASSUME BaseInv, MergeBlock2AddressState, NEW id
  PROVE  /\ TableTx' = TableTx /\ n' = n + 1 /\ n \in Blocks
         /\ MovesBefore(id, n)' = MovesBefore(id, n) \cup NewMoves(id)
         /\ NewMoves(id) # {} <=> id \in IdsOf(coinsIn) \/ id \in IdsOf(coinsOut)
         /\ (\E i \in NewMoves(id) : TableTx[i].amount < 0) <=> id \in IdsOf(coinsOut)
<1>1. TableTx' = TableTx /\ n' = n + 1 /\ n \in Blocks /\ RowsInv
  BY TsAssumption DEF BaseInv, ControlInv, MergeBlock2AddressState, Blocks
<1>2. \A i \in DOMAIN TableTx : TableTx[i].block \in Nat /\ TableTx[i].amount \in Int
  <2>1. \A r \in Rows : r.block \in Nat /\ r.amount \in Int
    BY DEF Rows, Blocks
  <2>2. TableTx \in Seq(Rows)
    BY <1>1 DEF RowsInv
  <2>3. QED
    BY <2>1, <2>2
<1>3. MovesBefore(id, n)' = MovesBefore(id, n) \cup NewMoves(id)
  <2>1. n \in Nat
    BY <1>1 DEF Blocks
  <2>2. \A i \in DOMAIN TableTx : TableTx[i].block < n + 1 <=> TableTx[i].block < n \/ TableTx[i].block = n
    BY <1>2, <2>1
  <2>3. QED
    BY <1>1, <2>2 DEF MovesBefore, NewMoves
<1>4. /\ id \in IdsOf(coinsIn) <=>
           \E i \in DOMAIN TableTx : TableTx[i].id = id /\ TableTx[i].block = n /\ TableTx[i].amount > 0
      /\ id \in IdsOf(coinsOut) <=>
           \E i \in DOMAIN TableTx : TableTx[i].id = id /\ TableTx[i].block = n /\ TableTx[i].amount < 0
  BY <1>1, BlockMoves
<1>5. \A i \in DOMAIN TableTx : TableTx[i].amount # 0 <=> TableTx[i].amount > 0 \/ TableTx[i].amount < 0
  BY <1>2
<1>6. NewMoves(id) # {} <=> id \in IdsOf(coinsIn) \/ id \in IdsOf(coinsOut)
  BY <1>4, <1>5 DEF NewMoves
<1>7. (\E i \in NewMoves(id) : TableTx[i].amount < 0) <=> id \in IdsOf(coinsOut)
  BY <1>4, <1>5 DEF NewMoves
<1>8. QED
  BY <1>1, <1>3, <1>6, <1>7

LEMMA StampsMerge ==
  ASSUME BaseInv, StampsInv, MergeBlock2AddressState
  PROVE  StampsInv'
<1>1. n \in Blocks /\ n \in Nat /\ n' = n + 1 /\ AddressService' \in [Ids -> Statistics]
  BY MergeDoes, MovesMerge DEF Blocks
<1>2. ASSUME NEW id \in Ids
      PROVE  LET s == AddressService'[id]
             IN  /\ Balanced(s)
                 /\ s.lastActive \in {0} \cup {Ts[b] : b \in 1 .. n' - 1}
                 /\ s.lastPayed \in {0} \cup {Ts[b] : b \in 1 .. n' - 1}
                 /\ (MovesBefore(id, n)' = {} => s = NoStatistics)
                 /\ (MovesBefore(id, n)' # {} => s.created # 0)
  <2>1. PICK s0, s : s0 = AddressService[id] /\ s = AddressService'[id]
    OBVIOUS
  <2>2. /\ s0.lastActive \in {0} \cup {Ts[b] : b \in 1 .. n - 1}
        /\ s0.lastPayed \in {0} \cup {Ts[b] : b \in 1 .. n - 1}
        /\ (MovesBefore(id, n) = {} => s0 = NoStatistics)
        /\ (MovesBefore(id, n) # {} => s0.created # 0)
    BY <2>1 DEF StampsInv
  <2>3. PICK touched \in BOOLEAN, payed \in BOOLEAN :
          /\ touched <=> id \in IdsOf(coinsIn) \/ id \in IdsOf(coinsOut)
          /\ Merging(s0, s, touched, payed)
    BY <2>1, MergeDoes DEF Merged
  <2>4. /\ MovesBefore(id, n)' = MovesBefore(id, n) \cup NewMoves(id)
        /\ NewMoves(id) # {} <=> touched
    BY <2>3, MovesMerge
  <2>5. {Ts[b] : b \in 1 .. n - 1} \subseteq {Ts[b] : b \in 1 .. n' - 1} /\ Ts[n] \in {Ts[b] : b \in 1 .. n' - 1}
    BY <1>1 DEF Blocks
  <2>6. CASE ~touched
    <3>1. s = s0 /\ NewMoves(id) = {}
      BY <2>3, <2>4, <2>6 DEF Merging
    <3>2. QED
      BY <2>1, <2>2, <2>4, <2>5, <3>1, MergeDoes
  <2>7. CASE touched
    <3>1. s.created # 0 /\ s.lastActive = Ts[n] /\ s.lastPayed \in {Ts[n], s0.lastPayed}
      BY <2>3, <2>7 DEF Merging
    <3>2. MovesBefore(id, n)' # {}
      BY <2>4, <2>7
    <3>3. QED
      BY <2>1, <2>2, <2>5, <3>1, <3>2, MergeDoes
  <2>8. QED
    BY <2>6, <2>7
<1>3. QED
  BY <1>1, <1>2 DEF StampsInv

LEMMA StampsNext ==
  ASSUME BaseInv, StampsInv, [Next]_vars
  PROVE  StampsInv'
<1>1. CASE MineBlock
  BY <1>1 DEF StampsInv, MovesBefore, MineBlock
<1>2. CASE DigestTransactionsOnBlock
  <2>1. n' = n /\ AddressService' = AddressService /\ AddressService \in [Ids -> Statistics]
    BY <1>2 DEF DigestTransactionsOnBlock, StampsInv
  <2>2. n \in 1 .. n
    BY <1>2, <2>1, DigestDoes DEF Blocks
  <2>3. PICK b \in 1 .. n : b = n
    BY <2>2
  <2>4. \A id : MovesBefore(id, b)' = MovesBefore(id, b)
    BY <1>2, <2>1, MovesDigest
  <2>5. \A id : MovesBefore(id, n)' = MovesBefore(id, n)
    BY <2>1, <2>3, <2>4 DEF MovesBefore
  <2>6. QED
    BY <2>1, <2>5 DEF StampsInv
<1>3. CASE CalculateResultOnBlock
  BY <1>3 DEF StampsInv, MovesBefore, CalculateResultOnBlock
<1>4. CASE MergeBlock2AddressState
  BY <1>4, StampsMerge
<1>5. CASE UNCHANGED vars
  BY <1>5 DEF StampsInv, MovesBefore, vars
<1>6. QED
  BY <1>1, <1>2, <1>3, <1>4, <1>5 DEF Next

LEMMA InitStamps == Init => StampsInv
<1>1. SUFFICES ASSUME Init PROVE StampsInv
  OBVIOUS
<1>2. NoStatistics \in Statistics /\ Balanced(NoStatistics)
  BY DEF NoStatistics, Statistics, Balanced
<1>3. NoStatistics.lastActive = 0 /\ NoStatistics.lastPayed = 0
  BY DEF NoStatistics
<1>4. \A id : MovesBefore(id, n) = {}
  BY <1>1 DEF Init, MovesBefore
<1>5. AddressService = [id \in Ids |-> NoStatistics]
  BY <1>1 DEF Init
<1>6. QED
  BY <1>2, <1>3, <1>4, <1>5 DEF StampsInv

LEMMA BaseNext ==
  ASSUME BaseInv, StampsInv, [Next]_vars
  PROVE  BaseInv'
<1>1. CASE MineBlock
  BY <1>1, MineKeepsBase
<1>2. CASE DigestTransactionsOnBlock
  BY <1>2, DigestKeepsBase DEF StampsInv
<1>3. CASE CalculateResultOnBlock
  BY <1>3, CalcKeepsBase
<1>4. CASE MergeBlock2AddressState
  BY <1>4, MergeKeepsBase
<1>5. CASE UNCHANGED vars
  BY <1>5 DEF BaseInv, ControlInv, CoinsInv, RowsInv, RowIds, Undigested, InputsInv, vars, bitcore
<1>6. QED
  BY <1>1, <1>2, <1>3, <1>4, <1>5 DEF Next

\* Coins, rows, dictionaries and address state have their shapes, ids are one
\* to an address, and what an address has done is stamped with its blocks.
THEOREM LedgerShape == Spec => [](BaseInv /\ StampsInv)
<1>1. Init => BaseInv /\ StampsInv
  BY InitBase, InitStamps
<1>2. BaseInv /\ StampsInv /\ [Next]_vars => (BaseInv /\ StampsInv)'
  BY BaseNext, StampsNext
<1>3. QED
  BY <1>1, <1>2, PTL DEF Spec

-----------------------------------------------------------------------------
(* New addresses. *)

LEMMA NewNext ==
  ASSUME BaseInv, StampsInv, NewInFirstBlock, [Next]_vars
  PROVE  NewInFirstBlock'
<1>1. CASE DigestTransactionsOnBlock
  <2>1. /\ inputOf' = inputOf /\ Len(inputOf) = n - 1 /\ n \in Nat /\ DOMAIN inputOf = 1 .. Len(inputOf)
        /\ AddressService \in [Ids -> Statistics]
    BY <1>1 DEF DigestTransactionsOnBlock, BaseInv, InputsInv, ControlInv, StampsInv
  <2>2. ASSUME NEW b \in DOMAIN inputOf, NEW i \in DOMAIN inputOf[b].addrId
        PROVE  inputOf'[b].tagNew[i] <=> MovesBefore(inputOf[b].addrId[i], b)' = {}
    <3>0. b \in 1 .. n
      BY <2>1
    <3>1. PICK id, c : id = inputOf[b].addrId[i] /\ c = b /\ c \in 1 .. n
      BY <3>0
    <3>2. MovesBefore(id, c)' = MovesBefore(id, c)
      BY <1>1, <2>1, <3>1, MovesDigest
    <3>3. inputOf[b].tagNew[i] <=> MovesBefore(id, c) = {}
      BY <3>1 DEF NewInFirstBlock
    <3>4. QED
      BY <2>1, <3>1, <3>2, <3>3 DEF MovesBefore
  <2>3. QED
    BY <2>1, <2>2 DEF NewInFirstBlock, MovesBefore
<1>2. CASE CalculateResultOnBlock
  <2>1. PICK X : X = [addrId : Seq(Ids), amount : Seq(Int), tagNew : Seq(BOOLEAN)]
    OBVIOUS
  <2>2. PICK e \in X : /\ inputOf' = Append(inputOf, e)
                       /\ \A i \in DOMAIN e.addrId : e.tagNew[i] = isNew(e.addrId[i])
    BY <1>2, <2>1, CalcDoes
  <2>3. /\ inputOf \in Seq(X) /\ Len(inputOf) = n - 1 /\ n \in Nat
        /\ TableTx' = TableTx
    BY <1>2, <2>1 DEF BaseInv, InputsInv, ControlInv, CalculateResultOnBlock
  <2>4. /\ DOMAIN inputOf = 1 .. n - 1 /\ DOMAIN inputOf' = 1 .. n /\ inputOf'[n] = e
        /\ \A b \in DOMAIN inputOf : inputOf'[b] = inputOf[b]
    BY <2>2, <2>3
  <2>5. ASSUME NEW i \in DOMAIN e.addrId
        PROVE  e.tagNew[i] <=> MovesBefore(e.addrId[i], n) = {}
    <3>1. PICK id \in Ids : id = e.addrId[i]
      BY <2>1, <2>2
    <3>2. NoStatistics.created = 0
      BY DEF NoStatistics
    <3>3. isNew(id) <=> MovesBefore(id, n) = {}
      BY <3>2 DEF StampsInv, isNew
    <3>4. QED
      BY <2>2, <3>1, <3>3
  <2>6. ASSUME NEW b \in DOMAIN inputOf', NEW i \in DOMAIN inputOf'[b].addrId
        PROVE  inputOf'[b].tagNew[i] <=> MovesBefore(inputOf'[b].addrId[i], b) = {}
    <3>1. CASE b = n
      BY <2>4, <2>5, <2>6, <3>1
    <3>2. CASE b # n
      <4>1. b \in DOMAIN inputOf /\ inputOf'[b] = inputOf[b]
        BY <2>3, <2>4, <3>2
      <4>2. QED
        BY <2>6, <4>1 DEF NewInFirstBlock
    <3>3. QED
      BY <3>1, <3>2
  <2>7. QED
    BY <2>3, <2>6 DEF NewInFirstBlock, MovesBefore
<1>3. CASE MineBlock \/ MergeBlock2AddressState \/ UNCHANGED vars
  <2>1. inputOf' = inputOf /\ TableTx' = TableTx
    BY <1>3 DEF MineBlock, MergeBlock2AddressState, vars
  <2>2. QED
    BY <2>1 DEF NewInFirstBlock, MovesBefore
<1>4. QED
  BY <1>1, <1>2, <1>3 DEF Next

\* The calculations of a block take an address for new exactly if no row of an
\* earlier block has moved value to or from it.
THEOREM NewAddresses == Spec => []NewInFirstBlock
<1>1. Init => NewInFirstBlock
  BY DEF Init, NewInFirstBlock
<1>2. BaseInv /\ StampsInv /\ NewInFirstBlock /\ [Next]_vars => NewInFirstBlock'
  BY NewNext
<1>3. QED
  BY <1>1, <1>2, LedgerShape, PTL DEF Spec

-----------------------------------------------------------------------------
(* Transactions and trades. *)

\* One more block.
LEMMA OneMore ==
  ASSUME NEW m \in Nat, NEW S \in SUBSET (1 .. m - 1)
  PROVE  Cardinality(S) \in Nat /\ Cardinality(S \cup {m}) = Cardinality(S) + 1
<1>1. IsFiniteSet(1 .. m - 1) /\ m \notin S
  BY FS_Interval
<1>2. IsFiniteSet(S)
  BY <1>1, FS_Subset
<1>3. QED
  BY <1>1, <1>2, FS_AddElement, FS_CardinalityType

\* The block that is merged is one more for the addresses it moves value of,
\* and one more to have paid in for those that pay.
LEMMA BlocksMerge ==
  ASSUME BaseInv, MergeBlock2AddressState, NEW id
  PROVE  /\ BlocksOf(MovesBefore(id, n)) \in SUBSET (1 .. n - 1)
         /\ BlocksOf(PayedBefore(id, n)) \in SUBSET (1 .. n - 1)
         /\ BlocksOf(MovesBefore(id, n))' =
              BlocksOf(MovesBefore(id, n))
                \cup (IF id \in IdsOf(coinsIn) \/ id \in IdsOf(coinsOut) THEN {n} ELSE {})
         /\ BlocksOf(PayedBefore(id, n))' =
              BlocksOf(PayedBefore(id, n)) \cup (IF id \in IdsOf(coinsOut) THEN {n} ELSE {})
<1>1. /\ TableTx' = TableTx /\ n \in Nat
      /\ MovesBefore(id, n)' = MovesBefore(id, n) \cup NewMoves(id)
      /\ NewMoves(id) # {} <=> id \in IdsOf(coinsIn) \/ id \in IdsOf(coinsOut)
      /\ (\E i \in NewMoves(id) : TableTx[i].amount < 0) <=> id \in IdsOf(coinsOut)
  BY MovesMerge DEF Blocks
<1>2. \A i \in DOMAIN TableTx : TableTx[i].block \in Nat \ {0}
  <2>1. \A r \in Rows : r.block \in Nat \ {0}
    BY DEF Rows, Blocks
  <2>2. TableTx \in Seq(Rows)
    BY DEF BaseInv, RowsInv
  <2>3. QED
    BY <2>1, <2>2
<1>3. \A i \in NewMoves(id) : TableTx[i].block = n
  BY DEF NewMoves
<1>4. BlocksOf(MovesBefore(id, n)) \in SUBSET (1 .. n - 1)
  BY <1>1, <1>2 DEF BlocksOf, MovesBefore
<1>5. BlocksOf(PayedBefore(id, n)) \in SUBSET (1 .. n - 1)
  BY <1>1, <1>2 DEF BlocksOf, MovesBefore, PayedBefore
<1>6. PICK M, P, New : M = MovesBefore(id, n) /\ P = PayedBefore(id, n) /\ New = NewMoves(id)
  OBVIOUS
<1>7. MovesBefore(id, n)' = M \cup New
  BY <1>1, <1>6
<1>8. PayedBefore(id, n)' = P \cup {i \in New : TableTx[i].amount < 0}
  BY <1>1, <1>6, <1>7 DEF PayedBefore
<1>9. BlocksOf(MovesBefore(id, n))' = {TableTx[i].block : i \in M \cup New}
  BY <1>1, <1>7 DEF BlocksOf
<1>10. BlocksOf(PayedBefore(id, n))' =
         {TableTx[i].block : i \in P \cup {j \in New : TableTx[j].amount < 0}}
  BY <1>1, <1>8 DEF BlocksOf
<1>11. {TableTx[i].block : i \in M \cup New} =
         BlocksOf(M) \cup (IF id \in IdsOf(coinsIn) \/ id \in IdsOf(coinsOut) THEN {n} ELSE {})
  BY <1>1, <1>3, <1>6 DEF BlocksOf
<1>12. {TableTx[i].block : i \in P \cup {j \in New : TableTx[j].amount < 0}} =
         BlocksOf(P) \cup (IF id \in IdsOf(coinsOut) THEN {n} ELSE {})
  BY <1>1, <1>3, <1>6 DEF BlocksOf
<1>13. QED
  BY <1>4, <1>5, <1>6, <1>9, <1>10, <1>11, <1>12

\* c is what s has counted: transactions and trades.
Counts(s, numTx, trades) == s.numTx = numTx - 1 /\ s.winning + s.lossing = 2 + trades

LEMMA CountsMerge ==
  ASSUME StrictTs, BaseInv, StampsInv, CountsInv, MergeBlock2AddressState
  PROVE  CountsInv'
<1>1. SUFFICES ASSUME NEW id \in Ids, MovesBefore(id, n)' # {}
               PROVE  Counts(AddressService'[id], Cardinality(BlocksOf(MovesBefore(id, n)))',
                             Cardinality(BlocksOf(PayedBefore(id, n)))')
  BY DEF CountsInv, Counts
<1>2. PICK s0 \in Statistics, s \in Statistics : s0 = AddressService[id] /\ s = AddressService'[id]
  BY MergeDoes DEF StampsInv
<1>3. PICK touched \in BOOLEAN, payed \in BOOLEAN :
        /\ touched <=> id \in IdsOf(coinsIn) \/ id \in IdsOf(coinsOut)
        /\ payed <=> id \in IdsOf(coinsOut)
        /\ Merging(s0, s, touched, payed)
  BY <1>2, MergeDoes DEF Merged
<1>4. PICK M, P : M = BlocksOf(MovesBefore(id, n)) /\ P = BlocksOf(PayedBefore(id, n))
  OBVIOUS
<1>5. /\ M \in SUBSET (1 .. n - 1) /\ P \in SUBSET (1 .. n - 1)
      /\ BlocksOf(MovesBefore(id, n))' = M \cup (IF touched THEN {n} ELSE {})
      /\ BlocksOf(PayedBefore(id, n))' = P \cup (IF payed THEN {n} ELSE {})
  BY <1>3, <1>4, BlocksMerge
<1>6. n \in Blocks /\ n \in Nat
  BY MovesMerge DEF Blocks
<1>7. /\ Cardinality(M) \in Nat /\ Cardinality(P) \in Nat
      /\ Cardinality(M \cup {n}) = Cardinality(M) + 1
      /\ Cardinality(P \cup {n}) = Cardinality(P) + 1
  BY <1>5, <1>6, OneMore
<1>8. PICK m, p : /\ m = Cardinality(BlocksOf(MovesBefore(id, n)))'
                  /\ p = Cardinality(BlocksOf(PayedBefore(id, n)))'
  OBVIOUS
<1>9. /\ m = Cardinality(M) + (IF touched THEN 1 ELSE 0)
      /\ p = Cardinality(P) + (IF payed THEN 1 ELSE 0)
  <2>1. m = Cardinality(M \cup (IF touched THEN {n} ELSE {}))
    BY <1>5, <1>8
  <2>2. p = Cardinality(P \cup (IF payed THEN {n} ELSE {}))
    BY <1>5, <1>8
  <2>3. M \cup {} = M /\ P \cup {} = P
    OBVIOUS
  <2>4. QED
    BY <1>7, <2>1, <2>2, <2>3
<1>10. Ts[n] # 0 /\ s0.lastActive # Ts[n] /\ s0.lastPayed # Ts[n]
  <2>1. Ts[n] \in Nat \ {0} /\ \A b \in 1 .. n - 1 : b \in Blocks /\ Ts[b] \in Nat /\ Ts[b] < Ts[n]
    BY <1>6, TsAssumption DEF StrictTs, Blocks
  <2>2. /\ s0.lastActive \in {0} \cup {Ts[b] : b \in 1 .. n - 1}
        /\ s0.lastPayed \in {0} \cup {Ts[b] : b \in 1 .. n - 1}
    BY <1>2 DEF StampsInv
  <2>3. QED
    BY <2>1, <2>2
<1>11. CASE MovesBefore(id, n) # {}
  <2>1. Counts(s0, Cardinality(M), Cardinality(P)) /\ s0.created # 0
    BY <1>2, <1>4, <1>11 DEF CountsInv, StampsInv, Counts
  <2>2. Counts(s, m, p)
    <3>1. s0.numTx \in Int /\ s0.winning \in Int /\ s0.lossing \in Int
      BY DEF Statistics
    <3>2. CASE ~touched
      BY <1>3, <1>7, <1>9, <2>1, <3>2 DEF Merging, Counts
    <3>3. CASE touched
      BY <1>3, <1>7, <1>9, <1>10, <2>1, <3>1, <3>3 DEF Merging, Counts
    <3>4. QED
      BY <3>2, <3>3
  <2>3. QED
    BY <1>2, <1>8, <2>2
<1>12. CASE MovesBefore(id, n) = {}
  <2>1. touched
    <3>1. MovesBefore(id, n)' = MovesBefore(id, n) \cup NewMoves(id)
      BY MovesMerge
    <3>2. QED
      BY <1>1, <1>3, <1>12, <3>1, MovesMerge
  <2>2. s0 = NoStatistics
    BY <1>2, <1>12 DEF StampsInv
  <2>3. s0.created = 0 /\ s0.numTx = 0
    BY <2>2 DEF NoStatistics
  <2>4. Cardinality(M) = 0 /\ Cardinality(P) = 0
    <3>1. M = {} /\ P = {}
      BY <1>4, <1>12 DEF BlocksOf, PayedBefore
    <3>2. QED
      BY <3>1, FS_EmptySet
  <2>5. Counts(s, m, p)
    BY <1>3, <1>9, <1>10, <2>1, <2>3, <2>4 DEF Merging, Counts
  <2>6. QED
    BY <1>2, <1>8, <2>5
<1>13. QED
  BY <1>11, <1>12

LEMMA CountsNext ==
  ASSUME StrictTs, BaseInv, StampsInv, CountsInv, [Next]_vars
  PROVE  CountsInv'
<1>1. CASE DigestTransactionsOnBlock
  <2>1. n' = n /\ AddressService' = AddressService /\ AddressService \in [Ids -> Statistics]
    BY <1>1 DEF DigestTransactionsOnBlock, StampsInv
  <2>2. PICK b \in 1 .. n : b = n
    <3>1. n \in 1 .. n
      BY <1>1, <2>1, DigestDoes DEF Blocks
    <3>2. QED
      BY <3>1
  <2>3. ASSUME NEW id
        PROVE  /\ MovesBefore(id, n)' = MovesBefore(id, n)
               /\ BlocksOf(MovesBefore(id, n))' = BlocksOf(MovesBefore(id, n))
               /\ BlocksOf(PayedBefore(id, n))' = BlocksOf(PayedBefore(id, n))
    <3>1. /\ MovesBefore(id, b)' = MovesBefore(id, b)
          /\ \A i \in MovesBefore(id, b) : TableTx'[i] = TableTx[i]
      BY <1>1, <2>1, MovesDigest
    <3>2. MovesBefore(id, n)' = MovesBefore(id, n)
      BY <2>1, <2>2, <3>1 DEF MovesBefore
    <3>3. PayedBefore(id, n)' = PayedBefore(id, n)
      BY <2>2, <3>1, <3>2 DEF PayedBefore
    <3>4. QED
      BY <2>2, <3>1, <3>2, <3>3 DEF BlocksOf, PayedBefore
  <2>4. QED
    BY <2>1, <2>3 DEF CountsInv
<1>2. CASE MergeBlock2AddressState
  BY <1>2, CountsMerge
<1>3. CASE MineBlock \/ CalculateResultOnBlock \/ UNCHANGED vars
  <2>1. UNCHANGED <<TableTx, AddressService, n>>
    BY <1>3 DEF MineBlock, CalculateResultOnBlock, vars
  <2>2. ASSUME NEW id
        PROVE  /\ MovesBefore(id, n)' = MovesBefore(id, n)
               /\ BlocksOf(MovesBefore(id, n))' = BlocksOf(MovesBefore(id, n))
               /\ BlocksOf(PayedBefore(id, n))' = BlocksOf(PayedBefore(id, n))
    BY <2>1 DEF MovesBefore, PayedBefore, BlocksOf
  <2>3. QED
    BY <2>1, <2>2 DEF CountsInv
<1>4. QED
  BY <1>1, <1>2, <1>3 DEF Next

\* The counts are of blocks as long as no two blocks share a second.
THEOREM BlocksCounted ==
  ASSUME StrictTs
  PROVE  Spec => []CountsInv
<1>1. Init => CountsInv
  BY DEF Init, CountsInv, MovesBefore
<1>2. BaseInv /\ StampsInv /\ CountsInv /\ [Next]_vars => CountsInv'
  BY CountsNext
<1>3. QED
  BY <1>1, <1>2, LedgerShape, PTL DEF Spec

\* An address then has a transaction counted for every block that moves value
\* of it, the first excepted.
THEOREM TransactionsCounted ==
  ASSUME StrictTs
  PROVE  Spec => []TransactionPerBlock
<1>1. CountsInv => TransactionPerBlock
  BY DEF CountsInv, TransactionPerBlock, BlocksOf, MovesBefore
<1>2. QED
  BY <1>1, BlocksCounted, PTL

\* And a trade, won or lost, for every block it pays in.
THEOREM TradesCounted ==
  ASSUME StrictTs
  PROVE  Spec => []TradePerBlock
<1>1. StampsInv /\ CountsInv => TradePerBlock
  <2>1. NoStatistics.created = 0
    BY DEF NoStatistics
  <2>2. QED
    BY <2>1 DEF StampsInv, CountsInv, TradePerBlock, PayedBefore
<1>2. QED
  BY <1>1, BlocksCounted, LedgerShape, PTL

-----------------------------------------------------------------------------
(* The chain of balances. *)

PastRows(id, b) == {j \in DOMAIN TableTx : TableTx[j].id = id /\ TableTx[j].block < b}

\* Digesting block n adds nothing to the past of its rows or of older ones.
LEMMA PastDigest ==
  ASSUME BaseInv, AddressService \in [Ids -> Statistics], DigestTransactionsOnBlock,
         NEW id, NEW b \in 1 .. n
  PROVE  PastRows(id, b)' = PastRows(id, b)
<1>1. n \in Nat /\ TableTx \in Seq(Rows)
  BY DigestDoes DEF BaseInv, RowsInv, Blocks
<1>2. PICK rows : Digested(rows)
  BY DigestDoes
<1>3. /\ DOMAIN TableTx \subseteq DOMAIN TableTx'
      /\ \A i \in DOMAIN TableTx : TableTx'[i] = TableTx[i]
  BY <1>1, <1>2, DigestedRow
<1>4. \A j \in DOMAIN TableTx' : j \in DOMAIN TableTx \/ TableTx'[j].block = n
  <2>1. SUFFICES ASSUME NEW j \in DOMAIN TableTx', j \notin DOMAIN TableTx
                 PROVE  TableTx'[j].block = n
    OBVIOUS
  <2>2. PICK i \in DOMAIN rows : j = Len(TableTx) + i
    BY <1>1, <1>2, <2>1, DigestedRow
  <2>3. Filled(TableTx'[j], rows[i])
    BY <1>1, <1>2, <2>2, DigestedRow
  <2>4. rows[i].block = n
    BY <1>2 DEF Digested
  <2>5. QED
    BY <2>3, <2>4 DEF Filled
<1>5. ~(n < b)
  BY <1>1
<1>6. QED
  BY <1>3, <1>4, <1>5 DEF PastRows

\* The balance after the last of some rows, or that of an address without any.
AfterLast(rows) == IF rows = {} THEN 0 ELSE TableTx[Max(rows)].after

RowsFor(id) == {i \in DOMAIN TableTx : TableTx[i].id = id}

\* An address starts the block with what its last row ends with.
LEMMA BalanceChained ==
  ASSUME BaseInv, StampsInv, ChainInv, NEW id \in Ids
  PROVE  BalanceBefore(id) = AfterLast(RowsFor(id))
<1>1. DOMAIN tmpBalanceDict = RowIds
  BY DEF BaseInv, RowsInv
<1>2. CASE id \in RowIds
  <2>1. RowsFor(id) # {}
    BY <1>2 DEF RowIds, RowsFor
  <2>2. QED
    BY <1>1, <1>2, <2>1 DEF ChainInv, BalanceBefore, AfterLast, RowsFor
<1>3. CASE id \notin RowIds
  <2>1. RowsFor(id) = {} /\ MovesBefore(id, n) = {}
    BY <1>3 DEF RowIds, RowsFor, MovesBefore
  <2>2. AddressService[id] = NoStatistics
    BY <2>1 DEF StampsInv
  <2>3. QED
    BY <1>1, <1>3, <2>1, <2>2 DEF BalanceBefore, AfterLast, NoStatistics
<1>4. QED
  BY <1>2, <1>3

Chained(i) == TableTx[i].before = AfterLast(PastRows(TableTx[i].id, TableTx[i].block))

LEMMA ChainDigest ==
  ASSUME BaseInv, StampsInv, ChainInv, DigestTransactionsOnBlock
  PROVE  ChainInv'
<1>1. /\ n \in Blocks /\ n \in Nat /\ TableTx \in Seq(Rows)
      /\ AddressService \in [Ids -> Statistics] /\ Undigested = n
  <2>1. AddressService \in [Ids -> Statistics]
    BY DEF StampsInv
  <2>2. QED
    BY <2>1, DigestDoes DEF BaseInv, RowsInv, Blocks, Undigested, DigestTransactionsOnBlock
<1>2. PICK rows : Digested(rows)
  BY <1>1, DigestDoes
<1>3. PICK L \in Nat, K \in Nat :
        /\ L = Len(TableTx) /\ K = Len(rows) /\ DOMAIN TableTx = 1 .. L /\ DOMAIN rows = 1 .. K
        /\ DOMAIN TableTx' = 1 .. L + K
  BY <1>1, <1>2, DigestedRow
<1>4. /\ \A i \in 1 .. L : TableTx'[i] = TableTx[i]
      /\ \A k \in 1 .. K : Filled(TableTx'[L + k], rows[k]) /\ rows[k] \in Rows
      /\ \A j \in 1 .. L + K : j \in 1 .. L \/ \E k \in 1 .. K : j = L + k
  <2>1. \A i \in 1 .. L : TableTx'[i] = TableTx[i]
    BY <1>1, <1>2, <1>3, DigestedRow
  <2>2. \A k \in 1 .. K : Filled(TableTx'[L + k], rows[k]) /\ rows[k] \in Rows
    BY <1>1, <1>2, <1>3, DigestedRow
  <2>3. ASSUME NEW j \in 1 .. L + K, j \notin 1 .. L PROVE \E k \in 1 .. K : j = L + k
    <3>1. j - L \in 1 .. K /\ j = L + (j - L)
      BY <2>3
    <3>2. QED
      BY <3>1
  <2>4. QED
    BY <2>1, <2>2, <2>3
<1>5. \A i \in 1 .. L : TableTx[i].block \in 1 .. n /\ TableTx[i].block < n /\ TableTx[i].id \in Ids
  <2>1. \A r \in Rows : r.block \in Nat \ {0} /\ r.id \in Ids
    BY DEF Rows, Blocks
  <2>2. \A i \in 1 .. L : TableTx[i] \in Rows /\ TableTx[i].block < n
    BY <1>1, <1>3 DEF BaseInv, RowsInv
  <2>3. QED
    BY <1>1, <2>1, <2>2
<1>6. \A k \in 1 .. K : /\ rows[k].block = n /\ rows[k].id \in Ids
                        /\ rows[k].before = BalanceBefore(rows[k].id)
  <2>1. \A r \in Rows : r.id \in Ids
    BY DEF Rows
  <2>2. QED
    BY <1>2, <1>3, <1>4, <2>1 DEF Digested
<1>7. ASSUME NEW S \in SUBSET (1 .. L) PROVE AfterLast(S)' = AfterLast(S)
  <2>1. CASE S = {}
    BY <2>1 DEF AfterLast
  <2>2. CASE S # {}
    <3>1. Max(S) \in 1 .. L
      BY <2>2, MaxOfPart
    <3>2. QED
      BY <1>4, <2>2, <3>1 DEF AfterLast
  <2>3. QED
    BY <2>1, <2>2
<1>8. ASSUME NEW i \in 1 .. L + K
      PROVE  Chained(i)'
  <2>1. CASE i \in 1 .. L
    <3>1. PICK id, b : id = TableTx[i].id /\ b = TableTx[i].block /\ b \in 1 .. n
      BY <1>5, <2>1
    <3>2. PICK S : S = PastRows(id, b)
      OBVIOUS
    <3>3. S \in SUBSET (1 .. L) /\ PastRows(id, b)' = S
      <4>1. PastRows(id, b)' = PastRows(id, b)
        BY <1>1, <3>1, PastDigest
      <4>2. QED
        BY <1>3, <3>2, <4>1 DEF PastRows
    <3>4. TableTx[i].before = AfterLast(S)
      BY <1>3, <2>1, <3>1, <3>2 DEF ChainInv, RowsChain, AfterLast, PastRows
    <3>5. AfterLast(S)' = AfterLast(S)
      BY <1>7, <3>3
    <3>6. TableTx'[i] = TableTx[i]
      BY <1>4, <2>1
    <3>7. QED
      BY <3>1, <3>3, <3>4, <3>5, <3>6 DEF Chained, AfterLast, PastRows
  <2>2. CASE i \notin 1 .. L
    <3>1. PICK k \in 1 .. K : i = L + k
      BY <1>4, <2>2
    <3>2. PICK id \in Ids : id = rows[k].id
      BY <1>6
    <3>3. TableTx'[i].id = id /\ TableTx'[i].block = n /\ TableTx'[i].before = BalanceBefore(id)
      BY <1>4, <1>6, <3>1, <3>2 DEF Filled
    <3>4. PICK b \in 1 .. n : b = n
      <4>1. n \in 1 .. n
        BY <1>1 DEF Blocks
      <4>2. QED
        BY <4>1
    <3>5. PICK S : S = RowsFor(id)
      OBVIOUS
    <3>6. PastRows(id, b)' = S /\ S \in SUBSET (1 .. L)
      <4>1. PastRows(id, b)' = PastRows(id, b)
        BY <1>1, PastDigest
      <4>2. PastRows(id, b) = S
        BY <1>3, <1>5, <3>4, <3>5 DEF PastRows, RowsFor
      <4>3. QED
        BY <1>3, <3>5, <4>1, <4>2 DEF RowsFor
    <3>7. BalanceBefore(id) = AfterLast(S)
      BY <3>5, BalanceChained
    <3>8. AfterLast(S)' = AfterLast(S)
      BY <1>7, <3>6
    <3>9. QED
      BY <3>3, <3>4, <3>6, <3>7, <3>8 DEF Chained, AfterLast, PastRows
  <2>3. QED
    BY <2>1, <2>2
<1>9. RowsChain'
  BY <1>3, <1>8 DEF RowsChain, Chained, AfterLast, PastRows
<1>10. ASSUME NEW id \in RowIds'
       PROVE  tmpBalanceDict'[id] = TableTx'[Max(RowsFor(id)')].after
  <2>1. RowsFor(id)' # {} /\ RowsFor(id)' \in SUBSET (1 .. L + K)
    BY <1>3, <1>10 DEF RowIds, RowsFor
  <2>2. PICK S : S = RowsFor(id)'
    OBVIOUS
  <2>3. PICK top : top = Max(S)
    OBVIOUS
  <2>4. top \in S /\ top \in 1 .. L + K /\ \A i \in S : i <= top
    <3>1. L + K \in Nat
      OBVIOUS
    <3>2. QED
      BY <2>1, <2>2, <2>3, <3>1, MaxOfPart
  <2>5. CASE id \in IdsOf(rows)
    <3>1. PICK k \in 1 .. K : rows[k].id = id
      BY <1>3, <2>5 DEF IdsOf
    <3>2. L + k \in S
      <4>1. L + k \in DOMAIN TableTx' /\ TableTx'[L + k].id = id
        BY <1>3, <1>4, <3>1 DEF Filled
      <4>2. QED
        BY <2>2, <4>1 DEF RowsFor
    <3>3. top \notin 1 .. L
      BY <2>4, <3>2
    <3>4. PICK j \in 1 .. K : top = L + j
      BY <1>4, <2>4, <3>3
    <3>5. TableTx'[top].id = id
      BY <2>2, <2>4 DEF RowsFor
    <3>6. rows[j].id = id /\ TableTx'[top].after = tmpBalanceDict'[id]
      BY <1>4, <3>4, <3>5 DEF Filled
    <3>7. QED
      BY <2>2, <2>3, <3>6
  <2>6. CASE id \notin IdsOf(rows)
    <3>1. id \in RowIds
      BY <1>1, <1>2, <1>10, <2>6, DigestKeepsRows
    <3>2. tmpBalanceDict'[id] = tmpBalanceDict[id]
      BY <1>2, <2>6, <3>1 DEF Digested
    <3>3. \A k \in 1 .. K : TableTx'[L + k].id # id
      <4>1. \A k \in 1 .. K : rows[k].id # id
        BY <1>3, <2>6 DEF IdsOf
      <4>2. QED
        BY <1>4, <4>1 DEF Filled
    <3>4. S = RowsFor(id)
      <4>1. \A j \in DOMAIN TableTx' : TableTx'[j].id = id => j \in 1 .. L
        <5>1. SUFFICES ASSUME NEW j \in DOMAIN TableTx', j \notin 1 .. L
                       PROVE  TableTx'[j].id # id
          OBVIOUS
        <5>2. PICK k \in 1 .. K : j = L + k
          BY <1>3, <1>4, <5>1
        <5>3. QED
          BY <3>3, <5>2
      <4>2. QED
        BY <1>3, <1>4, <2>2, <4>1 DEF RowsFor
    <3>5. top \in 1 .. L
      BY <1>3, <2>4, <3>4 DEF RowsFor
    <3>6. tmpBalanceDict[id] = TableTx[top].after
      BY <2>3, <3>1, <3>4 DEF ChainInv, RowsFor
    <3>7. QED
      BY <1>4, <2>2, <2>3, <3>2, <3>5, <3>6
  <2>7. QED
    BY <2>5, <2>6
<1>11. QED
  BY <1>9, <1>10 DEF ChainInv, RowsFor

\* The balance a row starts from is the one the address's last row of an
\* earlier block ends with, or zero, for every order of mining and digesting.
THEOREM BalancesChain == Spec => []RowsChain
<1>1. Init => ChainInv
  BY DEF Init, ChainInv, RowsChain, RowIds
<1>2. BaseInv /\ StampsInv /\ ChainInv /\ [Next]_vars => ChainInv'
  <2>1. SUFFICES ASSUME BaseInv, StampsInv, ChainInv, [Next]_vars PROVE ChainInv'
    OBVIOUS
  <2>2. CASE DigestTransactionsOnBlock
    BY <2>1, <2>2, ChainDigest
  <2>3. CASE MineBlock \/ CalculateResultOnBlock \/ MergeBlock2AddressState \/ UNCHANGED vars
    <3>1. UNCHANGED <<TableTx, tmpBalanceDict>>
      BY <2>3 DEF MineBlock, CalculateResultOnBlock, MergeBlock2AddressState, vars
    <3>2. RowIds' = RowIds
      BY <3>1 DEF RowIds
    <3>3. RowsChain'
      BY <2>1, <3>1 DEF ChainInv, RowsChain
    <3>4. QED
      BY <2>1, <3>1, <3>2, <3>3, Zenon DEF ChainInv
  <2>4. QED
    BY <2>1, <2>2, <2>3 DEF Next
<1>3. ChainInv => RowsChain
  BY DEF ChainInv
<1>4. QED
  BY <1>1, <1>2, <1>3, LedgerShape, PTL DEF Spec

-----------------------------------------------------------------------------
(* Balances. *)

LEMMA CoinsOrdered ==
  ASSUME CoinsInv
  PROVE  coins \in Seq(OrderedCoins)
<1>1. coins \in Seq(Coins) /\ DOMAIN coins = 1 .. Len(coins) /\ Len(coins) \in Nat
  BY DEF CoinsInv
<1>2. \A i \in 1 .. Len(coins) : coins[i] \in OrderedCoins
  BY <1>1 DEF CoinsInv, OrderedCoins
<1>3. coins \in [1 .. Len(coins) -> OrderedCoins]
  BY <1>1, <1>2
<1>4. QED
  BY <1>1, <1>3, Tabulated

LEMMA OrderedCoin ==
  ASSUME NEW c \in OrderedCoins
  PROVE  /\ c \in Coins /\ c.value \in Nat /\ c.mint \in Nat /\ c.spent \in Int /\ c.addr \in Addresses
         /\ c.spent = Unspent \/ c.mint <= c.spent
<1>1. c \in Coins /\ (c.spent = Unspent \/ c.mint <= c.spent)
  BY DEF OrderedCoins
<1>2. c.value \in Values /\ c.mint \in Nat /\ c.spent \in Int /\ c.addr \in Addresses
  BY <1>1 DEF Coins, Blocks
<1>3. c.value \in Nat
  BY <1>2, CoinLedgerAssumption
<1>4. QED
  BY <1>1, <1>2, <1>3

LEMMA HeldTyped ==
  ASSUME NEW a, NEW b \in Int
  PROVE  HeldOf(a, b) \in [OrderedCoins -> Int]
<1>1. \A c \in OrderedCoins : c.value \in Int
  BY OrderedCoin
<1>2. QED
  BY <1>1 DEF HeldOf

LEMMA MovedOfTyped ==
  ASSUME NEW id, NEW b
  PROVE  MovedOf(id, b) \in [Rows -> Int]
<1>1. \A r \in Rows : r.amount \in Int
  BY DEF Rows
<1>2. QED
  BY <1>1 DEF MovedOf

\* The blocks that bitcore mines do not change what an address held before.
LEMMA HeldMine ==
  ASSUME BaseInv, MineBlock, NEW a, NEW b \in Nat, b <= tip + 1
  PROVE  Held(a, b)' = Held(a, b)
<1>1. coins \in Seq(OrderedCoins) /\ coins' \in Seq(OrderedCoins)
  <2>1. coins \in Seq(OrderedCoins)
    BY CoinsOrdered DEF BaseInv
  <2>2. CoinsInv'
    BY MineKeepsBase DEF BaseInv
  <2>3. coins' \in Seq(Coins) /\ DOMAIN coins' = 1 .. Len(coins') /\ Len(coins') \in Nat
    BY <2>2 DEF CoinsInv
  <2>4. \A i \in 1 .. Len(coins') : coins'[i] \in OrderedCoins
    BY <2>2, <2>3 DEF CoinsInv, OrderedCoins
  <2>5. coins' \in [1 .. Len(coins') -> OrderedCoins]
    BY <2>3, <2>4
  <2>6. QED
    BY <2>1, <2>3, <2>5, Tabulated
<1>2. PICK f \in [OrderedCoins -> Int] : f = HeldOf(a, b)
  BY HeldTyped
<1>3. PICK s \in Seq(OrderedCoins), t \in Seq(OrderedCoins) : s = coins /\ t = coins'
  BY <1>1
<1>4. tip \in Nat /\ Len(s) <= Len(t)
  BY <1>3, MineDoes
<1>5. \A c \in OrderedCoins :
        f[c] = IF c.addr = a /\ c.mint < b /\ c.spent \notin 1 .. b - 1 THEN c.value ELSE 0
  BY <1>2 DEF HeldOf
<1>6. ASSUME NEW i \in 1 .. Len(s) PROVE f[t[i]] = f[s[i]]
  <2>1. PICK c \in OrderedCoins, d \in OrderedCoins : c = s[i] /\ d = t[i]
    <3>1. i \in DOMAIN s /\ i \in DOMAIN t
      BY <1>4
    <3>2. QED
      BY <3>1
  <2>2. /\ d.addr = c.addr /\ d.value = c.value /\ d.mint = c.mint
        /\ d.spent = c.spent \/ (c.spent = Unspent /\ d.spent = tip + 1)
    BY <1>3, <2>1, MineDoes
  <2>3. d.spent \notin 1 .. b - 1 <=> c.spent \notin 1 .. b - 1
    BY <1>4, <2>2 DEF Unspent
  <2>4. QED
    BY <1>5, <2>1, <2>2, <2>3
<1>7. ASSUME NEW i \in Len(s) + 1 .. Len(t) PROVE f[t[i]] = 0
  <2>1. t[i] \in OrderedCoins
    BY <1>4
  <2>2. t[i].mint = tip + 1
    BY <1>3, MineDoes
  <2>3. ~(t[i].mint < b)
    BY <1>4, <2>2
  <2>4. QED
    BY <1>5, <2>1, <2>3
<1>8. SumOver(t, f) = SumOver(s, f)
  BY <1>4, <1>6, <1>7, SumOverGrown
<1>9. QED
  BY <1>2, <1>3, <1>8 DEF Held, HeldOf

\* The rows that a merge folds in are those of its block.
LEMMA AmountsMerged ==
  ASSUME RowsInv, NEW id
  PROVE  SumSeq(Worth(coinsIn, id)) + SumSeq(Worth(coinsOut, id)) = MovedBy(id, n)
<1>1. PICK f : f = [r \in Rows |-> WorthOf(r, id)]
  OBVIOUS
<1>2. \A r \in Rows : r.amount \in Int
  BY DEF Rows
<1>3. f \in [Rows -> Int] /\ \A r \in Rows : f[r] = WorthOf(r, id)
  BY <1>1, <1>2 DEF WorthOf
<1>4. ASSUME NEW rows \in Seq(Rows) PROVE Worth(rows, id) = Each(rows, f)
  <2>1. \A i \in DOMAIN rows : rows[i] \in Rows
    OBVIOUS
  <2>2. QED
    BY <1>3, <2>1 DEF Worth, Each
<1>5. PICK In, Out, B : /\ In = {r \in Rows : r.amount > 0} /\ Out = {r \in Rows : r.amount < 0}
                        /\ B = {r \in Rows : r.block = n}
  OBVIOUS
<1>6. PICK rows \in Seq(Rows) : rows = BlockRows
  BY CalcRows
<1>7. rows = InOrder(TableTx, B) /\ coinsIn = InOrder(rows, In) /\ coinsOut = InOrder(rows, Out)
  BY <1>5, <1>6 DEF BlockRows, coinsIn, coinsOut
<1>8. SumSeq(Worth(coinsIn, id)) = SumOver(InOrder(rows, In), f)
  BY <1>4, <1>7, CalcRows DEF SumOver
<1>9. SumSeq(Worth(coinsOut, id)) = SumOver(InOrder(rows, Out), f)
  BY <1>4, <1>7, CalcRows DEF SumOver
<1>10. SumOver(rows, f) = SumOver(InOrder(rows, In), f) + SumOver(InOrder(rows, Out), f)
  <2>1. Splits(f, Rows, f, In, f, Out)
    <3>1. SUFFICES ASSUME NEW r \in Rows
                   PROVE  f[r] = (IF r \in In THEN f[r] ELSE 0) + (IF r \in Out THEN f[r] ELSE 0)
      BY DEF Splits
    <3>2. r.amount \in Int /\ f[r] \in Int /\ f[r] = IF r.id = id THEN r.amount ELSE 0
      BY <1>2, <1>3 DEF WorthOf
    <3>3. (r \in In <=> r.amount > 0) /\ (r \in Out <=> r.amount < 0)
      BY <1>5
    <3>4. QED
      BY <3>2, <3>3
  <2>2. PartsAddUp(rows, f, In, f, Out, f)
    BY <1>3, <1>6, <2>1, TwoParts
  <2>3. QED
    BY <2>2 DEF PartsAddUp
<1>11. SumOver(rows, f) = SumOver(TableTx, Part(f, B, Rows))
  BY <1>3, <1>7, SumInOrder DEF RowsInv
<1>12. Part(f, B, Rows) = MovedOf(id, n)
  BY <1>3, <1>5 DEF Part, MovedOf, WorthOf
<1>13. QED
  BY <1>8, <1>9, <1>10, <1>11, <1>12 DEF MovedBy

\* The coin of an address taken or given by a block.
TakenOf(a) == [c \in OrderedCoins |-> IF c.addr = a THEN -c.value ELSE 0]
GivenOf(a) == [c \in OrderedCoins |-> IF c.addr = a THEN c.value ELSE 0]

\* What the rows of block n sum to is what its coins change.
LEMMA AmountsDigested ==
  ASSUME BaseInv, AddressService \in [Ids -> Statistics], n \in Blocks,
         NEW a \in Addresses, IdsAfter[a] # 0
  PROVE  Held(a, n + 1) = Held(a, n) + SumSeq(Worth(RowsOf(IdsAfter), IdsAfter[a]))
<1>1. PICK s \in Seq(OrderedCoins) : s = coins
  BY CoinsOrdered DEF BaseInv
<1>2. PICK S, T : S = {c \in Coins : c.spent = n} /\ T = {c \in Coins : c.mint = n}
  OBVIOUS
<1>3. PICK f, g : f = TakenOf(a) /\ g = GivenOf(a)
  OBVIOUS
<1>4. \A c \in OrderedCoins :
        c \in Coins /\ c.value \in Int /\ c.mint \in Nat /\ c.spent \in Int /\ c.addr \in Addresses
  BY OrderedCoin
<1>5. /\ f \in [OrderedCoins -> Int] /\ g \in [OrderedCoins -> Int]
      /\ \A c \in OrderedCoins : f[c] = IF c.addr = a THEN -c.value ELSE 0
      /\ \A c \in OrderedCoins : g[c] = IF c.addr = a THEN c.value ELSE 0
  BY <1>3, <1>4 DEF TakenOf, GivenOf
<1>6. PICK x, y : x = HeldOf(a, n) /\ y = HeldOf(a, n + 1)
  OBVIOUS
<1>7. n \in Nat \ {0}
  BY DEF Blocks
<1>8. /\ x \in [OrderedCoins -> Int] /\ y \in [OrderedCoins -> Int]
      /\ \A c \in OrderedCoins :
           x[c] = IF c.addr = a /\ c.mint < n /\ c.spent \notin 1 .. n - 1 THEN c.value ELSE 0
      /\ \A c \in OrderedCoins :
           y[c] = IF c.addr = a /\ c.mint < n + 1 /\ c.spent \notin 1 .. n THEN c.value ELSE 0
  <2>1. x \in [OrderedCoins -> Int] /\ y \in [OrderedCoins -> Int]
    BY <1>6, <1>7, HeldTyped
  <2>2. PICK m \in Int : m = n + 1 /\ m - 1 = n
    BY <1>7
  <2>3. \A c \in OrderedCoins :
          y[c] = IF c.addr = a /\ c.mint < m /\ c.spent \notin 1 .. m - 1 THEN c.value ELSE 0
    BY <1>6, <2>2 DEF HeldOf
  <2>4. \A c \in OrderedCoins :
          x[c] = IF c.addr = a /\ c.mint < n /\ c.spent \notin 1 .. n - 1 THEN c.value ELSE 0
    BY <1>6 DEF HeldOf
  <2>5. QED
    BY <2>1, <2>2, <2>3, <2>4
<1>9. PICK h : h = [c \in OrderedCoins |-> (IF c \in S THEN f[c] ELSE 0) + (IF c \in T THEN g[c] ELSE 0)]
  OBVIOUS
<1>10. /\ h \in [OrderedCoins -> Int]
       /\ \A c \in OrderedCoins :
            h[c] = (IF c \in S THEN f[c] ELSE 0) + (IF c \in T THEN g[c] ELSE 0)
  BY <1>5, <1>9
<1>11. \A c \in OrderedCoins : y[c] = x[c] + h[c]
  <2>1. SUFFICES ASSUME NEW c \in OrderedCoins PROVE y[c] = x[c] + h[c]
    OBVIOUS
  <2>2. PICK v \in Int, m \in Nat, e \in Int : v = c.value /\ m = c.mint /\ e = c.spent
    BY <1>4
  <2>3. e = Unspent \/ m <= e
    BY <2>2 DEF OrderedCoins
  <2>4. (c \in S <=> e = n) /\ (c \in T <=> m = n)
    BY <1>2, <1>4, <2>2
  <2>5. CASE c.addr # a
    <3>1. x[c] = 0 /\ y[c] = 0 /\ f[c] = 0 /\ g[c] = 0
      BY <1>5, <1>8, <2>5
    <3>2. QED
      BY <1>10, <3>1
  <2>6. CASE c.addr = a
    <3>1. h[c] = (IF e = n THEN -v ELSE 0) + (IF m = n THEN v ELSE 0)
      BY <1>5, <1>10, <2>2, <2>4, <2>6
    <3>2. x[c] = IF m < n /\ e \notin 1 .. n - 1 THEN v ELSE 0
      BY <1>8, <2>2, <2>6
    <3>3. y[c] = IF m < n + 1 /\ e \notin 1 .. n THEN v ELSE 0
      BY <1>8, <2>2, <2>6
    <3>4. QED
      BY <1>7, <2>3, <3>1, <3>2, <3>3 DEF Unspent
  <2>7. QED
    BY <2>5, <2>6
<1>12. AddsUp(s, x, h, y)
  BY <1>8, <1>10, <1>11, SumOverAdd
<1>13. SumOver(s, h) = SumOver(InOrder(s, S), f) + SumOver(InOrder(s, T), g)
  <2>1. Splits(h, OrderedCoins, f, S, g, T)
    BY <1>10 DEF Splits
  <2>2. /\ s \in Seq(OrderedCoins) /\ f \in [OrderedCoins -> Int]
        /\ g \in [OrderedCoins -> Int] /\ h \in [OrderedCoins -> Int]
    BY <1>1, <1>5, <1>10
  <2>3. PartsAddUp(s, f, S, g, T, h)
    BY <2>1, <2>2, TwoParts
  <2>4. QED
    BY <2>3 DEF PartsAddUp
<1>14. PICK ins \in Seq(OrderedCoins), outs \in Seq(OrderedCoins) :
         ins = InOrder(s, S) /\ outs = InOrder(s, T) /\ ins = inputs /\ outs = outputs
  BY <1>1, <1>2, InOrderElements DEF inputs, outputs
<1>15. PICK rows, id : rows = RowsOf(IdsAfter) /\ id = IdsAfter[a]
  OBVIOUS
<1>16. /\ rows \in Seq(Rows) /\ Len(rows) = Len(ins) + Len(outs)
       /\ \A i \in 1 .. Len(ins) : rows[i] = cacheTx(IdsAfter, ins[i], -1)
       /\ \A i \in 1 .. Len(outs) : rows[Len(ins) + i] = cacheTx(IdsAfter, outs[i], 1)
  BY <1>14, <1>15, RowsOfBlock DEF BaseInv
<1>17. /\ GoodDict(IdsAfter)
       /\ \A i \in DOMAIN ins : IdsAfter[ins[i].addr] # 0
       /\ \A i \in DOMAIN outs : IdsAfter[outs[i].addr] # 0
  BY <1>14, IdsAfterGood DEF BaseInv, RowsInv
<1>18. ASSUME NEW c \in OrderedCoins, IdsAfter[c.addr] # 0
       PROVE  /\ WorthOf(cacheTx(IdsAfter, c, -1), id) = f[c]
              /\ WorthOf(cacheTx(IdsAfter, c, 1), id) = g[c]
  <2>1. IdsAfter[c.addr] = id <=> c.addr = a
    BY <1>4, <1>15, <1>17, <1>18 DEF GoodDict, Known
  <2>2. c \in Coins /\ c.value \in Int
    BY <1>4
  <2>3. PICK p, q : p = cacheTx(IdsAfter, c, -1) /\ q = cacheTx(IdsAfter, c, 1)
    OBVIOUS
  <2>4. p.id = IdsAfter[c.addr] /\ p.amount = -c.value /\ q.id = IdsAfter[c.addr] /\ q.amount = c.value
    BY <2>2, <2>3 DEF cacheTx, Amount
  <2>5. QED
    BY <1>5, <2>1, <2>3, <2>4 DEF WorthOf
<1>19. PICK u \in Seq(Int), v \in Seq(Int), w \in Seq(Int) :
         /\ u = Each(ins, f) /\ Len(u) = Len(ins) /\ \A i \in DOMAIN ins : u[i] = f[ins[i]]
         /\ v = Each(outs, g) /\ Len(v) = Len(outs) /\ \A i \in DOMAIN outs : v[i] = g[outs[i]]
         /\ w = Worth(rows, id) /\ Len(w) = Len(rows)
  <2>1. PICK w \in Seq(Int) : w = Worth(rows, id) /\ Len(w) = Len(rows)
    BY <1>16, WorthTyped
  <2>2. PICK u \in Seq(Int) :
          u = Each(ins, f) /\ Len(u) = Len(ins) /\ \A i \in DOMAIN ins : u[i] = f[ins[i]]
    BY <1>5, EachOf
  <2>3. PICK v \in Seq(Int) :
          v = Each(outs, g) /\ Len(v) = Len(outs) /\ \A i \in DOMAIN outs : v[i] = g[outs[i]]
    BY <1>5, EachOf
  <2>4. QED
    BY <2>1, <2>2, <2>3
<1>20. PICK L \in Nat, M \in Nat :
         /\ L = Len(ins) /\ M = Len(outs) /\ DOMAIN ins = 1 .. L /\ DOMAIN outs = 1 .. M
         /\ DOMAIN rows = 1 .. L + M
  BY <1>16
<1>21. \A i \in 1 .. L : w[i] = u[i]
  <2>1. SUFFICES ASSUME NEW i \in 1 .. L PROVE w[i] = u[i]
    OBVIOUS
  <2>2. i \in DOMAIN rows /\ ins[i] \in OrderedCoins /\ IdsAfter[ins[i].addr] # 0
    <3>1. i \in DOMAIN ins /\ i \in DOMAIN rows
      BY <1>20
    <3>2. ins[i] \in OrderedCoins
      BY <3>1
    <3>3. QED
      BY <1>17, <3>1, <3>2, Zenon
  <2>3. w[i] = WorthOf(rows[i], id)
    BY <1>19, <2>2 DEF Worth
  <2>4. rows[i] = cacheTx(IdsAfter, ins[i], -1)
    BY <1>16, <1>20
  <2>5. QED
    BY <1>18, <1>19, <1>20, <2>2, <2>3, <2>4
<1>22. \A i \in 1 .. M : w[L + i] = v[i]
  <2>1. SUFFICES ASSUME NEW i \in 1 .. M PROVE w[L + i] = v[i]
    OBVIOUS
  <2>2. L + i \in DOMAIN rows /\ outs[i] \in OrderedCoins /\ IdsAfter[outs[i].addr] # 0
    <3>1. i \in DOMAIN outs
      BY <1>20
    <3>2. outs[i] \in OrderedCoins /\ IdsAfter[outs[i].addr] # 0
      BY <1>14, <1>17, <3>1
    <3>3. L + i \in 1 .. L + M
      OBVIOUS
    <3>4. QED
      BY <1>20, <3>2, <3>3
  <2>3. w[L + i] = WorthOf(rows[L + i], id)
    BY <1>19, <2>2 DEF Worth
  <2>4. rows[L + i] = cacheTx(IdsAfter, outs[i], 1)
    BY <1>16, <1>20
  <2>5. QED
    BY <1>18, <1>19, <1>20, <2>2, <2>3, <2>4
<1>23. SumSeq(w) = SumSeq(u) + SumSeq(v)
  <2>1. /\ Len(w) = Len(u) + Len(v)
        /\ \A i \in 1 .. Len(u) : w[i] = u[i]
        /\ \A i \in 1 .. Len(v) : w[Len(u) + i] = v[i]
    BY <1>16, <1>19, <1>20, <1>21, <1>22
  <2>2. QED
    BY <2>1, SumTwo, Zenon
<1>24. SumSeq(w) = SumOver(s, h)
  BY <1>13, <1>14, <1>19, <1>23 DEF SumOver
<1>25. QED
  BY <1>1, <1>6, <1>12, <1>15, <1>19, <1>24 DEF AddsUp, Held

\* Rows of other blocks move nothing in this one.
LEMMA NoneMoved ==
  ASSUME NEW rows \in Seq(Rows), NEW id, NEW b, \A i \in DOMAIN rows : rows[i].block # b
  PROVE  SumOver(rows, MovedOf(id, b)) = 0
<1>1. PICK f \in [Rows -> Int] : f = MovedOf(id, b)
  BY MovedOfTyped
<1>2. \A i \in DOMAIN rows : f[rows[i]] = 0
  <2>1. \A i \in DOMAIN rows : rows[i] \in Rows
    OBVIOUS
  <2>2. QED
    BY <1>1, <2>1 DEF MovedOf
<1>3. QED
  BY <1>1, <1>2, SumOverZero

\* What no row of an old block contributes to, and no after, sums over the
\* block's rows to what it sums to over the table.
LEMMA AddedSum ==
  ASSUME BaseInv, AddressService \in [Ids -> Statistics], DigestTransactionsOnBlock,
         NEW rows, Digested(rows), NEW f \in [Rows -> Int],
         \A r \in Rows : r.block # n => f[r] = 0,
         \A r, q \in Rows : Filled(q, r) => f[q] = f[r]
  PROVE  SumOver(TableTx', f) = SumOver(rows, f)
<1>1. PICK s \in Seq(Rows), t \in Seq(Rows) : s = TableTx /\ t = TableTx'
  BY DEF BaseInv, RowsInv, Digested
<1>2. rows \in Seq(Rows) /\ \A i \in DOMAIN rows : rows[i].block = n
  BY DEF Digested
<1>3. PICK L \in Nat, K \in Nat :
        /\ L = Len(s) /\ K = Len(rows) /\ DOMAIN s = 1 .. L /\ DOMAIN rows = 1 .. K
        /\ DOMAIN t = 1 .. L + K /\ Len(t) = L + K
  <2>1. Len(t) = Len(s) + Len(rows)
    BY <1>1 DEF Digested
  <2>2. QED
    BY <1>2, <2>1
<1>4. \A k \in 1 .. K : Filled(t[L + k], rows[k]) /\ rows[k] \in Rows
  BY <1>1, <1>3, DigestedRow
<1>5. \A i \in 1 .. L : t[i] = s[i] /\ f[s[i]] = 0
  <2>1. Undigested = n /\ n \in Int
    BY DEF Undigested, DigestTransactionsOnBlock, BaseInv, ControlInv
  <2>2. \A i \in 1 .. L : s[i] \in Rows /\ s[i].block < n
    <3>1. \A i \in DOMAIN TableTx : TableTx[i].block < n
      BY <2>1 DEF BaseInv, RowsInv
    <3>2. \A i \in 1 .. L : s[i] \in Rows
      BY <1>3
    <3>3. QED
      BY <1>1, <1>3, <3>1, <3>2
  <2>3. \A r \in Rows : r.block \in Int
    BY DEF Rows, Blocks
  <2>4. \A i \in 1 .. L : s[i] \in Rows /\ s[i].block # n
    BY <2>1, <2>2, <2>3
  <2>5. \A i \in 1 .. L : f[s[i]] = 0
    BY <2>4
  <2>6. QED
    BY <1>1, <1>3, <2>5 DEF Digested
<1>6. PICK u \in Seq(Int) :
        u = Each(s, f) /\ Len(u) = Len(s) /\ \A i \in DOMAIN s : u[i] = f[s[i]]
  BY EachOf
<1>7. PICK v \in Seq(Int) :
        v = Each(t, f) /\ Len(v) = Len(t) /\ \A i \in DOMAIN t : v[i] = f[t[i]]
  BY EachOf
<1>8. PICK w \in Seq(Int) :
        w = Each(rows, f) /\ Len(w) = Len(rows) /\ \A i \in DOMAIN rows : w[i] = f[rows[i]]
  BY <1>2, EachOf
<1>9. ASSUME NEW i \in 1 .. L PROVE v[i] = u[i]
  <2>1. i \in DOMAIN s /\ i \in DOMAIN t
    BY <1>3
  <2>2. u[i] = f[s[i]] /\ v[i] = f[t[i]]
    BY <1>6, <1>7, <2>1, Zenon
  <2>3. QED
    BY <1>5, <2>2
<1>10. ASSUME NEW k \in 1 .. K PROVE v[L + k] = w[k]
  <2>1. L + k \in DOMAIN t /\ t[L + k] \in Rows
    BY <1>3
  <2>2. v[L + k] = f[t[L + k]]
    BY <1>7, <2>1
  <2>3. f[t[L + k]] = f[rows[k]]
    BY <1>4, <2>1
  <2>4. QED
    BY <1>3, <1>8, <2>2, <2>3
<1>11. SumSeq(v) = SumSeq(u) + SumSeq(w)
  <2>1. /\ Len(v) = Len(u) + Len(w)
        /\ \A i \in 1 .. Len(u) : v[i] = u[i]
        /\ \A i \in 1 .. Len(w) : v[Len(u) + i] = w[i]
    <3>1. Len(u) = L /\ Len(w) = K /\ Len(v) = L + K
      BY <1>3, <1>6, <1>7, <1>8
    <3>2. QED
      BY <1>9, <1>10, <3>1, Zenon
  <2>2. QED
    BY <2>1, SumTwo, Zenon
<1>12. SumSeq(u) = 0 /\ SumSeq(w) \in Int
  <2>1. \A i \in 1 .. Len(u) : u[i] = 0
    BY <1>3, <1>5, <1>6
  <2>2. QED
    BY <2>1, SumZeros, SumType
<1>13. QED
  BY <1>1, <1>7, <1>8, <1>11, <1>12 DEF SumOver

\* The rows that the digest adds move what they are worth.
LEMMA MovedDigest ==
  ASSUME BaseInv, AddressService \in [Ids -> Statistics], DigestTransactionsOnBlock,
         NEW rows, Digested(rows), NEW id
  PROVE  SumOver(TableTx', MovedOf(id, n)) = SumSeq(Worth(rows, id))
<1>1. PICK f \in [Rows -> Int] : f = MovedOf(id, n)
  BY MovedOfTyped
<1>2. \A r \in Rows : f[r] = IF r.id = id /\ r.block = n THEN r.amount ELSE 0
  BY <1>1 DEF MovedOf
<1>3. SumOver(TableTx', f) = SumOver(rows, f)
  <2>1. \A r \in Rows : r.block # n => f[r] = 0
    BY <1>2
  <2>2. \A r, q \in Rows : Filled(q, r) => f[q] = f[r]
    BY <1>2 DEF Filled
  <2>3. QED
    BY <1>1, <2>1, <2>2, AddedSum
<1>4. rows \in Seq(Rows) /\ \A i \in DOMAIN rows : rows[i].block = n
  BY DEF Digested
<1>5. \A i \in DOMAIN rows : f[rows[i]] = WorthOf(rows[i], id)
  <2>1. \A i \in DOMAIN rows : rows[i] \in Rows
    BY <1>4
  <2>2. QED
    BY <1>2, <1>4, <2>1 DEF WorthOf
<1>6. Each(rows, f) = Worth(rows, id)
  BY <1>5 DEF Each, Worth
<1>7. QED
  BY <1>1, <1>3, <1>6 DEF SumOver

LEMMA HeldDigest ==
  ASSUME BaseInv, StampsInv, HeldInv, DigestTransactionsOnBlock
  PROVE  HeldInv'
<1>1. /\ n' = n /\ coins' = coins /\ AddressService' = AddressService /\ pc = "digest"
      /\ Undigested = n /\ Undigested' = n + 1 /\ AddressService \in [Ids -> Statistics]
  BY DEF DigestTransactionsOnBlock, bitcore, Undigested, StampsInv
<1>2. n \in Blocks /\ n \in Nat /\ AddressHashDict' = IdsAfter
  BY <1>1, DigestDoes DEF Blocks
<1>3. PICK rows : rows = RowsOf(IdsAfter) /\ Digested(rows)
  BY <1>1, DigestDoes
<1>4. RowIds' = RowIds \cup IdsOf(rows) /\ rows \in Seq(Rows)
  BY <1>1, <1>3, DigestKeepsRows DEF Digested
<1>5. /\ GoodDict(AddressHashDict) /\ tmpBalanceDict \in [RowIds -> Int]
      /\ RowIds = {AddressHashDict[a] : a \in Known(AddressHashDict)}
      /\ TableTx \in Seq(Rows) /\ \A i \in DOMAIN TableTx : TableTx[i].block < n
  BY <1>1 DEF BaseInv, RowsInv
<1>6. /\ GoodDict(IdsAfter) /\ \A i \in DOMAIN outputs : IdsAfter[outputs[i].addr] # 0
      /\ \A a \in Addresses : AddressHashDict[a] # 0 => IdsAfter[a] = AddressHashDict[a]
  BY <1>2, <1>5, IdsAfterGood DEF BaseInv
<1>7. \A id \in RowIds' : id \in Ids
  <2>1. \A r \in Rows : r.id \in Ids
    BY DEF Rows
  <2>2. \A id \in RowIds : id \in Ids
    BY <1>5, <2>1 DEF RowIds
  <2>3. \A id \in IdsOf(rows) : id \in Ids
    BY <1>4, <2>1 DEF IdsOf
  <2>4. QED
    BY <1>4, <2>2, <2>3
<1>8. ASSUME NEW id \in RowIds'
      PROVE  /\ tmpBalanceDict'[id] = BalanceBefore(id) + SumSeq(Worth(rows, id))
             /\ BalanceBefore(id) \in Int
  <2>1. BalanceBefore(id) \in Int
    BY <1>1, <1>7, BalanceTyped DEF BaseInv
  <2>2. CASE id \in IdsOf(rows)
    BY <1>3, <2>1, <2>2 DEF Digested
  <2>3. CASE id \notin IdsOf(rows)
    <3>1. PICK w \in Seq(Int) : w = Worth(rows, id) /\ Len(w) = Len(rows)
      BY <1>4, WorthTyped
    <3>2. \A i \in 1 .. Len(w) : w[i] = 0
      <4>1. DOMAIN rows = 1 .. Len(rows)
        BY <1>4
      <4>2. QED
        BY <2>3, <3>1, <4>1 DEF Worth, WorthOf, IdsOf
    <3>3. SumSeq(w) = 0
      BY <3>2, SumZeros
    <3>4. id \in RowIds
      BY <1>4, <2>3
    <3>5. tmpBalanceDict'[id] = tmpBalanceDict[id] /\ BalanceBefore(id) = tmpBalanceDict[id]
      BY <1>3, <1>5, <2>3, <3>4 DEF Digested, BalanceBefore
    <3>6. QED
      BY <2>1, <3>1, <3>3, <3>5
  <2>4. QED
    BY <2>2, <2>3
<1>9. ASSUME NEW i \in DOMAIN coins, coins[i].mint < n + 1
      PROVE  coins[i].addr \in Known(IdsAfter)
  <2>1. coins[i] \in Coins
    BY DEF BaseInv, CoinsInv
  <2>2. coins[i].mint \in Nat /\ coins[i].addr \in Addresses
    BY <2>1 DEF Coins, Blocks
  <2>3. CASE coins[i].mint < n
    BY <1>1, <1>6, <2>2, <2>3 DEF HeldInv, Known
  <2>4. CASE coins[i].mint = n
    <3>1. PICK j \in DOMAIN outputs : coins[i] = outputs[j]
      BY <1>2, <2>4, BlockCoins DEF BaseInv
    <3>2. QED
      BY <1>6, <2>2, <3>1 DEF Known
  <2>5. QED
    BY <1>2, <1>9, <2>2, <2>3, <2>4
<1>10. ASSUME NEW a \in Known(IdsAfter)
       PROVE  /\ IdsAfter[a] \in RowIds' /\ BalanceBefore(IdsAfter[a]) = Held(a, n)
              /\ a \in Addresses /\ IdsAfter[a] # 0
  <2>1. a \in Addresses /\ IdsAfter[a] # 0
    BY DEF Known
  <2>2. RowsInv'
    BY <1>1, DigestKeepsRows
  <2>3. IdsAfter[a] \in RowIds'
    BY <1>2, <2>2 DEF RowsInv
  <2>4. CASE a \in Known(AddressHashDict)
    <3>1. IdsAfter[a] = AddressHashDict[a] /\ AddressHashDict[a] \in RowIds
      BY <1>5, <1>6, <2>1, <2>4 DEF Known
    <3>2. BalanceBefore(IdsAfter[a]) = tmpBalanceDict[AddressHashDict[a]]
      BY <1>5, <3>1 DEF BalanceBefore
    <3>3. tmpBalanceDict[AddressHashDict[a]] = Held(a, n)
      BY <1>1, <2>4 DEF HeldInv
    <3>4. QED
      BY <2>1, <2>3, <3>2, <3>3
  <2>5. CASE a \notin Known(AddressHashDict)
    <3>1. PICK id \in Ids : id = IdsAfter[a]
      BY <1>7, <2>3
    <3>2. id \notin RowIds
      <4>1. SUFFICES ASSUME NEW b \in Known(AddressHashDict), id = AddressHashDict[b] PROVE FALSE
        BY <1>5
      <4>2. b \in Addresses /\ b \in Known(IdsAfter) /\ IdsAfter[b] = id
        BY <1>6, <4>1 DEF Known
      <4>3. a = b
        BY <1>6, <3>1, <4>2 DEF GoodDict
      <4>4. QED
        BY <2>5, <4>3
    <3>3. MovesBefore(id, n) = {}
      BY <3>2 DEF MovesBefore, RowIds
    <3>4. AddressService[id].balance = 0
      BY <3>3 DEF StampsInv, NoStatistics
    <3>5. BalanceBefore(id) = 0
      BY <1>5, <3>2, <3>4 DEF BalanceBefore
    <3>6. PICK s \in Seq(OrderedCoins) : s = coins
      BY CoinsOrdered DEF BaseInv
    <3>7. PICK f \in [OrderedCoins -> Int] : f = HeldOf(a, n)
      BY <1>2, HeldTyped
    <3>8. \A i \in DOMAIN s : f[s[i]] = 0
      <4>1. \A i \in DOMAIN s : s[i] \in OrderedCoins
        BY <3>6
      <4>2. \A i \in DOMAIN s : ~(s[i].addr = a /\ s[i].mint < n)
        BY <1>1, <2>5, <3>6 DEF HeldInv
      <4>3. QED
        BY <3>7, <4>1, <4>2 DEF HeldOf
    <3>9. SumOver(s, f) = 0
      BY <3>8, SumOverZero
    <3>10. QED
      BY <2>1, <2>3, <3>1, <3>5, <3>6, <3>7, <3>9 DEF Held
  <2>6. QED
    BY <2>4, <2>5
<1>11. ASSUME NEW a \in Known(IdsAfter) PROVE tmpBalanceDict'[IdsAfter[a]] = Held(a, n + 1)
  <2>1. PICK id \in RowIds' : id = IdsAfter[a] /\ BalanceBefore(id) = Held(a, n) /\ id # 0
    BY <1>10
  <2>2. Held(a, n + 1) = Held(a, n) + SumSeq(Worth(rows, id))
    BY <1>1, <1>2, <1>3, <1>10, <2>1, AmountsDigested
  <2>3. QED
    BY <1>8, <2>1, <2>2
<1>12. ASSUME NEW id \in RowIds'
       PROVE  tmpBalanceDict'[id] = AddressService[id].balance + SumOver(TableTx', MovedOf(id, n))
  <2>1. BalanceBefore(id) = AddressService[id].balance
    <3>1. CASE id \in RowIds
      <4>1. SumOver(TableTx, MovedOf(id, n)) = 0
        <5>1. \A i \in DOMAIN TableTx : TableTx[i].block # n
          BY <1>2, <1>5
        <5>2. QED
          BY <1>5, <5>1, NoneMoved
      <4>2. tmpBalanceDict[id] = AddressService[id].balance + 0
        BY <3>1, <4>1 DEF HeldInv, MovedBy
      <4>3. AddressService[id].balance \in Int
        <5>1. AddressService[id] \in Statistics
          BY <1>1, <1>7
        <5>2. QED
          BY <5>1 DEF Statistics
      <4>4. QED
        BY <1>5, <3>1, <4>2, <4>3 DEF BalanceBefore
    <3>2. CASE id \notin RowIds
      BY <1>5, <3>2 DEF BalanceBefore
    <3>3. QED
      BY <3>1, <3>2
  <2>2. SumOver(TableTx', MovedOf(id, n)) = SumSeq(Worth(rows, id))
    BY <1>1, <1>3, MovedDigest
  <2>3. QED
    BY <1>8, <2>1, <2>2
<1>13. /\ \A a : Held(a, n + 1) = SumOver(coins, HeldOf(a, n + 1))
       /\ \A a : Held(a, Undigested)' = SumOver(coins, HeldOf(a, n + 1))
       /\ \A id : MovedBy(id, n)' = SumOver(TableTx', MovedOf(id, n))
  BY <1>1 DEF Held, HeldOf, MovedBy, MovedOf
<1>14. QED
  BY <1>1, <1>2, <1>9, <1>11, <1>12, <1>13 DEF HeldInv

LEMMA HeldMerge ==
  ASSUME BaseInv, StampsInv, HeldInv, MergeBlock2AddressState
  PROVE  HeldInv'
<1>1. /\ UNCHANGED <<coins, AddressHashDict, tmpBalanceDict, TableTx>> /\ n' = n + 1
      /\ Undigested = n + 1 /\ Undigested' = n + 1
  BY DEF MergeBlock2AddressState, bitcore, Undigested
<1>2. n \in Blocks /\ n \in Nat /\ RowIds' = RowIds
  BY <1>1, MovesMerge DEF Blocks, RowIds
<1>3. /\ TableTx \in Seq(Rows) /\ \A i \in DOMAIN TableTx : TableTx[i].block < n + 1
      /\ tmpBalanceDict \in [RowIds -> Int]
  BY <1>1 DEF BaseInv, RowsInv
<1>4. ASSUME NEW id \in RowIds
      PROVE  tmpBalanceDict[id] = AddressService'[id].balance + SumOver(TableTx, MovedOf(id, n + 1))
  <2>1. PICK m : m = n + 1
    OBVIOUS
  <2>2. SumOver(TableTx, MovedOf(id, m)) = 0
    <3>1. \A i \in DOMAIN TableTx : TableTx[i].block # m
      <4>1. \A r \in Rows : r.block \in Nat
        BY DEF Rows, Blocks
      <4>2. QED
        BY <1>2, <1>3, <2>1, <4>1
    <3>2. QED
      BY <1>3, <3>1, NoneMoved
  <2>3. id \in Ids
    <3>1. \A r \in Rows : r.id \in Ids
      BY DEF Rows
    <3>2. QED
      BY <1>3, <3>1 DEF RowIds
  <2>4. AddressService'[id].balance = AddressService[id].balance
          + SumSeq(Worth(coinsIn, id)) + SumSeq(Worth(coinsOut, id))
    BY <2>3, MergeDoes
  <2>5. SumSeq(Worth(coinsIn, id)) + SumSeq(Worth(coinsOut, id)) = MovedBy(id, n)
    BY AmountsMerged DEF BaseInv
  <2>6. SumSeq(Worth(coinsIn, id)) \in Int /\ SumSeq(Worth(coinsOut, id)) \in Int
    <3>1. PICK s \in Seq(Rows), t \in Seq(Rows) : s = coinsIn /\ t = coinsOut
      BY CalcRows DEF BaseInv
    <3>2. Worth(s, id) \in Seq(Int) /\ Worth(t, id) \in Seq(Int)
      BY WorthTyped
    <3>3. QED
      BY <3>1, <3>2, SumType
  <2>7. AddressService[id].balance \in Int
    <3>1. AddressService[id] \in Statistics
      BY <2>3 DEF StampsInv
    <3>2. QED
      BY <3>1 DEF Statistics
  <2>8. tmpBalanceDict[id] = AddressService[id].balance + MovedBy(id, n)
    BY DEF HeldInv
  <2>9. tmpBalanceDict[id] = AddressService'[id].balance + 0
    BY <2>4, <2>5, <2>6, <2>7, <2>8
  <2>10. QED
    BY <2>1, <2>2, <2>9
<1>5. /\ \A a : Held(a, Undigested) = SumOver(coins, HeldOf(a, n + 1))
      /\ \A a : Held(a, Undigested)' = SumOver(coins, HeldOf(a, n + 1))
      /\ \A id : MovedBy(id, n)' = SumOver(TableTx, MovedOf(id, n + 1))
  BY <1>1 DEF Held, HeldOf, MovedBy, MovedOf
<1>6. ASSUME NEW a \in Known(AddressHashDict)
      PROVE  tmpBalanceDict[AddressHashDict[a]] = SumOver(coins, HeldOf(a, n + 1))
  BY <1>5 DEF HeldInv
<1>7. Known(AddressHashDict') = Known(AddressHashDict)
  BY <1>1
<1>8. \A i \in DOMAIN coins : coins[i].mint < n + 1 => coins[i].addr \in Known(AddressHashDict)
  BY <1>1 DEF HeldInv
<1>9. QED
  BY <1>1, <1>2, <1>4, <1>5, <1>6, <1>7, <1>8 DEF HeldInv

LEMMA HeldNext ==
  ASSUME BaseInv, StampsInv, HeldInv, [Next]_vars
  PROVE  HeldInv'
<1>1. CASE MineBlock
  <2>1. UNCHANGED <<AddressHashDict, tmpBalanceDict, TableTx, AddressService, n, pc>>
    BY <1>1 DEF MineBlock
  <2>2. PICK u \in Nat : u = Undigested /\ u <= tip + 1
    <3>1. n \in Nat /\ tip \in Nat /\ n <= tip + 1 /\ (pc # "digest" => n <= tip)
      BY DEF BaseInv, ControlInv
    <3>2. QED
      BY <3>1 DEF Undigested
  <2>3. Undigested' = u /\ RowIds' = RowIds
    BY <2>1, <2>2 DEF Undigested, RowIds
  <2>4. \A a : Held(a, u)' = Held(a, u)
    BY <1>1, <2>2, HeldMine
  <2>5. \A a : Held(a, Undigested)' = Held(a, Undigested)
    BY <2>2, <2>3, <2>4 DEF Held, HeldOf
  <2>6. \A id : MovedBy(id, n)' = MovedBy(id, n)
    BY <2>1 DEF MovedBy, MovedOf
  <2>7. ASSUME NEW i \in DOMAIN coins', coins'[i].mint < u
        PROVE  coins'[i].addr \in Known(AddressHashDict)
    <3>1. tip \in Nat
      BY <1>1, MineDoes
    <3>2. i \in 1 .. Len(coins)
      <4>1. ~(i \in Len(coins) + 1 .. Len(coins'))
        <5>1. SUFFICES ASSUME i \in Len(coins) + 1 .. Len(coins') PROVE FALSE
          OBVIOUS
        <5>2. coins'[i].mint = tip + 1
          BY <1>1, <5>1, MineDoes
        <5>3. QED
          BY <2>2, <2>7, <3>1, <5>2
      <4>2. QED
        BY <1>1, <4>1, MineDoes
    <3>3. coins'[i].addr = coins[i].addr /\ coins'[i].mint = coins[i].mint /\ i \in DOMAIN coins
      BY <1>1, <3>2, MineDoes
    <3>4. QED
      BY <2>2, <2>7, <3>3 DEF HeldInv
  <2>8. QED
    BY <2>1, <2>2, <2>3, <2>5, <2>6, <2>7 DEF HeldInv
<1>2. CASE DigestTransactionsOnBlock
  BY <1>2, HeldDigest
<1>3. CASE CalculateResultOnBlock \/ UNCHANGED vars
  <2>1. /\ UNCHANGED <<coins, AddressHashDict, tmpBalanceDict, TableTx, AddressService, n>>
        /\ Undigested' = Undigested
    BY <1>3 DEF CalculateResultOnBlock, bitcore, vars, Undigested
  <2>2. /\ RowIds' = RowIds
        /\ \A a : Held(a, Undigested)' = Held(a, Undigested)
        /\ \A id : MovedBy(id, n)' = MovedBy(id, n)
    BY <2>1 DEF RowIds, Held, HeldOf, MovedBy, MovedOf
  <2>3. QED
    BY <2>1, <2>2 DEF HeldInv
<1>4. CASE MergeBlock2AddressState
  BY <1>4, HeldMerge
<1>5. QED
  BY <1>1, <1>2, <1>3, <1>4 DEF Next

\* Between two blocks the address state and the dictionary of balances have for
\* every address the value of the coins it was given and has not spent, for any
\* chain, however the coins are spread over addresses and blocks.
THEOREM BalancesHeld == Spec => []BalanceIsUnspent
<1>1. Init => HeldInv
  BY DEF Init, HeldInv, Known, RowIds
<1>2. BaseInv /\ StampsInv /\ HeldInv /\ [Next]_vars => HeldInv'
  BY HeldNext
<1>3. BaseInv /\ StampsInv /\ HeldInv => BalanceIsUnspent
  <2>1. SUFFICES ASSUME BaseInv, StampsInv, HeldInv, pc = "digest" PROVE BalanceIsUnspent
    BY DEF BalanceIsUnspent
  <2>2. ASSUME NEW a
        PROVE  Held(a, n) = SumSeq([i \in DOMAIN coins |->
                 IF coins[i].addr = a /\ coins[i].mint < n /\ coins[i].spent \notin 1 .. n - 1
                 THEN coins[i].value ELSE 0])
    <3>1. \A i \in DOMAIN coins : coins[i] \in OrderedCoins
      BY <2>1, CoinsOrdered DEF BaseInv
    <3>2. Each(coins, HeldOf(a, n)) = [i \in DOMAIN coins |->
            IF coins[i].addr = a /\ coins[i].mint < n /\ coins[i].spent \notin 1 .. n - 1
            THEN coins[i].value ELSE 0]
      BY <3>1 DEF Each, HeldOf
    <3>3. QED
      BY <3>2 DEF Held, SumOver
  <2>3. ASSUME NEW a \in Addresses, AddressHashDict[a] # 0
        PROVE  /\ AddressService[AddressHashDict[a]].balance = Held(a, n)
               /\ tmpBalanceDict[AddressHashDict[a]] = Held(a, n)
    <3>1. /\ TableTx \in Seq(Rows) /\ \A i \in DOMAIN TableTx : TableTx[i].block < n
          /\ n \in Nat /\ Undigested = n /\ a \in Known(AddressHashDict)
      BY <2>1, <2>3 DEF BaseInv, RowsInv, ControlInv, Undigested, Known
    <3>2. PICK id \in RowIds : id = AddressHashDict[a]
      BY <2>1, <3>1 DEF BaseInv, RowsInv
    <3>3. tmpBalanceDict[id] = Held(a, n)
      BY <2>1, <3>1, <3>2 DEF HeldInv
    <3>4. MovedBy(id, n) = 0
      <4>1. \A r \in Rows : r.block \in Nat
        BY DEF Rows, Blocks
      <4>2. \A i \in DOMAIN TableTx : TableTx[i].block # n
        BY <3>1, <4>1
      <4>3. QED
        BY <3>1, <4>2, NoneMoved DEF MovedBy
    <3>5. AddressService[id].balance \in Int
      <4>1. \A r \in Rows : r.id \in Ids
        BY DEF Rows
      <4>2. id \in Ids
        BY <3>1, <4>1 DEF RowIds
      <4>3. AddressService[id] \in Statistics
        BY <2>1, <4>2 DEF StampsInv
      <4>4. QED
        BY <4>3 DEF Statistics
    <3>6. tmpBalanceDict[id] = AddressService[id].balance + 0
      BY <2>1, <3>4 DEF HeldInv
    <3>7. QED
      BY <3>2, <3>3, <3>5, <3>6
  <2>4. QED
    BY <2>2, <2>3 DEF BalanceIsUnspent
<1>4. QED
  BY <1>1, <1>2, <1>3, LedgerShape, PTL DEF Spec

-----------------------------------------------------------------------------
(* What the calculations get. *)

LEMMA ExcessTyped ==
  ASSUME NEW id, NEW b
  PROVE  /\ ExcessOf(id, b) \in [Rows -> Int]
         /\ \A r \in Rows : Magnitude(r.amount) \in Int /\ r.amount \in Int
<1>1. \A r \in Rows : Magnitude(r.amount) \in Int /\ r.amount \in Int
  BY DEF Rows, Magnitude
<1>2. QED
  BY <1>1 DEF ExcessOf

\* A coin minted and spent in the block has two rows, and each is seen twice,
\* with both signs; the rows of every other coin are seen as they are.
LEMMA ExcessDigest ==
  ASSUME BaseInv, AddressService \in [Ids -> Statistics], DigestTransactionsOnBlock, NEW id
  PROVE  SumOver(TableTx', ExcessOf(id, n)) = 0
<1>1. n \in Blocks /\ n \in Nat /\ AddressHashDict' = IdsAfter
  BY DigestDoes DEF Blocks
<1>2. PICK rows : rows = RowsOf(IdsAfter) /\ Digested(rows)
  BY DigestDoes
<1>3. PICK e \in [Rows -> Int] : e = ExcessOf(id, n)
  BY ExcessTyped
<1>4. \A r \in Rows :
        e[r] = IF r.id = id /\ r.block = n
               THEN (IF r.mint = n THEN Magnitude(r.amount) ELSE 0)
                      - (IF r.spent = n THEN Magnitude(r.amount) ELSE 0) - r.amount
               ELSE 0
  BY <1>3 DEF ExcessOf
<1>5. SumOver(TableTx', e) = SumOver(rows, e)
  <2>1. \A r \in Rows : r.block # n => e[r] = 0
    BY <1>4
  <2>2. \A r, q \in Rows : Filled(q, r) => e[q] = e[r]
    BY <1>4 DEF Filled
  <2>3. QED
    BY <1>2, <2>1, <2>2, AddedSum
<1>6. PICK s \in Seq(Coins) : s = coins
  BY DEF BaseInv, CoinsInv
<1>7. PICK S, T : S = {c \in Coins : c.spent = n} /\ T = {c \in Coins : c.mint = n}
  OBVIOUS
<1>8. \A c \in Coins : c.value \in Nat
  BY CoinLedgerAssumption DEF Coins
<1>9. PICK f, g : /\ f = [c \in Coins |-> IF IdsAfter[c.addr] = id /\ c.mint = n THEN c.value ELSE 0]
                  /\ g = [c \in Coins |-> IF IdsAfter[c.addr] = id /\ c.spent = n THEN -c.value ELSE 0]
  OBVIOUS
<1>10. /\ f \in [Coins -> Int] /\ g \in [Coins -> Int]
       /\ \A c \in Coins : f[c] = IF IdsAfter[c.addr] = id /\ c.mint = n THEN c.value ELSE 0
       /\ \A c \in Coins : g[c] = IF IdsAfter[c.addr] = id /\ c.spent = n THEN -c.value ELSE 0
  BY <1>8, <1>9
<1>11. PICK h : h = [c \in Coins |-> 0]
  OBVIOUS
<1>12. h \in [Coins -> Int] /\ \A c \in Coins : h[c] = 0
  BY <1>11
<1>13. Splits(h, Coins, f, S, g, T)
  <2>1. SUFFICES ASSUME NEW c \in Coins
                 PROVE  0 = (IF c \in S THEN f[c] ELSE 0) + (IF c \in T THEN g[c] ELSE 0)
    BY <1>12 DEF Splits
  <2>2. PICK v \in Nat : v = c.value
    BY <1>8
  <2>3. (c \in S <=> c.spent = n) /\ (c \in T <=> c.mint = n)
    BY <1>7
  <2>4. QED
    BY <1>10, <2>2, <2>3
<1>14. PICK ins \in Seq(Coins), outs \in Seq(Coins) :
         ins = InOrder(s, S) /\ outs = InOrder(s, T) /\ ins = inputs /\ outs = outputs
  BY <1>6, <1>7, InOrderElements DEF inputs, outputs
<1>15. SumOver(ins, f) + SumOver(outs, g) = 0
  <2>1. PartsAddUp(s, f, S, g, T, h)
    BY <1>10, <1>12, <1>13, TwoParts
  <2>2. \A i \in DOMAIN s : h[s[i]] = 0
    <3>1. \A i \in DOMAIN s : s[i] \in Coins
      OBVIOUS
    <3>2. QED
      BY <1>12, <3>1
  <2>3. SumOver(s, h) = 0
    BY <1>12, <2>2, SumOverZero
  <2>4. QED
    BY <1>14, <2>1, <2>3 DEF PartsAddUp
<1>16. /\ rows \in Seq(Rows) /\ Len(rows) = Len(ins) + Len(outs)
       /\ \A i \in 1 .. Len(ins) : rows[i] = cacheTx(IdsAfter, ins[i], -1)
       /\ \A i \in 1 .. Len(outs) : rows[Len(ins) + i] = cacheTx(IdsAfter, outs[i], 1)
  BY <1>1, <1>2, <1>14, RowsOfBlock DEF BaseInv
<1>17. ASSUME NEW c \in Coins, NEW r \in Rows, NEW x \in {-1, 1},
              r = cacheTx(IdsAfter, c, x), x = -1 => c.spent = n, x = 1 => c.mint = n
       PROVE  e[r] = IF x = -1 THEN f[c] ELSE g[c]
  <2>1. PICK v \in Nat : v = c.value
    BY <1>8
  <2>2. PICK a \in Int : a = r.amount /\ a = x * v
    BY <1>17, <2>1 DEF cacheTx, Amount
  <2>3. Magnitude(r.amount) = v
    BY <2>2 DEF Magnitude
  <2>4. r.id = IdsAfter[c.addr] /\ r.block = n /\ r.mint = c.mint /\ r.spent = c.spent
    BY <1>17 DEF cacheTx
  <2>5. CASE r.id # id
    <3>1. e[r] = 0 /\ f[c] = 0 /\ g[c] = 0
      BY <1>4, <1>10, <2>4, <2>5
    <3>2. QED
      BY <3>1
  <2>6. CASE r.id = id
    <3>1. e[r] = (IF c.mint = n THEN v ELSE 0) - (IF c.spent = n THEN v ELSE 0) - a
      BY <1>4, <2>2, <2>3, <2>4, <2>6
    <3>2. f[c] = (IF c.mint = n THEN v ELSE 0) /\ g[c] = (IF c.spent = n THEN -v ELSE 0)
      BY <1>10, <2>1, <2>4, <2>6
    <3>3. CASE x = -1
      BY <1>17, <2>2, <3>1, <3>2, <3>3
    <3>4. CASE x = 1
      BY <1>17, <2>2, <3>1, <3>2, <3>4
    <3>5. QED
      BY <3>3, <3>4
  <2>7. QED
    BY <2>5, <2>6
<1>18. PICK u \in Seq(Int), v \in Seq(Int), w \in Seq(Int) :
         /\ u = Each(ins, f) /\ Len(u) = Len(ins) /\ \A i \in DOMAIN ins : u[i] = f[ins[i]]
         /\ v = Each(outs, g) /\ Len(v) = Len(outs) /\ \A i \in DOMAIN outs : v[i] = g[outs[i]]
         /\ w = Each(rows, e) /\ Len(w) = Len(rows) /\ \A i \in DOMAIN rows : w[i] = e[rows[i]]
  <2>1. PICK w \in Seq(Int) :
          w = Each(rows, e) /\ Len(w) = Len(rows) /\ \A i \in DOMAIN rows : w[i] = e[rows[i]]
    BY <1>16, EachOf
  <2>2. PICK u \in Seq(Int) :
          u = Each(ins, f) /\ Len(u) = Len(ins) /\ \A i \in DOMAIN ins : u[i] = f[ins[i]]
    BY <1>10, EachOf
  <2>3. PICK v \in Seq(Int) :
          v = Each(outs, g) /\ Len(v) = Len(outs) /\ \A i \in DOMAIN outs : v[i] = g[outs[i]]
    BY <1>10, EachOf
  <2>4. QED
    BY <2>1, <2>2, <2>3
<1>19. PICK L \in Nat, M \in Nat :
         /\ L = Len(ins) /\ M = Len(outs) /\ DOMAIN ins = 1 .. L /\ DOMAIN outs = 1 .. M
         /\ DOMAIN rows = 1 .. L + M
  BY <1>16
<1>20. \A i \in 1 .. L : w[i] = u[i]
  <2>1. SUFFICES ASSUME NEW i \in 1 .. L PROVE w[i] = u[i]
    OBVIOUS
  <2>2. i \in DOMAIN rows /\ rows[i] \in Rows /\ ins[i] \in Coins
    BY <1>16, <1>19
  <2>3. ins[i].spent = n
    BY <1>1, <1>14, <1>19, BlockCoins DEF BaseInv
  <2>4. rows[i] = cacheTx(IdsAfter, ins[i], -1)
    BY <1>16, <1>19
  <2>5. QED
    <3>1. e[rows[i]] = f[ins[i]]
      BY <1>17, <2>2, <2>3, <2>4
    <3>2. QED
      BY <1>18, <1>19, <2>2, <3>1
<1>21. \A i \in 1 .. M : w[L + i] = v[i]
  <2>1. SUFFICES ASSUME NEW i \in 1 .. M PROVE w[L + i] = v[i]
    OBVIOUS
  <2>2. L + i \in DOMAIN rows /\ rows[L + i] \in Rows /\ outs[i] \in Coins
    <3>1. i \in DOMAIN outs /\ L + i \in 1 .. L + M
      BY <1>19
    <3>2. QED
      BY <1>16, <1>19, <3>1
  <2>3. outs[i].mint = n
    BY <1>1, <1>14, <1>19, BlockCoins DEF BaseInv
  <2>4. rows[L + i] = cacheTx(IdsAfter, outs[i], 1)
    BY <1>16, <1>19
  <2>5. QED
    <3>1. e[rows[L + i]] = g[outs[i]]
      BY <1>17, <2>2, <2>3, <2>4
    <3>2. i \in DOMAIN outs
      BY <1>19
    <3>3. w[L + i] = e[rows[L + i]] /\ v[i] = g[outs[i]]
      BY <1>18, <2>2, <3>2
    <3>4. QED
      BY <3>1, <3>3
<1>22. SumSeq(w) = SumSeq(u) + SumSeq(v)
  <2>1. /\ Len(w) = Len(u) + Len(v)
        /\ \A i \in 1 .. Len(u) : w[i] = u[i]
        /\ \A i \in 1 .. Len(v) : w[Len(u) + i] = v[i]
    BY <1>16, <1>18, <1>19, <1>20, <1>21
  <2>2. QED
    BY <2>1, SumTwo, Zenon
<1>23. QED
  BY <1>3, <1>5, <1>15, <1>18, <1>22 DEF SumOver

\* The entry of a block has for every address what the block's rows move.
LEMMA EntryExact ==
  ASSUME BaseInv, NEW id, ExcessBy(id, n) = 0, NEW x, x.addrId = cacheAddrId, x.amount = cacheAmount
  PROVE  EntryOf(x, id) = MovedBy(id, n)
<1>1. PICK all \in Seq(Rows), rows \in Seq(Rows), s \in Seq(Rows), t \in Seq(Rows) :
        all = TableTx /\ rows = BlockRows /\ s = coinsMint /\ t = coinsSpent
  BY CalcRows DEF BaseInv, RowsInv
<1>2. PICK B, S, T : /\ B = {r \in Rows : r.block = n}
                     /\ S = {r \in Rows : r.mint = n} /\ T = {r \in Rows : r.spent = n}
  OBVIOUS
<1>3. rows = InOrder(all, B) /\ s = InOrder(rows, S) /\ t = InOrder(rows, T)
  BY <1>1, <1>2 DEF BlockRows, coinsMint, coinsSpent
<1>4. PICK f, g : /\ f = [r \in Rows |-> IF r.id = id THEN Magnitude(r.amount) ELSE 0]
                  /\ g = [r \in Rows |-> IF r.id = id THEN -Magnitude(r.amount) ELSE 0]
  OBVIOUS
<1>5. PICK e \in [Rows -> Int], m \in [Rows -> Int] : e = ExcessOf(id, n) /\ m = MovedOf(id, n)
  BY ExcessTyped, MovedOfTyped
<1>6. \A r \in Rows : Magnitude(r.amount) \in Int /\ r.amount \in Int
  BY ExcessTyped
<1>7. /\ f \in [Rows -> Int] /\ g \in [Rows -> Int]
      /\ \A r \in Rows : f[r] = IF r.id = id THEN Magnitude(r.amount) ELSE 0
      /\ \A r \in Rows : g[r] = IF r.id = id THEN -Magnitude(r.amount) ELSE 0
  BY <1>4, <1>6
<1>8. PICK h : h = [r \in Rows |-> (IF r \in S THEN f[r] ELSE 0) + (IF r \in T THEN g[r] ELSE 0)]
  OBVIOUS
<1>9. /\ h \in [Rows -> Int]
      /\ \A r \in Rows : h[r] = (IF r \in S THEN f[r] ELSE 0) + (IF r \in T THEN g[r] ELSE 0)
  BY <1>7, <1>8
<1>10. SumOver(rows, h) = SumOver(s, f) + SumOver(t, g)
  <2>1. Splits(h, Rows, f, S, g, T)
    BY <1>9 DEF Splits
  <2>2. PartsAddUp(rows, f, S, g, T, h)
    BY <1>1, <1>7, <1>9, <2>1, TwoParts
  <2>3. QED
    BY <1>3, <2>2 DEF PartsAddUp
<1>11. PICK p : p = Part(h, B, Rows)
  OBVIOUS
<1>12. p \in [Rows -> Int] /\ \A r \in Rows : p[r] = IF r \in B THEN h[r] ELSE 0
  BY <1>9, <1>11 DEF Part
<1>13. SumOver(rows, h) = SumOver(all, p)
  BY <1>1, <1>3, <1>9, <1>11, SumInOrder
<1>14. \A r \in Rows : p[r] = m[r] + e[r]
  <2>1. SUFFICES ASSUME NEW r \in Rows PROVE p[r] = m[r] + e[r]
    OBVIOUS
  <2>2. PICK v \in Int, w \in Int : v = Magnitude(r.amount) /\ w = r.amount
    BY <1>6
  <2>3. (r \in B <=> r.block = n) /\ (r \in S <=> r.mint = n) /\ (r \in T <=> r.spent = n)
    BY <1>2
  <2>4. m[r] = IF r.id = id /\ r.block = n THEN w ELSE 0
    BY <1>5, <2>2 DEF MovedOf
  <2>5. e[r] = IF r.id = id /\ r.block = n
               THEN (IF r.mint = n THEN v ELSE 0) - (IF r.spent = n THEN v ELSE 0) - w
               ELSE 0
    BY <1>5, <2>2 DEF ExcessOf
  <2>6. p[r] = IF r.id = id /\ r.block = n
               THEN (IF r.mint = n THEN v ELSE 0) + (IF r.spent = n THEN -v ELSE 0)
               ELSE 0
    <3>1. f[r] = (IF r.id = id THEN v ELSE 0) /\ g[r] = (IF r.id = id THEN -v ELSE 0)
      BY <1>7, <2>2
    <3>2. p[r] = IF r \in B THEN h[r] ELSE 0
      BY <1>12
    <3>3. h[r] = (IF r \in S THEN f[r] ELSE 0) + (IF r \in T THEN g[r] ELSE 0)
      BY <1>9
    <3>4. QED
      BY <2>2, <2>3, <3>1, <3>2, <3>3
  <2>7. QED
    BY <2>4, <2>5, <2>6
<1>15. AddsUp(all, m, e, p)
  BY <1>1, <1>5, <1>12, <1>14, SumOverAdd
<1>16. SumOver(all, m) \in Int /\ SumOver(all, e) = 0
  <2>1. Each(all, m) \in Seq(Int)
    BY <1>1, <1>5, EachTyped
  <2>2. QED
    BY <1>1, <1>5, <2>1, SumType DEF SumOver, ExcessBy
<1>17. PICK u \in Seq(Int), v \in Seq(Int) :
         /\ u = Each(s, f) /\ Len(u) = Len(s) /\ \A i \in DOMAIN s : u[i] = f[s[i]]
         /\ v = Each(t, g) /\ Len(v) = Len(t) /\ \A i \in DOMAIN t : v[i] = g[t[i]]
  <2>1. PICK u \in Seq(Int) : u = Each(s, f) /\ Len(u) = Len(s) /\ \A i \in DOMAIN s : u[i] = f[s[i]]
    <3>1. s \in Seq(Rows) /\ f \in [Rows -> Int]
      BY <1>1, <1>7
    <3>2. QED
      BY <3>1, EachOf
  <2>2. PICK v \in Seq(Int) : v = Each(t, g) /\ Len(v) = Len(t) /\ \A i \in DOMAIN t : v[i] = g[t[i]]
    <3>1. t \in Seq(Rows) /\ g \in [Rows -> Int]
      BY <1>1, <1>7
    <3>2. QED
      BY <3>1, EachOf
  <2>3. QED
    BY <2>1, <2>2
<1>18. PICK L \in Nat, M \in Nat :
         /\ L = Len(s) /\ M = Len(t) /\ DOMAIN s = 1 .. L /\ DOMAIN t = 1 .. M
  BY <1>1
<1>19. PICK j : j = s \o t
  OBVIOUS
<1>20. /\ DOMAIN j = 1 .. L + M /\ (\A i \in 1 .. L : j[i] = s[i]) /\ \A i \in 1 .. M : j[L + i] = t[i]
  BY <1>1, <1>18, <1>19, Joined
<1>21. cacheAddrId = [i \in DOMAIN j |-> j[i].id]
  BY <1>1, <1>19 DEF cacheAddrId
<1>22. PICK a, b : /\ a = [i \in DOMAIN s |-> Magnitude(s[i].amount)]
                   /\ b = [i \in DOMAIN t |-> -Magnitude(t[i].amount)]
  OBVIOUS
<1>23. a \in Seq(Int) /\ Len(a) = L /\ b \in Seq(Int) /\ Len(b) = M
  <2>1. (\A i \in 1 .. L : s[i] \in Rows) /\ \A i \in 1 .. M : t[i] \in Rows
    BY <1>1, <1>18
  <2>2. /\ \A i \in 1 .. L : Magnitude(s[i].amount) \in Int
        /\ \A i \in 1 .. M : -Magnitude(t[i].amount) \in Int
    <3>1. \A q \in Rows : Magnitude(q.amount) \in Int /\ -Magnitude(q.amount) \in Int
      BY <1>6
    <3>2. QED
      BY <2>1, <3>1, Zenon
  <2>3. a \in [1 .. L -> Int] /\ b \in [1 .. M -> Int]
    <3>1. /\ a = [i \in 1 .. L |-> Magnitude(s[i].amount)]
          /\ b = [i \in 1 .. M |-> -Magnitude(t[i].amount)]
      BY <1>18, <1>22
    <3>2. a \in [1 .. L -> Int]
      BY <2>2, <3>1
    <3>3. b \in [1 .. M -> Int]
      BY <2>2, <3>1
    <3>4. QED
      BY <3>2, <3>3
  <2>4. QED
    BY <2>3, Tabulated
<1>24. (\A i \in 1 .. L : cacheAmount[i] = a[i]) /\ \A i \in 1 .. M : cacheAmount[L + i] = b[i]
  <2>1. cacheAmount = a \o b
    BY <1>1, <1>22 DEF cacheAmount
  <2>2. PICK z : z = a \o b
    OBVIOUS
  <2>3. (\A i \in 1 .. L : z[i] = a[i]) /\ \A i \in 1 .. M : z[L + i] = b[i]
    <3>1. PICK c \in Seq(Int), d \in Seq(Int) : c = a /\ d = b /\ Len(c) = L /\ Len(d) = M
      BY <1>23
    <3>2. (\A i \in 1 .. Len(c) : (c \o d)[i] = c[i]) /\ \A i \in 1 .. Len(d) : (c \o d)[Len(c) + i] = d[i]
      <4>1. c \in Seq(Int) /\ d \in Seq(Int)
        BY <3>1
      <4>2. ASSUME NEW i \in 1 .. Len(c) PROVE (c \o d)[i] = c[i]
        BY <4>1
      <4>3. ASSUME NEW i \in 1 .. Len(d) PROVE (c \o d)[Len(c) + i] = d[i]
        BY <4>1
      <4>4. QED
        BY <4>2, <4>3
    <3>3. QED
      BY <2>2, <3>1, <3>2
  <2>4. QED
    BY <2>1, <2>2, <2>3
<1>25. PICK w : w = [i \in DOMAIN x.addrId |-> IF x.addrId[i] = id THEN x.amount[i] ELSE 0]
  OBVIOUS
<1>26. w = [i \in 1 .. L + M |-> IF j[i].id = id THEN cacheAmount[i] ELSE 0]
  BY <1>20, <1>21, <1>25
<1>27. ASSUME NEW i \in 1 .. L PROVE w[i] = u[i]
  <2>1. i \in 1 .. L + M /\ i \in DOMAIN s /\ s[i] \in Rows
    BY <1>1, <1>18
  <2>2. w[i] = IF s[i].id = id THEN a[i] ELSE 0
    BY <1>20, <1>24, <1>26, <2>1
  <2>3. a[i] = Magnitude(s[i].amount)
    BY <1>22, <2>1
  <2>4. u[i] = f[s[i]]
    BY <1>17, <2>1
  <2>5. f[s[i]] = IF s[i].id = id THEN Magnitude(s[i].amount) ELSE 0
    BY <1>7, <2>1
  <2>6. QED
    BY <2>2, <2>3, <2>4, <2>5
<1>28. ASSUME NEW i \in 1 .. M PROVE w[L + i] = v[i]
  <2>1. L + i \in 1 .. L + M /\ i \in DOMAIN t /\ t[i] \in Rows
    BY <1>1, <1>18
  <2>2. w[L + i] = IF t[i].id = id THEN b[i] ELSE 0
    BY <1>20, <1>24, <1>26, <2>1
  <2>3. b[i] = -Magnitude(t[i].amount)
    BY <1>22, <2>1
  <2>4. v[i] = g[t[i]]
    BY <1>17, <2>1
  <2>5. g[t[i]] = IF t[i].id = id THEN -Magnitude(t[i].amount) ELSE 0
    BY <1>7, <2>1
  <2>6. QED
    BY <2>2, <2>3, <2>4, <2>5
<1>29. w \in Seq(Int) /\ Len(w) = L + M
  <2>1. ASSUME NEW i \in 1 .. L + M PROVE w[i] \in Int
    <3>1. CASE i <= L
      <4>1. i \in 1 .. L
        BY <3>1
      <4>2. w[i] = u[i]
        BY <1>27, <4>1
      <4>3. i \in DOMAIN u
        BY <1>17, <1>18, <4>1
      <4>4. QED
        BY <1>17, <4>2, <4>3
    <3>2. CASE i > L
      <4>1. i - L \in 1 .. M /\ i = L + (i - L)
        BY <3>2
      <4>2. PICK k \in 1 .. M : i = L + k
        BY <4>1
      <4>3. w[i] = v[k]
        BY <1>28, <4>2
      <4>4. k \in DOMAIN v
        BY <1>17, <1>18
      <4>5. QED
        BY <1>17, <4>3, <4>4
    <3>3. QED
      BY <3>1, <3>2
  <2>2. w \in [1 .. L + M -> Int]
    BY <1>26, <2>1
  <2>3. L + M \in Nat
    OBVIOUS
  <2>4. QED
    BY <2>2, <2>3, Tabulated
<1>30. SumSeq(w) = SumSeq(u) + SumSeq(v)
  <2>1. /\ Len(w) = Len(u) + Len(v)
        /\ \A i \in 1 .. Len(u) : w[i] = u[i]
        /\ \A i \in 1 .. Len(v) : w[Len(u) + i] = v[i]
    BY <1>17, <1>18, <1>27, <1>28, <1>29
  <2>2. QED
    BY <1>17, <1>29, <2>1, SumTwo, Zenon
<1>31. SumSeq(w) = SumOver(all, m)
  <2>1. SumSeq(w) = SumOver(all, p)
    BY <1>10, <1>13, <1>17, <1>30 DEF SumOver
  <2>2. QED
    BY <1>15, <1>16, <2>1 DEF AddsUp
<1>32. QED
  BY <1>1, <1>5, <1>25, <1>31 DEF EntryOf, MovedBy

\* The rows that the digest adds are of a block that has no entry yet.
LEMMA MovedKept ==
  ASSUME BaseInv, AddressService \in [Ids -> Statistics], DigestTransactionsOnBlock,
         NEW id, NEW b, b # n
  PROVE  MovedBy(id, b)' = MovedBy(id, b)
<1>1. PICK f \in [Rows -> Int] : f = MovedOf(id, b)
  BY MovedOfTyped
<1>2. PICK rows : Digested(rows)
  BY DigestDoes
<1>3. PICK s \in Seq(Rows), t \in Seq(Rows) : s = TableTx /\ t = TableTx'
  BY <1>2 DEF BaseInv, RowsInv, Digested
<1>4. rows \in Seq(Rows) /\ \A i \in DOMAIN rows : rows[i].block = n
  BY <1>2 DEF Digested
<1>5. PICK L \in Nat, K \in Nat :
        /\ L = Len(s) /\ K = Len(rows) /\ DOMAIN s = 1 .. L /\ DOMAIN rows = 1 .. K
        /\ DOMAIN t = 1 .. L + K /\ Len(t) = L + K
  <2>1. Len(t) = Len(s) + Len(rows)
    BY <1>2, <1>3 DEF Digested
  <2>2. QED
    BY <1>3, <1>4, <2>1
<1>6. \A i \in 1 .. L : f[t[i]] = f[s[i]]
  BY <1>2, <1>3, <1>5 DEF Digested
<1>7. ASSUME NEW i \in L + 1 .. L + K PROVE f[t[i]] = 0
  <2>1. i - L \in 1 .. K /\ i = L + (i - L)
    OBVIOUS
  <2>2. PICK k \in 1 .. K : i = L + k
    BY <2>1
  <2>3. Filled(t[L + k], rows[k])
    BY <1>2, <1>3, <1>5, DigestedRow
  <2>4. t[i].block = n /\ t[i] \in Rows
    <3>1. t[i] \in Rows
      BY <1>3, <1>5
    <3>2. rows[k].block = n
      BY <1>4, <1>5
    <3>3. QED
      BY <2>2, <2>3, <3>1, <3>2 DEF Filled
  <2>5. QED
    BY <1>1, <2>4 DEF MovedOf
<1>8. SumOver(t, f) = SumOver(s, f)
  <2>1. /\ Len(s) <= Len(t) /\ \A i \in 1 .. Len(s) : f[t[i]] = f[s[i]]
        /\ \A i \in Len(s) + 1 .. Len(t) : f[t[i]] = 0
    BY <1>5, <1>6, <1>7
  <2>2. QED
    BY <2>1, SumOverGrown, Zenon
<1>9. MovedBy(id, b)' = SumOver(t, f)
  BY <1>1, <1>3 DEF MovedBy, MovedOf
<1>10. QED
  BY <1>1, <1>3, <1>8, <1>9 DEF MovedBy

LEMMA NetNext ==
  ASSUME BaseInv, StampsInv, NetInv, [Next]_vars
  PROVE  NetInv'
<1>1. /\ n \in Nat /\ DOMAIN inputOf = 1 .. Len(inputOf) /\ AddressService \in [Ids -> Statistics]
      /\ Len(inputOf) = IF pc = "merge" THEN n ELSE n - 1
  BY DEF BaseInv, ControlInv, InputsInv, StampsInv
<1>2. CASE DigestTransactionsOnBlock
  <2>1. inputOf' = inputOf /\ Len(inputOf) = n - 1 /\ n' = n
    BY <1>1, <1>2 DEF DigestTransactionsOnBlock
  <2>2. ASSUME NEW b \in DOMAIN inputOf, NEW id \in Ids
        PROVE  EntryOf(inputOf[b], id) = MovedBy(id, b)'
    <3>1. PICK c : c = b /\ c # n
      BY <1>1, <2>1
    <3>2. MovedBy(id, c)' = MovedBy(id, c)
      BY <1>1, <1>2, <3>1, MovedKept
    <3>3. EntryOf(inputOf[b], id) = MovedBy(id, c)
      BY <3>1 DEF NetInv
    <3>4. QED
      BY <3>1, <3>2, <3>3 DEF MovedBy, MovedOf
  <2>3. ASSUME NEW id \in Ids PROVE ExcessBy(id, n)' = 0
    <3>1. SumOver(TableTx', ExcessOf(id, n)) = 0
      BY <1>1, <1>2, ExcessDigest
    <3>2. QED
      BY <2>1, <3>1 DEF ExcessBy, ExcessOf
  <2>4. QED
    BY <2>1, <2>2, <2>3 DEF NetInv, EntryOf, MovedBy, MovedOf
<1>3. CASE CalculateResultOnBlock
  <2>1. PICK X : X = [addrId : Seq(Ids), amount : Seq(Int), tagNew : Seq(BOOLEAN)]
    OBVIOUS
  <2>2. PICK e \in X : /\ inputOf' = Append(inputOf, e)
                       /\ e.addrId = cacheAddrId /\ e.amount = cacheAmount
    BY <1>3, <2>1, CalcDoes
  <2>3. /\ inputOf \in Seq(X) /\ Len(inputOf) = n - 1 /\ TableTx' = TableTx /\ pc = "calc" /\ pc' = "merge"
    BY <1>1, <1>3, <2>1 DEF BaseInv, InputsInv, CalculateResultOnBlock
  <2>4. /\ DOMAIN inputOf' = 1 .. n /\ inputOf'[n] = e
        /\ \A b \in DOMAIN inputOf : inputOf'[b] = inputOf[b]
    BY <1>1, <2>2, <2>3
  <2>5. \A id \in Ids : EntryOf(e, id) = MovedBy(id, n)
    BY <2>2, <2>3, EntryExact DEF NetInv
  <2>6. ASSUME NEW b \in DOMAIN inputOf', NEW id \in Ids
        PROVE  EntryOf(inputOf'[b], id) = MovedBy(id, b)
    <3>1. CASE b = n
      BY <2>4, <2>5, <3>1
    <3>2. CASE b # n
      <4>1. b \in DOMAIN inputOf /\ inputOf'[b] = inputOf[b]
        BY <1>1, <2>3, <2>4, <3>2
      <4>2. QED
        BY <4>1 DEF NetInv
    <3>3. QED
      BY <3>1, <3>2
  <2>7. QED
    BY <2>3, <2>6 DEF NetInv, EntryOf, MovedBy, MovedOf
<1>4. CASE MineBlock
  <2>1. UNCHANGED <<inputOf, TableTx, pc, n>>
    BY <1>4 DEF MineBlock
  <2>2. QED
    BY <2>1 DEF NetInv, EntryOf, MovedBy, MovedOf, ExcessBy, ExcessOf
<1>5. CASE MergeBlock2AddressState
  <2>1. UNCHANGED <<inputOf, TableTx>> /\ pc' = "digest"
    BY <1>5 DEF MergeBlock2AddressState
  <2>2. QED
    BY <2>1 DEF NetInv, EntryOf, MovedBy, MovedOf
<1>6. CASE UNCHANGED vars
  <2>1. UNCHANGED <<inputOf, TableTx, pc, n>>
    BY <1>6 DEF vars
  <2>2. QED
    BY <2>1 DEF NetInv, EntryOf, MovedBy, MovedOf, ExcessBy, ExcessOf
<1>7. QED
  BY <1>2, <1>3, <1>4, <1>5, <1>6 DEF Next

\* What the calculations are given of a block comes, for every address, to the
\* net of the rows that the merge of the block folds in, although they see a
\* coin minted and spent in one block twice as minted and twice as spent.
THEOREM NetTransfers == Spec => []NetTransferExact
<1>1. Init => NetInv
  BY DEF Init, NetInv
<1>2. BaseInv /\ StampsInv /\ NetInv /\ [Next]_vars => NetInv'
  BY NetNext
<1>3. BaseInv /\ NetInv => NetTransferExact
  <2>1. SUFFICES ASSUME BaseInv, NetInv, NEW b \in DOMAIN inputOf, NEW id \in Ids
                 PROVE  EntryOf(inputOf[b], id) = SumSeq([i \in DOMAIN TableTx |->
                          IF TableTx[i].id = id /\ TableTx[i].block = b
                          THEN TableTx[i].amount ELSE 0])
    BY DEF NetTransferExact, EntryOf
  <2>2. \A i \in DOMAIN TableTx : TableTx[i] \in Rows
    BY <2>1 DEF BaseInv, RowsInv
  <2>3. Each(TableTx, MovedOf(id, b)) = [i \in DOMAIN TableTx |->
          IF TableTx[i].id = id /\ TableTx[i].block = b THEN TableTx[i].amount ELSE 0]
    BY <2>2 DEF Each, MovedOf
  <2>4. QED
    BY <2>1, <2>3 DEF NetInv, MovedBy, SumOver
<1>4. QED
  BY <1>1, <1>2, <1>3, LedgerShape, PTL DEF Spec
=============================================================================
