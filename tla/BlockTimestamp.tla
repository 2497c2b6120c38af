--------------------------- MODULE BlockTimestamp ---------------------------
(***************************************************************************)
(* service-block_timestamp.jl: the table that maps a block height to the   *)
(* second it was mined in.  SyncBlockInfo fills it from height 1 upwards   *)
(* without gaps, so the table is its last height, "known", and the         *)
(* timestamps are the constant Ts.  Bitcore's timeNormalized never goes    *)
(* back and the code rounds it to whole seconds, so consecutive blocks may *)
(* carry the same timestamp.                                               *)
(***************************************************************************)
EXTENDS Integers, FiniteSetsExt

CONSTANTS N,   \* highest block of the chain in this behaviour
          Ts   \* the timestamp of each block, in seconds

Blocks == 1 .. N

ASSUME TsAssumption ==
  /\ N \in Nat \ {0}
  /\ Ts \in [Blocks -> Nat \ {0}]
  /\ \A m, n \in Blocks : m <= n => Ts[m] <= Ts[n]

\* No two blocks share a second: what the lookups below silently rely on.
StrictTs == \A m, n \in Blocks : m < n => Ts[m] < Ts[n]

BlockNum2Timestamp(n) == Ts[n]

\* Findlast(x -> !iszero(x) && x <= ts): of blocks of one second, the last.
\* The code raises when there is none; 0 stands for that here.
Timestamp2LastBlockN(known, ts) ==
  LET upTo == {m \in 1 .. known : Ts[m] <= ts}
  IN  IF upTo = {} THEN 0 ELSE Max(upTo)

\* Findfirst(x -> x >= ts).  The free rows of the table hold zero and never match.
Timestamp2FirstBlockN(known, ts) ==
  LET from == {m \in 1 .. known : Ts[m] >= ts}
  IN  IF from = {} THEN 0 ELSE Min(from)
=============================================================================
