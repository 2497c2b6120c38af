----------------------------- MODULE BlockLedger -----------------------------
(***************************************************************************)
(* What the pipeline promises about the address state: it is always the    *)
(* merge of a prefix of the chain, blocks are added to it one at a time in *)
(* order, and only a restored snapshot takes it back, to a prefix that was *)
(* the whole ledger when the snapshot was taken.                           *)
(***************************************************************************)
EXTENDS Naturals

CONSTANTS Last,    \* highest block
          First    \* the block up to which history was initialised

VARIABLES merged,  \* the ledger is the merge of blocks 1 .. merged
          saved    \* the prefixes that were saved

Init == merged = First /\ saved = {}

Apply   == merged < Last /\ merged' = merged + 1 /\ UNCHANGED saved
Save    == saved' = saved \cup {merged} /\ UNCHANGED merged
Spoil   == saved' \in SUBSET saved /\ UNCHANGED merged
Restore == merged' \in saved /\ UNCHANGED saved

Next == Apply \/ Save \/ Spoil \/ Restore

Spec == Init /\ [][Next]_<<merged, saved>>
=============================================================================
