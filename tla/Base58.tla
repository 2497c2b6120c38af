------------------------------- MODULE Base58 -------------------------------
(* The codecs of base58.c and utility.c, on numbers of any size: a byte is a *)
(* number below Byte, a base58 character the value of its digit below Radix, *)
(* a hex character a number below 2 * Nibble (the upper half are the upper   *)
(* case letters). A larger character is one that the format does not have.   *)
EXTENDS Naturals, SequencesExt

CONSTANTS
  Radix,          \* 58
  Byte,           \* 256
  Nibble,         \* 16
  CheckSize,      \* BITCOIN_BASE58CHECK_CHECKSUM_SIZE, 4
  Checksum(_),    \* the first CheckSize bytes of the double SHA-256
  RunOn           \* bound on the zeros found behind a source of zeros

ASSUME BaseAssumption ==
  /\ Radix \in Nat /\ Radix > 1 /\ Byte \in Nat /\ Byte > 1
  /\ Nibble \in Nat /\ Nibble * Nibble = Byte
  /\ CheckSize \in Nat

Ok(bytes) == [status |-> "ok", bytes |-> bytes]
Refused == [status |-> "refused", bytes |-> <<>>]
Killed == [status |-> "killed", bytes |-> <<>>]

\* Numbers and their digits, the most significant first.
Number(digits, base) == FoldLeft(LAMBDA n, d : n * base + d, 0, digits)
DigitsOf(n, base) ==
  LET digits[m \in 0 .. n] ==
        IF m = 0 THEN <<>> ELSE Append(digits[m \div base], m % base)
  IN  digits[n]

Zeros(n) == [i \in 1 .. n |-> 0]
AllZero(s) == \A i \in DOMAIN s : s[i] = 0
LeadingZeros(s) ==
  IF AllZero(s) THEN Len(s)
  ELSE (CHOOSE i \in DOMAIN s : s[i] # 0 /\ AllZero(SubSeq(s, 1, i - 1))) - 1

Convert(s, from, to) ==
  Zeros(LeadingZeros(s)) \o DigitsOf(Number(s, from), to)

\* The loop over the leading zeros does not know where the source ends: of a
\* source of zeros it takes as many more as there are behind it.
EncodeBase58(bytes) ==
  IF bytes # <<>> /\ AllZero(bytes)
  THEN {Zeros(Len(bytes) + n) : n \in 0 .. RunOn}
  ELSE {Convert(bytes, Byte, Radix)}

EncodeBase58Check(bytes) == EncodeBase58(bytes \o Checksum(bytes))

DecodeBase58(text) ==
  IF \E i \in DOMAIN text : text[i] >= Radix THEN Refused
  ELSE Ok(Convert(text, Radix, Byte))

\* The size of fewer bytes than a checksum has, less that of the checksum,
\* wraps around: the hash runs out of the program's memory.
DecodeBase58Check(text) ==
  LET d == DecodeBase58(text)
      n == Len(d.bytes) - CheckSize
  IN IF d.status = "refused" THEN Refused
     ELSE IF Len(d.bytes) < CheckSize THEN Killed
     ELSE IF SubSeq(d.bytes, n + 1, Len(d.bytes))
               = Checksum(SubSeq(d.bytes, 1, n))
          THEN Ok(SubSeq(d.bytes, 1, n)) ELSE Refused

EncodeHex(bytes) ==
  [i \in 1 .. 2 * Len(bytes) |->
     LET b == bytes[(i + 1) \div 2]
     IN IF i % 2 = 1 THEN b \div Nibble ELSE b % Nibble]

\* Of an odd number of characters the last is paired with the NUL behind.
DecodeHexChar(c) == c % Nibble
DecodeHex(text) ==
  IF Len(text) % 2 = 1 \/ \E i \in DOMAIN text : text[i] >= 2 * Nibble
  THEN Refused
  ELSE Ok([i \in 1 .. Len(text) \div 2 |->
             DecodeHexChar(text[2 * i - 1]) * Nibble + DecodeHexChar(text[2 * i])])

-----------------------------------------------------------------------------
\* combination.c: r of the positions 1 .. n, in lexicographic order.

Combination_create(r) == [i \in 1 .. r |-> i]

\* The last place that can move up moves, and those behind follow it.
\* Mutants: the last position is never tried; the last may move out.
MovableShort(k, n) == {i \in DOMAIN k : k[i] < n - 1 - Len(k) + i}
MovableFar(k, n) == {i \in DOMAIN k : k[i] <= n - Len(k) + i}
Movable(k, n) == {i \in DOMAIN k : k[i] < n - Len(k) + i}
Combination_next(k, n) ==
  LET i == CHOOSE i \in Movable(k, n) : \A j \in Movable(k, n) : j <= i
  IN [j \in DOMAIN k |-> IF j < i THEN k[j] ELSE k[i] + 1 + (j - i)]

\* The digits tried at those positions count up, the first one fastest.
Countable(digits) == {i \in DOMAIN digits : digits[i] < Radix - 1}

\* Mutant: nothing is carried.
NextDigitsNoCarry(digits) == [digits EXCEPT ![1] = (@ + 1) % Radix]
NextDigits(digits) ==
  LET i == CHOOSE i \in Countable(digits) : \A j \in Countable(digits) : i <= j
  IN [j \in DOMAIN digits |-> CASE j < i -> 0
                                [] j = i -> digits[j] + 1
                                [] OTHER -> digits[j]]

\* The text with the digits put in at their positions.
Place(text, k, digits) ==
  [p \in DOMAIN text |->
     IF \E i \in DOMAIN k : k[i] = p
     THEN digits[CHOOSE i \in DOMAIN k : k[i] = p] ELSE text[p]]
=============================================================================
