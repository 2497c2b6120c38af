------------------------------- MODULE Bech32 -------------------------------
(* segwit_addr.c: bech32 texts and the witness programs in them. Characters *)
(* are ASCII codes, a 5-bit value is a number, a 32-bit word of the checksum *)
(* is the set of its bits: shifting adds to them, xor is the difference.     *)
EXTENDS SeqOps

charset == <<113, 112, 122, 114, 121, 57, 120, 56, 103, 102, 50, 116, 118,
  100, 119, 48, 115, 51, 106, 110, 53, 52, 107, 104, 99, 101, 54, 109, 117,
  97, 55, 108>>

IsLower(c) == c \in 97 .. 122
IsUpper(c) == c \in 65 .. 90
Lower(c) == IF IsUpper(c) THEN c + 32 ELSE c
Separator == 49

\* The value of a character in either case; -1 if it is not of the charset.
charset_rev ==
  [c \in 33 .. 126 |->
     IF \E v \in 1 .. 32 : charset[v] = Lower(c)
     THEN (CHOOSE v \in 1 .. 32 : charset[v] = Lower(c)) - 1 ELSE -1]

Bits(n, width) == {i \in 0 .. width - 1 : (n \div 2 ^ i) % 2 = 1}
FromBits(bits) == SumSeq([i \in 1 .. 5 |-> IF i - 1 \in bits THEN 2 ^ (i - 1) ELSE 0])
Shift(bits, by) == {i + by : i \in bits}
Xor(a, b) == (a \ b) \cup (b \ a)

\* The five constants of the code, by the bits they have.
Generator == <<
  {1, 4, 5, 7, 8, 9, 10, 12, 14, 17, 19, 21, 22, 24, 25, 27, 28, 29},
  {0, 2, 3, 5, 6, 9, 10, 11, 15, 20, 22, 25, 26, 29},
  {1, 3, 4, 5, 6, 7, 8, 11, 12, 16, 21, 23, 25, 26, 27, 28},
  {0, 2, 3, 4, 6, 7, 8, 9, 12, 13, 17, 22, 24, 26, 27, 28, 29},
  {0, 1, 4, 5, 7, 9, 13, 14, 18, 20, 25, 27, 29}>>

\* A bit of the next word is the one below it moved up, turned over by every
\* constant that has it and that a topmost bit calls in.
bech32_polymod_step(pre) ==
  LET top == pre \cap (25 .. 29)
  IN {i \in 0 .. 29 :
        (i - 5 \in pre) #
          (Cardinality({j \in top : i \in Generator[j - 24]}) % 2 = 1)}

\* The word after all of the values; each word is bound in a set of its own,
\* so that TLC works it out once.
Absorb(chk, values) ==
  LET after[i \in 0 .. Len(values)] ==
        IF i = 0 THEN chk
        ELSE UNION {Xor(bech32_polymod_step(pre), values[i]) :
                      pre \in {after[i - 1]}}
  IN after[Len(values)]

\* The checksum over the HRP, in two parts, and values.
HrpChecksum(hrp) ==
  LET lower == [i \in DOMAIN hrp |-> Bits(Lower(hrp[i]), 8)]
  IN Absorb({0}, [i \in DOMAIN hrp |-> Shift(lower[i] \ (0 .. 4), 0 - 5)]
                   \o <<{}>>
                   \o [i \in DOMAIN hrp |-> lower[i] \cap (0 .. 4)])
Polymod(hrp, data) ==
  Absorb(HrpChecksum(hrp), [i \in DOMAIN data |-> Bits(data[i], 5)])

Failed == [ok |-> FALSE, hrp |-> <<>>, data |-> <<>>]

\* The text of an HRP in lower case and of values, or none.
bech32_encode(hrp, data) ==
  LET chk == Xor(Polymod(hrp, data \o [i \in 1 .. 6 |-> 0]), {0})
      sum == [i \in 1 .. 6 |->
                FromBits(Shift(chk \cap (5 * (6 - i) .. 5 * (6 - i) + 4),
                               0 - 5 * (6 - i)))]
      values == data \o sum
  IN IF \/ \E i \in DOMAIN hrp : hrp[i] \notin 33 .. 126 \/ IsUpper(hrp[i])
        \/ Len(hrp) + 7 + Len(data) > 90
        \/ \E i \in DOMAIN data : data[i] > 31
     THEN Failed
     ELSE [ok |-> TRUE, hrp |-> hrp,
           data |-> hrp \o <<Separator>> \o
                    [i \in DOMAIN values |-> charset[values[i] + 1]]]

\* What a text holds: its HRP in lower case, and its values without the
\* checksum. The separator is the last there is; the case may not be mixed.
bech32_decode(text) ==
  LET at == CHOOSE i \in DOMAIN text :
              text[i] = Separator /\ \A j \in i + 1 .. Len(text) :
                                       text[j] # Separator
      hrp == SubSeq(text, 1, at - 1)
      data == [i \in 1 .. Len(text) - at |-> charset_rev[text[at + i]]]
  IN IF \/ Len(text) \notin 8 .. 90
        \/ ~\E i \in DOMAIN text : text[i] = Separator
        \/ at = 1 \/ Len(text) - at < 6
        \/ \E i \in DOMAIN text : text[i] \notin 33 .. 126
        \/ \E i \in DOMAIN data : data[i] = -1
        \/ (\E i \in DOMAIN text : IsLower(text[i]))
             /\ (\E i \in DOMAIN text : IsUpper(text[i]))
        \/ Polymod(hrp, data) # {0}
     THEN Failed
     ELSE [ok |-> TRUE, hrp |-> [i \in DOMAIN hrp |-> Lower(hrp[i])],
           data |-> SubSeq(data, 1, Len(data) - 6)]

\* Groups of inbits bits into groups of outbits. Bits left over are padded;
\* or else there may be no full group of them, and they have to be zero.
Bit(in, inbits, i) ==
  (in[i \div inbits + 1] \div 2 ^ (inbits - 1 - (i % inbits))) % 2
PaddedBit(in, inbits, i) ==
  IF i < inbits * Len(in) THEN Bit(in, inbits, i) ELSE 0

\* Mutant: a full group may be left over.
LeftOverLax(in, inbits, outbits) == TRUE
LeftOver(in, inbits, outbits) ==
  LET bits == inbits * Len(in)
      rest == bits % outbits
  IN /\ rest < inbits
     /\ \A i \in bits - rest .. bits - 1 : Bit(in, inbits, i) = 0

convert_bits(in, inbits, outbits, pad) ==
  [ok |-> pad \/ LeftOver(in, inbits, outbits),
   out |-> [g \in 1 .. (inbits * Len(in) + (IF pad THEN outbits - 1 ELSE 0)) \div outbits |->
              SumSeq([i \in 1 .. outbits |->
                        PaddedBit(in, inbits, outbits * (g - 1) + i - 1) * 2 ^ (outbits - i)])]]

ProgramSize(version, size) ==
  size \in 2 .. 40 /\ (version = 0 => size \in {20, 32})

segwit_addr_encode(hrp, version, program) ==
  IF version > 16 \/ ~ProgramSize(version, Len(program)) THEN Failed
  ELSE bech32_encode(hrp, <<version>> \o convert_bits(program, 8, 5, TRUE).out)

NoProgram == [ok |-> FALSE, version |-> 0, program |-> <<>>]

segwit_addr_decode(hrp, text) ==
  LET d == bech32_decode(text)
      program == convert_bits(Tail(d.data), 5, 8, FALSE)
  IN IF \/ ~d.ok \/ Len(d.data) \notin 1 .. 65 \/ d.hrp # hrp
        \/ d.data[1] > 16 \/ ~program.ok
        \/ ~ProgramSize(d.data[1], Len(program.out))
     THEN NoProgram
     ELSE [ok |-> TRUE, version |-> d.data[1], program |-> program.out]
=============================================================================
