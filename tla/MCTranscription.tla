-------------------------- MODULE MCTranscription --------------------------
(* A base of four for the bytes, three for base58 and two for hex, so that  *)
(* every text near another can be enumerated; bech32 as it is.              *)
EXTENDS Transcription

MCChecksum(bytes) ==
  LET n == FoldLeft(LAMBDA h, b : 5 * h + 3 * b, 7, bytes)
  IN <<n % Byte, (n \div Byte) % Byte>>

\* Programs whose texts end in p, before which a q more leaves the checksum
\* right, and others.
Address(last) == [i \in 1 .. 20 |-> IF i = 20 THEN last ELSE 0]
bc == <<98, 99>>
From(format, bytes, hrp) == [format |-> format, bytes |-> bytes, hrp |-> hrp]

MCSources ==
  {From(format, bytes, <<>>) : format \in {"hex", "base58"},
                               bytes \in [1 .. 2 -> 0 .. Byte - 1]} \cup
  {From("base58check", bytes, <<>>) :
     bytes \in [1 .. 1 -> 0 .. Byte - 1] \cup {<<0, 1>>, <<3, 2>>}} \cup
  {From("bech32", Address(27), bc), From("bech32", Address(1), bc),
   From("bech32", <<1, 2>>, bc)}

\* Two slips in a base58check text, and in one bech32 text by the letters that
\* its checksum is weak against; elsewhere one, by all that may come in.
MCMaxSlips(s) ==
  IF s.format = "base58check" \/ s.bytes = Address(27) THEN 2 ELSE 1
MCAlphabet(s) ==
  IF s.bytes = Address(27) THEN {112, 113}
  ELSE CASE s.format = "hex" -> 0 .. 2 * Nibble
         [] s.format = "bech32" -> {charset[i] : i \in 1 .. 32} \cup {49, 81, 98}
         [] OTHER -> 0 .. Radix
=============================================================================
