--------------------------- MODULE Transcription ----------------------------
(* A text of bitcoin-tool from one run to another: bytes are encoded and    *)
(* written (Bitcoin_fwrite_safe), somebody copies the text and slips, and a  *)
(* later run decodes it, changing characters until the checksum fits if it   *)
(* is asked to (Bitcoin_FixBase58Check). Slips are the environment; the rest *)
(* is base58.c, combination.c, utility.c and segwit_addr.c.                  *)
EXTENDS Base58, Bech32, FiniteSets

CONSTANTS
  Sources,        \* [format, bytes, hrp] that are written
  MaxSlips(_),    \* bound on what goes wrong with a source's text
  Alphabet(_),    \* the characters a slip may bring into it
  ChangeChars     \* --fix-base58check-change-chars

ASSUME ChangeCharsAssumption == ChangeChars \in Nat
\* Bytes are bytes, those of the checksum too; an address has a prefix.
ASSUME SourceAssumption ==
  \A s \in Sources :
    /\ s.format \in {"hex", "base58", "base58check", "bech32"}
    /\ s.format # "bech32" => s.bytes \in Seq(0 .. Byte - 1)
    /\ s.format = "bech32" =>
         s.bytes \in Seq(0 .. 255) /\ s.hrp \in Seq(Nat) /\ s.hrp # <<>>
    /\ s.format = "base58check" =>
         /\ Checksum(s.bytes) \in Seq(0 .. Byte - 1)
         /\ Len(Checksum(s.bytes)) = CheckSize
         /\ Alphabet(s) \subseteq Nat

VARIABLES
  source,    \* what is written
  pc,        \* where the transcription is
  text,      \* the text in the output buffer
  out,       \* the text on its way: written, copied, typed
  slips,     \* what has gone wrong on the way: slips, and a failed fwrite
  read,      \* what it was decoded to
  fix        \* the search: changes r, positions k, their digits

vars == <<source, pc, text, out, slips, read, fix>>

Init ==
  /\ source \in Sources
  /\ pc = "encode"
  /\ text = <<>> /\ out = <<>> /\ slips = 0
  /\ read = Refused
  /\ fix = [r |-> 0, k |-> <<>>, digits |-> <<>>]

\* What FormatOutput makes of the bytes. Nothing is written if it fails.
Encoded ==
  CASE source.format = "hex" -> {EncodeHex(source.bytes)}
    [] source.format = "base58" -> EncodeBase58(source.bytes)
    [] source.format = "base58check" -> EncodeBase58Check(source.bytes)
    [] OTHER -> LET e == segwit_addr_encode(source.hrp, 0, source.bytes)
                IN IF e.ok THEN {e.data} ELSE {}

Encode ==
  /\ pc = "encode"
  /\ IF Encoded = {} THEN text' = text /\ pc' = "failed"
     ELSE text' \in Encoded /\ pc' = "write"
  /\ UNCHANGED <<source, out, slips, read, fix>>

\* One fwrite: some of the characters left, in front. None is an error, which
\* ends the loop and which no caller looks at.
\* Mutant: a second fwrite begins at the start again.
RestOfTextAgain == text
RestOfText == SubSeq(text, Len(out) + 1, Len(text))

FwriteSafe ==
  /\ pc = "write"
  /\ \/ \E n \in 1 .. Len(text) - Len(out) :
          /\ out' = out \o SubSeq(RestOfText, 1, n)
          /\ pc' = IF Len(out') = Len(text) THEN "copy" ELSE "write"
          /\ slips' = slips
     \/ /\ slips < MaxSlips(source)
        /\ pc' = "copy"
        /\ slips' = slips + 1
        /\ out' = out
  /\ UNCHANGED <<source, text, read, fix>>

\* A slip of the one who copies: a character changed, added, left out or
\* exchanged with the next. Or all of it in capitals, which is no slip.
Slipped ==
  {[out EXCEPT ![i] = c] : i \in DOMAIN out, c \in Alphabet(source)} \cup
  (IF source.format # "bech32" THEN {} ELSE
   {InsertAt(out, i, c) : i \in 1 .. Len(out) + 1, c \in Alphabet(source)} \cup
   {RemoveAt(out, i) : i \in DOMAIN out} \cup
   {[out EXCEPT ![i] = out[i + 1], ![i + 1] = out[i]] : i \in 1 .. Len(out) - 1})

Slip ==
  /\ pc = "copy" /\ slips < MaxSlips(source)
  /\ out' \in Slipped \ {out}
  /\ slips' = slips + 1
  /\ UNCHANGED <<source, pc, text, read, fix>>

Capitals ==
  /\ pc = "copy" /\ slips = 0 /\ source.format = "bech32"
  /\ out' = [i \in DOMAIN out |-> IF IsLower(out[i]) THEN out[i] - 32
                                  ELSE out[i]]
  /\ UNCHANGED <<source, pc, text, slips, read, fix>>

-----------------------------------------------------------------------------
\* Reading: ParseInput of the later run.

DecodeBech32 ==
  LET d == bech32_decode(out)
      p == segwit_addr_decode(d.hrp, out)
  IN IF d.ok /\ p.ok THEN Ok(p.program) ELSE Refused

Decoded ==
  IF out = <<>> THEN Refused
  ELSE CASE source.format = "hex" -> DecodeHex(out)
         [] source.format = "base58" -> DecodeBase58(out)
         [] source.format = "base58check" -> DecodeBase58Check(out)
         [] OTHER -> DecodeBech32

Decode ==
  /\ pc = "copy"
  /\ read' = Decoded
  /\ pc' = CASE read'.status = "ok" -> "read"
             [] read'.status = "killed" -> "killed"
             [] OTHER -> IF source.format = "base58check" /\ out # <<>>
                         THEN "round" ELSE "failed"
  /\ UNCHANGED <<source, text, out, slips, fix>>

\* One more character is changed, if there may be. More changes than there
\* are characters is never meant to happen: the positions leave the text.

\* Mutant: one change more than was asked for.
TooManyByOne(r) == r > ChangeChars + 1
TooMany(r) == r > ChangeChars

NextRound ==
  /\ pc = "round"
  /\ LET r == fix.r + 1
     IN IF TooMany(r) THEN pc' = "failed" /\ fix' = fix
        ELSE IF r > Len(out) THEN pc' = "killed" /\ fix' = fix
        ELSE /\ pc' = "try"
             /\ fix' = [r |-> r, k |-> Combination_create(r), digits |-> Zeros(r)]
  /\ UNCHANGED <<source, text, out, slips, read>>

Candidate == Place(out, fix.k, fix.digits)

Try ==
  /\ pc = "try"
  /\ LET d == DecodeBase58Check(Candidate)
     IN IF d.status # "refused"
        THEN /\ read' = d
             /\ pc' = IF d.status = "ok" THEN "fixed" ELSE "killed"
             /\ fix' = fix
        ELSE IF Countable(fix.digits) # {}
        THEN /\ fix' = [fix EXCEPT !.digits = NextDigits(@)]
             /\ UNCHANGED <<read, pc>>
        ELSE pc' = "overflow" /\ UNCHANGED <<read, fix>>
  /\ UNCHANGED <<source, text, out, slips>>

NextCombination ==
  /\ pc = "overflow"
  /\ IF Movable(fix.k, Len(out)) # {}
     THEN /\ pc' = "try"
          /\ fix' = [fix EXCEPT !.k = Combination_next(@, Len(out)),
                                !.digits = Zeros(fix.r)]
     ELSE pc' = "round" /\ fix' = fix
  /\ UNCHANGED <<source, text, out, slips, read>>

Ended == {"read", "fixed", "failed", "killed"}
Done == pc \in Ended /\ UNCHANGED vars

Program == Encode \/ FwriteSafe \/ Decode \/ NextRound \/ Try \/ NextCombination
Next == Program \/ Slip \/ Capitals \/ Done

Spec == Init /\ [][Next]_vars
\* The tool does its steps; slips are nobody's duty. This is WF_vars(Program),
\* a step of which is possible until the end, spelled out because TLC is slow
\* to find by itself whether a step that decodes is possible.
FairSpec == Spec /\ ([]<>(pc \in Ended) \/ []<><<Program>>_vars)

-----------------------------------------------------------------------------
\* A text that was written whole and copied without a slip is read as what was
\* written, in capitals too. Not so for base58 of nothing but zeros, behind
\* which EncodeBase58 reads on (base58.c:68), and had the checksum of zeros
\* nothing but zeros, not for that either.
KeepsWhatWasWritten ==
  (pc \in Ended /\ slips = 0 /\ Len(out) = Len(text) /\ text # <<>>) =>
    \/ pc = "read" /\ read.bytes = source.bytes
    \/ source.format = "base58" /\ AllZero(source.bytes)
    \/ source.format = "base58check" /\ AllZero(source.bytes \o Checksum(source.bytes))

\* A bech32 text that was copied wrong or cut off is refused, whatever the slip:
\* not the checksum alone sees to that, which does not notice a q more or less
\* before a p at the end, but also the bits that are left over. What is read is
\* the text that was written, or that text in capitals, and its program.
SlipsRefused ==
  (pc = "read" /\ source.format = "bech32") =>
    /\ [i \in DOMAIN out |-> Lower(out[i])] = text
    /\ read.bytes = source.bytes

\* By definition, how many characters of two texts of one length differ.
Distance(s, t) == Cardinality({i \in DOMAIN s : s[i] # t[i]})
Nearby(d) == {t \in [DOMAIN out -> 0 .. Radix - 1] : Distance(t, out) <= d}
Fits(t) == DecodeBase58Check(t).status = "ok"

\* The repair finds a text whose checksum fits, and none fits with fewer
\* changes; and it gives up only if none fits within the changes allowed.
FixIsNearest ==
  /\ pc = "fixed" =>
       /\ read = DecodeBase58Check(Candidate)
       /\ ~\E t \in Nearby(Distance(Candidate, out) - 1) : Fits(t)
  /\ (pc = "failed" /\ source.format = "base58check" /\ out # <<>>) =>
       ~\E t \in Nearby(ChangeChars) : Fits(t)

\* A repaired text differs from the one that was typed in as many characters
\* as the user allowed, or fewer (base58.c:290).
FixChangesFew ==
  pc = "fixed" => Distance(out, Candidate) <= ChangeChars

\* The positions it changes lie within the text, each but once: the search
\* never writes behind the copy it changes (base58.c:309).  A text of fewer
\* characters than changes is not among those that are tried (NextRound); in
\* base 58 no search gets there: up to five characters the decoder is killed, or
\* fits, in an earlier round, and for six or more some text of that length fits.
PositionsInText ==
  pc \in {"try", "overflow", "fixed"} =>
    /\ \A i \in DOMAIN fix.k : fix.k[i] \in DOMAIN out
    /\ \A i, j \in DOMAIN fix.k : i < j => fix.k[i] < fix.k[j]

\* However long the search, the program ends: it decodes, repairs or fails.
SearchEnds == <>(pc \in Ended)
=============================================================================
