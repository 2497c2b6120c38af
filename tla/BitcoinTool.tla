---------------------------- MODULE BitcoinTool -----------------------------
(* bitcoin-tool, the C program that service-btc.jl calls to make an address *)
(* of a public key (app/tools/main.c, keys.c): it parses its command line,  *)
(* then reads one input, or every line of a file, converts it along         *)
(*                                                                          *)
(*   private key -> public key -> sha256 -> ripemd160 -> address            *)
(*                                                                          *)
(* and writes what was asked for. One BitcoinTool record lives through all  *)
(* the lines of a batch; nothing in it is reset between two of them.        *)
(*                                                                          *)
(* Bytes are sequences of fields <<width, tag, value>>, so that sizes are   *)
(* the program's, and hashes and curve points are terms: two are equal only *)
(* if they are made of the same thing. A text is what bytes look like in a  *)
(* format; the codecs are in Base58, Bech32 and Transcription. A text of    *)
(* another format than the one asked for does not decode, except that a     *)
(* base58check text is also a base58 text with four more bytes.             *)
EXTENDS ToolOptions, SeqOps

CONSTANTS
  CommandLines,   \* command lines: sequences of <<option, value>>
  Texts,          \* texts an input may be
  MaxLines        \* bound on the lines of the input file

ASSUME MaxLinesAssumption == MaxLines \in Nat

VARIABLES
  argv,      \* the arguments not parsed yet
  options,   \* self->options
  pc,        \* where main is; in the end its exit status, or killed
  file,      \* the input file: lines left, and what the program knows of it
  input,     \* input_raw, with the HRP it came with if it was bech32
  self,      \* keys, hashes and address, and the set of their _set flags
  written,   \* the outputs of the line read last
  lines      \* for the properties: lines of a batch refused by ParseInput and
             \* written, and the network that the command line names

vars == <<argv, options, pc, file, input, self, written, lines>>

-----------------------------------------------------------------------------
\* Bytes.

Byte(n) == <<1, "byte", n>>
Size(bytes) == SumSeq([i \in DOMAIN bytes |-> bytes[i][1]])

Sha(bytes) == <<<<32, "sha256", bytes>>>>
Rmd(bytes) == <<<<20, "ripemd160", bytes>>>>
Checksum(bytes) == <<<<4, "checksum", bytes>>>>
Point(key) == <<<<32, "x", key>>>>

\* i2o_ECPublicKey: the point in one of its two forms.
PublicKey(key, compression) ==
  IF compression = "compressed" THEN <<Byte(2)>> \o Point(key)
  ELSE <<Byte(4)>> \o Point(key) \o <<<<32, "y", key>>>>

\* What calloc leaves where an address or a hash has not been made yet.
Zeros(n) == <<<<n, "key", 0>>>>
ZeroKey == Zeros(32)

\* A text: the format it is in, the bytes it stands for (of a bech32 text the
\* witness program), its HRP, how many of its characters are mistyped, and
\* whether a bech32 text is a witness program at all. An empty text is the
\* one of no bytes.
Text(format, bytes, hrp, typos, segwit) ==
  [format |-> format, bytes |-> bytes, hrp |-> hrp, typos |-> typos,
   segwit |-> segwit]

-----------------------------------------------------------------------------
Init ==
  /\ argv \in CommandLines
  /\ options = NoOptions
  /\ pc = "parse"
  /\ file \in [exists : BOOLEAN, left : 0 .. MaxLines, terminated : BOOLEAN,
               eof : {FALSE}]
  /\ file.left > 0 => file.exists
  /\ file.terminated => file.left > 0
  /\ input = [bytes |-> <<>>, hrp |-> ""]
  /\ self = [private_key |-> ZeroKey, private_compression |-> "empty",
             private_network |-> Null, public_key |-> Zeros(65),
             public_compression |-> "empty", public_network |-> Null,
             public_key_sha |-> Zeros(32), public_key_rmd |-> Zeros(20),
             address |-> Zeros(21), set |-> {}]
  /\ written = {}
  /\ lines = [of |-> file.left, refused |-> 0, done |-> 0, network |-> Null]

Ends(how) == pc' = how

ParseArgument ==
  /\ pc = "parse" /\ argv # <<>>
  /\ LET opt == Head(argv)[1]
         v   == Head(argv)[2]
     IN IF Takes(options, opt, v)
        THEN options' = ParseOption(options, opt, v) /\ pc' = pc
        ELSE options' = options /\ Ends("failure")
  /\ argv' = Tail(argv)
  /\ UNCHANGED <<file, input, self, written, lines>>

\* The end of parseOptions, and the start of run: a compression asked for is
\* put in the private key once, before the first input.
Run ==
  /\ pc = "parse" /\ argv = <<>>
  /\ IF Complete(options) THEN pc' = "read" ELSE Ends("failure")
  /\ self' = IF options.public_key_compression = "auto" THEN self
             ELSE [self EXCEPT !.private_compression =
                                 options.public_key_compression]
  /\ lines' = [lines EXCEPT !.network = options.network_type]
  /\ UNCHANGED <<argv, options, file, input, written>>

-----------------------------------------------------------------------------
\* ParseInput: read a text and decode it.

NotDecoded(network) == [ok |-> FALSE, bytes |-> <<>>, network |-> network]
Decoded(bytes, network) == [ok |-> TRUE, bytes |-> bytes, network |-> network]

\* FixBase58Check in place of its text: within so many changes the text meant
\* is found if it is that near, or another one whose checksum fits by chance.
LookAlike(bytes) ==
  [bytes EXCEPT ![Len(bytes)] = <<@[1], "look-alike", @[3]>>]
FixedBase58Check(t) ==
  IF options.fix_base58_change_chars = 0
  THEN {NotDecoded(options.network_type)}
  ELSE {Decoded(LookAlike(t.bytes), options.network_type)} \cup
       {IF t.typos <= options.fix_base58_change_chars
        THEN Decoded(t.bytes, options.network_type)
        ELSE NotDecoded(options.network_type)}

DecodeBase58Check(t) ==
  IF t.typos = 0 THEN {Decoded(t.bytes, options.network_type)}
  ELSE IF options.fix_base58 THEN FixedBase58Check(t)
  ELSE {NotDecoded(options.network_type)}

\* The network is that of the command line or of an earlier line, if there is
\* one, and else the one of the HRP; it is kept even if the text is refused.
DecodeBech32(t) ==
  LET network == IF options.network_type # Null \/ t.typos # 0
                 THEN options.network_type
                 ELSE GetNetworkTypeByHrp(t.hrp)
  IN IF network = Null \/ t.typos # 0 \/ ~t.segwit THEN {NotDecoded(network)}
     ELSE {Decoded(<<Byte(GetPublicKeyPrefix(network))>> \o t.bytes, network)}

Decode(t) ==
  IF t.bytes = <<>> THEN {NotDecoded(options.network_type)}
  ELSE IF t.format = "base58check" /\ options.input_format = "base58"
       THEN {Decoded(t.bytes \o Checksum(t.bytes), options.network_type)}
  ELSE IF t.format # options.input_format
       THEN {NotDecoded(options.network_type)}
  ELSE CASE t.format = "base58check" -> DecodeBase58Check(t)
         [] t.format = "bech32" -> DecodeBech32(t)
         [] OTHER -> {Decoded(t.bytes, options.network_type)}

\* An input error ends the program, or counts for nothing if such errors are
\* ignored: a batch goes on with the next line, and a single input ends well.

\* Mutant: break where the code has continue.
RefuseBreak ==
  /\ pc' = IF options.ignore_input_errors THEN "success" ELSE "failure"
  /\ UNCHANGED input
Refuse ==
  /\ pc' = IF ~options.ignore_input_errors THEN "failure"
           ELSE IF options.batch THEN "read" ELSE "success"
  /\ UNCHANGED input

ParseText(t) ==
  \E d \in Decode(t) :
    /\ options' = [options EXCEPT !.network_type = d.network]
    /\ IF d.ok
       THEN /\ pc' = "check"
            /\ input' = [bytes |-> d.bytes, hrp |-> t.hrp]
            /\ lines' = lines
       ELSE Refuse /\ lines' = [lines EXCEPT !.refused = @ + 1]
    /\ written' = {}
    /\ UNCHANGED <<argv, self>>

\* What is read raw is a raw text, whatever its bytes look like.
Readable == {t \in Texts : options.input_format = "raw" => t.format = "raw"}

\* The file cannot be opened, or what was opened has no line to give: an
\* input error. The end of a file is known only after reading it has failed,
\* or after a last line without a newline.

\* Mutant: fgets without feof.
SeesEndNever == FALSE
SeesEnd == options.batch /\ file.exists

NothingRead ==
  /\ pc = "read" /\ ~file.eof
  /\ options.input_file
  /\ ~file.exists \/ file.left = 0
  /\ file' = [file EXCEPT !.eof = SeesEnd]
  /\ written' = {}
  /\ Refuse
  /\ UNCHANGED <<argv, options, self, lines>>

EndOfFile ==
  /\ pc = "read" /\ file.eof
  /\ Ends("success")
  /\ UNCHANGED <<argv, options, file, input, self, written, lines>>

\* fgets: a line without its newline.
ReadLine ==
  /\ pc = "read" /\ options.batch
  /\ file.exists /\ ~file.eof /\ file.left > 0
  /\ file' = [file EXCEPT !.left = @ - 1,
                          !.eof = file.left = 1 /\ ~file.terminated]
  /\ \E t \in Readable : ParseText(t)

\* One input: the whole file, of which a newline is not taken off (so that
\* only a raw or an unterminated single line may decode), or --input.
ReadOnce ==
  /\ pc = "read" /\ ~options.batch
  /\ \/ /\ options.input_file
        /\ file.exists /\ file.left > 0
        /\ \E t \in Readable :
             /\ (file.left = 1 /\ ~file.terminated) \/ t.bytes = <<>>
             /\ ParseText(t)
     \/ /\ ~options.input_file
        /\ \E t \in Readable : ParseText(t)
  /\ UNCHANGED file

-----------------------------------------------------------------------------
\* CheckInputSize: only the size tells whether the bytes are of the type that
\* was asked for, and of a WIF key its first byte.

Sizes == [type \in InputTypes |->
  CASE type = "address" -> {21}
    [] type = "public-key-rmd" -> {20}
    [] type = "public-key-sha" -> {32}
    [] type = "public-key" -> {33, 65}
    [] type = "private-key-wif" -> {33, 34}
    [] type = "private-key" -> {32}
    [] type = "mini-private-key" -> {30}]

\* What the texts are read as.
Readings(t) ==
  CASE t.format = "base58check" ->
         {t.bytes, LookAlike(t.bytes), t.bytes \o Checksum(t.bytes)}
    [] t.format = "bech32" ->
         {<<Byte(GetPublicKeyPrefix(n))>> \o t.bytes : n \in NetworkNames}
    [] OTHER -> {t.bytes}

\* Fields end where the program cuts: a first byte is read of what has the size
\* of an address or of a WIF key, and behind that of a WIF key 32 bytes.
IsBytes(bytes) ==
  LET fields == {bytes[i] : i \in DOMAIN bytes}
  IN bytes \in Seq(fields) /\ \A field \in fields : field[1] \in Nat
StartsWithByte(bytes) == bytes[1] = Byte(bytes[1][3])
ASSUME FieldsAssumption ==
  \A t \in Texts : t.bytes # <<>> => \A bytes \in Readings(t) :
    /\ IsBytes(bytes)
    /\ Size(bytes) \in Sizes["address"] => StartsWithByte(bytes)
    /\ Size(bytes) \in Sizes["private-key-wif"] =>
         StartsWithByte(bytes) /\ bytes[2][1] = 32
ASSUME TextsAssumption == \A t \in Texts : IsBytes(t.bytes)

Acceptable(bytes) ==
  /\ Size(bytes) \in Sizes[options.input_type]
  /\ CASE options.input_type = "mini-private-key" -> bytes[1][2] = "mini"
       [] options.input_type = "private-key" -> options.network_type # Null
       [] options.input_type = "private-key-wif" ->
            GetNetworkTypeByPrivateKeyPrefix(bytes[1][3]) # Null
       [] OTHER -> TRUE

Set(s, flags) == [s EXCEPT !.set = @ \cup flags]

\* A mini key is a text: its hash is the key, of bitcoin if no network is
\* given, and never compressed.
LoadMini(bytes) ==
  [Set(self, {"private-key", "private-key-wif"}) EXCEPT
     !.private_key = Sha(bytes),
     !.private_compression = "uncompressed",
     !.private_network = IF options.network_type = Null THEN "bitcoin"
                         ELSE options.network_type]

LoadPrivateKey(bytes) ==
  [Set(self, {"private-key"}) EXCEPT
     !.private_key = bytes, !.private_network = options.network_type]

\* The size of a WIF key tells the compression, whatever was asked for.

\* Mutant: a compression that is set already is kept.
LoadWIFKeeping(bytes) ==
  [Set(self, {"private-key-wif"}) EXCEPT
     !.private_key = <<bytes[2]>>,
     !.private_compression = IF @ # "empty" THEN @
                             ELSE IF Size(bytes) = 33 THEN "uncompressed"
                             ELSE "compressed",
     !.private_network = GetNetworkTypeByPrivateKeyPrefix(bytes[1][3])]
LoadWIF(bytes) ==
  [Set(self, {"private-key-wif"}) EXCEPT
     !.private_key = <<bytes[2]>>,
     !.private_compression = IF Size(bytes) = 33 THEN "uncompressed"
                             ELSE "compressed",
     !.private_network = GetNetworkTypeByPrivateKeyPrefix(bytes[1][3])]

\* Mutant: the flag is not set.
LoadPublicKeyUnset(bytes) ==
  [self EXCEPT !.public_key = bytes,
               !.public_compression = IF Size(bytes) = 65 THEN "uncompressed"
                                      ELSE "compressed"]
LoadPublicKey(bytes) ==
  [Set(self, {"public-key"}) EXCEPT
     !.public_key = bytes,
     !.public_compression = IF Size(bytes) = 65 THEN "uncompressed"
                            ELSE "compressed"]

Loaded(bytes) ==
  CASE options.input_type = "mini-private-key" -> LoadMini(bytes)
    [] options.input_type = "private-key" -> LoadPrivateKey(bytes)
    [] options.input_type = "private-key-wif" -> LoadWIF(bytes)
    [] options.input_type = "public-key" -> LoadPublicKey(bytes)
    [] options.input_type = "public-key-sha" ->
         [Set(self, {"public-key-sha"}) EXCEPT !.public_key_sha = bytes]
    [] options.input_type = "public-key-rmd" ->
         [Set(self, {"public-key-rmd"}) EXCEPT !.public_key_rmd = bytes]
    [] OTHER -> [Set(self, {"address"}) EXCEPT !.address = bytes]

CheckInputSize ==
  /\ pc = "check"
  /\ IF Acceptable(input.bytes)
     THEN self' = Loaded(input.bytes) /\ pc' = "convert"
     ELSE self' = self /\ Ends("failure")
  /\ UNCHANGED <<argv, options, file, input, written, lines>>

-----------------------------------------------------------------------------
\* ConvertInputToOutput: from the case of the input type the code falls from
\* one case into the next, until one of them returns.

Converted(s) == [ok |-> TRUE, self |-> s]
Impossible(s) == [ok |-> FALSE, self |-> s]
Out == options.output_type
Asked(types) == Out \in types \cup {"all"}

Rmds == {"address"}                         \* outputs made from a ripemd160,
Shas == Rmds \cup {"public-key-rmd"}        \* from a sha256,
Publics == Shas \cup {"public-key-sha"}     \* from a public key,
Privates == Publics \cup {"public-key"}     \* from a private key
Above(types) == (OutputTypes \ {"all", "address-checksum"}) \ types

\* Mutant: the version byte is copied as well.
FromAddressWhole(s) ==
  CASE Out = "public-key-rmd" ->
         Converted([s EXCEPT !.public_key_rmd = s.address])
    [] Out \in Above(Shas) -> Impossible(s)
    [] OTHER -> Converted(s)

FromAddress(s) ==
  CASE Out = "public-key-rmd" ->
         Converted([Set(s, {"public-key-rmd"}) EXCEPT
                      !.public_key_rmd = Tail(s.address)])
    [] Out \in Above(Shas) -> Impossible(s)
    [] OTHER -> Converted(s)

FromRmd(s) ==
  LET network == IF options.network_type # Null THEN options.network_type
                 ELSE s.public_network
      prefix  == GetPublicKeyPrefix(network)
  IN CASE Asked(Rmds) ->
            IF network = Null THEN Impossible(s)
            ELSE FromAddress(
                   [Set(s, {"address"}) EXCEPT
                      !.public_network = network,
                      !.address = <<Byte(prefix)>> \o s.public_key_rmd])
       [] Out = "public-key-rmd" -> Converted(s)
       [] Out \in Above(Shas) -> Impossible(s)
       [] OTHER -> FromAddress(s)

FromSha(s) ==
  CASE Asked(Shas) ->
         FromRmd([Set(s, {"public-key-rmd"}) EXCEPT
                    !.public_key_rmd = Rmd(s.public_key_sha)])
    [] Out = "public-key-sha" -> Converted(s)
    [] Out \in Above(Publics) -> Impossible(s)
    [] OTHER -> FromRmd(s)

FromPublic(s) ==
  CASE Asked(Publics) ->
         FromSha([Set(s, {"public-key-sha"}) EXCEPT
                    !.public_key_sha = Sha(s.public_key)])
    [] Out = "public-key" -> Converted(s)
    [] Out \in Above(Privates) -> Impossible(s)
    [] OTHER -> FromSha(s)

\* MakePublicKeyFromPrivateKey: without a compression, and for the key whose
\* point is at infinity, there is no public key.
MakesPublicKey(s) ==
  s.private_compression # "empty" /\ s.private_key # ZeroKey

FromWIF(s) ==
  LET t == IF Asked(Privates \cup {"private-key"})
           THEN Set(s, {"private-key"}) ELSE s
  IN CASE Asked(Privates) ->
            IF s.private_network = Null \/ ~MakesPublicKey(s) THEN Impossible(t)
            ELSE FromPublic(
                   [Set(t, {"public-key"}) EXCEPT
                      !.public_key = PublicKey(s.private_key,
                                               s.private_compression),
                      !.public_compression = s.private_compression,
                      !.public_network = s.private_network])
       [] Out \in {"private-key-wif", "private-key"} -> Converted(t)
       [] OTHER -> FromPublic(t)

FromPrivate(s) ==
  IF Out = "private-key" THEN Converted(s)
  ELSE IF Asked(Privates \cup {"private-key-wif"})
       THEN FromWIF(Set(s, {"private-key-wif"}))
       ELSE FromWIF(s)

Conversion ==
  CASE options.input_type \in {"mini-private-key", "private-key"} ->
         FromPrivate(self)
    [] options.input_type = "private-key-wif" -> FromWIF(self)
    [] options.input_type = "public-key" -> FromPublic(self)
    [] options.input_type = "public-key-sha" -> FromSha(self)
    [] options.input_type = "public-key-rmd" -> FromRmd(self)
    [] OTHER -> FromAddress(self)

ConvertInputToOutput ==
  /\ pc = "convert"
  /\ self' = Conversion.self
  /\ IF Conversion.ok THEN pc' = "write" ELSE Ends("failure")
  /\ UNCHANGED <<argv, options, file, input, written, lines>>

-----------------------------------------------------------------------------
\* FormatOutput, WriteOutput and WriteAllOutput.

OutputRaw(type) ==
  CASE type = "address" -> self.address
    [] type = "address-checksum" -> self.address \o Checksum(self.address)
    [] type = "public-key-rmd" -> self.public_key_rmd
    [] type = "public-key-sha" -> self.public_key_sha
    [] type = "public-key" -> self.public_key
    [] type = "private-key" -> self.private_key
    [] type = "private-key-wif" ->
         <<Byte(GetPrivateKeyPrefix(self.private_network))>> \o
         self.private_key \o
         (IF self.private_compression = "compressed" THEN <<Byte(1)>>
          ELSE <<>>)

\* A WIF key needs a compression; raw is not a format that can be written;
\* and bech32 leaves the first byte away and takes 20 bytes or 32.
Formattable(type, format) ==
  /\ type = "private-key-wif" => self.private_compression # "empty"
  /\ \/ format \in {"hex", "base58", "base58check"}
     \/ format = "bech32" /\ Size(OutputRaw(type)) - 1 \in {20, 32}

\* bech32 reads the HRP of a network that may not be there.
NullHrp(format) == format = "bech32" /\ options.network_type = Null

Output(type, format) ==
  [type |-> type,
   text |-> IF format = "bech32"
            THEN Text(format, Tail(OutputRaw(type)),
                      Type(options.network_type).hrp, 0, TRUE)
            ELSE Text(format, OutputRaw(type), "", 0, FALSE)]

AfterOutput ==
  /\ pc' = IF options.batch THEN "read" ELSE "success"
  /\ lines' = [lines EXCEPT !.done = @ + 1]

WriteOutput ==
  /\ pc = "write" /\ Out # "all"
  /\ ~NullHrp(options.output_format)
  /\ IF Formattable(Out, options.output_format)
     THEN /\ written' = {Output(Out, options.output_format)}
          /\ AfterOutput
     ELSE Ends("failure") /\ UNCHANGED <<written, lines>>
  /\ UNCHANGED <<argv, options, file, input, self>>

\* Every type that is set, in every format it can be written in, except that
\* a checksum is not given another checksum.
AllOutputs ==
  {a \in (OutputTypes \ {"all"}) \X {"hex", "base58", "base58check", "bech32"} :
     /\ a # <<"address-checksum", "base58check">>
     /\ \/ a[1] \in self.set
        \/ a[1] = "address-checksum" /\ "address" \in self.set
     /\ Formattable(a[1], a[2])}

WriteAllOutput ==
  /\ pc = "write" /\ Out = "all"
  /\ ~NullHrp("bech32")
  /\ written' = {Output(a[1], a[2]) : a \in AllOutputs}
  /\ AfterOutput
  /\ UNCHANGED <<argv, options, file, input, self>>

\* A null network is read for its HRP: the process is killed, and what it had
\* written of this line is left open.
Crash ==
  /\ pc = "write"
  /\ NullHrp(IF Out = "all" THEN "bech32" ELSE options.output_format)
  /\ Ends("killed")
  /\ UNCHANGED <<argv, options, file, input, self, written, lines>>

Ended == {"success", "failure", "killed"}

Done == pc \in Ended /\ UNCHANGED vars

Next ==
  \/ ParseArgument \/ Run
  \/ NothingRead \/ EndOfFile \/ ReadLine \/ ReadOnce
  \/ CheckInputSize \/ ConvertInputToOutput
  \/ WriteOutput \/ WriteAllOutput \/ Crash
  \/ Done

Spec == Init /\ [][Next]_vars
FairSpec == Spec /\ WF_vars(Next)

-----------------------------------------------------------------------------
\* Every variable keeps its type, and the flags are those of types that exist.
TypeOK ==
  /\ options \in OptionsType
  /\ pc \in {"parse", "read", "check", "convert", "write"} \cup Ended
  /\ file.left \in 0 .. MaxLines /\ file.eof \in BOOLEAN
  /\ Size(self.address) = 21 /\ Size(self.public_key_rmd) = 20
  /\ Size(self.public_key_sha) = 32 /\ Size(self.private_key) = 32
  /\ Size(self.public_key) \in {33, 65}
  /\ self.set \subseteq OutputTypes \ {"all", "address-checksum"}
  /\ \A o \in written : o.type \in OutputTypes \ {"all"}
  /\ lines.of \in 0 .. MaxLines

\* What an input means in each form the program knows, worked out backwards
\* from the form that is asked for: of its bytes, of a network or none, and of
\* the options, but not of any that a line may change.
Given(type) == options.input_type = type
KeyOf(in) == IF Given("private-key") THEN in
             ELSE IF Given("private-key-wif") THEN <<in[2]>> ELSE Sha(in)
CompressionOf(in) ==
  CASE Given("private-key") -> options.public_key_compression
    [] Given("private-key-wif") ->
         IF Size(in) = 34 THEN "compressed" ELSE "uncompressed"
    [] OTHER -> "uncompressed"
PublicOf(in) == IF Given("public-key") THEN in
                ELSE PublicKey(KeyOf(in), CompressionOf(in))
ShaOf(in) == IF Given("public-key-sha") THEN in ELSE Sha(PublicOf(in))
RmdOf(in) == IF Given("public-key-rmd") THEN in
             ELSE IF Given("address") THEN Tail(in) ELSE Rmd(ShaOf(in))
NetworkOf(network) == IF network = Null THEN "bitcoin" ELSE network
PrivatePrefixOf(in, network) ==
  IF Given("private-key-wif") THEN in[1]
  ELSE Byte(GetPrivateKeyPrefix(NetworkOf(network)))
PublicPrefixOf(in, network) ==
  IF Given("private-key-wif") /\ network = Null THEN Byte(in[1][3] - 128)
  ELSE Byte(GetPublicKeyPrefix(NetworkOf(network)))
AddressOf(in, network) ==
  IF Given("address") THEN in ELSE <<PublicPrefixOf(in, network)>> \o RmdOf(in)

Meant(type, in, network) ==
  CASE type = "private-key" -> KeyOf(in)
    [] type = "private-key-wif" ->
         <<PrivatePrefixOf(in, network)>> \o KeyOf(in) \o
         (IF CompressionOf(in) = "compressed" THEN <<Byte(1)>> ELSE <<>>)
    [] type = "public-key" -> PublicOf(in)
    [] type = "public-key-sha" -> ShaOf(in)
    [] type = "public-key-rmd" -> RmdOf(in)
    [] type = "address" -> AddressOf(in, network)
    [] type = "address-checksum" ->
         AddressOf(in, network) \o Checksum(AddressOf(in, network))

\* The bytes of the line read last: of a bech32 text the first one is not in
\* the text but that of a network.
LineBytes(network) ==
  IF options.input_format = "bech32"
  THEN <<Byte(GetPublicKeyPrefix(network))>> \o Tail(input.bytes)
  ELSE input.bytes

\* The network of that line is the one that the command line names, or none.
\* If it names none, that of a bech32 text is its HRP's; but in a batch an
\* earlier line may have named another one, which NetworkFromHrp is about.
LineNetworks ==
  IF lines.network # Null \/ options.input_format # "bech32" THEN {lines.network}
  ELSE IF options.batch THEN NetworkNames
  ELSE {GetNetworkTypeByHrp(input.hrp)}

\* Whatever is written is made of the line read last and of the command line,
\* although keys, hashes, compressions, networks and flags of earlier lines are
\* never cleared (main.c:1539-1565). The one thing that an earlier line has a
\* say in is the network of a bech32 line if the command line names none; then
\* it is a single network that all of the outputs are of. Left out is the
\* checksum of an address that was never made.
WrittenIsDerived ==
  \E network \in LineNetworks : \A o \in written :
    /\ o.text.format = "bech32" => o.text.hrp = Type(network).hrp
    /\ (o.type = "address-checksum" => Given("address")) =>
         LET meant == Meant(o.type, LineBytes(network), network)
         IN o.text.bytes = IF o.text.format = "bech32" THEN Tail(meant) ELSE meant

\* With --output-type all, each form the input leads to is there in hex.
AllIsWritten ==
  (Out = "all" /\ written # {}) =>
    LET from == CASE options.input_type \in {"private-key", "mini-private-key"}
                       -> Privates \cup {"private-key", "private-key-wif"}
                  [] Given("private-key-wif") ->
                       Privates \cup {"private-key", "private-key-wif"}
                  [] Given("public-key") -> Privates
                  [] Given("public-key-sha") -> Publics
                  [] Given("public-key-rmd") -> Shas
                  [] OTHER -> Rmds
    IN \A type \in from : \E o \in written :
         o.type = type /\ o.text.format = "hex"

\* The tool takes back what it has written, as what it was: the size is one of
\* its type (no two types that are converted differently may be mixed up), a
\* WIF key leads to a network with its prefixes, and the HRP of an address to
\* the byte that bech32 has left away, unless the address came from outside.
ReadsBack ==
  \A o \in written :
    LET bytes == o.text.bytes
    IN IF o.text.format = "bech32"
       THEN o.type = "address" /\ ~Given("address") =>
              self.address[1] =
                Byte(GetPublicKeyPrefix(GetNetworkTypeByHrp(o.text.hrp)))
       ELSE o.type # "address-checksum" =>
              /\ Size(bytes) \in Sizes[o.type]
              /\ o.type = "private-key-wif" =>
                   LET n == GetNetworkTypeByPrivateKeyPrefix(bytes[1][3])
                   IN /\ n # Null
                      /\ GetPublicKeyPrefix(n) =
                           GetPublicKeyPrefix(self.private_network)

\* A batch that ends well has read its file to the end, every line was either
\* written or refused, and none was refused unless such errors are ignored.
SuccessMeansAllRead ==
  (pc = "success" /\ options.batch) =>
    /\ file.exists /\ file.left = 0
    /\ lines.done + lines.refused = lines.of
    /\ lines.refused > 0 => options.ignore_input_errors

\* The address of a bech32 line is of the network its own HRP names
\* (main.c:978); false when an earlier line has named another.
NetworkFromHrp ==
  (pc = "write" /\ options.input_format = "bech32") =>
    LET n == GetNetworkTypeByHrp(input.hrp)
    IN n # Null => input.bytes[1] = Byte(GetPublicKeyPrefix(n))

\* The program ends, whatever the file holds, if there is one to open.
ProgramEnds == file.exists ~> pc \in Ended
=============================================================================
