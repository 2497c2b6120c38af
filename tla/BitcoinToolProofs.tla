------------------------- MODULE BitcoinToolProofs --------------------------
(***************************************************************************)
(* For files of any length, any texts and any command line: a batch that   *)
(* ends well has read every line; whatever is written is made of the line  *)
(* read last, in every form that was asked for; and the tool takes it back *)
(* as what it was.                                                         *)
(***************************************************************************)
EXTENDS BitcoinTool, DataLemmas

-----------------------------------------------------------------------------
(* The table of networks: what is found by a prefix has it. *)

Entries == 1 .. 19

LEMMA Table ==
  /\ DOMAIN network_types = Entries
  /\ \A i \in Entries :
       /\ network_types[i].name # Null
       /\ network_types[i].public_key_prefix \in Nat
       /\ network_types[i].private_key_prefix =
            network_types[i].public_key_prefix + 128
BY DEF network_types, Network, Null, Entries

LEMMA NamesDiffer ==
  \A i, j \in Entries : network_types[i].name = network_types[j].name => i = j
BY DEF network_types, Network, Entries

\* A search of the table that finds something gives an entry it has found.
LEMMA FirstIsFound ==
  ASSUME NEW found, found \subseteq Entries, found # {}
  PROVE  \E i \in found : First(found) = network_types[i].name
<1>1. PICK i \in found : \A j \in found : i <= j
  <2>1. found \in SUBSET Nat
    BY DEF Entries
  <2>2. QED
    BY <2>1, MinOfNats
<1>2. QED
  BY <1>1 DEF First

LEMMA TypeOfEntry ==
  ASSUME NEW i \in Entries
  PROVE  Type(network_types[i].name) = network_types[i]
BY Table, NamesDiffer DEF Type

\* The network a WIF key's first byte leads to has that prefix, and addresses
\* of it begin with the byte 128 below.
LEMMA PrefixFound ==
  ASSUME NEW prefix, NEW n, n = GetNetworkTypeByPrivateKeyPrefix(prefix),
         n # Null
  PROVE  /\ GetPrivateKeyPrefix(n) = prefix
         /\ GetPublicKeyPrefix(n) = prefix - 128
<1> DEFINE found == {i \in DOMAIN network_types :
                       network_types[i].private_key_prefix = prefix}
<1>1. found # {} /\ n = First(found)
  BY DEF GetNetworkTypeByPrivateKeyPrefix, First
<1>2. found \subseteq Entries
  BY Table
<1>3. PICK i \in found : n = network_types[i].name
  BY <1>1, <1>2, FirstIsFound
<1>4. Type(n) = network_types[i] /\ network_types[i].private_key_prefix = prefix
  BY <1>2, <1>3, TypeOfEntry
<1>5. QED
  BY <1>2, <1>3, <1>4, Table DEF GetPrivateKeyPrefix, GetPublicKeyPrefix

\* What is found is a network of the table, or nothing.
LEMMA FoundIsNetwork ==
  ASSUME NEW found, found \subseteq Entries
  PROVE  First(found) \in NetworkNames \cup {Null}
<1>1. CASE found = {}
  BY <1>1 DEF First
<1>2. CASE found # {}
  BY <1>2, FirstIsFound, Table DEF NetworkNames
<1>3. QED
  BY <1>1, <1>2

-----------------------------------------------------------------------------
(* The counts of a batch. *)

OptionNames ==
  {"input", "input_file", "input_type", "input_format", "output_type",
   "output_format", "public_key_compression", "fix_base58",
   "fix_base58_change_chars", "network_type", "batch", "ignore_input_errors"}

LinesType ==
  lines \in [of : Nat, refused : Nat, done : Nat, network : {lines.network}]

\* The records that are updated have the fields they began with.
RecordsInv ==
  /\ DOMAIN options = OptionNames
  /\ file \in [exists : BOOLEAN, left : Nat, terminated : BOOLEAN,
               eof : BOOLEAN]
  /\ LinesType

InFlight == IF pc \in {"check", "convert", "write"} THEN 1 ELSE 0

\* Nothing is read before the command line is parsed; from then on, until the
\* program fails, every line of a batch is left, on its way, written or refused.
\* The end of the file is seen when no line is left, and ends a batch well.
CountInv ==
  /\ pc = "parse" =>
       /\ file.left = lines.of /\ ~file.eof
       /\ lines.refused = 0 /\ lines.done = 0
  /\ (options.batch /\ pc \notin {"parse", "failure", "killed"}) =>
       lines.done + lines.refused + InFlight + file.left = lines.of
  /\ file.eof => file.left = 0 /\ file.exists
  /\ (options.batch /\ lines.refused > 0) =>
       options.ignore_input_errors \/ pc = "failure"
  /\ (options.batch /\ pc = "success") => file.eof

BatchInv == RecordsInv /\ CountInv

-----------------------------------------------------------------------------
LEMMA BatchInit == Init => BatchInv
<1> SUFFICES ASSUME Init
             PROVE  BatchInv
  OBVIOUS
<1>1. /\ options = NoOptions /\ pc = "parse"
      /\ file \in [exists : BOOLEAN, left : 0 .. MaxLines,
                   terminated : BOOLEAN, eof : {FALSE}]
      /\ lines = [of |-> file.left, refused |-> 0, done |-> 0, network |-> Null]
  BY DEF Init
<1>2. DOMAIN options = OptionNames
  BY <1>1 DEF NoOptions, OptionNames
<1>3. file.left \in Nat /\ file.eof = FALSE
  <2>1. file.left \in 0 .. MaxLines /\ file.eof \in {FALSE}
    BY <1>1
  <2>2. file.left \in Nat
    BY <2>1, MaxLinesAssumption
  <2>3. file.eof = FALSE
    BY <2>1, Zenon
  <2>4. QED
    BY <2>2, <2>3
<1>4. /\ file \in [exists : BOOLEAN, left : Nat, terminated : BOOLEAN,
                   eof : BOOLEAN]
      /\ LinesType
  BY <1>1, <1>3 DEF LinesType
<1>5. RecordsInv
  BY <1>2, <1>4 DEF RecordsInv
<1>6. CountInv
  BY <1>1, <1>3 DEF CountInv
<1>7. QED
  BY <1>5, <1>6 DEF BatchInv

\* Parsing an argument changes a value, and no name, of the options.
LEMMA ParseKeepsNames ==
  ASSUME NEW o, DOMAIN o = OptionNames, NEW opt, NEW v, Takes(o, opt, v)
  PROVE  DOMAIN ParseOption(o, opt, v) = OptionNames
<1>1. CASE opt \in DOMAIN ValuesOf
  BY <1>1 DEF ParseOption
<1>2. CASE opt \notin DOMAIN ValuesOf /\ opt \in {"input", "input_file"} \cup Switches
  BY <1>2 DEF ParseOption
<1>3. CASE /\ opt \notin DOMAIN ValuesOf
           /\ opt \notin {"input", "input_file"} \cup Switches
           /\ opt \in NetworkOptions
  BY <1>3 DEF ParseOption
<1>4. CASE /\ opt \notin DOMAIN ValuesOf
           /\ opt \notin {"input", "input_file"} \cup Switches
           /\ opt \notin NetworkOptions
  <2>1. opt \in {"fix_base58check_change_chars", "fix_base58check"}
    BY <1>4 DEF Takes, NetworkOptions
  <2>2. CASE opt = "fix_base58check_change_chars"
    BY <1>4, <2>2 DEF ParseOption
  <2>3. CASE opt = "fix_base58check"
    BY <1>4, <2>3 DEF ParseOption
  <2>4. QED
    BY <2>1, <2>2, <2>3
<1>5. QED
  BY <1>1, <1>2, <1>3, <1>4

\* What reading a text does to the counts of a batch.
LEMMA ParseTextCounts ==
  ASSUME RecordsInv, NEW t, ParseText(t)
  PROVE  /\ DOMAIN options' = OptionNames
         /\ options'.batch = options.batch
         /\ options'.ignore_input_errors = options.ignore_input_errors
         /\ \/ pc' = "check" /\ lines' = lines
            \/ /\ lines' = [lines EXCEPT !.refused = @ + 1]
               /\ IF ~options.ignore_input_errors THEN pc' = "failure"
                  ELSE IF options.batch THEN pc' = "read" ELSE pc' = "success"
<1>1. PICK d \in Decode(t) :
        /\ options' = [options EXCEPT !.network_type = d.network]
        /\ IF d.ok THEN pc' = "check" /\ lines' = lines
           ELSE Refuse /\ lines' = [lines EXCEPT !.refused = @ + 1]
  BY DEF ParseText
<1>2. /\ DOMAIN options' = OptionNames
      /\ options'.batch = options.batch
      /\ options'.ignore_input_errors = options.ignore_input_errors
  BY <1>1 DEF RecordsInv, OptionNames
<1>3. QED
  BY <1>1, <1>2 DEF Refuse

LEMMA BatchStep == BatchInv /\ [Next]_vars => BatchInv'
<1> SUFFICES ASSUME BatchInv, [Next]_vars
             PROVE  BatchInv'
  OBVIOUS
<1> USE DEF BatchInv, RecordsInv, LinesType, CountInv, InFlight, Ends
<1>1. CASE ParseArgument
  <2>1. DOMAIN options' = OptionNames
    BY <1>1, ParseKeepsNames DEF ParseArgument
  <2>2. UNCHANGED <<file, lines>> /\ pc = "parse" /\ pc' \in {"parse", "failure"}
    BY <1>1 DEF ParseArgument
  <2>3. QED
    BY <2>1, <2>2
<1>2. CASE Run
  BY <1>2 DEF Run
<1>3. CASE NothingRead
  <2>1. /\ UNCHANGED <<options, lines>> /\ pc = "read" /\ ~file.eof
        /\ ~file.exists \/ file.left = 0
        /\ file' = [file EXCEPT !.eof = SeesEnd]
    BY <1>3 DEF NothingRead
  <2>2. IF ~options.ignore_input_errors THEN pc' = "failure"
        ELSE IF options.batch THEN pc' = "read" ELSE pc' = "success"
    BY <1>3 DEF NothingRead, Refuse
  <2>3. /\ file'.left = file.left /\ file'.exists = file.exists
        /\ file'.eof = SeesEnd /\ SeesEnd \in BOOLEAN
        /\ file' \in [exists : BOOLEAN, left : Nat, terminated : BOOLEAN,
                      eof : BOOLEAN]
    BY <2>1 DEF SeesEnd
  <2>4. SeesEnd => file.left = 0 /\ file.exists
    BY <2>1 DEF SeesEnd
  <2>5. QED
    BY <2>1, <2>2, <2>3, <2>4
<1>4. CASE EndOfFile
  BY <1>4 DEF EndOfFile
<1>5. CASE ReadLine
  <2>1. /\ pc = "read" /\ options.batch /\ file.exists /\ file.left > 0
        /\ file' = [file EXCEPT !.left = @ - 1,
                                !.eof = file.left = 1 /\ ~file.terminated]
    BY <1>5 DEF ReadLine
  <2>2. PICK t \in Readable : ParseText(t)
    BY <1>5 DEF ReadLine
  <2>3. /\ file'.left = file.left - 1 /\ file'.exists
        /\ file'.eof => file.left = 1
        /\ file' \in [exists : BOOLEAN, left : Nat, terminated : BOOLEAN,
                      eof : BOOLEAN]
    <3> DEFINE eof == file.left = 1 /\ ~file.terminated
    <3>1. eof \in BOOLEAN /\ (eof => file.left = 1)
      OBVIOUS
    <3>2. file' = [file EXCEPT !.left = @ - 1, !.eof = eof]
      BY <2>1
    <3> HIDE DEF eof
    <3>3. file.left - 1 \in Nat
      BY <2>1
    <3>4. QED
      BY <2>1, <3>1, <3>2, <3>3
  <2>4. /\ DOMAIN options' = OptionNames
        /\ options'.batch = options.batch
        /\ options'.ignore_input_errors = options.ignore_input_errors
    BY <2>2, ParseTextCounts
  <2>5. CASE pc' = "check" /\ lines' = lines
    BY <2>1, <2>3, <2>4, <2>5
  <2>6. CASE /\ lines' = [lines EXCEPT !.refused = @ + 1]
             /\ pc' = IF options.ignore_input_errors THEN "read" ELSE "failure"
    BY <2>1, <2>3, <2>4, <2>6
  <2>7. QED
    BY <2>1, <2>2, <2>5, <2>6, ParseTextCounts
<1>6. CASE ReadOnce
  <2>1. UNCHANGED file /\ pc = "read" /\ ~options.batch
        /\ \E t \in Readable : ParseText(t)
    BY <1>6 DEF ReadOnce
  <2>2. /\ DOMAIN options' = OptionNames /\ ~options'.batch /\ pc' # "parse"
        /\ lines' = lines \/ lines' = [lines EXCEPT !.refused = @ + 1]
    BY <2>1, ParseTextCounts
  <2>3. LinesType'
    BY <2>2
  <2>4. QED
    BY <2>1, <2>2, <2>3
<1>7. CASE CheckInputSize
  BY <1>7 DEF CheckInputSize
<1>8. CASE ConvertInputToOutput
  BY <1>8 DEF ConvertInputToOutput
<1>9. CASE WriteOutput \/ WriteAllOutput
  <2>1. /\ UNCHANGED <<options, file>> /\ pc = "write"
        /\ AfterOutput \/ (pc' = "failure" /\ lines' = lines)
    BY <1>9 DEF WriteOutput, WriteAllOutput
  <2>2. CASE AfterOutput
    <3>1. /\ lines'.of = lines.of /\ lines'.refused = lines.refused
          /\ lines'.done = lines.done + 1
          /\ LinesType'
          /\ pc' = IF options.batch THEN "read" ELSE "success"
      BY <2>2 DEF AfterOutput
    <3>2. QED
      BY <2>1, <3>1
  <2>3. CASE pc' = "failure" /\ lines' = lines
    BY <2>1, <2>3
  <2>4. QED
    BY <2>1, <2>2, <2>3
<1>10. CASE Crash
  BY <1>10 DEF Crash
<1>11. CASE Done \/ UNCHANGED vars
  BY <1>11 DEF Done, vars
<1>12. QED
  BY <1>1, <1>2, <1>3, <1>4, <1>5, <1>6, <1>7, <1>8, <1>9, <1>10, <1>11
     DEF Next

THEOREM BatchInvariant == Spec => []BatchInv
<1>1. QED
  BY BatchInit, BatchStep, PTL DEF Spec

\* A batch of any length that ends well has read, and written or passed over,
\* every line of a file that is there (main.c:1552-1565).
THEOREM BatchComplete == Spec => []SuccessMeansAllRead
<1>1. BatchInv => SuccessMeansAllRead
  BY DEF BatchInv, RecordsInv, LinesType, CountInv, InFlight, SuccessMeansAllRead
<1>2. QED
  BY <1>1, BatchInvariant, PTL

-----------------------------------------------------------------------------
(* What is written. *)

SelfFields ==
  {"private_key", "private_compression", "private_network", "public_key",
   "public_compression", "public_network", "public_key_sha", "public_key_rmd",
   "address", "set"}

\* What every stage of the conversion leaves alone.
SameKey(r, s) ==
  /\ DOMAIN r = SelfFields
  /\ r.private_key = s.private_key
  /\ r.private_compression = s.private_compression
  /\ r.private_network = s.private_network

\* The network an address is made for.
AddressNetwork(s) ==
  IF options.network_type # Null THEN options.network_type
  ELSE s.public_network
AddressFor(network, rmd) == <<Byte(GetPublicKeyPrefix(network))>> \o rmd

-----------------------------------------------------------------------------
LEMMA AddressStage ==
  ASSUME NEW s, DOMAIN s = SelfFields, FromAddress(s).ok
  PROVE  LET r == FromAddress(s).self
         IN /\ SameKey(r, s) /\ r.public_network = s.public_network
            /\ r.public_key = s.public_key
            /\ r.public_key_sha = s.public_key_sha
            /\ r.address = s.address
            /\ r.public_key_rmd = IF Out = "public-key-rmd" THEN Tail(s.address)
                                  ELSE s.public_key_rmd
            /\ Out = "all" => r.set = s.set
            /\ Out \notin Above(Shas)
<1> USE DEF SelfFields, SameKey
<1>1. CASE Out = "public-key-rmd"
  BY <1>1 DEF FromAddress, Converted, Set, Above, Shas, Rmds
<1>2. CASE Out # "public-key-rmd"
  BY <1>2 DEF FromAddress, Converted, Impossible
<1>3. QED
  BY <1>1, <1>2

LEMMA RmdStage ==
  ASSUME NEW s, DOMAIN s = SelfFields, FromRmd(s).ok
  PROVE  LET r == FromRmd(s).self
         IN /\ SameKey(r, s)
            /\ r.public_key = s.public_key
            /\ r.public_key_sha = s.public_key_sha
            /\ r.public_key_rmd = s.public_key_rmd
            /\ Asked(Rmds) =>
                 /\ AddressNetwork(s) # Null
                 /\ r.address = AddressFor(AddressNetwork(s), s.public_key_rmd)
            /\ Out = "all" => r.set = s.set \cup Rmds
            /\ Out \notin Above(Shas)
            /\ options.network_type = Null => r.public_network = s.public_network
<1> DEFINE n == AddressNetwork(s)
           made == [Set(s, {"address"}) EXCEPT
                      !.public_network = n,
                      !.address = AddressFor(n, s.public_key_rmd)]
<1>1. CASE Asked(Rmds)
  <2>1. n # Null /\ FromRmd(s) = FromAddress(made)
    <3>1. Out # "public-key-rmd" /\ Out \notin Above(Shas)
      BY <1>1 DEF Asked, Rmds, Shas, Above
    <3>2. n # Null
      BY <1>1, <3>1 DEF FromRmd, AddressNetwork, Impossible
    <3>3. FromRmd(s) = FromAddress(made)
      BY <1>1, <3>1, <3>2 DEF FromRmd, AddressNetwork, AddressFor
    <3>4. QED
      BY <3>2, <3>3
  <2>2. DOMAIN made = SelfFields /\ Out # "public-key-rmd"
    BY <1>1 DEF Set, SelfFields, Asked, Rmds
  <2>3. /\ SameKey(made, s) /\ made.public_network = n
        /\ made.public_key = s.public_key
        /\ made.public_key_sha = s.public_key_sha
        /\ made.public_key_rmd = s.public_key_rmd
        /\ made.address = AddressFor(n, s.public_key_rmd)
        /\ made.set = s.set \cup Rmds
    BY <2>2 DEF Set, SelfFields, SameKey, Rmds
  <2> HIDE DEF made
  <2>4. QED
    BY <2>1, <2>2, <2>3, AddressStage DEF SameKey, AddressNetwork
<1>2. CASE Out = "public-key-rmd"
  BY <1>2 DEF FromRmd, Converted, SameKey, Asked, Rmds, Above, Shas
<1>3. CASE ~Asked(Rmds) /\ Out # "public-key-rmd"
  <2>1. FromRmd(s) = FromAddress(s) /\ Out \notin Above(Shas)
    BY <1>3 DEF FromRmd, Impossible
  <2>2. QED
    BY <1>3, <2>1, AddressStage DEF Asked, Rmds
<1>4. QED
  BY <1>1, <1>2, <1>3

LEMMA ShaStage ==
  ASSUME NEW s, DOMAIN s = SelfFields, FromSha(s).ok
  PROVE  LET r == FromSha(s).self
         IN /\ SameKey(r, s)
            /\ r.public_key = s.public_key
            /\ r.public_key_sha = s.public_key_sha
            /\ Asked(Shas) => r.public_key_rmd = Rmd(s.public_key_sha)
            /\ Asked(Rmds) =>
                 /\ AddressNetwork(s) # Null
                 /\ r.address = AddressFor(AddressNetwork(s),
                                           Rmd(s.public_key_sha))
            /\ Out = "all" => r.set = s.set \cup Shas
            /\ Out \notin Above(Publics)
            /\ options.network_type = Null => r.public_network = s.public_network
<1> DEFINE made == [Set(s, {"public-key-rmd"}) EXCEPT
                      !.public_key_rmd = Rmd(s.public_key_sha)]
<1>1. CASE Asked(Shas)
  <2>1. FromSha(s) = FromRmd(made)
    BY <1>1 DEF FromSha, Asked, Shas, Rmds, Above, Publics
  <2>2. DOMAIN made = SelfFields
    BY DEF Set, SelfFields
  <2>3. /\ SameKey(made, s) /\ made.public_network = s.public_network
        /\ made.public_key = s.public_key
        /\ made.public_key_sha = s.public_key_sha
        /\ made.public_key_rmd = Rmd(s.public_key_sha)
        /\ made.set = s.set \cup {"public-key-rmd"}
    BY <2>2 DEF Set, SelfFields, SameKey
  <2> HIDE DEF made
  <2>4. /\ AddressNetwork(made) = AddressNetwork(s)
        /\ Out \notin Above(Publics)
    BY <1>1, <2>3 DEF AddressNetwork, Asked, Shas, Rmds, Above, Publics
  <2>5. QED
    BY <2>1, <2>2, <2>3, <2>4, RmdStage DEF SameKey, Shas
<1>2. CASE Out = "public-key-sha"
  BY <1>2 DEF FromSha, Converted, SameKey, Asked, Rmds, Above, Shas, Publics
<1>3. CASE ~Asked(Shas) /\ Out # "public-key-sha"
  <2>1. FromSha(s) = FromRmd(s) /\ Out \notin Above(Publics)
    BY <1>3 DEF FromSha, Impossible
  <2>2. QED
    BY <1>3, <2>1, RmdStage DEF Asked, Rmds, Shas
<1>4. QED
  BY <1>1, <1>2, <1>3

LEMMA PublicStage ==
  ASSUME NEW s, DOMAIN s = SelfFields, FromPublic(s).ok
  PROVE  LET r == FromPublic(s).self
         IN /\ SameKey(r, s)
            /\ r.public_key = s.public_key
            /\ Asked(Publics) => r.public_key_sha = Sha(s.public_key)
            /\ Asked(Shas) => r.public_key_rmd = Rmd(Sha(s.public_key))
            /\ Asked(Rmds) =>
                 /\ AddressNetwork(s) # Null
                 /\ r.address = AddressFor(AddressNetwork(s),
                                           Rmd(Sha(s.public_key)))
            /\ Out = "all" => r.set = s.set \cup Publics
            /\ Out \notin Above(Privates)
            /\ options.network_type = Null => r.public_network = s.public_network
<1> DEFINE made == [Set(s, {"public-key-sha"}) EXCEPT
                      !.public_key_sha = Sha(s.public_key)]
<1>1. CASE Asked(Publics)
  <2>1. FromPublic(s) = FromSha(made)
    BY <1>1 DEF FromPublic, Asked, Publics, Shas, Rmds, Above, Privates
  <2>2. DOMAIN made = SelfFields
    BY DEF Set, SelfFields
  <2>3. /\ SameKey(made, s) /\ made.public_network = s.public_network
        /\ made.public_key = s.public_key
        /\ made.public_key_sha = Sha(s.public_key)
        /\ made.set = s.set \cup {"public-key-sha"}
    BY <2>2 DEF Set, SelfFields, SameKey
  <2> HIDE DEF made
  <2>4. /\ AddressNetwork(made) = AddressNetwork(s)
        /\ Out \notin Above(Privates)
    BY <1>1, <2>3
       DEF AddressNetwork, Asked, Shas, Rmds, Above, Publics, Privates
  <2>5. QED
    BY <2>1, <2>2, <2>3, <2>4, ShaStage DEF SameKey, Publics
<1>2. CASE Out = "public-key"
  BY <1>2 DEF FromPublic, Converted, SameKey, Asked, Rmds, Above, Shas, Publics,
              Privates
<1>3. CASE ~Asked(Publics) /\ Out # "public-key"
  <2>1. FromPublic(s) = FromSha(s) /\ Out \notin Above(Privates)
    BY <1>3 DEF FromPublic, Impossible
  <2>2. QED
    BY <1>3, <2>1, ShaStage DEF Asked, Rmds, Shas, Publics
<1>4. QED
  BY <1>1, <1>2, <1>3

\* The public key of the private key of a record.
KeyPoint(s) == PublicKey(s.private_key, s.private_compression)

LEMMA WIFStage ==
  ASSUME NEW s, DOMAIN s = SelfFields, FromWIF(s).ok
  PROVE  LET r == FromWIF(s).self
         IN /\ SameKey(r, s)
            /\ Asked(Privates) => /\ s.private_compression # "empty"
                                  /\ r.public_key = KeyPoint(s)
            /\ Asked(Publics) => r.public_key_sha = Sha(KeyPoint(s))
            /\ Asked(Shas) => r.public_key_rmd = Rmd(Sha(KeyPoint(s)))
            /\ Asked(Rmds) =>
                 r.address =
                   AddressFor(IF options.network_type # Null
                              THEN options.network_type ELSE s.private_network,
                              Rmd(Sha(KeyPoint(s))))
            /\ Out = "all" => r.set = s.set \cup Privates \cup {"private-key"}
<1> DEFINE t == IF Asked(Privates \cup {"private-key"})
                THEN Set(s, {"private-key"}) ELSE s
           made == [Set(t, {"public-key"}) EXCEPT
                      !.public_key = KeyPoint(s),
                      !.public_compression = s.private_compression,
                      !.public_network = s.private_network]
<1>1. /\ SameKey(t, s)
      /\ Out = "all" => t.set = s.set \cup {"private-key"}
  BY DEF Set, SameKey, SelfFields, Asked
<1>2. CASE Asked(Privates)
  <2>1. /\ Out \notin {"private-key-wif", "private-key"}
        /\ Out = "all" \/ Out \in Privates
    BY <1>2 DEF Asked, Privates, Publics, Shas, Rmds
  <2>2. /\ s.private_compression # "empty"
        /\ FromWIF(s) = FromPublic(made)
    BY <1>2, <2>1 DEF FromWIF, Impossible, MakesPublicKey, KeyPoint
  <2> HIDE DEF t
  <2>3. DOMAIN made = SelfFields
    BY <1>1 DEF Set, SelfFields, SameKey
  <2>4. /\ SameKey(made, s) /\ made.public_network = s.private_network
        /\ made.public_key = KeyPoint(s)
        /\ made.set = t.set \cup {"public-key"}
    BY <1>1, <2>3 DEF Set, SelfFields, SameKey
  <2> HIDE DEF made
  <2>5. AddressNetwork(made) = IF options.network_type # Null
                               THEN options.network_type ELSE s.private_network
    BY <2>4 DEF AddressNetwork
  <2>6. QED
    BY <1>1, <2>2, <2>3, <2>4, <2>5, PublicStage DEF SameKey, Privates
<1>3. CASE Out \in {"private-key-wif", "private-key"}
  <2>1. FromWIF(s).self = t /\ ~Asked(Privates)
    BY <1>3 DEF FromWIF, Converted, Asked, Privates, Publics, Shas, Rmds
  <2>2. ~Asked(Publics) /\ ~Asked(Shas) /\ ~Asked(Rmds) /\ Out # "all"
    BY <1>3 DEF Asked, Publics, Shas, Rmds
  <2> HIDE DEF t
  <2>3. QED
    BY <1>1, <2>1, <2>2
<1>4. CASE ~Asked(Privates) /\ Out \notin {"private-key-wif", "private-key"}
  <2>1. FromWIF(s) = FromPublic(t)
    BY <1>4 DEF FromWIF
  <2>2. ~Asked(Publics) /\ ~Asked(Shas) /\ ~Asked(Rmds) /\ Out # "all"
    BY <1>4 DEF Asked, Privates, Publics, Shas, Rmds
  <2> HIDE DEF t
  <2>3. QED
    BY <1>1, <1>4, <2>1, <2>2, PublicStage DEF SameKey
<1>5. QED
  BY <1>2, <1>3, <1>4

-----------------------------------------------------------------------------
KeyTypes == {"mini-private-key", "private-key", "private-key-wif"}

\* The types an input leads to.
Reached ==
  CASE options.input_type \in KeyTypes ->
         Privates \cup {"private-key", "private-key-wif"}
    [] Given("public-key") -> Privates
    [] Given("public-key-sha") -> Publics
    [] Given("public-key-rmd") -> Shas
    [] OTHER -> Rmds

\* The types of a line's outputs that are made of the line.
Due ==
  (IF Out = "all" THEN Reached ELSE {Out} \ {"address-checksum"}) \cup
  (IF Given("address") THEN {"address-checksum"} ELSE {})

\* What the line means by the network that is among the options now.
In == input.bytes
PrivatePrefixNow == PrivatePrefixOf(In, options.network_type)
PublicPrefixNow == PublicPrefixOf(In, options.network_type)
AddressNow == AddressOf(In, options.network_type)
MeantNow(type) == Meant(type, In, options.network_type)

\* What is written, by that network.
WrittenNow ==
  \A o \in written :
    /\ o.text.format = "bech32" => o.text.hrp = Type(options.network_type).hrp
    /\ (o.type = "address-checksum" => Given("address")) =>
         o.text.bytes = IF o.text.format = "bech32" THEN Tail(MeantNow(o.type))
                        ELSE MeantNow(o.type)

\* Loaded from the input: a key, its compression unless nobody knows it, and
\* the prefixes of its network; or one of the forms that follow it.
KeyLoaded ==
  /\ self.private_key = KeyOf(In)
  /\ self.private_compression = CompressionOf(In) \/
       (self.private_compression = "empty" /\ CompressionOf(In) = "auto")
  /\ Byte(GetPrivateKeyPrefix(self.private_network)) = PrivatePrefixNow
  /\ Byte(GetPublicKeyPrefix(IF options.network_type # Null
                             THEN options.network_type
                             ELSE self.private_network)) = PublicPrefixNow
FormLoaded ==
  /\ options.input_type \in KeyTypes => KeyLoaded
  /\ Given("public-key") => self.public_key = In
  /\ Given("public-key-sha") => self.public_key_sha = In
  /\ Given("public-key-rmd") => self.public_key_rmd = In
  /\ Given("address") => self.address = In

\* What is due comes out as what the line means.
DueIsMeant == \A type \in Due : OutputRaw(type) = MeantNow(type)

Running == {"read", "check", "convert", "write"}

\* From line to line: the types asked for are there, the compression is that
\* of the command line where the input has none, the record keeps no network
\* that an address could be given, and no flag is set that this line does not
\* set too.
BetweenLines ==
  /\ options.input_type \in InputTypes /\ Out \in OutputTypes
  /\ Given("private-key") =>
       self.private_compression =
         IF options.public_key_compression = "auto" THEN "empty"
         ELSE options.public_key_compression
  /\ (options.network_type = Null /\ options.input_type \notin KeyTypes) =>
       self.public_network = Null
  /\ Out = "all" => self.set \subseteq Reached

ConversionInv ==
  /\ options \in OptionsType
  /\ pc \notin Ended => DOMAIN self = SelfFields
  /\ pc = "parse" =>
       /\ self.set = {} /\ self.private_compression = "empty"
       /\ self.public_network = Null /\ written = {}
  /\ pc \in Running => BetweenLines
  /\ (pc = "check" /\ Given("private-key-wif")
        /\ Size(In) \in Sizes["private-key-wif"]) => In[1] = Byte(In[1][3])
  /\ pc = "convert" => FormLoaded
  /\ pc = "write" => DueIsMeant
  /\ WrittenNow

-----------------------------------------------------------------------------
LEMMA ConversionInit == Init => ConversionInv
<1> SUFFICES ASSUME Init
             PROVE  ConversionInv
  OBVIOUS
<1>1. options = NoOptions /\ pc = "parse" /\ written = {}
  BY DEF Init
<1>2. options \in OptionsType
  BY <1>1 DEF NoOptions, OptionsType, DefaultChangeChars, Compressions
<1>3. /\ DOMAIN self = SelfFields
      /\ self.set = {} /\ self.private_compression = "empty"
      /\ self.public_network = Null
  BY DEF Init, SelfFields
<1>4. QED
  BY <1>1, <1>2, <1>3 DEF ConversionInv, Running, Ended, WrittenNow

\* Every option a command line sets is one of its values.
LEMMA ParseOptionType ==
  ASSUME NEW o \in OptionsType, NEW opt, NEW v, Takes(o, opt, v)
  PROVE  ParseOption(o, opt, v) \in OptionsType
<1>1. CASE opt \in DOMAIN ValuesOf
  <2>1. ParseOption(o, opt, v) = [o EXCEPT ![opt] = v]
    BY <1>1 DEF ParseOption, ValuesOf, Switches, NetworkOptions
  <2>2. /\ opt \in {"input_type", "output_type", "input_format", "output_format",
                    "public_key_compression"}
        /\ v \in ValuesOf[opt]
    BY <1>1 DEF Takes, ValuesOf, NetworkOptions, Switches
  <2>3. QED
    BY <2>1, <2>2 DEF ValuesOf, OptionsType
<1>2. CASE opt \in {"input", "input_file"} \cup Switches
  BY <1>2 DEF ParseOption, ValuesOf, Switches, NetworkOptions, OptionsType
<1>3. CASE opt \in NetworkOptions
  <2>1. ParseOption(o, opt, v) = [o EXCEPT !.network_type = GetNetworkTypeByName(v)]
    BY <1>3 DEF ParseOption, ValuesOf, Switches, NetworkOptions
  <2>2. GetNetworkTypeByName(v) \in NetworkNames \cup {Null}
    BY FoundIsNetwork, Table DEF GetNetworkTypeByName
  <2>3. QED
    BY <2>1, <2>2 DEF OptionsType
<1>4. CASE opt = "fix_base58check_change_chars"
  <2>1. Number(v) \in 0 .. DefaultChangeChars
    BY DEF Number, DefaultChangeChars
  <2>2. QED
    BY <1>4, <2>1
       DEF ParseOption, ValuesOf, Switches, NetworkOptions, OptionsType
<1>5. CASE opt = "fix_base58check"
  <2>1. ParseOption(o, opt, v) =
          [o EXCEPT !.fix_base58 = TRUE,
                    !.fix_base58_change_chars = DefaultChangeChars]
    BY <1>5 DEF ParseOption, ValuesOf, Switches, NetworkOptions
  <2>2. DefaultChangeChars \in 0 .. DefaultChangeChars
    BY DEF DefaultChangeChars
  <2>3. QED
    BY <2>1, <2>2 DEF OptionsType
<1>6. QED
  BY <1>1, <1>2, <1>3, <1>4, <1>5 DEF Takes

\* What is made of a text: bytes it may be read as, and a network, which once
\* known stays.
LEMMA DecodeYields ==
  ASSUME options \in OptionsType, NEW t \in Texts, NEW d \in Decode(t)
  PROVE  /\ d.network \in NetworkNames \cup {Null}
         /\ options.network_type # Null => d.network = options.network_type
         /\ d.ok => t.bytes # <<>> /\ d.bytes \in Readings(t)
<1> DEFINE old == options.network_type
           Yields(e) == /\ e.network = old
                        /\ e.ok => t.bytes # <<>> /\ e.bytes \in Readings(t)
<1>1. old \in NetworkNames \cup {Null}
  BY DEF OptionsType
<1>2. CASE t.bytes = <<>>
  BY <1>1, <1>2 DEF Decode, NotDecoded
<1>3. CASE t.bytes # <<>> /\ t.format = "base58check"
  <2>1. Readings(t) = {t.bytes, LookAlike(t.bytes), t.bytes \o Checksum(t.bytes)}
    BY <1>3 DEF Readings
  <2>2. Yields(NotDecoded(old)) /\ \A bytes \in Readings(t) : Yields(Decoded(bytes, old))
    BY <1>3 DEF NotDecoded, Decoded
  <2>3. \A e \in FixedBase58Check(t) : Yields(e)
    <3> HIDE DEF Yields
    <3>1. QED
      BY <2>1, <2>2 DEF FixedBase58Check
  <2>4. \A e \in DecodeBase58Check(t) : Yields(e)
    <3> HIDE DEF Yields
    <3>1. QED
      BY <2>1, <2>2, <2>3 DEF DecodeBase58Check
  <2>5. Yields(d)
    <3> HIDE DEF Yields
    <3>1. QED
      BY <1>3, <2>1, <2>2, <2>4 DEF Decode
  <2>6. QED
    BY <1>1, <2>5
<1>4. CASE t.bytes # <<>> /\ t.format = "bech32" /\ t.format = options.input_format
  <2>1. d \in DecodeBech32(t)
    BY <1>4 DEF Decode
  <2>2. GetNetworkTypeByHrp(t.hrp) \in NetworkNames \cup {Null}
    BY FoundIsNetwork, Table DEF GetNetworkTypeByHrp
  <2>3. PICK n \in NetworkNames \cup {Null} :
          /\ old # Null => n = old
          /\ \/ d = NotDecoded(n)
             \/ /\ n # Null
                /\ d = Decoded(<<Byte(GetPublicKeyPrefix(n))>> \o t.bytes, n)
    BY <1>1, <2>1, <2>2 DEF DecodeBech32
  <2>4. n # Null => <<Byte(GetPublicKeyPrefix(n))>> \o t.bytes \in Readings(t)
    BY <1>4 DEF Readings
  <2>5. /\ d.network = n
        /\ d.ok => n # Null /\ d.bytes = <<Byte(GetPublicKeyPrefix(n))>> \o t.bytes
    BY <2>3 DEF NotDecoded, Decoded
  <2>6. QED
    BY <1>4, <2>3, <2>4, <2>5
<1>5. CASE /\ t.bytes # <<>> /\ t.format # "base58check"
           /\ t.format # options.input_format \/ t.format # "bech32"
  <2>1. d = NotDecoded(old) \/ (t.format # "bech32" /\ d = Decoded(t.bytes, old))
    BY <1>5 DEF Decode
  <2>2. t.format # "bech32" => t.bytes \in Readings(t)
    BY <1>5 DEF Readings
  <2>3. QED
    BY <1>1, <1>5, <2>1, <2>2 DEF NotDecoded, Decoded
<1>6. QED
  BY <1>2, <1>3, <1>4, <1>5

LEMMA ParseTextConverts ==
  ASSUME ConversionInv, pc = "read", NEW t \in Texts, ParseText(t)
  PROVE  ConversionInv'
<1>1. PICK d \in Decode(t) :
        /\ options' = [options EXCEPT !.network_type = d.network]
        /\ IF d.ok THEN pc' = "check" /\ input' = [bytes |-> d.bytes, hrp |-> t.hrp]
           ELSE Refuse
  BY DEF ParseText
<1>2. self' = self /\ written' = {}
  BY DEF ParseText
<1>3. /\ d.network \in NetworkNames \cup {Null}
      /\ options.network_type # Null => d.network = options.network_type
      /\ d.ok => t.bytes # <<>> /\ d.bytes \in Readings(t)
  BY DecodeYields DEF ConversionInv
<1>4. options' \in OptionsType
  BY <1>1, <1>3 DEF ConversionInv, OptionsType
<1>5. /\ options'.input_type = options.input_type
      /\ options'.output_type = options.output_type
      /\ options'.public_key_compression = options.public_key_compression
      /\ options'.network_type = d.network
  BY <1>1 DEF ConversionInv, OptionsType
<1>6. BetweenLines
  BY DEF ConversionInv, Running
<1>7. BetweenLines'
  BY <1>2, <1>3, <1>5, <1>6 DEF BetweenLines, Given, Out, Reached
<1>8. pc' = "check" \/ pc' \in {"failure", "read", "success"}
  BY <1>1 DEF Refuse
<1>9. pc' = "check" /\ Size(In)' \in Sizes["private-key-wif"]
        => (In[1] = Byte(In[1][3]))'
  <2>1. pc' = "check" => d.ok
    BY <1>1 DEF Refuse
  <2>2. d.ok => In' = d.bytes
    BY <1>1 DEF In
  <2>3. QED
    BY <1>3, <2>1, <2>2, FieldsAssumption DEF StartsWithByte
<1>10. QED
  BY <1>2, <1>4, <1>7, <1>8, <1>9 DEF ConversionInv, Ended, WrittenNow

\* What is meant by an output is a matter of the options and the input.
LEMMA MeantUnchanged ==
  ASSUME UNCHANGED <<options, input>>
  PROVE  /\ \A type : MeantNow(type)' = MeantNow(type)
         /\ UNCHANGED written => (WrittenNow <=> WrittenNow')
<1>1. UNCHANGED <<KeyOf(In), CompressionOf(In), In>>
  BY DEF KeyOf, CompressionOf, Given, In
<1>2. UNCHANGED <<PublicOf(In), ShaOf(In)>>
  BY <1>1 DEF PublicOf, ShaOf, Given
<1>3. UNCHANGED RmdOf(In)
  BY <1>1, <1>2 DEF RmdOf, Given
<1>4. UNCHANGED <<PrivatePrefixNow, PublicPrefixNow>>
  BY <1>1
     DEF NetworkOf, PrivatePrefixOf, PrivatePrefixNow, PublicPrefixOf,
         PublicPrefixNow, Given
<1>5. UNCHANGED AddressNow
  BY <1>1, <1>3, <1>4 DEF AddressOf, AddressNow, PublicPrefixNow, Given
<1>6. \A type : MeantNow(type)' = MeantNow(type)
  BY <1>1, <1>2, <1>3, <1>4, <1>5
     DEF Meant, MeantNow, PrivatePrefixNow, AddressNow
<1>7. QED
  BY <1>6 DEF WrittenNow, Given

LEMMA ReachedFrom ==
  ASSUME options.input_type \in InputTypes
  PROVE  /\ options.input_type \in KeyTypes =>
              Reached = Privates \cup {"private-key", "private-key-wif"}
         /\ Given("public-key") => Reached = Privates
         /\ Given("public-key-sha") => Reached = Publics
         /\ Given("public-key-rmd") => Reached = Shas
         /\ Given("address") => Reached = Rmds
BY DEF Reached, Given, KeyTypes

\* A key is put where the conversion begins, with what is known of it.
LEMMA KeyIsLoaded ==
  ASSUME DOMAIN self = SelfFields, BetweenLines, Acceptable(In),
         options.input_type \in KeyTypes,
         Given("private-key-wif") => In[1] = Byte(In[1][3])
  PROVE  LET r == Loaded(In)
         IN /\ DOMAIN r = SelfFields
            /\ r.set \subseteq self.set \cup {"private-key", "private-key-wif"}
            /\ r.private_key = KeyOf(In)
            /\ r.private_compression = CompressionOf(In) \/
                 (r.private_compression = "empty" /\ CompressionOf(In) = "auto")
            /\ Byte(GetPrivateKeyPrefix(r.private_network)) = PrivatePrefixNow
            /\ Byte(GetPublicKeyPrefix(IF options.network_type # Null
                                       THEN options.network_type
                                       ELSE r.private_network)) = PublicPrefixNow
            /\ Given("private-key") =>
                 r.private_compression = self.private_compression
<1> DEFINE type == options.input_type
<1>1. CASE type = "mini-private-key"
  <2>1. Loaded(In) = LoadMini(In)
    BY <1>1 DEF Loaded
  <2>2. /\ DOMAIN LoadMini(In) = SelfFields
        /\ LoadMini(In).set = self.set \cup {"private-key", "private-key-wif"}
        /\ LoadMini(In).private_key = Sha(In)
        /\ LoadMini(In).private_compression = "uncompressed"
        /\ LoadMini(In).private_network = NetworkOf(options.network_type)
    BY DEF LoadMini, Set, SelfFields, NetworkOf
  <2>3. /\ KeyOf(In) = Sha(In) /\ CompressionOf(In) = "uncompressed"
        /\ PrivatePrefixNow =
              Byte(GetPrivateKeyPrefix(NetworkOf(options.network_type)))
        /\ PublicPrefixNow =
              Byte(GetPublicKeyPrefix(NetworkOf(options.network_type)))
    BY <1>1
       DEF KeyOf, CompressionOf, PrivatePrefixOf, PrivatePrefixNow,
           PublicPrefixOf, PublicPrefixNow, Given
  <2>4. options.network_type # Null =>
          NetworkOf(options.network_type) = options.network_type
    BY DEF NetworkOf
  <2>5. QED
    BY <1>1, <2>1, <2>2, <2>3, <2>4 DEF Given
<1>2. CASE type = "private-key"
  <2>1. Loaded(In) = LoadPrivateKey(In) /\ options.network_type # Null
    BY <1>2 DEF Loaded, Acceptable
  <2>2. /\ DOMAIN LoadPrivateKey(In) = SelfFields
        /\ LoadPrivateKey(In).set = self.set \cup {"private-key"}
        /\ LoadPrivateKey(In).private_key = In
        /\ LoadPrivateKey(In).private_compression = self.private_compression
        /\ LoadPrivateKey(In).private_network = options.network_type
    BY DEF LoadPrivateKey, Set, SelfFields
  <2>3. /\ KeyOf(In) = In /\ CompressionOf(In) = options.public_key_compression
        /\ PrivatePrefixNow =
              Byte(GetPrivateKeyPrefix(NetworkOf(options.network_type)))
        /\ PublicPrefixNow =
              Byte(GetPublicKeyPrefix(NetworkOf(options.network_type)))
    BY <1>2
       DEF KeyOf, CompressionOf, PrivatePrefixOf, PrivatePrefixNow,
           PublicPrefixOf, PublicPrefixNow, Given
  <2>4. NetworkOf(options.network_type) = options.network_type
    BY <2>1 DEF NetworkOf
  <2>5. self.private_compression = CompressionOf(In) \/
          (self.private_compression = "empty" /\ CompressionOf(In) = "auto")
    BY <1>2, <2>3 DEF BetweenLines, Given
  <2>6. QED
    BY <2>1, <2>2, <2>3, <2>4, <2>5
<1>3. CASE type = "private-key-wif"
  <2> DEFINE n == GetNetworkTypeByPrivateKeyPrefix(In[1][3])
  <2>1. /\ Loaded(In) = LoadWIF(In)
        /\ Size(In) \in Sizes["private-key-wif"] /\ n # Null
    BY <1>3 DEF Loaded, Acceptable
  <2>2. Size(In) \in {33, 34}
    BY <2>1 DEF Sizes, InputTypes
  <2>3. /\ DOMAIN LoadWIF(In) = SelfFields
        /\ LoadWIF(In).set = self.set \cup {"private-key-wif"}
        /\ LoadWIF(In).private_key = <<In[2]>>
        /\ LoadWIF(In).private_compression =
              IF Size(In) = 33 THEN "uncompressed" ELSE "compressed"
        /\ LoadWIF(In).private_network = n
    BY DEF LoadWIF, Set, SelfFields
  <2>4. /\ KeyOf(In) = <<In[2]>> /\ PrivatePrefixNow = In[1]
        /\ CompressionOf(In) = IF Size(In) = 34 THEN "compressed" ELSE "uncompressed"
        /\ PublicPrefixNow = IF options.network_type = Null
                            THEN Byte(In[1][3] - 128)
                            ELSE Byte(GetPublicKeyPrefix(options.network_type))
    BY <1>3
       DEF KeyOf, CompressionOf, PrivatePrefixOf, PrivatePrefixNow,
           PublicPrefixOf, PublicPrefixNow, Given, NetworkOf
  <2>5. /\ GetPrivateKeyPrefix(n) = In[1][3]
        /\ GetPublicKeyPrefix(n) = In[1][3] - 128
    BY <2>1, PrefixFound
  <2>6. Given("private-key-wif") /\ ~Given("private-key")
    BY <1>3 DEF Given
  <2> HIDE DEF n
  <2>7. QED
    BY <2>1, <2>2, <2>3, <2>4, <2>5, <2>6
<1>4. QED
  BY <1>1, <1>2, <1>3 DEF KeyTypes

\* A hash, a public key or an address is put where the conversion begins.
LEMMA FormIsLoaded ==
  ASSUME DOMAIN self = SelfFields, BetweenLines,
         options.input_type \notin KeyTypes
  PROVE  LET r == Loaded(In)
         IN /\ DOMAIN r = SelfFields
            /\ Out = "all" => r.set \subseteq Reached
            /\ r.public_network = self.public_network
            /\ Given("public-key") => r.public_key = In
            /\ Given("public-key-sha") => r.public_key_sha = In
            /\ Given("public-key-rmd") => r.public_key_rmd = In
            /\ Given("address") => r.address = In
<1>1. options.input_type \in InputTypes
  BY DEF BetweenLines
<1>2. Out = "all" => self.set \subseteq Reached
  BY DEF BetweenLines
<1>3. CASE Given("public-key")
  BY <1>1, <1>2, <1>3, ReachedFrom
     DEF Loaded, LoadPublicKey, Set, SelfFields, Given, Privates
<1>4. CASE Given("public-key-sha")
  BY <1>1, <1>2, <1>4, ReachedFrom
     DEF Loaded, Set, SelfFields, Given, Publics
<1>5. CASE Given("public-key-rmd")
  BY <1>1, <1>2, <1>5, ReachedFrom DEF Loaded, Set, SelfFields, Given, Shas
<1>6. CASE Given("address")
  BY <1>1, <1>2, <1>6, ReachedFrom DEF Loaded, Set, SelfFields, Given, Rmds
<1>7. QED
  BY <1>1, <1>3, <1>4, <1>5, <1>6 DEF Given, InputTypes, KeyTypes

LEMMA CheckConverts ==
  ASSUME ConversionInv, CheckInputSize
  PROVE  ConversionInv'
<1>1. /\ pc = "check" /\ UNCHANGED <<options, input, written>>
      /\ \/ Acceptable(In) /\ self' = Loaded(In) /\ pc' = "convert"
         \/ self' = self /\ pc' = "failure"
  BY DEF CheckInputSize, Ends, In
<1>2. BetweenLines /\ DOMAIN self = SelfFields /\ options \in OptionsType
  BY <1>1 DEF ConversionInv, Running, Ended
<1>3. WrittenNow'
  BY <1>1, MeantUnchanged DEF ConversionInv
<1>4. CASE self' = self /\ pc' = "failure"
  BY <1>1, <1>2, <1>3, <1>4 DEF ConversionInv, Running, Ended
<1>5. CASE Acceptable(In) /\ self' = Loaded(In) /\ pc' = "convert"
  <2>1. Out = "all" => self.set \subseteq Reached
    BY <1>2 DEF BetweenLines
  <2>2. Given("private-key-wif") => In[1] = Byte(In[1][3])
    BY <1>1, <1>5 DEF ConversionInv, Acceptable, Given
  <2>3. CASE options.input_type \in KeyTypes
    <3>1. Reached = Privates \cup {"private-key", "private-key-wif"}
      BY <1>2, <2>3, ReachedFrom DEF BetweenLines
    <3>2. BetweenLines'
      BY <1>1, <1>2, <1>5, <2>1, <2>2, <2>3, <3>1, KeyIsLoaded
         DEF BetweenLines, Given, Out, Reached
    <3>3. UNCHANGED <<KeyOf(In), CompressionOf(In), PrivatePrefixNow, PublicPrefixNow>>
      BY <1>1
         DEF KeyOf, CompressionOf, PrivatePrefixOf, PrivatePrefixNow,
             PublicPrefixOf, PublicPrefixNow, Given, In, NetworkOf
    <3>4. KeyLoaded'
      BY <1>1, <1>2, <1>5, <2>2, <2>3, <3>3, KeyIsLoaded DEF KeyLoaded
    <3>5. FormLoaded'
      BY <1>1, <2>3, <3>4 DEF FormLoaded, Given, KeyTypes
    <3>6. DOMAIN self' = SelfFields
      BY <1>2, <1>5, <2>2, <2>3, KeyIsLoaded
    <3>7. QED
      BY <1>1, <1>2, <1>3, <1>5, <3>2, <3>5, <3>6 DEF ConversionInv, Running
  <2>4. CASE options.input_type \notin KeyTypes
    <3>1. BetweenLines'
      BY <1>1, <1>2, <1>5, <2>4, FormIsLoaded
         DEF BetweenLines, Given, Out, Reached, KeyTypes
    <3>2. FormLoaded'
      BY <1>1, <1>2, <1>5, <2>4, FormIsLoaded DEF FormLoaded, Given, In
    <3>3. DOMAIN self' = SelfFields
      BY <1>2, <1>5, <2>4, FormIsLoaded
    <3>4. QED
      BY <1>1, <1>2, <1>3, <1>5, <3>1, <3>2, <3>3 DEF ConversionInv, Running
  <2>5. QED
    BY <2>3, <2>4
<1>6. QED
  BY <1>1, <1>4, <1>5

-----------------------------------------------------------------------------
\* What is due has been made of the input, and nothing else has been flagged.
Derived(r) ==
  /\ DOMAIN r = SelfFields
  /\ Out = "all" => r.set \subseteq Reached
  /\ Given("private-key") => r.private_compression = self.private_compression
  /\ (options.network_type = Null /\ options.input_type \notin KeyTypes) =>
       r.public_network = self.public_network
  /\ Due \cap {"private-key", "private-key-wif"} # {} => r.private_key = KeyOf(In)
  /\ "private-key-wif" \in Due =>
       /\ r.private_compression = CompressionOf(In) \/
            (r.private_compression = "empty" /\ CompressionOf(In) = "auto")
       /\ Byte(GetPrivateKeyPrefix(r.private_network)) = PrivatePrefixNow
  /\ "public-key" \in Due => r.public_key = PublicOf(In)
  /\ "public-key-sha" \in Due => r.public_key_sha = ShaOf(In)
  /\ "public-key-rmd" \in Due => r.public_key_rmd = RmdOf(In)
  /\ Due \cap {"address", "address-checksum"} # {} => r.address = AddressNow

LEMMA KeyConverts ==
  ASSUME DOMAIN self = SelfFields, BetweenLines, KeyLoaded,
         options.input_type \in KeyTypes, Conversion.ok
  PROVE  Derived(Conversion.self)
<1> DEFINE r == Conversion.self
           others == {"public-key", "public-key-sha", "public-key-rmd", "address"}
<1>1. /\ Reached = Privates \cup {"private-key", "private-key-wif"}
      /\ Given("address") = FALSE /\ Given("public-key") = FALSE
      /\ Given("public-key-sha") = FALSE /\ Given("public-key-rmd") = FALSE
  BY ReachedFrom DEF BetweenLines, Given, KeyTypes
<1>2. Out = "all" => self.set \subseteq Reached
  BY DEF BetweenLines
<1>3. /\ "address-checksum" \notin Due
      /\ "address" \in Due => Asked(Rmds)
      /\ "public-key-rmd" \in Due => Asked(Shas)
      /\ "public-key-sha" \in Due => Asked(Publics)
      /\ "public-key" \in Due => Asked(Privates)
  BY <1>1 DEF Due, Asked, Rmds, Shas, Publics, Privates
<1>4. /\ Asked(Rmds) => Asked(Shas)
      /\ Asked(Shas) => Asked(Publics)
      /\ Asked(Publics) => Asked(Privates)
  BY DEF Asked, Rmds, Shas, Publics, Privates
<1>5. CASE Out = "private-key" /\ ~Given("private-key-wif")
  <2>1. r = self
    BY <1>5 DEF Conversion, FromPrivate, Converted, Given, KeyTypes
  <2>2. ~Asked(Privates) /\ Out # "all"
    BY <1>5 DEF Asked, Privates, Publics, Shas, Rmds
  <2>3. QED
    BY <1>3, <1>4, <2>1, <2>2 DEF Derived, KeyLoaded
<1>6. CASE ~(Out = "private-key" /\ ~Given("private-key-wif"))
  <2>1. PICK t \in {self, Set(self, {"private-key-wif"})} :
          Conversion = FromWIF(t)
    BY <1>6 DEF Conversion, FromPrivate, Given, KeyTypes
  <2>2. /\ SameKey(t, self)
        /\ t.set \subseteq self.set \cup {"private-key-wif"}
    BY <2>1 DEF SameKey, Set, SelfFields
  <2>3. /\ SameKey(r, self)
        /\ Asked(Privates) => self.private_compression # "empty"
        /\ Asked(Privates) => r.public_key = KeyPoint(self)
        /\ Asked(Publics) => r.public_key_sha = Sha(KeyPoint(self))
        /\ Asked(Shas) => r.public_key_rmd = Rmd(Sha(KeyPoint(self)))
        /\ Asked(Rmds) =>
             r.address = AddressFor(IF options.network_type # Null
                                    THEN options.network_type
                                    ELSE self.private_network,
                                    Rmd(Sha(KeyPoint(self))))
        /\ Out = "all" => r.set = t.set \cup Privates \cup {"private-key"}
    <3>1. KeyPoint(t) = KeyPoint(self) /\ DOMAIN t = SelfFields
      BY <2>2 DEF KeyPoint, SameKey
    <3>2. t.private_compression = self.private_compression
          /\ t.private_network = self.private_network
      BY <2>2 DEF SameKey
    <3>3. FromWIF(t).ok
      BY <2>1
    <3>4. SameKey(FromWIF(t).self, t)
      BY <3>1, <3>3, WIFStage
    <3>5. SameKey(r, self)
      BY <2>1, <2>2, <3>4 DEF SameKey
    <3>6. QED
      BY <2>1, <3>1, <3>2, <3>3, <3>5, WIFStage
  <2>4. Asked(Privates) => KeyPoint(self) = PublicOf(In)
    <3>1. self.private_compression # "empty" =>
            self.private_compression = CompressionOf(In)
      BY DEF KeyLoaded
    <3>2. PublicOf(In) = PublicKey(KeyOf(In), CompressionOf(In))
      BY <1>1 DEF PublicOf
    <3>3. QED
      BY <2>3, <3>1, <3>2 DEF KeyPoint, KeyLoaded
  <2>5. /\ ShaOf(In) = Sha(PublicOf(In)) /\ RmdOf(In) = Rmd(ShaOf(In))
        /\ AddressNow = <<PublicPrefixNow>> \o RmdOf(In)
    BY <1>1 DEF ShaOf, RmdOf, AddressOf, AddressNow, PublicPrefixNow
  <2>6. Asked(Rmds) => r.address = AddressNow
    BY <1>4, <2>3, <2>4, <2>5 DEF AddressFor, KeyLoaded
  <2>7. Out = "all" => r.set \subseteq Reached
    BY <1>1, <1>2, <2>2, <2>3
  <2>8. QED
    BY <1>3, <1>4, <2>3, <2>4, <2>5, <2>6, <2>7 DEF Derived, SameKey, KeyLoaded
<1>7. QED
  BY <1>5, <1>6

\* Without a network of the command line or of this line's key there is no
\* address.
LEMMA NetworkGiven ==
  ASSUME BetweenLines, options.input_type \notin KeyTypes,
         AddressNetwork(self) # Null
  PROVE  \A rmd : AddressFor(AddressNetwork(self), rmd) = <<PublicPrefixNow>> \o rmd
<1>1. options.network_type # Null /\ AddressNetwork(self) = NetworkOf(options.network_type)
  BY DEF BetweenLines, AddressNetwork, NetworkOf
<1>2. PublicPrefixNow = Byte(GetPublicKeyPrefix(NetworkOf(options.network_type)))
  BY <1>1 DEF PublicPrefixOf, PublicPrefixNow
<1>3. QED
  BY <1>1, <1>2 DEF AddressFor

LEMMA FormConverts ==
  ASSUME DOMAIN self = SelfFields, BetweenLines, FormLoaded,
         options.input_type \notin KeyTypes, Conversion.ok
  PROVE  Derived(Conversion.self)
<1> DEFINE r == Conversion.self
<1>1. options.input_type \in InputTypes /\ Out \in OutputTypes
  BY DEF BetweenLines
<1>2. Out = "all" => self.set \subseteq Reached
  BY DEF BetweenLines
<1>3. ~Given("private-key") /\ ~Given("private-key-wif")
  BY DEF Given, KeyTypes
<1>4. CASE Given("public-key")
  <2>1. Conversion = FromPublic(self) /\ Reached = Privates
    BY <1>1, <1>4, ReachedFrom DEF Conversion, Given
  <2>2. /\ PublicOf(In) = self.public_key /\ ShaOf(In) = Sha(PublicOf(In))
        /\ RmdOf(In) = Rmd(ShaOf(In))
        /\ AddressNow = <<PublicPrefixNow>> \o RmdOf(In)
    BY <1>4
       DEF FormLoaded, PublicOf, ShaOf, RmdOf, AddressOf, AddressNow,
           PublicPrefixNow, Given
  <2>3. Out \notin Above(Privates)
    BY <2>1, PublicStage
  <2>4. /\ Due \cap {"private-key", "private-key-wif", "address-checksum"} = {}
        /\ "address" \in Due => Asked(Rmds)
        /\ "public-key-rmd" \in Due => Asked(Shas)
        /\ "public-key-sha" \in Due => Asked(Publics)
    BY <1>1, <1>4, <2>1, <2>3
       DEF Due, Given, Above, OutputTypes, InputTypes, Asked, Rmds, Shas,
           Publics, Privates
  <2>5. Publics \subseteq Privates
    BY DEF Privates
  <2>6. ASSUME Asked(Rmds) PROVE r.address = AddressNow
    <3>1. /\ AddressNetwork(self) # Null
          /\ r.address = AddressFor(AddressNetwork(self), RmdOf(In))
      BY <2>1, <2>2, <2>6, PublicStage DEF Asked, Rmds, Shas, Publics, Privates
    <3>2. QED
      BY <2>2, <3>1, NetworkGiven
  <2>7. QED
    BY <1>2, <1>3, <2>1, <2>2, <2>4, <2>5, <2>6, PublicStage
       DEF Derived, SameKey
<1>5. CASE Given("public-key-sha")
  <2>1. Conversion = FromSha(self) /\ Reached = Publics
    BY <1>1, <1>5, ReachedFrom DEF Conversion, Given
  <2>2. /\ ShaOf(In) = self.public_key_sha
        /\ RmdOf(In) = Rmd(ShaOf(In))
        /\ AddressNow = <<PublicPrefixNow>> \o RmdOf(In)
    BY <1>5
       DEF FormLoaded, ShaOf, RmdOf, AddressOf, AddressNow, PublicPrefixNow,
           Given
  <2>3. Out \notin Above(Publics)
    BY <2>1, ShaStage
  <2>4. /\ Due \cap {"private-key", "private-key-wif", "public-key",
                     "address-checksum"} = {}
        /\ "address" \in Due => Asked(Rmds)
        /\ "public-key-rmd" \in Due => Asked(Shas)
    BY <1>1, <1>5, <2>1, <2>3
       DEF Due, Given, Above, OutputTypes, InputTypes, Asked, Rmds, Shas,
           Publics
  <2>5. Shas \subseteq Publics
    BY DEF Publics
  <2>6. ASSUME Asked(Rmds) PROVE r.address = AddressNow
    <3>1. /\ AddressNetwork(self) # Null
          /\ r.address = AddressFor(AddressNetwork(self), RmdOf(In))
      BY <2>1, <2>2, <2>6, ShaStage DEF Asked, Rmds, Shas, Publics, Privates
    <3>2. QED
      BY <2>2, <3>1, NetworkGiven
  <2>7. QED
    BY <1>2, <1>3, <2>1, <2>2, <2>4, <2>5, <2>6, ShaStage DEF Derived, SameKey
<1>6. CASE Given("public-key-rmd")
  <2>1. Conversion = FromRmd(self) /\ Reached = Shas
    BY <1>1, <1>6, ReachedFrom DEF Conversion, Given
  <2>2. RmdOf(In) = self.public_key_rmd /\ AddressNow = <<PublicPrefixNow>> \o RmdOf(In)
    BY <1>6 DEF FormLoaded, RmdOf, AddressOf, AddressNow, PublicPrefixNow, Given
  <2>3. Out \notin Above(Shas)
    BY <2>1, RmdStage
  <2>4. /\ Due \subseteq {"address", "public-key-rmd"}
        /\ "address" \in Due => Asked(Rmds)
    BY <1>1, <1>6, <2>1, <2>3
       DEF Due, Given, Above, OutputTypes, InputTypes, Asked, Rmds, Shas
  <2>5. Rmds \subseteq Shas
    BY DEF Shas
  <2>6. Asked(Rmds) => r.address = AddressNow
    BY <2>1, <2>2, RmdStage, NetworkGiven
  <2>7. QED
    BY <1>2, <1>3, <2>1, <2>2, <2>4, <2>5, <2>6, RmdStage DEF Derived, SameKey
<1>7. CASE Given("address")
  <2>1. Conversion = FromAddress(self)
    BY <1>1, <1>7, ReachedFrom DEF Conversion, Given
  <2>2. RmdOf(In) = Tail(self.address) /\ AddressNow = self.address
    BY <1>7 DEF FormLoaded, RmdOf, AddressOf, AddressNow, PublicPrefixNow, Given
  <2>3. Out \notin Above(Shas)
    BY <2>1, AddressStage
  <2>4. /\ Due \subseteq {"address", "address-checksum", "public-key-rmd"}
        /\ "public-key-rmd" \in Due => Out = "public-key-rmd"
    BY <1>1, <1>7, <2>3, ReachedFrom
       DEF Due, Given, Above, OutputTypes, InputTypes, Rmds, Shas
  <2>5. QED
    BY <1>2, <1>3, <2>1, <2>2, <2>4, AddressStage DEF Derived, SameKey
<1>8. QED
  BY <1>1, <1>4, <1>5, <1>6, <1>7 DEF Given, InputTypes, KeyTypes

\* Whatever is due is written from the fields that have been derived.
LEMMA DerivedIsMeant ==
  (BetweenLines /\ Derived(self)) => DueIsMeant
<1> SUFFICES ASSUME BetweenLines, Derived(self), NEW type \in Due
             PROVE  OutputRaw(type) = MeantNow(type)
  BY DEF DueIsMeant
<1>0. Out \in OutputTypes /\ options.input_type \in InputTypes
  BY DEF BetweenLines
<1>1. type \in OutputTypes \ {"all"}
  BY <1>0, ReachedFrom
     DEF Due, OutputTypes, InputTypes, Given, Privates, Publics,
                     Shas, Rmds, KeyTypes
<1>2. CASE type \in {"address", "address-checksum"}
  BY <1>2 DEF Derived, OutputRaw, Meant, MeantNow, PrivatePrefixNow, AddressNow
<1>3. CASE type \in {"public-key-rmd", "public-key-sha", "public-key"}
  BY <1>3 DEF Derived, OutputRaw, Meant, MeantNow, PrivatePrefixNow, AddressNow
<1>4. CASE type = "private-key"
  BY <1>4 DEF Derived, OutputRaw, Meant, MeantNow, PrivatePrefixNow, AddressNow
<1>5. CASE type = "private-key-wif"
  <2>1. /\ Byte(GetPrivateKeyPrefix(self.private_network)) = PrivatePrefixNow
        /\ self.private_key = KeyOf(In)
        /\ self.private_compression = "compressed" <=> CompressionOf(In) = "compressed"
    BY <1>5 DEF Derived
  <2>2. QED
    BY <1>5, <2>1 DEF OutputRaw, Meant, MeantNow, PrivatePrefixNow, AddressNow
<1>6. QED
  BY <1>1, <1>2, <1>3, <1>4, <1>5 DEF OutputTypes, InputTypes

LEMMA ConvertConverts ==
  ASSUME ConversionInv, ConvertInputToOutput
  PROVE  ConversionInv'
<1>1. /\ pc = "convert" /\ UNCHANGED <<options, input, written>>
      /\ self' = Conversion.self
      /\ \/ Conversion.ok /\ pc' = "write"
         \/ pc' = "failure"
  BY DEF ConvertInputToOutput, Ends
<1>2. /\ BetweenLines /\ DOMAIN self = SelfFields /\ options \in OptionsType
      /\ FormLoaded
  BY <1>1 DEF ConversionInv, Running, Ended
<1>3. WrittenNow'
  BY <1>1, MeantUnchanged DEF ConversionInv
<1>4. CASE pc' = "failure"
  BY <1>1, <1>2, <1>3, <1>4 DEF ConversionInv, Running, Ended
<1>5. CASE Conversion.ok /\ pc' = "write"
  <2>1. Derived(self')
    BY <1>1, <1>2, <1>5, KeyConverts, FormConverts DEF FormLoaded
  <2>2. UNCHANGED <<Out, Due, Reached>> /\ \A type : Given(type)' = Given(type)
    BY <1>1 DEF Out, Due, Reached, Given
  <2>3. UNCHANGED <<In, KeyOf(In), CompressionOf(In), PrivatePrefixNow,
                    PublicOf(In), ShaOf(In), RmdOf(In), AddressNow>>
    <3>1. UNCHANGED <<KeyOf(In), CompressionOf(In), In>>
      BY <1>1 DEF KeyOf, CompressionOf, Given, In
    <3>2. UNCHANGED <<PublicOf(In), ShaOf(In)>>
      BY <1>1, <3>1 DEF PublicOf, ShaOf, Given
    <3>3. UNCHANGED <<PrivatePrefixNow, PublicPrefixNow>>
      BY <1>1
         DEF NetworkOf, PrivatePrefixOf, PrivatePrefixNow, PublicPrefixOf,
             PublicPrefixNow, Given, In
    <3>4. UNCHANGED RmdOf(In)
      BY <1>1, <3>1, <3>2 DEF RmdOf, Given
    <3>5. QED
      BY <1>1, <3>1, <3>2, <3>3, <3>4
         DEF AddressOf, AddressNow, PublicPrefixNow, Given
  <2>4. BetweenLines'
    BY <1>1, <1>2, <2>1, <2>2 DEF BetweenLines, Derived
  <2>5. DueIsMeant'
    <3>1. Derived(self)'
      BY <1>1, <1>2, <2>1, <2>2, <2>3 DEF Derived, BetweenLines, Given
    <3>2. QED
      BY <2>4, <3>1, DerivedIsMeant, PTL
  <2>6. DOMAIN self' = SelfFields
    BY <2>1 DEF Derived
  <2>7. QED
    BY <1>1, <1>2, <1>3, <1>5, <2>4, <2>5, <2>6 DEF ConversionInv, Running
<1>6. QED
  BY <1>1, <1>4, <1>5

-----------------------------------------------------------------------------
\* An output's text is of bytes that are meant, in the format's way.
LEMMA OutputIsMeant ==
  ASSUME NEW type, NEW format, OutputRaw(type) = MeantNow(type)
  PROVE  LET o == Output(type, format)
         IN /\ o.type = type
            /\ o.text.bytes = IF o.text.format = "bech32" THEN Tail(MeantNow(o.type))
                              ELSE MeantNow(o.type)
BY DEF Output, Text

\* And an output in bech32 has the HRP of the network.
LEMMA OutputHrp ==
  ASSUME NEW type, NEW format, Output(type, format).text.format = "bech32"
  PROVE  Output(type, format).text.hrp = Type(options.network_type).hrp
BY DEF Output, Text

LEMMA WriteConverts ==
  ASSUME ConversionInv, WriteOutput
  PROVE  ConversionInv'
<1>1. /\ pc = "write" /\ UNCHANGED <<options, input, self>> /\ Out # "all"
      /\ \/ written' = {Output(Out, options.output_format)}
         \/ UNCHANGED written
      /\ pc' \in {"read", "success", "failure"}
  BY DEF WriteOutput, AfterOutput, Ends
<1>2. /\ BetweenLines /\ DOMAIN self = SelfFields /\ options \in OptionsType
      /\ DueIsMeant /\ WrittenNow
  BY <1>1 DEF ConversionInv, Running, Ended
<1>3. BetweenLines' /\ \A type : Given(type)' = Given(type)
  BY <1>1, <1>2 DEF BetweenLines, Given, Out, Reached
<1>4. WrittenNow'
  <2>1. CASE UNCHANGED written
    BY <1>1, <1>2, <2>1, MeantUnchanged
  <2>2. CASE written' = {Output(Out, options.output_format)}
    <3>1. (Out = "address-checksum" => Given("address")) => Out \in Due
      BY <1>1 DEF Due
    <3>2. (Out = "address-checksum" => Given("address")) =>
            OutputRaw(Out) = MeantNow(Out)
      BY <1>2, <3>1 DEF DueIsMeant
    <3>3. Output(Out, options.output_format).type = Out
      BY DEF Output
    <3>4. UNCHANGED options /\ \A type : MeantNow(type)' = MeantNow(type)
      BY <1>1, MeantUnchanged
    <3>5. QED
      BY <1>3, <2>2, <3>2, <3>3, <3>4, OutputIsMeant, OutputHrp DEF WrittenNow
  <2>3. QED
    BY <1>1, <2>1, <2>2
<1>5. QED
  BY <1>1, <1>2, <1>3, <1>4 DEF ConversionInv, Ended

LEMMA WriteAllConverts ==
  ASSUME ConversionInv, WriteAllOutput
  PROVE  ConversionInv'
<1>1. /\ pc = "write" /\ UNCHANGED <<options, input, self>> /\ Out = "all"
      /\ written' = {Output(a[1], a[2]) : a \in AllOutputs}
      /\ pc' \in {"read", "success"}
  BY DEF WriteAllOutput, AfterOutput
<1>2. /\ BetweenLines /\ DOMAIN self = SelfFields /\ options \in OptionsType
      /\ DueIsMeant
  BY <1>1 DEF ConversionInv, Running, Ended
<1>3. BetweenLines' /\ \A type : Given(type)' = Given(type)
  BY <1>1, <1>2 DEF BetweenLines, Given, Out, Reached
<1>4. WrittenNow'
  <2>1. ASSUME NEW a \in AllOutputs, a[1] = "address-checksum" => Given("address")
        PROVE  OutputRaw(a[1]) = MeantNow(a[1])
    <3>1. a[1] \in self.set \/ a[1] = "address-checksum"
      BY DEF AllOutputs
    <3>2. self.set \subseteq Reached
      BY <1>1, <1>2 DEF BetweenLines
    <3>3. a[1] \in Due
      BY <1>1, <2>1, <3>1, <3>2 DEF Due
    <3>4. QED
      BY <1>2, <3>3 DEF DueIsMeant
  <2>2. \A a \in AllOutputs : Output(a[1], a[2]).type = a[1]
    BY DEF Output
  <2>3. \A type : MeantNow(type)' = MeantNow(type)
    BY <1>1, MeantUnchanged
  <2>4. ASSUME NEW o \in written', o.type = "address-checksum" => Given("address")'
        PROVE  o.text.bytes = IF o.text.format = "bech32"
                              THEN Tail(MeantNow(o.type)') ELSE MeantNow(o.type)'
    <3>1. PICK a \in AllOutputs : o = Output(a[1], a[2])
      BY <1>1
    <3>2. OutputRaw(a[1]) = MeantNow(a[1])
      BY <1>3, <2>1, <2>2, <2>4, <3>1
    <3>3. QED
      BY <2>3, <3>1, <3>2, OutputIsMeant
  <2>5. ASSUME NEW o \in written', o.text.format = "bech32"
        PROVE  o.text.hrp = (Type(options.network_type).hrp)'
    BY <1>1, <2>5, OutputHrp
  <2>6. QED
    BY <2>4, <2>5 DEF WrittenNow
<1>5. QED
  BY <1>1, <1>2, <1>3, <1>4 DEF ConversionInv, Ended

\* A line that is not read leaves no output, and all else as it was.
LEMMA NothingConverts ==
  ASSUME ConversionInv, NothingRead
  PROVE  ConversionInv'
<1>1. /\ pc = "read" /\ UNCHANGED <<options, input, self>> /\ written' = {}
      /\ pc' \in {"read", "success", "failure"}
  BY DEF NothingRead, Refuse
<1>2. BetweenLines /\ DOMAIN self = SelfFields /\ options \in OptionsType
  BY <1>1 DEF ConversionInv, Running, Ended
<1>3. BetweenLines'
  BY <1>1, <1>2 DEF BetweenLines, Given, Out, Reached
<1>4. QED
  BY <1>1, <1>2, <1>3 DEF ConversionInv, Ended, WrittenNow

\* The compression asked for is put in before the first line.
LEMMA RunConverts ==
  ASSUME ConversionInv, Run
  PROVE  ConversionInv'
<1> DEFINE asked == options.public_key_compression
<1>1. /\ pc = "parse" /\ UNCHANGED <<options, input, written>>
      /\ \/ Complete(options) /\ pc' = "read"
         \/ pc' = "failure"
      /\ self' = IF asked = "auto" THEN self
                 ELSE [self EXCEPT !.private_compression = asked]
  BY DEF Run, Ends
<1>2. /\ options \in OptionsType /\ DOMAIN self = SelfFields
      /\ self.set = {} /\ self.private_compression = "empty"
      /\ self.public_network = Null /\ written = {}
  BY <1>1 DEF ConversionInv, Ended
<1>3. /\ DOMAIN self' = SelfFields /\ self'.set = {}
      /\ self'.public_network = Null
      /\ self'.private_compression = IF asked = "auto" THEN "empty" ELSE asked
  BY <1>1, <1>2 DEF SelfFields
<1>4. CASE Complete(options) /\ pc' = "read"
  <2>1. options.input_type \in InputTypes /\ Out \in OutputTypes
    BY <1>2, <1>4 DEF Complete, OptionsType, Out
  <2>2. BetweenLines'
    BY <1>1, <1>3, <2>1 DEF BetweenLines, Given, Out
  <2>3. QED
    BY <1>1, <1>2, <1>3, <1>4, <2>2 DEF ConversionInv, WrittenNow
<1>5. CASE pc' = "failure"
  BY <1>1, <1>2, <1>5 DEF ConversionInv, Running, Ended, WrittenNow
<1>6. QED
  BY <1>1, <1>4, <1>5

LEMMA ArgumentConverts ==
  ASSUME ConversionInv, ParseArgument
  PROVE  ConversionInv'
<1>1. /\ pc = "parse" /\ UNCHANGED <<input, self, written>>
      /\ pc' \in {"parse", "failure"}
      /\ \/ UNCHANGED options
         \/ \E opt, v : Takes(options, opt, v) /\ options' = ParseOption(options, opt, v)
  BY DEF ParseArgument, Ends
<1>2. /\ options \in OptionsType /\ DOMAIN self = SelfFields /\ self.set = {}
      /\ self.private_compression = "empty"
      /\ self.public_network = Null /\ written = {}
  BY <1>1 DEF ConversionInv, Ended
<1>3. options' \in OptionsType
  BY <1>1, <1>2, ParseOptionType
<1>4. QED
  BY <1>1, <1>2, <1>3 DEF ConversionInv, Running, Ended, WrittenNow

\* The end of the program, and a step that changes nothing.
LEMMA EndConverts ==
  ASSUME ConversionInv, UNCHANGED <<options, input, self, written>>,
         pc' \in Ended \/ UNCHANGED pc
  PROVE  ConversionInv'
<1>1. WrittenNow'
  BY MeantUnchanged DEF ConversionInv
<1>2. CASE pc' \in Ended
  BY <1>1, <1>2 DEF ConversionInv, Running, Ended
<1>3. CASE UNCHANGED pc
  <2>1. UNCHANGED <<BetweenLines, FormLoaded, In>>
    <3>1. UNCHANGED <<KeyOf(In), CompressionOf(In), PrivatePrefixNow, PublicPrefixNow, In>>
      BY
         DEF KeyOf, CompressionOf, PrivatePrefixOf, PrivatePrefixNow,
             PublicPrefixOf, PublicPrefixNow, Given, In, NetworkOf
    <3>2. UNCHANGED BetweenLines
      BY DEF BetweenLines, Given, Out, Reached
    <3>3. UNCHANGED KeyLoaded
      BY <3>1 DEF KeyLoaded
    <3>4. UNCHANGED FormLoaded
      BY <3>1, <3>3 DEF FormLoaded, Given
    <3>5. QED
      BY <3>1, <3>2, <3>4
  <2>2. UNCHANGED DueIsMeant
    <3>1. UNCHANGED Due /\ \A type : OutputRaw(type)' = OutputRaw(type)
      BY DEF Due, Out, Given, Reached, OutputRaw
    <3>2. QED
      BY <3>1, MeantUnchanged DEF DueIsMeant
  <2>3. QED
    BY <1>1, <1>3, <2>1, <2>2 DEF ConversionInv, Given
<1>4. QED
  BY <1>2, <1>3

-----------------------------------------------------------------------------
\* The invariant of the batch: every form that is due is made of the bytes of
\* the line read last and of the options, and nothing that an earlier line left
\* behind in the record shows in it. An earlier bech32 line may have set the
\* network among the options (main.c:979-980), of which NamedNetwork speaks.
THEOREM ConversionInvariant == Spec => []ConversionInv
<1>1. Init => ConversionInv
  BY ConversionInit
<1>2. ConversionInv /\ [Next]_vars => ConversionInv'
  <2> SUFFICES ASSUME ConversionInv, [Next]_vars
               PROVE  ConversionInv'
    OBVIOUS
  <2>1. CASE ParseArgument
    BY <2>1, ArgumentConverts
  <2>2. CASE Run
    BY <2>2, RunConverts
  <2>3. CASE NothingRead
    BY <2>3, NothingConverts
  <2>4. CASE ReadLine \/ ReadOnce
    <3>1. pc = "read" /\ \E t \in Texts : ParseText(t)
      BY <2>4 DEF ReadLine, ReadOnce, Readable
    <3>2. QED
      BY <3>1, ParseTextConverts
  <2>5. CASE CheckInputSize
    BY <2>5, CheckConverts
  <2>6. CASE ConvertInputToOutput
    BY <2>6, ConvertConverts
  <2>7. CASE WriteOutput
    BY <2>7, WriteConverts
  <2>8. CASE WriteAllOutput
    BY <2>8, WriteAllConverts
  <2>9. CASE EndOfFile \/ Crash \/ Done \/ UNCHANGED vars
    <3>1. /\ UNCHANGED <<options, input, self, written>>
          /\ pc' \in Ended \/ UNCHANGED pc
      BY <2>9 DEF EndOfFile, Crash, Done, Ends, Ended, vars
    <3>2. QED
      BY <3>1, EndConverts
  <2>10. QED
    BY <2>1, <2>2, <2>3, <2>4, <2>5, <2>6, <2>7, <2>8, <2>9 DEF Next
<1>3. QED
  BY <1>1, <1>2, PTL DEF Spec

-----------------------------------------------------------------------------
(* Which network that is. *)

\* The options' network is the command line's, unless it names none and lines
\* are bech32: then the first of them sets it, for itself and for the rest of a
\* batch (main.c:979-980). The bytes of a bech32 line begin with its prefix.
NamedInv ==
  (pc \in Running \/ written # {}) =>
    (lines.network # Null \/ options.input_format # "bech32"
       => options.network_type = lines.network)
FirstInv ==
  (pc = "read" /\ ~options.batch) => options.network_type = lines.network
LineInv ==
  (pc \in {"check", "convert", "write"} \/ written # {}) =>
    /\ options.network_type \in LineNetworks
    /\ LineBytes(options.network_type) = input.bytes
NetworkInv ==
  /\ pc = "parse" => written = {}
  /\ NamedInv /\ FirstInv /\ LineInv

LEMMA TailOfCons ==
  ASSUME NEW F, NEW t \in Seq(F), NEW p
  PROVE  Tail(<<p>> \o t) = t
<1> DEFINE whole == <<p>> \o t
           tail == Tail(whole)
<1>1. /\ whole \in Seq(F \cup {p}) /\ Len(whole) = Len(t) + 1
      /\ \A i \in 1 .. Len(t) : whole[i + 1] = t[i]
  OBVIOUS
<1>2. /\ tail \in Seq(F \cup {p}) /\ Len(tail) = Len(t)
      /\ \A i \in 1 .. Len(t) : tail[i] = whole[i + 1]
  <2> HIDE DEF whole
  <2>1. QED
    BY <1>1
<1>3. t \in Seq(F \cup {p})
  OBVIOUS
<1>4. \A i \in 1 .. Len(t) : tail[i] = t[i]
  BY <1>1, <1>2
<1>5. QED
  <2> HIDE DEF tail, whole
  <2>1. tail = t
    BY <1>2, <1>3, <1>4
  <2>2. QED
    BY <2>1 DEF tail, whole

\* The network is changed by a bech32 text alone, which must name one to be
\* decoded, and has its prefix put before its bytes.
LEMMA DecodeNetwork ==
  ASSUME options \in OptionsType, NEW t \in Texts, NEW d \in Decode(t)
  PROVE  /\ options.input_format # "bech32" => d.network = options.network_type
         /\ (options.input_format = "bech32" /\ d.ok) =>
              /\ d.network \in NetworkNames
              /\ options.network_type = Null =>
                   d.network = GetNetworkTypeByHrp(t.hrp)
              /\ d.bytes = <<Byte(GetPublicKeyPrefix(d.network))>> \o t.bytes
<1> DEFINE old == options.network_type
<1>1. old \in NetworkNames \cup {Null}
  BY DEF OptionsType
<1>2. CASE options.input_format # "bech32"
  <2>1. \A e \in FixedBase58Check(t) : e.network = old
    BY DEF FixedBase58Check, NotDecoded, Decoded
  <2>2. \A e \in DecodeBase58Check(t) : e.network = old
    BY <2>1 DEF DecodeBase58Check, NotDecoded, Decoded
  <2>3. /\ NotDecoded(old).network = old
        /\ \A bytes : Decoded(bytes, old).network = old
    BY DEF NotDecoded, Decoded
  <2>4. CASE t.format = options.input_format /\ t.format = "base58check"
    BY <2>2, <2>3, <2>4 DEF Decode
  <2>5. CASE ~(t.format = options.input_format /\ t.format = "base58check")
    BY <1>2, <2>3, <2>5 DEF Decode
  <2>6. QED
    BY <1>2, <2>4, <2>5
<1>3. CASE options.input_format = "bech32" /\ d.ok
  <2>1. d \in DecodeBech32(t)
    BY <1>3 DEF Decode, NotDecoded, Decoded
  <2>2. GetNetworkTypeByHrp(t.hrp) \in NetworkNames \cup {Null}
    BY FoundIsNetwork, Table DEF GetNetworkTypeByHrp
  <2>3. PICK n \in NetworkNames \cup {Null} :
          /\ n = IF old # Null \/ t.typos # 0 THEN old
                 ELSE GetNetworkTypeByHrp(t.hrp)
          /\ d \in IF n = Null \/ t.typos # 0 \/ ~t.segwit THEN {NotDecoded(n)}
                   ELSE {Decoded(<<Byte(GetPublicKeyPrefix(n))>> \o t.bytes, n)}
    BY <1>1, <2>1, <2>2 DEF DecodeBech32
  <2>4. /\ n # Null /\ t.typos = 0
        /\ d = Decoded(<<Byte(GetPublicKeyPrefix(n))>> \o t.bytes, n)
    BY <1>3, <2>3 DEF NotDecoded
  <2>5. /\ d.network = n
        /\ d.bytes = <<Byte(GetPublicKeyPrefix(n))>> \o t.bytes
    BY <2>4 DEF Decoded
  <2>6. QED
    BY <1>3, <2>3, <2>4, <2>5
<1>4. QED
  BY <1>2, <1>3

\* A line is read: its network and its bytes.
LEMMA ParseTextNetwork ==
  ASSUME RecordsInv, ConversionInv, NetworkInv, pc = "read",
         NEW t \in Texts, ParseText(t)
  PROVE  NetworkInv'
<1>1. PICK d \in Decode(t) :
        /\ options' = [options EXCEPT !.network_type = d.network]
        /\ IF d.ok
           THEN /\ pc' = "check" /\ lines' = lines
                /\ input' = [bytes |-> d.bytes, hrp |-> t.hrp]
           ELSE Refuse /\ lines' = [lines EXCEPT !.refused = @ + 1]
  BY DEF ParseText
<1>2. written' = {}
  BY DEF ParseText
<1>3. options \in OptionsType
  BY DEF ConversionInv
<1>4. /\ options'.network_type = d.network
      /\ options'.input_format = options.input_format
      /\ options'.batch = options.batch
      /\ options'.ignore_input_errors = options.ignore_input_errors
  BY <1>1, <1>3 DEF OptionsType
<1>5. lines'.network = lines.network
  BY <1>1 DEF RecordsInv, LinesType
<1>6. /\ options.network_type # Null => d.network = options.network_type
      /\ options.input_format # "bech32" => d.network = options.network_type
      /\ (options.input_format = "bech32" /\ d.ok) =>
           /\ d.network \in NetworkNames
           /\ options.network_type = Null => d.network = GetNetworkTypeByHrp(t.hrp)
           /\ d.bytes = <<Byte(GetPublicKeyPrefix(d.network))>> \o t.bytes
  BY <1>3, DecodeYields, DecodeNetwork
<1>7. (lines.network # Null \/ options.input_format # "bech32") =>
        options.network_type = lines.network
  BY DEF NetworkInv, NamedInv, Running
<1>8. ~options.batch => options.network_type = lines.network
  BY DEF NetworkInv, FirstInv
<1>9. NamedInv'
  BY <1>4, <1>5, <1>6, <1>7 DEF NamedInv
<1>10. CASE d.ok
  <2>1. pc' = "check" /\ input'.bytes = d.bytes /\ input'.hrp = t.hrp
    BY <1>1, <1>10
  <2>2. (options.network_type \in LineNetworks)'
    <3>1. CASE lines.network # Null \/ options.input_format # "bech32"
      BY <1>4, <1>5, <1>6, <1>7, <3>1 DEF LineNetworks
    <3>2. CASE lines.network = Null /\ options.input_format = "bech32"
      BY <1>4, <1>5, <1>6, <1>8, <1>10, <2>1, <3>2 DEF LineNetworks
    <3>3. QED
      BY <3>1, <3>2
  <2>3. (LineBytes(options.network_type) = input.bytes)'
    <3>1. CASE options.input_format # "bech32"
      BY <1>4, <3>1 DEF LineBytes
    <3>2. CASE options.input_format = "bech32"
      <4>1. PICK p : p = Byte(GetPublicKeyPrefix(d.network))
        OBVIOUS
      <4>2. PICK F : t.bytes \in Seq(F)
        BY TextsAssumption DEF IsBytes
      <4>3. Tail(<<p>> \o t.bytes) = t.bytes
        BY <4>2, TailOfCons
      <4>4. d.bytes = <<p>> \o t.bytes
        BY <1>6, <1>10, <3>2, <4>1
      <4>5. QED
        BY <1>4, <2>1, <3>2, <4>1, <4>3, <4>4 DEF LineBytes
    <3>3. QED
      BY <3>1, <3>2
  <2>4. QED
    BY <1>2, <1>9, <2>1, <2>2, <2>3 DEF NetworkInv, FirstInv, LineInv
<1>11. CASE ~d.ok
  <2>1. /\ pc' \in {"failure", "read", "success"}
        /\ pc' = "read" => options.batch
    BY <1>1, <1>11 DEF Refuse
  <2>2. QED
    BY <1>2, <1>4, <1>9, <2>1 DEF NetworkInv, FirstInv, LineInv
<1>12. QED
  BY <1>10, <1>11

\* Whatever else is done leaves the line and its network as they are.
LEMMA LineKept ==
  ASSUME UNCHANGED <<options, input>>, lines'.network = lines.network
  PROVE  UNCHANGED <<LineNetworks, LineBytes(options.network_type)>>
BY DEF LineNetworks, LineBytes

LEMMA NetworkStep == RecordsInv /\ ConversionInv /\ NetworkInv /\ [Next]_vars
                       => NetworkInv'
<1> SUFFICES ASSUME RecordsInv, ConversionInv, NetworkInv, [Next]_vars
             PROVE  NetworkInv'
  OBVIOUS
<1>1. CASE ParseArgument
  <2>1. /\ pc = "parse" /\ pc' \in {"parse", "failure"} /\ written' = written
    BY <1>1 DEF ParseArgument, Ends
  <2>2. QED
    BY <2>1 DEF NetworkInv, NamedInv, FirstInv, LineInv, Running
<1>2. CASE Run
  <2>1. /\ pc = "parse" /\ pc' \in {"read", "failure"} /\ written' = written
        /\ options' = options
        /\ lines' = [lines EXCEPT !.network = options.network_type]
    BY <1>2 DEF Run, Ends
  <2>2. lines'.network = options'.network_type
    BY <2>1 DEF RecordsInv, LinesType
  <2>3. QED
    BY <2>1, <2>2 DEF NetworkInv, NamedInv, FirstInv, LineInv
<1>3. CASE NothingRead
  <2>1. /\ pc = "read" /\ pc' \in {"read", "success", "failure"} /\ written' = {}
        /\ UNCHANGED <<options, lines>>
    BY <1>3 DEF NothingRead, Refuse
  <2>2. QED
    BY <2>1 DEF NetworkInv, NamedInv, FirstInv, LineInv, Running
<1>4. CASE ReadLine \/ ReadOnce
  <2>1. pc = "read" /\ \E t \in Texts : ParseText(t)
    BY <1>4 DEF ReadLine, ReadOnce, Readable
  <2>2. QED
    BY <2>1, ParseTextNetwork
<1>5. CASE CheckInputSize \/ ConvertInputToOutput
  <2>1. /\ pc \in {"check", "convert"}
        /\ pc' \in {"convert", "write", "failure", "killed"}
        /\ UNCHANGED <<options, input, written, lines>>
    BY <1>5 DEF CheckInputSize, ConvertInputToOutput, Ends
  <2>2. UNCHANGED <<LineNetworks, LineBytes(options.network_type)>>
    BY <2>1, LineKept
  <2>3. QED
    BY <2>1, <2>2 DEF NetworkInv, NamedInv, FirstInv, LineInv, Running
<1>6. CASE WriteOutput \/ WriteAllOutput
  <2>1. /\ pc = "write" /\ pc' \in {"read", "success", "failure"}
        /\ pc' = "read" => options.batch
        /\ UNCHANGED <<options, input>>
        /\ lines' = lines \/ lines' = [lines EXCEPT !.done = @ + 1]
    BY <1>6 DEF WriteOutput, WriteAllOutput, AfterOutput, Ends
  <2>2. lines'.network = lines.network
    BY <2>1 DEF RecordsInv, LinesType
  <2>3. UNCHANGED <<LineNetworks, LineBytes(options.network_type)>>
    BY <2>1, <2>2, LineKept
  <2>4. QED
    BY <2>1, <2>2, <2>3 DEF NetworkInv, NamedInv, FirstInv, LineInv, Running
<1>7. CASE EndOfFile \/ Crash \/ Done \/ UNCHANGED vars
  <2>1. /\ UNCHANGED <<options, input, written, lines>>
        /\ pc' \in Ended \/ UNCHANGED pc
    BY <1>7 DEF EndOfFile, Crash, Done, Ends, Ended, vars
  <2>2. UNCHANGED <<LineNetworks, LineBytes(options.network_type)>>
    BY <2>1, LineKept
  <2>3. EndOfFile \/ Crash => pc \in Running
    BY DEF EndOfFile, Crash, Running
  <2>4. QED
    BY <1>7, <2>1, <2>2, <2>3
       DEF NetworkInv, NamedInv, FirstInv, LineInv, Running, Ended
<1>8. QED
  BY <1>1, <1>2, <1>3, <1>4, <1>5, <1>6, <1>7 DEF Next

\* The network that a line is converted by is the one that the command line
\* names, or none if it names none; only a bech32 line without such a name has
\* another: the one of its own HRP (main.c:979-980), or in a batch of any
\* network of the table, since an earlier line may have set it.
THEOREM NamedNetwork == Spec => []NetworkInv
<1>1. Init => NetworkInv
  BY DEF Init, NetworkInv, NamedInv, FirstInv, LineInv, Running
<1>2. QED
  BY <1>1, NetworkStep, BatchInvariant, ConversionInvariant, PTL
     DEF Spec, BatchInv

\* Whatever is written is made of the line read last and of the command line,
\* although keys, hashes, compressions, networks and flags of earlier lines are
\* never cleared (main.c:1539-1565): but for the network of a bech32 line in a
\* batch whose command line names none, which is some network of the table.
THEOREM WrittenDerived == Spec => []WrittenIsDerived
<1>1. NetworkInv /\ ConversionInv => WrittenIsDerived
  <2> SUFFICES ASSUME NetworkInv, ConversionInv
               PROVE  WrittenIsDerived
    OBVIOUS
  <2>1. CASE written = {}
    <3>1. LineNetworks # {}
      <4>1. NetworkNames # {}
        BY Table DEF NetworkNames, Entries
      <4>2. QED
        BY <4>1 DEF LineNetworks
    <3>2. QED
      BY <2>1, <3>1 DEF WrittenIsDerived
  <2>2. CASE written # {}
    <3>1. /\ options.network_type \in LineNetworks
          /\ LineBytes(options.network_type) = In
      BY <2>2 DEF NetworkInv, LineInv, In
    <3>2. WrittenNow
      BY DEF ConversionInv
    <3>3. \A type : MeantNow(type) =
            Meant(type, LineBytes(options.network_type), options.network_type)
      BY <3>1 DEF MeantNow
    <3>4. QED
      BY <3>1, <3>2, <3>3 DEF WrittenIsDerived, WrittenNow
  <2>3. QED
    BY <2>1, <2>2
<1>2. QED
  BY <1>1, NamedNetwork, ConversionInvariant, PTL

-----------------------------------------------------------------------------
(* With --output-type all: every form the input leads to is written. *)

\* The flag of the form that has been loaded is set; and after the conversion
\* the flags of all the forms it leads to are, with a compression for the key.
AllInv ==
  /\ pc = "convert" =>
       /\ options.input_type \in {"mini-private-key", "private-key"} =>
            "private-key" \in self.set
       /\ \A type \in InputTypes \ {"mini-private-key", "private-key"} :
            Given(type) => type \in self.set
  /\ (pc = "write" /\ Out = "all") =>
       /\ Reached \subseteq self.set
       /\ options.input_type \in KeyTypes => self.private_compression # "empty"
  /\ AllIsWritten

LEMMA CheckLoadsAll ==
  ASSUME ConversionInv, AllInv, CheckInputSize
  PROVE  AllInv'
<1>1. /\ pc = "check" /\ UNCHANGED <<options, written>>
      /\ (self' = Loaded(input.bytes) /\ pc' = "convert") \/ pc' = "failure"
  BY DEF CheckInputSize, Ends
<1>2. DOMAIN self = SelfFields /\ options.input_type \in InputTypes
  BY <1>1 DEF ConversionInv, BetweenLines, Running, Ended
<1>3. AllIsWritten'
  BY <1>1 DEF AllInv, AllIsWritten, Out, Given
<1>4. ASSUME self' = Loaded(input.bytes), pc' = "convert"
      PROVE  /\ options.input_type \in {"mini-private-key", "private-key"} =>
                  "private-key" \in self'.set
             /\ \A type \in InputTypes \ {"mini-private-key", "private-key"} :
                  Given(type) => type \in self'.set
  <2>1. CASE options.input_type = "mini-private-key"
    BY <1>2, <1>4, <2>1 DEF Loaded, LoadMini, Set, Given, SelfFields
  <2>2. CASE options.input_type = "private-key"
    BY <1>2, <1>4, <2>2 DEF Loaded, LoadPrivateKey, Set, Given, SelfFields
  <2>3. CASE options.input_type = "private-key-wif"
    BY <1>2, <1>4, <2>3 DEF Loaded, LoadWIF, Set, Given, SelfFields
  <2>4. CASE options.input_type = "public-key"
    BY <1>2, <1>4, <2>4 DEF Loaded, LoadPublicKey, Set, Given, SelfFields
  <2>5. CASE options.input_type \in {"public-key-sha", "public-key-rmd"}
    BY <1>2, <1>4, <2>5 DEF Loaded, Set, Given, SelfFields
  <2>6. CASE options.input_type = "address"
    BY <1>2, <1>4, <2>6 DEF Loaded, Set, Given, SelfFields
  <2>7. QED
    BY <1>2, <2>1, <2>2, <2>3, <2>4, <2>5, <2>6 DEF InputTypes
<1>5. QED
  BY <1>1, <1>3, <1>4 DEF AllInv, Given

\* The conversion to everything falls through all the stages below its input.
LEMMA ConvertsToAll ==
  ASSUME ConversionInv, AllInv, pc = "convert", Out = "all", Conversion.ok
  PROVE  /\ Reached \subseteq Conversion.self.set
         /\ options.input_type \in KeyTypes =>
              Conversion.self.private_compression # "empty"
<1>1. DOMAIN self = SelfFields /\ options.input_type \in InputTypes
  BY DEF ConversionInv, BetweenLines, Running, Ended
<1>2. Asked(Privates) /\ Asked(Privates \cup {"private-key-wif"})
  BY DEF Asked
<1>3. CASE options.input_type \in {"mini-private-key", "private-key"}
  <2> DEFINE t == Set(self, {"private-key-wif"})
  <2>1. DOMAIN t = SelfFields /\ "private-key-wif" \in t.set
    BY <1>1 DEF Set, SelfFields
  <2>2. Conversion = FromWIF(t)
    BY <1>2, <1>3 DEF Conversion, FromPrivate
  <2> HIDE DEF t
  <2>3. /\ Conversion.self.set = t.set \cup Privates \cup {"private-key"}
        /\ Conversion.self.private_compression = t.private_compression
        /\ t.private_compression # "empty"
    BY <1>2, <2>1, <2>2, WIFStage DEF SameKey
  <2>4. Reached = Privates \cup {"private-key", "private-key-wif"}
    <3>1. options.input_type \in KeyTypes
      BY <1>3 DEF KeyTypes
    <3>2. QED
      BY <1>1, <3>1, ReachedFrom
  <2>5. QED
    BY <2>1, <2>3, <2>4
<1>4. CASE options.input_type = "private-key-wif"
  <2>1. Conversion = FromWIF(self)
    BY <1>4 DEF Conversion
  <2>2. /\ Conversion.self.set = self.set \cup Privates \cup {"private-key"}
        /\ Conversion.self.private_compression = self.private_compression
        /\ self.private_compression # "empty"
    BY <1>1, <1>2, <2>1, WIFStage DEF SameKey
  <2>3. /\ Reached = Privates \cup {"private-key", "private-key-wif"}
        /\ "private-key-wif" \in self.set
    BY <1>4 DEF AllInv, Reached, KeyTypes, Given, InputTypes
  <2>4. QED
    BY <2>2, <2>3
<1>5. CASE options.input_type = "public-key"
  <2>1. Conversion = FromPublic(self) /\ Reached = Privates /\ "public-key" \in self.set
    BY <1>5 DEF Conversion, Reached, KeyTypes, Given, AllInv, InputTypes
  <2>2. Conversion.self.set = self.set \cup Publics
    BY <1>1, <2>1, PublicStage
  <2>3. QED
    BY <1>5, <2>1, <2>2 DEF Privates, KeyTypes
<1>6. CASE options.input_type = "public-key-sha"
  <2>1. Conversion = FromSha(self) /\ Reached = Publics /\ "public-key-sha" \in self.set
    BY <1>6 DEF Conversion, Reached, KeyTypes, Given, AllInv, InputTypes
  <2>2. Conversion.self.set = self.set \cup Shas
    BY <1>1, <2>1, ShaStage
  <2>3. QED
    BY <1>6, <2>1, <2>2 DEF Publics, KeyTypes
<1>7. CASE options.input_type = "public-key-rmd"
  <2>1. Conversion = FromRmd(self) /\ Reached = Shas /\ "public-key-rmd" \in self.set
    BY <1>7 DEF Conversion, Reached, KeyTypes, Given, AllInv, InputTypes
  <2>2. Conversion.self.set = self.set \cup Rmds
    BY <1>1, <2>1, RmdStage
  <2>3. QED
    BY <1>7, <2>1, <2>2 DEF Shas, KeyTypes
<1>8. CASE options.input_type = "address"
  <2>1. Conversion = FromAddress(self) /\ Reached = Rmds /\ "address" \in self.set
    BY <1>8 DEF Conversion, Reached, KeyTypes, Given, AllInv, InputTypes
  <2>2. Conversion.self.set = self.set
    BY <1>1, <2>1, AddressStage
  <2>3. QED
    BY <1>8, <2>1, <2>2 DEF Rmds, KeyTypes
<1>9. QED
  BY <1>1, <1>3, <1>4, <1>5, <1>6, <1>7, <1>8 DEF InputTypes

LEMMA WritesAll ==
  ASSUME ConversionInv, AllInv, WriteAllOutput
  PROVE  AllInv'
<1>1. /\ pc = "write" /\ UNCHANGED <<options, self>> /\ Out = "all"
      /\ written' = {Output(a[1], a[2]) : a \in AllOutputs}
      /\ pc' \in {"read", "success"}
  BY DEF WriteAllOutput, AfterOutput
<1>2. /\ Reached \subseteq self.set
      /\ options.input_type \in KeyTypes => self.private_compression # "empty"
  BY <1>1 DEF AllInv
<1>3. ASSUME NEW type \in Reached
      PROVE  \E o \in written' : o.type = type /\ o.text.format = "hex"
  <2>1. /\ type \in OutputTypes \ {"all", "address-checksum"}
        /\ type = "private-key-wif" => options.input_type \in KeyTypes
    BY <1>3
       DEF Reached, OutputTypes, InputTypes, Privates, Publics, Shas, Rmds,
           Given
  <2>2. Formattable(type, "hex")
    BY <1>2, <2>1 DEF Formattable
  <2>3. <<type, "hex">> \in AllOutputs
    BY <1>2, <1>3, <2>1, <2>2 DEF AllOutputs
  <2>4. /\ Output(type, "hex") \in written'
        /\ Output(type, "hex").type = type /\ Output(type, "hex").text.format = "hex"
    <3>1. <<type, "hex">>[1] = type /\ <<type, "hex">>[2] = "hex"
      OBVIOUS
    <3>2. Output(type, "hex") \in written'
      BY <1>1, <2>3, <3>1
    <3>3. QED
      BY <3>2 DEF Output, Text
  <2>5. QED
    BY <2>4
<1>4. UNCHANGED Reached
  BY <1>1 DEF Reached, Given
<1>5. AllIsWritten'
  <2>1. \A type \in Reached' : \E o \in written' : o.type = type /\ o.text.format = "hex"
    BY <1>3, <1>4
  <2>2. QED
    BY <2>1 DEF AllIsWritten, Reached, KeyTypes, Given
<1>6. QED
  BY <1>1, <1>5 DEF AllInv

\* In every other step either nothing is written, or nothing changes of what
\* was, or of what it was to be.
LEMMA AllStep ==
  ASSUME ConversionInv, AllInv, [Next]_vars
  PROVE  AllInv'
<1>1. CASE ParseArgument \/ Run
  <2>1. pc = "parse" /\ written' = written /\ pc' \in {"parse", "read", "failure"}
    BY <1>1 DEF ParseArgument, Run, Ends
  <2>2. written' = {}
    BY <2>1 DEF ConversionInv
  <2>3. QED
    BY <2>1, <2>2 DEF AllInv, AllIsWritten
<1>2. CASE NothingRead \/ ReadLine \/ ReadOnce
  <2>1. written' = {} /\ pc' \in {"check", "read", "success", "failure"}
    BY <1>2 DEF NothingRead, ReadLine, ReadOnce, ParseText, Refuse
  <2>2. QED
    BY <2>1 DEF AllInv, AllIsWritten
<1>3. CASE CheckInputSize
  BY <1>3, CheckLoadsAll
<1>4. CASE ConvertInputToOutput
  <2>1. /\ pc = "convert" /\ UNCHANGED <<options, written>> /\ self' = Conversion.self
        /\ (Conversion.ok /\ pc' = "write") \/ pc' = "failure"
    BY <1>4 DEF ConvertInputToOutput, Ends
  <2>2. UNCHANGED <<Out, Reached>>
    BY <2>1 DEF Out, Reached, Given
  <2>3. AllIsWritten'
    BY <2>1 DEF AllInv, AllIsWritten, Out, Given
  <2>4. QED
    BY <2>1, <2>2, <2>3, ConvertsToAll DEF AllInv
<1>5. CASE WriteOutput
  <2>1. UNCHANGED options /\ Out # "all" /\ pc' \in {"read", "success", "failure"}
    BY <1>5 DEF WriteOutput, AfterOutput, Ends
  <2>2. Out' # "all"
    BY <2>1 DEF Out
  <2>3. QED
    BY <2>1, <2>2 DEF AllInv, AllIsWritten
<1>6. CASE WriteAllOutput
  BY <1>6, WritesAll
<1>7. CASE EndOfFile \/ Crash
  <2>1. UNCHANGED <<options, written>> /\ pc' \in Ended
    BY <1>7 DEF EndOfFile, Crash, Ends, Ended
  <2>2. QED
    BY <2>1 DEF AllInv, AllIsWritten, Out, Given, Ended
<1>8. CASE Done \/ UNCHANGED vars
  <2>1. UNCHANGED <<options, self, written, pc>>
    BY <1>8 DEF Done, vars
  <2>2. UNCHANGED <<Out, Reached>> /\ \A type : Given(type)' = Given(type)
    BY <2>1 DEF Out, Reached, Given
  <2>3. AllIsWritten'
    BY <2>1 DEF AllInv, AllIsWritten, Out, Given
  <2>4. QED
    BY <2>1, <2>2, <2>3 DEF AllInv
<1>9. QED
  BY <1>1, <1>2, <1>3, <1>4, <1>5, <1>6, <1>7, <1>8 DEF Next

\* With --output-type all, each form that a line leads to is written in hex:
\* no stage of the conversion is left without its flag (WriteAllOutput).
THEOREM AllWritten == Spec => []AllIsWritten
<1>1. Init => AllInv
  BY DEF Init, AllInv, AllIsWritten
<1>2. ConversionInv /\ AllInv /\ [Next]_vars => AllInv'
  BY AllStep
<1>3. AllInv => AllIsWritten
  BY DEF AllInv
<1>4. QED
  BY <1>1, <1>2, <1>3, ConversionInvariant, PTL DEF Spec
-----------------------------------------------------------------------------
(* Sizes. *)

Widths(bytes) == [i \in DOMAIN bytes |-> bytes[i][1]]

LEMMA BytesOf ==
  ASSUME NEW b, IsBytes(b)
  PROVE  \E F : b \in Seq(F) /\ \A f \in F : f[1] \in Nat
BY DEF IsBytes

LEMMA OfFields ==
  ASSUME NEW F, NEW b \in Seq(F), \A f \in F : f[1] \in Nat
  PROVE  IsBytes(b)
<1>1. PICK G : G = {b[i] : i \in DOMAIN b}
  OBVIOUS
<1>2. b \in [1 .. Len(b) -> F] /\ Len(b) \in Nat /\ DOMAIN b = 1 .. Len(b)
  OBVIOUS
<1>3. \A i \in 1 .. Len(b) : b[i] \in G /\ b[i] \in F
  BY <1>1, <1>2
<1>4. b \in [1 .. Len(b) -> G]
  BY <1>2, <1>3
<1>5. b \in Seq(G)
  BY <1>2, <1>4, Tabulated
<1>6. \A f \in G : f[1] \in Nat
  BY <1>1, <1>2
<1>7. QED
  BY <1>1, <1>5, <1>6 DEF IsBytes

\* The size of bytes is the sum of the widths of their fields.
LEMMA WidthsTyped ==
  ASSUME NEW b, IsBytes(b)
  PROVE  \E w \in Seq(Int) :
           /\ Size(b) = SumSeq(w) /\ Len(w) = Len(b) /\ Len(b) \in Nat
           /\ DOMAIN b = 1 .. Len(b)
           /\ \A i \in 1 .. Len(b) : w[i] = b[i][1] /\ w[i] \in Nat
<1>1. PICK F : b \in Seq(F) /\ \A f \in F : f[1] \in Nat
  BY BytesOf
<1>2. PICK w : w = Widths(b)
  OBVIOUS
<1>3. PICK L \in Nat : L = Len(b) /\ DOMAIN b = 1 .. L /\ \A i \in 1 .. L : b[i] \in F
  BY <1>1
<1>4. w = [i \in 1 .. L |-> b[i][1]]
  BY <1>2, <1>3 DEF Widths
<1>5. \A i \in 1 .. L : b[i][1] \in Nat
  BY <1>1, <1>3
<1>6. w \in [1 .. L -> Int]
  BY <1>4, <1>5
<1>7. w \in Seq(Int) /\ Len(w) = L
  BY <1>6, Tabulated
<1>8. Size(b) = SumSeq(w)
  BY <1>2 DEF Size, Widths
<1>9. QED
  BY <1>3, <1>4, <1>5, <1>7, <1>8

LEMMA OneField ==
  ASSUME NEW f, f[1] \in Nat
  PROVE  IsBytes(<<f>>) /\ Size(<<f>>) = f[1]
<1>1. <<f>> \in Seq({f}) /\ Len(<<f>>) = 1 /\ <<f>>[1] = f
  OBVIOUS
<1>2. IsBytes(<<f>>)
  <2>1. PICK F : F = {f}
    OBVIOUS
  <2>2. <<f>> \in Seq(F) /\ \A x \in F : x[1] \in Nat
    BY <2>1
  <2>3. QED
    BY <2>2, OfFields
<1>3. PICK w \in Seq(Int) : Size(<<f>>) = SumSeq(w) /\ Len(w) = 1 /\ w[1] = f[1]
  BY <1>1, <1>2, WidthsTyped
<1>4. PICK g \in [0 .. Len(w) -> Int] :
        /\ g[0] = 0 /\ g[Len(w)] = SumSeq(w)
        /\ \A i \in 1 .. Len(w) : g[i] = g[i - 1] + w[i]
  BY SumSteps
<1>5. SumSeq(w) = w[1]
  BY <1>3, <1>4
<1>6. QED
  BY <1>2, <1>3, <1>5

LEMMA BytesJoined ==
  ASSUME NEW a, NEW b, IsBytes(a), IsBytes(b)
  PROVE  /\ IsBytes(a \o b) /\ Size(a \o b) = Size(a) + Size(b)
         /\ Size(a) \in Int /\ Size(b) \in Int
<1>1. PICK F : a \in Seq(F) /\ \A f \in F : f[1] \in Nat
  BY BytesOf
<1>2. PICK G : b \in Seq(G) /\ \A f \in G : f[1] \in Nat
  BY BytesOf
<1>3. PICK H : H = F \cup G
  OBVIOUS
<1>4. a \in Seq(H) /\ b \in Seq(H) /\ \A f \in H : f[1] \in Nat
  BY <1>1, <1>2, <1>3
<1>5. PICK c : c = a \o b
  OBVIOUS
<1>6. /\ c \in Seq(H) /\ Len(c) = Len(a) + Len(b)
      /\ \A i \in 1 .. Len(a) : c[i] = a[i]
      /\ \A i \in 1 .. Len(b) : c[Len(a) + i] = b[i]
  BY <1>4, <1>5, Joined
<1>7. IsBytes(c)
  BY <1>4, <1>6, OfFields
<1>8. PICK u \in Seq(Int) :
        /\ Size(a) = SumSeq(u) /\ Len(u) = Len(a) /\ Len(a) \in Nat
        /\ \A i \in 1 .. Len(a) : u[i] = a[i][1] /\ u[i] \in Nat
  BY WidthsTyped
<1>9. PICK v \in Seq(Int) :
        /\ Size(b) = SumSeq(v) /\ Len(v) = Len(b) /\ Len(b) \in Nat
        /\ \A i \in 1 .. Len(b) : v[i] = b[i][1] /\ v[i] \in Nat
  BY WidthsTyped
<1>10. PICK w \in Seq(Int) :
        /\ Size(c) = SumSeq(w) /\ Len(w) = Len(c)
        /\ \A i \in 1 .. Len(c) : w[i] = c[i][1]
  BY <1>7, WidthsTyped
<1>11. /\ Len(w) = Len(u) + Len(v)
       /\ \A i \in 1 .. Len(u) : w[i] = u[i]
       /\ \A i \in 1 .. Len(v) : w[Len(u) + i] = v[i]
  <2>1. Len(w) = Len(u) + Len(v)
    BY <1>6, <1>8, <1>9, <1>10
  <2>2. ASSUME NEW i \in 1 .. Len(u) PROVE w[i] = u[i]
    <3>1. i \in 1 .. Len(a) /\ i \in 1 .. Len(c)
      BY <1>6, <1>8, <1>9
    <3>2. c[i] = a[i] /\ w[i] = c[i][1]
      BY <1>6, <1>10, <3>1
    <3>3. QED
      BY <1>8, <3>1, <3>2
  <2>3. ASSUME NEW i \in 1 .. Len(v) PROVE w[Len(u) + i] = v[i]
    <3>1. i \in 1 .. Len(b) /\ Len(a) + i \in 1 .. Len(c)
      BY <1>6, <1>8, <1>9
    <3>2. w[Len(a) + i] = c[Len(a) + i][1]
      BY <1>10, <3>1
    <3>3. QED
      BY <1>6, <1>8, <1>9, <3>1, <3>2
  <2>4. QED
    BY <2>1, <2>2, <2>3
<1>12. SumSeq(w) = SumSeq(u) + SumSeq(v)
  BY <1>11, SumTwo
<1>13. SumSeq(u) \in Int /\ SumSeq(v) \in Int
  BY SumType
<1>14. QED
  BY <1>5, <1>7, <1>8, <1>9, <1>10, <1>12, <1>13

LEMMA BytesTail ==
  ASSUME NEW b, IsBytes(b), b # <<>>
  PROVE  /\ IsBytes(Tail(b)) /\ Size(Tail(b)) = Size(b) - b[1][1]
         /\ b[1][1] \in Nat
<1>1. PICK F : b \in Seq(F) /\ \A f \in F : f[1] \in Nat
  BY BytesOf
<1>2. PICK h, t : h = b[1] /\ t = Tail(b)
  OBVIOUS
<1>3. h \in F /\ t \in Seq(F) /\ b = <<h>> \o t
  BY <1>1, <1>2
<1>4. h[1] \in Nat
  BY <1>1, <1>3
<1>5. IsBytes(t) /\ IsBytes(<<h>>) /\ Size(<<h>>) = h[1]
  BY <1>1, <1>3, <1>4, OfFields, OneField
<1>6. Size(b) = h[1] + Size(t) /\ Size(t) \in Int
  BY <1>3, <1>5, BytesJoined
<1>7. QED
  BY <1>2, <1>4, <1>5, <1>6

\* The sizes of a hash, of a key on the curve, and of a key in a WIF key.
LEMMA HashSizes ==
  \A b : /\ IsBytes(Sha(b)) /\ Size(Sha(b)) = 32
         /\ IsBytes(Rmd(b)) /\ Size(Rmd(b)) = 20
         /\ IsBytes(Checksum(b)) /\ Size(Checksum(b)) = 4
<1>1. SUFFICES ASSUME NEW b
               PROVE  /\ IsBytes(Sha(b)) /\ Size(Sha(b)) = 32
                      /\ IsBytes(Rmd(b)) /\ Size(Rmd(b)) = 20
                      /\ IsBytes(Checksum(b)) /\ Size(Checksum(b)) = 4
  OBVIOUS
<1>2. PICK x, y, z : /\ x = <<32, "sha256", b>> /\ y = <<20, "ripemd160", b>>
                     /\ z = <<4, "checksum", b>>
  OBVIOUS
<1>3. x[1] = 32 /\ y[1] = 20 /\ z[1] = 4
  BY <1>2
<1>4. Sha(b) = <<x>> /\ Rmd(b) = <<y>> /\ Checksum(b) = <<z>>
  BY <1>2 DEF Sha, Rmd, Checksum
<1>5. QED
  BY <1>3, <1>4, OneField

LEMMA ByteSize ==
  ASSUME NEW n
  PROVE  IsBytes(<<Byte(n)>>) /\ Size(<<Byte(n)>>) = 1
<1>1. Byte(n)[1] = 1
  BY DEF Byte
<1>2. QED
  BY <1>1, OneField

LEMMA NoBytes == IsBytes(<<>>) /\ Size(<<>>) = 0
<1>1. PICK F : F = {<<>>} \ {<<>>}
  OBVIOUS
<1>2. <<>> \in Seq(F) /\ Len(<<>>) = 0 /\ \A f \in F : f[1] \in Nat
  BY <1>1
<1>3. IsBytes(<<>>)
  BY <1>2, OfFields
<1>4. PICK w \in Seq(Int) : Size(<<>>) = SumSeq(w) /\ Len(w) = 0
  BY <1>2, <1>3, WidthsTyped
<1>5. SumSeq(w) = 0
  <2>1. \A i \in 1 .. Len(w) : w[i] = 0
    BY <1>4
  <2>2. QED
    BY <2>1, SumZeros
<1>6. QED
  BY <1>3, <1>4, <1>5

\* Without its first byte an address is a hash.
LEMMA AddressTail ==
  ASSUME NEW b, IsBytes(b), Size(b) = 21, StartsWithByte(b)
  PROVE  IsBytes(Tail(b)) /\ Size(Tail(b)) = 20
<1>1. b # <<>>
  BY NoBytes
<1>2. b[1][1] = 1
  BY DEF StartsWithByte, Byte
<1>3. QED
  BY <1>1, <1>2, BytesTail

LEMMA PublicKeySize ==
  ASSUME NEW key, NEW compression
  PROVE  /\ IsBytes(PublicKey(key, compression))
         /\ Size(PublicKey(key, compression)) \in {33, 65}
<1>1. PICK x, y : x = <<32, "x", key>> /\ y = <<32, "y", key>>
  OBVIOUS
<1>2. x[1] = 32 /\ y[1] = 32
  BY <1>1
<1>3. IsBytes(<<x>>) /\ Size(<<x>>) = 32 /\ IsBytes(<<y>>) /\ Size(<<y>>) = 32
  BY <1>2, OneField
<1>4. ASSUME NEW n
      PROVE  /\ IsBytes(<<Byte(n)>> \o <<x>>) /\ Size(<<Byte(n)>> \o <<x>>) = 33
             /\ IsBytes((<<Byte(n)>> \o <<x>>) \o <<y>>)
             /\ Size((<<Byte(n)>> \o <<x>>) \o <<y>>) = 65
  <2>1. PICK p : p = <<Byte(n)>> \o <<x>>
    OBVIOUS
  <2>2. IsBytes(p) /\ Size(p) = 33
    BY <1>3, <2>1, ByteSize, BytesJoined
  <2>3. IsBytes(p \o <<y>>) /\ Size(p \o <<y>>) = 65
    BY <1>3, <2>2, BytesJoined
  <2>4. QED
    BY <2>1, <2>2, <2>3
<1>5. CASE compression = "compressed"
  <2>1. PublicKey(key, compression) = <<Byte(2)>> \o <<x>>
    BY <1>1, <1>5 DEF PublicKey, Point
  <2>2. PICK k : k = <<Byte(2)>> \o <<x>>
    OBVIOUS
  <2>3. IsBytes(k) /\ Size(k) = 33
    BY <1>4, <2>2
  <2>4. QED
    BY <2>1, <2>2, <2>3
<1>6. CASE compression # "compressed"
  <2>1. PublicKey(key, compression) = (<<Byte(4)>> \o <<x>>) \o <<y>>
    BY <1>1, <1>6 DEF PublicKey, Point
  <2>2. PICK k : k = (<<Byte(4)>> \o <<x>>) \o <<y>>
    OBVIOUS
  <2>3. IsBytes(k) /\ Size(k) = 65
    BY <1>4, <2>2
  <2>4. QED
    BY <2>1, <2>2, <2>3
<1>7. QED
  BY <1>5, <1>6
-----------------------------------------------------------------------------
(* What is meant has the size of its type. *)

\* The input has been taken for what was asked for.
Shaped ==
  /\ IsBytes(In)
  /\ Size(In) \in Sizes["address"] => StartsWithByte(In)
  /\ Size(In) \in Sizes["private-key-wif"] => StartsWithByte(In) /\ In[2][1] = 32
Accepted == Shaped /\ options.input_type \in InputTypes /\ Acceptable(In)

LEMMA SizesAre ==
  /\ Sizes["address"] = {21} /\ Sizes["public-key-rmd"] = {20}
  /\ Sizes["public-key-sha"] = {32} /\ Sizes["public-key"] = {33, 65}
  /\ Sizes["private-key-wif"] = {33, 34} /\ Sizes["private-key"] = {32}
  /\ Sizes["mini-private-key"] = {30}
BY DEF Sizes, InputTypes

LEMMA GivenSize ==
  ASSUME Accepted, NEW type, Given(type)
  PROVE  Size(In) \in Sizes[type]
BY DEF Accepted, Acceptable, Given

LEMMA KeySize ==
  ASSUME Accepted
  PROVE  IsBytes(KeyOf(In)) /\ Size(KeyOf(In)) = 32
<1>1. CASE Given("private-key")
  BY <1>1, GivenSize, SizesAre DEF KeyOf, Accepted, Shaped
<1>2. CASE Given("private-key-wif") /\ ~Given("private-key")
  <2>1. In[2][1] = 32
    BY <1>2, GivenSize DEF Accepted, Shaped
  <2>2. KeyOf(In) = <<In[2]>>
    BY <1>2 DEF KeyOf
  <2>3. QED
    BY <2>1, <2>2, OneField
<1>3. CASE ~Given("private-key-wif") /\ ~Given("private-key")
  BY <1>3, HashSizes DEF KeyOf
<1>4. QED
  BY <1>1, <1>2, <1>3

LEMMA PublicSize ==
  ASSUME Accepted
  PROVE  IsBytes(PublicOf(In)) /\ Size(PublicOf(In)) \in {33, 65}
<1>1. CASE Given("public-key")
  BY <1>1, GivenSize, SizesAre DEF PublicOf, Accepted, Shaped
<1>2. CASE ~Given("public-key")
  <2>1. PublicOf(In) = PublicKey(KeyOf(In), CompressionOf(In))
    BY <1>2 DEF PublicOf
  <2>2. QED
    BY <2>1, PublicKeySize
<1>3. QED
  BY <1>1, <1>2

LEMMA ShaSize ==
  ASSUME Accepted
  PROVE  IsBytes(ShaOf(In)) /\ Size(ShaOf(In)) = 32
<1>1. CASE Given("public-key-sha")
  BY <1>1, GivenSize, SizesAre DEF ShaOf, Accepted, Shaped
<1>2. CASE ~Given("public-key-sha")
  BY <1>2, HashSizes DEF ShaOf
<1>3. QED
  BY <1>1, <1>2

LEMMA RmdSize ==
  ASSUME Accepted
  PROVE  IsBytes(RmdOf(In)) /\ Size(RmdOf(In)) = 20
<1>1. CASE Given("public-key-rmd")
  BY <1>1, GivenSize, SizesAre DEF RmdOf, Accepted, Shaped
<1>2. CASE Given("address") /\ ~Given("public-key-rmd")
  <2>1. IsBytes(In) /\ Size(In) = 21 /\ StartsWithByte(In)
    BY <1>2, GivenSize, SizesAre DEF Accepted, Shaped
  <2>2. IsBytes(Tail(In)) /\ Size(Tail(In)) = 20
    BY <2>1, AddressTail
  <2>3. QED
    BY <1>2, <2>2 DEF RmdOf
<1>3. CASE ~Given("address") /\ ~Given("public-key-rmd")
  BY <1>3, HashSizes DEF RmdOf
<1>4. QED
  BY <1>1, <1>2, <1>3

LEMMA AddressSize ==
  ASSUME Accepted
  PROVE  IsBytes(AddressNow) /\ Size(AddressNow) = 21
<1>1. CASE Given("address")
  BY <1>1, GivenSize, SizesAre
     DEF AddressOf, AddressNow, PublicPrefixNow, Accepted, Shaped
<1>2. CASE ~Given("address")
  <2>1. IsBytes(<<PublicPrefixNow>>) /\ Size(<<PublicPrefixNow>>) = 1
    BY ByteSize DEF PublicPrefixOf, PublicPrefixNow
  <2>2. AddressNow = <<PublicPrefixNow>> \o RmdOf(In)
    BY <1>2 DEF AddressOf, AddressNow, PublicPrefixNow
  <2>3. QED
    BY <2>1, <2>2, RmdSize, BytesJoined
<1>3. QED
  BY <1>1, <1>2

LEMMA WIFSize ==
  ASSUME Accepted
  PROVE  Size(MeantNow("private-key-wif")) \in {33, 34}
<1>1. PICK p, k, c : /\ p = <<PrivatePrefixNow>> /\ k = KeyOf(In)
                     /\ c = IF CompressionOf(In) = "compressed" THEN <<Byte(1)>> ELSE <<>>
  OBVIOUS
<1>2. IsBytes(p) /\ Size(p) = 1
  <2>1. CASE Given("private-key-wif")
    <3>1. StartsWithByte(In)
      BY <2>1, GivenSize DEF Accepted, Shaped
    <3>2. p = <<Byte(In[1][3])>>
      BY <1>1, <2>1, <3>1 DEF PrivatePrefixOf, PrivatePrefixNow, StartsWithByte
    <3>3. QED
      BY <3>2, ByteSize
  <2>2. CASE ~Given("private-key-wif")
    BY <1>1, <2>2, ByteSize DEF PrivatePrefixOf, PrivatePrefixNow
  <2>3. QED
    BY <2>1, <2>2
<1>3. IsBytes(k) /\ Size(k) = 32
  BY <1>1, KeySize
<1>4. IsBytes(c) /\ Size(c) \in {0, 1}
  BY <1>1, ByteSize, NoBytes
<1>5. IsBytes(p \o k) /\ Size(p \o k) = 33
  BY <1>2, <1>3, BytesJoined
<1>6. Size((p \o k) \o c) \in {33, 34}
  BY <1>4, <1>5, BytesJoined
<1>7. MeantNow("private-key-wif") = (p \o k) \o c
  BY <1>1 DEF Meant, MeantNow, PrivatePrefixNow, AddressNow
<1>8. QED
  BY <1>6, <1>7

LEMMA MeantSize ==
  ASSUME Accepted, NEW type \in OutputTypes \ {"all", "address-checksum"}
  PROVE  Size(MeantNow(type)) \in Sizes[type]
<1>1. CASE type = "private-key"
  BY <1>1, KeySize, SizesAre DEF Meant, MeantNow, PrivatePrefixNow, AddressNow
<1>2. CASE type = "private-key-wif"
  BY <1>2, WIFSize, SizesAre
<1>3. CASE type = "public-key"
  BY <1>3, PublicSize, SizesAre
     DEF Meant, MeantNow, PrivatePrefixNow, AddressNow
<1>4. CASE type = "public-key-sha"
  BY <1>4, ShaSize, SizesAre DEF Meant, MeantNow, PrivatePrefixNow, AddressNow
<1>5. CASE type = "public-key-rmd"
  BY <1>5, RmdSize, SizesAre DEF Meant, MeantNow, PrivatePrefixNow, AddressNow
<1>6. CASE type = "address"
  BY <1>6, AddressSize, SizesAre
     DEF Meant, MeantNow, PrivatePrefixNow, AddressNow
<1>7. QED
  BY <1>1, <1>2, <1>3, <1>4, <1>5, <1>6 DEF OutputTypes, InputTypes
-----------------------------------------------------------------------------
(* What is written is taken back for what it was. *)

LEMMA HrpFound ==
  ASSUME NEW n \in NetworkNames
  PROVE  GetNetworkTypeByHrp(Type(n).hrp) = n
<1>1. PICK i \in Entries : n = network_types[i].name
  BY Table DEF NetworkNames
<1>2. Type(n).hrp = network_types[i].hrp
  BY <1>1, TypeOfEntry
<1>3. \A j \in Entries : network_types[j].hrp = network_types[i].hrp => j = i
  BY DEF network_types, Network, Entries
<1>4. {j \in DOMAIN network_types : network_types[j].hrp = network_types[i].hrp} = {i}
  BY <1>3, Table
<1>5. First({i}) = n
  <2>1. {i} \subseteq Entries /\ {i} # {}
    OBVIOUS
  <2>2. \E j \in {i} : First({i}) = network_types[j].name
    BY <2>1, FirstIsFound
  <2>3. QED
    BY <1>1, <2>2
<1>6. QED
  BY <1>2, <1>4, <1>5 DEF GetNetworkTypeByHrp

LEMMA BitcoinIsNetwork == "bitcoin" \in NetworkNames
<1>1. 1 \in DOMAIN network_types /\ network_types[1].name = "bitcoin"
  BY DEF network_types, Network
<1>2. QED
  BY <1>1 DEF NetworkNames

\* Several networks may have the prefix of one; the first of them is found.
LEMMA NetworkByPrefix ==
  ASSUME NEW n \in NetworkNames, NEW m,
         m = GetNetworkTypeByPrivateKeyPrefix(GetPrivateKeyPrefix(n))
  PROVE  m # Null /\ GetPublicKeyPrefix(m) = GetPublicKeyPrefix(n)
<1>1. PICK i \in Entries : n = network_types[i].name
  BY Table DEF NetworkNames
<1>2. Type(n) = network_types[i]
  BY <1>1, TypeOfEntry
<1>3. PICK found : found = {j \in DOMAIN network_types :
                              network_types[j].private_key_prefix =
                                GetPrivateKeyPrefix(n)}
  OBVIOUS
<1>4. i \in found /\ found \subseteq Entries /\ m = First(found)
  BY <1>2, <1>3, Table DEF GetPrivateKeyPrefix, GetNetworkTypeByPrivateKeyPrefix
<1>5. PICK j \in found : m = network_types[j].name
  BY <1>4, FirstIsFound
<1>6. m # Null
  BY <1>4, <1>5, Table
<1>7. GetPublicKeyPrefix(m) = GetPrivateKeyPrefix(n) - 128
  BY <1>6, PrefixFound
<1>8. GetPrivateKeyPrefix(n) = GetPublicKeyPrefix(n) + 128 /\ GetPublicKeyPrefix(n) \in Nat
  BY <1>2, Table DEF GetPrivateKeyPrefix, GetPublicKeyPrefix
<1>9. QED
  BY <1>6, <1>7, <1>8

-----------------------------------------------------------------------------
\* Every key, hash and address of the record has its size, and every flag is
\* that of a type.
Sized(s) ==
  /\ DOMAIN s = SelfFields
  /\ Size(s.address) = 21 /\ Size(s.public_key_sha) = 32
  /\ IsBytes(s.public_key_rmd) /\ Size(s.public_key_rmd) = 20
  /\ IsBytes(s.private_key) /\ Size(s.private_key) = 32
  /\ Size(s.public_key) \in {33, 65}
  /\ s.set \subseteq OutputTypes \ {"all", "address-checksum"}

\* From the reading of a line to its output: what the line is taken for.
SizesInv ==
  /\ Sized(self)
  /\ pc \in {"check", "convert", "write"} => Shaped /\ written = {}
  /\ pc \in {"convert", "write"} =>
       /\ Acceptable(In)
       /\ options.input_type \in KeyTypes => self.private_network \in NetworkNames
  /\ pc = "write" =>
       (options.input_type \in KeyTypes \/ "private-key-wif" \notin Due)
  /\ \A o \in written : o.type \in OutputTypes \ {"all"}
  /\ ReadsBack

-----------------------------------------------------------------------------
LEMMA ZerosSize ==
  ASSUME NEW n \in Nat
  PROVE  IsBytes(Zeros(n)) /\ Size(Zeros(n)) = n
<1>1. PICK f : f = <<n, "key", 0>>
  OBVIOUS
<1>2. f[1] = n /\ Zeros(n) = <<f>>
  BY <1>1 DEF Zeros
<1>3. QED
  BY <1>2, OneField

LEMMA SizedInit == Init => SizesInv
<1>1. SUFFICES ASSUME Init PROVE SizesInv
  OBVIOUS
<1>2. /\ DOMAIN self = SelfFields
      /\ self.address = Zeros(21) /\ self.public_key_sha = Zeros(32)
      /\ self.public_key_rmd = Zeros(20) /\ self.private_key = Zeros(32)
      /\ self.public_key = Zeros(65) /\ self.set = {}
  BY <1>1 DEF Init, SelfFields, ZeroKey
<1>3. Sized(self)
  BY <1>2, ZerosSize DEF Sized
<1>4. pc = "parse" /\ written = {}
  BY <1>1 DEF Init
<1>5. QED
  BY <1>3, <1>4 DEF SizesInv, ReadsBack

\* Each stage of the conversion keeps the sizes, wherever it ends.
LEMMA AddressSized ==
  ASSUME NEW s, Sized(s),
         Out = "public-key-rmd" =>
           IsBytes(Tail(s.address)) /\ Size(Tail(s.address)) = 20
  PROVE  Sized(FromAddress(s).self)
<1>1. CASE Out = "public-key-rmd"
  <2>1. PICK h, r : h = Tail(s.address) /\ r = FromAddress(s).self
    OBVIOUS
  <2>2. IsBytes(h) /\ Size(h) = 20
    BY <1>1, <2>1
  <2>3. "public-key-rmd" \in OutputTypes \ {"all", "address-checksum"}
    BY DEF OutputTypes, InputTypes
  <2>4. DOMAIN s = SelfFields
    BY DEF Sized
  <2>5. /\ DOMAIN r = SelfFields
        /\ r.address = s.address /\ r.public_key_sha = s.public_key_sha
        /\ r.public_key_rmd = h /\ r.private_key = s.private_key
        /\ r.public_key = s.public_key /\ r.set = s.set \cup {"public-key-rmd"}
    <3>1. FromAddress(s).self =
            [Set(s, {"public-key-rmd"}) EXCEPT !.public_key_rmd = Tail(s.address)]
      BY <1>1 DEF FromAddress, Converted, Above, Shas, Rmds
    <3>2. r = [Set(s, {"public-key-rmd"}) EXCEPT !.public_key_rmd = h]
      BY <2>1, <3>1, Zenon
    <3>3. QED
      BY <2>4, <3>2 DEF Set, SelfFields
  <2>6. QED
    BY <2>1, <2>2, <2>3, <2>5 DEF Sized
<1>2. CASE Out # "public-key-rmd"
  BY <1>2 DEF FromAddress, Converted, Impossible
<1>3. QED
  BY <1>1, <1>2

LEMMA RmdSized ==
  ASSUME NEW s, Sized(s)
  PROVE  Sized(FromRmd(s).self)
<1> DEFINE n == AddressNetwork(s)
           made == [Set(s, {"address"}) EXCEPT
                      !.public_network = n,
                      !.address = AddressFor(n, s.public_key_rmd)]
<1>1. Sized(made)
  <2>1. PICK a : a = AddressFor(n, s.public_key_rmd)
    OBVIOUS
  <2>2. Size(a) = 21
    BY <2>1, ByteSize, BytesJoined DEF AddressFor, Sized
  <2>3. "address" \in OutputTypes \ {"all", "address-checksum"}
    BY DEF OutputTypes, InputTypes
  <2>4. made = [Set(s, {"address"}) EXCEPT !.public_network = n, !.address = a]
    BY <2>1
  <2>5. DOMAIN s = SelfFields
    BY DEF Sized
  <2>6. /\ DOMAIN made = SelfFields
        /\ made.address = a /\ made.public_key_sha = s.public_key_sha
        /\ made.public_key_rmd = s.public_key_rmd /\ made.private_key = s.private_key
        /\ made.public_key = s.public_key /\ made.set = s.set \cup {"address"}
    BY <2>4, <2>5 DEF Set, SelfFields
  <2>7. QED
    BY <2>2, <2>3, <2>6 DEF Sized
<1>2. CASE Asked(Rmds)
  <2>1. Out # "public-key-rmd" /\ Out \notin Above(Shas)
    BY <1>2 DEF Asked, Rmds, Shas, Above
  <2>2. FromRmd(s).self = s \/ FromRmd(s) = FromAddress(made)
    BY <1>2, <2>1 DEF FromRmd, AddressNetwork, AddressFor, Impossible
  <2> HIDE DEF made
  <2>3. QED
    BY <1>1, <2>1, <2>2, AddressSized
<1>3. CASE ~Asked(Rmds)
  <2>1. FromRmd(s).self = s \/ (Out # "public-key-rmd" /\ FromRmd(s) = FromAddress(s))
    BY <1>3 DEF FromRmd, Converted, Impossible
  <2>2. QED
    BY <2>1, AddressSized
<1>4. QED
  BY <1>2, <1>3

LEMMA ShaSized ==
  ASSUME NEW s, Sized(s)
  PROVE  Sized(FromSha(s).self)
<1> DEFINE made == [Set(s, {"public-key-rmd"}) EXCEPT
                      !.public_key_rmd = Rmd(s.public_key_sha)]
<1>1. Sized(made)
  <2>1. PICK h : h = Rmd(s.public_key_sha)
    OBVIOUS
  <2>2. IsBytes(h) /\ Size(h) = 20
    BY <2>1, HashSizes
  <2>3. "public-key-rmd" \in OutputTypes \ {"all", "address-checksum"}
    BY DEF OutputTypes, InputTypes
  <2>4. made = [Set(s, {"public-key-rmd"}) EXCEPT !.public_key_rmd = h]
    BY <2>1
  <2>5. DOMAIN s = SelfFields
    BY DEF Sized
  <2>6. /\ DOMAIN made = SelfFields
        /\ made.address = s.address /\ made.public_key_sha = s.public_key_sha
        /\ made.public_key_rmd = h /\ made.private_key = s.private_key
        /\ made.public_key = s.public_key /\ made.set = s.set \cup {"public-key-rmd"}
    BY <2>4, <2>5 DEF Set, SelfFields
  <2>7. QED
    BY <2>2, <2>3, <2>6 DEF Sized
<1>2. \/ FromSha(s).self = s \/ FromSha(s) = FromRmd(made) \/ FromSha(s) = FromRmd(s)
  BY DEF FromSha, Converted, Impossible
<1> HIDE DEF made
<1>3. QED
  BY <1>1, <1>2, RmdSized

LEMMA PublicSized ==
  ASSUME NEW s, Sized(s)
  PROVE  Sized(FromPublic(s).self)
<1> DEFINE made == [Set(s, {"public-key-sha"}) EXCEPT
                      !.public_key_sha = Sha(s.public_key)]
<1>1. Sized(made)
  <2>1. PICK h : h = Sha(s.public_key)
    OBVIOUS
  <2>2. Size(h) = 32
    BY <2>1, HashSizes
  <2>3. "public-key-sha" \in OutputTypes \ {"all", "address-checksum"}
    BY DEF OutputTypes, InputTypes
  <2>4. made = [Set(s, {"public-key-sha"}) EXCEPT !.public_key_sha = h]
    BY <2>1
  <2>5. DOMAIN s = SelfFields
    BY DEF Sized
  <2>6. /\ DOMAIN made = SelfFields
        /\ made.address = s.address /\ made.public_key_sha = h
        /\ made.public_key_rmd = s.public_key_rmd /\ made.private_key = s.private_key
        /\ made.public_key = s.public_key /\ made.set = s.set \cup {"public-key-sha"}
    BY <2>4, <2>5 DEF Set, SelfFields
  <2>7. QED
    BY <2>2, <2>3, <2>6 DEF Sized
<1>2. \/ FromPublic(s).self = s \/ FromPublic(s) = FromSha(made)
      \/ FromPublic(s) = FromSha(s)
  BY DEF FromPublic, Converted, Impossible
<1> HIDE DEF made
<1>3. QED
  BY <1>1, <1>2, ShaSized

LEMMA WIFSized ==
  ASSUME NEW s, Sized(s)
  PROVE  Sized(FromWIF(s).self)
<1> DEFINE t == IF Asked(Privates \cup {"private-key"})
                THEN Set(s, {"private-key"}) ELSE s
           made == [Set(t, {"public-key"}) EXCEPT
                      !.public_key = KeyPoint(s),
                      !.public_compression = s.private_compression,
                      !.public_network = s.private_network]
<1>1. {"private-key", "public-key"} \subseteq OutputTypes \ {"all", "address-checksum"}
  BY DEF OutputTypes, InputTypes
<1>2. Sized(t)
  BY <1>1 DEF Sized, Set, SelfFields
<1>3. FromWIF(s).self = t \/ FromWIF(s) = FromPublic(made) \/ FromWIF(s) = FromPublic(t)
  BY DEF FromWIF, Converted, Impossible, KeyPoint
<1> HIDE DEF t
<1>4. Sized(made)
  <2>1. PICK k : k = KeyPoint(s)
    OBVIOUS
  <2>2. Size(k) \in {33, 65}
    BY <2>1, PublicKeySize DEF KeyPoint
  <2>3. made = [Set(t, {"public-key"}) EXCEPT
                  !.public_key = k,
                  !.public_compression = s.private_compression,
                  !.public_network = s.private_network]
    BY <2>1
  <2>4. DOMAIN t = SelfFields
    BY <1>2 DEF Sized
  <2>5. /\ DOMAIN made = SelfFields
        /\ made.address = t.address /\ made.public_key_sha = t.public_key_sha
        /\ made.public_key_rmd = t.public_key_rmd /\ made.private_key = t.private_key
        /\ made.public_key = k /\ made.set = t.set \cup {"public-key"}
    BY <2>3, <2>4 DEF Set, SelfFields
  <2>6. QED
    BY <1>1, <2>2, <2>5, <1>2 DEF Sized
<1> HIDE DEF made
<1>5. QED
  BY <1>2, <1>3, <1>4, PublicSized

LEMMA PrivateSized ==
  ASSUME NEW s, Sized(s)
  PROVE  Sized(FromPrivate(s).self)
<1> DEFINE t == Set(s, {"private-key-wif"})
<1>1. Sized(t)
  BY DEF Sized, Set, SelfFields, OutputTypes, InputTypes
<1>2. FromPrivate(s).self = s \/ FromPrivate(s) = FromWIF(t) \/ FromPrivate(s) = FromWIF(s)
  BY DEF FromPrivate, Converted
<1> HIDE DEF t
<1>3. QED
  BY <1>1, <1>2, WIFSized
-----------------------------------------------------------------------------
\* What is read has the fields that are cut out of it.
LEMMA SizedRead ==
  ASSUME ConversionInv, SizesInv, pc = "read", NEW t \in Texts, ParseText(t)
  PROVE  SizesInv'
<1>1. PICK d \in Decode(t) :
        IF d.ok THEN pc' = "check" /\ input' = [bytes |-> d.bytes, hrp |-> t.hrp]
        ELSE Refuse
  BY DEF ParseText
<1>2. self' = self /\ written' = {}
  BY DEF ParseText
<1>3. d.ok => t.bytes # <<>> /\ d.bytes \in Readings(t)
  BY DecodeYields DEF ConversionInv
<1>4. pc' = "check" \/ pc' \in {"failure", "read", "success"}
  BY <1>1 DEF Refuse
<1>5. pc' = "check" => Shaped'
  <2>1. SUFFICES ASSUME pc' = "check" PROVE Shaped'
    OBVIOUS
  <2>2. d.ok
    BY <1>1, <2>1 DEF Refuse
  <2>3. In' \in Readings(t) /\ t.bytes # <<>>
    BY <1>1, <1>3, <2>2 DEF In
  <2>4. PICK b : b = In'
    OBVIOUS
  <2>5. /\ IsBytes(b)
        /\ Size(b) \in Sizes["address"] => StartsWithByte(b)
        /\ Size(b) \in Sizes["private-key-wif"] => StartsWithByte(b) /\ b[2][1] = 32
    BY <2>3, <2>4, FieldsAssumption
  <2>6. QED
    BY <2>4, <2>5 DEF Shaped
<1>6. Sized(self)'
  BY <1>2 DEF SizesInv, Sized
<1>7. QED
  BY <1>2, <1>4, <1>5, <1>6 DEF SizesInv, ReadsBack

\* What is loaded has the size of what it is loaded into.
LEMMA SizedLoad ==
  ASSUME Sized(self), Accepted
  PROVE  /\ Sized(Loaded(In))
         /\ options.input_type \in KeyTypes /\ options.network_type \in NetworkNames \cup {Null}
              => Loaded(In).private_network \in NetworkNames
<1> DEFINE type == options.input_type
<1>1. DOMAIN self = SelfFields /\ type \in InputTypes
  BY DEF Sized, Accepted
<1>2. InputTypes \ {"mini-private-key"} \subseteq OutputTypes \ {"all", "address-checksum"}
  BY DEF OutputTypes, InputTypes
<1>3. CASE type = "mini-private-key"
  <2>1. PICK h, r : h = Sha(In) /\ r = Loaded(In)
    OBVIOUS
  <2>2. IsBytes(h) /\ Size(h) = 32
    BY <2>1, HashSizes
  <2>3. r = LoadMini(In)
    BY <1>3, <2>1 DEF Loaded
  <2>4. /\ DOMAIN r = SelfFields
        /\ r.address = self.address /\ r.public_key_sha = self.public_key_sha
        /\ r.public_key_rmd = self.public_key_rmd /\ r.private_key = h
        /\ r.public_key = self.public_key
        /\ r.set = self.set \cup {"private-key", "private-key-wif"}
        /\ r.private_network = IF options.network_type = Null THEN "bitcoin"
                               ELSE options.network_type
    BY <1>1, <2>1, <2>3 DEF LoadMini, Set, SelfFields
  <2>5. Sized(r)
    BY <1>2, <2>2, <2>4 DEF Sized, InputTypes
  <2>6. QED
    BY <2>1, <2>4, <2>5, BitcoinIsNetwork
<1>4. CASE type = "private-key"
  <2>1. PICK r : r = Loaded(In)
    OBVIOUS
  <2>2. IsBytes(In) /\ Size(In) = 32 /\ options.network_type # Null
    BY <1>4, SizesAre DEF Accepted, Acceptable, Shaped
  <2>3. r = LoadPrivateKey(In)
    BY <1>4, <2>1 DEF Loaded
  <2>4. /\ DOMAIN r = SelfFields
        /\ r.address = self.address /\ r.public_key_sha = self.public_key_sha
        /\ r.public_key_rmd = self.public_key_rmd /\ r.private_key = In
        /\ r.public_key = self.public_key
        /\ r.set = self.set \cup {"private-key"}
        /\ r.private_network = options.network_type
    BY <1>1, <2>3 DEF LoadPrivateKey, Set, SelfFields
  <2>5. Sized(r)
    BY <1>2, <2>2, <2>4 DEF Sized, InputTypes
  <2>6. QED
    BY <2>1, <2>2, <2>4, <2>5
<1>5. CASE type = "private-key-wif"
  <2>1. PICK k, n, r : /\ k = <<In[2]>> /\ r = Loaded(In)
                       /\ n = GetNetworkTypeByPrivateKeyPrefix(In[1][3])
    OBVIOUS
  <2>2. Size(In) \in Sizes["private-key-wif"] /\ n # Null
    BY <1>5, <2>1 DEF Accepted, Acceptable
  <2>3. IsBytes(k) /\ Size(k) = 32
    BY <2>1, <2>2, OneField DEF Accepted, Shaped
  <2>4. n \in NetworkNames
    BY <2>1, <2>2, FoundIsNetwork, Table DEF GetNetworkTypeByPrivateKeyPrefix
  <2>5. r = LoadWIF(In)
    BY <1>5, <2>1 DEF Loaded
  <2>6. /\ DOMAIN r = SelfFields
        /\ r.address = self.address /\ r.public_key_sha = self.public_key_sha
        /\ r.public_key_rmd = self.public_key_rmd /\ r.private_key = k
        /\ r.public_key = self.public_key
        /\ r.set = self.set \cup {"private-key-wif"}
        /\ r.private_network = n
    BY <1>1, <2>1, <2>5 DEF LoadWIF, Set, SelfFields
  <2>7. Sized(r)
    BY <1>2, <2>3, <2>6 DEF Sized, InputTypes
  <2>8. QED
    BY <2>1, <2>4, <2>6, <2>7
<1>6. CASE type = "public-key"
  <2>1. PICK r : r = Loaded(In)
    OBVIOUS
  <2>2. Size(In) \in {33, 65}
    BY <1>6, SizesAre DEF Accepted, Acceptable
  <2>3. r = LoadPublicKey(In)
    BY <1>6, <2>1 DEF Loaded
  <2>4. /\ DOMAIN r = SelfFields
        /\ r.address = self.address /\ r.public_key_sha = self.public_key_sha
        /\ r.public_key_rmd = self.public_key_rmd /\ r.private_key = self.private_key
        /\ r.public_key = In
        /\ r.set = self.set \cup {"public-key"}
    BY <1>1, <2>3 DEF LoadPublicKey, Set, SelfFields
  <2>5. Sized(r)
    BY <1>2, <2>2, <2>4 DEF Sized, InputTypes
  <2>6. QED
    BY <1>6, <2>1, <2>5 DEF KeyTypes
<1>7. CASE type = "public-key-sha"
  <2>1. PICK r : r = Loaded(In)
    OBVIOUS
  <2>2. Size(In) = 32
    BY <1>7, SizesAre DEF Accepted, Acceptable
  <2>3. r = [Set(self, {"public-key-sha"}) EXCEPT !.public_key_sha = In]
    BY <1>7, <2>1 DEF Loaded
  <2>4. /\ DOMAIN r = SelfFields
        /\ r.address = self.address /\ r.public_key_sha = In
        /\ r.public_key_rmd = self.public_key_rmd /\ r.private_key = self.private_key
        /\ r.public_key = self.public_key
        /\ r.set = self.set \cup {"public-key-sha"}
    BY <1>1, <2>3 DEF Set, SelfFields
  <2>5. Sized(r)
    BY <1>2, <2>2, <2>4 DEF Sized, InputTypes
  <2>6. QED
    BY <1>7, <2>1, <2>5 DEF KeyTypes
<1>8. CASE type = "public-key-rmd"
  <2>1. PICK r : r = Loaded(In)
    OBVIOUS
  <2>2. IsBytes(In) /\ Size(In) = 20
    BY <1>8, SizesAre DEF Accepted, Acceptable, Shaped
  <2>3. r = [Set(self, {"public-key-rmd"}) EXCEPT !.public_key_rmd = In]
    BY <1>8, <2>1 DEF Loaded
  <2>4. /\ DOMAIN r = SelfFields
        /\ r.address = self.address /\ r.public_key_sha = self.public_key_sha
        /\ r.public_key_rmd = In /\ r.private_key = self.private_key
        /\ r.public_key = self.public_key
        /\ r.set = self.set \cup {"public-key-rmd"}
    BY <1>1, <2>3 DEF Set, SelfFields
  <2>5. Sized(r)
    BY <1>2, <2>2, <2>4 DEF Sized, InputTypes
  <2>6. QED
    BY <1>8, <2>1, <2>5 DEF KeyTypes
<1>9. CASE type = "address"
  <2>1. PICK r : r = Loaded(In)
    OBVIOUS
  <2>2. Size(In) = 21
    BY <1>9, SizesAre DEF Accepted, Acceptable
  <2>3. r = [Set(self, {"address"}) EXCEPT !.address = In]
    BY <1>9, <2>1 DEF Loaded
  <2>4. /\ DOMAIN r = SelfFields
        /\ r.address = In /\ r.public_key_sha = self.public_key_sha
        /\ r.public_key_rmd = self.public_key_rmd /\ r.private_key = self.private_key
        /\ r.public_key = self.public_key
        /\ r.set = self.set \cup {"address"}
    BY <1>1, <2>3 DEF Set, SelfFields
  <2>5. Sized(r)
    BY <1>2, <2>2, <2>4 DEF Sized, InputTypes
  <2>6. QED
    BY <1>9, <2>1, <2>5 DEF KeyTypes
<1>10. QED
  BY <1>1, <1>3, <1>4, <1>5, <1>6, <1>7, <1>8, <1>9 DEF InputTypes

LEMMA SizedCheck ==
  ASSUME ConversionInv, SizesInv, CheckInputSize
  PROVE  SizesInv'
<1>1. /\ pc = "check" /\ UNCHANGED <<options, input, written>>
      /\ \/ Acceptable(In) /\ self' = Loaded(In) /\ pc' = "convert"
         \/ self' = self /\ pc' = "failure"
  BY DEF CheckInputSize, Ends, In
<1>2. /\ Sized(self) /\ Shaped /\ written = {}
      /\ options.input_type \in InputTypes
      /\ options.network_type \in NetworkNames \cup {Null}
  BY <1>1 DEF SizesInv, ConversionInv, BetweenLines, Running, OptionsType
<1>3. UNCHANGED Shaped /\ (Acceptable(In) => Acceptable(In)')
  BY <1>1 DEF Shaped, In, Acceptable
<1>4. CASE pc' = "failure"
  <2>1. Sized(self)'
    BY <1>1, <1>2, <1>4 DEF Sized
  <2>2. QED
    BY <1>1, <1>2, <1>4, <2>1 DEF SizesInv, ReadsBack
<1>5. CASE Acceptable(In) /\ self' = Loaded(In) /\ pc' = "convert"
  <2>1. /\ Sized(Loaded(In))
        /\ options.input_type \in KeyTypes => Loaded(In).private_network \in NetworkNames
    BY <1>2, <1>5, SizedLoad DEF Accepted
  <2>2. Sized(self)'
    BY <1>5, <2>1 DEF Sized
  <2>3. QED
    BY <1>1, <1>2, <1>3, <1>5, <2>1, <2>2 DEF SizesInv, ReadsBack
<1>6. QED
  BY <1>1, <1>4, <1>5

LEMMA NotDue ==
  ASSUME options.input_type \in InputTypes \ KeyTypes,
         \/ Out \notin Above(Privates)
         \/ Out \notin Above(Publics)
         \/ Out \notin Above(Shas)
  PROVE  "private-key-wif" \notin Due
<1>1. "private-key-wif" \notin Reached
  BY ReachedFrom DEF Given, InputTypes, KeyTypes, Privates, Publics, Shas, Rmds
<1>2. \A types \in {Privates, Publics, Shas} : "private-key-wif" \in Above(types)
  BY DEF Above, OutputTypes, InputTypes, Privates, Publics, Shas, Rmds
<1>3. Out # "private-key-wif"
  BY <1>2
<1>4. QED
  BY <1>1, <1>3 DEF Due

\* The conversion keeps the sizes, and the network of a key; and it is not
\* possible from anything else than a key to a WIF key.
LEMMA SizedConversion ==
  ASSUME ConversionInv, SizesInv, pc = "convert"
  PROVE  /\ Sized(Conversion.self)
         /\ Conversion.ok => /\ options.input_type \in KeyTypes =>
                                  Conversion.self.private_network \in NetworkNames
                             /\ options.input_type \notin KeyTypes =>
                                  "private-key-wif" \notin Due
<1>1. /\ Sized(self) /\ DOMAIN self = SelfFields /\ Accepted /\ FormLoaded
      /\ options.input_type \in InputTypes
      /\ options.input_type \in KeyTypes => self.private_network \in NetworkNames
  BY DEF SizesInv, ConversionInv, BetweenLines, Running, Accepted, Sized
<1>2. CASE options.input_type \in {"mini-private-key", "private-key"}
  <2>1. Conversion = FromPrivate(self)
    BY <1>2 DEF Conversion
  <2> DEFINE t == Set(self, {"private-key-wif"})
  <2>2. DOMAIN t = SelfFields /\ t.private_network = self.private_network
    BY <1>1 DEF Set, SelfFields
  <2>3. \/ FromPrivate(self) = Converted(self) \/ FromPrivate(self) = FromWIF(t)
        \/ FromPrivate(self) = FromWIF(self)
    BY DEF FromPrivate
  <2> HIDE DEF t
  <2>4. Converted(self).self = self
    BY DEF Converted
  <2>5. Conversion.ok => Conversion.self.private_network = self.private_network
    BY <1>1, <2>1, <2>2, <2>3, <2>4, WIFStage DEF SameKey
  <2>6. QED
    BY <1>1, <1>2, <2>1, <2>5, PrivateSized DEF KeyTypes
<1>3. CASE options.input_type = "private-key-wif"
  <2>1. Conversion = FromWIF(self)
    BY <1>3 DEF Conversion
  <2>2. QED
    BY <1>1, <1>3, <2>1, WIFStage, WIFSized DEF SameKey, KeyTypes
<1>4. CASE options.input_type = "public-key"
  <2>1. Conversion = FromPublic(self)
    BY <1>4 DEF Conversion
  <2>2. Conversion.ok => Out \notin Above(Privates)
    BY <1>1, <2>1, PublicStage
  <2>3. options.input_type \in InputTypes \ KeyTypes
    BY <1>4 DEF KeyTypes, InputTypes
  <2>4. Conversion.ok => "private-key-wif" \notin Due
    BY <2>2, <2>3, NotDue
  <2>5. Sized(Conversion.self)
    BY <1>1, <2>1, PublicSized
  <2>6. QED
    BY <2>3, <2>4, <2>5
<1>5. CASE options.input_type = "public-key-sha"
  <2>1. Conversion = FromSha(self)
    BY <1>5 DEF Conversion
  <2>2. Conversion.ok => Out \notin Above(Publics)
    BY <1>1, <2>1, ShaStage
  <2>3. options.input_type \in InputTypes \ KeyTypes
    BY <1>5 DEF KeyTypes, InputTypes
  <2>4. Conversion.ok => "private-key-wif" \notin Due
    BY <2>2, <2>3, NotDue
  <2>5. Sized(Conversion.self)
    BY <1>1, <2>1, ShaSized
  <2>6. QED
    BY <2>3, <2>4, <2>5
<1>6. CASE options.input_type = "public-key-rmd"
  <2>1. Conversion = FromRmd(self)
    BY <1>6 DEF Conversion
  <2>2. Conversion.ok => Out \notin Above(Shas)
    BY <1>1, <2>1, RmdStage
  <2>3. options.input_type \in InputTypes \ KeyTypes
    BY <1>6 DEF KeyTypes, InputTypes
  <2>4. Conversion.ok => "private-key-wif" \notin Due
    BY <2>2, <2>3, NotDue
  <2>5. Sized(Conversion.self)
    BY <1>1, <2>1, RmdSized
  <2>6. QED
    BY <2>3, <2>4, <2>5
<1>7. CASE options.input_type = "address"
  <2>1. Conversion = FromAddress(self)
    BY <1>7 DEF Conversion
  <2>2. Conversion.ok => Out \notin Above(Shas)
    BY <1>1, <2>1, AddressStage
  <2>3. self.address = In /\ IsBytes(In) /\ Size(In) = 21 /\ StartsWithByte(In)
    BY <1>1, <1>7, GivenSize, SizesAre DEF FormLoaded, Given, Accepted, Shaped
  <2>4. IsBytes(Tail(self.address)) /\ Size(Tail(self.address)) = 20
    BY <2>3, AddressTail
  <2>5. options.input_type \in InputTypes \ KeyTypes
    BY <1>7 DEF KeyTypes, InputTypes
  <2>6. Conversion.ok => "private-key-wif" \notin Due
    BY <2>2, <2>5, NotDue
  <2>7. Sized(Conversion.self)
    BY <1>1, <2>1, <2>4, AddressSized
  <2>8. QED
    BY <2>5, <2>6, <2>7
<1>8. QED
  BY <1>1, <1>2, <1>3, <1>4, <1>5, <1>6, <1>7 DEF InputTypes

LEMMA SizedConvert ==
  ASSUME ConversionInv, SizesInv, ConvertInputToOutput
  PROVE  SizesInv'
<1>1. /\ pc = "convert" /\ UNCHANGED <<options, input, written>>
      /\ self' = Conversion.self
      /\ (Conversion.ok /\ pc' = "write") \/ pc' = "failure"
  BY DEF ConvertInputToOutput, Ends
<1>2. Shaped /\ written = {} /\ Acceptable(In)
  BY <1>1 DEF SizesInv
<1>3. UNCHANGED <<Shaped, Due>> /\ Acceptable(In)'
  BY <1>1, <1>2 DEF Shaped, In, Acceptable, Due, Out, Reached, Given
<1>4. Sized(self)'
  BY <1>1, SizedConversion DEF Sized
<1>5. QED
  BY <1>1, <1>2, <1>3, <1>4, SizedConversion DEF SizesInv, ReadsBack

-----------------------------------------------------------------------------
\* The tool takes back this output, as what it was.
ReadBack(o) ==
  IF o.text.format = "bech32"
  THEN o.type = "address" /\ ~Given("address") =>
         self.address[1] =
           Byte(GetPublicKeyPrefix(GetNetworkTypeByHrp(o.text.hrp)))
  ELSE o.type # "address-checksum" =>
         /\ Size(o.text.bytes) \in Sizes[o.type]
         /\ o.type = "private-key-wif" =>
              LET n == GetNetworkTypeByPrivateKeyPrefix(o.text.bytes[1][3])
              IN n # Null /\ GetPublicKeyPrefix(n) =
                                GetPublicKeyPrefix(self.private_network)

LEMMA HrpReadsBack ==
  ASSUME ConversionInv, SizesInv, pc = "write", "address" \in Due,
         ~Given("address"), options.network_type # Null
  PROVE  self.address[1] =
           Byte(GetPublicKeyPrefix(GetNetworkTypeByHrp(Type(options.network_type).hrp)))
<1>1. options.network_type \in NetworkNames
  BY DEF ConversionInv, OptionsType
<1>2. GetNetworkTypeByHrp(Type(options.network_type).hrp) = options.network_type
  BY <1>1, HrpFound
<1>3. self.address = <<PublicPrefixNow>> \o RmdOf(In)
  BY
     DEF ConversionInv, DueIsMeant, OutputRaw, Meant, MeantNow,
         PrivatePrefixNow, AddressNow, AddressOf, PublicPrefixNow
<1>4. PublicPrefixNow = Byte(GetPublicKeyPrefix(options.network_type))
  BY DEF PublicPrefixOf, PublicPrefixNow, NetworkOf
<1>5. Accepted
  BY DEF Accepted, ConversionInv, SizesInv, BetweenLines, Running
<1>6. PICK F : RmdOf(In) \in Seq(F)
  BY <1>5, RmdSize DEF IsBytes
<1>7. (<<PublicPrefixNow>> \o RmdOf(In))[1] = PublicPrefixNow
  BY <1>6, Z3
<1>8. QED
  BY <1>2, <1>3, <1>4, <1>7

LEMMA WIFReadsBack ==
  ASSUME ConversionInv, SizesInv, pc = "write", "private-key-wif" \in Due,
         NEW n, n = GetNetworkTypeByPrivateKeyPrefix(OutputRaw("private-key-wif")[1][3])
  PROVE  n # Null /\ GetPublicKeyPrefix(n) = GetPublicKeyPrefix(self.private_network)
<1>1. self.private_network \in NetworkNames
  BY DEF SizesInv
<1>2. PICK p, k, c : /\ p = Byte(GetPrivateKeyPrefix(self.private_network))
                     /\ k = self.private_key
                     /\ c = IF self.private_compression = "compressed"
                            THEN <<Byte(1)>> ELSE <<>>
  OBVIOUS
<1>3. OutputRaw("private-key-wif") = (<<p>> \o k) \o c
  BY <1>2 DEF OutputRaw
<1>4. IsBytes(k) /\ IsBytes(c)
  BY <1>2, ByteSize, NoBytes DEF SizesInv, Sized
<1>5. PICK F, G : k \in Seq(F) /\ c \in Seq(G)
  BY <1>4 DEF IsBytes
<1>6. PICK H : H = F \cup G \cup {p}
  OBVIOUS
<1>7. k \in Seq(H) /\ c \in Seq(H) /\ p \in H
  BY <1>5, <1>6
<1>8. ((<<p>> \o k) \o c)[1] = p
  BY <1>7
<1>9. p[3] = GetPrivateKeyPrefix(self.private_network)
  BY <1>2 DEF Byte
<1>10. QED
  BY <1>1, <1>3, <1>8, <1>9, NetworkByPrefix

LEMMA OutputReadsBack ==
  ASSUME ConversionInv, SizesInv, pc = "write", NEW format, ~NullHrp(format),
         NEW type \in OutputTypes \ {"all"},
         type # "address-checksum" => type \in Due
  PROVE  ReadBack(Output(type, format))
<1>1. Accepted /\ DueIsMeant
  BY DEF Accepted, ConversionInv, SizesInv, BetweenLines, Running
<1>2. Output(type, format).type = type
  BY DEF Output
<1>3. CASE format = "bech32"
  <2>1. /\ Output(type, format).text.format = "bech32"
        /\ Output(type, format).text.hrp = Type(options.network_type).hrp
    BY <1>3 DEF Output, Text
  <2>2. options.network_type # Null
    BY <1>3 DEF NullHrp
  <2>3. QED
    BY <1>2, <2>1, <2>2, HrpReadsBack DEF ReadBack
<1>4. CASE format # "bech32"
  <2>1. /\ Output(type, format).text.format # "bech32"
        /\ Output(type, format).text.bytes = OutputRaw(type)
    BY <1>4 DEF Output, Text
  <2>2. type # "address-checksum" => Size(OutputRaw(type)) \in Sizes[type]
    <3>1. SUFFICES ASSUME type # "address-checksum"
                   PROVE  Size(OutputRaw(type)) \in Sizes[type]
      OBVIOUS
    <3>2. OutputRaw(type) = MeantNow(type)
      BY <1>1, <3>1 DEF DueIsMeant
    <3>3. Size(MeantNow(type)) \in Sizes[type]
      BY <1>1, <3>1, MeantSize
    <3>4. QED
      BY <3>2, <3>3
  <2>3. QED
    BY <1>2, <2>1, <2>2, WIFReadsBack DEF ReadBack
<1>5. QED
  BY <1>3, <1>4

\* What a step leaves of the invariant once nothing is being read or written.
LEMMA SizedEnd ==
  ASSUME SizesInv, self' = self, pc' \in {"parse", "read"} \cup Ended,
         \/ written' = {}
         \/ \A o \in written' : o.type \in OutputTypes \ {"all"} /\ ReadBack(o)'
  PROVE  SizesInv'
<1>1. Sized(self)'
  BY DEF SizesInv, Sized
<1>2. pc' \notin {"check", "convert", "write"}
  BY DEF Ended
<1>3. /\ \A o \in written' : o.type \in OutputTypes \ {"all"}
      /\ \A o \in written' : ReadBack(o)'
  OBVIOUS
<1>4. ReadsBack'
  BY <1>3 DEF ReadsBack, ReadBack
<1>5. QED
  BY <1>1, <1>2, <1>3, <1>4 DEF SizesInv

LEMMA SizedRun ==
  ASSUME ConversionInv, SizesInv, Run
  PROVE  SizesInv'
<1>1. /\ pc = "parse" /\ written' = {} /\ pc' \in {"read", "failure"}
      /\ \/ self' = self
         \/ self' = [self EXCEPT !.private_compression = options.public_key_compression]
  BY DEF Run, Ends, ConversionInv
<1>2. Sized(self)
  BY DEF SizesInv
<1>3. /\ DOMAIN self' = SelfFields
      /\ self'.address = self.address /\ self'.public_key_sha = self.public_key_sha
      /\ self'.public_key_rmd = self.public_key_rmd
      /\ self'.private_key = self.private_key
      /\ self'.public_key = self.public_key /\ self'.set = self.set
  BY <1>1, <1>2 DEF Sized, SelfFields
<1>4. Sized(self)'
  BY <1>2, <1>3 DEF Sized
<1>5. QED
  BY <1>1, <1>4 DEF SizesInv, ReadsBack

LEMMA SizedWrite ==
  ASSUME ConversionInv, SizesInv, WriteOutput
  PROVE  SizesInv'
<1>1. /\ pc = "write" /\ UNCHANGED <<options, self>> /\ Out # "all"
      /\ ~NullHrp(options.output_format)
      /\ \/ written' = {Output(Out, options.output_format)}
         \/ written' = written
      /\ pc' \in {"read"} \cup Ended
  BY DEF WriteOutput, AfterOutput, Ends, Ended
<1>2. Out \in OutputTypes \ {"all"} /\ (Out # "address-checksum" => Out \in Due)
  BY <1>1 DEF ConversionInv, Running, BetweenLines, Due
<1>3. PICK o : o = Output(Out, options.output_format)
  OBVIOUS
<1>4. ReadBack(o) /\ o.type \in OutputTypes \ {"all"}
  BY <1>1, <1>2, <1>3, OutputReadsBack DEF Output
<1>5. ReadBack(o)'
  BY <1>1, <1>4 DEF ReadBack, Given
<1>6. written = {}
  BY <1>1 DEF SizesInv
<1>7. QED
  BY <1>1, <1>3, <1>4, <1>5, <1>6, SizedEnd

LEMMA SizedWriteAll ==
  ASSUME ConversionInv, SizesInv, WriteAllOutput
  PROVE  SizesInv'
<1>1. /\ pc = "write" /\ UNCHANGED <<options, self>> /\ Out = "all"
      /\ ~NullHrp("bech32")
      /\ written' = {Output(a[1], a[2]) : a \in AllOutputs}
      /\ pc' \in {"read"} \cup Ended
  BY DEF WriteAllOutput, AfterOutput, Ended
<1>2. ASSUME NEW o \in written'
      PROVE  o.type \in OutputTypes \ {"all"} /\ ReadBack(o)
  <2>1. PICK a \in AllOutputs : o = Output(a[1], a[2])
    BY <1>1, <1>2
  <2>2. PICK type, format : type = a[1] /\ format = a[2]
    OBVIOUS
  <2>3. /\ type \in OutputTypes \ {"all"}
        /\ type \in self.set \/ type = "address-checksum"
    BY <2>2 DEF AllOutputs
  <2>4. type # "address-checksum" => type \in Due
    BY <1>1, <2>3 DEF ConversionInv, Running, BetweenLines, Due
  <2>5. ~NullHrp(format)
    BY <1>1 DEF NullHrp
  <2>6. ReadBack(Output(type, format)) /\ Output(type, format).type = type
    BY <1>1, <2>3, <2>4, <2>5, OutputReadsBack DEF Output
  <2>7. QED
    BY <2>1, <2>2, <2>3, <2>6
<1>3. ASSUME NEW o \in written'
      PROVE  o.type \in OutputTypes \ {"all"} /\ ReadBack(o)'
  <2>1. o.type \in OutputTypes \ {"all"} /\ ReadBack(o)
    BY <1>2
  <2>2. QED
    BY <1>1, <2>1 DEF ReadBack, Given
<1>4. QED
  BY <1>1, <1>3, SizedEnd

\* A step that changes nothing, and the end of the program with what has been
\* written.
LEMMA SizedStill ==
  ASSUME SizesInv, UNCHANGED <<options, input, self, written>>,
         pc' \in Ended \/ UNCHANGED pc
  PROVE  SizesInv'
<1>1. Sized(self)' /\ ReadsBack'
  BY DEF SizesInv, Sized, ReadsBack, Given
<1>2. UNCHANGED <<Shaped, Due>> /\ Acceptable(In)' = Acceptable(In)
  BY DEF Shaped, In, Acceptable, Due, Out, Reached, Given
<1>3. QED
  BY <1>1, <1>2 DEF SizesInv, Ended

-----------------------------------------------------------------------------
LEMMA SizedStep == ConversionInv /\ SizesInv /\ [Next]_vars => SizesInv'
<1> SUFFICES ASSUME ConversionInv, SizesInv, [Next]_vars
             PROVE  SizesInv'
  OBVIOUS
<1>1. CASE ParseArgument
  <2>1. self' = self /\ written' = {} /\ pc' \in {"parse", "failure"}
    BY <1>1 DEF ParseArgument, Ends, ConversionInv
  <2>2. QED
    BY <2>1, SizedEnd DEF Ended
<1>2. CASE Run
  BY <1>2, SizedRun
<1>3. CASE NothingRead
  <2>1. self' = self /\ written' = {} /\ pc' \in {"read", "success", "failure"}
    BY <1>3 DEF NothingRead, Refuse
  <2>2. QED
    BY <2>1, SizedEnd DEF Ended
<1>4. CASE ReadLine \/ ReadOnce
  <2>1. pc = "read" /\ \E t \in Texts : ParseText(t)
    BY <1>4 DEF ReadLine, ReadOnce, Readable
  <2>2. QED
    BY <2>1, SizedRead
<1>5. CASE CheckInputSize
  BY <1>5, SizedCheck
<1>6. CASE ConvertInputToOutput
  BY <1>6, SizedConvert
<1>7. CASE WriteOutput
  BY <1>7, SizedWrite
<1>8. CASE WriteAllOutput
  BY <1>8, SizedWriteAll
<1>9. CASE EndOfFile \/ Crash \/ Done \/ UNCHANGED vars
  <2>1. /\ UNCHANGED <<options, input, self, written>>
        /\ pc' \in Ended \/ UNCHANGED pc
    BY <1>9 DEF EndOfFile, Crash, Done, Ends, Ended, vars
  <2>2. QED
    BY <2>1, SizedStill
<1>10. QED
  BY <1>1, <1>2, <1>3, <1>4, <1>5, <1>6, <1>7, <1>8, <1>9 DEF Next

THEOREM SizesInvariant == Spec => []SizesInv
<1>1. QED
  BY SizedInit, SizedStep, ConversionInvariant, PTL DEF Spec

\* The tool takes back whatever it has written as what it was: CheckInputSize
\* knows a type by its size alone, and what is written of a type always has
\* one of its sizes; a WIF key leads back to a network with the prefixes of
\* its own, and the HRP of an address to the byte bech32 has left away.
THEOREM WrittenReadsBack == Spec => []ReadsBack
<1>1. SizesInv => ReadsBack
  BY DEF SizesInv
<1>2. QED
  BY <1>1, SizesInvariant, PTL

\* Where the program is, and how far in its file.
BoundsInv ==
  /\ pc \in {"parse"} \cup Running \cup Ended
  /\ file.left \in 0 .. MaxLines /\ lines.of \in 0 .. MaxLines

LEMMA BoundsInit == Init => BoundsInv
<1>1. SUFFICES ASSUME Init PROVE BoundsInv
  OBVIOUS
<1>2. file.left \in 0 .. MaxLines
  BY <1>1 DEF Init
<1>3. pc = "parse" /\ lines.of = file.left
  BY <1>1 DEF Init
<1>4. QED
  BY <1>2, <1>3 DEF BoundsInv

LEMMA BoundsStep == RecordsInv /\ BoundsInv /\ [Next]_vars => BoundsInv'
<1> SUFFICES ASSUME RecordsInv, BoundsInv, [Next]_vars
             PROVE  BoundsInv'
  OBVIOUS
<1>1. ASSUME NEW t, ParseText(t)
      PROVE  lines'.of = lines.of /\ pc' \in {"check", "read", "success", "failure"}
  BY <1>1 DEF ParseText, Refuse, RecordsInv, LinesType
<1>2. lines'.of = lines.of
  BY <1>1
     DEF Next, vars, ParseArgument, Run, NothingRead, EndOfFile, ReadLine,
         ReadOnce, CheckInputSize, ConvertInputToOutput, WriteOutput,
         WriteAllOutput, AfterOutput, Crash, Done, RecordsInv, LinesType
<1>3. pc' \in {"parse"} \cup Running \cup Ended
  BY <1>1
     DEF Next, vars, ParseArgument, Run, NothingRead, EndOfFile, ReadLine,
         ReadOnce, CheckInputSize, ConvertInputToOutput, WriteOutput,
         WriteAllOutput, AfterOutput, Crash, Done, Refuse, Ends, Running, Ended, BoundsInv
<1>4. file'.left \in 0 .. MaxLines
  <2>1. CASE ReadLine
    <3>1. file.left > 0 /\ file' = [file EXCEPT !.left = file.left - 1,
                                     !.eof = file.left = 1 /\ ~file.terminated]
      BY <2>1 DEF ReadLine
    <3>2. file'.left = file.left - 1
      BY <3>1 DEF RecordsInv
    <3>3. QED
      BY <3>1, <3>2, MaxLinesAssumption DEF BoundsInv
  <2>2. CASE NothingRead
    <3>1. file'.left = file.left
      BY <2>2 DEF NothingRead, RecordsInv
    <3>2. QED
      BY <3>1 DEF BoundsInv
  <2>3. CASE ~ReadLine /\ ~NothingRead
    <3>1. file' = file
      BY <2>3
         DEF Next, vars, ParseArgument, Run, EndOfFile, ReadOnce,
             CheckInputSize,
            ConvertInputToOutput, WriteOutput, WriteAllOutput, Crash, Done
    <3>2. QED
      BY <3>1 DEF BoundsInv
  <2>4. QED
    BY <2>1, <2>2, <2>3
<1>5. QED
  BY <1>2, <1>3, <1>4 DEF BoundsInv

\* Every variable keeps its type: of the record that is never cleared, each
\* hash, key and address has its size through all the lines of a batch.
THEOREM ToolTypes == Spec => []TypeOK
<1>1. BatchInv /\ BoundsInv /\ [Next]_vars => BoundsInv'
  BY BoundsStep DEF BatchInv
<1>2. ConversionInv /\ BatchInv /\ SizesInv /\ BoundsInv => TypeOK
  BY
     DEF ConversionInv, BatchInv, RecordsInv, SizesInv, Sized, BoundsInv,
         Running, TypeOK
<1>3. QED
  BY <1>1, <1>2, BoundsInit, ConversionInvariant, BatchInvariant, SizesInvariant, PTL
     DEF Spec
=============================================================================
