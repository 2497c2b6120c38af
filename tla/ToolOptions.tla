---------------------------- MODULE ToolOptions -----------------------------
(* The command line of bitcoin-tool (parseOptions in main.c). An argument    *)
(* is a pair of an option, written with _ for - and without the leading --,  *)
(* and its value: Missing when the command line ends before it, NoValue for  *)
(* an option that takes none. Of --input and --input-file only whether they  *)
(* are there is kept: what they bring in is chosen when it is read.          *)
EXTENDS Networks

Missing == "missing"
NoValue == "no value"

InputTypes == {"address", "public-key-rmd", "public-key-sha", "public-key",
               "private-key-wif", "private-key", "mini-private-key"}
OutputTypes ==
  (InputTypes \ {"mini-private-key"}) \cup {"address-checksum", "all"}
Formats == {"raw", "hex", "base58", "base58check", "bech32"}
Compressions == {"auto", "compressed", "uncompressed"}

ValuesOf == [input_type |-> InputTypes, output_type |-> OutputTypes,
            input_format |-> Formats, output_format |-> Formats,
            public_key_compression |-> Compressions]

\* What sscanf(v, "%u") makes of a value: nothing of a word, and zero of an
\* empty one, for which it returns EOF and not 0.
Numbers == {"", "0", "1", "2", "3"}
Number(v) == CASE v = "1" -> 1 [] v = "2" -> 2 [] v = "3" -> 3 [] OTHER -> 0

DefaultChangeChars == 3

NoOptions ==
  [input |-> FALSE, input_file |-> FALSE, input_type |-> "none",
   input_format |-> "none", output_type |-> "none", output_format |-> "none",
   public_key_compression |-> "auto", fix_base58 |-> FALSE,
   fix_base58_change_chars |-> 0, network_type |-> Null, batch |-> FALSE,
   ignore_input_errors |-> FALSE]

OptionsType ==
  [input : BOOLEAN, input_file : BOOLEAN,
   input_type : InputTypes \cup {"none"}, input_format : Formats \cup {"none"},
   output_type : OutputTypes \cup {"none"},
   output_format : Formats \cup {"none"},
   public_key_compression : Compressions, fix_base58 : BOOLEAN,
   fix_base58_change_chars : 0 .. DefaultChangeChars,
   network_type : NetworkNames \cup {Null}, batch : BOOLEAN,
   ignore_input_errors : BOOLEAN]

\* The deprecated names of --network are still taken.
NetworkOptions == {"network", "private_key_prefix", "public_key_prefix"}
Switches == {"batch", "ignore_input_errors"}

\* Whether an argument is taken, given the options before it; if not, the
\* program ends. A network may be given once.
Takes(o, opt, v) ==
  \/ opt \in DOMAIN ValuesOf /\ v \in ValuesOf[opt]
  \/ opt \in {"input", "input_file"} /\ v # Missing
  \/ /\ opt \in NetworkOptions
     /\ o.network_type = Null
     /\ GetNetworkTypeByName(v) # Null
  \/ opt = "fix_base58check_change_chars" /\ v \in Numbers
  \/ opt = "fix_base58check"
  \/ opt \in Switches

\* The options after an argument that is taken. --fix-base58check sets the
\* number of characters to its default, also after it has been given.
ParseOption(o, opt, v) ==
  CASE opt \in DOMAIN ValuesOf -> [o EXCEPT ![opt] = v]
    [] opt \in {"input", "input_file"} \cup Switches -> [o EXCEPT ![opt] = TRUE]
    [] opt \in NetworkOptions ->
         [o EXCEPT !.network_type = GetNetworkTypeByName(v)]
    [] opt = "fix_base58check_change_chars" ->
         [o EXCEPT !.fix_base58_change_chars = Number(v)]
    [] opt = "fix_base58check" ->
         [o EXCEPT !.fix_base58 = TRUE,
                   !.fix_base58_change_chars = DefaultChangeChars]

\* The checks at the end of parseOptions: where the input is to come from,
\* and what has to be given. The output format is not among it.
Complete(o) ==
  /\ IF o.batch THEN ~o.input /\ o.input_file ELSE o.input \/ o.input_file
  /\ o.input_type # "none" /\ o.input_format # "none"
  /\ o.output_type # "none"
  /\ ~(o.output_format = "bech32" /\ o.public_key_compression = "uncompressed")
=============================================================================
