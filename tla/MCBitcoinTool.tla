--------------------------- MODULE MCBitcoinTool ---------------------------
(* Command lines and texts for the checks of BitcoinTool.                  *)
EXTENDS BitcoinTool

Opt(option, value) == <<<<option, value>>>>
Sw(option) == Opt(option, NoValue)

From(type, format) == Opt("input_type", type) \o Opt("input_format", format)
To(type, format) == Opt("output_type", type) \o Opt("output_format", format)
Line == Opt("input", "a text")
File == Opt("input_file", "a file")
In1(type, format, to, as) == Line \o From(type, format) \o To(to, as)

Networks3 == {<<>>, Opt("network", "bitcoin"), Opt("network", "dogecoin")}
Compression3 ==
  {<<>>} \cup {Opt("public_key_compression", c) : c \in Compressions \ {"auto"}}

\* One input: every type in every format it may come in, to every type.
Ways == {<<type, "hex">> : type \in InputTypes} \cup
        {<<type, "base58check">> : type \in InputTypes \ {"mini-private-key"}} \cup
        {<<"mini-private-key", "raw">>, <<"public-key", "raw">>,
         <<"address", "base58">>, <<"address", "bech32">>}
KeyTypes == {"private-key", "private-key-wif"}
Single ==
  {In1(w[1], w[2], to, as) \o net \o comp :
     w \in {<<"private-key", "hex">>, <<"private-key-wif", "base58check">>},
     to \in OutputTypes, as \in {"hex", "bech32"},
     net \in Networks3, comp \in Compression3} \cup
  {In1(w[1], w[2], to, as) \o net :
     w \in Ways, to \in OutputTypes, as \in {"base58check", "bech32"},
     net \in Networks3}

\* Many lines: the combinations of --batch, --ignore-input-errors and
\* --fix-base58check, in either order.
Fixing == {<<>>, Sw("fix_base58check"),
           Opt("fix_base58check_change_chars", "1") \o Sw("fix_base58check"),
           Sw("fix_base58check") \o Opt("fix_base58check_change_chars", "1"),
           Sw("fix_base58check") \o Opt("fix_base58check_change_chars", "")}
Batch ==
  {File \o batch \o ignore \o From(w[1], w[2]) \o To(w[3], w[4]) \o fix :
     batch \in {<<>>, Sw("batch")}, ignore \in {<<>>, Sw("ignore_input_errors")},
     w \in {<<"private-key-wif", "base58check", "address", "base58check">>,
            <<"private-key-wif", "base58check", "private-key-wif", "hex">>,
            <<"address", "base58check", "public-key-rmd", "hex">>},
     fix \in Fixing} \cup
  {File \o Sw("batch") \o ignore \o From(w[1], w[2]) \o To("all", "hex") \o net :
     ignore \in {<<>>, Sw("ignore_input_errors")},
     w \in {<<"private-key-wif", "base58check">>, <<"mini-private-key", "raw">>,
            <<"public-key", "hex">>, <<"address", "bech32">>},
     net \in Networks3}

\* Command lines that are not taken.
Bad ==
  {Opt("input_type", Missing), Opt("output_type", "key"), Line,
   Opt("fix_base58check_change_chars", "many"), Sw("help"),
   Opt("network", "bitcoin") \o Opt("public_key_prefix", "dogecoin"),
   Line \o Sw("batch") \o From("address", "hex") \o To("address", "hex"),
   In1("private-key", "hex", "address", "bech32") \o
     Opt("public_key_compression", "uncompressed")}

MCCommandLines == Single \cup Batch \cup Bad

\* The bech32 batches of the run on networks: none names a network.
Bech32Batches ==
  {File \o Sw("batch") \o From("address", "bech32") \o To("address", "hex")}

-----------------------------------------------------------------------------
K1 == <<<<32, "key", 1>>>>
K2 == <<<<32, "key", 2>>>>
H  == <<<<20, "hash", 1>>>>
Mini(key) == <<<<30, "mini", key>>>>
Wif(prefix, key, flag) == <<Byte(prefix)>> \o key \o flag
Plain(format, bytes) == Text(format, bytes, "", 0, FALSE)

MiniSized == {Mini(1), <<<<30, "not mini", 1>>>>}
Raws == {K1, ZeroKey, PublicKey(K1, "compressed"), PublicKey(K1, "uncompressed"),
         H, Sha(H), <<Byte(30)>> \o H,
         <<Byte(5)>> \o H, <<Byte(7)>>} \cup MiniSized
Wifs == {Wif(128, K1, <<>>), Wif(158, K2, <<Byte(1)>>), Wif(239, K1, <<Byte(1)>>),
         Wif(7, K1, <<>>)}
Mistyped == {Text("base58check", Wif(158, K2, <<Byte(1)>>), "", 1, FALSE),
             Text("base58check", <<Byte(30)>> \o H, "", 3, FALSE)}
Segwits == {Text("bech32", bytes, hrp, 0, TRUE) :
              bytes \in {H, Sha(H)}, hrp \in {"bc", "dc", "nobody"}} \cup
           {Text("bech32", H, "dc", 0, FALSE), Text("bech32", H, "dc", 1, TRUE)}

MCTexts ==
  {Plain("hex", bytes) : bytes \in Raws \cup Wifs} \cup
  {Plain("base58check", bytes) : bytes \in (Raws \ MiniSized) \cup Wifs} \cup
  {Plain("raw", Mini(1)), Plain("raw", Mini(2)),
   Plain("raw", <<Byte(49), <<32, "characters", 1>>>>), Plain("raw", <<>>)} \cup
  Mistyped \cup Segwits
=============================================================================
