------------------------------ MODULE Networks ------------------------------
(* prefix.c of bitcoin-tool: the networks it knows, and the three ways it   *)
(* finds one. A pointer to a network is the network's name here, the null   *)
(* pointer is Null; the script prefixes, which nothing reads, are left out. *)
EXTENDS Naturals, Sequences

Null == "NULL"

Network(name, hrp, public, private) ==
  [name |-> name, hrp |-> hrp,
   public_key_prefix |-> public, private_key_prefix |-> private]

network_types == <<
  Network("bitcoin",             "bc",   0,   128),
  Network("bitcoin-testnet",     "tb",   111, 239),
  Network("litecoin",            "ltc",  48,  48 + 128),
  Network("litecoin-testnet",    "tltc", 111, 111 + 128),
  Network("feathercoin",         "fc",   14,  14 + 128),
  Network("feathercoin-testnet", "tfc",  111, 111 + 128),
  Network("dogecoin",            "dc",   30,  30 + 128),
  Network("dogecoin-testnet",    "tdc",  113, 113 + 128),
  Network("quarkcoin",           "qc",   58,  58 + 128),
  Network("quarkcoin-testnet",   "tqc",  119, 119 + 128),
  Network("darkcoin",            "xc",   76,  76 + 128),
  Network("darkcoin-testnet",    "txc",  111, 111 + 128),
  Network("jumbucks",            "jb",   43,  43 + 128),
  Network("jumbucks-testnet",    "tjb",  107, 107 + 128),
  Network("peercoin",            "pc",   55,  55 + 128),
  Network("peercoin-testnet",    "tpc",  111, 111 + 128),
  Network("namecoin",            "nc",   52,  52 + 128),
  Network("namecoin-testnet",    "tn",   111, 111 + 128),
  Network("komodo",              "zs",   60,  60 + 128) >>

NetworkNames == {network_types[i].name : i \in DOMAIN network_types}

\* The first network of the table at one of the positions found.
First(found) ==
  IF found = {} THEN Null
  ELSE network_types[CHOOSE i \in found : \A j \in found : i <= j].name

GetNetworkTypeByName(name) ==
  First({i \in DOMAIN network_types : network_types[i].name = name})

GetNetworkTypeByHrp(hrp) ==
  First({i \in DOMAIN network_types : network_types[i].hrp = hrp})

GetNetworkTypeByPrivateKeyPrefix(prefix) ==
  First({i \in DOMAIN network_types :
           network_types[i].private_key_prefix = prefix})

Type(name) ==
  network_types[CHOOSE i \in DOMAIN network_types :
                  network_types[i].name = name]
GetPublicKeyPrefix(name)  == Type(name).public_key_prefix

\* Mutant: the other prefix.
GetPrivateKeyPrefixOfPublic(name) == Type(name).public_key_prefix
GetPrivateKeyPrefix(name) == Type(name).private_key_prefix
=============================================================================
