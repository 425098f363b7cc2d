---------------------------- MODULE BridgeConfig ----------------------------
(***************************************************************************)
(* The tables of the web front end (bridge-web/src/config/config.ts): the  *)
(* networks of the production and of the development build and the tokens  *)
(* each of them offers.  Of a token the page uses the name, whether it is  *)
(* the chain's own coin (address null), whether an old approval must be    *)
(* cleared first, and the networks it can be sent to.  Addresses, logos    *)
(* and explorer links are left out.                                        *)
(***************************************************************************)
EXTENDS Naturals, Sequences

ERC20(name, bridgesTo) ==
    [name |-> name, isNative |-> FALSE, needsAllowanceClearing |-> FALSE,
     bridgesTo |-> bridgesTo]

Coin(name, bridgesTo) == [ERC20(name, bridgesTo) EXCEPT !.isNative = TRUE]

ClearedERC20(name, bridgesTo) ==
    [ERC20(name, bridgesTo) EXCEPT !.needsAllowanceClearing = TRUE]

-----------------------------------------------------------------------------
(* import.meta.env.MODE === "production" *)

\* The nine tokens of zq from OPUL to FEES go to ethereum only.
zqToEthereum == {ERC20(n, {"ethereum"}) : n \in
                   {"OPUL", "BRKL", "WBTC", "USDT", "TRAXX", "LUNR", "dXCAD", "PORT",
                    "FEES"}}

zq == {ERC20("SEED", {"bsc"}), ERC20("HRSE", {"bsc", "base"}), ERC20("FPS", {"bsc"}),
       ERC20("POL", {"polygon"}), ERC20("XCAD", {"ethereum"}),
       Coin("ZIL", {"ethereum", "polygon", "arbitrum", "bsc"}),
       ERC20("ETH", {"ethereum", "arbitrum"}), ERC20("BNB", {"bsc"})}
      \cup zqToEthereum

polygon == {ERC20("ZIL", {"zq"}), Coin("POL", {"zq"})}

arbitrum == {ERC20("ZIL", {"zq"}), Coin("ETH", {"zq"})}

\* Mutant: one token's way back is forgotten.
ethereumMutant == {Coin("ETH", {"zq"}), ClearedERC20("USDT", {"zq"})}
                  \cup {ERC20(n, {"zq"}) : n \in
                          {"ZIL", "LUNR", "dXCAD", "PORT", "FEES", "OPUL", "BRKL",
                           "WBTC", "TRAXX"}}

ethereum == {Coin("ETH", {"zq"}), ClearedERC20("USDT", {"zq"})}
            \cup {ERC20(n, {"zq"}) : n \in
                    {"ZIL", "LUNR", "dXCAD", "PORT", "FEES", "XCAD", "OPUL", "BRKL",
                     "WBTC", "TRAXX"}}

bsc == {ERC20(n, {"zq"}) : n \in {"SEED", "HRSE", "FPS", "ZIL"}}
       \cup {Coin("BNB", {"zq"})}

base == {ERC20("HRSE", {"zq"})}

-----------------------------------------------------------------------------
(* the other build, against the test networks *)

zqTestnet == {ERC20(n, {"bsc-testnet"}) : n \in
                {"SEED", "TST", "TSLM", "TST2", "BNB", "SCLD"}}
             \cup {ERC20("ZBTST", {"bsc-testnet", "base-testnet"}),
                   Coin("ZIL", {"bsc-testnet"})}

bscTestnet == {ERC20(n, {"zq-testnet"}) : n \in
                 {"SEED", "TST", "TSLM", "TST2", "ZBTST", "ZIL", "SCLD"}}
              \cup {Coin("BNB", {"zq-testnet"})}

baseTestnet == {ERC20("ZBTST", {"zq-testnet"})}

-----------------------------------------------------------------------------
\* chainConfigs, in the order Object.values lists them: a network and its tokens.
chainConfigs(mode) ==
    IF mode = "production"
    THEN <<[chain |-> "zq", tokens |-> zq], [chain |-> "polygon", tokens |-> polygon],
           [chain |-> "arbitrum", tokens |-> arbitrum],
           [chain |-> "ethereum", tokens |-> ethereum],
           [chain |-> "bsc", tokens |-> bsc], [chain |-> "base", tokens |-> base]>>
    ELSE <<[chain |-> "zq-testnet", tokens |-> zqTestnet],
           [chain |-> "bsc-testnet", tokens |-> bscTestnet],
           [chain |-> "base-testnet", tokens |-> baseTestnet]>>

\* Object.values(chainConfigs)[0].tokens[0]; the sets above keep no order.
firstTokenOf(mode) ==
    IF mode = "production" THEN ERC20("SEED", {"bsc"}) ELSE ERC20("SEED", {"bsc-testnet"})

siteConfig(mode) ==
    IF mode = "production"
    THEN [homeNetwork |-> "zq", defaultFromNetwork |-> "zq",
          defaultToNetwork |-> "ethereum"]
    ELSE [homeNetwork |-> "zq-testnet", defaultFromNetwork |-> "zq-testnet",
          defaultToNetwork |-> "bsc-testnet"]

\* The names in the order of a.name.localeCompare(b.name, "en").
NamesInOrder == <<"BNB", "BRKL", "dXCAD", "ETH", "FEES", "FPS", "HRSE", "LUNR", "OPUL",
                  "POL", "PORT", "SCLD", "SEED", "TRAXX", "TSLM", "TST", "TST2", "USDT",
                  "WBTC", "XCAD", "ZBTST", "ZIL">>

-----------------------------------------------------------------------------
TokensOf(mode, c) ==
    UNION {chainConfigs(mode)[i].tokens : i \in
             {j \in DOMAIN chainConfigs(mode) : chainConfigs(mode)[j].chain = c}}

NetworksOf(mode) == {chainConfigs(mode)[i].chain : i \in DOMAIN chainConfigs(mode)}

\* The tokens by which the page names t on its target d; it shows the first.
getTargetToken(mode, d, t) == {u \in TokensOf(mode, d) : u.name = t.name}

\* No token is sent to where the page cannot send it back from, nor to where
\* getTargetToken finds no or two tokens of its name; and between the home
\* network and any other there is always something to send, so that the page
\* has a token to select on every route.
RoutesAreSymmetric ==
    \A mode \in {"production", "development"} :
        LET home == siteConfig(mode).homeNetwork
        IN  /\ \A c \in NetworksOf(mode) : \A t \in TokensOf(mode, c) :
                 \A d \in t.bridgesTo :
                    /\ d \in NetworksOf(mode) \ {c}
                    /\ \E u \in getTargetToken(mode, d, t) :
                         getTargetToken(mode, d, t) = {u} /\ c \in u.bridgesTo
            /\ \A c \in NetworksOf(mode) \ {home} :
                 \E t \in TokensOf(mode, home) : c \in t.bridgesTo
=============================================================================
