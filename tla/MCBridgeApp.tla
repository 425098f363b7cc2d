---------------------------- MODULE MCBridgeApp ----------------------------
(* The page with a part of the production tables, for TLC. *)
EXTENDS BridgeApp, BridgeConfig

CONSTANTS Names   \* names of the tokens that are kept

MCTokens == [c \in Networks |-> {t \in TokensOf("production", c) : t.name \in Names}]

MCDefaults == <<siteConfig("production").defaultFromNetwork,
                siteConfig("production").defaultToNetwork>>

MCFirstToken == firstTokenOf("production")

MCRank == [n \in {NamesInOrder[i] : i \in DOMAIN NamesInOrder} |->
             CHOOSE i \in DOMAIN NamesInOrder : NamesInOrder[i] = n]

\* What is sent can be sent back: getTargetToken finds the token shown on the
\* target shown, with a way back to where it comes from, whatever the user and
\* the wallet did to route and token; and so it is, for every token and route
\* of the tables of both builds, which are written by hand at both ends.
ThereIsAWayBack ==
    /\ \E u \in getTargetToken("production", currentChains[2], token) :
          currentChains[1] \in u.bridgesTo
    /\ RoutesAreSymmetric
=============================================================================
