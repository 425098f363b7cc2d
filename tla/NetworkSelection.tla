-------------------------- MODULE NetworkSelection --------------------------
(***************************************************************************)
(* Which route and which token the page shows (bridge-web/src/App.tsx).    *)
(*                                                                         *)
(* The user chooses networks on the page, but the network transactions are *)
(* sent on is the wallet's: the page asks the wallet to switch, which the  *)
(* wallet may do, refuse or do on its own.  pendingChains is what the user *)
(* chose, currentChains what the page shows and builds transactions from,  *)
(* and two effects keep the second in step with the wallet and the token   *)
(* in step with the route.  An action is one event together with the       *)
(* renders and effects React runs until the page is quiet again.           *)
(***************************************************************************)
EXTENDS Naturals

CONSTANTS Networks,        \* keys of chainConfigs
          homeNetwork,     \* siteConfig.homeNetwork
          firstNetwork,    \* first of chainConfigs that is not the home network
          defaultNetworks, \* <<defaultFromNetwork, defaultToNetwork>>
          tokens,          \* chainConfigs[c].tokens, as a set
          firstToken,      \* Object.values(chainConfigs)[0].tokens[0]
          nameRank,        \* place of a name in the "en" order
          Elsewhere,       \* the wallet is on a network that is not configured
          NoWallet         \* no wallet is connected

\* Every route has the home network at exactly one of its ends.
Routes == {<<homeNetwork, c>> : c \in Networks \ {homeNetwork}}
          \cup {<<c, homeNetwork>> : c \in Networks \ {homeNetwork}}

getAvailableTokens(r) == {t \in tokens[r[1]] : r[2] \in t.bridgesTo}

IsFirstByName(t, S) == \A u \in S : nameRank[t.name] <= nameRank[u.name]

ASSUME SelectionAssumption ==
    /\ homeNetwork \in Networks /\ firstNetwork \in Networks \ {homeNetwork}
    /\ defaultNetworks \in Routes
    /\ Elsewhere \notin Networks /\ NoWallet \notin Networks /\ Elsewhere # NoWallet
    /\ \A r \in Routes : \E t \in getAvailableTokens(r) :
          IsFirstByName(t, getAvailableTokens(r))

Wallets == Networks \cup {Elsewhere, NoWallet}

VARIABLES wallet,         \* chain of useNetwork(): where the wallet is
          asked,          \* network the wallet is being asked to switch to
          pendingChains,  \* <<from, to>> the user chose
          currentChains,  \* <<from, to>> the page shows
          token           \* the token selected

selectionVars == <<wallet, asked, pendingChains, currentChains, token>>

\* Nothing is being asked of the wallet.
NoRequest == NoWallet

-----------------------------------------------------------------------------
(* The effects *)

\* switchNetwork is undefined without a wallet, and a request for the network
\* the wallet is on has no effect.
switchRequest(w, p) == IF w = NoWallet \/ w = p[1] THEN NoRequest ELSE p[1]

\* Mutant: the target that was chosen is not looked at.
goToMutant(w, p) == IF w # homeNetwork THEN homeNetwork ELSE firstNetwork

\* The target when the wallet is on w: the other end of a route of w.
goTo(w, p) == IF w # homeNetwork THEN homeNetwork
              ELSE IF p[2] # homeNetwork THEN p[2]
              ELSE IF p[1] # homeNetwork THEN p[1]
              ELSE firstNetwork

\* Mutant: the page shows what was chosen before the wallet is there.
followMutant(w, p, c) == p

\* What the page shows once it has looked where the wallet is.
follow(w, p, c) == IF w \in Networks THEN <<w, goTo(w, p)>> ELSE c

\* Mutant: the token of the same name is kept whatever the route.
chooseTokenMutant(t, r) ==
    IF \E u \in tokens[r[1]] : u.name = t.name
    THEN CHOOSE u \in tokens[r[1]] : u.name = t.name
    ELSE CHOOSE u \in getAvailableTokens(r) : IsFirstByName(u, getAvailableTokens(r))

\* The token of the same name if the route offers it, else the first one.
chooseToken(t, r) ==
    IF \E u \in getAvailableTokens(r) : u.name = t.name
    THEN CHOOSE u \in getAvailableTokens(r) : u.name = t.name
    ELSE CHOOSE u \in getAvailableTokens(r) : IsFirstByName(u, getAvailableTokens(r))

\* The token when the page is first shown: the first of the tables if the default
\* route offers it.
defaultToken == chooseToken(firstToken, defaultNetworks)

\* setCurrentChains, and the effect that depends on it.
show(r) ==
    /\ currentChains' = r
    /\ token' = IF r = currentChains THEN token ELSE chooseToken(token, r)

-----------------------------------------------------------------------------
(* Events *)

\* useNetwork() reports another network.
walletMoves(w) ==
    /\ wallet # NoWallet /\ w # wallet
    /\ wallet' = w
    /\ asked' = IF w \in {asked, NoWallet} THEN NoRequest ELSE asked
    /\ show(follow(w, pendingChains, currentChains))
    /\ UNCHANGED pendingChains

\* A wallet is connected: switchNetwork becomes defined, which fires its effect.
connect(w) ==
    /\ wallet = NoWallet /\ w # NoWallet
    /\ wallet' = w
    /\ asked' = switchRequest(w, pendingChains)
    /\ show(follow(w, pendingChains, currentChains))
    /\ UNCHANGED pendingChains

\* The wallet does what it is asked for.
switchGranted == asked # NoRequest /\ walletMoves(asked)

\* It does not; the page only says so.
switchRefused ==
    /\ asked # NoRequest
    /\ asked' = NoRequest
    /\ UNCHANGED <<wallet, pendingChains, currentChains, token>>

\* setPendingChains.  The effect that follows the wallet depends on the
\* pending target, not on the pending source.
setPendingChains(p) ==
    /\ pendingChains' = p
    /\ asked' = switchRequest(wallet, p)
    /\ show(IF p[2] # pendingChains[2] THEN follow(wallet, p, currentChains)
                                       ELSE currentChains)
    /\ UNCHANGED wallet

\* Mutant: choosing the home network always pairs it with the shown target.
partnerMutant(c) == IF c # homeNetwork THEN homeNetwork ELSE currentChains[2]

\* The other end when the user chooses c for one of them.
partner(c) == IF c # homeNetwork THEN homeNetwork
              ELSE IF currentChains[2] = homeNetwork THEN firstNetwork
              ELSE currentChains[2]

pickFrom(c) == c # currentChains[1] /\ setPendingChains(<<c, partner(c)>>)

pickTo(c) == c # currentChains[2] /\ setPendingChains(<<partner(c), c>>)

selectTokenOnDropdown(t) ==
    /\ t \in getAvailableTokens(currentChains) /\ t.name # token.name
    /\ token' = t
    /\ UNCHANGED <<wallet, asked, pendingChains, currentChains>>

-----------------------------------------------------------------------------
\* The page as it is first shown, its first effects run, no wallet connected.
SelectionInit ==
    /\ wallet = NoWallet /\ asked = NoRequest
    /\ pendingChains = defaultNetworks /\ currentChains = defaultNetworks
    /\ token = defaultToken

SelectionNext ==
    \/ \E w \in Wallets : walletMoves(w) \/ connect(w)
    \/ switchGranted \/ switchRefused
    \/ \E c \in Networks : pickFrom(c) \/ pickTo(c)
    \/ \E t \in getAvailableTokens(currentChains) : selectTokenOnDropdown(t)

-----------------------------------------------------------------------------
(* Properties *)

SelectionTypeOK ==
    /\ wallet \in Wallets /\ asked \in Networks \cup {NoRequest}
    /\ pendingChains \in Networks \X Networks
    /\ currentChains \in Networks \X Networks
    /\ token \in UNION {tokens[c] : c \in Networks}

\* Whatever the user picks and the wallet does, in any order, the page never
\* shows a route that does not join the home network with another one; the
\* validators relay no other, and the page has tokens for no other.
HomeOnOneSide == currentChains \in Routes /\ pendingChains \in Routes

\* The page sends from where the wallet is: a transaction built from the
\* source network shown is never signed on another configured network.
PageFollowsWallet == wallet \in Networks => currentChains[1] = wallet

\* The token shown is one the route shown can carry.
TokenFitsRoute == token \in getAvailableTokens(currentChains)

\* The user gets the route that was chosen: as soon as the wallet is on its
\* source network the page shows it, target included, although the effect
\* that follows the wallet recomputes the target and does not depend on the
\* pending source.
ChosenRouteIsShown == wallet = pendingChains[1] => currentChains = pendingChains
=============================================================================
