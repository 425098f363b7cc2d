-------------------------- MODULE BridgeAppProofs --------------------------
(***************************************************************************)
(* For any tables in which every route has a first token, the page's route *)
(* and token stay in step with the wallet and with what the user chose,    *)
(* and what is typed once is bridged at most once, on a route that exists. *)
(* None of the properties of the route is inductive alone: a pick that     *)
(* leaves the pending target as it is does not make the page look at the   *)
(* wallet, and that this is harmless follows from where the page stood     *)
(* before.  For any part of the production tables, what the page sends can *)
(* be sent back, because the tables of both builds are symmetric.          *)
(***************************************************************************)
EXTENDS MCBridgeApp, TLAPS

-----------------------------------------------------------------------------
(* The network selection *)

SelectionInv ==
    /\ wallet \in Wallets /\ asked \in Networks \cup {NoRequest}
    /\ HomeOnOneSide
    /\ PageFollowsWallet
    /\ TokenFitsRoute
    /\ ChosenRouteIsShown

\* Whatever token was shown, the one chooseToken selects is of the route.
LEMMA ChosenTokenFits ==
    ASSUME NEW t, NEW r \in Routes
    PROVE  chooseToken(t, r) \in getAvailableTokens(r)
<1> DEFINE S == getAvailableTokens(r)
<1>1. CASE \E u \in S : u.name = t.name
  <2>1. (CHOOSE u \in S : u.name = t.name) \in S
    BY <1>1
  <2> QED BY <1>1, <2>1 DEF chooseToken
<1>2. CASE ~ \E u \in S : u.name = t.name
  <2>1. \E u \in S : IsFirstByName(u, S)
    BY SelectionAssumption
  <2>2. (CHOOSE u \in S : IsFirstByName(u, S)) \in S
    BY <2>1
  <2> QED BY <1>2, <2>2 DEF chooseToken
<1> QED BY <1>1, <1>2

\* Where the page goes when it looks at a wallet on a configured network: a
\* route that starts there, and the route that was chosen if that does.
LEMMA FollowIsARoute ==
    ASSUME NEW w \in Networks, NEW p \in Routes
    PROVE  /\ <<w, goTo(w, p)>> \in Routes
           /\ w = p[1] => <<w, goTo(w, p)>> = p
<1>1. CASE w # homeNetwork
  <2>1. goTo(w, p) = homeNetwork
    BY <1>1 DEF goTo
  <2>2. w = p[1] => p = <<w, homeNetwork>>
    BY <1>1 DEF Routes
  <2> QED BY <1>1, <2>1, <2>2 DEF Routes
<1>2. CASE w = homeNetwork
  <2>1. goTo(w, p) \in Networks \ {homeNetwork}
    BY <1>2, SelectionAssumption DEF goTo, Routes
  <2>2. w = p[1] => p[2] # homeNetwork /\ p = <<w, p[2]>>
    BY <1>2 DEF Routes
  <2>3. w = p[1] => goTo(w, p) = p[2]
    BY <1>2, <2>2 DEF goTo
  <2> QED BY <1>2, <2>1, <2>2, <2>3 DEF Routes
<1> QED BY <1>1, <1>2

\* The ends of a route are networks, and exactly one of them is home.
LEMMA RouteEnds ==
    ASSUME NEW r \in Routes
    PROVE  /\ r[1] \in Networks /\ r[2] \in Networks /\ r = <<r[1], r[2]>>
           /\ (r[1] = homeNetwork) = (r[2] # homeNetwork)
BY SelectionAssumption DEF Routes

\* Showing a route selects a token of it.
LEMMA ShownTokenFits ==
    ASSUME NEW r \in Routes, show(r), TokenFitsRoute
    PROVE  TokenFitsRoute'
<1>1. CASE r = currentChains
  BY <1>1 DEF show, TokenFitsRoute, getAvailableTokens
<1>2. CASE r # currentChains
  <2>1. chooseToken(token, r) \in getAvailableTokens(r)
    BY ChosenTokenFits
  <2> QED BY <1>2, <2>1 DEF show, TokenFitsRoute, getAvailableTokens
<1> QED BY <1>1, <1>2

\* The wallet is now on w, by whatever event, and the page has looked.
LEMMA LooksAtWallet ==
    ASSUME SelectionInv, NEW w \in Wallets, wallet' = w,
           pendingChains' = pendingChains, asked' \in Networks \cup {NoRequest},
           show(follow(w, pendingChains, currentChains))
    PROVE  SelectionInv'
<1>1. pendingChains \in Routes /\ currentChains \in Routes
  BY DEF SelectionInv, HomeOnOneSide
<1> DEFINE r == follow(w, pendingChains, currentChains)
<1>2. r \in Routes
  <2>1. CASE w \in Networks
    BY <1>1, <2>1, FollowIsARoute DEF follow
  <2>2. CASE w \notin Networks
    BY <1>1, <2>2 DEF follow
  <2> QED BY <2>1, <2>2
<1>3. currentChains' = r
  BY DEF show
<1>4. TokenFitsRoute'
  BY <1>2, ShownTokenFits DEF SelectionInv
<1>5. PageFollowsWallet' /\ ChosenRouteIsShown'
  <2>1. CASE w \in Networks
    <3>1. r = <<w, goTo(w, pendingChains)>>
      BY <2>1 DEF follow
    <3>2. w = pendingChains[1] => r = pendingChains
      BY <1>1, <2>1, <3>1, FollowIsARoute
    <3> QED BY <1>3, <3>1, <3>2 DEF PageFollowsWallet, ChosenRouteIsShown
  <2>2. CASE w \notin Networks
    BY <1>1, <2>2, RouteEnds DEF PageFollowsWallet, ChosenRouteIsShown
  <2> QED BY <2>1, <2>2
<1>6. HomeOnOneSide'
  BY <1>1, <1>2, <1>3 DEF HomeOnOneSide
<1> QED BY <1>4, <1>5, <1>6 DEF SelectionInv

\* A pick: the pending route p is one, and if p leaves the target as it was,
\* then the page already shows p or the wallet is not on its source.
LEMMA PicksARoute ==
    ASSUME SelectionInv, NEW p \in Routes, setPendingChains(p),
           p[2] = pendingChains[2] /\ wallet = p[1] => currentChains = p
    PROVE  SelectionInv'
<1>1. pendingChains \in Routes /\ currentChains \in Routes /\ wallet \in Wallets
  BY DEF SelectionInv, HomeOnOneSide
<1>2. wallet' = wallet /\ pendingChains' = p
  BY DEF setPendingChains
<1>3. asked' \in Networks \cup {NoRequest}
  BY RouteEnds DEF setPendingChains, switchRequest
<1>4. CASE p[2] = pendingChains[2]
  <2>1. show(currentChains)
    BY <1>4 DEF setPendingChains
  <2>2. TokenFitsRoute'
    BY <1>1, <2>1, ShownTokenFits DEF SelectionInv
  <2>3. currentChains' = currentChains
    BY <2>1 DEF show
  <2>4. PageFollowsWallet'
    BY <1>2, <2>3 DEF SelectionInv, PageFollowsWallet
  <2>5. ChosenRouteIsShown'
    BY <1>2, <1>4, <2>3 DEF ChosenRouteIsShown
  <2> QED BY <1>1, <1>2, <1>3, <2>2, <2>3, <2>4, <2>5 DEF SelectionInv, HomeOnOneSide
<1>5. CASE p[2] # pendingChains[2]
  <2> DEFINE r == follow(wallet, p, currentChains)
  <2>1. show(r)
    BY <1>5 DEF setPendingChains
  <2>2. r \in Routes
    <3>1. CASE wallet \in Networks
      BY <3>1, FollowIsARoute DEF follow
    <3>2. CASE wallet \notin Networks
      BY <1>1, <3>2 DEF follow
    <3> QED BY <3>1, <3>2
  <2>3. currentChains' = r
    BY <2>1 DEF show
  <2>4. TokenFitsRoute'
    BY <2>1, <2>2, ShownTokenFits DEF SelectionInv
  <2>5. PageFollowsWallet' /\ ChosenRouteIsShown'
    <3>1. CASE wallet \in Networks
      <4>1. r = <<wallet, goTo(wallet, p)>>
        BY <3>1 DEF follow
      <4>2. wallet = p[1] => r = p
        BY <3>1, <4>1, FollowIsARoute
      <4> QED BY <1>2, <2>3, <4>1, <4>2 DEF PageFollowsWallet, ChosenRouteIsShown
    <3>2. CASE wallet \notin Networks
      BY <1>2, <3>2, RouteEnds DEF PageFollowsWallet, ChosenRouteIsShown
    <3> QED BY <3>1, <3>2
  <2> QED BY <1>1, <1>2, <1>3, <2>2, <2>3, <2>4, <2>5 DEF SelectionInv, HomeOnOneSide
<1> QED BY <1>4, <1>5

\* The other end that a pick chooses makes a route.
LEMMA PartnerIsAnEnd ==
    ASSUME SelectionInv, NEW c \in Networks
    PROVE  <<c, partner(c)>> \in Routes /\ <<partner(c), c>> \in Routes
<1>1. currentChains \in Routes
  BY DEF SelectionInv, HomeOnOneSide
<1>2. CASE c # homeNetwork
  BY <1>2 DEF partner, Routes
<1>3. CASE c = homeNetwork
  <2>1. partner(c) \in Networks \ {homeNetwork}
    BY <1>1, <1>3, RouteEnds, SelectionAssumption DEF partner
  <2> QED BY <1>3, <2>1 DEF Routes
<1> QED BY <1>2, <1>3

\* The page as first shown.
LEMMA SelectionInvInit == SelectionInit => SelectionInv
<1> SUFFICES ASSUME SelectionInit PROVE SelectionInv
  OBVIOUS
<1>1. defaultNetworks \in Routes
  BY SelectionAssumption
<1>2. defaultToken \in getAvailableTokens(defaultNetworks)
  BY <1>1, ChosenTokenFits DEF defaultToken
<1>3. TokenFitsRoute
  BY <1>2 DEF SelectionInit, TokenFitsRoute
<1> QED BY <1>3, SelectionAssumption DEF SelectionInit, SelectionInv, Wallets,
           HomeOnOneSide, PageFollowsWallet, ChosenRouteIsShown

\* Every event of the network selection keeps the invariant.
LEMMA SelectionInvStep == SelectionInv /\ [SelectionNext]_selectionVars => SelectionInv'
<1> SUFFICES ASSUME SelectionInv, [SelectionNext]_selectionVars PROVE SelectionInv'
  OBVIOUS
<1>0. /\ pendingChains \in Routes /\ currentChains \in Routes
      /\ wallet \in Wallets /\ asked \in Networks \cup {NoRequest}
  BY DEF SelectionInv, HomeOnOneSide
<1>1. ASSUME NEW w \in Wallets, walletMoves(w) PROVE SelectionInv'
  <2>1. asked' \in Networks \cup {NoRequest}
    BY <1>0, <1>1 DEF walletMoves
  <2> QED BY <1>1, <2>1, LooksAtWallet DEF walletMoves
<1>2. ASSUME NEW w \in Wallets, connect(w) PROVE SelectionInv'
  <2>1. asked' \in Networks \cup {NoRequest}
    BY <1>0, <1>2, RouteEnds DEF connect, switchRequest
  <2> QED BY <1>2, <2>1, LooksAtWallet DEF connect
<1>3. CASE switchGranted
  <2>1. asked \in Wallets
    BY <1>0 DEF Wallets, NoRequest
  <2> QED BY <1>1, <1>3, <2>1 DEF switchGranted
<1>4. CASE switchRefused
  BY <1>4 DEF switchRefused, SelectionInv, HomeOnOneSide, PageFollowsWallet,
              TokenFitsRoute, getAvailableTokens, ChosenRouteIsShown
<1>5. ASSUME NEW c \in Networks, pickFrom(c) PROVE SelectionInv'
  <2> DEFINE p == <<c, partner(c)>>
  <2>1. p \in Routes
    BY PartnerIsAnEnd
  <2>2. wallet # p[1]
    BY <1>5 DEF pickFrom, SelectionInv, PageFollowsWallet
  <2>3. setPendingChains(p)
    BY <1>5 DEF pickFrom
  <2> QED BY <2>1, <2>2, <2>3, PicksARoute
<1>6. ASSUME NEW c \in Networks, pickTo(c) PROVE SelectionInv'
  <2> DEFINE p == <<partner(c), c>>
  <2>1. p \in Routes
    BY PartnerIsAnEnd
  <2>2. ASSUME p[2] = pendingChains[2], wallet = p[1] PROVE FALSE
    <3>1. wallet \in Networks /\ currentChains[1] = wallet /\ c # currentChains[2]
      BY <1>6, <2>1, <2>2, RouteEnds DEF pickTo, SelectionInv, PageFollowsWallet
    <3>2. CASE c # homeNetwork
      <4>1. pendingChains[1] = homeNetwork
        BY <1>0, <2>2, <3>2, RouteEnds
      <4>2. wallet = homeNetwork
        BY <2>2, <3>2 DEF partner
      <4>3. currentChains = pendingChains
        BY <4>1, <4>2 DEF SelectionInv, ChosenRouteIsShown
      <4> QED BY <2>2, <3>1, <4>3
    <3>3. CASE c = homeNetwork
      <4>1. partner(c) = currentChains[2]
        BY <3>1, <3>3 DEF partner
      <4>2. currentChains[1] = homeNetwork
        BY <1>0, <3>1, <3>3, RouteEnds
      <4> QED BY <2>2, <3>1, <3>3, <4>1, <4>2
    <3> QED BY <3>2, <3>3
  <2>3. setPendingChains(p)
    BY <1>6 DEF pickTo
  <2> QED BY <2>1, <2>2, <2>3, PicksARoute
<1>7. ASSUME NEW t \in getAvailableTokens(currentChains), selectTokenOnDropdown(t)
      PROVE  SelectionInv'
  BY <1>7 DEF selectTokenOnDropdown, SelectionInv, HomeOnOneSide, PageFollowsWallet,
              TokenFitsRoute, getAvailableTokens, ChosenRouteIsShown
<1>8. CASE UNCHANGED selectionVars
  BY <1>8 DEF selectionVars, SelectionInv, HomeOnOneSide, PageFollowsWallet,
              TokenFitsRoute, getAvailableTokens, ChosenRouteIsShown
<1> QED BY <1>1, <1>2, <1>3, <1>4, <1>5, <1>6, <1>7, <1>8 DEF SelectionNext

\* A page that is loaded again looks at the wallet like a new one.
LEMMA ReloadKeepsSelectionInv == SelectionInv /\ reload => SelectionInv'
<1> SUFFICES ASSUME SelectionInv, reload PROVE SelectionInv'
  OBVIOUS
<1> DEFINE r == follow(wallet, defaultNetworks, defaultNetworks)
<1>1. defaultNetworks \in Routes /\ wallet \in Wallets
  BY SelectionAssumption DEF SelectionInv
<1>2. wallet' = wallet /\ pendingChains' = defaultNetworks /\ currentChains' = r
  BY DEF reload
<1>3. r \in Routes
  <2>1. CASE wallet \in Networks
    BY <1>1, <2>1, FollowIsARoute DEF follow
  <2>2. CASE wallet \notin Networks
    BY <1>1, <2>2 DEF follow
  <2> QED BY <2>1, <2>2
<1>4. TokenFitsRoute'
  <2>1. token' = chooseToken(defaultToken, currentChains')
    BY DEF reload
  <2> HIDE DEF r
  <2>2. token' \in getAvailableTokens(r)
    BY <1>2, <1>3, <2>1, ChosenTokenFits
  <2> QED BY <1>2, <2>2 DEF TokenFitsRoute, getAvailableTokens
<1>5. asked' \in Networks \cup {NoRequest}
  BY <1>1, RouteEnds DEF reload, switchRequest
<1>6. PageFollowsWallet' /\ ChosenRouteIsShown'
  <2>1. CASE wallet \in Networks
    <3>1. r = <<wallet, goTo(wallet, defaultNetworks)>>
      BY <2>1 DEF follow
    <3>2. wallet = defaultNetworks[1] => r = defaultNetworks
      BY <1>1, <2>1, <3>1, FollowIsARoute
    <3> QED BY <1>2, <3>1, <3>2 DEF PageFollowsWallet, ChosenRouteIsShown
  <2>2. CASE wallet \notin Networks
    BY <1>1, <1>2, <2>2, RouteEnds DEF PageFollowsWallet, ChosenRouteIsShown
  <2> QED BY <2>1, <2>2
<1> QED BY <1>1, <1>2, <1>3, <1>4, <1>5, <1>6 DEF SelectionInv, HomeOnOneSide

-----------------------------------------------------------------------------
(* The transactions *)

\* A bridge transaction of the entry in the amount field that may take effect.
Live(x) == x # NoTxn /\ x.kind = "bridge" /\ x.same /\ x.status # "reverted"

\* The page has at most one transaction, and the history counts it as long as
\* it is of the entry in the field; one the wallet has not sent is pending.
OneTxn ==
    /\ writing = NoTxn \/ latestTxn = NoTxn
    /\ sentOfEntry = IF Live(writing) \/ Live(latestTxn) THEN 1 ELSE 0
    /\ writing # NoTxn => writing.status = "pending"

\* The part of the type invariant that is not the selection's.
FormTypeOK ==
    /\ hasAmount \in BOOLEAN /\ recipient \in Recipients /\ allowance \in Allowances
    /\ writing \in Txns \cup {NoTxn} /\ latestTxn \in Txns \cup {NoTxn}
    /\ sentOfEntry \in Nat

\* The inductive invariant.
PageInv == SelectionInv /\ FormTypeOK /\ OneTxn /\ SentOnARealRoute

\* The invariant of the selection keeps its types.
LEMMA SelectionTypes == SelectionInv => SelectionTypeOK
<1> SUFFICES ASSUME SelectionInv PROVE SelectionTypeOK
  OBVIOUS
<1>1. currentChains \in Routes /\ pendingChains \in Routes
  BY DEF SelectionInv, HomeOnOneSide
<1>2. /\ currentChains \in Networks \X Networks /\ pendingChains \in Networks \X Networks
      /\ currentChains[1] \in Networks
  BY <1>1, RouteEnds
<1>3. token \in tokens[currentChains[1]]
  BY DEF SelectionInv, TokenFitsRoute, getAvailableTokens
<1> QED BY <1>2, <1>3 DEF SelectionInv, SelectionTypeOK

\* Forgetting that a transaction is of the entry in the field.
LEMMA OtherEntryFacts ==
    ASSUME NEW x \in Txns \cup {NoTxn}
    PROVE  /\ OtherEntry(x) \in Txns \cup {NoTxn}
           /\ OtherEntry(x) = NoTxn <=> x = NoTxn
           /\ ~Live(OtherEntry(x))
           /\ x # NoTxn => /\ OtherEntry(x).kind = x.kind
                           /\ OtherEntry(x).chain = x.chain
                           /\ OtherEntry(x).to = x.to
                           /\ OtherEntry(x).token = x.token
                           /\ OtherEntry(x).status = x.status
<1>1. CASE x = NoTxn
  BY <1>1 DEF OtherEntry, Live
<1>2. CASE x # NoTxn
  <2> DEFINE y == [x EXCEPT !.same = FALSE]
  <2>1. x \in Txns /\ OtherEntry(x) = y
    BY <1>2 DEF OtherEntry
  <2>2. /\ y \in Txns /\ y.same = FALSE
        /\ y.kind = x.kind /\ y.chain = x.chain /\ y.to = x.to /\ y.token = x.token
        /\ y.status = x.status
    BY <2>1 DEF Txns
  <2>3. y # NoTxn
    BY <2>2, TxnAssumption
  <2> HIDE DEF y
  <2> QED BY <1>2, <2>1, <2>2, <2>3 DEF Live
<1> QED BY <1>1, <1>2

\* A transaction is built from what the page shows, on a route that exists.
LEMMA WriteFacts ==
    ASSUME PageInv, NEW kind \in {"approve", "approvalclearance", "bridge"}, write(kind)
    PROVE  /\ writing = NoTxn /\ latestTxn = NoTxn /\ latestTxn' = NoTxn
           /\ writing' \in Txns /\ writing' # NoTxn
           /\ writing'.kind = kind /\ writing'.same /\ writing'.status = "pending"
           /\ SelectionInv' /\ SentOnARealRoute'
<1>1. writing = NoTxn /\ latestTxn = NoTxn /\ latestTxn' = NoTxn
  BY DEF write, showLoadingButton
<1>2. /\ writing' = [kind |-> kind, chain |-> wallet, to |-> currentChains[2],
                     token |-> token.name, same |-> TRUE, status |-> "pending"]
      /\ UNCHANGED selectionVars /\ wallet # NoWallet
  BY DEF write, readsAreIn
<1>3. wallet \in Networks \cup {Elsewhere}
  BY <1>2 DEF PageInv, SelectionInv, Wallets
<1>4. currentChains \in Networks \X Networks /\ currentChains = <<currentChains[1], currentChains[2]>>
  BY SelectionTypes DEF PageInv, SelectionTypeOK
<1>5. token.name \in STRING /\ token \in getAvailableTokens(currentChains)
  <2>1. PICK c \in Networks : token \in tokens[c]
    BY SelectionTypes DEF PageInv, SelectionTypeOK
  <2> QED BY <2>1, TxnAssumption DEF PageInv, SelectionInv, TokenFitsRoute
<1>6. writing' \in Txns
  BY <1>2, <1>3, <1>4, <1>5 DEF Txns
<1>7. writing' # NoTxn /\ writing'.kind = kind /\ writing'.same /\ writing'.status = "pending"
  BY <1>2, <1>6, TxnAssumption
<1>8. SelectionInv'
  BY <1>2, SelectionInvStep DEF PageInv
<1>9. SentOnARealRoute'
  <2> SUFFICES ASSUME writing'.chain \in Networks
               PROVE  \E t \in getAvailableTokens(<<writing'.chain, writing'.to>>) :
                         t.name = writing'.token
    BY DEF SentOnARealRoute, getAvailableTokens
  <2>1. writing'.chain = wallet /\ writing'.to = currentChains[2] /\ writing'.token = token.name
    BY <1>2
  <2>2. currentChains[1] = wallet
    BY <2>1 DEF PageInv, SelectionInv, PageFollowsWallet
  <2>3. <<writing'.chain, writing'.to>> = currentChains
    BY <1>4, <2>1, <2>2
  <2> QED BY <1>5, <2>1, <2>3
<1> QED BY <1>1, <1>6, <1>7, <1>8, <1>9

\* A route stays real as long as the transaction is of it.
LEMMA RouteStaysReal ==
    ASSUME SentOnARealRoute,
           writing' = NoTxn \/ ( /\ writing # NoTxn
                                 /\ writing'.kind = writing.kind
                                 /\ writing'.chain = writing.chain
                                 /\ writing'.to = writing.to
                                 /\ writing'.token = writing.token )
    PROVE  SentOnARealRoute'
BY DEF SentOnARealRoute, getAvailableTokens

\* The invariant is inductive.
LEMMA PageInvStep == PageInv /\ [Next]_vars => PageInv'
<1> SUFFICES ASSUME PageInv, [Next]_vars PROVE PageInv'
  OBVIOUS
<1>0. /\ SelectionInv /\ FormTypeOK /\ OneTxn /\ SentOnARealRoute
      /\ writing \in Txns \cup {NoTxn} /\ latestTxn \in Txns \cup {NoTxn}
  BY DEF PageInv, FormTypeOK
<1>s. UNCHANGED selectionVars => SelectionInv'
  BY <1>0, SelectionInvStep
\* Steps that leave the transactions and their count alone.
<1>t. ASSUME UNCHANGED <<writing, latestTxn, sentOfEntry>>, SelectionInv',
             hasAmount' \in BOOLEAN, recipient' \in Recipients, allowance' \in Allowances
      PROVE  PageInv'
  <2>1. OneTxn'
    BY <1>0, <1>t DEF OneTxn, Live
  <2>2. SentOnARealRoute'
    BY <1>0, <1>t, RouteStaysReal
  <2> QED BY <1>0, <1>t, <2>1, <2>2 DEF PageInv, FormTypeOK
<1>1. CASE select
  <2>1. SelectionInv'
    BY <1>0, <1>1, SelectionInvStep DEF select
  <2>2. recipient' \in Recipients /\ allowance' \in Allowances /\ hasAmount' \in BOOLEAN
    BY <1>0, <1>1 DEF select, FormTypeOK, Recipients
  <2> QED BY <1>1, <1>t, <2>1, <2>2 DEF select, txnVars
<1>2. CASE accountChanges
  BY <1>0, <1>2, <1>s, <1>t DEF accountChanges, txnVars, FormTypeOK, Recipients
<1>3. CASE reload
  <2>1. SelectionInv'
    BY <1>0, <1>3, ReloadKeepsSelectionInv
  <2>2. writing' = NoTxn /\ latestTxn' = NoTxn /\ sentOfEntry' = 0
    BY <1>3 DEF reload
  <2>3. FormTypeOK'
    <3>1. hasAmount' \in BOOLEAN
      BY <1>3 DEF reload
    <3>2. recipient' \in Recipients /\ allowance' \in Allowances
      BY <1>3 DEF reload, Recipients
    <3> QED BY <2>2, <3>1, <3>2 DEF FormTypeOK
  <2>4. OneTxn' /\ SentOnARealRoute'
    BY <1>0, <2>2, RouteStaysReal DEF OneTxn, Live
  <2> QED BY <2>1, <2>3, <2>4 DEF PageInv
<1>a. ASSUME NEW b \in BOOLEAN, setAmount(b), UNCHANGED <<selectionVars, recipient>>,
             latestTxn' = NoTxn \/ latestTxn' = OtherEntry(latestTxn)
      PROVE  PageInv'
  <2>1. writing' = OtherEntry(writing) /\ sentOfEntry' = 0 /\ hasAmount' = b
        /\ allowance' \in Allowances
    BY <1>a DEF setAmount
  <2>2. FormTypeOK'
    <3>1. writing' \in Txns \cup {NoTxn} /\ latestTxn' \in Txns \cup {NoTxn}
      BY <1>0, <1>a, <2>1, OtherEntryFacts
    <3>2. recipient' = recipient
      BY <1>a
    <3> QED BY <1>0, <2>1, <3>1, <3>2 DEF FormTypeOK
  <2>3. ~Live(writing') /\ ~Live(latestTxn')
    BY <1>0, <1>a, <2>1, OtherEntryFacts DEF Live
  <2>4. OneTxn'
    BY <1>0, <1>a, <2>1, <2>3, OtherEntryFacts DEF OneTxn, Live
  <2>5. SentOnARealRoute'
    BY <1>0, <2>1, OtherEntryFacts, RouteStaysReal
  <2> QED BY <1>a, <1>s, <2>2, <2>4, <2>5 DEF PageInv
<1>4. CASE \E b \in BOOLEAN : typeAmount(b)
  BY <1>4, <1>a DEF typeAmount
<1>5. CASE \E r \in Recipients : handleUpdateRecipient(r)
  BY <1>0, <1>5, <1>s, <1>t DEF handleUpdateRecipient, txnVars, FormTypeOK
<1>6. CASE toggleAddress
  BY <1>0, <1>6, <1>s, <1>t DEF toggleAddress, txnVars, FormTypeOK, Recipients
<1>7. CASE clickApprove
  <2>1. PICK kind \in {"approve", "approvalclearance"} : write(kind)
    BY <1>7 DEF clickApprove
  <2>2. /\ writing = NoTxn /\ latestTxn = NoTxn /\ latestTxn' = NoTxn
        /\ writing' \in Txns /\ writing' # NoTxn
        /\ writing'.kind = kind /\ writing'.same /\ writing'.status = "pending"
        /\ SelectionInv' /\ SentOnARealRoute'
    BY <2>1, WriteFacts
  <2>3. sentOfEntry' = sentOfEntry /\ sentOfEntry = 0
    BY <1>0, <1>7, <2>2 DEF clickApprove, OneTxn, Live
  <2>4. OneTxn'
    BY <2>2, <2>3 DEF OneTxn, Live
  <2>5. FormTypeOK'
    BY <1>0, <2>1, <2>2, <2>3 DEF FormTypeOK, write, formVars
  <2> QED BY <2>2, <2>4, <2>5 DEF PageInv
<1>8. CASE clickBridge
  <2>1. write("bridge")
    BY <1>8 DEF clickBridge
  <2>2. /\ writing = NoTxn /\ latestTxn = NoTxn /\ latestTxn' = NoTxn
        /\ writing' \in Txns /\ writing' # NoTxn
        /\ writing'.kind = "bridge" /\ writing'.same /\ writing'.status = "pending"
        /\ SelectionInv' /\ SentOnARealRoute'
    BY <2>1, WriteFacts
  <2>3. sentOfEntry' = 1
    BY <1>0, <1>8, <2>2 DEF clickBridge, OneTxn, Live
  <2>4. OneTxn'
    BY <2>2, <2>3 DEF OneTxn, Live
  <2>5. FormTypeOK'
    BY <1>0, <2>1, <2>2, <2>3 DEF FormTypeOK, write, formVars
  <2> QED BY <2>2, <2>4, <2>5 DEF PageInv
<1>9. CASE confirm
  <2>1. writing # NoTxn /\ writing' = NoTxn /\ latestTxn' = writing
        /\ sentOfEntry' = sentOfEntry /\ UNCHANGED <<selectionVars, formVars, allowance>>
    BY <1>9 DEF confirm
  <2>2. OneTxn'
    BY <1>0, <2>1 DEF OneTxn, Live
  <2>3. SentOnARealRoute'
    BY <1>0, <2>1, RouteStaysReal
  <2> QED BY <1>0, <1>s, <2>1, <2>2, <2>3 DEF PageInv, FormTypeOK, formVars
<1>10. CASE decline
  <2>1. /\ writing # NoTxn /\ writing' = NoTxn /\ latestTxn' = latestTxn
        /\ sentOfEntry' = IF writing.kind = "bridge" /\ writing.same
                          THEN sentOfEntry - 1 ELSE sentOfEntry
        /\ UNCHANGED <<selectionVars, formVars, allowance>>
    BY <1>10 DEF decline, undone
  <2>2. latestTxn = NoTxn /\ writing.status = "pending"
        /\ sentOfEntry = IF writing.kind = "bridge" /\ writing.same THEN 1 ELSE 0
    BY <1>0, <2>1 DEF OneTxn, Live
  <2>3. OneTxn' /\ sentOfEntry' = 0
    BY <2>1, <2>2 DEF OneTxn, Live
  <2>4. SentOnARealRoute'
    BY <1>0, <2>1, RouteStaysReal
  <2> QED BY <1>0, <1>s, <2>1, <2>3, <2>4 DEF PageInv, FormTypeOK, formVars
\* The latest transaction gets another status.
<1>b. ASSUME NEW st \in {"mined", "reverted"}, latestTxn # NoTxn,
             latestTxn.status = "pending", latestTxn' = [latestTxn EXCEPT !.status = st]
      PROVE  /\ latestTxn' \in Txns /\ latestTxn' # NoTxn /\ writing = NoTxn
             /\ Live(latestTxn') <=> Live(latestTxn) /\ st = "mined"
             /\ sentOfEntry = IF latestTxn.kind = "bridge" /\ latestTxn.same THEN 1 ELSE 0
             /\ Live(latestTxn) <=> latestTxn.kind = "bridge" /\ latestTxn.same
  <2>1. latestTxn \in Txns /\ writing = NoTxn
    BY <1>0, <1>b DEF OneTxn
  <2>2. /\ latestTxn' \in Txns /\ latestTxn'.kind = latestTxn.kind
        /\ latestTxn'.same = latestTxn.same /\ latestTxn'.status = st
    BY <1>b, <2>1 DEF Txns
  <2>3. latestTxn' # NoTxn
    BY <2>2, TxnAssumption
  <2>4. sentOfEntry = IF Live(latestTxn) THEN 1 ELSE 0
    BY <1>0, <2>1 DEF OneTxn, Live
  <2> QED BY <1>b, <2>1, <2>2, <2>3, <2>4 DEF Live
<1>11. CASE mine
  <2>1. /\ latestTxn # NoTxn /\ latestTxn.status = "pending"
        /\ latestTxn' = [latestTxn EXCEPT !.status = "mined"]
        /\ UNCHANGED <<selectionVars, formVars, writing, sentOfEntry>>
    BY <1>11 DEF mine
  <2>2. /\ latestTxn' \in Txns /\ latestTxn' # NoTxn /\ writing = NoTxn
        /\ Live(latestTxn') <=> Live(latestTxn)
    BY <1>b, <2>1
  <2>3. allowance' \in Allowances
    <3>1. latestTxn.kind \in {"approve", "approvalclearance", "bridge"}
      BY <1>0, <2>1 DEF Txns
    <3>2. allowance' \in allowanceAfter(latestTxn)
      BY <1>11 DEF mine
    <3>3. allowanceAfter(latestTxn) \subseteq Allowances
      BY <1>0, <3>1 DEF allowanceAfter, FormTypeOK, Allowances
    <3> QED BY <3>2, <3>3
  <2>4. OneTxn'
    BY <1>0, <2>1, <2>2 DEF OneTxn, Live
  <2>5. SentOnARealRoute'
    BY <1>0, <2>1, <2>2, RouteStaysReal
  <2> QED BY <1>0, <1>s, <2>1, <2>2, <2>3, <2>4, <2>5 DEF PageInv, FormTypeOK, formVars
<1>12. CASE revert
  <2>1. /\ latestTxn # NoTxn /\ latestTxn.status = "pending"
        /\ latestTxn' = [latestTxn EXCEPT !.status = "reverted"]
        /\ sentOfEntry' = IF latestTxn.kind = "bridge" /\ latestTxn.same
                          THEN sentOfEntry - 1 ELSE sentOfEntry
        /\ UNCHANGED <<selectionVars, formVars, allowance, writing>>
    BY <1>12 DEF revert, undone
  <2>2. /\ latestTxn' \in Txns /\ latestTxn' # NoTxn /\ writing = NoTxn
        /\ ~Live(latestTxn')
        /\ sentOfEntry = IF latestTxn.kind = "bridge" /\ latestTxn.same THEN 1 ELSE 0
    BY <1>b, <2>1
  <2>3. sentOfEntry' = 0
    BY <2>1, <2>2
  <2>4. OneTxn'
    BY <1>0, <2>1, <2>2, <2>3 DEF OneTxn, Live
  <2>5. SentOnARealRoute'
    BY <1>0, <2>1, <2>2, RouteStaysReal
  <2> QED BY <1>0, <1>s, <2>1, <2>2, <2>3, <2>4, <2>5 DEF PageInv, FormTypeOK, formVars
<1>13. CASE allowanceChanges
  BY <1>0, <1>13, <1>s, <1>t DEF allowanceChanges, txnVars, formVars, FormTypeOK
<1>14. CASE receipt
  <2>1. /\ latestTxn # NoTxn /\ latestTxn' = NoTxn
        /\ UNCHANGED <<selectionVars, recipient>>
    BY <1>14 DEF receipt, receiptArrives
  <2>2. CASE latestTxn.kind = "bridge" /\ setAmount(FALSE)
    BY <1>a, <2>1, <2>2
  <2>3. CASE latestTxn.kind # "bridge"
             /\ UNCHANGED <<hasAmount, allowance, writing, sentOfEntry>>
    <3>1. OneTxn'
      BY <1>0, <2>1, <2>3 DEF OneTxn, Live
    <3>2. SentOnARealRoute'
      BY <1>0, <2>1, <2>3, RouteStaysReal
    <3> QED BY <1>0, <1>s, <2>1, <2>3, <3>1, <3>2 DEF PageInv, FormTypeOK
  <2> QED BY <1>14, <2>2, <2>3 DEF receipt
<1>15. CASE UNCHANGED vars
  BY <1>0, <1>15, <1>s, <1>t DEF vars, txnVars, formVars, FormTypeOK
<1> QED BY <1>1, <1>2, <1>3, <1>4, <1>5, <1>6, <1>7, <1>8, <1>9, <1>10, <1>11, <1>12,
           <1>13, <1>14, <1>15 DEF Next

\* The invariant of the page holds throughout.
LEMMA PageInvariant == Spec => []PageInv
<1>1. Init => PageInv
  <2> SUFFICES ASSUME Init PROVE PageInv
    OBVIOUS
  <2>1. SelectionInv
    BY SelectionInvInit DEF Init
  <2> QED BY <2>1 DEF Init, PageInv, FormTypeOK, OneTxn, SentOnARealRoute, Live, Recipients
<1> QED BY <1>1, PageInvStep, PTL DEF Spec

\* There is a toast while the page waits for a transaction, without which the
\* receipt would not be looked at.
ToastWaits == loadingId \in BOOLEAN /\ (latestTxn # NoTxn => loadingId)

\* It is shown with the transaction, and goes with it.
LEMMA ToastAlwaysWaits == Spec => []ToastWaits
<1>1. Init => ToastWaits
  BY DEF Init, ToastWaits
<1>2. ToastWaits /\ [Next]_vars => ToastWaits'
  <2> SUFFICES ASSUME ToastWaits, [Next]_vars PROVE ToastWaits'
    OBVIOUS
  <2>1. CASE UNCHANGED <<latestTxn, loadingId>>
    BY <2>1 DEF ToastWaits
  <2>2. CASE loadingId' = loadingId /\ latestTxn # NoTxn
    BY <2>2 DEF ToastWaits
  <2>3. CASE latestTxn' = NoTxn /\ loadingId' = FALSE
    BY <2>3 DEF ToastWaits
  <2>4. CASE confirm
    BY <2>4 DEF confirm, loadingToast, ToastWaits
  <2>5. ASSUME NEW b, typeAmount(b) PROVE ToastWaits'
    BY <2>5 DEF typeAmount, OtherEntry, ToastWaits
  <2> QED
    BY <2>1, <2>2, <2>3, <2>4, <2>5
    DEF Next, select, accountChanges, reload, handleUpdateRecipient, toggleAddress, clickApprove,
        clickBridge, write, decline, mine, revert, allowanceChanges, receipt, receiptArrives,
        vars, txnVars
<1> QED BY <1>1, <1>2, PTL DEF Spec

-----------------------------------------------------------------------------
\* The page keeps its types, for any tables of networks and tokens.
THEOREM PageTypeCorrect == Spec => []TypeOK
<1>1. PageInv /\ ToastWaits => TypeOK
  BY SelectionTypes DEF PageInv, FormTypeOK, ToastWaits, TypeOK
<1> QED BY <1>1, PageInvariant, ToastAlwaysWaits, PTL

\* Every route the page shows or asks for has the home network at one end.
THEOREM RoutesJoinHome == Spec => []HomeOnOneSide
<1>1. PageInv => HomeOnOneSide
  BY DEF PageInv, SelectionInv
<1> QED BY <1>1, PageInvariant, PTL

\* The page sends from where the wallet is, for any tables and any order of
\* the user's picks and the wallet's moves.
THEOREM RouteFollowsWallet == Spec => []PageFollowsWallet
<1>1. PageInv => PageFollowsWallet
  BY DEF PageInv, SelectionInv
<1> QED BY <1>1, PageInvariant, PTL

\* The token shown is always one the route shown can carry.
THEOREM TokenAlwaysFits == Spec => []TokenFitsRoute
<1>1. PageInv => TokenFitsRoute
  BY DEF PageInv, SelectionInv
<1> QED BY <1>1, PageInvariant, PTL

\* The user gets the route that was chosen as soon as the wallet is there.
THEOREM ChosenIsShown == Spec => []ChosenRouteIsShown
<1>1. PageInv => ChosenRouteIsShown
  BY DEF PageInv, SelectionInv
<1> QED BY <1>1, PageInvariant, PTL

\* What was typed once is bridged at most once, however the user goes on
\* between the click and the receipt: the page never has two transactions.
THEOREM BridgedOncePerEntry == Spec => []OncePerEntry
<1>1. PageInv => OncePerEntry
  BY DEF PageInv, OneTxn, OncePerEntry
<1> QED BY <1>1, PageInvariant, PTL

\* A bridge transaction names a token that the network it is sent on offers to
\* the target it names.
THEOREM SentOnRealRoutes == Spec => []SentOnARealRoute
<1>1. PageInv => SentOnARealRoute
  BY DEF PageInv
<1> QED BY <1>1, PageInvariant, PTL

-----------------------------------------------------------------------------
(* The tables, and the way back *)

\* The fields of a token that the routes depend on.
LEMMA TokenFields ==
    \A n, b : /\ ERC20(n, b).name = n /\ ERC20(n, b).bridgesTo = b
              /\ Coin(n, b).name = n /\ Coin(n, b).bridgesTo = b
              /\ ClearedERC20(n, b).name = n /\ ClearedERC20(n, b).bridgesTo = b
BY DEF ERC20, Coin, ClearedERC20

\* Tokens of one network have different names.
Named(S) == \A t, u \in S : t.name = u.name => t = u

\* What network c offers to d is offered by d to c.
Returns(c, S, d, T) ==
    \A t \in S : d \in t.bridgesTo => \E u \in T : u.name = t.name /\ c \in u.bridgesTo

\* The tables, token by token.
LEMMA HomeTable ==
    \A t \in zq :
        \/ t \in {ERC20("SEED", {"bsc"}), ERC20("FPS", {"bsc"}), ERC20("BNB", {"bsc"})}
        \/ t = ERC20("HRSE", {"bsc", "base"}) \/ t = ERC20("POL", {"polygon"})
        \/ t = Coin("ZIL", {"ethereum", "polygon", "arbitrum", "bsc"})
        \/ t = ERC20("ETH", {"ethereum", "arbitrum"}) \/ t = ERC20("XCAD", {"ethereum"})
        \/ \E n \in {"OPUL", "BRKL", "WBTC", "USDT", "TRAXX", "LUNR", "dXCAD", "PORT", "FEES"} :
              t = ERC20(n, {"ethereum"})
BY DEF zq, zqToEthereum

\* No network lists a name twice.
LEMMA NamesDiffer ==
    /\ Named(zq) /\ Named(polygon) /\ Named(arbitrum) /\ Named(ethereum)
    /\ Named(bsc) /\ Named(base)
    /\ Named(zqTestnet) /\ Named(bscTestnet) /\ Named(baseTestnet)
<1>1. Named(zq)
  BY HomeTable, TokenFields DEF Named
<1>2. Named(polygon) /\ Named(arbitrum) /\ Named(base) /\ Named(baseTestnet)
  BY TokenFields DEF Named, polygon, arbitrum, base, baseTestnet
<1>3. Named(ethereum)
  BY TokenFields DEF Named, ethereum
<1>4. Named(bsc)
  BY TokenFields DEF Named, bsc
<1>5. Named(zqTestnet)
  BY TokenFields DEF Named, zqTestnet
<1>6. Named(bscTestnet)
  BY TokenFields DEF Named, bscTestnet
<1> QED BY <1>1, <1>2, <1>3, <1>4, <1>5, <1>6

\* Every token goes to other networks of its build.
LEMMA TargetsExist ==
    /\ \A t \in zq : t.bridgesTo \subseteq {"polygon", "arbitrum", "ethereum", "bsc", "base"}
    /\ \A t \in polygon \cup arbitrum \cup ethereum \cup bsc \cup base : t.bridgesTo = {"zq"}
    /\ \A t \in zqTestnet : t.bridgesTo \subseteq {"bsc-testnet", "base-testnet"}
    /\ \A t \in bscTestnet \cup baseTestnet : t.bridgesTo = {"zq-testnet"}
<1>1. \A t \in zq : t.bridgesTo \subseteq {"polygon", "arbitrum", "ethereum", "bsc", "base"}
  BY HomeTable, TokenFields
<1>2. \A t \in polygon \cup arbitrum \cup ethereum \cup bsc \cup base : t.bridgesTo = {"zq"}
  BY TokenFields DEF polygon, arbitrum, ethereum, bsc, base
<1>3. \A t \in zqTestnet : t.bridgesTo \subseteq {"bsc-testnet", "base-testnet"}
  BY TokenFields DEF zqTestnet
<1>4. \A t \in bscTestnet \cup baseTestnet : t.bridgesTo = {"zq-testnet"}
  BY TokenFields DEF bscTestnet, baseTestnet
<1> QED BY <1>1, <1>2, <1>3, <1>4

\* What leaves the home network comes back.
LEMMA RoutesReturn ==
    /\ Returns("zq", zq, "polygon", polygon) /\ Returns("zq", zq, "arbitrum", arbitrum)
    /\ Returns("zq", zq, "ethereum", ethereum) /\ Returns("zq", zq, "bsc", bsc)
    /\ Returns("zq", zq, "base", base)
    /\ Returns("zq-testnet", zqTestnet, "bsc-testnet", bscTestnet)
    /\ Returns("zq-testnet", zqTestnet, "base-testnet", baseTestnet)
<1>1. \A t \in zq :
         /\ "polygon" \in t.bridgesTo => t.name \in {"ZIL", "POL"}
         /\ "arbitrum" \in t.bridgesTo => t.name \in {"ZIL", "ETH"}
         /\ "ethereum" \in t.bridgesTo => t.name \in {"ZIL", "ETH", "XCAD", "OPUL", "BRKL", "WBTC",
                                             "USDT", "TRAXX", "LUNR", "dXCAD", "PORT", "FEES"}
         /\ "bsc" \in t.bridgesTo => t.name \in {"SEED", "HRSE", "FPS", "ZIL", "BNB"}
         /\ "base" \in t.bridgesTo => t.name = "HRSE"
  BY HomeTable, TokenFields
<1>2. \A t \in zqTestnet :
         /\ t.name \in {"SEED", "TST", "TSLM", "TST2", "BNB", "SCLD", "ZBTST", "ZIL"}
         /\ "base-testnet" \in t.bridgesTo => t.name = "ZBTST"
  BY TokenFields DEF zqTestnet
<1>3. Returns("zq", zq, "polygon", polygon)
  BY <1>1, TokenFields DEF Returns, polygon
<1>4. Returns("zq", zq, "arbitrum", arbitrum)
  BY <1>1, TokenFields DEF Returns, arbitrum
<1>5. Returns("zq", zq, "ethereum", ethereum)
  <2>1. \A n \in {"ZIL", "LUNR", "dXCAD", "PORT", "FEES", "XCAD", "OPUL", "BRKL", "WBTC", "TRAXX"} :
           ERC20(n, {"zq"}) \in ethereum
    BY DEF ethereum
  <2>2. Coin("ETH", {"zq"}) \in ethereum /\ ClearedERC20("USDT", {"zq"}) \in ethereum
    BY DEF ethereum
  <2> QED BY <1>1, <2>1, <2>2, TokenFields DEF Returns
<1>6. Returns("zq", zq, "bsc", bsc)
  <2>1. /\ \A n \in {"SEED", "HRSE", "FPS", "ZIL"} : ERC20(n, {"zq"}) \in bsc
        /\ Coin("BNB", {"zq"}) \in bsc
    BY DEF bsc
  <2> QED BY <1>1, <2>1, TokenFields DEF Returns
<1>7. Returns("zq", zq, "base", base)
  BY <1>1, TokenFields DEF Returns, base
<1>8. Returns("zq-testnet", zqTestnet, "bsc-testnet", bscTestnet)
  <2>1. /\ \A n \in {"SEED", "TST", "TSLM", "TST2", "ZBTST", "ZIL", "SCLD"} :
              ERC20(n, {"zq-testnet"}) \in bscTestnet
        /\ Coin("BNB", {"zq-testnet"}) \in bscTestnet
    BY DEF bscTestnet
  <2> QED BY <1>2, <2>1, TokenFields DEF Returns
<1>9. Returns("zq-testnet", zqTestnet, "base-testnet", baseTestnet)
  BY <1>2, TokenFields DEF Returns, baseTestnet
<1> QED BY <1>3, <1>4, <1>5, <1>6, <1>7, <1>8, <1>9

\* And what the others offer comes from there.
LEMMA RoutesLead ==
    /\ Returns("polygon", polygon, "zq", zq) /\ Returns("arbitrum", arbitrum, "zq", zq)
    /\ Returns("ethereum", ethereum, "zq", zq) /\ Returns("bsc", bsc, "zq", zq)
    /\ Returns("base", base, "zq", zq)
    /\ Returns("bsc-testnet", bscTestnet, "zq-testnet", zqTestnet)
    /\ Returns("base-testnet", baseTestnet, "zq-testnet", zqTestnet)
<1>1. /\ ERC20("SEED", {"bsc"}) \in zq /\ ERC20("HRSE", {"bsc", "base"}) \in zq
      /\ ERC20("FPS", {"bsc"}) \in zq /\ ERC20("POL", {"polygon"}) \in zq
      /\ ERC20("XCAD", {"ethereum"}) \in zq /\ ERC20("ETH", {"ethereum", "arbitrum"}) \in zq
      /\ Coin("ZIL", {"ethereum", "polygon", "arbitrum", "bsc"}) \in zq
      /\ ERC20("BNB", {"bsc"}) \in zq
  BY DEF zq
<1>2. \A n \in {"OPUL", "BRKL", "WBTC", "USDT", "TRAXX", "LUNR", "dXCAD", "PORT", "FEES"} :
         ERC20(n, {"ethereum"}) \in zq
  BY DEF zq, zqToEthereum
<1>3. /\ \A n \in {"SEED", "TST", "TSLM", "TST2", "BNB", "SCLD"} :
            ERC20(n, {"bsc-testnet"}) \in zqTestnet
      /\ ERC20("ZBTST", {"bsc-testnet", "base-testnet"}) \in zqTestnet
      /\ Coin("ZIL", {"bsc-testnet"}) \in zqTestnet
  BY DEF zqTestnet
<1>4. Returns("polygon", polygon, "zq", zq) /\ Returns("arbitrum", arbitrum, "zq", zq)
  <2>1. /\ \A t \in polygon : t.name \in {"ZIL", "POL"}
        /\ \A t \in arbitrum : t.name \in {"ZIL", "ETH"}
    BY TokenFields DEF polygon, arbitrum
  <2> QED BY <1>1, <2>1, TokenFields DEF Returns
<1>5. Returns("ethereum", ethereum, "zq", zq)
  <2>1. \A t \in ethereum : t.name \in {"ZIL", "ETH", "XCAD"} \cup
            {"OPUL", "BRKL", "WBTC", "USDT", "TRAXX", "LUNR", "dXCAD", "PORT", "FEES"}
    BY TokenFields DEF ethereum
  <2> QED BY <1>1, <1>2, <2>1, TokenFields DEF Returns
<1>6. Returns("bsc", bsc, "zq", zq) /\ Returns("base", base, "zq", zq)
  <2>1. /\ \A t \in bsc : t.name \in {"SEED", "HRSE", "FPS", "ZIL", "BNB"}
        /\ \A t \in base : t.name = "HRSE"
    BY TokenFields DEF bsc, base
  <2> QED BY <1>1, <2>1, TokenFields DEF Returns
<1>7. /\ Returns("bsc-testnet", bscTestnet, "zq-testnet", zqTestnet)
      /\ Returns("base-testnet", baseTestnet, "zq-testnet", zqTestnet)
  <2>1. /\ \A t \in bscTestnet : t.name \in {"SEED", "TST", "TSLM", "TST2", "BNB", "SCLD", "ZBTST", "ZIL"}
        /\ \A t \in baseTestnet : t.name = "ZBTST"
    BY TokenFields DEF bscTestnet, baseTestnet
  <2> QED BY <1>3, <2>1, TokenFields DEF Returns
<1> QED BY <1>4, <1>5, <1>6, <1>7

\* The entries of a table for a network that has only one.
LEMMA OnlyEntry ==
    ASSUME NEW F, NEW c, NEW k \in DOMAIN F, \A j \in DOMAIN F : F[j].chain = c <=> j = k
    PROVE  UNION {F[i].tokens : i \in {j \in DOMAIN F : F[j].chain = c}} = F[k].tokens
<1>1. {j \in DOMAIN F : F[j].chain = c} = {k}
  OBVIOUS
<1>2. {F[i].tokens : i \in {k}} = {F[k].tokens}
  OBVIOUS
<1> QED BY <1>1, <1>2

\* The networks of the two builds, and what chainConfigs lists for each.
LEMMA ConfiguredTokens ==
    /\ NetworksOf("production") = {"zq", "polygon", "arbitrum", "ethereum", "bsc", "base"}
    /\ NetworksOf("development") = {"zq-testnet", "bsc-testnet", "base-testnet"}
    /\ TokensOf("production", "zq") = zq /\ TokensOf("production", "polygon") = polygon
    /\ TokensOf("production", "arbitrum") = arbitrum
    /\ TokensOf("production", "ethereum") = ethereum
    /\ TokensOf("production", "bsc") = bsc /\ TokensOf("production", "base") = base
    /\ TokensOf("development", "zq-testnet") = zqTestnet
    /\ TokensOf("development", "bsc-testnet") = bscTestnet
    /\ TokensOf("development", "base-testnet") = baseTestnet
<1>1. PICK P : P = chainConfigs("production")
  OBVIOUS
<1>2. PICK D : D = chainConfigs("development")
  OBVIOUS
<1>3. /\ DOMAIN P = {1, 2, 3, 4, 5, 6}
      /\ P[1] = [chain |-> "zq", tokens |-> zq] /\ P[2] = [chain |-> "polygon", tokens |-> polygon]
      /\ P[3] = [chain |-> "arbitrum", tokens |-> arbitrum]
      /\ P[4] = [chain |-> "ethereum", tokens |-> ethereum]
      /\ P[5] = [chain |-> "bsc", tokens |-> bsc] /\ P[6] = [chain |-> "base", tokens |-> base]
  BY <1>1 DEF chainConfigs
<1>4. /\ DOMAIN D = {1, 2, 3}
      /\ D[1] = [chain |-> "zq-testnet", tokens |-> zqTestnet]
      /\ D[2] = [chain |-> "bsc-testnet", tokens |-> bscTestnet]
      /\ D[3] = [chain |-> "base-testnet", tokens |-> baseTestnet]
  BY <1>2 DEF chainConfigs
<1>5. /\ NetworksOf("production") = {P[i].chain : i \in DOMAIN P}
      /\ NetworksOf("development") = {D[i].chain : i \in DOMAIN D}
  BY <1>1, <1>2 DEF NetworksOf
<1>6. \A c : /\ TokensOf("production", c) = UNION {P[i].tokens : i \in {j \in DOMAIN P : P[j].chain = c}}
             /\ TokensOf("development", c) = UNION {D[i].tokens : i \in {j \in DOMAIN D : D[j].chain = c}}
  BY <1>1, <1>2 DEF TokensOf
<1>7. /\ NetworksOf("production") = {"zq", "polygon", "arbitrum", "ethereum", "bsc", "base"}
      /\ NetworksOf("development") = {"zq-testnet", "bsc-testnet", "base-testnet"}
  BY <1>3, <1>4, <1>5
<1>8. \A c : \A k \in DOMAIN P :
         (\A j \in DOMAIN P : P[j].chain = c <=> j = k) => TokensOf("production", c) = P[k].tokens
  <2> TAKE c
  <2> TAKE k \in DOMAIN P
  <2> HAVE \A j \in DOMAIN P : P[j].chain = c <=> j = k
  <2>1. UNION {P[i].tokens : i \in {j \in DOMAIN P : P[j].chain = c}} = P[k].tokens
    BY OnlyEntry
  <2>2. TokensOf("production", c) = UNION {P[i].tokens : i \in {j \in DOMAIN P : P[j].chain = c}}
    BY <1>6
  <2> QED BY <2>1, <2>2
<1>9. \A c : \A k \in DOMAIN D :
         (\A j \in DOMAIN D : D[j].chain = c <=> j = k) => TokensOf("development", c) = D[k].tokens
  <2> TAKE c
  <2> TAKE k \in DOMAIN D
  <2> HAVE \A j \in DOMAIN D : D[j].chain = c <=> j = k
  <2>1. UNION {D[i].tokens : i \in {j \in DOMAIN D : D[j].chain = c}} = D[k].tokens
    BY OnlyEntry
  <2>2. TokensOf("development", c) = UNION {D[i].tokens : i \in {j \in DOMAIN D : D[j].chain = c}}
    BY <1>6
  <2> QED BY <2>1, <2>2
<1>10. /\ TokensOf("production", "zq") = P[1].tokens
      /\ TokensOf("production", "polygon") = P[2].tokens
      /\ TokensOf("production", "arbitrum") = P[3].tokens
      /\ TokensOf("production", "ethereum") = P[4].tokens
      /\ TokensOf("production", "bsc") = P[5].tokens
      /\ TokensOf("production", "base") = P[6].tokens
  BY <1>3, <1>8
<1>11. /\ TokensOf("development", "zq-testnet") = D[1].tokens
      /\ TokensOf("development", "bsc-testnet") = D[2].tokens
      /\ TokensOf("development", "base-testnet") = D[3].tokens
  BY <1>4, <1>9
<1> QED BY <1>3, <1>4, <1>7, <1>10, <1>11

\* A build whose networks are the home network h and the networks of S, and
\* whose tokens all go from h into S or from S to h, both ways.
Star(mode, h, S) ==
    /\ NetworksOf(mode) = S \cup {h} /\ h \notin S
    /\ Named(TokensOf(mode, h))
    /\ \A t \in TokensOf(mode, h) : t.bridgesTo \subseteq S
    /\ \A c \in S :
          /\ Named(TokensOf(mode, c))
          /\ \A t \in TokensOf(mode, c) : t.bridgesTo = {h}
          /\ Returns(h, TokensOf(mode, h), c, TokensOf(mode, c))
          /\ Returns(c, TokensOf(mode, c), h, TokensOf(mode, h))

\* Both builds are stars: every token goes from the home network or to it.
LEMMA BuildsAreStars ==
    /\ Star("production", "zq", {"polygon", "arbitrum", "ethereum", "bsc", "base"})
    /\ Star("development", "zq-testnet", {"bsc-testnet", "base-testnet"})
<1>1. Star("production", "zq", {"polygon", "arbitrum", "ethereum", "bsc", "base"})
  <2>1. ASSUME NEW c \in {"polygon", "arbitrum", "ethereum", "bsc", "base"}
        PROVE  /\ Named(TokensOf("production", c))
               /\ \A t \in TokensOf("production", c) : t.bridgesTo = {"zq"}
               /\ Returns("zq", zq, c, TokensOf("production", c))
               /\ Returns(c, TokensOf("production", c), "zq", zq)
    <3>1. CASE c = "polygon"
      BY <3>1, ConfiguredTokens, NamesDiffer, TargetsExist, RoutesReturn, RoutesLead
    <3>2. CASE c = "arbitrum"
      BY <3>2, ConfiguredTokens, NamesDiffer, TargetsExist, RoutesReturn, RoutesLead
    <3>3. CASE c = "ethereum"
      BY <3>3, ConfiguredTokens, NamesDiffer, TargetsExist, RoutesReturn, RoutesLead
    <3>4. CASE c = "bsc"
      BY <3>4, ConfiguredTokens, NamesDiffer, TargetsExist, RoutesReturn, RoutesLead
    <3>5. CASE c = "base"
      BY <3>5, ConfiguredTokens, NamesDiffer, TargetsExist, RoutesReturn, RoutesLead
    <3> QED BY <3>1, <3>2, <3>3, <3>4, <3>5
  <2> QED BY <2>1, ConfiguredTokens, NamesDiffer, TargetsExist DEF Star
<1>2. Star("development", "zq-testnet", {"bsc-testnet", "base-testnet"})
  <2>1. ASSUME NEW c \in {"bsc-testnet", "base-testnet"}
        PROVE  /\ Named(TokensOf("development", c))
               /\ \A t \in TokensOf("development", c) : t.bridgesTo = {"zq-testnet"}
               /\ Returns("zq-testnet", zqTestnet, c, TokensOf("development", c))
               /\ Returns(c, TokensOf("development", c), "zq-testnet", zqTestnet)
    <3>1. CASE c = "bsc-testnet"
      BY <3>1, ConfiguredTokens, NamesDiffer, TargetsExist, RoutesReturn, RoutesLead
    <3>2. CASE c = "base-testnet"
      BY <3>2, ConfiguredTokens, NamesDiffer, TargetsExist, RoutesReturn, RoutesLead
    <3> QED BY <3>1, <3>2
  <2> QED BY <2>1, ConfiguredTokens, NamesDiffer, TargetsExist DEF Star
<1> QED BY <1>1, <1>2

\* In a star, getTargetToken finds one token, and that goes back.
LEMMA StarGoesBack ==
    ASSUME NEW mode, NEW h, NEW S, Star(mode, h, S),
           NEW c \in NetworksOf(mode), NEW t \in TokensOf(mode, c), NEW d \in t.bridgesTo
    PROVE  /\ d \in NetworksOf(mode) \ {c}
           /\ \E u \in getTargetToken(mode, d, t) :
                 getTargetToken(mode, d, t) = {u} /\ c \in u.bridgesTo
<1>1. /\ d \in NetworksOf(mode) \ {c} /\ Named(TokensOf(mode, d))
      /\ Returns(c, TokensOf(mode, c), d, TokensOf(mode, d))
  <2>1. CASE c = h
    <3>1. d \in S
      BY <2>1 DEF Star
    <3>2. /\ d \in NetworksOf(mode) \ {h} /\ Named(TokensOf(mode, d))
          /\ Returns(h, TokensOf(mode, h), d, TokensOf(mode, d))
      BY <3>1 DEF Star
    <3> QED BY <2>1, <3>2
  <2>2. CASE c # h
    <3>1. c \in S /\ t.bridgesTo = {h} /\ Returns(c, TokensOf(mode, c), h, TokensOf(mode, h))
      BY <2>2 DEF Star
    <3>2. d = h
      BY <3>1
    <3> QED BY <2>2, <3>1, <3>2 DEF Star
  <2> QED BY <2>1, <2>2
<1>2. PICK u \in TokensOf(mode, d) : u.name = t.name /\ c \in u.bridgesTo
  BY <1>1 DEF Returns
<1>3. getTargetToken(mode, d, t) = {u}
  BY <1>1, <1>2 DEF Named, getTargetToken
<1> QED BY <1>1, <1>2, <1>3

\* The tables of both builds, written by hand at both ends of every route,
\* agree: what is sent can be sent back, under one name, and there is something
\* to send on every route.
THEOREM TablesAreSymmetric == RoutesAreSymmetric
<1>1. ASSUME NEW c \in NetworksOf("production") \ {"zq"}
      PROVE  \E t \in TokensOf("production", "zq") : c \in t.bridgesTo
  <2>1. /\ Coin("ZIL", {"ethereum", "polygon", "arbitrum", "bsc"}) \in zq
        /\ ERC20("HRSE", {"bsc", "base"}) \in zq
    BY DEF zq
  <2> QED BY <2>1, TokenFields, ConfiguredTokens
<1>2. ASSUME NEW c \in NetworksOf("development") \ {"zq-testnet"}
      PROVE  \E t \in TokensOf("development", "zq-testnet") : c \in t.bridgesTo
  <2>1. ERC20("ZBTST", {"bsc-testnet", "base-testnet"}) \in zqTestnet
    BY DEF zqTestnet
  <2> QED BY <2>1, TokenFields, ConfiguredTokens
<1>3. /\ siteConfig("production").homeNetwork = "zq"
      /\ siteConfig("development").homeNetwork = "zq-testnet"
  BY DEF siteConfig
<1>4. ASSUME NEW mode \in {"production", "development"},
             NEW c \in NetworksOf(mode), NEW t \in TokensOf(mode, c), NEW d \in t.bridgesTo
      PROVE  /\ d \in NetworksOf(mode) \ {c}
             /\ \E u \in getTargetToken(mode, d, t) :
                   getTargetToken(mode, d, t) = {u} /\ c \in u.bridgesTo
  <2>1. PICK h, S : Star(mode, h, S)
    BY BuildsAreStars
  <2> QED BY <2>1, StarGoesBack
<1> QED BY <1>1, <1>2, <1>3, <1>4 DEF RoutesAreSymmetric

\* Whatever part of the production tables the page is given, the token it shows
\* can be sent back from the target it shows: getTargetToken finds it there.
THEOREM SentCanComeBack ==
    ASSUME Networks \subseteq NetworksOf("production"),
           \A c \in Networks : tokens[c] \subseteq TokensOf("production", c)
    PROVE  Spec => []ThereIsAWayBack
<1>1. ASSUME PageInv
      PROVE  ThereIsAWayBack
  <2>1. /\ currentChains[1] \in Networks
        /\ token \in tokens[currentChains[1]] /\ currentChains[2] \in token.bridgesTo
    BY <1>1, SelectionAssumption
    DEF PageInv, SelectionInv, HomeOnOneSide, TokenFitsRoute, getAvailableTokens, Routes
  <2>2. /\ currentChains[1] \in NetworksOf("production")
        /\ token \in TokensOf("production", currentChains[1])
    BY <2>1
  <2>3. \E u \in getTargetToken("production", currentChains[2], token) :
           currentChains[1] \in u.bridgesTo
    BY <2>1, <2>2, BuildsAreStars, StarGoesBack
  <2> QED BY <2>3, TablesAreSymmetric DEF ThereIsAWayBack
<1> QED BY <1>1, PageInvariant, PTL
=============================================================================
