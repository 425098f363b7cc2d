---------------------------- MODULE TokenManager ----------------------------
(***************************************************************************)
(* One bridged token: a LockAndRelease manager on its home chain and a     *)
(* MintAndBurn manager on each of the other chains (smart-contracts/       *)
(* contracts/periphery, TokenManagerUpgradeableV4 with V5 and V6).  The    *)
(* tokens of the chains have different decimals; transfer() scales the     *)
(* amount and reverts if that is not exact, because accept() on the other  *)
(* side can no longer stop the tokens having been sent.                    *)
(*                                                                         *)
(* The gateways (ChainGateway) deliver each message once, in any order; a  *)
(* call that reverts leaves the message spent.  Holders are not told       *)
(* apart: of a chain's token only the sum matters.                         *)
(***************************************************************************)
EXTENDS Integers, FiniteSets, FiniteSetsExt, Functions

CONSTANTS Home,         \* chain the token is locked on
          Remotes,      \* chains it is minted on
          Decimals,     \* decimals of the token of each chain
          Base,         \* 10 in the code
          MaxUint,      \* largest uint
          Supply,       \* total supply on the home chain
          Deployments,  \* the sets of remote chains that may have it at first
          Manager,      \* the token managers, as senders of messages
          Other,        \* another contract the gateways let relay
          ForeignAmounts, \* amounts such a contract names
          NoRoute,      \* a pair without an entry in remoteTokens
          MaxMessages,  \* messages ever relayed
          MaxUnpayable, \* transfers to recipients that cannot be paid
          MaxForeign,   \* messages of that other contract
          MaxOwner      \* operations of the owner, deployments apart

Chains == {Home} \cup Remotes

\* decimals() is a uint8.
MaxDecimals == 255

\* uint(10)**n
power[n \in 0 .. MaxDecimals] == IF n = 0 THEN 1 ELSE Base * power[n - 1]

ASSUME TokenManagerAssumption ==
    /\ Home \notin Remotes /\ IsFiniteSet(Remotes) /\ Manager # Other
    /\ NoRoute \notin Int /\ ForeignAmounts \subseteq 0 .. MaxUint
    /\ Decimals \in [Chains -> 0 .. MaxDecimals]
    /\ Base \in Nat \ {0, 1} /\ MaxUint \in Nat /\ Supply \in Nat
    /\ Deployments \subseteq SUBSET Remotes
    /\ MaxMessages \in Nat /\ MaxUnpayable \in Nat
    /\ MaxForeign \in Nat /\ MaxOwner \in Nat
    \* the whole supply fits in a uint, in the unit of every chain
    /\ \A c \in Chains : Supply * power[Decimals[c]] <= MaxUint * power[Decimals[Home]]

\* The pairs of chains between which the token is bridged.
Pairs == {<<Home, r>> : r \in Remotes} \cup {<<r, Home>> : r \in Remotes}

\* AcceptArgs with the CallMetadata, and the nonce the gateway gave it.  Of the
\* recipient only this matters: whether the target chain's token can be paid to
\* it.  It cannot to address(0), nor to a contract that refuses native tokens;
\* transfer() does not look.
Messages == [source : Chains, target : Chains, sender : {Manager, Other},
             payable : BOOLEAN, amount : 0 .. MaxUint, nonce : 1 .. MaxMessages]

VARIABLES locked,     \* balance of the manager on the home chain
          minted,     \* totalSupply of the token of each remote chain
          scales,     \* remoteTokens and scaleForRemoteTokens
          paused,     \* chains whose manager is paused
          ownsToken,  \* remote chains whose manager may mint and burn
          status,     \* what became of each message relayed
          ownerOps,   \* operations of the owner so far, deployments apart
          withdrawn   \* history: entries the owner has ever removed

vars == <<locked, minted, scales, paused, ownsToken, status, ownerOps, withdrawn>>

ownerVars == <<scales, paused, ownsToken, ownerOps, withdrawn>>

\* Tokens that holders of chain c can send.
Circulating(c) == IF c = Home THEN Supply - locked ELSE minted[c]

-----------------------------------------------------------------------------
(* Scaling *)

\* scale is remote_token.decimals - local_token.decimals.
scaleFor(c, t) == Decimals[t] - Decimals[c]

adjusted(amount, scale) ==
    IF scale < 0 THEN amount \div power[-scale] ELSE amount * power[scale]

reconstructed(amount, scale) ==
    IF scale < 0 THEN amount * power[-scale] ELSE amount \div power[scale]

\* Mutant: the amount is rounded.
scalesExactlyMutant(amount, scale) == adjusted(amount, scale) <= MaxUint

\* _scaleAmount does not revert: the scaled amount is a uint, and converts back
\* to the amount.
scalesExactly(amount, scale) ==
    /\ adjusted(amount, scale) <= MaxUint
    /\ reconstructed(adjusted(amount, scale), scale) = amount

-----------------------------------------------------------------------------
(* Messages *)

relayed == DOMAIN status

nonceOf(c, t) == Cardinality({m \in relayed : m.source = c /\ m.target = t})

\* relayWithMetadata: the gateway adds source chain, sender and nonce.
relayWithMetadata(c, t, sender, payable, amount) ==
    /\ Cardinality(relayed) < MaxMessages
    /\ LET m == [source |-> c, target |-> t, sender |-> sender, payable |-> payable,
                 amount |-> amount, nonce |-> nonceOf(c, t) + 1]
       IN  status' = [n \in relayed \cup {m} |-> IF n = m THEN "sent" ELSE status[n]]

\* _handleTransfer: lock on the home chain, burn on the others.
handleTransfer(c, amount) ==
    \/ /\ c = Home
       /\ locked' = locked + amount /\ minted' = minted
    \/ /\ c \in ownsToken
       /\ minted' = [minted EXCEPT ![c] = @ - amount] /\ locked' = locked

\* Mutant: the holder's balance is not looked at.
transferMutant(c, t, payable, amount) ==
    /\ c \notin paused
    /\ scales[<<c, t>>] # NoRoute
    /\ scalesExactly(amount, scales[<<c, t>>])
    /\ payable \/ Cardinality({m \in relayed : ~m.payable}) < MaxUnpayable
    /\ handleTransfer(c, amount)
    /\ relayWithMetadata(c, t, Manager, payable, adjusted(amount, scales[<<c, t>>]))
    /\ UNCHANGED ownerVars

\* transfer(token, remoteChainId, recipient, amount) on chain c.
transfer(c, t, payable, amount) ==
    /\ c \notin paused
    /\ scales[<<c, t>>] # NoRoute
    /\ scalesExactly(amount, scales[<<c, t>>])
    /\ amount <= Circulating(c)
    /\ payable \/ Cardinality({m \in relayed : ~m.payable}) < MaxUnpayable
    /\ handleTransfer(c, amount)
    /\ relayWithMetadata(c, t, Manager, payable, adjusted(amount, scales[<<c, t>>]))
    /\ UNCHANGED ownerVars

\* A contract that is registered at the gateway, but is no token manager, sends
\* accept() a message.
foreignRelay(c, t, amount) ==
    /\ Cardinality({m \in relayed : m.sender = Other}) < MaxForeign
    /\ relayWithMetadata(c, t, Other, TRUE, amount)
    /\ UNCHANGED <<locked, minted, ownerVars>>

\* The route exists, and the message is from the manager it names.
acceptsFrom(m) == scales[<<m.target, m.source>>] # NoRoute /\ m.sender = Manager

\* Mutant: a paused manager accepts nothing.
canPayMutant(m) ==
    /\ m.target \notin paused
    /\ m.payable
    /\ IF m.target = Home THEN m.amount <= locked
       ELSE m.target \in ownsToken /\ minted[m.target] + m.amount <= MaxUint

\* _handleAccept: the manager has the tokens to release, or may mint them, and
\* the recipient takes them.  A paused manager goes on accepting.
canPay(m) ==
    /\ m.payable
    /\ IF m.target = Home THEN m.amount <= locked
       ELSE m.target \in ownsToken /\ minted[m.target] + m.amount <= MaxUint

\* dispatch() of m, accept() succeeding.
accept(m) ==
    /\ status[m] = "sent" /\ acceptsFrom(m) /\ canPay(m)
    /\ \/ m.target = Home /\ locked' = locked - m.amount /\ minted' = minted
       \/ m.target # Home /\ minted' = [minted EXCEPT ![m.target] = @ + m.amount]
                          /\ locked' = locked
    /\ status' = [status EXCEPT ![m] = "accepted"]
    /\ UNCHANGED ownerVars

\* accept() reverts: the message is spent all the same.
acceptFails(m) ==
    /\ status[m] = "sent" /\ ~(acceptsFrom(m) /\ canPay(m))
    /\ status' = [status EXCEPT ![m] = "failed"]
    /\ UNCHANGED <<locked, minted, ownerVars>>

-----------------------------------------------------------------------------
(* The owner *)

ownerOp == ownerOps < MaxOwner /\ ownerOps' = ownerOps + 1

\* deployToken: the new token is the manager's, and has an entry with scale 0,
\* whatever its decimals.
deployToken(r) ==
    /\ r \notin ownsToken /\ <<r, Home>> \notin withdrawn
    /\ ownsToken' = ownsToken \cup {r}
    /\ scales' = [scales EXCEPT ![<<r, Home>>] = 0]
    /\ UNCHANGED <<locked, minted, paused, status, ownerOps, withdrawn>>

\* The script that deploys a token on a remote chain.
deployBridgeToken(r) == deployToken(r)

\* The owner's duty: an entry comes after what it leads to, that is, a remote
\* chain's after its token, and the home chain's after the remote one has the
\* right scale.  What was withdrawn may be led to again.
inOrder(c, t) ==
    IF c = Home THEN \/ scales[<<t, c>>] = scaleFor(t, c)
                     \/ scales[<<t, c>>] = NoRoute /\ <<t, c>> \in withdrawn
    ELSE c \in ownsToken \/ <<c, t>> \in withdrawn

\* _registerToken, with the scale the entry then has.
withEntry(c, t, scale) ==
    /\ ownerOp
    /\ inOrder(c, t)
    /\ scales' = [scales EXCEPT ![<<c, t>>] = scale]
    /\ UNCHANGED <<locked, minted, paused, ownsToken, status, withdrawn>>

\* The scale is reset to 0.  The owner's duty: only for tokens of equal decimals.
registerToken(c, t) == scaleFor(c, t) = 0 /\ withEntry(c, t, 0)

\* The script that registers a token on the home chain.
registerHomeToken(r) == registerToken(Home, r)

\* Entry and scale in one transaction.
registerTokenWithScale(c, t) == withEntry(c, t, scaleFor(c, t))

removeToken(c, t) ==
    /\ ownerOp
    /\ scales' = [scales EXCEPT ![<<c, t>>] = NoRoute]
    /\ withdrawn' = withdrawn \cup {<<c, t>>}
    /\ UNCHANGED <<locked, minted, paused, ownsToken, status>>

\* The token of chain c is given to a new owner, and its entry removed.
transferTokenOwnership(c) ==
    /\ ownerOp
    /\ c \in ownsToken
    /\ ownsToken' = ownsToken \ {c}
    /\ scales' = [scales EXCEPT ![<<c, Home>>] = NoRoute]
    /\ withdrawn' = withdrawn \cup {<<c, Home>>}
    /\ UNCHANGED <<locked, minted, paused, status>>

pause(c) ==
    /\ ownerOp
    /\ c \notin paused
    /\ paused' = paused \cup {c}
    /\ UNCHANGED <<locked, minted, scales, ownsToken, status, withdrawn>>

unpause(c) ==
    /\ ownerOp
    /\ c \in paused
    /\ paused' = paused \ {c}
    /\ UNCHANGED <<locked, minted, scales, ownsToken, status, withdrawn>>

-----------------------------------------------------------------------------
\* The token is deployed and registered on some of its chains.
Init ==
    /\ locked = 0 /\ minted = [r \in Remotes |-> 0]
    /\ paused = {} /\ ownsToken \in Deployments
    /\ scales = [p \in Pairs |-> IF {p[1], p[2]} \cap ownsToken # {}
                                  THEN scaleFor(p[1], p[2]) ELSE NoRoute]
    /\ status = [m \in {} |-> "sent"]
    /\ ownerOps = 0 /\ withdrawn = {}

OwnerNext ==
    \/ \E r \in Remotes :
          deployBridgeToken(r) \/ registerHomeToken(r) \/ registerToken(r, Home)
    \/ \E p \in Pairs :
          \/ registerTokenWithScale(p[1], p[2])
          \/ removeToken(p[1], p[2])
    \/ \E c \in Chains : pause(c) \/ unpause(c) \/ transferTokenOwnership(c)

Next ==
    \/ \E p \in Pairs, payable \in BOOLEAN, amount \in 1 .. MaxUint :
          transfer(p[1], p[2], payable, amount)
    \/ \E p \in Pairs, amount \in ForeignAmounts : foreignRelay(p[1], p[2], amount)
    \/ \E m \in relayed : accept(m) \/ acceptFails(m)
    \/ OwnerNext

Spec == Init /\ [][Next]_vars

-----------------------------------------------------------------------------
(* Properties *)

TypeOK ==
    /\ locked \in 0 .. MaxUint /\ minted \in [Remotes -> 0 .. MaxUint]
    /\ scales \in [Pairs -> Int \cup {NoRoute}]
    /\ paused \subseteq Chains /\ ownsToken \subseteq Remotes
    /\ relayed \subseteq Messages
    /\ \A m \in relayed : status[m] \in {"sent", "accepted", "failed"}
    /\ ownerOps \in 0 .. MaxOwner /\ withdrawn \subseteq Pairs

Finest == Max({Decimals[d] : d \in Chains})

\* What an amount of chain c's token is worth, in the finest unit of any chain.
worth(c, amount) == amount * power[Finest - Decimals[c]]

\* The transfers that have not arrived, and those that failed.
Unpaid == {m \in relayed : m.sender = Manager /\ status[m] # "accepted"}

\* Every token that exists on a remote chain, or is on its way, is backed by
\* one that is locked: what the home manager holds is worth exactly what was
\* minted and not burned, plus the transfers that have not arrived, plus those
\* that failed.  No rounding, no foreign message, no order of delivery and, as
\* long as the owner keeps the two duties stated at inOrder and registerToken,
\* no operation of the owner changes it.
SupplyIsBacked ==
    worth(Home, locked) =
        SumFunction([r \in Remotes |-> worth(r, minted[r])])
        + SumFunction([m \in Unpaid |-> worth(m.target, m.amount)])

\* A transfer that was taken is paid out, unless its recipient cannot be paid
\* or the owner has removed the entry it needs: pausing a manager, the transfers
\* of others, lost ones included, and a remote supply that comes and goes by
\* other chains never make accept() revert.
NoTransferLost ==
    \A m \in relayed : m.sender = Manager /\ status[m] = "failed" =>
        ~m.payable \/ <<m.target, m.source>> \in withdrawn

Transfers == {m \in Messages : m.sender = Manager}

transferWorth == [m \in Messages |-> worth(m.target, m.amount)]

\* The token as its holders see it, without managers, messages and decimals.
Ledger == INSTANCE TokenLedger WITH
    Transfers <- Transfers,
    Worth     <- transferWorth,
    held      <- [c \in Chains |-> worth(c, Circulating(c))],
    departed  <- {m \in relayed : m.sender = Manager},
    arrived   <- {m \in relayed : m.sender = Manager /\ status[m] = "accepted"}

\* The managers keep the accounts of TokenLedger: nothing but a transfer changes
\* what a chain's holders have, transfer() takes exactly what accept() will pay,
\* and accept() pays it once, in the right place, or never.
KeepsLedger == Ledger!Spec
=============================================================================
