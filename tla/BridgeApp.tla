----------------------------- MODULE BridgeApp -----------------------------
(***************************************************************************)
(* The page (bridge-web/src/App.tsx, useRecipientInput.ts) and the user's  *)
(* transactions: the form, the buttons that clear an allowance, approve    *)
(* and bridge, the wallet's confirmation, and the wait for the receipt.    *)
(* What the page then says of a bridged message is BridgeToast's.          *)
(*                                                                         *)
(* Balances, fees, decimals and the paused flag only enable or disable a   *)
(* button: a click happens when they allow it.  A transaction may be       *)
(* reverted for a reason the page could not see.                           *)
(***************************************************************************)
EXTENDS NetworkSelection

CONSTANTS NoTxn          \* no transaction

\* What the recipient field can hold: nothing, no address, a hex address, or
\* the same address in Zilliqa's bech32 form.
Recipients == {"none", "bad", "eth", "bech32"}

\* The token manager's allowance over the token shown, against the amount typed.
Allowances == {"zero", "short", "enough"}

VARIABLES hasAmount,   \* the amount field holds a positive number
          recipient,   \* the recipient field
          allowance,   \* allowance of the token shown, on chain
          writing,     \* transaction the wallet asks the user to confirm
          latestTxn,   \* transaction the page waits for
          loadingId,   \* whether there is a toast for that transaction
          sentOfEntry  \* history: bridge transactions built from the amount in
                       \* the field and not reverted

formVars == <<hasAmount, recipient>>
txnVars == <<writing, latestTxn, loadingId>>
vars == <<selectionVars, formVars, allowance, txnVars, sentOfEntry>>

\* A transaction: what it does, on which chain, for which target and token,
\* and (same) whether the amount field still holds the entry it was built from.
Txns == [kind : {"approve", "approvalclearance", "bridge"},
         chain : Networks \cup {Elsewhere}, to : Networks, token : STRING,
         same : BOOLEAN, status : {"pending", "mined", "reverted"}]

ASSUME TxnAssumption ==
    /\ NoTxn \notin Txns
    /\ \A c \in Networks : \A t \in tokens[c] : t.name \in STRING

-----------------------------------------------------------------------------
(* What the page derives from its state *)

\* The network whose client wagmi uses: the first one configured, which is the
\* home network, when the wallet is on none of them.
activeNetwork == IF wallet \in Networks THEN wallet ELSE homeNetwork

\* Mutant: the reads do not ask for an account.
readsAreInMutant == activeNetwork = currentChains[1]

\* The reads of the token are for the network shown: not while a switch of
\* networks is pending, and not without an account.
readsAreIn == wallet # NoWallet /\ activeNetwork = currentChains[1]

\* A native coin needs no allowance.
hasEnoughAllowance == token.isNative \/ allowance = "enough"

\* approve() cannot be prepared for a token that wants its allowance at zero.
requiresApprovalClearance == token.needsAllowanceClearing /\ allowance # "zero"

isAddressValid == recipient # "bad"

\* Both forms of an address denote one account; without one there is nothing
\* to prepare, and encoding the call fails.
recipientEth == recipient \in {"eth", "bech32"}

canBridge == hasAmount /\ isAddressValid /\ hasEnoughAllowance

\* Mutant: the button does not wait for the receipt.
showLoadingButtonMutant == writing # NoTxn

\* A write that is not confirmed yet, or a receipt that is not there.  If the query
\* for it fails, an effect asks again at once: the render in between, in which the
\* buttons are free, is not one of the page's quiet states.
showLoadingButton == writing # NoTxn \/ latestTxn # NoTxn

-----------------------------------------------------------------------------
(* The form *)

OtherEntry(x) == IF x = NoTxn THEN NoTxn ELSE [x EXCEPT !.same = FALSE]

\* The amount field changes: no transaction is of the entry it now holds, and
\* the allowance compares with it in any way.
setAmount(b) ==
    /\ hasAmount' = b
    /\ writing' = OtherEntry(writing)
    /\ allowance' \in Allowances
    /\ sentOfEntry' = 0

typeAmount(b) ==
    /\ setAmount(b)
    /\ latestTxn' = OtherEntry(latestTxn)
    /\ UNCHANGED <<selectionVars, recipient, loadingId>>

handleUpdateRecipient(r) ==
    /\ r # recipient
    /\ recipient' = r
    /\ UNCHANGED <<selectionVars, hasAmount, allowance, txnVars, sentOfEntry>>

\* From one form of the address to the other.
toggleAddress ==
    /\ recipientEth
    /\ recipient' = IF recipient = "bech32" THEN "eth" ELSE "bech32"
    /\ UNCHANGED <<selectionVars, hasAmount, allowance, txnVars, sentOfEntry>>

\* Another account of the wallet: the recipient field is set to it, and it has
\* allowances of its own.
accountChanges ==
    /\ wallet # NoWallet
    /\ recipient' = "eth" /\ allowance' \in Allowances
    /\ UNCHANGED <<selectionVars, hasAmount, txnVars, sentOfEntry>>

\* An event of the network selection.  Connecting brings an account; another
\* token or another network has an allowance of its own.
select ==
    /\ SelectionNext
    /\ recipient' = IF wallet = NoWallet /\ wallet' # NoWallet THEN "eth" ELSE recipient
    /\ \/ allowance' = allowance
       \/ <<token, currentChains>>' # <<token, currentChains>> /\ allowance' \in Allowances
    /\ UNCHANGED <<hasAmount, txnVars, sentOfEntry>>

-----------------------------------------------------------------------------
(* Transactions *)

\* Mutant: built from what the user chose, before the wallet is there.
writeMutant(kind) ==
    /\ readsAreIn /\ hasAmount /\ ~showLoadingButton
    /\ writing' = [kind |-> kind, chain |-> wallet, to |-> pendingChains[2],
                   token |-> token.name, same |-> TRUE, status |-> "pending"]
    /\ UNCHANGED <<selectionVars, formVars, allowance, latestTxn, loadingId>>

\* writeAsync: built from what the page shows, for the network the wallet is
\* on; the wallet then asks the user.
write(kind) ==
    /\ readsAreIn /\ hasAmount /\ ~showLoadingButton
    /\ writing' = [kind |-> kind, chain |-> wallet, to |-> currentChains[2],
                   token |-> token.name, same |-> TRUE, status |-> "pending"]
    /\ UNCHANGED <<selectionVars, formVars, allowance, latestTxn, loadingId>>

\* If approve() is not prepared, for good or just not yet, the allowance is
\* cleared first.
clickApprove ==
    /\ ~hasEnoughAllowance
    /\ \/ ~requiresApprovalClearance /\ write("approve")
       \/ write("approvalclearance")
    /\ UNCHANGED sentOfEntry

clickBridge ==
    /\ canBridge /\ recipientEth
    /\ write("bridge")
    /\ sentOfEntry' = sentOfEntry + 1

\* The transaction x leaves nothing behind of what was typed.
undone(x) == sentOfEntry' = IF x.kind = "bridge" /\ x.same THEN sentOfEntry - 1
                                                            ELSE sentOfEntry

\* Mutant: the toast is shown for what is bridged only.
loadingToastMutant(x) == loadingId \/ x.kind = "bridge"

\* The effect that shows a toast while a receipt is waited for: the query begins in
\* the render that keeps the hash.
loadingToast(x) == loadingId \/ x # NoTxn

\* The user confirms: writeAsync returns the hash, which the page keeps.
confirm ==
    /\ writing # NoTxn
    /\ writing' = NoTxn /\ latestTxn' = writing
    /\ loadingId' = loadingToast(writing)
    /\ UNCHANGED <<selectionVars, formVars, allowance, sentOfEntry>>

\* Or does not: writeAsync throws, nothing is kept.
decline ==
    /\ writing # NoTxn
    /\ writing' = NoTxn /\ undone(writing)
    /\ UNCHANGED <<selectionVars, formVars, allowance, latestTxn, loadingId>>

-----------------------------------------------------------------------------
(* The chain *)

\* What a mined transaction does to the allowance shown, if it is about it.
allowanceAfter(x) ==
    IF <<x.chain, x.token>> # <<currentChains[1], token.name>> THEN {allowance}
    ELSE CASE x.kind = "approve" -> IF x.same THEN {"enough"} ELSE Allowances
           [] x.kind = "approvalclearance" -> {"zero"}
           [] x.kind = "bridge" -> Allowances

mine ==
    /\ latestTxn # NoTxn /\ latestTxn.status = "pending"
    /\ latestTxn' = [latestTxn EXCEPT !.status = "mined"]
    /\ allowance' \in allowanceAfter(latestTxn)
    /\ UNCHANGED <<selectionVars, formVars, writing, loadingId, sentOfEntry>>

\* The transaction is reverted.  wagmi reports it as an error, on which the
\* page asks again, and goes on waiting.
revert ==
    /\ latestTxn # NoTxn /\ latestTxn.status = "pending"
    /\ latestTxn' = [latestTxn EXCEPT !.status = "reverted"]
    /\ undone(latestTxn)
    /\ UNCHANGED <<selectionVars, formVars, allowance, writing, loadingId>>

\* The allowance changes without the page: a transaction it forgot in a reload
\* is mined, or one that was sent from somewhere else.
allowanceChanges ==
    /\ allowance' \in Allowances \ {allowance}
    /\ UNCHANGED <<selectionVars, formVars, txnVars, sentOfEntry>>

-----------------------------------------------------------------------------
(* What the page does with a receipt *)

\* The receipt is there, which only the client of the transaction's network
\* knows, and there is a toast to report it in.
receiptArrives ==
    /\ latestTxn # NoTxn /\ loadingId
    /\ latestTxn.status = "mined" /\ latestTxn.chain = activeNetwork

\* The page stops waiting, and empties the amount if it was bridged.
receipt ==
    /\ receiptArrives
    /\ \/ latestTxn.kind = "bridge" /\ setAmount(FALSE)
       \/ latestTxn.kind # "bridge"
          /\ UNCHANGED <<hasAmount, allowance, writing, sentOfEntry>>
    /\ latestTxn' = NoTxn /\ loadingId' = FALSE
    /\ UNCHANGED <<selectionVars, recipient>>

-----------------------------------------------------------------------------
\* The page is loaded again: its state is gone, the wallet reconnects.  What
\* it waited for, or the wallet was asking, may still be mined.
reload ==
    /\ pendingChains' = defaultNetworks
    /\ currentChains' = follow(wallet, defaultNetworks, defaultNetworks)
    /\ token' = chooseToken(defaultToken, currentChains')
    /\ asked' = switchRequest(wallet, defaultNetworks)
    /\ hasAmount' = FALSE /\ recipient' = IF wallet = NoWallet THEN "none" ELSE "eth"
    /\ allowance' \in Allowances
    /\ writing' = NoTxn /\ latestTxn' = NoTxn /\ loadingId' = FALSE /\ sentOfEntry' = 0
    /\ UNCHANGED wallet

\* The user may have approved before.
Init ==
    /\ SelectionInit
    /\ hasAmount = FALSE /\ recipient = "none" /\ allowance \in Allowances
    /\ writing = NoTxn /\ latestTxn = NoTxn /\ loadingId = FALSE /\ sentOfEntry = 0

Next ==
    \/ select \/ accountChanges \/ reload
    \/ \E b \in BOOLEAN : typeAmount(b)
    \/ \E r \in Recipients : handleUpdateRecipient(r)
    \/ toggleAddress
    \/ clickApprove \/ clickBridge \/ confirm \/ decline
    \/ mine \/ revert \/ allowanceChanges
    \/ receipt

\* A receipt that can be read is read in the end: the query polls.
Spec == Init /\ [][Next]_vars /\ WF_vars(receipt)

-----------------------------------------------------------------------------
(* Properties *)

TypeOK ==
    /\ SelectionTypeOK
    /\ hasAmount \in BOOLEAN /\ recipient \in Recipients /\ allowance \in Allowances
    /\ writing \in Txns \cup {NoTxn} /\ latestTxn \in Txns \cup {NoTxn}
    /\ loadingId \in BOOLEAN
    /\ sentOfEntry \in Nat

\* What was typed once is bridged at most once.  Between the click and the
\* receipt only the disabled buttons protect the user, after the receipt only
\* the emptied field, and all the while the user goes on changing networks,
\* tokens and accounts.
OncePerEntry == sentOfEntry <= 1

\* A bridge transaction on a configured network is for a token that this
\* network offers to the target it names: the page does not mix the token or
\* the target of one network with another's, however the wallet and the user
\* move before the click.
SentOnARealRoute ==
    writing # NoTxn /\ writing.kind = "bridge" /\ writing.chain \in Networks =>
        \E t \in getAvailableTokens(<<writing.chain, writing.to>>) :
            t.name = writing.token

\* The page does not wait for ever: once the transaction it waits for has been
\* mined, whatever its kind, it stops waiting, unless the wallet leaves the
\* network that has the receipt.  The effect that ends the wait needs the toast of
\* another effect, which must have been shown for every transaction and every kind.
ReceiptIsNoticed ==
    latestTxn # NoTxn /\ latestTxn.status = "mined" ~>
        latestTxn = NoTxn \/ latestTxn.chain # activeNetwork
=============================================================================
