----------------------------- MODULE BridgeToast -----------------------------
(***************************************************************************)
(* What the web page tells the user after the receipt of a bridge          *)
(* transaction (bridge-web/src/App.tsx, the effect on txnReceipt), beside  *)
(* the token managers and gateways it reports on.                          *)
(*                                                                         *)
(* The page looks the message's nonce up in the logs of the chain it came  *)
(* from, asks for a watch of the other chain's gateway for a Dispatched    *)
(* event with that nonce, and then looks once at the last 50 blocks,       *)
(* because the message may have been dispatched before the watch began.    *)
(* The page does not wait for the watch: its filter is installed at some   *)
(* later time, which the look back may be ahead of.                        *)
(*                                                                         *)
(* Both chains are those the page shows when the receipt comes in.  If the *)
(* user has chosen another destination by then, the toast is about a chain *)
(* the message never reaches; such a toast is left out.                    *)
(***************************************************************************)
EXTENDS TokenManager

CONSTANTS NoToast, NoNonce

ASSUME ToastAssumption == NoNonce \notin Nat

VARIABLE toast  \* the toast of one bridge transaction

Toasts == [msg : Messages, nonce : Nat \cup {NoNonce},
           phase : {"looking", "watching", "answered", "checked"},
           installed : BOOLEAN, \* the other chain's node has the watch's filter
           found : BOOLEAN, \* the answer of getLogs is not empty
           late : BOOLEAN,  \* history: dispatched over 50 blocks before the look
           between : BOOLEAN, \* history: dispatched after the look, before the filter
           done : BOOLEAN]  \* the answer or the filter has had a matching event

ToastInit == Init /\ toast = NoToast

dispatched == {x \in relayed : status[x] # "sent"}

\* The filter of both queries: the gateway's Dispatched events with the nonce.
\* It names neither source chain nor outcome, and an undefined nonce matches
\* every event.
isFor(t, x) == t.msg.target = x.target /\ t.nonce \in {x.nonce, NoNonce}

\* The nonce of the Relayed event of the transaction, if the page still shows
\* the chain it was sent on.
nonceIn(m, from) == IF from = m.source THEN m.nonce ELSE NoNonce

\* The receipt of the transfer m, the page showing the route from-m.target.
receiptOf(m, from) ==
    /\ toast = NoToast
    /\ m.sender = Manager
    /\ toast' = [msg |-> m, nonce |-> nonceIn(m, from),
                 phase |-> "looking", installed |-> FALSE, found |-> FALSE,
                 late |-> FALSE, between |-> FALSE, done |-> FALSE]
    /\ UNCHANGED vars

\* toChainClient.watchContractEvent, which is not awaited.
watchContractEvent ==
    /\ toast # NoToast
    /\ toast.phase = "looking"
    /\ toast' = [toast EXCEPT !.phase = "watching"]
    /\ UNCHANGED vars

\* The client library installs the filter.
filterInstalled ==
    /\ toast # NoToast
    /\ toast.phase # "looking" /\ ~toast.installed
    /\ toast' = [toast EXCEPT !.installed = TRUE]
    /\ UNCHANGED vars

\* "Double check if it has already been dispatched before event listener
\* catches it": getLogs from blockNumber - 50 to the latest block; recent are
\* the messages dispatched in those blocks when the node answers.
getLogs(recent) ==
    /\ toast # NoToast
    /\ toast.phase = "watching"
    /\ toast' = [toast EXCEPT !.phase = "answered",
                              !.late = toast.msg \in dispatched \ recent,
                              !.found = \E x \in recent : isFor(toast, x)]
    /\ UNCHANGED vars

\* The answer reaches the page.
doubleCheck ==
    /\ toast # NoToast
    /\ toast.phase = "answered"
    /\ toast' = [toast EXCEPT !.phase = "checked", !.found = FALSE,
                              !.done = @ \/ toast.found]
    /\ UNCHANGED vars

\* Mutant: the watch is ended once the look back has been answered.
listeningMutant == toast # NoToast /\ toast.installed /\ toast.phase # "checked"

\* The watch is never ended.
listening == toast # NoToast /\ toast.installed

looked == toast # NoToast /\ toast.phase \in {"answered", "checked"}

\* onLogs: the filter has a dispatch, and the page when it next asks for it.
onLogs(x) ==
    \/ /\ listening /\ isFor(toast, x)
       /\ toast' = [toast EXCEPT !.done = TRUE]
    \/ /\ ~(listening /\ isFor(toast, x))
       /\ toast' = IF looked /\ ~toast.installed /\ x = toast.msg
                   THEN [toast EXCEPT !.between = TRUE] ELSE toast

dispatchOf(x) == (accept(x) \/ acceptFails(x)) /\ onLogs(x)

\* The steps of the managers that are no dispatch.
ManagerNext ==
    /\ \/ \E p \in Pairs, payable \in BOOLEAN, amount \in 1 .. MaxUint :
             transfer(p[1], p[2], payable, amount)
       \/ \E p \in Pairs, amount \in ForeignAmounts :
             foreignRelay(p[1], p[2], amount)
       \/ OwnerNext
    /\ toast' = toast

ToastNext ==
    \/ ManagerNext
    \/ \E x \in relayed : dispatchOf(x)
    \/ \E m \in relayed, from \in Chains : <<from, m.target>> \in Pairs /\ receiptOf(m, from)
    \/ watchContractEvent
    \/ filterInstalled
    \/ \E recent \in SUBSET dispatched : getLogs(recent)
    \/ doubleCheck

ToastSpec == ToastInit /\ [][ToastNext]_<<vars, toast>>

-----------------------------------------------------------------------------
(* Properties *)

ToastTypeOK == TypeOK /\ toast \in Toasts \cup {NoToast}

\* Once the answer of the look back is in, a message that was dispatched has
\* been reported as complete, whether it was dispatched before the filter was
\* installed, between filter and look or after both, and whichever of the two
\* came first.  There are two exceptions: a dispatch more than 50 blocks before
\* the look, and one after a look that was ahead of the filter and before the
\* filter, for the page does not wait for its watch.
NoDispatchMissed ==
    toast # NoToast /\ toast.phase = "checked"
        /\ toast.msg \in dispatched /\ ~toast.late /\ ~toast.between
        => toast.done
=============================================================================
