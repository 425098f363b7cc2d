---------------------------- MODULE OperatorTasks ----------------------------
(***************************************************************************)
(* The operators' hardhat tasks (smart-contracts/task/bridge.ts), beside   *)
(* the gateways they read.  A task sees committed state only.              *)
(***************************************************************************)
EXTENDS ChainGateway, Integers

\* latest-nonce, run on chain s for its remote chain c: chainGateway.nonce.
latestNonce(s, c) == Committed(s).nonce[c]

\* Mutant: i < latestNonce.
notDispatchedMutant(c, s, latest) ==
    {i \in 1 .. latest - 1 : <<s, i>> \notin Committed(c).dispatched}

\* verify-dispatched, run on chain c for its remote chain s with the nonce the
\* other task gave there: dispatched(s, i) for i from 1.
notDispatched(c, s, latest) ==
    {i \in 1 .. latest : <<s, i>> \notin Committed(c).dispatched}

\* Mutant: the loop stops short of the latest block.
queryStartsMutant(deployed, latest, interval) ==
    {i \in deployed .. latest - 1 : (i - deployed) % interval = 0}

\* The values of the loop variable of get-relayed.
queryStarts(deployed, latest, interval) ==
    {i \in deployed .. latest : (i - deployed) % interval = 0}

\* get-relayed on a chain that keeps its logs: one query for each window.
windows(deployed, latest, interval) ==
    {i .. (i + interval) : i \in queryStarts(deployed, latest, interval)}

\* get-relayed on a chain that keeps the logs of the last blocks only (100 in
\* the code): one query.
recentBlocks(latest, kept) == latest - kept .. latest

\* What a query for the Relayed events of chain s yields, blockOf telling the
\* block of each.
queryFilter(s, blockOf, blocks) == {m \in Committed(s).relayed : blockOf[m] \in blocks}

-----------------------------------------------------------------------------
(* Properties *)

\* The two tasks together find exactly the messages that are stuck: the nonces
\* verify-dispatched reports are those of the messages in the source chain's log
\* that the target chain has neither called nor given up, no gap in the nonces
\* being reported, and no message left out, whatever was reverted.
AuditIsExact ==
    \A s, c \in Chains :
        notDispatched(c, s, latestNonce(s, c)) =
            {m.nonce : m \in {r \in Committed(s).relayed :
                                 r.target = c /\ Key(r) \notin Committed(c).dispatched}}

\* "Get every relayed event from chain": in whatever blocks a gateway's log is
\* spread from its first to the latest, the queries find all of it, also when
\* the last window is not full or there is one block only, and no message in
\* more than two of them; and the single query finds what a chain has kept.
EveryRelayIsListed ==
    \A s \in Chains, latest \in 1 .. 4, interval \in 1 .. 3 :
        \A blockOf \in [Committed(s).relayed -> 1 .. latest] :
            /\ \A m \in Committed(s).relayed :
                  Cardinality({w \in windows(1, latest, interval) :
                                 m \in queryFilter(s, blockOf, w)}) \in 1 .. 2
            /\ {m \in Committed(s).relayed : latest - blockOf[m] < interval}
                  \subseteq queryFilter(s, blockOf, recentBlocks(latest, interval))
=============================================================================
