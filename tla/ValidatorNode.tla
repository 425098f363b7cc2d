---------------------------- MODULE ValidatorNode ----------------------------
(***************************************************************************)
(* One validator process: a BridgeNode task per configured chain, the      *)
(* ValidatorNode loop that routes their messages and sends dispatch        *)
(* transactions, and the P2pNode loop, which hands every broadcast back to *)
(* this process (the swarm is commented out in p2p_node.rs).  The tasks    *)
(* run on a thread pool and talk through unbounded FIFO channels.          *)
(*                                                                         *)
(* Events are read from the logs of the gateways.  Which blocks a listener *)
(* reads is the subject of EventListener; here an event may be read twice, *)
(* by the replay and by the stream, or not at all, between the two or in a *)
(* window whose request fails.  A message is identified with its hash, a   *)
(* signature with its signer.                                              *)
(***************************************************************************)
EXTENDS SignatureValidator, SequencesExt

CONSTANTS
    AllChains,        \* chains with a gateway
    Chains,           \* chain_configs of this process
    Legacy,           \* chains with use_legacy_transactions
    Me,               \* address of the process' key
    Validators,       \* the validator set, the same on all chains
    is_leader,        \* command line flag
    MaxAttempts,      \* attempts to dispatch a message, 5 in the code
    exceptions,       \* the exceptions of chain_configs: relayed message -> replacement
    Histories,        \* the sets of chains whose history may be replayed
    RpcFails,         \* may calls to the target chain's RPC node fail
    MaxAgain,         \* bound: how many events lagging streams read again
    MaxLost,          \* bound: messages missed or lost between two starts
    MaxNonce,         \* bound: messages from one chain to another
    MaxRestarts       \* bound: how often the process dies and comes back

\* The gateways' nonces start at 1; a replacement may have any.
Nonces == 0 .. MaxNonce
Messages == {m \in [source : AllChains, target : AllChains, nonce : Nonces] :
                m.source # m.target}

ASSUME NodeAssumption ==
    /\ Chains \subseteq AllChains /\ Legacy \subseteq Chains
    /\ Me \in Nat \ {0} /\ Validators \subseteq Nat \ {0} /\ IsFiniteSet(Validators)
    /\ Histories \subseteq SUBSET Chains
    /\ DOMAIN exceptions \subseteq Messages
    /\ \A m \in DOMAIN exceptions :
          exceptions[m] \in Messages /\ exceptions[m].source = m.source
    /\ {is_leader, RpcFails} \subseteq BOOLEAN
    /\ MaxAttempts \in Nat \ {0}
    /\ {MaxAgain, MaxLost, MaxNonce, MaxRestarts} \subseteq Nat

VARIABLES
    replayed,         \* configuration: the chains whose history is replayed, those
                      \* with dispatch_history and a chain_gateway_block_deployed
    relayLog,         \* Relayed events of a chain's gateway
    dispatchLog,      \* Dispatched events of a chain's gateway
    txs,              \* dispatch transactions submitted and not yet mined
    phase,            \* per task: "start", "replay" or "listen"
    limit,            \* per task: lengths of the two logs at the replay's last block
    relayPos,         \* per task: Relayed events read
    dispatchPos,      \* per task: Dispatched events read
    relay_nonces,     \* per task
    event_signatures, \* per task, by nonce
    inbound,          \* per task: inbound_message_receiver
    bridge,           \* bridge_message_receiver
    outbound,         \* bridge_outbound_message_receiver, read by P2pNode
    echoes,           \* bridge_inbound_message_receiver
    job,              \* the dispatch_message call in progress
    restarts,         \* times the process was started again
    before,           \* history: messages dispatched before this start
    sent,             \* history: answered submissions of a message since this start
    unanswered,       \* history: messages submitted since this start, the answer lost
    givenUp,          \* history: messages dropped after MaxAttempts since this start
    lost,             \* history: messages whose transaction was lost since this start
    missed            \* history: messages passed over by a stream since this start

chainVars == <<relayLog, dispatchLog, txs>>
taskVars == <<replayed, phase, limit, relayPos, dispatchPos, relay_nonces, event_signatures>>
loopVars == <<job, restarts, before, sent, unanswered, givenUp, lost, missed>>
vars == <<chainVars, taskVars, inbound, bridge, outbound, echoes, loopVars>>

Relayed == UNION {ToSet(relayLog[c]) : c \in AllChains}
Dispatched == UNION {ToSet(dispatchLog[c]) : c \in AllChains}

\* The log of a listed transaction is replaced, target chain, nonce and call.
transform_log(m) == IF m \in DOMAIN exceptions THEN exceptions[m] ELSE m

\* What was relayed, as corrected by the exceptions.
Issued == {transform_log(m) : m \in Relayed}

NoEvent == [source |-> "none"]
NoJob == [event |-> NoEvent]
None == [event |-> NoEvent, dispatched |-> FALSE, signatures |-> {}]

\* ValidatorNode::new: every task and every channel starts empty.
Fresh == [phase |-> [c \in Chains |-> "start"],
          zero |-> [c \in Chains |-> 0],
          limit |-> [c \in Chains |-> [relays |-> 0, dispatches |-> 0]],
          nonces |-> [c \in Chains |-> {}],
          entries |-> [c \in Chains |-> [n \in Nonces |-> None]],
          inbound |-> [c \in Chains |-> << >>],
          sent |-> [m \in Messages |-> 0]]

Init ==
    /\ replayed \in Histories
    /\ relayLog = [c \in AllChains |-> << >>]
    /\ dispatchLog = [c \in AllChains |-> << >>]
    /\ txs = {} /\ restarts = 0 /\ before = {}
    /\ unanswered = {} /\ givenUp = {} /\ lost = {} /\ missed = {}
    /\ phase = Fresh.phase /\ limit = Fresh.limit
    /\ relayPos = Fresh.zero /\ dispatchPos = Fresh.zero
    /\ relay_nonces = Fresh.nonces /\ event_signatures = Fresh.entries
    /\ inbound = Fresh.inbound
    /\ bridge = << >> /\ outbound = << >> /\ echoes = << >>
    /\ job = NoJob
    /\ sent = Fresh.sent

-----------------------------------------------------------------------------
(* The chains *)

\* A gateway relays a message; nonces count per target chain.
relay(s, t) ==
    LET n == Len(SelectSeq(relayLog[s], LAMBDA m : m.target = t)) + 1
    IN  /\ s # t /\ n \in Nonces
        /\ relayLog' = [relayLog EXCEPT ![s] =
                            Append(@, [source |-> s, target |-> t, nonce |-> n])]
        /\ UNCHANGED <<dispatchLog, txs, taskVars, inbound, bridge, outbound, echoes, loopVars>>

\* The signature check of the target's gateway.
Valid(signatures) == Accepts(Validators, into_ordered_signatures(signatures))

\* Mutant: the replay check is left out.
mineMutant(tx) ==
    /\ txs' = txs \ {tx}
    /\ dispatchLog' = IF Valid(tx.signatures)
                      THEN [dispatchLog EXCEPT ![tx.event.target] = Append(@, tx.event)]
                      ELSE dispatchLog
    /\ UNCHANGED <<relayLog, taskVars, inbound, bridge, outbound, echoes, loopVars>>

\* A transaction is mined: it dispatches the message or reverts.
mine(tx) ==
    /\ txs' = txs \ {tx}
    /\ dispatchLog' = IF tx.event \notin Dispatched /\ Valid(tx.signatures)
                      THEN [dispatchLog EXCEPT ![tx.event.target] = Append(@, tx.event)]
                      ELSE dispatchLog
    /\ UNCHANGED <<relayLog, taskVars, inbound, bridge, outbound, echoes, loopVars>>

\* A transaction is dropped from the pool, or fails for want of gas.
lose(tx) ==
    /\ Cardinality(lost \cup missed) < MaxLost
    /\ txs' = txs \ {tx}
    /\ lost' = lost \cup {tx.event}
    /\ UNCHANGED <<relayLog, dispatchLog, taskVars, inbound, bridge, outbound, echoes,
                   job, restarts, before, sent, unanswered, givenUp, missed>>

-----------------------------------------------------------------------------
(* BridgeNode: reading events *)

\* Mutant: the nonce is not looked up among those already signed.
handle_relay_eventMutant(c, m) ==
    IF event_signatures[c][m.nonce].dispatched
    THEN UNCHANGED <<relay_nonces, bridge>>
    ELSE /\ relay_nonces' = [relay_nonces EXCEPT ![c] = @ \cup {m.nonce}]
         /\ bridge' = Append(bridge, [type |-> "Relay", event |-> m, signatures |-> {Me}])

\* A Relayed event is signed and broadcast, once per nonce and not if the
\* message is known to be dispatched.
handle_relay_event(c, m) ==
    IF m.nonce \in relay_nonces[c] \/ event_signatures[c][m.nonce].dispatched
    THEN UNCHANGED <<relay_nonces, bridge>>
    ELSE /\ relay_nonces' = [relay_nonces EXCEPT ![c] = @ \cup {m.nonce}]
         /\ bridge' = Append(bridge, [type |-> "Relay", event |-> m, signatures |-> {Me}])

\* The task of the source chain is told that the message is dispatched.
handle_dispatch_event(c, m) ==
    bridge' = Append(bridge, [type |-> "Dispatched", chain_id |-> m.source, nonce |-> m.nonce])

\* Mutant: the logs are not transformed.
ReadRelayMutant(c) ==
    /\ relayPos' = [relayPos EXCEPT ![c] = @ + 1]
    /\ handle_relay_event(c, relayLog[c][relayPos[c] + 1])
    /\ UNCHANGED <<chainVars, replayed, phase, limit, dispatchPos, event_signatures, inbound,
                   outbound, echoes, loopVars>>

ReadRelay(c) ==
    /\ relayPos' = [relayPos EXCEPT ![c] = @ + 1]
    /\ handle_relay_event(c, transform_log(relayLog[c][relayPos[c] + 1]))
    /\ UNCHANGED <<chainVars, replayed, phase, limit, dispatchPos, event_signatures, inbound,
                   outbound, echoes, loopVars>>

ReadDispatch(c) ==
    /\ dispatchPos' = [dispatchPos EXCEPT ![c] = @ + 1]
    /\ handle_dispatch_event(c, dispatchLog[c][dispatchPos[c] + 1])
    /\ UNCHANGED <<chainVars, replayed, phase, limit, relayPos, relay_nonces, event_signatures, inbound,
                   outbound, echoes, loopVars>>

\* sync_historic_events reads the number of the last block to replay.
sync_historic_events(c) ==
    /\ c \in replayed /\ phase[c] = "start"
    /\ phase' = [phase EXCEPT ![c] = "replay"]
    /\ limit' = [limit EXCEPT ![c] = [relays |-> Len(relayLog[c]),
                                      dispatches |-> Len(dispatchLog[c])]]
    /\ UNCHANGED <<chainVars, replayed, relayPos, dispatchPos, relay_nonces, event_signatures,
                   inbound, bridge, outbound, echoes, loopVars>>

\* Its loops: all Dispatched events, then all Relayed events.
ReplayDispatch(c) ==
    /\ phase[c] = "replay" /\ dispatchPos[c] < limit[c].dispatches
    /\ ReadDispatch(c)

ReplayRelay(c) ==
    /\ phase[c] = "replay" /\ dispatchPos[c] = limit[c].dispatches
    /\ relayPos[c] < limit[c].relays
    /\ ReadRelay(c)

\* The relays that a stream of c starting after the first n of them passes over.
PassedOver(c, n) == {transform_log(relayLog[c][i]) : i \in relayPos[c] + 1 .. n}

\* Where the two streams of c may start that follow r relays and d dispatches: each
\* at the block its RPC node takes for the current one.  A lagging node makes a
\* stream read the last events again; what the chain did meanwhile is passed over.
Starts(c, r, d) ==
    {p \in (0 .. Len(relayLog[c])) \X (0 .. Len(dispatchLog[c])) :
        \E again \in 0 .. MaxAgain : r <= p[1] + again /\ d <= p[2] + (MaxAgain - again)}

\* listen_events: each of the two streams finds its own start, in the present if
\* nothing is replayed, else whatever the end of the replay.
listen_events(c) ==
    /\ \/ /\ c \notin replayed /\ phase[c] = "start"
          /\ \E p \in Starts(c, Len(relayLog[c]), Len(dispatchLog[c])) :
                /\ relayPos' = [relayPos EXCEPT ![c] = p[1]]
                /\ dispatchPos' = [dispatchPos EXCEPT ![c] = p[2]]
          /\ missed' = missed
       \/ /\ phase[c] = "replay"
          /\ dispatchPos[c] = limit[c].dispatches /\ relayPos[c] = limit[c].relays
          /\ \E p \in Starts(c, relayPos[c], dispatchPos[c]) :
                /\ relayPos' = [relayPos EXCEPT ![c] = p[1]]
                /\ dispatchPos' = [dispatchPos EXCEPT ![c] = p[2]]
                /\ missed' = missed \cup PassedOver(c, p[1])
          /\ Cardinality(lost \cup missed') <= MaxLost
    /\ phase' = [phase EXCEPT ![c] = "listen"]
    /\ UNCHANGED <<chainVars, replayed, limit, relay_nonces, event_signatures, inbound, bridge,
                   outbound, echoes, job, restarts, before, sent, unanswered, givenUp, lost>>

\* poll_next_events: the events of a window are handled, or, if the request fails,
\* passed over.
MissRelay(c) ==
    /\ RpcFails
    /\ relayPos' = [relayPos EXCEPT ![c] = @ + 1]
    /\ missed' = missed \cup PassedOver(c, relayPos[c] + 1)
    /\ Cardinality(lost \cup missed') <= MaxLost
    /\ UNCHANGED <<chainVars, replayed, phase, limit, dispatchPos, relay_nonces, event_signatures,
                   inbound, bridge, outbound, echoes, job, restarts, before, sent, unanswered,
                   givenUp, lost>>

MissDispatch(c) ==
    /\ RpcFails
    /\ dispatchPos' = [dispatchPos EXCEPT ![c] = @ + 1]
    /\ UNCHANGED <<chainVars, replayed, phase, limit, relayPos, relay_nonces, event_signatures,
                   inbound, bridge, outbound, echoes, loopVars>>

RelayedStream(c) ==
    /\ phase[c] = "listen" /\ relayPos[c] < Len(relayLog[c])
    /\ ReadRelay(c) \/ MissRelay(c)

DispatchedStream(c) ==
    /\ phase[c] = "listen" /\ dispatchPos[c] < Len(dispatchLog[c])
    /\ ReadDispatch(c) \/ MissDispatch(c)

-----------------------------------------------------------------------------
(* BridgeNode: messages from the other tasks *)

\* Mutant: 2n/3 + 1 signatures, compared with the wrong sign.
has_supermajorityMutant(n) == n > (Cardinality(Validators) * 2) \div 3 + 1

has_supermajority(n) == n * 3 > Cardinality(Validators) * 2

\* The signatures known for m after an echo of it, {} if the echo is ignored:
\* the signer is no validator, the entry holds no event or another one.
Collected(c, m, signers) ==
    LET old == event_signatures[c][m.nonce]
    IN  IF signers \subseteq Validators /\ (old = None \/ old.event = m)
        THEN old.signatures \cup signers
        ELSE {}

\* A signature is added; the leader asks for the dispatch at a supermajority,
\* every time an echo arrives.
handle_relay(c, m, signers) ==
    LET signatures == Collected(c, m, signers)
    IN  /\ event_signatures' =
              IF signatures = {} THEN event_signatures
              ELSE [event_signatures EXCEPT ![c][m.nonce].event = m,
                                            ![c][m.nonce].signatures = signatures]
        /\ bridge' =
              IF signatures # {} /\ is_leader /\ has_supermajority(Cardinality(signatures))
              THEN Append(bridge, [type |-> "Dispatch", event |-> m, signatures |-> signatures])
              ELSE bridge

handle_bridge_message(c) ==
    /\ phase[c] = "listen" /\ inbound[c] # << >>
    /\ inbound' = [inbound EXCEPT ![c] = Tail(@)]
    /\ LET message == Head(inbound[c])
       IN  \/ /\ message.type = "Dispatched"
              /\ event_signatures' =
                    [event_signatures EXCEPT ![c][message.nonce].dispatched = TRUE]
              /\ bridge' = bridge
           \/ /\ message.type = "Relay"
              /\ handle_relay(c, message.event, message.signatures)
    /\ UNCHANGED <<chainVars, replayed, phase, limit, relayPos, dispatchPos, relay_nonces,
                   outbound, echoes, loopVars>>

-----------------------------------------------------------------------------
(* ValidatorNode: the loop listen_p2p, which does nothing else while it is in *)
(* dispatch_message                                                           *)

\* An echo goes to the task of the event's source chain, if there is one.
forwardEcho ==
    /\ job = NoJob /\ echoes # << >>
    /\ echoes' = Tail(echoes)
    /\ inbound' = LET c == Head(echoes).event.source
                  IN  IF c \in Chains
                      THEN [inbound EXCEPT ![c] = Append(@, Head(echoes))]
                      ELSE inbound
    /\ UNCHANGED <<chainVars, taskVars, bridge, outbound, loopVars>>

\* A message of a task: broadcast it, route it, or start to dispatch it.
forwardBridgeMessage ==
    /\ job = NoJob /\ bridge # << >>
    /\ bridge' = Tail(bridge)
    /\ LET message == Head(bridge)
       IN  \/ /\ message.type = "Relay"
              /\ outbound' = Append(outbound, message)
              /\ UNCHANGED <<inbound, job>>
           \/ /\ message.type = "Dispatched"
              /\ inbound' = IF message.chain_id \in Chains
                            THEN [inbound EXCEPT ![message.chain_id] = Append(@, message)]
                            ELSE inbound
              /\ UNCHANGED <<outbound, job>>
           \/ /\ message.type = "Dispatch"
              /\ job' = IF message.event.target \in Chains
                        THEN [event |-> message.event, signatures |-> message.signatures,
                              attempt |-> 1, simulated |-> FALSE]
                        ELSE NoJob
              /\ UNCHANGED <<inbound, outbound>>
    /\ UNCHANGED <<chainVars, taskVars, echoes, restarts, before, sent, unanswered, givenUp,
                   lost, missed>>

\* Mutant: the loop runs once too often.
nextAttemptMutant ==
    IF job.attempt <= MaxAttempts
    THEN job' = [job EXCEPT !.attempt = @ + 1, !.simulated = FALSE] /\ givenUp' = givenUp
    ELSE job' = NoJob /\ givenUp' = givenUp \cup {job.event}

\* Mutant: the attempts are not counted.
nextAttemptForeverMutant == job' = [job EXCEPT !.simulated = FALSE] /\ givenUp' = givenUp

\* The end of the loop's body: try again, or return without a trace.
nextAttempt ==
    IF job.attempt < MaxAttempts
    THEN job' = [job EXCEPT !.attempt = @ + 1, !.simulated = FALSE] /\ givenUp' = givenUp
    ELSE job' = NoJob /\ givenUp' = givenUp \cup {job.event}

\* Mutant: AlreadyDispatched is not looked for.
simulateMutant ==
    /\ job # NoJob /\ job.event.target \notin Legacy /\ ~job.simulated
    /\ \/ /\ Valid(job.signatures)
          /\ job' = [job EXCEPT !.simulated = TRUE] /\ givenUp' = givenUp
       \/ (RpcFails \/ ~Valid(job.signatures)) /\ nextAttempt
    /\ UNCHANGED <<chainVars, taskVars, inbound, bridge, outbound, echoes, restarts, before, sent,
                   unanswered, lost, missed>>

\* function_call.call(): AlreadyDispatched ends the job.  An error that is not in
\* the gateway's ABI is retried; those of the signature check are the validator
\* manager's and count among them.
simulate ==
    /\ job # NoJob /\ job.event.target \notin Legacy /\ ~job.simulated
    /\ \/ /\ job.event \in Dispatched
          /\ job' = NoJob /\ givenUp' = givenUp
       \/ /\ job.event \notin Dispatched /\ Valid(job.signatures)
          /\ job' = [job EXCEPT !.simulated = TRUE] /\ givenUp' = givenUp
       \/ (RpcFails \/ (job.event \notin Dispatched /\ ~Valid(job.signatures))) /\ nextAttempt
    /\ UNCHANGED <<chainVars, taskVars, inbound, bridge, outbound, echoes, restarts, before, sent,
                   unanswered, lost, missed>>

\* send_transaction: the call returns once the transaction is submitted.  Any error
\* is tried again, also one that comes when the transaction is submitted already.
\* Two transactions for one message differ in the sender's nonce only: of what they
\* can do, dispatch or be lost, nothing depends on their number.
sendTransaction ==
    LET submitted == txs \cup {[event |-> job.event, signatures |-> job.signatures]}
    IN  /\ job # NoJob /\ (job.simulated \/ job.event.target \in Legacy)
        /\ \/ /\ txs' = submitted
              /\ sent' = [sent EXCEPT ![job.event] = @ + 1]
              /\ job' = NoJob
              /\ UNCHANGED <<unanswered, givenUp>>
           \/ /\ RpcFails /\ nextAttempt
              /\ \/ UNCHANGED <<txs, unanswered>>
                 \/ txs' = submitted /\ unanswered' = unanswered \cup {job.event}
              /\ sent' = sent
        /\ UNCHANGED <<relayLog, dispatchLog, taskVars, inbound, bridge, outbound, echoes,
                       restarts, before, lost, missed>>

-----------------------------------------------------------------------------
(* P2pNode *)

\* The broadcast, to ourselves only.
loopBack ==
    /\ outbound # << >>
    /\ outbound' = Tail(outbound)
    /\ echoes' = Append(echoes, Head(outbound))
    /\ UNCHANGED <<chainVars, taskVars, inbound, bridge, loopVars>>

\* The process dies, by a fault of its host or because an error (an RPC call of
\* a replay or of update_validators) ends a task and with it the loops, and is
\* started again.  Nothing is kept.
restart ==
    /\ restarts < MaxRestarts
    /\ restarts' = restarts + 1
    /\ phase' = Fresh.phase /\ limit' = Fresh.limit
    /\ relayPos' = Fresh.zero /\ dispatchPos' = Fresh.zero
    /\ relay_nonces' = Fresh.nonces /\ event_signatures' = Fresh.entries
    /\ inbound' = Fresh.inbound
    /\ bridge' = << >> /\ outbound' = << >> /\ echoes' = << >>
    /\ job' = NoJob
    /\ before' = Dispatched
    /\ sent' = Fresh.sent
    /\ unanswered' = {} /\ givenUp' = {} /\ lost' = {} /\ missed' = {}
    /\ UNCHANGED <<chainVars, replayed>>

Task(c) == \/ sync_historic_events(c) \/ ReplayDispatch(c) \/ ReplayRelay(c)
           \/ listen_events(c)
           \/ RelayedStream(c) \/ DispatchedStream(c) \/ handle_bridge_message(c)

listen_p2p == forwardEcho \/ forwardBridgeMessage
dispatch_message == simulate \/ sendTransaction

Next ==
    \/ \E s, t \in AllChains : relay(s, t)
    \/ \E tx \in txs : mine(tx) \/ lose(tx)
    \/ \E c \in Chains : Task(c)
    \/ listen_p2p \/ dispatch_message \/ loopBack
    \/ restart

Spec == Init /\ [][Next]_vars

\* The thread pool runs every task, select! serves every branch that stays
\* ready, and a submitted transaction is mined or lost.
Fairness ==
    /\ \A m \in Messages : WF_vars(\E tx \in txs : tx.event = m /\ mine(tx))
    /\ \A c \in Chains :
          /\ WF_vars(sync_historic_events(c) \/ ReplayDispatch(c) \/ ReplayRelay(c)
                       \/ listen_events(c))
          /\ WF_vars(RelayedStream(c))
          /\ WF_vars(DispatchedStream(c))
          /\ WF_vars(handle_bridge_message(c))
    /\ WF_vars(forwardEcho) /\ WF_vars(forwardBridgeMessage)
    /\ WF_vars(dispatch_message) /\ WF_vars(loopBack)

FairSpec == Spec /\ Fairness

-----------------------------------------------------------------------------
(* Properties *)

Echo == [type : {"Relay"}, event : Messages, signatures : SUBSET {Me}]
DispatchedNote == [type : {"Dispatched"}, chain_id : AllChains, nonce : Nonces]
Dispatch == [type : {"Dispatch"}, event : Messages, signatures : SUBSET {Me}]

TypeOK ==
    /\ replayed \subseteq Chains
    /\ relayLog \in [AllChains -> Seq(Messages)]
    /\ dispatchLog \in [AllChains -> Seq(Messages)]
    /\ txs \subseteq [event : Messages, signatures : SUBSET {Me}]
    /\ phase \in [Chains -> {"start", "replay", "listen"}]
    /\ limit \in [Chains -> [relays : Nat, dispatches : Nat]]
    /\ \A c \in Chains : /\ relayPos[c] \in 0 .. Len(relayLog[c])
                         /\ dispatchPos[c] \in 0 .. Len(dispatchLog[c])
    /\ relay_nonces \in [Chains -> SUBSET Nonces]
    /\ event_signatures \in [Chains -> [Nonces ->
          [event : Messages \cup {NoEvent}, dispatched : BOOLEAN, signatures : SUBSET {Me}]]]
    /\ inbound \in [Chains -> Seq(Echo \cup DispatchedNote)]
    /\ bridge \in Seq(Echo \cup DispatchedNote \cup Dispatch)
    /\ outbound \in Seq(Echo) /\ echoes \in Seq(Echo)
    /\ job \in {NoJob} \cup [event : Messages, signatures : SUBSET {Me},
                             attempt : 1 .. MaxAttempts, simulated : BOOLEAN]
    /\ restarts \in 0 .. MaxRestarts
    /\ UNION {before, unanswered, givenUp, lost, missed} \subseteq Messages
    /\ sent \in [Messages -> Nat]

\* Events somewhere between the log of their chain and the target chain.
Travelling ==
    {q.event : q \in {r \in ToSet(bridge) : r.type # "Dispatched"}
                        \cup ToSet(outbound) \cup ToSet(echoes) \cup txs}
    \cup (UNION {{q.event : q \in {r \in ToSet(inbound[c]) : r.type = "Relay"}} : c \in Chains})
    \cup {m \in Messages : job.event = m}

\* --dispatch-history drops nothing: a message between configured chains whose event
\* lies behind the leader is dispatched or on its way, through restarts and failing
\* RPC calls, unless since the last start the streams have passed it over, five
\* attempts in a row have failed or the transaction was lost, which the process
\* does not notice.
NoRelayLost ==
    is_leader =>
        \A c \in replayed : \A i \in 1 .. relayPos[c] :
            LET m == transform_log(relayLog[c][i])
            IN  m.target \in Chains =>
                    m \in Dispatched \cup Travelling \cup givenUp \cup lost \cup missed

\* Once the chain's node has answered a submission, the process makes no other for
\* that message, also if its event is read twice, by the replay and by the stream:
\* only a submission whose answer was lost is repeated, within the five attempts.
AnsweredOnce == \A m \in Messages : sent[m] <= 1 /\ (sent[m] = 1 => job.event # m)

\* No transaction is sent for a message that the replayed history shows to be
\* dispatched already.
NothingSentAgain == \A m \in before : sent[m] = 0 /\ m \notin unanswered

\* The key is used for nothing but what gateways have relayed, or what the
\* exceptions put in its place: the source chain, which the event does not name, is
\* filled in by the task that reads it, the message an exception replaces is not
\* signed itself, and no task, queue or retry afterwards takes one message for
\* another.  ChainGateway assumes this of honest keys (sign).
SignsOnlyIssued ==
    /\ Travelling \cup unanswered \cup givenUp \cup lost \subseteq Issued
    /\ \A c \in Chains, n \in Nonces : event_signatures[c][n].event \in Issued \cup {NoEvent}

\* The bridge as a process of this kind runs it, seen from the contracts.
Service == INSTANCE MessageBridge WITH
    Chains  <- AllChains,
    sent    <- Issued,
    effects <- dispatchLog,
    spent   <- {<<m.source, m.target, m.nonce>> : m \in Dispatched}

\* However often the process dies, tries again or submits what an earlier instance
\* has submitted, the chains see the message service MessageBridge promises: only
\* what was relayed, as the exceptions correct it, is dispatched, on the chain it is
\* for, once.
DeliversAsPromised == Service!Spec

\* Every message of a chain with replay to a configured chain is dispatched in the
\* end, however often the process is restarted on the way, unless since the last
\* start the streams have passed it over, five attempts in a row have failed or its
\* transaction was lost: a restart takes up again what was passed over, given up or
\* lost before it.
RelayedIsDispatched ==
    \A m \in {n \in Messages : n.nonce > 0 /\ transform_log(n).target \in Chains} :
        m \in Relayed /\ m.source \in replayed
            ~> transform_log(m) \in Dispatched \cup givenUp \cup lost \cup missed
=============================================================================
