# Verification of the xbridge / UCCB cross-chain bridge

TLA+ models of the bridge's on-chain gateway and token managers (Solidity), of
its validator process (Rust), of its web page and of its operators' tasks
(TypeScript), the TLC runs that check them on small instances, and TLAPS proofs
for instances of every size. Paths are relative
to the repository, source files in `src/`.

## 1. The system

A contract on one chain asks its **gateway** to relay a call to another chain.
The gateway logs a `Relayed` event with a nonce. **Validators** follow the logs
of all gateways, sign what was relayed, and a leader submits the message with a
supermajority of signatures to the gateway of the target chain, which checks
them, marks the message as spent, calls the target and logs `Dispatched`. The
applications of the gateways are **token managers**, which lock a token on its
home chain and mint it on others; users reach them through a **web page**, and
operators audit the gateways with **hardhat tasks**.

| Component | Source | State | Operations | Interacts with |
|---|---|---|---|---|
| Signature check | `contracts/core/SignatureValidator.sol`, `signature.rs` | none | `validateSignaturesWithSupermajority`; `into_ordered_signatures` | called by `dispatch`; fed by the leader |
| Gateway | `contracts/core-upgradeable/*.sol` | nonce per target chain, registered apps, spent `(source, nonce)` flags, validator set, address of the validator manager, logs | `relay`, `relayWithMetadata`, `register`, `unregister`, `dispatch`, `addValidator`, `removeValidator`, `setValidatorManager` | apps call it, `dispatch` calls foreign code, validators read its log |
| Event listener | `block.rs`, replay in `bridge_node.rs` | `current_block` | `listen`, `poll_next_events`, `get_events`, `sync_historic_events` | asks an RPC node, hands events to the bridge node |
| Bridge node, a task per chain | `bridge_node.rs`, `event.rs`, `message.rs` | `event_signatures` by nonce, `relay_nonces`, an inbound channel | `handle_relay_event`, `handle_dispatch_event`, `handle_bridge_message`, `handle_relay` | channels to and from the validator node |
| Validator node | `validator_node.rs` | channels, the dispatch in progress | `listen_p2p`, `dispatch_message` | routes between tasks, P2P node and target chains |
| P2P node | `p2p_node.rs` | outbound channel | `start` | hands broadcasts back to its own process; the swarm is commented out |
| Token managers, bridged tokens | `contracts/periphery` (V4 with V5 and V6, `BridgedTokenV3`) | tokens held, supply, entry and scale per remote chain, pause flag | `transfer`, `accept`, `deployToken`, `registerToken`, `registerTokenWithScale`, `removeToken`, `transferTokenOwnership`, `pause`, `unpause` | call the gateway, are called by `dispatch` |
| Web page | `bridge-web/src/App.tsx`, `config/*.ts`, `hooks/useRecipientInput.ts` | chosen and shown route, token, form, transaction waited for, toasts | dropdowns, fields, buttons, the React effects | the wallet, token managers and gateways over RPC |
| Operator tasks | `smart-contracts/task/bridge.ts` | none | `latest-nonce`, `verify-dispatched`, `get-relayed` | read the gateways |
| Deployment scripts | `smart-contracts/script` | none | deploy a token, register it | the token managers |
| Lock proxy, fee tracker, legacy core | `contracts/periphery`, `contracts/core` | fees, deposits | - | older applications and gateways |
| ZilBridge manager, Scilla contracts | various | - | - | third-party code, fixtures |

What is hard here: `dispatch` gives control to foreign code in the middle of its
work (reentrancy, roll-back); validator sets change chain by chain while
signatures travel; tasks run concurrently and learn of each other's chains
through queues; nothing is persisted, so a crash must be repaired by replaying
logs; RPC nodes lag and fail, also after they have done what they were asked;
transactions are retried, get lost, and may race an earlier instance's; a transfer cannot be given back once `accept` reverts, while
owners change entries and scales chain by chain; the page's effects react to a
wallet that moves when it likes. `PROJECT.json` lists these as hazards, each at its line, with the
properties that would notice it going wrong.

What makes each part correct: the signature check accepts exactly quorums; the
gateway executes each relayed message at most once, only as relayed, and reports
truthfully; the listener reads each block once and skips none; the node loses no
message it has read, signs nothing but what was relayed, submits no message again
that has been submitted with success, and dispatches every message in the end; the
token managers back every minted token and lose no transfer; the page shows the
route the wallet is on and a token of it, sends an entry once, and notices the
receipt and the dispatch; the tasks leave nothing out.

## 2. Modules

- **`SignatureValidator`** - the check as operators. A signature is the address
  `recover` yields for the hash under check, 0 if it yields none. The loop of
  the contract becomes: the error at the first index rejected, then the count.
- **`SignatureValidatorProofs`**, **`SignatureCheckProofs`** - what acceptance
  implies, for all sets and lists; and that every quorum, in the node's order, is
  accepted.
- **`ChainGateway`** extends it - gateways of all chains. `chain[c]` is the
  storage and log of one gateway, `frames[c]` the stack of `dispatch()`
  activations of the transaction running on `c`, each with the state to fall
  back to. `dispatch` runs to the foreign call; `callSucceeds`, `callFails` and
  `dispatchReverts` finish the innermost activation. While the stack is not
  empty, `relay` and `dispatch` may be taken by the called code. `sign` is the
  honest validator's part: it signs a `Relayed` event of a committed block.
- **`ChainGatewayProofs`** - replay protection, truthful events, authenticity.
- **`MessageBridge`** - what the gateways promise an application, without
  signatures, validators, stacks or logs: messages are sent with distinct keys,
  each is spent at most once, and only a message sent to the chain takes effect
  there, once, when it is spent. One transaction may do several of these.
- **`GatewayRefinement`** extends `ChainGateway` and instantiates
  `MessageBridge` with the committed part of the gateways' state: what a
  transaction in progress has done is not yet sent, spent or called.
- **`OperatorTasks`** extends `ChainGateway` - the hardhat tasks as operators on
  the committed state; the loop of `get-relayed` by the values of its variable.
- **`GatewayRefinementProofs`** - the refinement, and the theorems on the tasks.
- **`EventListener`** - one listener task: blocks stand for their events,
  `window` is the request under way, `scanned` counts how often the events of a
  block reached the node, `failed` are blocks asked for in vain.
- **`EventListenerProofs`** - its safety, for every configuration.
- **`ValidatorNode`** extends `SignatureValidator` - one process between the
  gateways' logs: a task per chain (`phase`, positions in the two logs,
  `relay_nonces`, `event_signatures`, `inbound`), the routing loop (`bridge`,
  `echoes`, `job`), the P2P loop (`outbound`), and submitted transactions
  (`txs`). A step of a task handles one event or one message; the channels are
  FIFO; while `job` is set the routing loop does nothing else, as
  `dispatch_message` is awaited in it. An event is read through `transform_log`,
  which puts the message of the exception table (`exceptions`) in the place of a
  listed one; `Issued` is what was relayed, so corrected. Each stream starts at the
  block its RPC node takes for the current one (`Starts`): a task reads up to
  `MaxAgain` events again, or passes over what happened since the end of the replay
  (`PassedOver`); a failed request passes over events too (`MissRelay`,
  `MissDispatch`). `sendTransaction` may fail before or after the transaction was
  submitted, and both are tried again. A submitted transaction may vanish (`lose`).
  `Service` instantiates `MessageBridge` with what the process brings about on the
  chains. `sent`, `unanswered`, `before`, `givenUp`, `lost` and `missed` are history
  variables for the properties.
- **`ValidatorNodeProofs`** - its safety, and the conditions under which it holds.
- **`TokenManager`** - one token: lock and release on the home chain, mint and
  burn on the others, over gateways of which it uses what `MessageBridge`
  promises (each message once, any order, spent even if `accept` reverts). Of a
  chain's holders only the sum is kept. `scales` holds an entry's scale, or
  `NoRoute`; `scalesExactly` is `_scaleAmount`'s refusal to round or overflow.
  Of a recipient it matters whether the target chain can pay it (`payable`), which
  `transfer` does not ask. The owner may do every operation at any time, within the
  duties stated below, which the contracts do not enforce; `deployBridgeToken` and
  `registerHomeToken` are what the two deployment scripts do.
- **`TokenLedger`** - what the managers promise the holders, without managers,
  messages, decimals and owners: accounts change only by transfers, each leaves its
  source chain once and arrives on its target at most once, for the same worth.
  `TokenManager` instantiates it (`Ledger`) with all amounts in the finest unit.
- **`BridgeToast`** extends `TokenManager` - the toast the page shows after the receipt of a
  bridge transaction: nonce look-up, watch, look back over 50 blocks. Messages are
  dispatched between look-up, look back and its answer, which are awaited, and
  between the call of `watchContractEvent` and the installation of its filter, which
  is not (`App.tsx:395`; `filterInstalled` comes at any later time). A toast for
  another destination than the message's is left out.
- **`TokenManagerProofs`** - the theorems on managers and toast.
- **`BridgeConfig`** - the tables of networks and tokens, both builds.
- **`NetworkSelection`** - the route and token shown: `pendingChains` (chosen),
  `currentChains` (shown), the wallet's network, the switch it was asked for.
- **`BridgeApp`** extends `NetworkSelection` - form, buttons, wallet prompts,
  transactions, receipts, a reload of the page.
- **`BridgeAppProofs`** - the page's theorems, for any tables, and the symmetry of
  the tables there are.
- **`MC...`** - instances for TLC.

Definitions keep the names of the code; `PROJECT.json`'s map gives the lines.
Operators ending in `Mutant` are deliberate mistakes, one per property, that TLC
must detect; no specification uses them.

### Assumptions and abstractions

- Call data and targets are opaque; `gasLimit` belongs to the call data. The
  hash is injective on its fields.
- The owner's transactions are transactions of their own, and the owner never
  installs a validator set of which faulty keys are a supermajority
  (`Trusted`). Faulty keys sign anything, honest keys only `Relayed` events.
- Finality holds: blocks the validators read are never undone.
- In `ValidatorNode` up to `MaxLost` messages per start are passed over by the
  streams or vanish with their transaction; every other submitted transaction is
  mined in the end, with success or not. The validator set is fixed and the same on
  all chains. Two transactions of one message differ in the sender's nonce only and
  are one element of `txs`.
- An exception is written by the operator: that its replacement does not take the
  nonce of another message of the chain is the operator's business. Of its payload
  only target chain and nonce are kept.
- An RPC node's simulation (`eth_call`) sees the dispatches that are mined: nodes
  that lag there are not modelled, nor is the panic of `unwrap` when a node knows no
  finalized block (a restart, if anything).
- In `TokenManager` the owner keeps three duties the contracts, which have only
  `onlyOwner` there and a warning (`TokenManagerUpgradeableV4.sol:176`), leave to her:
  `registerToken` only between tokens of equal decimals, the right scale in
  `registerTokenWithScale`, and the order of `inOrder` (token, remote entry with
  its scale, home entry). Without the last, TLC finds a transfer lost, and
  without the others an unbacked supply. A contract that is registered at a
  gateway but is no token manager may send `accept` messages (`foreignRelay`)
  through `relayWithMetadata`; raw `relay`, whose call data its caller writes, is
  the reason why registered contracts must be trusted.
- Decimals are a `uint8`, as in the token contracts. A scale is an `int8` in the
  code and an integer here: a difference of decimals that an `int8` cannot hold
  cannot be registered, and `10 ** 128` is beyond `uint256` anyway.
- In the page, an event (a click, an answer of the wallet) and the React effects
  it triggers are one step: effects run until nothing changes before the next
  event. A render before its effects have run is not a state of its own: neither the
  one in which the route has changed and the token has not, nor the one between an
  error of the receipt's query and the effect that repeats it (`App.tsx:350`), in
  which the buttons are enabled. External behaviour, as `App.tsx` uses it: wagmi's chain object is never
  identical to the configured one (so the effect on it runs after each change of
  the wallet), its global client is that of the wallet's network or, on an
  unconfigured one, of the first network listed; a wallet keeps at most one
  request to switch; a confirmed `writeAsync` and the page's wait for it are one
  step.
- Balances, fees, decimals and the pause flag only enable a button: a click
  happens when they allow it.
- An error returned by the simulation counts as known only if it is in the ABI
  the node was built with (`bridge-validators/abi/ChainGateway.json`). The
  errors of the signature check are not, so they are retried like RPC failures.

## 3. Runs

| Run | Instance | What it shows |
|---|---|---|
| `signature_check` | all validator sets over 4 addresses, all lists up to length 4 | Acceptance is equivalent to being the ascending list of a quorum; the node's ordering is accepted; quorums overlap in more than a third. Four validators are the least number at which "more than two thirds" differs from both "majority" and "all". |
| `gateway_reentrancy` | 2 chains, reentrant target, nesting 2, one nonce per route | `AtMostOnce`, `SpentExactlyWhenReported`, types; the gateways implement `MessageBridge` (`ImplementsMessageBridge`), also when an inner dispatch is rolled back, so that only what was relayed to a chain takes effect there. Nesting 2 is the first at which an inner dispatch can be rolled back by an outer failure; nonce 1 is also the counter's last value, so overflow is reached. |
| `gateway_managers` | 3 keys of which 2 faulty, 2 managers, changing sets, target without code | `CallsAreRelayed` with faulty keys just below a supermajority, `EventTellsOutcome`; `AuditIsExact`; `EveryRelayIsListed` for every spread of the log over up to 4 blocks. There is one gateway, which serves as both ends; mix-ups between chains are the subject of `gateway_reentrancy` and of the theorems. |
| `listener` | replay on or off, delay 0, 2 or 5, lag 1, RPC failures and missing receipts, 9 blocks | Each block at most once (twice where the stream follows a replay), none left out of the windows without a delay, history covered, and every block passed in the end. Nine blocks allow several windows without a delay and with a delay of 2; with 5, which is more than the head at first, there is one. |
| `listener_behind` | delay 1 | **violation** of `NoBlockSkipped`, see below. |
| `listener_history` | replay on | **violation** of `NoGapAfterHistory`. |
| `node` | 2 chains, one message each way of which one is replaced by an exception, replay on one chain, one restart at any point, two attempts, RPC failures with and without effect, one event per start of a task read again, one message passed over or lost with its transaction | `NoRelayLost`; `AnsweredOnce`: after an answered submission none of the same message; `NothingSentAgain`: none for a message dispatched before; `SignsOnlyIssued`; the chains see the service of `MessageBridge` (`DeliversAsPromised`), whatever two instances of the process submit; and every message is dispatched, passed over, given up or lost with its transaction, of which a restart forgives the last three (`RelayedIsDispatched`). Two attempts (five in the code) are the least with a retry and a last one; a chain with and one without replay are both there. |
| `node_nonce_collision` | a third chain | **violation** of `NoRelayLost`. |
| `node_quorum` | two validators | **violation** of `RelayedIsDispatched`. |
| `token_manager` | home and two remote chains, of coarser and of equal decimals, base 2, 3 as largest uint, 3 messages of which one may be another contract's and one to a recipient that cannot be paid, 2 operations of the owner, starting with one remote chain or with none | `SupplyIsBacked`, `NoTransferLost`, the managers implement `TokenLedger` (`KeepsLedger`), and the toast's `NoDispatchMissed`. Three messages let two chains' transfers and a return cross; amounts reach both the rounding and the overflow; two operations suffice for a removal and a new registration, or for the steps of bringing a chain in. |
| `bridge_page` | Zilliqa, Ethereum and BSC of the production tables, a wallet also on an unknown network | Route, token and wallet in step, `OncePerEntry`, `SentOnARealRoute`, `ReceiptIsNoticed`; `ThereIsAWayBack` for what is shown and for the tables of both builds. Three networks are the least with a choice of the remote side, and with ZIL and USDT kept of the tables there are tokens of one route and of both, one native and one that needs clearing. |
| `node_legacy_replay` | a chain with legacy transactions, one restart | **violation** of `NothingSentAgain`. |

Bounds: `MaxNonce`, `MaxDepth`, `LastHead`, `MaxRestarts`, `MaxLost`,
`MaxAgain`, `MaxAttempts`, `MaxSignatures`, `MaxMessages`, `MaxUnpayable`,
`MaxForeign`, `MaxOwner`, `MaxUint`, `ForeignAmounts`,
`Deployments`. Deadlock is not checked where only such a bound ends the behaviour
(listener, node, token manager, lists of signatures); the gateway and the page
never deadlock.

Fairness. `listener`: the chain goes on, the task is scheduled, and again and
again the RPC node reports the true head while the listener asks (strong, since
each answer may lag). `node` and `node_quorum`: every task of the runtime makes progress and
`select!` serves a branch that stays ready (weak, per task and branch); a
submitted transaction is mined unless it is lost (weak); a stream makes progress by
reading an event or by failing to. `bridge_page`: the query for a receipt
polls, so a receipt that stays readable is read (weak fairness of `receipt`);
`ReceiptIsNoticed` excepts a wallet that leaves the network. No fairness is assumed of applications,
owners, restarts or RPC failures.

### Findings

1. `scan_behind_blocks` skips blocks: the window ends N blocks before the head
   but `current_block` is set to the head (`block.rs:308`).
2. With `--dispatch-history`, blocks finalized while the replay runs are read by
   nobody (`block.rs:319`, `bridge_node.rs:102`).
3. Messages to different target chains share nonces, and a bridge node drops all
   but the first of them (`bridge_node.rs:230`). For the same reason the flag
   `dispatched` of an entry may stand for another message as soon as three chains are
   configured, as `config.toml` does.
4. Signatures are not shared: a bridge with two or more validators dispatches
   nothing (`p2p_node.rs:215`).
5. The dispatches read during a replay reach the task that needs them only after
   its replay; on legacy chains everything is sent again and reverts
   (`bridge_node.rs:136`).

A failed request for logs loses its window until a restart replays it
(`block.rs:280`): it is the `failed` set of the listener and part of the node's
`missed`, and the reason why `NoBlockUnnoticed` cannot say "scanned" and
`RelayedIsDispatched` excepts what was passed over.

### Observations

Met while modelling; no document or comment of the repository contradicts them,
except where quoted, and no run is about them.

- The toast's filter names the nonce only. A message of another source chain with
  the same nonce completes it, and a failed dispatch is reported like a
  successful one: "funds arrived" (`App.tsx:406`, `446`) is said of both.
- The page does not wait for its watch: a dispatch after the look back's answer and
  before the watch's filter is installed is never reported.
- The replay asks for blocks up to the head its RPC node reports, whatever
  `scan_behind_blocks` is (`bridge_node.rs:102-119`); `config.toml:28-30` speaks of
  every scan.
- A submission whose answer is lost is repeated (`validator_node.rs:276-292`); on
  chains without legacy transactions only until the first one is mined, since the
  simulation then answers `AlreadyDispatched`.
- A transfer to a recipient the target chain cannot pay, such as `address(0)`, is
  taken and lost: `transfer` (`TokenManagerUpgradeableV4.sol:293-318`) does not look.
- The toast uses the route shown when the receipt arrives: if the user has
  switched, the nonce is undefined and any dispatch completes it.
- A reverted bridge transaction leaves the buttons disabled until a reload.
- An empty recipient is "valid" and stopped only by the call that cannot be
  encoded. An amount too small for the decimals is parsed as 0.
- The click on "approve" clears the allowance of a token that needs clearing also
  when `approve()` is merely not prepared yet.
- The `to` dropdown flips the route where its comment speaks of the first
  non-home network; the result is a route with the home network all the same.
- `get-relayed` reads the first block of each later window twice.

## 4. Proofs

Checked by TLAPS, for every value of the constants that satisfies the modules'
named assumptions (`GatewayAssumption`, `ListenerAssumption`, `NodeAssumption`,
`TokenManagerAssumption`, `ToastAssumption`, `SelectionAssumption`,
`TxnAssumption`, and `InstanceAssumption` for the signature check). TLC evaluates
them on the runs. Each safety invariant of a passing run is stated by a theorem,
and so are the three refinements: the gateways and the validator process implement
`MessageBridge`, the token managers `TokenLedger`.

**Signature check** (`SignatureValidatorProofs`, `SignatureCheckProofs`).
`NeighboursOrderTheList` turns the comparison of neighbours into an order of the
whole list, by a least counterexample. An accepted list therefore has as many
distinct signers as entries (`AcceptedSignersAreAQuorum`); counting gives
`QuorumsIntersect`, `AcceptedNeedsOutsider` and `AcceptedOverlapsQuorums`. For the
other direction, `AscendingListExists` shows that every finite set of signers has
an ascending list, so that what `into_ordered_signatures` chooses exists and has
the properties wanted (`ExactlyTheQuorums`, `OrderedIsAccepted`).

**Gateways** (`ChainGatewayProofs`). `TypeCorrect`; `ExecutedAtMostOnce`,
`SpentIffReported`, `EventsTellOutcome`; `OnlyRelayedIsCalled`. The properties
are not inductive: `callFails` and `dispatchReverts` bring back an old state from
the stack. `GatewayInv` therefore says of the current state and of every state
saved in a frame, relative to the keys of the frames below it (`Pending`), that
flags are the logged keys plus the pending ones, that calls have distinct keys all
of which are flagged, and that a pending key has no event yet. Each end of a frame
then restores or extends a state known good. For authenticity, `AuthInv` says that
validator sets in use are `Trusted`, that each signed hash is that of a message in
its source chain's committed log, that logs on the stack only grow and hold one
message per target and nonce, and that every call, in current and saved states, is
in the committed log of its source. The step that matters is `dispatch`:
`AcceptedNeedsOutsider` yields an honest signer, `SignedOk` a relayed message with
this hash, and injectivity makes it the dispatched one.

**Refinement and operator tasks** (`GatewayRefinementProofs`).
`GatewaysImplementBridge`: the gateways implement `MessageBridge`, whatever is
reentered and rolled back. `CommitInv` adds `LedgersOk` to the two invariants
above: the current state and every saved one have grown from the state in which the
transaction began (`Grows`: nothing taken back, old calls unchanged, new calls only
of keys that were not spent), nonces are consecutive (`Numbered`), and only what
was relayed is flagged. A step inside a transaction leaves the committed state alone
and maps to a stutter. A step that empties the stack commits what `Grows` describes,
which is one transaction of `MessageBridge`. `Numbered` makes counting up to the
nonce the same as looking at the messages, which is `AuditFindsTheStuck`.
`WindowsCoverTheLog` is arithmetic on the loop of `get-relayed`, for any number of
blocks and any interval, and gives `RelaysAreListed`.

**Listener** (`EventListenerProofs`). `TypeCorrect`, `BlocksHandedOutOnce`,
`NothingPassedUnnoticed`, `HistoryCovered`, for any delay, lag,
deployment block and log strategy. `BlocksHandedOutOnce` covers configurations with
a replay too: the only blocks handed out twice are those the stream starts with
after the replay has read them. What is said of the blocks handed out depends on
how the window under way lies to `current_block` and to the head observed:
`ListenerInv` adds `StreamWindow`, `ReplayWindow` and, for the order,
`StreamAscends`.

**Validator node** (`ValidatorNodeProofs`). `TypeCorrect`, `AnsweredAtMostOnce`,
`KeySignsOnlyIssued` and `NodeDelivers` for any number of chains and validators and
any exception table; the others under hypotheses they need:

| Theorem | Hypothesis | Why it is needed |
|---|---|---|
| `NothingIsSentAgain` | no legacy chain | the call is simulated only on other chains: `node_legacy_replay` |
| `NoRelayIsLost` | two chains in all (`TwoChains`), one validator | a message to a chain that is not configured takes the nonce of one that is: `node_nonce_collision`; other validators' signatures never arrive: `node_quorum` |

`AnsweredOnce` is a statement about a counter; what keeps it is that a message is
in one place. `CopyInv` says that among the channels, the task inboxes, the dispatch
in progress and the counter, each message occurs at most once, and only after its
nonce was noted in `relay_nonces`, which is what stops the stream from taking it
again after the replay. `ItemsInv` says what the entries and queued messages mean:
a note of a dispatch is about some message of its chain and nonce that is dispatched,
everything else carries this process's signature. On top of this, `NotedHandled` (a noted message is
dispatched, moving, given up or lost) and `ReadNoted` (what lies behind a task is
noted, known to be dispatched or passed over) together are `NoRelayLost`. `NoneAgain` needs the step
before the transaction: no dispatch in progress of such a message has passed its
simulation.

`KeySignsOnlyIssued` is about where a message comes from. `GenuineInv` says that
everything in a channel, an inbox, an entry, the dispatch in progress or the pool,
and everything dispatched, is in `Issued`: it stands in a relay log or is what an
exception puts in the place of a message that does. The one step that makes a message
is the reading of an event (`GenuineRead`);
all others move one (`GenuineRouting`, `GenuineMessage`), and logs only grow. Without exceptions
this is what `ChainGateway` assumes of an honest key (`sign`), so that
`OnlyRelayedIsCalled` rests on a proved property of the process; with one, the
operator vouches for the replacement. `NodeDelivers` follows: `MiningDelivers`
maps the mining of a valid transaction, whichever instance of the process submitted
it, to one delivery of `MessageBridge`, `relay` to a sending, and each other step to
a stutter.

**Token managers and toast** (`TokenManagerProofs`). `TypeCorrect`,
`TokensAreBacked`, `TransfersArePaid` for any number of remote chains, any decimals,
amounts and number of messages; `PageOnlyWatches` carries them over to the
composition with the toast, for which `ToastTypeCorrect` and `DispatchIsReported`
are proved. `ManagerInv` joins the two properties, neither
of which is inductive alone: a transfer can be paid because the backing leaves
enough to pay it, and the backing survives a transfer because scales are right.
`RouteOk` says where they are: an entry may carry a wrong scale only as long as
nothing can pass it, and each transfer under way has the entry it needs unless the
owner has withdrawn it; what remains to stop it is a recipient that cannot be paid. `ManagersKeepLedger` is the refinement of `TokenLedger`: in
the finest unit of any chain, what `transfer` takes is worth what the message carries
(`TransferDeparts`), because `scalesExactly` admits no rounding and the scale of an
entry that can be passed is right, and `accept` pays that (`AcceptArrives`); what the
owner and other contracts do leaves accounts and transfers alone
(`AccountsElsewhere`). `AnswersComplete` extends the toast's property to
the moments between call, filter, look and answer.

Two facts behind this are inductions over data: that powers of the base are
positive and add exponents, and that the library's fold adds up a function over a
finite set, in whatever order it takes the elements. The library's
induction theorems take an operator as a parameter and cannot be used with the
provers at hand. They are replaced by induction in terms of sets (`SetInduction`,
`SubsetInduction`, from the well-foundedness of the naturals): a set of numbers
that contains 0 and is closed under successor contains all. `PowersExist` and
`TotalsExist` build approximations of the recursive function that way, and
`PowerValues` and `SumIsTotal` identify them with the definition; `SumWithout` and
`SumChange` are all that the steps then use.

**Page** (`BridgeAppProofs`). For any networks and token tables with something to
send between the home network and each other one: `PageTypeCorrect`,
`RoutesJoinHome`, `RouteFollowsWallet`, `TokenAlwaysFits`, `ChosenIsShown`,
`BridgedOncePerEntry`, `SentOnRealRoutes`. `SelectionInv` is the conjunction of the
properties of the selection: none is inductive alone, since a pick that leaves the
pending target as it is does not make the page look at the wallet again, which is
harmless only because of where the page stood before. Each event ends in `follow`
and `chooseToken`; lemmas say what these two yield for any chosen route and any
wallet, and the steps only instantiate them. `PageInv` adds `OneTxn`: the page has
at most one transaction, put to the wallet or waited for, and the history counts it
exactly as long as it is of the entry in the field.

`TablesAreSymmetric` is about the tables of both builds as they stand in
`config.ts`. Each build is a star around its home network (`BuildsAreStars`, from
lemmas on the single tables: names differ, targets exist, routes return), and in a
star `getTargetToken` finds exactly one token, which goes back (`StarGoesBack`).
`SentCanComeBack` joins this with the invariant of the page, which is never on
another route than the token's, to `ThereIsAWayBack`, for every part of the
production tables that leaves something to send on each route.

Only model-checked:

- liveness, `EveryBlockIsPassed`, `RelayedIsDispatched` and `ReceiptIsNoticed`:
  fairness and `ENABLED` are outside of what TLAPS 1.4.5 proves;
- the five violations, which are counterexamples.

## 5. Not modelled

- Gateways: ownership transfer and UUPS upgrades; the legacy core contracts, which
  the upgradeable ones supersede, and the fee tracker.
- Node: the parsing and matching of the exception table (`exceptions.rs:14-33`;
  what it replaces is modelled), start-up (`client.rs`, `main.rs`,
  `crypto.rs`), and validator sets that change under a running node.
- Token managers: fees, the native coin of the home chain, `setGateway`,
  upgrades, the superseded versions V1 to V3, the lock proxy.
- Page: rendering, formatting, `AddToken`, the set-up of React and wagmi beyond
  what the page relies on; the ABI tables beyond the events used.
- ZilBridge's cross-chain manager (third-party), Scilla fixtures, and the scripts
  that deploy and upgrade contracts once.

## 6. Plan

1. `ValidatorNode` with per-chain validator sets and the stale manager address, the
   two hazards that no property covers yet; the proofs of `ItemsInv` and
   `NotedHandled` then have to carry the sets along.
2. Fees and the native coin in `TokenManager`; `FeeTracker` and the legacy
   dispatcher.
3. Proofs: `NoRelayIsLost` for any number of chains, of entries keyed by target and
   nonce, if the node is changed to do so.
