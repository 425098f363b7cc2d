---------------------------- MODULE ChainGateway ----------------------------
(***************************************************************************)
(* The on-chain half of the bridge, on every chain at once: the gateway    *)
(* (RelayerUpgradeable + ChainDispatcherUpgradeable) with its registry,    *)
(* replay check and validator manager (core-upgradeable/).                 *)
(*                                                                         *)
(* dispatch() hands control to foreign code in the middle of its           *)
(* transaction.  That code may relay, may dispatch again (reentrancy), may *)
(* fail, in which case everything it did is rolled back and dispatch()     *)
(* goes on, and the dispatch itself may be reverted.  frames[c] is the     *)
(* stack of dispatch() activations of the transaction running on chain c,  *)
(* each with the chain state it started from; a transaction is committed   *)
(* when the stack is empty, and only committed state is visible off chain. *)
(***************************************************************************)
EXTENDS SignatureValidator

CONSTANTS Chains,           \* chain ids
          Apps,             \* addresses that may be registered to relay
          Targets,          \* addresses a message may call
          Contracts,        \* those with target.code.length > 0
          Payloads,         \* call data, opaque
          Addresses,        \* keys that sign
          Faulty,           \* keys whose owner signs anything
          Managers,         \* ValidatorManager contracts of a chain
          InitialValidators,\* argument of ValidatorManager.initialize
          MaxNonce,         \* largest uint a nonce can hold
          MaxDepth          \* deepest nesting of dispatch(), the call depth

\* The owner's duty: no validator set in which faulty keys are a supermajority.
Trusted(V) == 3 * Cardinality(Faulty \cap V) <= 2 * Cardinality(V)

ASSUME GatewayAssumption ==
    /\ Contracts \subseteq Targets
    /\ Addresses \subseteq Nat \ {0} /\ IsFiniteSet(Addresses)
    /\ InitialValidators \subseteq Addresses /\ Trusted(InitialValidators)
    /\ MaxNonce \in Nat /\ MaxDepth \in Nat

Nonces == 0 .. MaxNonce

\* call with the CallMetadata that relayWithMetadata prepends.
WithMetadata(c, app, data) == [sourceChainId |-> c, sender |-> app, data |-> data]

CallData == Payloads \cup [sourceChainId : Chains, sender : Apps, data : Payloads]

\* A Relayed event; its chain of origin, which the log does not repeat, included.
Messages == [source : Chains, target : Chains, to : Targets, call : CallData,
             nonce : Nonces]

\* Mutant: the chain the message is for is left out of the hash.
MessageHashMutant(m) == <<m.source, m.to, m.call, m.nonce>>

\* What is signed: abi.encode of all the fields, source and target chain included.
MessageHash(m) == <<m.source, m.target, m.to, m.call, m.nonce>>

\* dispatched[sourceChainId][nonce]
Key(m) == <<m.source, m.nonce>>

-----------------------------------------------------------------------------
(* The storage and log of one gateway. *)

ChainState ==
    [nonce      : [Chains -> Nonces],            \* per target chain
     relayed    : SUBSET Messages,               \* Relayed events
     dispatched : SUBSET (Chains \X Nonces),     \* the replay check's flags
     calls      : Seq(Messages),                 \* target.call's that stand
     events     : SUBSET [key : Chains \X Nonces, success : BOOLEAN]]

InitialState == [nonce      |-> [t \in Chains |-> 0],
                 relayed    |-> {},
                 dispatched |-> {},
                 calls      |-> <<>>,
                 events     |-> {}]

\* _nonce = ++nonce[targetChainId]; emit Relayed
WithRelay(s, m) == [s EXCEPT !.nonce = [@ EXCEPT ![m.target] = m.nonce],
                             !.relayed = @ \cup {m}]

\* dispatched[sourceChainId][nonce] = true
WithFlag(s, k) == [s EXCEPT !.dispatched = @ \cup {k}]

\* target.call, as far as it stands
WithCall(s, m) == [s EXCEPT !.calls = Append(@, m)]

\* emit Dispatched
WithEvent(s, k, success) ==
    [s EXCEPT !.events = @ \cup {[key |-> k, success |-> success]}]

-----------------------------------------------------------------------------
VARIABLES chain,             \* the gateway's state on each chain
          frames,            \* the dispatch() activations of each chain
          registered,        \* Registry: contracts allowed to relay
          validatorManager,  \* the manager each dispatcher consults
          validators,        \* the validator set each manager keeps
          signed             \* signatures honest validators have published

vars == <<chain, frames, registered, validatorManager, validators, signed>>

Frame == [msg : Messages, start : ChainState]

\* The last committed state of chain c.
Committed(c) == IF frames[c] = <<>> THEN chain[c] ELSE frames[c][1].start

Validators(c) == validators[c][validatorManager[c]]

Init ==
    /\ chain = [c \in Chains |-> InitialState]
    /\ frames = [c \in Chains |-> <<>>]
    /\ registered = [c \in Chains |-> {}]
    /\ validatorManager \in [Chains -> Managers]
    /\ validators = [c \in Chains |-> [m \in Managers |-> InitialValidators]]
    /\ signed = {}

-----------------------------------------------------------------------------
(* RelayerUpgradeable *)

\* Mutant: no check of the counter's width.
emitRelayedMutant(c, app, t, to, call) ==
    /\ app \in registered[c]
    /\ chain' = [chain EXCEPT ![c] =
           WithRelay(@, [source |-> c, target |-> t, to |-> to, call |-> call,
                         nonce |-> chain[c].nonce[t] + 1])]
    /\ UNCHANGED <<frames, registered, validatorManager, validators, signed>>

\* _relay: a registered caller, at any point of a transaction.  The increment
\* is checked arithmetic and reverts at the counter's last value.
emitRelayed(c, app, t, to, call) ==
    /\ app \in registered[c]
    /\ chain[c].nonce[t] < MaxNonce
    /\ chain' = [chain EXCEPT ![c] =
           WithRelay(@, [source |-> c, target |-> t, to |-> to, call |-> call,
                         nonce |-> chain[c].nonce[t] + 1])]
    /\ UNCHANGED <<frames, registered, validatorManager, validators, signed>>

relay(c, app, t, to, data) == emitRelayed(c, app, t, to, data)

relayWithMetadata(c, app, t, to, data) ==
    emitRelayed(c, app, t, to, WithMetadata(c, app, data))

\* onlyOwner, in a transaction of its own.
register(c, app) ==
    /\ frames[c] = <<>>
    /\ registered' = [registered EXCEPT ![c] = @ \cup {app}]
    /\ UNCHANGED <<chain, frames, validatorManager, validators, signed>>

unregister(c, app) ==
    /\ frames[c] = <<>>
    /\ registered' = [registered EXCEPT ![c] = @ \ {app}]
    /\ UNCHANGED <<chain, frames, validatorManager, validators, signed>>

-----------------------------------------------------------------------------
(* ValidatorManagerUpgradeable, owner's operations *)

setValidators(c, m, V) ==
    /\ frames[c] = <<>>
    /\ Trusted(V)
    /\ validators' = [validators EXCEPT ![c] = [@ EXCEPT ![m] = V]]
    /\ UNCHANGED <<chain, frames, registered, validatorManager, signed>>

addValidator(c, m, v) == setValidators(c, m, validators[c][m] \cup {v})

removeValidator(c, m, v) == setValidators(c, m, validators[c][m] \ {v})

setValidatorManager(c, m) ==
    /\ frames[c] = <<>>
    /\ validatorManager' = [validatorManager EXCEPT ![c] = m]
    /\ UNCHANGED <<chain, frames, registered, validators, signed>>

-----------------------------------------------------------------------------
(* The validators, as the contracts see them *)

\* An honest validator publishes a signature of a Relayed event it has read
\* from a committed block of the source chain (RelayEvent::sign).
sign(v, m) ==
    /\ v \in Addresses \ Faulty
    /\ m \in Committed(m.source).relayed
    /\ signed' = signed \cup {[signer |-> v, hash |-> MessageHash(m)]}
    /\ UNCHANGED <<chain, frames, registered, validatorManager, validators>>

HasSigned(v, hash) ==
    v \in Faulty \/ [signer |-> v, hash |-> hash] \in signed

-----------------------------------------------------------------------------
(* ChainDispatcherUpgradeable *)

\* Mutant: the flags are read as they were when the transaction began.
replayDispatchGuardMutant(c, m) == Key(m) \notin Committed(c).dispatched

\* _replayDispatchCheck: reverts with AlreadyDispatched.
replayDispatchGuard(c, m) == Key(m) \notin chain[c].dispatched

\* validateMessageWithSupermajority.  The hash is rebuilt from dispatch()'s
\* arguments and block.chainid; a signature of anything else recovers to an
\* address that signed nothing here.
validateMessage(c, m, signers) ==
    /\ \A i \in 1 .. Len(signers) : HasSigned(signers[i], MessageHash(m))
    /\ Accepts(Validators(c), signers)

\* target.call{gas: gasLimit}(call): control goes to the target.
enterCall(c, m) ==
    /\ chain' = [chain EXCEPT ![c] = WithCall(WithFlag(@, Key(m)), m)]
    /\ frames' = [frames EXCEPT ![c] = Append(@, [msg |-> m, start |-> chain[c]])]

\* Mutant: a call of an address without code counts as a success, as the EVM's does.
skipCallMutant(c, m) ==
    /\ chain' = [chain EXCEPT ![c] =
                    WithEvent(WithFlag(@, Key(m)), Key(m), TRUE)]
    /\ frames' = frames

\* target.code.length == 0
skipCall(c, m) ==
    /\ chain' = [chain EXCEPT ![c] =
                    WithEvent(WithFlag(@, Key(m)), Key(m), FALSE)]
    /\ frames' = frames

\* dispatch, up to the point where it returns or calls; anyone may send it.
dispatch(c, m, signers) ==
    /\ m.target = c
    /\ Len(frames[c]) < MaxDepth
    /\ replayDispatchGuard(c, m)
    /\ validateMessage(c, m, signers)
    /\ \/ m.to \in Contracts /\ enterCall(c, m)
       \/ m.to \notin Contracts /\ skipCall(c, m)
    /\ UNCHANGED <<registered, validatorManager, validators, signed>>

Top(c) == frames[c][Len(frames[c])]

Pop(c) == [frames EXCEPT ![c] = SubSeq(@, 1, Len(@) - 1)]

\* The call came back with success: dispatch emits the event and returns.
callSucceeds(c) ==
    /\ frames[c] # <<>>
    /\ chain' = [chain EXCEPT ![c] = WithEvent(@, Key(Top(c).msg), TRUE)]
    /\ frames' = Pop(c)
    /\ UNCHANGED <<registered, validatorManager, validators, signed>>

\* Mutant: the rollback takes the replay flag with it.
callFailsMutant(c) ==
    /\ frames[c] # <<>>
    /\ chain' = [chain EXCEPT ![c] = WithEvent(Top(c).start, Key(Top(c).msg), FALSE)]
    /\ frames' = Pop(c)
    /\ UNCHANGED <<registered, validatorManager, validators, signed>>

\* The call failed: the EVM undoes all it did, dispatch emits the event.
callFails(c) ==
    /\ frames[c] # <<>>
    /\ chain' = [chain EXCEPT ![c] =
           WithEvent(WithFlag(Top(c).start, Key(Top(c).msg)), Key(Top(c).msg), FALSE)]
    /\ frames' = Pop(c)
    /\ UNCHANGED <<registered, validatorManager, validators, signed>>

\* dispatch itself is reverted: it ran out of gas, its caller reverted, or the
\* call failed in a Scilla precompile, which fails the whole transaction.
dispatchReverts(c) ==
    /\ frames[c] # <<>>
    /\ chain' = [chain EXCEPT ![c] = Top(c).start]
    /\ frames' = Pop(c)
    /\ UNCHANGED <<registered, validatorManager, validators, signed>>

-----------------------------------------------------------------------------
\* The lists of signers dispatch() may be given.
SignerLists == UNION {[1 .. n -> Addresses] : n \in 0 .. Cardinality(Addresses)}

Next ==
    \/ \E c, t \in Chains, app \in Apps, to \in Targets, d \in Payloads :
          \/ relay(c, app, t, to, d)
          \/ relayWithMetadata(c, app, t, to, d)
    \/ \E c \in Chains, app \in Apps : register(c, app) \/ unregister(c, app)
    \/ \E c \in Chains, m \in Managers, v \in Addresses :
          addValidator(c, m, v) \/ removeValidator(c, m, v)
    \/ \E c \in Chains, m \in Managers : setValidatorManager(c, m)
    \/ \E v \in Addresses, m \in Messages : sign(v, m)
    \/ \E c \in Chains, m \in Messages, signers \in SignerLists :
          dispatch(c, m, signers)
    \/ \E c \in Chains : callSucceeds(c) \/ callFails(c) \/ dispatchReverts(c)

Spec == Init /\ [][Next]_vars

-----------------------------------------------------------------------------
(* Properties *)

\* Every variable keeps its shape; in particular no nonce leaves the width of
\* its counter (checked arithmetic in _relay).
TypeOK ==
    /\ chain \in [Chains -> ChainState]
    /\ frames \in [Chains -> Seq(Frame)]
    /\ registered \in [Chains -> SUBSET Apps]
    /\ validatorManager \in [Chains -> Managers]
    /\ validators \in [Chains -> [Managers -> SUBSET Addresses]]
    /\ signed \in SUBSET [signer : Addresses,
                          hash : {MessageHash(m) : m \in Messages}]

\* A message takes effect at most once: of all the calls dispatch() made that
\* were not rolled back, no two are for the same source chain and nonce,
\* whatever the targets do while they are being called (reentrancy, failure).
AtMostOnce ==
    \A c \in Chains : \A i, j \in 1 .. Len(chain[c].calls) :
        i # j => Key(chain[c].calls[i]) # Key(chain[c].calls[j])

\* Only what was relayed is called: each call dispatch() made is, field for
\* field, the one message that the source chain's committed log holds for this
\* chain and nonce, as long as faulty keys are no supermajority.
CallsAreRelayed ==
    \A c \in Chains : \A i \in 1 .. Len(chain[c].calls) :
        LET m == chain[c].calls[i]
        IN  {r \in Committed(m.source).relayed :
                r.target = c /\ r.nonce = m.nonce} = {m}

\* A message is spent exactly when its outcome has been logged: a flag without
\* a Dispatched event belongs to a dispatch still on the stack, so once the
\* transaction is over no message is blocked without a trace, and none that
\* has an event can be dispatched again.
SpentExactlyWhenReported ==
    \A c \in Chains :
        chain[c].dispatched = {e.key : e \in chain[c].events}
                     \cup {Key(frames[c][i].msg) : i \in 1 .. Len(frames[c])}

\* The Dispatched event tells what happened: success if and only if the call
\* stands, and never both outcomes for one message.
EventTellsOutcome ==
    \A c \in Chains : \A e \in chain[c].events :
        e.success <=> \E i \in 1 .. Len(chain[c].calls) :
                          Key(chain[c].calls[i]) = e.key
=============================================================================
