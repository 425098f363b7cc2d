------------------------ MODULE ValidatorNodeProofs ------------------------
(***************************************************************************)
(* The safety of a validator process, for any chains, any number of        *)
(* messages, restarts and lost transactions, and RPC nodes that may fail   *)
(* at any call.                                                            *)
(***************************************************************************)
EXTENDS ValidatorNode, SequenceTheorems, FiniteSetTheorems, TLAPS

-----------------------------------------------------------------------------
(* Queues *)

\* What a queue holds after a send.
LEMMA SendToQueue ==
    ASSUME NEW S, NEW s \in Seq(S), NEW e \in S
    PROVE  Append(s, e) \in Seq(S) /\ ToSet(Append(s, e)) = ToSet(s) \cup {e}
<1>1. /\ Append(s, e) \in Seq(S) /\ Len(Append(s, e)) = Len(s) + 1
      /\ \A i \in 1 .. Len(s) : Append(s, e)[i] = s[i]
      /\ Append(s, e)[Len(s) + 1] = e
  BY AppendProperties
<1>2. DOMAIN s = 1 .. Len(s) /\ DOMAIN Append(s, e) = 1 .. Len(s) + 1 /\ Len(s) \in Nat
  BY <1>1, LenProperties
<1>3. \A i \in 1 .. Len(s) + 1 : i \in 1 .. Len(s) \/ i = Len(s) + 1
  BY <1>2
<1>4. ToSet(Append(s, e)) \subseteq ToSet(s) \cup {e}
  BY <1>1, <1>2, <1>3 DEF ToSet
<1>5. ToSet(s) \subseteq ToSet(Append(s, e))
  BY <1>1, <1>2 DEF ToSet
<1>6. e \in ToSet(Append(s, e))
  BY <1>1, <1>2 DEF ToSet
<1> QED BY <1>1, <1>4, <1>5, <1>6

\* What it holds after a receive.
LEMMA ReceiveFromQueue ==
    ASSUME NEW S, NEW s \in Seq(S), s # << >>
    PROVE  /\ Head(s) \in S /\ Tail(s) \in Seq(S)
           /\ ToSet(s) = {Head(s)} \cup ToSet(Tail(s))
<1>1. /\ Head(s) \in S /\ Tail(s) \in Seq(S) /\ Len(Tail(s)) = Len(s) - 1
      /\ \A i \in 1 .. Len(Tail(s)) : Tail(s)[i] = s[i + 1]
  BY HeadTailProperties
<1>2. /\ DOMAIN s = 1 .. Len(s) /\ DOMAIN Tail(s) = 1 .. Len(s) - 1
      /\ Len(s) \in Nat \ {0} /\ Head(s) = s[1]
  BY <1>1, LenProperties, EmptySeq
<1>3. \A i \in 1 .. Len(s) : i = 1 \/ (i - 1 \in 1 .. Len(s) - 1 /\ (i - 1) + 1 = i)
  BY <1>2
<1>4. ToSet(s) \subseteq {Head(s)} \cup ToSet(Tail(s))
  <2>1. SUFFICES ASSUME NEW i \in 1 .. Len(s)
                 PROVE  s[i] \in {Head(s)} \cup ToSet(Tail(s))
    BY <1>2 DEF ToSet
  <2>2. CASE i = 1
    BY <2>2, <1>2
  <2>3. CASE i - 1 \in 1 .. Len(s) - 1 /\ (i - 1) + 1 = i
    <3>1. Tail(s)[i - 1] = s[i]
      BY <2>3, <1>1
    <3> QED BY <3>1, <2>3, <1>2 DEF ToSet
  <2> QED BY <2>2, <2>3, <1>3
<1>5. ToSet(Tail(s)) \subseteq ToSet(s)
  <2>1. \A i \in 1 .. Len(s) - 1 : i + 1 \in 1 .. Len(s) /\ Tail(s)[i] = s[i + 1]
    BY <1>1, <1>2
  <2> QED BY <2>1, <1>2 DEF ToSet
<1>6. Head(s) \in ToSet(s)
  BY <1>2 DEF ToSet
<1> QED BY <1>1, <1>4, <1>5, <1>6

\* An empty queue.
LEMMA EmptyQueue == ToSet(<< >>) = {} /\ \A S : << >> \in Seq(S)
<1>1. DOMAIN << >> = {}
  OBVIOUS
<1> QED BY <1>1 DEF ToSet

-----------------------------------------------------------------------------
(* Types *)

\* A replay ends at a block the chain has, and reading it stays within it.
ReplayWithinLog ==
    \A c \in Chains : /\ limit[c].relays <= Len(relayLog[c])
                      /\ limit[c].dispatches <= Len(dispatchLog[c])

NodeType ==
    /\ TypeOK
    /\ relayPos \in [Chains -> Nat] /\ dispatchPos \in [Chains -> Nat]
    /\ ReplayWithinLog

\* The types of the constants, one by one.
LEMMA ConstantTypes ==
    /\ Chains \subseteq AllChains /\ Legacy \subseteq Chains
    /\ Histories \subseteq SUBSET Chains
    /\ MaxNonce \in Nat /\ MaxRestarts \in Nat /\ MaxLost \in Nat /\ MaxAttempts \in Nat \ {0}
BY NodeAssumption

\* An exception replaces a message of a chain by a message of that chain.
LEMMA TransformedMessage ==
    ASSUME NEW m \in Messages
    PROVE  transform_log(m) \in Messages /\ transform_log(m).source = m.source
BY NodeAssumption DEF transform_log

\* A message is a record of two chains and a nonce.
LEMMA MessageFields ==
    ASSUME NEW m \in Messages
    PROVE  /\ m.source \in AllChains /\ m.target \in AllChains /\ m.nonce \in Nonces
           /\ m = [source |-> m.source, target |-> m.target, nonce |-> m.nonce]
           /\ m # NoEvent
BY DEF Messages, NoEvent

\* The type of a queued message tells its kind.
LEMMA KindOfMessage ==
    ASSUME NEW q \in Echo \cup DispatchedNote \cup Dispatch
    PROVE  /\ q.type \in {"Relay", "Dispatched", "Dispatch"}
           /\ q.type = "Relay" => q \in Echo
           /\ q.type = "Dispatched" => q \in DispatchedNote
           /\ q.type = "Dispatch" => q \in Dispatch
BY DEF Echo, DispatchedNote, Dispatch

\* No job in progress looks like one.
LEMMA JobInProgress ==
    ASSUME TypeOK, job # NoJob
    PROVE  /\ job \in [event : Messages, signatures : SUBSET {Me},
                       attempt : 1 .. MaxAttempts, simulated : BOOLEAN]
           /\ job.event \in Messages /\ job.signatures \in SUBSET {Me}
           /\ job.attempt \in 1 .. MaxAttempts /\ job.simulated \in BOOLEAN
BY DEF TypeOK

\* The node as started.
LEMMA TypeInit == Init => NodeType
<1> SUFFICES ASSUME Init PROVE NodeType
  OBVIOUS
<1> USE DEF Init, Fresh
<1>1. replayed \subseteq Chains
  BY ConstantTypes
<1>2. /\ relayLog \in [AllChains -> Seq(Messages)] /\ dispatchLog \in [AllChains -> Seq(Messages)]
      /\ inbound \in [Chains -> Seq(Echo \cup DispatchedNote)]
      /\ bridge \in Seq(Echo \cup DispatchedNote \cup Dispatch)
      /\ outbound \in Seq(Echo) /\ echoes \in Seq(Echo)
  BY EmptyQueue
<1>3. /\ relayPos \in [Chains -> Nat] /\ dispatchPos \in [Chains -> Nat]
      /\ phase \in [Chains -> {"start", "replay", "listen"}]
      /\ limit \in [Chains -> [relays : Nat, dispatches : Nat]]
      /\ relay_nonces \in [Chains -> SUBSET Nonces]
      /\ sent \in [Messages -> Nat]
  OBVIOUS
<1>4. \A c \in Chains : /\ relayPos[c] \in 0 .. Len(relayLog[c])
                        /\ dispatchPos[c] \in 0 .. Len(dispatchLog[c])
                        /\ limit[c].relays <= Len(relayLog[c])
                        /\ limit[c].dispatches <= Len(dispatchLog[c])
  BY ConstantTypes
<1>5. event_signatures \in [Chains -> [Nonces ->
          [event : Messages \cup {NoEvent}, dispatched : BOOLEAN, signatures : SUBSET {Me}]]]
  BY DEF None
<1>6. restarts \in 0 .. MaxRestarts
  BY ConstantTypes
<1>7. UNION {before, unanswered, givenUp, lost, missed} \subseteq Messages
  OBVIOUS
<1> QED BY <1>1, <1>2, <1>3, <1>4, <1>5, <1>6, <1>7 DEF NodeType, TypeOK, ReplayWithinLog

\* A log that grows, and nothing else that the types of the tasks depend on.
LEMMA TypeChains ==
    ASSUME NodeType,
           \/ \E s, t \in AllChains : relay(s, t)
           \/ \E tx \in txs : mine(tx) \/ lose(tx)
    PROVE  NodeType'
<1> USE DEF NodeType, TypeOK, ReplayWithinLog, chainVars, taskVars, loopVars
<1>1. ASSUME NEW s \in AllChains, NEW t \in AllChains, relay(s, t) PROVE NodeType'
  <2> USE <1>1 DEF relay
  <2> DEFINE n == Len(SelectSeq(relayLog[s], LAMBDA m : m.target = t)) + 1
             m == [source |-> s, target |-> t, nonce |-> n]
  <2>1. m \in Messages
    BY DEF Messages
  <2>2. relayLog' = [relayLog EXCEPT ![s] = Append(@, m)]
    OBVIOUS
  <2> HIDE DEF m
  <2>3. Append(relayLog[s], m) \in Seq(Messages) /\ Len(Append(relayLog[s], m)) = Len(relayLog[s]) + 1
    BY <2>1, AppendProperties
  <2>4. relayLog' \in [AllChains -> Seq(Messages)]
    BY <2>2, <2>3
  <2>5. \A c \in Chains : Len(relayLog[c]) \in Nat /\ Len(relayLog[c]) <= Len(relayLog'[c]) /\ Len(relayLog'[c]) \in Nat
    BY <2>2, <2>3, <2>4, ConstantTypes, LenProperties
  <2>6. \A c \in Chains : relayPos[c] \in 0 .. Len(relayLog'[c]) /\ limit[c].relays <= Len(relayLog'[c])
    BY <2>5
  <2> QED BY <2>4, <2>6
<1>2. ASSUME NEW tx \in txs, mine(tx) PROVE NodeType'
  <2> USE <1>2 DEF mine
  <2>1. tx.event \in Messages /\ tx.event.target \in AllChains
    BY MessageFields
  <2>2. CASE dispatchLog' = dispatchLog
    BY <2>2
  <2>3. CASE dispatchLog' = [dispatchLog EXCEPT ![tx.event.target] = Append(@, tx.event)]
    <3> DEFINE t == tx.event.target
               m == tx.event
    <3> HIDE DEF t, m
    <3>0. dispatchLog' = [dispatchLog EXCEPT ![t] = Append(@, m)] /\ t \in AllChains /\ m \in Messages
      BY <2>1, <2>3 DEF t, m
    <3>3. Append(dispatchLog[t], m) \in Seq(Messages) /\ Len(Append(dispatchLog[t], m)) = Len(dispatchLog[t]) + 1
      BY <3>0, AppendProperties
    <3>4. dispatchLog' \in [AllChains -> Seq(Messages)]
      BY <3>0, <3>3
    <3>5. \A c \in Chains : Len(dispatchLog[c]) \in Nat /\ Len(dispatchLog[c]) <= Len(dispatchLog'[c]) /\ Len(dispatchLog'[c]) \in Nat
      <4>1. \A c \in Chains : Len(dispatchLog[c]) \in Nat /\ Len(dispatchLog'[c]) \in Nat
        BY <3>4, ConstantTypes, LenProperties
      <4>2. \A c \in Chains : dispatchLog'[c] = dispatchLog[c] \/ Len(dispatchLog'[c]) = Len(dispatchLog[c]) + 1
        BY <3>0, <3>3, ConstantTypes
      <4> QED BY ONLY <4>1, <4>2
    <3>6. \A c \in Chains : dispatchPos[c] \in 0 .. Len(dispatchLog'[c]) /\ limit[c].dispatches <= Len(dispatchLog'[c])
      <4>1. \A c \in Chains : /\ dispatchPos[c] \in 0 .. Len(dispatchLog[c])
                              /\ limit[c].dispatches \in Nat /\ limit[c].dispatches <= Len(dispatchLog[c])
        OBVIOUS
      <4> QED BY ONLY <3>5, <4>1
    <3> QED BY <3>4, <3>6
  <2> QED BY <2>2, <2>3
<1>3. ASSUME NEW tx \in txs, lose(tx) PROVE NodeType'
  <2>1. tx.event \in Messages
    OBVIOUS
  <2> QED BY <1>3, <2>1 DEF lose
<1> QED BY <1>1, <1>2, <1>3

\* A task reads an event that is there.
LEMMA TypeReads ==
    ASSUME NodeType, NEW c \in Chains,
           \/ ReadRelay(c) /\ relayPos[c] < Len(relayLog[c])
           \/ ReadDispatch(c) /\ dispatchPos[c] < Len(dispatchLog[c])
    PROVE  NodeType'
<1> USE DEF NodeType, TypeOK, ReplayWithinLog, chainVars, taskVars, loopVars
<1>0. c \in AllChains /\ \A d \in Chains : Len(relayLog[d]) \in Nat /\ Len(dispatchLog[d]) \in Nat
  BY ConstantTypes, LenProperties
<1>1. CASE ReadRelay(c) /\ relayPos[c] < Len(relayLog[c])
  <2> DEFINE m == transform_log(relayLog[c][relayPos[c] + 1])
  <2>1. m \in Messages
    BY <1>0, <1>1, ElementOfSeq, TransformedMessage
  <2>2. relayPos' = [relayPos EXCEPT ![c] = @ + 1] /\ handle_relay_event(c, m)
    BY <1>1 DEF ReadRelay
  <2> HIDE DEF m
  <2>3. relayPos' \in [Chains -> Nat] /\ \A d \in Chains : relayPos'[d] \in 0 .. Len(relayLog[d])
    <3>1. relayPos \in [Chains -> Nat] /\ \A d \in Chains : relayPos[d] \in 0 .. Len(relayLog[d])
      OBVIOUS
    <3> QED BY ONLY <3>1, <1>1, <2>2, <1>0, c \in Chains
  <2>4. /\ relay_nonces' \in [Chains -> SUBSET Nonces]
        /\ bridge' \in Seq(Echo \cup DispatchedNote \cup Dispatch)
    <3>1. CASE UNCHANGED <<relay_nonces, bridge>>
      BY <3>1
    <3>2. CASE /\ relay_nonces' = [relay_nonces EXCEPT ![c] = @ \cup {m.nonce}]
               /\ bridge' = Append(bridge, [type |-> "Relay", event |-> m, signatures |-> {Me}])
      <4>1. [type |-> "Relay", event |-> m, signatures |-> {Me}] \in Echo
        BY <2>1 DEF Echo
      <4>2. relay_nonces' \in [Chains -> SUBSET Nonces]
        <5>1. m.nonce \in Nonces /\ relay_nonces[c] \cup {m.nonce} \in SUBSET Nonces
          BY <2>1, MessageFields
        <5> QED BY <3>2, <5>1
      <4>3. bridge' \in Seq(Echo \cup DispatchedNote \cup Dispatch)
        BY <3>2, <4>1, AppendProperties
      <4> QED BY <4>2, <4>3
    <3> QED BY <2>2, <3>1, <3>2 DEF handle_relay_event
  <2> QED BY <1>1, <2>3, <2>4 DEF ReadRelay
<1>2. CASE ReadDispatch(c) /\ dispatchPos[c] < Len(dispatchLog[c])
  <2> DEFINE m == dispatchLog[c][dispatchPos[c] + 1]
  <2>1. m \in Messages
    BY <1>0, <1>2, ElementOfSeq
  <2>2. dispatchPos' = [dispatchPos EXCEPT ![c] = @ + 1] /\ handle_dispatch_event(c, m)
    BY <1>2 DEF ReadDispatch
  <2> HIDE DEF m
  <2>3. dispatchPos' \in [Chains -> Nat] /\ \A d \in Chains : dispatchPos'[d] \in 0 .. Len(dispatchLog[d])
    <3>1. dispatchPos \in [Chains -> Nat] /\ \A d \in Chains : dispatchPos[d] \in 0 .. Len(dispatchLog[d])
      OBVIOUS
    <3> QED BY ONLY <3>1, <1>2, <2>2, <1>0, c \in Chains
  <2>4. bridge' \in Seq(Echo \cup DispatchedNote \cup Dispatch)
    <3>1. [type |-> "Dispatched", chain_id |-> m.source, nonce |-> m.nonce] \in DispatchedNote
      BY <2>1, MessageFields DEF DispatchedNote
    <3> QED BY <2>2, <3>1, AppendProperties DEF handle_dispatch_event
  <2> QED BY <1>2, <2>3, <2>4 DEF ReadDispatch
<1> QED BY <1>1, <1>2

\* The relays passed over are messages of the chain.
LEMMA PassedOverMessages ==
    ASSUME NodeType, NEW c \in Chains, NEW n \in 0 .. Len(relayLog[c])
    PROVE  PassedOver(c, n) \subseteq Messages
<1>1. /\ c \in AllChains /\ relayLog[c] \in Seq(Messages) /\ relayPos[c] \in Nat
      /\ Len(relayLog[c]) \in Nat
  BY ConstantTypes, LenProperties DEF NodeType, TypeOK
<1>2. \A i \in relayPos[c] + 1 .. n : i \in 1 .. Len(relayLog[c])
  BY <1>1
<1>3. \A i \in relayPos[c] + 1 .. n : relayLog[c][i] \in Messages
  BY <1>1, <1>2, ElementOfSeq
<1> QED BY <1>3, TransformedMessage DEF PassedOver

\* A stream passes over an event that is there.
LEMMA TypeMisses ==
    ASSUME NodeType, NEW c \in Chains,
           \/ MissRelay(c) /\ relayPos[c] < Len(relayLog[c])
           \/ MissDispatch(c) /\ dispatchPos[c] < Len(dispatchLog[c])
    PROVE  NodeType'
<1>0. /\ \A d \in Chains : Len(relayLog[d]) \in Nat /\ Len(dispatchLog[d]) \in Nat
      /\ relayPos \in [Chains -> Nat] /\ \A d \in Chains : relayPos[d] \in 0 .. Len(relayLog[d])
      /\ dispatchPos \in [Chains -> Nat] /\ \A d \in Chains : dispatchPos[d] \in 0 .. Len(dispatchLog[d])
  BY ConstantTypes, LenProperties DEF NodeType, TypeOK
<1>1. CASE MissRelay(c) /\ relayPos[c] < Len(relayLog[c])
  <2>1. relayPos' = [relayPos EXCEPT ![c] = @ + 1] /\ missed' = missed \cup PassedOver(c, relayPos[c] + 1)
    BY <1>1 DEF MissRelay
  <2>2. relayPos[c] + 1 \in 0 .. Len(relayLog[c])
    BY <1>0, <1>1
  <2>3. relayPos' \in [Chains -> Nat] /\ \A d \in Chains : relayPos'[d] \in 0 .. Len(relayLog[d])
    BY ONLY <1>0, <1>1, <2>1, c \in Chains
  <2>4. PassedOver(c, relayPos[c] + 1) \subseteq Messages
    BY <2>2, PassedOverMessages
  <2>5. missed' \subseteq Messages
    BY <2>1, <2>4 DEF NodeType, TypeOK
  <2>6. (UNION {before, unanswered, givenUp, lost, missed} \subseteq Messages)'
    <3>1. UNION {before, unanswered, givenUp, lost, missed} \subseteq Messages
      BY DEF NodeType, TypeOK
    <3>2. UNCHANGED <<before, unanswered, givenUp, lost>>
      BY <1>1 DEF MissRelay
    <3> QED BY ONLY <2>5, <3>1, <3>2
  <2>7. /\ UNCHANGED <<chainVars, replayed, phase, limit, dispatchPos, relay_nonces, event_signatures>>
        /\ UNCHANGED <<inbound, bridge, outbound, echoes, job, restarts, sent>>
    BY <1>1 DEF MissRelay
  <2> QED
    BY <2>3, <2>6, <2>7 DEF NodeType, TypeOK, ReplayWithinLog, chainVars
<1>2. CASE MissDispatch(c) /\ dispatchPos[c] < Len(dispatchLog[c])
  <2>1. dispatchPos' = [dispatchPos EXCEPT ![c] = @ + 1]
    BY <1>2 DEF MissDispatch
  <2>2. dispatchPos' \in [Chains -> Nat] /\ \A d \in Chains : dispatchPos'[d] \in 0 .. Len(dispatchLog[d])
    BY ONLY <1>0, <1>2, <2>1, c \in Chains
  <2> QED
    BY <1>2, <2>2 DEF MissDispatch, NodeType, TypeOK, ReplayWithinLog, chainVars, loopVars
<1> QED BY <1>1, <1>2

\* A stream starts at a place of the log.
LEMMA StartsWithinLogs ==
    ASSUME NEW c
    PROVE  \A r, d : /\ Starts(c, r, d) \subseteq (0 .. Len(relayLog[c])) \X (0 .. Len(dispatchLog[c]))
                     /\ \A p \in Starts(c, r, d) : p[1] \in 0 .. Len(relayLog[c])
BY DEF Starts

\* A task starts its replay or its streams.
LEMMA TypeStart ==
    ASSUME NodeType, NEW c \in Chains, sync_historic_events(c) \/ listen_events(c)
    PROVE  NodeType'
<1> USE DEF NodeType, TypeOK, ReplayWithinLog, chainVars, taskVars, loopVars
<1>0. c \in AllChains /\ \A d \in Chains : Len(relayLog[d]) \in Nat /\ Len(dispatchLog[d]) \in Nat
  BY ConstantTypes, LenProperties
<1>1. CASE sync_historic_events(c)
  <2>1. limit' = [limit EXCEPT ![c] = [relays |-> Len(relayLog[c]), dispatches |-> Len(dispatchLog[c])]]
    BY <1>1 DEF sync_historic_events
  <2>2. limit' \in [Chains -> [relays : Nat, dispatches : Nat]]
    BY <2>1, <1>0
  <2>3. \A d \in Chains : limit'[d].relays <= Len(relayLog[d]) /\ limit'[d].dispatches <= Len(dispatchLog[d])
    <3>1. /\ limit \in [Chains -> [relays : Nat, dispatches : Nat]]
          /\ \A d \in Chains : limit[d].relays <= Len(relayLog[d]) /\ limit[d].dispatches <= Len(dispatchLog[d])
      OBVIOUS
    <3>2. \A d \in Chains : limit'[d] = IF d = c
             THEN [relays |-> Len(relayLog[c]), dispatches |-> Len(dispatchLog[c])]
             ELSE limit[d]
      BY ONLY <3>1, <2>1, c \in Chains
    <3> QED BY ONLY <3>1, <3>2, <1>0, c \in Chains
  <2>4. phase' \in [Chains -> {"start", "replay", "listen"}]
    BY <1>1 DEF sync_historic_events
  <2> QED BY <1>1, <2>2, <2>3, <2>4 DEF sync_historic_events
<1>2. CASE listen_events(c)
  <2>1. phase' \in [Chains -> {"start", "replay", "listen"}]
    BY <1>2 DEF listen_events
  <2>2. /\ relayPos' \in [Chains -> Nat] /\ dispatchPos' \in [Chains -> Nat]
        /\ \A d \in Chains : relayPos'[d] \in 0 .. Len(relayLog[d]) /\ dispatchPos'[d] \in 0 .. Len(dispatchLog[d])
    <3>1. /\ relayPos \in [Chains -> Nat] /\ dispatchPos \in [Chains -> Nat]
          /\ \A d \in Chains : relayPos[d] \in 0 .. Len(relayLog[d]) /\ dispatchPos[d] \in 0 .. Len(dispatchLog[d])
      OBVIOUS
    <3>2. PICK p \in (0 .. Len(relayLog[c])) \X (0 .. Len(dispatchLog[c])) :
             /\ relayPos' = [relayPos EXCEPT ![c] = p[1]]
             /\ dispatchPos' = [dispatchPos EXCEPT ![c] = p[2]]
      BY <1>2, StartsWithinLogs DEF listen_events
    <3> QED BY ONLY <3>1, <3>2, <1>0, c \in Chains
  <2>3. missed' \subseteq Messages
    <3>1. missed \subseteq Messages
      OBVIOUS
    <3>2. \A r, d : \A p \in Starts(c, r, d) : p[1] \in 0 .. Len(relayLog[c])
      BY StartsWithinLogs
    <3>3. \A p \in Starts(c, relayPos[c], dispatchPos[c]) : PassedOver(c, p[1]) \subseteq Messages
      BY ONLY <3>2, PassedOverMessages, NodeType, c \in Chains
    <3> QED BY <1>2, <3>1, <3>3 DEF listen_events
  <2>4. (UNION {before, unanswered, givenUp, lost, missed} \subseteq Messages)'
    <3>1. UNION {before, unanswered, givenUp, lost, missed} \subseteq Messages
      OBVIOUS
    <3>2. UNCHANGED <<before, unanswered, givenUp, lost>>
      BY <1>2 DEF listen_events
    <3> QED BY ONLY <2>3, <3>1, <3>2
  <2>5. /\ UNCHANGED <<chainVars, replayed, limit, relay_nonces, event_signatures>>
        /\ UNCHANGED <<inbound, bridge, outbound, echoes, job, restarts, sent>>
    BY <1>2 DEF listen_events
  <2> QED BY <2>1, <2>2, <2>4, <2>5
<1> QED BY <1>1, <1>2

\* What a task makes of a message of another task or of an echo.
LEMMA TypeMessage ==
    ASSUME NodeType, NEW c \in Chains, handle_bridge_message(c)
    PROVE  NodeType'
<1> DEFINE Entry == [event : Messages \cup {NoEvent}, dispatched : BOOLEAN, signatures : SUBSET {Me}]
           q == Head(inbound[c])
<1>1. inbound[c] \in Seq(Echo \cup DispatchedNote) /\ inbound[c] # << >>
  BY DEF NodeType, TypeOK, handle_bridge_message
<1>2. q \in Echo \cup DispatchedNote /\ Tail(inbound[c]) \in Seq(Echo \cup DispatchedNote)
  BY <1>1, ReceiveFromQueue
<1>3. inbound' \in [Chains -> Seq(Echo \cup DispatchedNote)]
  BY <1>2 DEF NodeType, TypeOK, handle_bridge_message
<1>4. event_signatures \in [Chains -> [Nonces -> Entry]] /\ bridge \in Seq(Echo \cup DispatchedNote \cup Dispatch)
  BY DEF NodeType, TypeOK
<1>5. /\ event_signatures' \in [Chains -> [Nonces -> Entry]]
      /\ bridge' \in Seq(Echo \cup DispatchedNote \cup Dispatch)
  <2>1. CASE /\ q.type = "Dispatched" /\ bridge' = bridge
             /\ event_signatures' = [event_signatures EXCEPT ![c][q.nonce].dispatched = TRUE]
    <3>1. q.nonce \in Nonces
      BY <2>1, <1>2, KindOfMessage DEF DispatchedNote
    <3>2. PICK n : n = q.nonce
      OBVIOUS
    <3>3. [event_signatures[c][n] EXCEPT !.dispatched = TRUE] \in Entry
      <4>1. PICK old \in Entry : old = event_signatures[c][n]
        BY <3>1, <3>2, <1>4
      <4>2. [old EXCEPT !.dispatched = TRUE] \in Entry
        OBVIOUS
      <4> QED BY <4>1, <4>2
    <3>4. event_signatures' = [event_signatures EXCEPT ![c] =
                [event_signatures[c] EXCEPT ![n] = [event_signatures[c][n] EXCEPT !.dispatched = TRUE]]]
      BY <2>1, <3>1, <3>2, <1>4
    <3> HIDE DEF Entry
    <3> QED BY <2>1, <3>1, <3>2, <3>3, <3>4, <1>4
  <2>2. CASE q.type = "Relay" /\ handle_relay(c, q.event, q.signatures)
    <3>1. q.event \in Messages /\ q.signatures \in SUBSET {Me}
      BY <2>2, <1>2, KindOfMessage DEF Echo
    <3>2. PICK m \in Messages, n \in Nonces : m = q.event /\ n = m.nonce
      BY <3>1, MessageFields
    <3>3. PICK S : S = Collected(c, m, q.signatures)
      OBVIOUS
    <3>4. S \in SUBSET {Me}
      <4>1. event_signatures[c][m.nonce].signatures \in SUBSET {Me}
        BY <1>4, <3>2
      <4> QED BY <4>1, <3>1, <3>3 DEF Collected
    <3>5. event_signatures' \in [Chains -> [Nonces -> Entry]]
      <4>1. CASE event_signatures' = event_signatures
        BY <4>1, <1>4
      <4>2. CASE event_signatures' = [event_signatures EXCEPT ![c][n].event = m, ![c][n].signatures = S]
        <5>1. [event_signatures[c][n] EXCEPT !.event = m, !.signatures = S] \in Entry
          <6>1. PICK old \in Entry : old = event_signatures[c][n]
            BY <1>4
          <6>2. [old EXCEPT !.event = m, !.signatures = S] \in Entry
            BY <3>4
          <6> QED BY <6>1, <6>2
        <5>2. event_signatures' = [event_signatures EXCEPT ![c] =
                [event_signatures[c] EXCEPT ![n] = [event_signatures[c][n] EXCEPT !.event = m, !.signatures = S]]]
          BY <4>2, <1>4
        <5> HIDE DEF Entry
        <5> QED BY <5>1, <5>2, <1>4
      <4> QED BY <2>2, <3>2, <3>3, <4>1, <4>2 DEF handle_relay
    <3>6. bridge' \in Seq(Echo \cup DispatchedNote \cup Dispatch)
      <4>1. [type |-> "Dispatch", event |-> m, signatures |-> S] \in Dispatch
        BY <3>4 DEF Dispatch
      <4>2. bridge' = bridge \/ bridge' = Append(bridge, [type |-> "Dispatch", event |-> m, signatures |-> S])
        BY <2>2, <3>2, <3>3 DEF handle_relay
      <4> QED BY <4>1, <4>2, <1>4, AppendProperties
    <3> QED BY <3>5, <3>6
  <2> QED BY <2>1, <2>2 DEF handle_bridge_message
<1> QED BY <1>3, <1>5 DEF NodeType, TypeOK, ReplayWithinLog, handle_bridge_message, chainVars, taskVars, loopVars

\* The loops that route messages.
LEMMA TypeRouting ==
    ASSUME NodeType, listen_p2p \/ loopBack
    PROVE  NodeType'
<1> USE DEF NodeType, TypeOK, ReplayWithinLog, chainVars, taskVars, loopVars
<1>1. CASE forwardEcho
  <2>1. Head(echoes) \in Echo /\ Tail(echoes) \in Seq(Echo)
    BY <1>1, ReceiveFromQueue DEF forwardEcho
  <2>2. inbound' \in [Chains -> Seq(Echo \cup DispatchedNote)]
    <3>1. PICK c : c = Head(echoes).event.source
      OBVIOUS
    <3>2. CASE c \in Chains /\ inbound' = [inbound EXCEPT ![c] = Append(@, Head(echoes))]
      <4>1. Append(inbound[c], Head(echoes)) \in Seq(Echo \cup DispatchedNote)
        BY <3>2, <2>1, AppendProperties
      <4> QED BY <3>2, <4>1
    <3>3. CASE inbound' = inbound
      BY <3>3
    <3> QED BY <1>1, <3>1, <3>2, <3>3 DEF forwardEcho
  <2> QED BY <1>1, <2>1, <2>2 DEF forwardEcho
<1>2. CASE forwardBridgeMessage
  <2> DEFINE q == Head(bridge)
  <2>1. q \in Echo \cup DispatchedNote \cup Dispatch /\ Tail(bridge) \in Seq(Echo \cup DispatchedNote \cup Dispatch)
    BY <1>2, ReceiveFromQueue DEF forwardBridgeMessage
  <2>2. bridge' \in Seq(Echo \cup DispatchedNote \cup Dispatch)
    BY <1>2, <2>1 DEF forwardBridgeMessage
  <2>3. CASE q.type = "Relay" /\ outbound' = Append(outbound, q) /\ UNCHANGED <<inbound, job>>
    <3>1. outbound' \in Seq(Echo)
      BY <2>3, <2>1, KindOfMessage, AppendProperties
    <3> QED BY <1>2, <2>2, <2>3, <3>1 DEF forwardBridgeMessage
  <2>4. CASE /\ q.type = "Dispatched" /\ UNCHANGED <<outbound, job>>
             /\ inbound' = IF q.chain_id \in Chains
                           THEN [inbound EXCEPT ![q.chain_id] = Append(@, q)] ELSE inbound
    <3>1. inbound' \in [Chains -> Seq(Echo \cup DispatchedNote)]
      <4>1. CASE q.chain_id \in Chains
        <5>1. Append(inbound[q.chain_id], q) \in Seq(Echo \cup DispatchedNote)
          BY <2>4, <4>1, <2>1, KindOfMessage, AppendProperties
        <5> QED BY <2>4, <4>1, <5>1
      <4> QED BY <2>4, <4>1
    <3> QED BY <1>2, <2>2, <2>4, <3>1 DEF forwardBridgeMessage
  <2>5. CASE /\ q.type = "Dispatch" /\ UNCHANGED <<inbound, outbound>>
             /\ job' = IF q.event.target \in Chains
                       THEN [event |-> q.event, signatures |-> q.signatures,
                             attempt |-> 1, simulated |-> FALSE]
                       ELSE NoJob
    <3>1. q.event \in Messages /\ q.signatures \in SUBSET {Me}
      BY <2>5, <2>1, KindOfMessage DEF Dispatch
    <3>2. job' \in {NoJob} \cup [event : Messages, signatures : SUBSET {Me},
                                 attempt : 1 .. MaxAttempts, simulated : BOOLEAN]
      BY <2>5, <3>1, ConstantTypes
    <3> QED BY <1>2, <2>2, <2>5, <3>2 DEF forwardBridgeMessage
  <2> QED BY <1>2, <2>3, <2>4, <2>5 DEF forwardBridgeMessage
<1>3. CASE loopBack
  <2>1. Head(outbound) \in Echo /\ Tail(outbound) \in Seq(Echo)
    BY <1>3, ReceiveFromQueue DEF loopBack
  <2>2. echoes' \in Seq(Echo) /\ outbound' \in Seq(Echo)
    BY <1>3, <2>1, AppendProperties DEF loopBack
  <2> QED BY <1>3, <2>2 DEF loopBack
<1> QED BY <1>1, <1>2, <1>3 DEF listen_p2p

\* The end of an attempt to dispatch.
LEMMA TypeNextAttempt ==
    ASSUME NodeType, job # NoJob, nextAttempt
    PROVE  /\ job' \in {NoJob} \cup [event : Messages, signatures : SUBSET {Me},
                                     attempt : 1 .. MaxAttempts, simulated : BOOLEAN]
           /\ givenUp' \subseteq Messages
<1>1. TypeOK /\ givenUp \subseteq Messages
  BY DEF NodeType, TypeOK
<1>2. /\ job \in [event : Messages, signatures : SUBSET {Me},
                  attempt : 1 .. MaxAttempts, simulated : BOOLEAN]
      /\ job.attempt \in 1 .. MaxAttempts
  BY <1>1, JobInProgress
<1>3. CASE job.attempt < MaxAttempts
  <2>1. job.attempt + 1 \in 1 .. MaxAttempts
    BY <1>2, <1>3, ConstantTypes
  <2> QED BY <1>1, <1>2, <1>3, <2>1 DEF nextAttempt
<1>4. CASE ~(job.attempt < MaxAttempts)
  BY <1>1, <1>2, <1>4 DEF nextAttempt
<1> QED BY <1>3, <1>4

\* An attempt to dispatch.
LEMMA TypeDispatching ==
    ASSUME NodeType, dispatch_message
    PROVE  NodeType'
<1> DEFINE Jobs == {NoJob} \cup [event : Messages, signatures : SUBSET {Me},
                                 attempt : 1 .. MaxAttempts, simulated : BOOLEAN]
<1>0. TypeOK /\ job # NoJob
  BY DEF NodeType, dispatch_message, simulate, sendTransaction
<1>1. /\ job \in [event : Messages, signatures : SUBSET {Me},
                  attempt : 1 .. MaxAttempts, simulated : BOOLEAN]
      /\ job.event \in Messages /\ job.signatures \in SUBSET {Me}
  BY <1>0, JobInProgress
<1>2. nextAttempt => job' \in Jobs /\ givenUp' \subseteq Messages
  BY <1>0, TypeNextAttempt
<1>3. givenUp \subseteq Messages
  BY DEF NodeType, TypeOK
<1>4. CASE simulate
  <2>1. job' \in Jobs /\ givenUp' \subseteq Messages
    BY <1>1, <1>2, <1>3, <1>4 DEF simulate
  <2> QED BY <1>4, <2>1 DEF simulate, NodeType, TypeOK, ReplayWithinLog, chainVars, taskVars
<1>5. CASE sendTransaction
  <2>1. job' \in Jobs /\ givenUp' \subseteq Messages
    BY <1>1, <1>2, <1>3, <1>5 DEF sendTransaction
  <2>2. /\ txs' \subseteq [event : Messages, signatures : SUBSET {Me}] /\ sent' \in [Messages -> Nat]
        /\ unanswered' \subseteq Messages
    <3>1. /\ txs \subseteq [event : Messages, signatures : SUBSET {Me}] /\ sent \in [Messages -> Nat]
          /\ unanswered \subseteq Messages
      BY DEF NodeType, TypeOK
    <3> QED BY <1>1, <1>5, <3>1 DEF sendTransaction
  <2> QED BY <1>5, <2>1, <2>2 DEF sendTransaction, NodeType, TypeOK, ReplayWithinLog, taskVars
<1> QED BY <1>4, <1>5 DEF dispatch_message

\* A message that is dispatched is a message.
LEMMA DispatchedMessages ==
    ASSUME TypeOK
    PROVE  Dispatched \subseteq Messages /\ Issued \subseteq Messages
<1>1. \A s \in Seq(Messages) : ToSet(s) \subseteq Messages
  BY LenProperties DEF ToSet
<1>2. Dispatched \subseteq Messages /\ Relayed \subseteq Messages
  BY <1>1 DEF Dispatched, Relayed, TypeOK
<1> QED BY <1>2, TransformedMessage DEF Issued

\* A new start.
LEMMA TypeRestart ==
    ASSUME NodeType, restart
    PROVE  NodeType'
<1> USE DEF restart, Fresh
<1>2. /\ inbound' \in [Chains -> Seq(Echo \cup DispatchedNote)]
      /\ bridge' \in Seq(Echo \cup DispatchedNote \cup Dispatch)
      /\ outbound' \in Seq(Echo) /\ echoes' \in Seq(Echo)
  BY EmptyQueue
<1>3. /\ relayPos' \in [Chains -> Nat] /\ dispatchPos' \in [Chains -> Nat]
      /\ phase' \in [Chains -> {"start", "replay", "listen"}]
      /\ limit' \in [Chains -> [relays : Nat, dispatches : Nat]]
      /\ relay_nonces' \in [Chains -> SUBSET Nonces]
      /\ sent' \in [Messages -> Nat]
  OBVIOUS
<1>4. \A c \in Chains : /\ relayPos'[c] \in 0 .. Len(relayLog[c])
                        /\ dispatchPos'[c] \in 0 .. Len(dispatchLog[c])
                        /\ limit'[c].relays <= Len(relayLog[c])
                        /\ limit'[c].dispatches <= Len(dispatchLog[c])
  <2>1. \A c \in Chains : Len(relayLog[c]) \in Nat /\ Len(dispatchLog[c]) \in Nat
    BY ConstantTypes, LenProperties DEF NodeType, TypeOK
  <2> QED BY <2>1
<1>5. event_signatures' \in [Chains -> [Nonces ->
          [event : Messages \cup {NoEvent}, dispatched : BOOLEAN, signatures : SUBSET {Me}]]]
  BY DEF None
<1>6. restarts' \in 0 .. MaxRestarts
  BY ConstantTypes DEF NodeType, TypeOK
<1>7. UNION {before', unanswered', givenUp', lost', missed'} \subseteq Messages
  BY DispatchedMessages DEF NodeType
<1> QED
  BY <1>2, <1>3, <1>4, <1>5, <1>6, <1>7 DEF NodeType, TypeOK, ReplayWithinLog, chainVars

\* Every step of the process or of the chains is of one of these kinds; an event
\* is read only if it is there.
StepKinds ==
    \/ \E s, t \in AllChains : relay(s, t)
    \/ \E tx \in txs : mine(tx) \/ lose(tx)
    \/ \E c \in Chains : \/ ReadRelay(c) /\ relayPos[c] < Len(relayLog[c])
                         \/ ReadDispatch(c) /\ dispatchPos[c] < Len(dispatchLog[c])
                         \/ MissRelay(c) /\ relayPos[c] < Len(relayLog[c])
                         \/ MissDispatch(c) /\ dispatchPos[c] < Len(dispatchLog[c])
                         \/ sync_historic_events(c) \/ listen_events(c)
                         \/ handle_bridge_message(c)
    \/ listen_p2p \/ loopBack \/ dispatch_message \/ restart

\* Every step of Next is one of the kinds.
LEMMA KindsOfStep ==
    ASSUME NodeType, Next
    PROVE  StepKinds
<1>1. ASSUME NEW c \in Chains, Task(c)
      PROVE  \/ ReadRelay(c) /\ relayPos[c] < Len(relayLog[c])
             \/ ReadDispatch(c) /\ dispatchPos[c] < Len(dispatchLog[c])
             \/ MissRelay(c) /\ relayPos[c] < Len(relayLog[c])
             \/ MissDispatch(c) /\ dispatchPos[c] < Len(dispatchLog[c])
             \/ sync_historic_events(c) \/ listen_events(c) \/ handle_bridge_message(c)
  <2>1. /\ limit[c].relays \in Nat /\ limit[c].dispatches \in Nat
        /\ limit[c].relays <= Len(relayLog[c]) /\ limit[c].dispatches <= Len(dispatchLog[c])
        /\ relayPos[c] \in Nat /\ dispatchPos[c] \in Nat
        /\ Len(relayLog[c]) \in Nat /\ Len(dispatchLog[c]) \in Nat
    BY ConstantTypes, LenProperties DEF NodeType, TypeOK, ReplayWithinLog
  <2> QED BY <1>1, <2>1 DEF Task, ReplayDispatch, ReplayRelay, RelayedStream, DispatchedStream
<1> QED BY <1>1 DEF Next, StepKinds

\* Every step keeps the types.
LEMMA TypeStep == NodeType /\ [Next]_vars => NodeType'
<1>1. ASSUME NodeType, Next PROVE NodeType'
  BY <1>1, KindsOfStep, TypeChains, TypeReads, TypeMisses, TypeStart, TypeMessage, TypeRouting,
     TypeDispatching, TypeRestart DEF StepKinds
<1>2. ASSUME NodeType, UNCHANGED vars PROVE NodeType'
  BY <1>2 DEF NodeType, TypeOK, ReplayWithinLog, vars, chainVars, taskVars, loopVars
<1> QED BY <1>1, <1>2

\* The types of the process' state, and that its tasks never read beyond the end
\* of a log.
THEOREM TypeCorrect == Spec => []TypeOK
<1>1. NodeType => TypeOK
  BY DEF NodeType
<1> QED BY <1>1, TypeInit, TypeStep, PTL DEF Spec

-----------------------------------------------------------------------------
(* What was dispatched before the start is not sent again *)

\* A dispatch is for ever, and only a transaction that is mined adds one.
LEMMA MiningDispatches ==
    ASSUME NodeType, NEW tx \in txs, mine(tx)
    PROVE  /\ Dispatched \subseteq Dispatched' /\ Dispatched' \subseteq Dispatched \cup {tx.event}
           /\ Valid(tx.signatures) => tx.event \in Dispatched'
<1>1. CASE dispatchLog' = dispatchLog /\ (Valid(tx.signatures) => tx.event \in Dispatched)
  <2>1. Dispatched' = Dispatched
    BY <1>1 DEF Dispatched
  <2> QED BY <1>1, <2>1
<1>2. CASE dispatchLog' = [dispatchLog EXCEPT ![tx.event.target] = Append(@, tx.event)]
  <2>1. PICK m \in Messages, t \in AllChains : m = tx.event /\ t = m.target
    BY MessageFields DEF NodeType, TypeOK
  <2>2. dispatchLog \in [AllChains -> Seq(Messages)]
    BY DEF NodeType, TypeOK
  <2>3. ToSet(Append(dispatchLog[t], m)) = ToSet(dispatchLog[t]) \cup {m}
    BY <2>1, <2>2, SendToQueue
  <2>4. \A c \in AllChains : ToSet(dispatchLog'[c]) =
            IF c = t THEN ToSet(dispatchLog[c]) \cup {m} ELSE ToSet(dispatchLog[c])
    BY <1>2, <2>1, <2>2, <2>3
  <2>5. Dispatched' = Dispatched \cup {m}
    BY <2>4 DEF Dispatched
  <2> QED BY <2>5, <2>1
<1> QED BY <1>1, <1>2 DEF mine

\* No other step touches the dispatches.
LEMMA DispatchesElsewhere ==
    ASSUME NodeType, StepKinds \/ UNCHANGED vars
    PROVE  \/ \E tx \in txs : mine(tx)
           \/ UNCHANGED dispatchLog /\ Dispatched' = Dispatched
<1>1. UNCHANGED dispatchLog => Dispatched' = Dispatched
  BY DEF Dispatched
<1>2. (\E tx \in txs : mine(tx)) \/ UNCHANGED dispatchLog
  BY DEF StepKinds, relay, lose, ReadRelay, ReadDispatch, sync_historic_events, listen_events, MissRelay, MissDispatch,
         handle_bridge_message, listen_p2p, forwardEcho, forwardBridgeMessage, loopBack,
         dispatch_message, simulate, sendTransaction, restart, vars, chainVars
<1> QED BY <1>1, <1>2

\* What is dispatched stays dispatched.
LEMMA DispatchedGrows ==
    ASSUME NodeType, StepKinds \/ UNCHANGED vars
    PROVE  Dispatched \subseteq Dispatched'
BY DispatchesElsewhere, MiningDispatches

\* No transaction for a message dispatched before the start was sent or is about
\* to be, on a chain where the call is simulated first.
NoneAgain ==
    /\ before \subseteq Dispatched
    /\ \A m \in before : m.target \notin Legacy =>
          /\ sent[m] = 0 /\ m \notin unanswered
          /\ job # NoJob /\ job.event = m => ~job.simulated

\* A node that has sent nothing.
LEMMA NoneAgainInit == Init => NoneAgain
BY DEF Init, NoneAgain

\* Nothing is simulated successfully once it has been dispatched.
LEMMA NoneAgainStep == NodeType /\ NoneAgain /\ [Next]_vars => NoneAgain'
<1> SUFFICES ASSUME NodeType, NoneAgain, StepKinds \/ UNCHANGED vars PROVE NoneAgain'
  BY KindsOfStep
<1>1. Dispatched \subseteq Dispatched'
  BY DispatchedGrows
<1>2. CASE restart
  <2>1. before' = Dispatched /\ Dispatched' = Dispatched /\ sent' = [m \in Messages |-> 0] /\ job' = NoJob
        /\ unanswered' = {}
    BY <1>2 DEF restart, Fresh, chainVars, Dispatched
  <2>2. Dispatched \subseteq Messages
    BY DispatchedMessages DEF NodeType
  <2> QED BY <2>1, <2>2 DEF NoneAgain
<1>3. CASE before' = before /\ sent' = sent /\ unanswered' = unanswered /\ job' = job
  BY <1>1, <1>3 DEF NoneAgain
<1>4. CASE forwardBridgeMessage
  <2>1. before' = before /\ sent' = sent /\ unanswered' = unanswered
    BY <1>4 DEF forwardBridgeMessage
  <2>2. job' = job \/ (job' # NoJob => job'.simulated = FALSE)
    BY <1>4 DEF forwardBridgeMessage
  <2> QED BY <1>1, <2>1, <2>2 DEF NoneAgain
<1>5. CASE simulate
  <2>1. before' = before /\ sent' = sent /\ unanswered' = unanswered
    BY <1>5 DEF simulate
  <2>0. job # NoJob /\ TypeOK
    BY <1>5 DEF simulate, NodeType
  <2>3. job \in [event : Messages, signatures : SUBSET {Me},
                 attempt : 1 .. MaxAttempts, simulated : BOOLEAN]
    BY <2>0, JobInProgress
  <2>2. \/ job' = NoJob
        \/ job' # NoJob /\ job'.simulated = FALSE
        \/ job'.event = job.event /\ job.event \notin Dispatched
    BY <1>5, <2>3 DEF simulate, nextAttempt
  <2> QED BY <1>1, <2>1, <2>2 DEF NoneAgain
<1>6. CASE sendTransaction
  <2>0. job # NoJob /\ TypeOK /\ before' = before /\ (job.simulated \/ job.event.target \in Legacy)
    BY <1>6 DEF sendTransaction, NodeType
  <2>3. /\ job \in [event : Messages, signatures : SUBSET {Me},
                    attempt : 1 .. MaxAttempts, simulated : BOOLEAN]
        /\ job.event \in Messages
    BY <2>0, JobInProgress
  <2>4. CASE sent' = [sent EXCEPT ![job.event] = @ + 1] /\ job' = NoJob /\ UNCHANGED unanswered
    <3>1. ASSUME NEW m \in before, m.target \notin Legacy PROVE sent'[m] = 0
      <4>1. m # job.event
        BY <2>0, <3>1 DEF NoneAgain
      <4>2. sent \in [Messages -> Nat] /\ before \subseteq Messages
        BY <2>0 DEF TypeOK
      <4> QED BY <4>1, <4>2, <2>4, <3>1 DEF NoneAgain
    <3> QED BY <3>1, <1>1, <2>0, <2>4 DEF NoneAgain
  <2>5. CASE nextAttempt /\ UNCHANGED sent /\ unanswered' \subseteq unanswered \cup {job.event}
    <3>1. job' = NoJob \/ job'.simulated = FALSE
      BY <2>3, <2>5 DEF nextAttempt
    <3>2. \A m \in before : m.target \notin Legacy => m # job.event
      BY <2>0 DEF NoneAgain
    <3> QED BY <3>1, <3>2, <1>1, <2>0, <2>5 DEF NoneAgain
  <2> QED BY <1>6, <2>4, <2>5 DEF sendTransaction
<1> QED
  BY <1>2, <1>3, <1>4, <1>5, <1>6
  DEF StepKinds, relay, mine, lose, ReadRelay, ReadDispatch, sync_historic_events, listen_events, MissRelay, MissDispatch,
      handle_bridge_message, listen_p2p, forwardEcho, loopBack, dispatch_message,
      vars, loopVars

\* A process all of whose chains simulate the call before they send it sends no
\* transaction for a message dispatched before it started: `call()` answers
\* AlreadyDispatched.  With legacy transactions it does, which MCNodeLegacy shows.
THEOREM NothingIsSentAgain ==
    ASSUME Legacy = {}
    PROVE  Spec => []NothingSentAgain
<1>1. NoneAgain => NothingSentAgain
  BY DEF NoneAgain, NothingSentAgain
<1> QED BY <1>1, TypeInit, TypeStep, NoneAgainInit, NoneAgainStep, PTL DEF Spec

-----------------------------------------------------------------------------
(* At most one answered submission of a message *)

\* A queued message is an echo of m, or the request to dispatch it.
Carries(q, m) == q.type # "Dispatched" /\ q.event = m

Has(s, m) == \E i \in 1 .. Len(s) : Carries(s[i], m)

Once(s, m) == \A i, j \in 1 .. Len(s) : Carries(s[i], m) /\ Carries(s[j], m) => i = j

AtMostOne(a, b, c, d, e, f) ==
    /\ a => ~(b \/ c \/ d \/ e \/ f)
    /\ b => ~(c \/ d \/ e \/ f)
    /\ c => ~(d \/ e \/ f)
    /\ d => ~(e \/ f)
    /\ e => ~f

InSome(m) == \E c \in Chains : Has(inbound[c], m)

\* A gateway's log holds messages of its own chain.
OwnLog == \A c \in AllChains : \A i \in 1 .. Len(relayLog[c]) : relayLog[c][i].source = c

\* On its way from the log to the target chain a message is in one place only,
\* and only if its nonce was noted by the task of its source chain.
OneCopy(m) ==
    /\ Once(bridge, m) /\ Once(outbound, m) /\ Once(echoes, m)
    /\ \A c \in Chains : Once(inbound[c], m) /\ (Has(inbound[c], m) => c = m.source)
    /\ sent[m] <= 1
    /\ AtMostOne(Has(bridge, m), Has(outbound, m), Has(echoes, m), InSome(m),
                 job.event = m, sent[m] # 0)
    /\ \/ Has(bridge, m) \/ Has(outbound, m) \/ Has(echoes, m) \/ InSome(m)
       \/ job.event = m \/ sent[m] # 0
       => m.source \in Chains /\ m.nonce \in relay_nonces[m.source]

CopyInv == OwnLog /\ \A m \in Messages : OneCopy(m)

\* Sending adds a copy of what is sent.
LEMMA SendCopy ==
    ASSUME NEW S, NEW s \in Seq(S), NEW e \in S, NEW m
    PROVE  /\ Has(Append(s, e), m) <=> Has(s, m) \/ Carries(e, m)
           /\ Once(s, m) /\ ~(Has(s, m) /\ Carries(e, m)) => Once(Append(s, e), m)
<1>1. /\ Append(s, e) \in Seq(S) /\ Len(Append(s, e)) = Len(s) + 1 /\ Len(s) \in Nat
      /\ \A i \in 1 .. Len(s) : Append(s, e)[i] = s[i]
      /\ Append(s, e)[Len(s) + 1] = e
  BY AppendProperties, LenProperties
<1>2. \A i \in 1 .. Len(s) + 1 : i \in 1 .. Len(s) \/ i = Len(s) + 1
  BY <1>1
<1>3. \A i \in 1 .. Len(s) : i \in 1 .. Len(s) + 1
  BY <1>1
<1>4. Len(s) + 1 \in 1 .. Len(s) + 1
  BY <1>1
<1>5. Has(Append(s, e), m) <=> Has(s, m) \/ Carries(e, m)
  BY <1>1, <1>2, <1>3, <1>4 DEF Has
<1>6. ASSUME Once(s, m), ~(Has(s, m) /\ Carries(e, m)) PROVE Once(Append(s, e), m)
  <2>1. SUFFICES ASSUME NEW i \in 1 .. Len(s) + 1, NEW j \in 1 .. Len(s) + 1,
                        Carries(Append(s, e)[i], m), Carries(Append(s, e)[j], m)
                 PROVE  i = j
    BY <1>1 DEF Once
  <2>2. CASE i \in 1 .. Len(s) /\ j \in 1 .. Len(s)
    BY <2>1, <2>2, <1>1, <1>6 DEF Once
  <2>3. CASE i \in 1 .. Len(s) /\ j = Len(s) + 1
    BY <2>1, <2>3, <1>1, <1>6 DEF Has
  <2>4. CASE j \in 1 .. Len(s) /\ i = Len(s) + 1
    BY <2>1, <2>4, <1>1, <1>6 DEF Has
  <2> QED BY <2>2, <2>3, <2>4, <1>2
<1> QED BY <1>5, <1>6

\* Receiving takes a copy out.
LEMMA ReceiveCopy ==
    ASSUME NEW S, NEW s \in Seq(S), s # << >>, NEW m, Once(s, m)
    PROVE  /\ Once(Tail(s), m)
           /\ Has(s, m) <=> Carries(Head(s), m) \/ Has(Tail(s), m)
           /\ ~(Carries(Head(s), m) /\ Has(Tail(s), m))
<1>1. /\ Tail(s) \in Seq(S) /\ Len(Tail(s)) = Len(s) - 1
      /\ \A i \in 1 .. Len(Tail(s)) : Tail(s)[i] = s[i + 1]
  BY HeadTailProperties
<1>2. Len(s) \in Nat \ {0} /\ Head(s) = s[1] /\ 1 \in 1 .. Len(s)
  BY <1>1, LenProperties, EmptySeq
<1>3. \A i \in 1 .. Len(Tail(s)) : i + 1 \in 1 .. Len(s) /\ i + 1 # 1 /\ i \in Int /\ Tail(s)[i] = s[i + 1]
  BY <1>1, <1>2
<1>4. \A i \in 1 .. Len(s) : i = 1 \/ (i - 1 \in 1 .. Len(Tail(s)) /\ (i - 1) + 1 = i)
  BY <1>1, <1>2
<1>5. Once(Tail(s), m)
  <2>1. SUFFICES ASSUME NEW i \in 1 .. Len(Tail(s)), NEW j \in 1 .. Len(Tail(s)),
                        Carries(Tail(s)[i], m), Carries(Tail(s)[j], m)
                 PROVE  i = j
    BY DEF Once
  <2>2. i + 1 = j + 1
    BY <2>1, <1>3 DEF Once
  <2> QED BY <2>2, <1>3
<1>6. Has(s, m) => Carries(Head(s), m) \/ Has(Tail(s), m)
  <2>1. SUFFICES ASSUME NEW i \in 1 .. Len(s), Carries(s[i], m), i # 1 PROVE Has(Tail(s), m)
    BY <1>2 DEF Has
  <2>2. i - 1 \in 1 .. Len(Tail(s)) /\ Tail(s)[i - 1] = s[i]
    BY <2>1, <1>3, <1>4
  <2> QED BY <2>1, <2>2 DEF Has
<1>7. Carries(Head(s), m) \/ Has(Tail(s), m) => Has(s, m)
  BY <1>2, <1>3 DEF Has
<1>8. ~(Carries(Head(s), m) /\ Has(Tail(s), m))
  BY <1>2, <1>3 DEF Has, Once
<1> QED BY <1>5, <1>6, <1>7, <1>8

\* An empty queue has no copy.
LEMMA EmptyCopy == \A m : ~Has(<< >>, m) /\ Once(<< >>, m)
<1>1. Len(<< >>) = 0
  OBVIOUS
<1> QED BY <1>1 DEF Has, Once

\* No message has been read.
LEMMA CopyInit == Init => CopyInv
<1> SUFFICES ASSUME Init PROVE CopyInv
  OBVIOUS
<1>1. OwnLog
  BY DEF Init, OwnLog
<1>2. ASSUME NEW m \in Messages PROVE OneCopy(m)
  <2>1. bridge = << >> /\ outbound = << >> /\ echoes = << >> /\ \A c \in Chains : inbound[c] = << >>
    BY DEF Init, Fresh
  <2>2. sent[m] = 0 /\ job.event # m
    BY MessageFields DEF Init, Fresh, NoJob
  <2> QED BY <2>1, <2>2, EmptyCopy DEF OneCopy, InSome, AtMostOne
<1> QED BY <1>1, <1>2 DEF CopyInv

\* The gateway appends messages of its own chain.
LEMMA OwnLogStep ==
    ASSUME NodeType, OwnLog, StepKinds \/ UNCHANGED vars
    PROVE  OwnLog'
<1>1. ASSUME NEW s \in AllChains, NEW t \in AllChains, relay(s, t) PROVE OwnLog'
  <2> DEFINE n == Len(SelectSeq(relayLog[s], LAMBDA m : m.target = t)) + 1
             m == [source |-> s, target |-> t, nonce |-> n]
  <2>1. m \in Messages /\ m.source = s
    BY <1>1 DEF Messages, relay
  <2>2. relayLog' = [relayLog EXCEPT ![s] = Append(@, m)]
    BY <1>1 DEF relay
  <2>3. relayLog \in [AllChains -> Seq(Messages)]
    BY DEF NodeType, TypeOK
  <2> HIDE DEF m
  <2>4. /\ Len(Append(relayLog[s], m)) = Len(relayLog[s]) + 1 /\ Len(relayLog[s]) \in Nat
        /\ \A i \in 1 .. Len(relayLog[s]) : Append(relayLog[s], m)[i] = relayLog[s][i]
        /\ Append(relayLog[s], m)[Len(relayLog[s]) + 1] = m
    BY <2>1, <2>3, AppendProperties, LenProperties
  <2>5. \A i \in 1 .. Len(relayLog[s]) + 1 : i \in 1 .. Len(relayLog[s]) \/ i = Len(relayLog[s]) + 1
    BY <2>4
  <2>6. \A i \in 1 .. Len(relayLog[s]) + 1 : Append(relayLog[s], m)[i].source = s
    BY <2>1, <2>4, <2>5 DEF OwnLog
  <2> QED BY <2>2, <2>3, <2>4, <2>6 DEF OwnLog
<1>2. CASE UNCHANGED relayLog
  BY <1>2 DEF OwnLog
<1> QED
  BY <1>1, <1>2
  DEF StepKinds, mine, lose, ReadRelay, ReadDispatch, sync_historic_events, listen_events, MissRelay, MissDispatch,
      handle_bridge_message, listen_p2p, forwardEcho, forwardBridgeMessage, loopBack,
      dispatch_message, simulate, sendTransaction, restart, vars, chainVars

\* A Relayed event is read: its echo is the first copy, or it is not made.
LEMMA CopyRead ==
    ASSUME NodeType, CopyInv, NEW c \in Chains, NEW m \in Messages,
           \/ ReadRelay(c) /\ relayPos[c] < Len(relayLog[c])
           \/ ReadDispatch(c) /\ dispatchPos[c] < Len(dispatchLog[c])
    PROVE  OneCopy(m)'
<1> DEFINE S == Echo \cup DispatchedNote \cup Dispatch
<1>0. /\ OneCopy(m) /\ bridge \in Seq(S) /\ c \in AllChains
      /\ relay_nonces \in [Chains -> SUBSET Nonces]
  BY ConstantTypes DEF NodeType, TypeOK, CopyInv
<1>1. CASE ReadRelay(c) /\ relayPos[c] < Len(relayLog[c])
  <2>1. PICK i \in 1 .. Len(relayLog[c]) : i = relayPos[c] + 1
    <3>1. relayPos[c] \in Nat /\ Len(relayLog[c]) \in Nat /\ relayPos[c] < Len(relayLog[c])
      BY <1>0, <1>1, LenProperties DEF NodeType, TypeOK
    <3>2. relayPos[c] + 1 \in 1 .. Len(relayLog[c])
      BY <3>1
    <3> QED BY <3>2
  <2>2. PICK x \in Messages : x = transform_log(relayLog[c][i]) /\ x.source = c
    <3>1. relayLog[c][i] \in Messages /\ relayLog[c][i].source = c
      BY <1>0, ElementOfSeq DEF NodeType, TypeOK, CopyInv, OwnLog
    <3> QED BY <3>1, TransformedMessage
  <2>3. UNCHANGED <<inbound, outbound, echoes, job, sent>> /\ handle_relay_event(c, x)
    BY <1>1, <2>1, <2>2 DEF ReadRelay, loopVars
  <2>4. CASE UNCHANGED <<relay_nonces, bridge>>
    BY <1>0, <2>3, <2>4 DEF OneCopy, InSome
  <2>5. CASE /\ x.nonce \notin relay_nonces[c]
             /\ relay_nonces' = [relay_nonces EXCEPT ![c] = @ \cup {x.nonce}]
             /\ bridge' = Append(bridge, [type |-> "Relay", event |-> x, signatures |-> {Me}])
    <3>1. PICK e \in S : e = [type |-> "Relay", event |-> x, signatures |-> {Me}]
      BY DEF Echo
    <3>2. /\ Has(bridge', m) <=> Has(bridge, m) \/ Carries(e, m)
          /\ Once(bridge, m) /\ ~(Has(bridge, m) /\ Carries(e, m)) => Once(bridge', m)
      <4> HIDE DEF S
      <4> QED BY <1>0, <2>5, <3>1, SendCopy
    <3>3. Carries(e, m) <=> m = x
      BY <3>1 DEF Carries
    <3>4. m.source \in Chains /\ m.nonce \in relay_nonces[m.source] => m.nonce \in relay_nonces'[m.source]
      BY <1>0, <2>5
    <3>5. m = x => m.source \in Chains /\ m.nonce \in relay_nonces'[m.source]
      BY <1>0, <2>2, <2>5
    <3>6. m = x => m.nonce \notin relay_nonces[m.source]
      BY <2>2, <2>5
    <3>7. InSome(m)' <=> InSome(m)
      BY <2>3 DEF InSome
    <3> QED BY <1>0, <2>3, <3>2, <3>3, <3>4, <3>5, <3>6, <3>7 DEF OneCopy, AtMostOne
  <2> QED BY <2>3, <2>2, <2>4, <2>5 DEF handle_relay_event
<1>2. CASE ReadDispatch(c) /\ dispatchPos[c] < Len(dispatchLog[c])
  <2>1. PICK x \in Messages : handle_dispatch_event(c, x)
    BY <1>0, <1>2, ElementOfSeq DEF NodeType, TypeOK, ReadDispatch
  <2>2. PICK e \in S : /\ e = [type |-> "Dispatched", chain_id |-> x.source, nonce |-> x.nonce]
                       /\ bridge' = Append(bridge, e)
    BY <2>1, MessageFields DEF handle_dispatch_event, DispatchedNote
  <2>3. (Has(bridge', m) <=> Has(bridge, m)) /\ Once(bridge', m)
    <3>1. ~Carries(e, m) /\ Once(bridge, m)
      BY <1>0, <2>2 DEF Carries, OneCopy
    <3> HIDE DEF S
    <3> QED BY <1>0, <2>2, <3>1, SendCopy
  <2> QED BY <1>0, <1>2, <2>3 DEF ReadDispatch, loopVars, OneCopy, InSome, AtMostOne
<1> QED BY <1>1, <1>2

\* An echo becomes the request to dispatch, or nothing.
LEMMA CopyMessage ==
    ASSUME NodeType, CopyInv, NEW c \in Chains, NEW m \in Messages, handle_bridge_message(c)
    PROVE  OneCopy(m)'
<1> DEFINE S == Echo \cup DispatchedNote \cup Dispatch
           T == Echo \cup DispatchedNote
           q == Head(inbound[c])
<1>0. /\ OneCopy(m) /\ bridge \in Seq(S) /\ inbound \in [Chains -> Seq(T)]
  BY DEF NodeType, TypeOK, CopyInv
<1>1. q \in T
  BY <1>0, ReceiveFromQueue DEF handle_bridge_message
<1>2. /\ Once(Tail(inbound[c]), m)
      /\ Has(inbound[c], m) <=> Carries(q, m) \/ Has(Tail(inbound[c]), m)
      /\ ~(Carries(q, m) /\ Has(Tail(inbound[c]), m))
  <2>1. inbound[c] # << >> /\ inbound[c] \in Seq(T) /\ Once(inbound[c], m)
    BY <1>0 DEF handle_bridge_message, OneCopy
  <2> HIDE DEF T
  <2> QED BY <2>1, <1>1, ReceiveCopy
<1>3. inbound' = [inbound EXCEPT ![c] = Tail(@)] /\ UNCHANGED <<relay_nonces, outbound, echoes, job, sent>>
  BY DEF handle_bridge_message, loopVars
<1>4. /\ \A d \in Chains : Once(inbound'[d], m) /\ (Has(inbound'[d], m) => Has(inbound[d], m))
      /\ InSome(m)' => InSome(m)
      /\ Carries(q, m) => InSome(m) /\ ~InSome(m)'
  <2>1. \A d \in Chains : inbound'[d] = IF d = c THEN Tail(inbound[c]) ELSE inbound[d]
    BY <1>0, <1>3
  <2>2. \A d \in Chains : Once(inbound'[d], m) /\ (Has(inbound'[d], m) => Has(inbound[d], m))
    BY <2>1, <1>0, <1>2 DEF OneCopy
  <2>3. InSome(m)' => InSome(m)
    BY <2>2 DEF InSome
  <2>4. Carries(q, m) => InSome(m) /\ ~InSome(m)'
    BY <2>1, <1>0, <1>2 DEF InSome, OneCopy
  <2> QED BY <2>2, <2>3, <2>4
<1>5. CASE bridge' = bridge
  BY <1>0, <1>3, <1>4, <1>5 DEF OneCopy, AtMostOne
<1>6. ASSUME NEW G \in SUBSET {Me}, q.type = "Relay", q.event \in Messages,
             bridge' = Append(bridge, [type |-> "Dispatch", event |-> q.event, signatures |-> G])
      PROVE  OneCopy(m)'
  <2>1. PICK e \in S : e = [type |-> "Dispatch", event |-> q.event, signatures |-> G]
    BY <1>6 DEF Dispatch
  <2>2. /\ Has(bridge', m) <=> Has(bridge, m) \/ Carries(e, m)
        /\ Once(bridge, m) /\ ~(Has(bridge, m) /\ Carries(e, m)) => Once(bridge', m)
    <3> HIDE DEF S
    <3> QED BY <1>0, <1>6, <2>1, SendCopy
  <2>3. Carries(e, m) <=> Carries(q, m)
    BY <1>6, <2>1 DEF Carries
  <2> QED BY <1>0, <1>3, <1>4, <2>2, <2>3 DEF OneCopy, AtMostOne
<1>7. CASE /\ q.type = "Dispatched" /\ bridge' = bridge
           /\ event_signatures' = [event_signatures EXCEPT ![c][q.nonce].dispatched = TRUE]
  BY <1>5, <1>7
<1>8. CASE q.type = "Relay" /\ handle_relay(c, q.event, q.signatures)
  <2>1. q.event \in Messages /\ q.signatures \in SUBSET {Me} /\ q.event.nonce \in Nonces
    BY <1>1, <1>8, KindOfMessage, MessageFields DEF Echo
  <2>2. PICK G : G = Collected(c, q.event, q.signatures)
    OBVIOUS
  <2>3. G \in SUBSET {Me}
    <3>1. event_signatures[c][q.event.nonce].signatures \in SUBSET {Me}
      BY <2>1 DEF NodeType, TypeOK
    <3> QED BY <3>1, <2>1, <2>2 DEF Collected
  <2>4. bridge' = bridge \/ bridge' = Append(bridge, [type |-> "Dispatch", event |-> q.event, signatures |-> G])
    BY <1>8, <2>2 DEF handle_relay
  <2> QED BY <1>5, <1>6, <1>8, <2>1, <2>3, <2>4
<1> QED BY <1>7, <1>8 DEF handle_bridge_message

\* The one copy moves from queue to queue, or is dropped.
LEMMA CopyEcho ==
    ASSUME NodeType, CopyInv, NEW m \in Messages, forwardEcho
    PROVE  OneCopy(m)'
<1> DEFINE T == Echo \cup DispatchedNote
           q == Head(echoes)
           c == q.event.source
<1>0. /\ OneCopy(m) /\ echoes \in Seq(Echo) /\ inbound \in [Chains -> Seq(T)]
  BY DEF NodeType, TypeOK, CopyInv
<1>1. q \in Echo /\ q \in T
  BY <1>0, ReceiveFromQueue DEF forwardEcho
<1>2. /\ echoes' = Tail(echoes) /\ Once(echoes', m)
      /\ Has(echoes, m) <=> Carries(q, m) \/ Has(echoes', m)
      /\ ~(Carries(q, m) /\ Has(echoes', m))
  <2>1. echoes # << >> /\ echoes' = Tail(echoes) /\ Once(echoes, m)
    BY <1>0 DEF forwardEcho, OneCopy
  <2> QED BY <1>0, <2>1, ReceiveCopy
<1>3. UNCHANGED <<relay_nonces, bridge, outbound, job, sent>>
  BY DEF forwardEcho, taskVars, loopVars
<1>4. Carries(q, m) <=> q.event = m
  BY <1>1 DEF Echo, Carries
<1>5. CASE inbound' = inbound
  BY <1>0, <1>2, <1>3, <1>5 DEF OneCopy, InSome, AtMostOne
<1>6. CASE c \in Chains /\ inbound' = [inbound EXCEPT ![c] = Append(@, q)]
  <2>1. /\ Has(Append(inbound[c], q), m) <=> Has(inbound[c], m) \/ Carries(q, m)
        /\ Once(inbound[c], m) /\ ~(Has(inbound[c], m) /\ Carries(q, m)) => Once(Append(inbound[c], q), m)
    <3>1. inbound[c] \in Seq(T)
      BY <1>0, <1>6
    <3> HIDE DEF T, c, q
    <3> QED BY <1>1, <3>1, SendCopy
  <2>2. \A d \in Chains : inbound'[d] = IF d = c THEN Append(inbound[c], q) ELSE inbound[d]
    BY <1>0, <1>6
  <2>3. Carries(q, m) => c = m.source
    BY <1>4
  <2>4. ~(InSome(m) /\ Has(echoes, m))
    BY <1>0 DEF OneCopy, AtMostOne
  <2> HIDE DEF c, q
  <2>5. Carries(q, m) => ~Has(inbound[c], m)
    BY <2>4, <1>2, <1>6 DEF InSome
  <2>6. \A d \in Chains : Once(inbound'[d], m) /\ (Has(inbound'[d], m) => d = m.source)
    BY <1>0, <2>1, <2>2, <2>3, <2>5 DEF OneCopy
  <2>7. InSome(m)' <=> InSome(m) \/ Carries(q, m)
    BY <1>6, <2>1, <2>2 DEF InSome
  <2> QED BY <1>0, <1>2, <1>3, <2>6, <2>7 DEF OneCopy, AtMostOne
<1> QED BY <1>5, <1>6 DEF forwardEcho

\* The routing loop moves the head of its queue on.
LEMMA CopyBridge ==
    ASSUME NodeType, CopyInv, NEW m \in Messages, forwardBridgeMessage
    PROVE  OneCopy(m)'
<1> DEFINE S == Echo \cup DispatchedNote \cup Dispatch
           T == Echo \cup DispatchedNote
           q == Head(bridge)
<1>0. /\ OneCopy(m) /\ bridge \in Seq(S) /\ outbound \in Seq(Echo) /\ inbound \in [Chains -> Seq(T)]
  BY DEF NodeType, TypeOK, CopyInv
<1>1. bridge # << >> /\ bridge' = Tail(bridge) /\ job = NoJob /\ UNCHANGED <<relay_nonces, echoes, sent>>
  BY DEF forwardBridgeMessage, taskVars
<1>2. q \in S
  BY <1>0, <1>1, ReceiveFromQueue
<1>3. /\ Once(bridge', m)
      /\ Has(bridge, m) <=> Carries(q, m) \/ Has(bridge', m)
      /\ ~(Carries(q, m) /\ Has(bridge', m))
  <2>1. Once(bridge, m)
    BY <1>0 DEF OneCopy
  <2> HIDE DEF S
  <2> QED BY <1>0, <1>1, <2>1, ReceiveCopy
<1>4. job.event # m
  BY <1>1, MessageFields DEF NoJob
<1>5. CASE q.type = "Relay" /\ outbound' = Append(outbound, q) /\ UNCHANGED <<inbound, job>>
  <2>1. q \in Echo
    BY <1>2, <1>5, KindOfMessage
  <2>2. /\ Has(outbound', m) <=> Has(outbound, m) \/ Carries(q, m)
        /\ Once(outbound, m) /\ ~(Has(outbound, m) /\ Carries(q, m)) => Once(outbound', m)
    <3> HIDE DEF q
    <3> QED BY <1>0, <1>5, <2>1, SendCopy
  <2> HIDE DEF q
  <2> QED BY <1>0, <1>1, <1>3, <1>5, <2>2 DEF OneCopy, InSome, AtMostOne
<1>6. CASE /\ q.type = "Dispatched" /\ UNCHANGED <<outbound, job>>
           /\ inbound' = IF q.chain_id \in Chains
                         THEN [inbound EXCEPT ![q.chain_id] = Append(@, q)] ELSE inbound
  <2>1. ~Carries(q, m)
    BY <1>6 DEF Carries
  <2>2. \A d \in Chains : Once(inbound'[d], m) /\ (Has(inbound'[d], m) <=> Has(inbound[d], m))
    <3>1. CASE inbound' = inbound
      BY <3>1, <1>0 DEF OneCopy
    <3>2. CASE q.chain_id \in Chains /\ inbound' = [inbound EXCEPT ![q.chain_id] = Append(@, q)]
      <4>1. PICK c \in Chains : c = q.chain_id
        BY <3>2
      <4>2. \A d \in Chains : inbound'[d] = IF d = c THEN Append(inbound[c], q) ELSE inbound[d]
        BY <1>0, <3>2, <4>1
      <4>3. q \in T /\ inbound[c] \in Seq(T) /\ Once(inbound[c], m)
        BY <1>0, <1>2, <1>6, KindOfMessage DEF OneCopy
      <4>4. (Has(Append(inbound[c], q), m) <=> Has(inbound[c], m)) /\ Once(Append(inbound[c], q), m)
        <5> HIDE DEF q, T
        <5> QED BY <2>1, <4>3, SendCopy
      <4> HIDE DEF q
      <4> QED BY <1>0, <4>2, <4>4 DEF OneCopy
    <3> QED BY <3>1, <3>2, <1>6
  <2>3. InSome(m)' <=> InSome(m)
    BY <2>2 DEF InSome
  <2> HIDE DEF q
  <2> QED BY <1>0, <1>1, <1>3, <1>6, <2>1, <2>2, <2>3 DEF OneCopy, AtMostOne
<1>7. CASE /\ q.type = "Dispatch" /\ UNCHANGED <<inbound, outbound>>
           /\ job' = IF q.event.target \in Chains
                     THEN [event |-> q.event, signatures |-> q.signatures,
                           attempt |-> 1, simulated |-> FALSE]
                     ELSE NoJob
  <2>1. job'.event = m => Carries(q, m)
    <3>1. CASE job' = NoJob
      BY <3>1, MessageFields DEF NoJob
    <3>2. CASE job'.event = q.event
      BY <3>2, <1>7 DEF Carries
    <3> QED BY <1>7, <3>1, <3>2
  <2> HIDE DEF q
  <2> QED BY <1>0, <1>1, <1>3, <1>4, <1>7, <2>1 DEF OneCopy, InSome, AtMostOne
<1> QED BY <1>5, <1>6, <1>7 DEF forwardBridgeMessage

\* The P2P loop hands a broadcast back.
LEMMA CopyLoopBack ==
    ASSUME NodeType, CopyInv, NEW m \in Messages, loopBack
    PROVE  OneCopy(m)'
<1> DEFINE q == Head(outbound)
<1>0. OneCopy(m) /\ echoes \in Seq(Echo) /\ outbound \in Seq(Echo)
  BY DEF NodeType, TypeOK, CopyInv
<1>1. /\ outbound # << >> /\ outbound' = Tail(outbound) /\ echoes' = Append(echoes, q)
      /\ UNCHANGED <<relay_nonces, inbound, bridge, job, sent>>
  BY DEF loopBack, taskVars, loopVars
<1>2. q \in Echo
  BY <1>0, <1>1, ReceiveFromQueue
<1>3. /\ Once(outbound', m)
      /\ Has(outbound, m) <=> Carries(q, m) \/ Has(outbound', m)
      /\ ~(Carries(q, m) /\ Has(outbound', m))
  <2>1. Once(outbound, m)
    BY <1>0 DEF OneCopy
  <2> QED BY <1>0, <1>1, <2>1, ReceiveCopy
<1> HIDE DEF q
<1>4. /\ Has(echoes', m) <=> Has(echoes, m) \/ Carries(q, m)
      /\ Once(echoes, m) /\ ~(Has(echoes, m) /\ Carries(q, m)) => Once(echoes', m)
  BY <1>0, <1>1, <1>2, SendCopy
<1> QED BY <1>0, <1>1, <1>3, <1>4 DEF OneCopy, InSome, AtMostOne

\* The job ends with the transaction sent, or without.
LEMMA CopyDispatching ==
    ASSUME NodeType, CopyInv, NEW m \in Messages, dispatch_message
    PROVE  OneCopy(m)'
<1>0. OneCopy(m) /\ sent \in [Messages -> Nat] /\ TypeOK /\ job # NoJob
  BY DEF NodeType, TypeOK, CopyInv, dispatch_message, simulate, sendTransaction
<1>1. /\ job \in [event : Messages, signatures : SUBSET {Me},
                  attempt : 1 .. MaxAttempts, simulated : BOOLEAN]
      /\ job.event \in Messages
  BY <1>0, JobInProgress
<1>2. UNCHANGED <<relay_nonces, inbound, bridge, outbound, echoes>>
  BY DEF dispatch_message, simulate, sendTransaction, taskVars
<1>3. NoJob.event # m
  BY MessageFields DEF NoJob
<1>4. CASE sent' = [sent EXCEPT ![job.event] = @ + 1] /\ job' = NoJob
  <2>1. CASE job.event = m
    <3>1. sent[m] = 0
      BY <1>0, <2>1 DEF OneCopy, AtMostOne
    <3>2. sent'[m] = 1
      BY <1>0, <1>4, <2>1, <3>1
    <3> QED BY <1>0, <1>2, <1>3, <1>4, <2>1, <3>2 DEF OneCopy, InSome, AtMostOne
  <2>2. CASE job.event # m
    <3>1. sent'[m] = sent[m]
      BY <1>0, <1>4, <2>2
    <3> QED BY <1>0, <1>2, <1>3, <1>4, <2>2, <3>1 DEF OneCopy, InSome, AtMostOne
  <2> QED BY <2>1, <2>2
<1>5. CASE sent' = sent /\ (job' = NoJob \/ job'.event = job.event)
  <2>1. job'.event = m => job.event = m
    BY <1>3, <1>5
  <2> QED BY <1>0, <1>2, <1>5, <2>1 DEF OneCopy, InSome, AtMostOne
<1>6. nextAttempt => job' = NoJob \/ job'.event = job.event
  BY <1>1 DEF nextAttempt
<1> QED BY <1>1, <1>4, <1>5, <1>6 DEF dispatch_message, simulate, sendTransaction

\* Every step leaves each message in one place at most.
LEMMA CopyStep == NodeType /\ CopyInv /\ [Next]_vars => CopyInv'
<1> SUFFICES ASSUME NodeType, CopyInv, StepKinds \/ UNCHANGED vars PROVE CopyInv'
  BY KindsOfStep
<1>1. OwnLog'
  BY OwnLogStep DEF CopyInv
<1>2. ASSUME NEW m \in Messages PROVE OneCopy(m)'
  <2>0. OneCopy(m)
    BY DEF CopyInv
  <2>1. CASE UNCHANGED <<bridge, outbound, echoes, inbound, sent, job, relay_nonces>>
    BY <2>0, <2>1 DEF OneCopy, InSome
  <2>2. CASE restart
    <3>1. bridge' = << >> /\ outbound' = << >> /\ echoes' = << >> /\ \A c \in Chains : inbound'[c] = << >>
      BY <2>2 DEF restart, Fresh
    <3>2. sent'[m] = 0 /\ job'.event # m
      BY <2>2, MessageFields DEF restart, Fresh, NoJob
    <3> QED BY <3>1, <3>2, EmptyCopy DEF OneCopy, InSome, AtMostOne
  <2>3. \/ UNCHANGED <<bridge, outbound, echoes, inbound, sent, job, relay_nonces>>
        \/ \E c \in Chains : \/ ReadRelay(c) /\ relayPos[c] < Len(relayLog[c])
                             \/ ReadDispatch(c) /\ dispatchPos[c] < Len(dispatchLog[c])
                             \/ handle_bridge_message(c)
        \/ forwardEcho \/ forwardBridgeMessage \/ loopBack \/ dispatch_message \/ restart
    BY DEF StepKinds, relay, mine, lose, sync_historic_events, listen_events, MissRelay, MissDispatch, listen_p2p,
           vars, taskVars, loopVars
  <2> QED
    BY <2>1, <2>2, <2>3, CopyRead, CopyMessage, CopyEcho, CopyBridge, CopyLoopBack, CopyDispatching
<1> QED BY <1>1, <1>2 DEF CopyInv

\* Between two starts a process stops submitting a message once a submission of it
\* has been answered, whatever the interleaving of its tasks, and however often the
\* replay and the stream read the event: send_transaction is repeated only after an
\* error, which may hide a submission.
THEOREM AnsweredAtMostOnce == Spec => []AnsweredOnce
<1>1. CopyInv => AnsweredOnce
  BY DEF CopyInv, OneCopy, AtMostOne, AnsweredOnce
<1> QED BY <1>1, TypeInit, TypeStep, CopyInit, CopyStep, PTL DEF Spec

-----------------------------------------------------------------------------
(* What a task takes to be dispatched *)

\* Some message of chain c with nonce n is dispatched.
Known(c, n) == \E m \in Dispatched : m.source = c /\ m.nonce = n

\* A note is true of some message, and everything else is signed.
ItemOk(q) == IF q.type = "Dispatched" THEN Known(q.chain_id, q.nonce) ELSE q.signatures = {Me}

QueueOk(s) == \A q \in ToSet(s) : ItemOk(q)

InboundOk(c) ==
    QueueOk(inbound[c]) /\ \A q \in ToSet(inbound[c]) : q.type = "Dispatched" => q.chain_id = c

\* An entry holds a message with its chain and nonce, or no signature.
EntryOk(c, n) ==
    LET e == event_signatures[c][n]
    IN  /\ e.dispatched => Known(c, n)
        /\ IF e.event = NoEvent THEN e.signatures = {} ELSE e.event.source = c /\ e.event.nonce = n

ItemsInv ==
    /\ QueueOk(bridge) /\ QueueOk(outbound) /\ QueueOk(echoes)
    /\ \A c \in Chains : InboundOk(c)
    /\ job # NoJob => job.signatures = {Me}
    /\ \A tx \in txs : tx.signatures = {Me}
    /\ \A c \in Chains, n \in Nonces : EntryOk(c, n)

\* The channels are empty.
LEMMA ItemsInit == Init => ItemsInv
<1> SUFFICES ASSUME Init PROVE ItemsInv
  OBVIOUS
<1>1. /\ bridge = << >> /\ outbound = << >> /\ echoes = << >> /\ txs = {} /\ job = NoJob
      /\ \A c \in Chains : inbound[c] = << >>
      /\ \A c \in Chains, n \in Nonces : event_signatures[c][n] = None
  BY DEF Init, Fresh
<1>2. \A c \in Chains, n \in Nonces : EntryOk(c, n)
  BY <1>1 DEF EntryOk, None
<1> QED BY <1>1, <1>2, EmptyQueue DEF ItemsInv, QueueOk, InboundOk

\* What is known stays known.
LEMMA KnownStays ==
    ASSUME NodeType, StepKinds \/ UNCHANGED vars
    PROVE  /\ \A c, n : Known(c, n) => Known(c, n)'
           /\ \A q : ItemOk(q) => ItemOk(q)'
<1>1. \A c, n : Known(c, n) => Known(c, n)'
  BY DispatchedGrows DEF Known
<1> QED BY <1>1 DEF ItemOk

\* A state all of whose queues, jobs and entries are those of before, or fewer.
LEMMA ItemsStay ==
    ASSUME NodeType, ItemsInv, StepKinds \/ UNCHANGED vars,
           UNCHANGED <<bridge, outbound, echoes, inbound, event_signatures>>,
           job' = NoJob \/ (job # NoJob /\ job'.signatures = job.signatures),
           \A tx \in txs' : tx \in txs \/ (job # NoJob /\ tx.signatures = job.signatures)
    PROVE  ItemsInv'
<1>0. (\A c, n : Known(c, n) => Known(c, n)') /\ (\A q : ItemOk(q) => ItemOk(q)')
  BY KnownStays
<1>2. QueueOk(bridge)' /\ QueueOk(outbound)' /\ QueueOk(echoes)'
  BY <1>0 DEF ItemsInv, QueueOk
<1>3. \A c \in Chains : InboundOk(c)'
  BY <1>0 DEF ItemsInv, QueueOk, InboundOk
<1>4. \A c \in Chains, n \in Nonces : EntryOk(c, n)'
  BY <1>0 DEF ItemsInv, EntryOk
<1>5. (job' # NoJob => job'.signatures = {Me}) /\ \A tx \in txs' : tx.signatures = {Me}
  BY DEF ItemsInv
<1> QED BY <1>2, <1>3, <1>4, <1>5 DEF ItemsInv

\* A task reads an event: its echo is signed, and its note is true.
LEMMA ItemsRead ==
    ASSUME NodeType, ItemsInv, StepKinds, NEW c \in Chains,
           \/ ReadRelay(c) /\ relayPos[c] < Len(relayLog[c])
           \/ ReadDispatch(c) /\ dispatchPos[c] < Len(dispatchLog[c])
    PROVE  ItemsInv'
<1> DEFINE S == Echo \cup DispatchedNote \cup Dispatch
<1>0. (\A d, n : Known(d, n) => Known(d, n)') /\ (\A q : ItemOk(q) => ItemOk(q)')
  BY KnownStays
<1>1. UNCHANGED <<txs, outbound, echoes, inbound, event_signatures, job>> /\ bridge \in Seq(S)
  BY DEF ReadRelay, ReadDispatch, chainVars, loopVars, NodeType, TypeOK
<1>2. CASE UNCHANGED bridge
  <2>1. job' = NoJob \/ (job # NoJob /\ job'.signatures = job.signatures)
    BY <1>1
  <2>2. \A tx \in txs' : tx \in txs
    BY <1>1
  <2> QED BY <1>1, <1>2, <2>1, <2>2, ItemsStay
<1>3. ASSUME NEW e \in S, ItemOk(e), bridge' = Append(bridge, e) PROVE ItemsInv'
  <2>1. ToSet(bridge') = ToSet(bridge) \cup {e}
    <3> HIDE DEF S
    <3> QED BY <1>1, <1>3, SendToQueue
  <2>2. QueueOk(bridge)'
    BY <1>0, <1>3, <2>1 DEF QueueOk, ItemsInv
  <2>3. QueueOk(outbound)' /\ QueueOk(echoes)' /\ \A d \in Chains : InboundOk(d)'
    BY <1>0, <1>1 DEF QueueOk, InboundOk, ItemsInv
  <2>4. \A d \in Chains, n \in Nonces : EntryOk(d, n)'
    BY <1>0, <1>1 DEF EntryOk, ItemsInv
  <2> QED BY <1>1, <2>2, <2>3, <2>4 DEF ItemsInv
<1>4. CASE ReadRelay(c) /\ relayPos[c] < Len(relayLog[c])
  <2>1. PICK x \in Messages : handle_relay_event(c, x)
    <3>1. transform_log(relayLog[c][relayPos[c] + 1]) \in Messages
      BY <1>4, ConstantTypes, ElementOfSeq, TransformedMessage DEF NodeType, TypeOK
    <3> QED BY <1>4, <3>1 DEF ReadRelay
  <2>2. PICK e : e = [type |-> "Relay", event |-> x, signatures |-> {Me}]
    OBVIOUS
  <2>3. e \in S /\ ItemOk(e)
    BY <2>2 DEF Echo, ItemOk
  <2>4. UNCHANGED bridge \/ bridge' = Append(bridge, e)
    BY <2>1, <2>2 DEF handle_relay_event
  <2> HIDE DEF S
  <2> QED BY <1>2, <1>3, <2>3, <2>4
<1>5. CASE ReadDispatch(c) /\ dispatchPos[c] < Len(dispatchLog[c])
  <2>0. c \in AllChains /\ dispatchLog[c] \in Seq(Messages)
    BY ConstantTypes DEF NodeType, TypeOK
  <2>1. dispatchPos[c] + 1 \in 1 .. Len(dispatchLog[c]) /\ DOMAIN dispatchLog[c] = 1 .. Len(dispatchLog[c])
    <3>1. dispatchPos[c] \in Nat /\ Len(dispatchLog[c]) \in Nat /\ dispatchPos[c] < Len(dispatchLog[c])
      BY <1>5, <2>0, LenProperties DEF NodeType
    <3> QED BY <2>0, <3>1, LenProperties
  <2>2. PICK x \in Messages : x \in Dispatched /\ handle_dispatch_event(c, x)
    <3>1. dispatchLog[c][dispatchPos[c] + 1] \in ToSet(dispatchLog[c])
      BY <2>1 DEF ToSet
    <3>2. dispatchLog[c][dispatchPos[c] + 1] \in Dispatched
      BY <3>1, <2>0 DEF Dispatched
    <3> QED BY <1>5, <2>0, <2>1, <3>2, ElementOfSeq DEF ReadDispatch
  <2>3. PICK e : e = [type |-> "Dispatched", chain_id |-> x.source, nonce |-> x.nonce]
    OBVIOUS
  <2>4. e \in S
    BY <2>3, MessageFields DEF DispatchedNote
  <2>5. ItemOk(e)
    BY <2>2, <2>3 DEF ItemOk, Known
  <2>6. bridge' = Append(bridge, e)
    BY <2>2, <2>3 DEF handle_dispatch_event
  <2> HIDE DEF S
  <2> QED BY <1>3, <2>4, <2>5, <2>6
<1> QED BY <1>4, <1>5

\* A note makes an entry true, and a signed echo a signed request.
LEMMA ItemsMessage ==
    ASSUME NodeType, CopyInv, ItemsInv, StepKinds, NEW c \in Chains, handle_bridge_message(c)
    PROVE  ItemsInv'
<1> DEFINE Entry == [event : Messages \cup {NoEvent}, dispatched : BOOLEAN, signatures : SUBSET {Me}]
           S == Echo \cup DispatchedNote \cup Dispatch
           T == Echo \cup DispatchedNote
           q == Head(inbound[c])
<1>0. (\A d, n : Known(d, n) => Known(d, n)') /\ (\A r : ItemOk(r) => ItemOk(r)')
  BY KnownStays
<1>1. /\ UNCHANGED <<txs, outbound, echoes, job>> /\ bridge \in Seq(S)
      /\ inbound' = [inbound EXCEPT ![c] = Tail(@)] /\ inbound[c] # << >>
      /\ inbound \in [Chains -> Seq(T)] /\ event_signatures \in [Chains -> [Nonces -> Entry]]
  BY DEF handle_bridge_message, chainVars, loopVars, NodeType, TypeOK
<1>2. /\ q \in T /\ q \in ToSet(inbound[c]) /\ ToSet(Tail(inbound[c])) \subseteq ToSet(inbound[c])
  BY <1>1, ReceiveFromQueue
<1>3. QueueOk(outbound)' /\ QueueOk(echoes)' /\ \A d \in Chains : InboundOk(d)'
  <2>1. \A d \in Chains : ToSet(inbound'[d]) \subseteq ToSet(inbound[d])
    BY <1>1, <1>2
  <2> QED BY <1>0, <1>1, <2>1 DEF QueueOk, InboundOk, ItemsInv
<1>4. ItemOk(q) /\ (q.type = "Dispatched" => q.chain_id = c)
  BY <1>2 DEF ItemsInv, InboundOk, QueueOk
<1>5. CASE /\ q.type = "Dispatched" /\ bridge' = bridge
           /\ event_signatures' = [event_signatures EXCEPT ![c][q.nonce].dispatched = TRUE]
  <2>1. QueueOk(bridge)'
    BY <1>0, <1>5 DEF QueueOk, ItemsInv
  <2>2. PICK k \in Nonces : k = q.nonce /\ Known(c, k)
    BY <1>2, <1>4, <1>5, KindOfMessage DEF DispatchedNote, ItemOk
  <2>3. \A d \in Chains, n \in Nonces :
            event_signatures'[d][n] = IF d = c /\ n = k THEN [event_signatures[c][k] EXCEPT !.dispatched = TRUE]
                                      ELSE event_signatures[d][n]
    <3> HIDE DEF Entry
    <3> QED BY <1>1, <1>5, <2>2
  <2>4. \A d \in Chains, n \in Nonces : EntryOk(d, n)'
    <3>1. SUFFICES ASSUME NEW d \in Chains, NEW n \in Nonces PROVE EntryOk(d, n)'
      OBVIOUS
    <3>2. EntryOk(d, n)
      BY DEF ItemsInv
    <3>3. CASE d = c /\ n = k
      <4>0. PICK old \in Entry : old = event_signatures[d][n] /\ event_signatures'[d][n] = [old EXCEPT !.dispatched = TRUE]
        <5> HIDE DEF Entry
        <5> QED BY <1>1, <2>3, <3>3
      <4>1. event_signatures'[d][n].event = event_signatures[d][n].event
        BY <4>0
      <4>2. event_signatures'[d][n].signatures = event_signatures[d][n].signatures
        BY <4>0
      <4>3. Known(d, n)'
        BY <1>0, <2>2, <3>3
      <4> QED BY <3>2, <4>1, <4>2, <4>3 DEF EntryOk
    <3>4. CASE ~(d = c /\ n = k)
      BY <1>0, <2>3, <3>2, <3>4 DEF EntryOk
    <3> QED BY <3>3, <3>4
  <2> QED BY <1>1, <1>3, <2>1, <2>4 DEF ItemsInv
<1>6. CASE q.type = "Relay" /\ handle_relay(c, q.event, q.signatures)
  <2>1. q \in Echo
    BY <1>2, <1>6, KindOfMessage
  <2>2. PICK m \in Messages, k \in Nonces : m = q.event /\ k = m.nonce /\ m.source = c
    <3>1. q.event \in Messages
      BY <2>1 DEF Echo
    <3>2. Has(inbound[c], q.event)
      <4>1. PICK i \in DOMAIN inbound[c] : inbound[c][i] = q
        BY <1>2 DEF ToSet
      <4>2. DOMAIN inbound[c] = 1 .. Len(inbound[c])
        BY <1>1, LenProperties
      <4>3. Carries(q, q.event)
        BY <1>6 DEF Carries
      <4> HIDE DEF q
      <4> QED BY <4>1, <4>2, <4>3 DEF Has
    <3>3. q.event.source = c
      BY <3>1, <3>2 DEF CopyInv, OneCopy
    <3> QED BY <3>1, <3>3, MessageFields
  <2>3. PICK G : G = Collected(c, m, q.signatures)
    OBVIOUS
  <2>4. G \in SUBSET {Me}
    <3>1. event_signatures[c][m.nonce].signatures \in SUBSET {Me} /\ q.signatures \in SUBSET {Me}
      BY <1>1, <2>1, <2>2 DEF Echo
    <3> QED BY <3>1, <2>3 DEF Collected
  <2>5. QueueOk(bridge)'
    <3>1. CASE bridge' = bridge
      BY <1>0, <3>1 DEF QueueOk, ItemsInv
    <3>2. CASE G # {} /\ bridge' = Append(bridge, [type |-> "Dispatch", event |-> m, signatures |-> G])
      <4>1. PICK e \in S : e = [type |-> "Dispatch", event |-> m, signatures |-> G]
        BY <2>4 DEF Dispatch
      <4>2. G = {Me}
        BY <2>4, <3>2
      <4>3. ItemOk(e)
        BY <4>1, <4>2 DEF ItemOk
      <4>4. ToSet(bridge') = ToSet(bridge) \cup {e}
        <5> HIDE DEF S
        <5> QED BY <1>1, <3>2, <4>1, SendToQueue
      <4> QED BY <1>0, <4>3, <4>4 DEF QueueOk, ItemsInv
    <3> QED BY <1>6, <2>2, <2>3, <3>1, <3>2 DEF handle_relay
  <2>6. \A d \in Chains, n \in Nonces : EntryOk(d, n)'
    <3>1. CASE event_signatures' = event_signatures
      BY <1>0, <3>1 DEF EntryOk, ItemsInv
    <3>2. CASE event_signatures' = [event_signatures EXCEPT ![c][k].event = m, ![c][k].signatures = G]
      <4>1. SUFFICES ASSUME NEW d \in Chains, NEW n \in Nonces PROVE EntryOk(d, n)'
        OBVIOUS
      <4>2. EntryOk(d, n)
        BY DEF ItemsInv
      <4>3. event_signatures'[d][n] = IF d = c /\ n = k
                THEN [event_signatures[c][k] EXCEPT !.event = m, !.signatures = G]
                ELSE event_signatures[d][n]
        <5> HIDE DEF Entry
        <5> QED BY <1>1, <3>2
      <4>4. CASE d = c /\ n = k
        <5>1. event_signatures'[d][n].event = m
          BY <1>1, <4>3, <4>4
        <5>2. event_signatures'[d][n].dispatched = event_signatures[d][n].dispatched
          BY <1>1, <4>3, <4>4
        <5>3. m # NoEvent
          BY MessageFields
        <5> QED BY <1>0, <2>2, <4>2, <4>4, <5>1, <5>2, <5>3 DEF EntryOk
      <4>5. CASE ~(d = c /\ n = k)
        BY <1>0, <4>2, <4>3, <4>5 DEF EntryOk
      <4> QED BY <4>4, <4>5
    <3> QED BY <1>6, <2>2, <2>3, <3>1, <3>2 DEF handle_relay
  <2> QED BY <1>1, <1>3, <2>5, <2>6 DEF ItemsInv
<1> QED BY <1>5, <1>6 DEF handle_bridge_message

\* What is routed is what was queued.
LEMMA ItemsRouting ==
    ASSUME NodeType, ItemsInv, StepKinds, listen_p2p \/ loopBack
    PROVE  ItemsInv'
<1> DEFINE S == Echo \cup DispatchedNote \cup Dispatch
           T == Echo \cup DispatchedNote
<1>0. (\A d, n : Known(d, n) => Known(d, n)') /\ (\A r : ItemOk(r) => ItemOk(r)')
  BY KnownStays
<1>1. UNCHANGED <<txs, event_signatures>>
  BY DEF listen_p2p, forwardEcho, forwardBridgeMessage, loopBack, chainVars, taskVars
<1>2. \A d \in Chains, n \in Nonces : EntryOk(d, n)'
  BY <1>0, <1>1 DEF EntryOk, ItemsInv
<1>3. /\ bridge \in Seq(S) /\ outbound \in Seq(Echo) /\ echoes \in Seq(Echo)
      /\ inbound \in [Chains -> Seq(T)]
  BY DEF NodeType, TypeOK
<1>4. ASSUME NEW q \in T, NEW c \in Chains, ItemOk(q), q.type = "Dispatched" => q.chain_id = c,
             inbound' = [inbound EXCEPT ![c] = Append(@, q)]
      PROVE  \A d \in Chains : InboundOk(d)'
  <2>1. ToSet(Append(inbound[c], q)) = ToSet(inbound[c]) \cup {q}
    <3>1. inbound[c] \in Seq(T)
      BY <1>3
    <3> HIDE DEF T
    <3> QED BY <3>1, <1>4, SendToQueue
  <2>2. \A d \in Chains : inbound'[d] = IF d = c THEN Append(inbound[c], q) ELSE inbound[d]
    BY <1>3, <1>4
  <2>3. \A d \in Chains : \A r \in ToSet(inbound'[d]) : r \in ToSet(inbound[d]) \/ (d = c /\ r = q)
    BY <2>1, <2>2
  <2> QED BY <1>0, <1>4, <2>3 DEF InboundOk, QueueOk, ItemsInv
<1>5. (UNCHANGED inbound) => \A d \in Chains : InboundOk(d)'
  BY <1>0 DEF InboundOk, QueueOk, ItemsInv
<1>6. CASE forwardEcho
  <2> DEFINE q == Head(echoes)
             c == q.event.source
  <2>1. /\ q \in Echo /\ q \in ToSet(echoes) /\ ToSet(echoes') \subseteq ToSet(echoes)
        /\ UNCHANGED <<bridge, outbound, job>>
    BY <1>3, <1>6, ReceiveFromQueue DEF forwardEcho, loopVars
  <2>2. ItemOk(q) /\ q.type = "Relay"
    BY <2>1 DEF ItemsInv, QueueOk, Echo
  <2>3. \A d \in Chains : InboundOk(d)'
    <3>1. (UNCHANGED inbound) \/ (c \in Chains /\ inbound' = [inbound EXCEPT ![c] = Append(@, q)])
      BY <1>6 DEF forwardEcho
    <3> HIDE DEF c, q, T
    <3>2. q \in T
      BY <2>1 DEF T
    <3> QED BY <1>4, <1>5, <2>1, <2>2, <3>1, <3>2
  <2>4. QueueOk(bridge)' /\ QueueOk(outbound)' /\ QueueOk(echoes)'
    BY <1>0, <2>1 DEF QueueOk, ItemsInv
  <2> QED BY <1>1, <1>2, <2>1, <2>3, <2>4 DEF ItemsInv
<1>7. CASE forwardBridgeMessage
  <2> DEFINE q == Head(bridge)
  <2>1. q \in S /\ q \in ToSet(bridge) /\ ToSet(bridge') \subseteq ToSet(bridge) /\ UNCHANGED echoes
    BY <1>3, <1>7, ReceiveFromQueue DEF forwardBridgeMessage
  <2>2. ItemOk(q)
    BY <2>1 DEF ItemsInv, QueueOk
  <2>3. QueueOk(bridge)' /\ QueueOk(echoes)'
    BY <1>0, <2>1 DEF QueueOk, ItemsInv
  <2>4. CASE q.type = "Relay" /\ outbound' = Append(outbound, q) /\ UNCHANGED <<inbound, job>>
    <3>1. q \in Echo
      BY <2>1, <2>4, KindOfMessage
    <3>2. ToSet(outbound') = ToSet(outbound) \cup {q}
      <4> HIDE DEF q
      <4> QED BY <1>3, <2>4, <3>1, SendToQueue
    <3>3. QueueOk(outbound)'
      BY <1>0, <2>2, <3>2 DEF QueueOk, ItemsInv
    <3> QED BY <1>1, <1>2, <1>5, <2>3, <2>4, <3>3 DEF ItemsInv
  <2>5. CASE /\ q.type = "Dispatched" /\ UNCHANGED <<outbound, job>>
             /\ inbound' = IF q.chain_id \in Chains
                           THEN [inbound EXCEPT ![q.chain_id] = Append(@, q)] ELSE inbound
    <3>1. QueueOk(outbound)'
      BY <1>0, <2>5 DEF QueueOk, ItemsInv
    <3>2. q \in T
      BY <2>1, <2>5, KindOfMessage
    <3>3. \A d \in Chains : InboundOk(d)'
      <4>1. CASE q.chain_id \notin Chains
        BY <4>1, <2>5, <1>5
      <4>2. CASE q.chain_id \in Chains
        <5>1. PICK c \in Chains : c = q.chain_id
          BY <4>2
        <5>2. inbound' = [inbound EXCEPT ![c] = Append(@, q)]
          BY <5>1, <2>5
        <5> HIDE DEF q, T
        <5> QED BY <1>4, <2>2, <3>2, <5>1, <5>2
      <4> QED BY <4>1, <4>2
    <3> QED BY <1>1, <1>2, <2>3, <2>5, <3>1, <3>3 DEF ItemsInv
  <2>6. CASE /\ q.type = "Dispatch" /\ UNCHANGED <<inbound, outbound>>
             /\ job' = IF q.event.target \in Chains
                       THEN [event |-> q.event, signatures |-> q.signatures,
                             attempt |-> 1, simulated |-> FALSE]
                       ELSE NoJob
    <3>1. QueueOk(outbound)'
      BY <1>0, <2>6 DEF QueueOk, ItemsInv
    <3>2. q.signatures = {Me}
      BY <2>2, <2>6 DEF ItemOk
    <3>3. job' # NoJob => job'.signatures = {Me}
      BY <2>6, <3>2
    <3> QED BY <1>1, <1>2, <1>5, <2>3, <2>6, <3>1, <3>3 DEF ItemsInv
  <2> QED BY <1>7, <2>4, <2>5, <2>6 DEF forwardBridgeMessage
<1>8. CASE loopBack
  <2> DEFINE q == Head(outbound)
  <2>1. /\ q \in Echo /\ q \in ToSet(outbound) /\ ToSet(outbound') \subseteq ToSet(outbound)
        /\ echoes' = Append(echoes, q) /\ UNCHANGED <<inbound, bridge, job>>
    BY <1>3, <1>8, ReceiveFromQueue DEF loopBack, loopVars
  <2>2. ItemOk(q)
    BY <2>1 DEF ItemsInv, QueueOk
  <2> HIDE DEF q
  <2>3. ToSet(echoes') = ToSet(echoes) \cup {q}
    BY <1>3, <2>1, SendToQueue
  <2>4. QueueOk(bridge)' /\ QueueOk(outbound)' /\ QueueOk(echoes)'
    BY <1>0, <2>1, <2>2, <2>3 DEF QueueOk, ItemsInv
  <2> QED BY <1>1, <1>2, <1>5, <2>1, <2>4 DEF ItemsInv
<1> QED BY <1>6, <1>7, <1>8 DEF listen_p2p

\* Every step keeps the notes true and the other items signed.
LEMMA ItemsStep == NodeType /\ CopyInv /\ ItemsInv /\ [Next]_vars => ItemsInv'
<1> SUFFICES ASSUME NodeType, CopyInv, ItemsInv, StepKinds \/ UNCHANGED vars PROVE ItemsInv'
  BY KindsOfStep
<1>1. CASE /\ UNCHANGED <<bridge, outbound, echoes, inbound, event_signatures, job>>
           /\ txs' \subseteq txs
  <2>1. job' = NoJob \/ (job # NoJob /\ job'.signatures = job.signatures)
    BY <1>1
  <2> QED BY <1>1, <2>1, ItemsStay
<1>2. CASE dispatch_message
  <2>0. TypeOK /\ job # NoJob
    BY <1>2 DEF NodeType, dispatch_message, simulate, sendTransaction
  <2>1. job \in [event : Messages, signatures : SUBSET {Me},
                 attempt : 1 .. MaxAttempts, simulated : BOOLEAN]
    BY <2>0, JobInProgress
  <2>2. nextAttempt => job' = NoJob \/ job'.signatures = job.signatures
    BY <2>1 DEF nextAttempt
  <2>3. job' = NoJob \/ job'.signatures = job.signatures
    BY <1>2, <2>1, <2>2 DEF dispatch_message, simulate, sendTransaction
  <2>4. \A tx \in txs' : tx \in txs \/ tx.signatures = job.signatures
    BY <1>2 DEF dispatch_message, simulate, sendTransaction, chainVars
  <2>5. UNCHANGED <<bridge, outbound, echoes, inbound, event_signatures>>
    BY <1>2 DEF dispatch_message, simulate, sendTransaction, taskVars
  <2> QED BY <2>0, <2>3, <2>4, <2>5, ItemsStay
<1>3. CASE restart
  <2>1. /\ bridge' = << >> /\ outbound' = << >> /\ echoes' = << >> /\ txs' = txs /\ job' = NoJob
        /\ \A c \in Chains : inbound'[c] = << >>
        /\ \A c \in Chains, n \in Nonces : event_signatures'[c][n] = None
    BY <1>3 DEF restart, Fresh, chainVars
  <2>2. \A c \in Chains, n \in Nonces : EntryOk(c, n)'
    BY <2>1 DEF EntryOk, None
  <2> QED BY <2>1, <2>2, EmptyQueue DEF ItemsInv, QueueOk, InboundOk
<1>4. \/ /\ UNCHANGED <<bridge, outbound, echoes, inbound, event_signatures, job>>
         /\ txs' \subseteq txs
      \/ /\ StepKinds
         /\ \/ \E c \in Chains : \/ ReadRelay(c) /\ relayPos[c] < Len(relayLog[c])
                                 \/ ReadDispatch(c) /\ dispatchPos[c] < Len(dispatchLog[c])
                                 \/ handle_bridge_message(c)
            \/ listen_p2p \/ loopBack \/ dispatch_message \/ restart
  BY DEF StepKinds, relay, mine, lose, sync_historic_events, listen_events, MissRelay, MissDispatch,
         vars, chainVars, taskVars, loopVars
<1> QED
  BY <1>1, <1>2, <1>3, <1>4, ItemsRead, ItemsMessage, ItemsRouting

\* Every chain relays to one other chain at most.  relay_nonces and
\* event_signatures are keyed by the nonce alone, and nonces count per target.
TwoChains == \A s, t, u \in AllChains : s # t /\ s # u => t = u

\* Source and nonce then name a message.
LEMMA NonceNamesMessage ==
    ASSUME TwoChains, NEW m \in Messages, NEW x \in Messages,
           m.source = x.source, m.nonce = x.nonce
    PROVE  m = x
<1>1. m.source # m.target /\ x.source # x.target
  BY DEF Messages
<1>2. m.target = x.target
  BY <1>1, MessageFields DEF TwoChains
<1> QED BY <1>2, MessageFields

\* Known messages.
LEMMA KnownIsDispatched ==
    ASSUME NodeType, TwoChains, NEW m \in Messages, Known(m.source, m.nonce)
    PROVE  m \in Dispatched
<1>1. PICK x \in Dispatched : x.source = m.source /\ x.nonce = m.nonce
  BY DEF Known
<1>2. x \in Messages
  BY DispatchedMessages DEF NodeType
<1> QED BY <1>1, <1>2, NonceNamesMessage

-----------------------------------------------------------------------------
(* No message is lost *)

\* The message is somewhere between its log and its target chain.
Moving(m) ==
    \/ Has(bridge, m) \/ Has(outbound, m) \/ Has(echoes, m) \/ InSome(m)
    \/ \E tx \in txs : tx.event = m
    \/ job.event = m

Handled(m) == m \in Dispatched \/ Moving(m) \/ m \in givenUp \/ m \in lost

\* A nonce that a task has noted stands for a message that is taken care of.
NotedHandled ==
    \A m \in Messages :
        m.source \in Chains /\ m.target \in Chains /\ m.nonce \in relay_nonces[m.source]
            => Handled(m)

\* A task has noted a message, knows it to be dispatched, or has passed it over.
Noted(c, m) == m.nonce \in relay_nonces[c] \/ Known(c, m.nonce) \/ m \in missed

\* This is so of every message that lies behind the task of its chain.
ReadNoted ==
    \A c \in replayed : \A i \in 1 .. relayPos[c] : Noted(c, transform_log(relayLog[c][i]))

\* The two ways to say where a message is.
LEMMA MovingTravels ==
    ASSUME NodeType, NEW m \in Messages, Moving(m)
    PROVE  m \in Travelling
<1>1. ASSUME NEW S, NEW s \in Seq(S), Has(s, m)
      PROVE  \E q \in ToSet(s) : q.type # "Dispatched" /\ q.event = m
  <2>1. PICK i \in 1 .. Len(s) : Carries(s[i], m)
    BY <1>1 DEF Has
  <2>2. s[i] \in ToSet(s)
    BY LenProperties DEF ToSet
  <2> QED BY <2>1, <2>2 DEF Carries
<1>2. /\ bridge \in Seq(Echo \cup DispatchedNote \cup Dispatch)
      /\ outbound \in Seq(Echo) /\ echoes \in Seq(Echo)
      /\ inbound \in [Chains -> Seq(Echo \cup DispatchedNote)]
  BY DEF NodeType, TypeOK
<1>3. CASE Has(bridge, m)
  <2>1. PICK q \in ToSet(bridge) : q.type # "Dispatched" /\ q.event = m
    BY <1>1, <1>2, <1>3
  <2> QED BY <2>1 DEF Travelling
<1>4. CASE Has(outbound, m)
  <2>1. PICK q \in ToSet(outbound) : q.event = m
    BY <1>1, <1>2, <1>4
  <2> QED BY <2>1 DEF Travelling
<1>5. CASE Has(echoes, m)
  <2>1. PICK q \in ToSet(echoes) : q.event = m
    BY <1>1, <1>2, <1>5
  <2> QED BY <2>1 DEF Travelling
<1>6. CASE InSome(m)
  <2>1. PICK c \in Chains : Has(inbound[c], m)
    BY <1>6 DEF InSome
  <2>2. inbound[c] \in Seq(Echo \cup DispatchedNote)
    BY <1>2
  <2>3. PICK q \in ToSet(inbound[c]) : q.type # "Dispatched" /\ q.event = m
    BY <1>1, <2>1, <2>2
  <2>4. q \in Echo \cup DispatchedNote
    BY <2>2, LenProperties DEF ToSet
  <2>5. q.type = "Relay"
    BY <2>3, <2>4 DEF Echo, DispatchedNote
  <2>6. m \in {p.event : p \in {r \in ToSet(inbound[c]) : r.type = "Relay"}}
    BY <2>3, <2>5
  <2> QED BY <2>6 DEF Travelling
<1>7. CASE \E tx \in txs : tx.event = m
  <2>1. PICK tx \in txs : tx.event = m
    BY <1>7
  <2> QED BY <2>1 DEF Travelling
<1>8. CASE job.event = m
  <2>1. m \in {x \in Messages : job.event = x}
    BY <1>8
  <2>2. {x \in Messages : job.event = x} \subseteq Travelling
    BY DEF Travelling
  <2> QED BY <2>1, <2>2
<1> QED BY <1>3, <1>4, <1>5, <1>6, <1>7, <1>8 DEF Moving

\* One signature is a supermajority of one validator, for the process and for the
\* gateway.
LEMMA LoneValidator ==
    ASSUME Validators = {Me}
    PROVE  Valid({Me}) /\ has_supermajority(Cardinality({Me}))
<1>0. Me \in Nat /\ Me # 0 /\ Cardinality({Me}) = 1
  BY NodeAssumption, FS_Singleton
<1>1. has_supermajority(Cardinality({Me}))
  BY <1>0 DEF has_supermajority
<1>2. PICK s : s = into_ordered_signatures({Me})
  OBVIOUS
<1>3. s \in [1 .. 1 -> {Me}]
  <2>1. PICK f : f = [i \in 1 .. 1 |-> Me]
    OBVIOUS
  <2>2. f \in [1 .. Cardinality({Me}) -> {Me}]
    BY <1>0, <2>1
  <2>3. Len(f) = 1
    BY <2>1
  <2>4. Ascending(f)
    BY <2>3 DEF Ascending
  <2> QED BY <1>0, <1>2, <2>2, <2>4 DEF into_ordered_signatures
<1>4. s = <<Me>> /\ Len(s) = 1 /\ s[1] = Me
  BY <1>3
<1>5. Rejected({Me}, s) = {}
  <2>1. checkSigner({Me}, s, 1) = "ok"
    BY <1>0, <1>4 DEF checkSigner, lastSigner
  <2>2. \A i \in 1 .. Len(s) : i = 1
    BY <1>4
  <2> QED BY <2>1, <2>2 DEF Rejected
<1>6. isSupermajority({Me}, Len(s))
  BY <1>0, <1>4 DEF isSupermajority
<1>7. Accepts({Me}, s)
  BY <1>5, <1>6 DEF Accepts, validateSignaturesWithSupermajority
<1> QED BY <1>1, <1>2, <1>7 DEF Valid

\* What the leader does with the echo of a message to a configured chain: it asks
\* for its dispatch, or knows it to be dispatched.
LEMMA HandledMessage ==
    ASSUME NodeType, CopyInv, ItemsInv, TwoChains, Validators = {Me}, is_leader,
           NEW m \in Messages, Moving(m), NEW c \in Chains, handle_bridge_message(c)
    PROVE  Handled(m)'
<1> DEFINE S == Echo \cup DispatchedNote \cup Dispatch
           T == Echo \cup DispatchedNote
           q == Head(inbound[c])
<1>0. /\ OneCopy(m) /\ bridge \in Seq(S) /\ inbound \in [Chains -> Seq(T)]
  BY DEF NodeType, TypeOK, CopyInv
<1>1. /\ inbound[c] # << >> /\ inbound' = [inbound EXCEPT ![c] = Tail(@)]
      /\ UNCHANGED <<outbound, echoes, txs, job>>
  BY DEF handle_bridge_message, chainVars, loopVars
<1>2. q \in T /\ q \in ToSet(inbound[c])
  BY <1>0, <1>1, ReceiveFromQueue
<1>3. Has(inbound[c], m) <=> Carries(q, m) \/ Has(Tail(inbound[c]), m)
  <2>1. inbound[c] \in Seq(T) /\ Once(inbound[c], m)
    BY <1>0 DEF OneCopy
  <2> HIDE DEF T
  <2> QED BY <1>1, <2>1, ReceiveCopy
<1>4. InSome(m) => Carries(q, m) \/ InSome(m)'
  <2>1. \A d \in Chains : inbound'[d] = IF d = c THEN Tail(inbound[c]) ELSE inbound[d]
    BY <1>0, <1>1
  <2> QED BY <1>3, <2>1 DEF InSome
<1>5. Has(bridge, m) => Has(bridge', m)
  <2>1. \A e \in S : Has(bridge, m) => Has(Append(bridge, e), m)
    <3> HIDE DEF S
    <3> QED BY <1>0, SendCopy
  <2>2. CASE bridge' = bridge
    BY <2>2
  <2>3. CASE q.type = "Relay" /\ handle_relay(c, q.event, q.signatures)
    <3>1. q.event \in Messages /\ q.signatures \in SUBSET {Me} /\ q.event.nonce \in Nonces
      BY <1>2, <2>3, KindOfMessage, MessageFields DEF Echo
    <3>2. PICK G : G = Collected(c, q.event, q.signatures)
      OBVIOUS
    <3>3. G \in SUBSET {Me}
      <4>1. event_signatures[c][q.event.nonce].signatures \in SUBSET {Me}
        BY <3>1 DEF NodeType, TypeOK
      <4> QED BY <3>1, <3>2, <4>1 DEF Collected
    <3>4. PICK e \in S : e = [type |-> "Dispatch", event |-> q.event, signatures |-> G]
      BY <3>1, <3>3 DEF Dispatch
    <3>5. bridge' = bridge \/ bridge' = Append(bridge, e)
      BY <2>3, <3>2, <3>4 DEF handle_relay
    <3> QED BY <2>1, <3>4, <3>5
  <2>4. CASE /\ q.type = "Dispatched" /\ bridge' = bridge
             /\ event_signatures' = [event_signatures EXCEPT ![c][q.nonce].dispatched = TRUE]
    BY <2>4
  <2> QED BY <2>3, <2>4 DEF handle_bridge_message
<1>6. CASE ~Carries(q, m)
  BY <1>1, <1>4, <1>5, <1>6 DEF Moving, Handled
<1>7. CASE Carries(q, m)
  <2>1. q.type = "Relay" /\ q.event = m /\ m.nonce \in Nonces
    BY <1>2, <1>7, MessageFields DEF Carries, Echo, DispatchedNote
  <2>2. m.source = c
    <3>1. Has(inbound[c], m)
      BY <1>3, <1>7
    <3> QED BY <1>0, <3>1 DEF OneCopy
  <2>3. q.signatures = {Me}
    BY <1>2, <2>1 DEF ItemsInv, InboundOk, QueueOk, ItemOk
  <2>4. handle_relay(c, q.event, q.signatures)
    BY <2>1 DEF handle_bridge_message
  <2>5. PICK old : old = event_signatures[c][m.nonce]
    OBVIOUS
  <2>6. /\ old \in [event : Messages \cup {NoEvent}, dispatched : BOOLEAN, signatures : SUBSET {Me}]
        /\ EntryOk(c, m.nonce)
    BY <2>1, <2>5 DEF NodeType, TypeOK, ItemsInv
  <2>7. CASE old = None \/ old.event = m
    <3>1. Collected(c, m, {Me}) = {Me}
      BY <2>5, <2>6, <2>7 DEF Collected
    <3>2. PICK e \in S : e = [type |-> "Dispatch", event |-> m, signatures |-> {Me}]
      BY DEF Dispatch
    <3>3. bridge' = Append(bridge, e)
      BY <2>1, <2>3, <2>4, <3>1, <3>2, LoneValidator DEF handle_relay
    <3>4. Carries(e, m)
      BY <3>2 DEF Carries
    <3>5. Has(bridge', m)
      <4> HIDE DEF S
      <4> QED BY <1>0, <3>3, <3>4, SendCopy
    <3> QED BY <3>5 DEF Handled, Moving
  <2>8. CASE ~(old = None \/ old.event = m)
    <3>1. Known(m.source, m.nonce)
      <4>1. CASE old.event = NoEvent
        <5>1. old.signatures = {}
          BY <2>5, <2>6, <4>1 DEF EntryOk
        <5>2. old.dispatched
          BY <2>6, <2>8, <4>1, <5>1 DEF None
        <5> QED BY <2>2, <2>5, <2>6, <5>2 DEF EntryOk
      <4>2. CASE old.event # NoEvent
        <5>1. old.event \in Messages /\ old.event.source = c /\ old.event.nonce = m.nonce
          BY <2>5, <2>6, <4>2 DEF EntryOk
        <5> QED BY <2>2, <2>8, <5>1, NonceNamesMessage
      <4> QED BY <4>1, <4>2
    <3>2. m \in Dispatched
      BY <3>1, KnownIsDispatched
    <3>3. Dispatched' = Dispatched
      BY DEF handle_bridge_message, chainVars, Dispatched
    <3> QED BY <3>2, <3>3 DEF Handled
  <2> QED BY <2>7, <2>8
<1> QED BY <1>6, <1>7

\* The loops pass on what they take, and do not drop what is for a configured
\* chain.
LEMMA HandledRouting ==
    ASSUME NodeType, CopyInv, NEW m \in Messages, m.target \in Chains, Moving(m),
           listen_p2p \/ loopBack
    PROVE  Moving(m)'
<1> DEFINE S == Echo \cup DispatchedNote \cup Dispatch
           T == Echo \cup DispatchedNote
<1>0. /\ OneCopy(m) /\ bridge \in Seq(S) /\ inbound \in [Chains -> Seq(T)]
      /\ outbound \in Seq(Echo) /\ echoes \in Seq(Echo)
  BY DEF NodeType, TypeOK, CopyInv
<1>1. UNCHANGED txs
  BY DEF listen_p2p, forwardEcho, forwardBridgeMessage, loopBack, chainVars
<1>2. ASSUME NEW q \in T, NEW c \in Chains, inbound' = [inbound EXCEPT ![c] = Append(@, q)]
      PROVE  InSome(m)' <=> InSome(m) \/ Carries(q, m)
  <2>1. inbound[c] \in Seq(T)
    BY <1>0
  <2>2. Has(Append(inbound[c], q), m) <=> Has(inbound[c], m) \/ Carries(q, m)
    <3> HIDE DEF T
    <3> QED BY <1>2, <2>1, SendCopy
  <2>3. \A d \in Chains : inbound'[d] = IF d = c THEN Append(inbound[c], q) ELSE inbound[d]
    BY <1>0, <1>2
  <2> QED BY <1>2, <2>2, <2>3 DEF InSome
<1>3. (UNCHANGED inbound) => (InSome(m)' <=> InSome(m))
  BY DEF InSome
<1>4. CASE forwardEcho
  <2> DEFINE q == Head(echoes)
             c == q.event.source
  <2>1. /\ q \in Echo /\ echoes # << >> /\ echoes' = Tail(echoes)
        /\ UNCHANGED <<bridge, outbound, job>>
    BY <1>0, <1>4, ReceiveFromQueue DEF forwardEcho, loopVars
  <2>2. Has(echoes, m) <=> Carries(q, m) \/ Has(echoes', m)
    <3>1. Once(echoes, m)
      BY <1>0 DEF OneCopy
    <3> QED BY <1>0, <2>1, <3>1, ReceiveCopy
  <2>3. Carries(q, m) => c \in Chains
    BY <1>0, <2>2 DEF OneCopy, Carries
  <2>4. (UNCHANGED inbound /\ c \notin Chains) \/ (c \in Chains /\ inbound' = [inbound EXCEPT ![c] = Append(@, q)])
    BY <1>4 DEF forwardEcho
  <2>5. q \in T
    BY <2>1
  <2> HIDE DEF q, c, T
  <2>6. InSome(m) \/ Carries(q, m) => InSome(m)'
    BY <1>2, <1>3, <2>3, <2>4, <2>5
  <2> QED BY <1>1, <2>1, <2>2, <2>6 DEF Moving
<1>5. CASE forwardBridgeMessage
  <2> DEFINE q == Head(bridge)
  <2>1. q \in S /\ bridge # << >> /\ bridge' = Tail(bridge) /\ job = NoJob /\ UNCHANGED echoes
    BY <1>0, <1>5, ReceiveFromQueue DEF forwardBridgeMessage
  <2>2. Has(bridge, m) <=> Carries(q, m) \/ Has(bridge', m)
    <3>1. Once(bridge, m)
      BY <1>0 DEF OneCopy
    <3> HIDE DEF S
    <3> QED BY <1>0, <2>1, <3>1, ReceiveCopy
  <2>3. job.event # m
    BY <2>1, MessageFields DEF NoJob
  <2>4. CASE q.type = "Relay" /\ outbound' = Append(outbound, q) /\ UNCHANGED <<inbound, job>>
    <3>1. q \in Echo
      BY <2>1, <2>4, KindOfMessage
    <3> HIDE DEF q
    <3>2. Has(outbound', m) <=> Has(outbound, m) \/ Carries(q, m)
      BY <1>0, <2>4, <3>1, SendCopy
    <3> QED BY <1>1, <1>3, <2>1, <2>2, <2>4, <3>2 DEF Moving
  <2>5. CASE /\ q.type = "Dispatched" /\ UNCHANGED <<outbound, job>>
             /\ inbound' = IF q.chain_id \in Chains
                           THEN [inbound EXCEPT ![q.chain_id] = Append(@, q)] ELSE inbound
    <3>1. q \in T /\ ~Carries(q, m)
      BY <2>1, <2>5, KindOfMessage DEF Carries
    <3>2. InSome(m)' <=> InSome(m)
      <4>1. CASE q.chain_id \notin Chains
        BY <4>1, <2>5, <1>3
      <4>2. CASE q.chain_id \in Chains
        <5>1. PICK c \in Chains : c = q.chain_id
          BY <4>2
        <5>2. inbound' = [inbound EXCEPT ![c] = Append(@, q)]
          BY <5>1, <2>5
        <5> HIDE DEF q, T
        <5> QED BY <1>2, <3>1, <5>2
      <4> QED BY <4>1, <4>2
    <3> HIDE DEF q
    <3> QED BY <1>1, <2>1, <2>2, <2>5, <3>1, <3>2 DEF Moving
  <2>6. CASE /\ q.type = "Dispatch" /\ UNCHANGED <<inbound, outbound>>
             /\ job' = IF q.event.target \in Chains
                       THEN [event |-> q.event, signatures |-> q.signatures,
                             attempt |-> 1, simulated |-> FALSE]
                       ELSE NoJob
    <3>1. Carries(q, m) => job'.event = m
      BY <2>6 DEF Carries
    <3> HIDE DEF q
    <3> QED BY <1>1, <1>3, <2>1, <2>2, <2>3, <2>6, <3>1 DEF Moving
  <2> QED BY <1>5, <2>4, <2>5, <2>6 DEF forwardBridgeMessage
<1>6. CASE loopBack
  <2> DEFINE q == Head(outbound)
  <2>1. /\ q \in Echo /\ outbound # << >> /\ outbound' = Tail(outbound)
        /\ echoes' = Append(echoes, q) /\ UNCHANGED <<inbound, bridge, job>>
    BY <1>0, <1>6, ReceiveFromQueue DEF loopBack, loopVars
  <2>2. Has(outbound, m) <=> Carries(q, m) \/ Has(outbound', m)
    <3>1. Once(outbound, m)
      BY <1>0 DEF OneCopy
    <3> QED BY <1>0, <2>1, <3>1, ReceiveCopy
  <2> HIDE DEF q
  <2>3. Has(echoes', m) <=> Has(echoes, m) \/ Carries(q, m)
    BY <1>0, <2>1, SendCopy
  <2> QED BY <1>1, <1>3, <2>1, <2>2, <2>3 DEF Moving
<1> QED BY <1>4, <1>5, <1>6 DEF listen_p2p

\* A message taken care of stays so until the next start.
LEMMA HandledStays ==
    ASSUME NodeType, CopyInv, ItemsInv, TwoChains, Validators = {Me}, is_leader,
           NEW m \in Messages, m.target \in Chains, Handled(m),
           StepKinds \/ UNCHANGED vars, ~restart
    PROVE  Handled(m)'
<1>0. Dispatched \subseteq Dispatched'
  BY DispatchedGrows
<1>1. givenUp \subseteq givenUp' /\ lost \subseteq lost'
  <2>1. nextAttempt => givenUp \subseteq givenUp'
    BY DEF nextAttempt
  <2> QED
    BY <2>1 DEF StepKinds, relay, mine, lose, ReadRelay, ReadDispatch, sync_historic_events,
        listen_events, MissRelay, MissDispatch, handle_bridge_message, listen_p2p, forwardEcho, forwardBridgeMessage,
        loopBack, dispatch_message, simulate, sendTransaction, vars, loopVars
<1>2. SUFFICES ASSUME Moving(m) PROVE Handled(m)'
  BY <1>0, <1>1 DEF Handled
<1>3. CASE UNCHANGED <<bridge, outbound, echoes, inbound, txs, job>>
  BY <1>2, <1>3 DEF Handled, Moving, InSome
<1>4. ASSUME NEW tx \in txs, mine(tx) PROVE Handled(m)'
  <2>1. Valid(tx.signatures)
    BY LoneValidator DEF ItemsInv
  <2>2. tx.event \in Dispatched'
    BY <1>4, <2>1, MiningDispatches
  <2>3. UNCHANGED <<bridge, outbound, echoes, inbound, job>> /\ txs' = txs \ {tx}
    BY <1>4 DEF mine, loopVars
  <2> QED BY <1>2, <2>2, <2>3 DEF Handled, Moving, InSome
<1>5. ASSUME NEW tx \in txs, lose(tx) PROVE Handled(m)'
  <2>1. UNCHANGED <<bridge, outbound, echoes, inbound, job>> /\ txs' = txs \ {tx} /\ tx.event \in lost'
    BY <1>5 DEF lose
  <2> QED BY <1>2, <2>1 DEF Handled, Moving, InSome
<1>6. ASSUME NEW c \in Chains,
             \/ ReadRelay(c) /\ relayPos[c] < Len(relayLog[c])
             \/ ReadDispatch(c) /\ dispatchPos[c] < Len(dispatchLog[c])
      PROVE  Handled(m)'
  <2>1. UNCHANGED <<outbound, echoes, inbound, txs, job>>
    BY <1>6 DEF ReadRelay, ReadDispatch, chainVars, loopVars
  <2>2. Has(bridge, m) => Has(bridge', m)
    <3> DEFINE S == Echo \cup DispatchedNote \cup Dispatch
    <3>1. bridge \in Seq(S) /\ c \in AllChains
      BY ConstantTypes DEF NodeType, TypeOK
    <3>2. \E x \in Messages : handle_relay_event(c, x) \/ handle_dispatch_event(c, x)
      <4>1. CASE ReadRelay(c) /\ relayPos[c] < Len(relayLog[c])
        <5>1. relayLog[c][relayPos[c] + 1] \in Messages
          BY <4>1, <3>1, ElementOfSeq DEF NodeType, TypeOK
        <5>2. transform_log(relayLog[c][relayPos[c] + 1]) \in Messages
          BY <5>1, TransformedMessage
        <5> QED BY <4>1, <5>2 DEF ReadRelay
      <4>2. CASE ReadDispatch(c) /\ dispatchPos[c] < Len(dispatchLog[c])
        <5>1. dispatchLog[c][dispatchPos[c] + 1] \in Messages
          BY <4>2, <3>1, ElementOfSeq DEF NodeType, TypeOK
        <5> QED BY <4>2, <5>1 DEF ReadDispatch
      <4> QED BY <1>6, <4>1, <4>2
    <3>3. PICK x \in Messages : handle_relay_event(c, x) \/ handle_dispatch_event(c, x)
      BY <3>2
    <3>4. bridge' = bridge \/ \E e \in S : bridge' = Append(bridge, e)
      <4>1. [type |-> "Relay", event |-> x, signatures |-> {Me}] \in S
        BY DEF Echo
      <4>2. [type |-> "Dispatched", chain_id |-> x.source, nonce |-> x.nonce] \in S
        BY MessageFields DEF DispatchedNote
      <4> HIDE DEF S
      <4> QED BY <3>3, <4>1, <4>2 DEF handle_relay_event, handle_dispatch_event
    <3> HIDE DEF S
    <3> QED BY <3>1, <3>4, SendCopy
  <2> QED BY <1>2, <2>1, <2>2 DEF Handled, Moving, InSome
<1>7. CASE listen_p2p \/ loopBack
  BY <1>2, <1>7, HandledRouting DEF Handled
<1>8. CASE dispatch_message
  <2>0. TypeOK /\ job # NoJob
    BY <1>8 DEF NodeType, dispatch_message, simulate, sendTransaction
  <2>1. job \in [event : Messages, signatures : SUBSET {Me},
                 attempt : 1 .. MaxAttempts, simulated : BOOLEAN]
    BY <2>0, JobInProgress
  <2>2. UNCHANGED <<bridge, outbound, echoes, inbound>> /\ txs \subseteq txs'
    BY <1>8 DEF dispatch_message, simulate, sendTransaction, chainVars
  <2>3. nextAttempt => job'.event = job.event \/ job.event \in givenUp'
    BY <2>1 DEF nextAttempt
  <2>4. \/ job'.event = job.event \/ job.event \in givenUp' \/ job.event \in Dispatched
        \/ \E tx \in txs' : tx.event = job.event
    <3>1. CASE simulate
      <4>1. CASE job' = [job EXCEPT !.simulated = TRUE]
        BY <2>1, <4>1
      <4> QED BY <2>3, <3>1, <4>1 DEF simulate
    <3>2. CASE sendTransaction
      <4>1. CASE txs' = txs \cup {[event |-> job.event, signatures |-> job.signatures]}
        <5>1. [event |-> job.event, signatures |-> job.signatures] \in txs'
          BY <4>1
        <5> QED BY <5>1
      <4> QED BY <2>3, <3>2, <4>1 DEF sendTransaction
    <3> QED BY <1>8, <3>1, <3>2 DEF dispatch_message
  <2>5. job.event = m => Handled(m)'
    BY <1>0, <2>4 DEF Handled, Moving
  <2>6. job.event # m => Handled(m)'
    BY <1>2, <2>2 DEF Handled, Moving, InSome
  <2> QED BY <2>5, <2>6
<1> QED
  BY <1>2, <1>3, <1>4, <1>5, <1>6, <1>7, <1>8, HandledMessage
  DEF StepKinds, relay, sync_historic_events, listen_events, MissRelay, MissDispatch, vars, chainVars, loopVars

\* Every step keeps handled what is noted.
LEMMA NotedStep ==
    ASSUME TwoChains, Validators = {Me}, is_leader
    PROVE  NodeType /\ CopyInv /\ ItemsInv /\ NotedHandled /\ [Next]_vars => NotedHandled'
<1> SUFFICES ASSUME NodeType, CopyInv, ItemsInv, NotedHandled, StepKinds \/ UNCHANGED vars
             PROVE  NotedHandled'
  BY KindsOfStep
<1>1. CASE restart
  <2>1. \A c \in Chains : relay_nonces'[c] = {}
    BY <1>1 DEF restart, Fresh
  <2> QED BY <2>1 DEF NotedHandled
<1>2. CASE ~restart
  <2>1. SUFFICES ASSUME NEW m \in Messages, m.source \in Chains, m.target \in Chains,
                        m.nonce \in relay_nonces'[m.source]
                 PROVE  Handled(m)'
    BY DEF NotedHandled
  <2>2. CASE m.nonce \in relay_nonces[m.source]
    <3>1. Handled(m)
      BY <2>1, <2>2 DEF NotedHandled
    <3> QED BY <1>2, <2>1, <3>1, HandledStays
  <2>3. CASE m.nonce \notin relay_nonces[m.source]
    <3>1. PICK c \in Chains : ReadRelay(c) /\ relayPos[c] < Len(relayLog[c])
      BY <1>2, <2>1, <2>3 DEF StepKinds, relay, mine, lose, ReadDispatch, sync_historic_events,
         listen_events, MissRelay, MissDispatch, handle_bridge_message, listen_p2p, forwardEcho, forwardBridgeMessage,
         loopBack, dispatch_message, simulate, sendTransaction, vars, taskVars
    <3>2. c \in AllChains /\ relayLog[c] \in Seq(Messages) /\ relay_nonces \in [Chains -> SUBSET Nonces]
      BY ConstantTypes DEF NodeType, TypeOK
    <3>3. relayPos[c] + 1 \in 1 .. Len(relayLog[c])
      <4>1. relayPos[c] \in Nat /\ Len(relayLog[c]) \in Nat /\ relayPos[c] < Len(relayLog[c])
        BY <3>1, <3>2, LenProperties DEF NodeType
      <4> QED BY <4>1
    <3>4. PICK x \in Messages : x = transform_log(relayLog[c][relayPos[c] + 1]) /\ x.source = c
      BY <3>2, <3>3, ElementOfSeq, TransformedMessage DEF CopyInv, OwnLog
    <3>5. handle_relay_event(c, x)
      BY <3>1, <3>4 DEF ReadRelay
    <3>6. /\ relay_nonces' = [relay_nonces EXCEPT ![c] = @ \cup {x.nonce}]
          /\ bridge' = Append(bridge, [type |-> "Relay", event |-> x, signatures |-> {Me}])
      BY <2>1, <2>3, <3>5 DEF handle_relay_event
    <3>7. m.source = c /\ m.nonce = x.nonce
      BY <2>1, <2>3, <3>2, <3>6
    <3>8. m = x
      BY <3>4, <3>7, NonceNamesMessage
    <3>9. Has(bridge', m)
      <4> DEFINE S == Echo \cup DispatchedNote \cup Dispatch
      <4>1. PICK e \in S : e = [type |-> "Relay", event |-> x, signatures |-> {Me}]
        BY DEF Echo
      <4>2. Carries(e, m) /\ bridge \in Seq(S)
        BY <3>8, <4>1 DEF Carries, NodeType, TypeOK
      <4> HIDE DEF S
      <4> QED BY <3>6, <4>1, <4>2, SendCopy
    <3> QED BY <3>9 DEF Handled, Moving
  <2> QED BY <2>2, <2>3
<1> QED BY <1>1, <1>2

\* What is noted stays so until the next start.
LEMMA NotedStays ==
    ASSUME NodeType, StepKinds \/ UNCHANGED vars, ~restart,
           NEW c \in Chains, NEW m \in Messages, Noted(c, m)
    PROVE  Noted(c, m)'
<1>1. Known(c, m.nonce) => Known(c, m.nonce)'
  BY KnownStays
<1>2. missed \subseteq missed'
  BY DEF StepKinds, relay, mine, lose, ReadRelay, ReadDispatch, MissRelay, MissDispatch,
         sync_historic_events, listen_events, handle_bridge_message, listen_p2p, forwardEcho,
         forwardBridgeMessage, loopBack, dispatch_message, simulate, sendTransaction, vars, loopVars
<1>3. relay_nonces[c] \subseteq relay_nonces'[c]
  <2>1. ASSUME NEW d \in Chains, ReadRelay(d) PROVE relay_nonces[c] \subseteq relay_nonces'[c]
    <3>1. relay_nonces \in [Chains -> SUBSET Nonces]
      BY DEF NodeType, TypeOK
    <3> QED BY <2>1, <3>1 DEF ReadRelay, handle_relay_event
  <2> QED
    BY <2>1 DEF StepKinds, relay, mine, lose, ReadDispatch, MissRelay, MissDispatch,
         sync_historic_events, listen_events, handle_bridge_message, listen_p2p, forwardEcho,
         forwardBridgeMessage, loopBack, dispatch_message, simulate, sendTransaction, vars, taskVars
<1> QED BY <1>1, <1>2, <1>3 DEF Noted

\* A log only grows.
LEMMA LogStays ==
    ASSUME NodeType, StepKinds \/ UNCHANGED vars, NEW c \in AllChains, NEW i \in 1 .. Len(relayLog[c])
    PROVE  relayLog'[c][i] = relayLog[c][i]
<1>1. ASSUME NEW s \in AllChains, NEW t \in AllChains, relay(s, t)
      PROVE  relayLog'[c][i] = relayLog[c][i]
  <2> DEFINE k == Len(SelectSeq(relayLog[s], LAMBDA m : m.target = t)) + 1
             x == [source |-> s, target |-> t, nonce |-> k]
  <2>1. x \in Messages /\ relayLog \in [AllChains -> Seq(Messages)]
    BY <1>1 DEF Messages, relay, NodeType, TypeOK
  <2>2. relayLog' = [relayLog EXCEPT ![s] = Append(@, x)]
    BY <1>1 DEF relay
  <2> HIDE DEF x
  <2>3. \A j \in 1 .. Len(relayLog[s]) : Append(relayLog[s], x)[j] = relayLog[s][j]
    BY <2>1, AppendProperties
  <2> QED BY <2>1, <2>2, <2>3
<1>2. CASE UNCHANGED relayLog
  BY <1>2
<1> QED
  BY <1>1, <1>2
  DEF StepKinds, mine, lose, ReadRelay, ReadDispatch, MissRelay, MissDispatch,
      sync_historic_events, listen_events, handle_bridge_message, listen_p2p, forwardEcho,
      forwardBridgeMessage, loopBack, dispatch_message, simulate, sendTransaction, restart,
      vars, chainVars

\* Every step notes what it reads, or passes over.
LEMMA ReadNotedStep == NodeType /\ ItemsInv /\ ReadNoted /\ [Next]_vars => ReadNoted'
<1> SUFFICES ASSUME NodeType, NodeType', ItemsInv, ReadNoted, StepKinds \/ UNCHANGED vars
             PROVE  ReadNoted'
  BY KindsOfStep, TypeStep DEF vars
<1>0. /\ replayed' = replayed /\ replayed \subseteq Chains /\ Chains \subseteq AllChains
      /\ relayPos \in [Chains -> Nat] /\ relay_nonces \in [Chains -> SUBSET Nonces]
      /\ relayLog \in [AllChains -> Seq(Messages)]
  <2>1. replayed' = replayed
    BY DEF StepKinds, relay, mine, lose, ReadRelay, ReadDispatch, sync_historic_events,
        listen_events, MissRelay, MissDispatch, handle_bridge_message, listen_p2p, forwardEcho, forwardBridgeMessage,
        loopBack, dispatch_message, simulate, sendTransaction, restart, vars, taskVars
  <2> QED BY <2>1, ConstantTypes DEF NodeType, TypeOK
<1>1. CASE restart
  <2>1. \A d \in replayed : relayPos'[d] = 0
    BY <1>0, <1>1 DEF restart, Fresh
  <2> QED BY <1>0, <2>1 DEF ReadNoted
<1>2. ASSUME ~restart, NEW c \in Chains, c \in replayed, NEW i \in 1 .. relayPos'[c],
             NEW x, x = transform_log(relayLog'[c][i])
      PROVE  Noted(c, x)'
  <2>0. /\ c \in AllChains /\ relayPos[c] \in 0 .. Len(relayLog[c]) /\ Len(relayLog[c]) \in Nat
        /\ relayPos'[c] \in Nat /\ i \in Nat /\ 1 <= i /\ i <= relayPos'[c]
    <3>1. relayPos'[c] \in Nat
      BY DEF NodeType
    <3> QED BY <1>0, <3>1, LenProperties DEF NodeType, TypeOK
  <2>1. CASE i \in 1 .. relayPos[c]
    <3>1. i \in 1 .. Len(relayLog[c])
      BY <2>0, <2>1
    <3>2. relayLog[c][i] \in Messages /\ relayLog'[c][i] = relayLog[c][i]
      BY <1>0, <2>0, <3>1, ElementOfSeq, LogStays
    <3>3. x \in Messages /\ Noted(c, x)
      BY <1>2, <2>1, <3>2, TransformedMessage DEF ReadNoted
    <3> QED BY <1>2, <3>3, NotedStays
  <2>2. CASE i \notin 1 .. relayPos[c]
    <3>0. relayPos[c] \in Nat /\ relayPos[c] < i
      BY <2>0, <2>2
    <3>1. relayPos'[c] # relayPos[c]
      BY <2>0, <3>0
    <3>2. \/ ReadRelay(c) /\ relayPos[c] < Len(relayLog[c])
          \/ MissRelay(c) /\ relayPos[c] < Len(relayLog[c])
          \/ listen_events(c)
      <4>1. PICK d \in Chains : \/ ReadRelay(d) /\ relayPos[d] < Len(relayLog[d])
                                \/ MissRelay(d) /\ relayPos[d] < Len(relayLog[d])
                                \/ listen_events(d)
        BY <1>2, <3>1
        DEF StepKinds, relay, mine, lose, ReadDispatch, sync_historic_events, MissDispatch,
            handle_bridge_message, listen_p2p, forwardEcho, forwardBridgeMessage, loopBack,
            dispatch_message, simulate, sendTransaction, vars, taskVars
      <4>2. \E r : relayPos' = [relayPos EXCEPT ![d] = r]
        BY <4>1 DEF ReadRelay, MissRelay, listen_events
      <4>3. d = c
        BY <1>0, <3>1, <4>2
      <4> QED BY <4>1, <4>3
    <3>3. relayLog' = relayLog
      BY <3>2 DEF ReadRelay, MissRelay, listen_events, chainVars
    <3>4. CASE ReadRelay(c) /\ relayPos[c] < Len(relayLog[c])
      <4>1. relayPos'[c] = relayPos[c] + 1
        BY <1>0, <3>4 DEF ReadRelay
      <4>2. i = relayPos[c] + 1 /\ i \in 1 .. Len(relayLog[c])
        BY <2>0, <3>0, <3>4, <4>1
      <4>3. relayLog[c][i] \in Messages
        BY <1>0, <2>0, <4>2, ElementOfSeq
      <4>4. x \in Messages /\ x.nonce \in Nonces /\ handle_relay_event(c, x)
        BY <1>2, <3>3, <3>4, <4>2, <4>3, TransformedMessage, MessageFields DEF ReadRelay
      <4>5. event_signatures[c][x.nonce].dispatched => Known(c, x.nonce)
        BY <4>4 DEF ItemsInv, EntryOk
      <4>6. x.nonce \in relay_nonces'[c] \/ Known(c, x.nonce)
        BY <1>0, <4>4, <4>5 DEF handle_relay_event
      <4>7. Known(c, x.nonce) => Known(c, x.nonce)'
        BY KnownStays
      <4> QED BY <4>6, <4>7 DEF Noted
    <3>5. CASE MissRelay(c) /\ relayPos[c] < Len(relayLog[c])
      <4>1. relayPos'[c] = relayPos[c] + 1
        BY <1>0, <3>5 DEF MissRelay
      <4>2. i \in relayPos[c] + 1 .. relayPos[c] + 1
        BY <2>0, <3>0, <4>1
      <4>3. x \in missed'
        BY <1>2, <3>3, <3>5, <4>2 DEF MissRelay, PassedOver
      <4> QED BY <4>3 DEF Noted
    <3>6. CASE listen_events(c)
      <4>1. PICK p : /\ relayPos' = [relayPos EXCEPT ![c] = p[1]]
                     /\ missed' = missed \cup PassedOver(c, p[1])
        BY <1>2, <3>6 DEF listen_events
      <4>2. relayPos'[c] = p[1]
        BY <1>0, <4>1
      <4>3. i \in relayPos[c] + 1 .. p[1]
        BY <2>0, <3>0, <4>2
      <4>4. x \in missed'
        BY <1>2, <3>3, <4>1, <4>3 DEF PassedOver
      <4> QED BY <4>4 DEF Noted
    <3> QED BY <3>2, <3>4, <3>5, <3>6
  <2> QED BY <2>1, <2>2
<1>3. ASSUME ~restart PROVE ReadNoted'
  <2> SUFFICES ASSUME NEW c \in replayed, NEW i \in 1 .. relayPos'[c]
               PROVE  Noted(c, transform_log(relayLog[c][i]))'
    BY <1>0 DEF ReadNoted
  <2>1. PICK x : x = transform_log(relayLog'[c][i])
    OBVIOUS
  <2>2. Noted(c, x)'
    BY <1>0, <1>2, <1>3, <2>1
  <2> QED BY <2>1, <2>2 DEF Noted
<1> QED BY <1>1, <1>3

\* With one other chain and as the only validator, the leader loses no message that
\* lies behind it, through restarts, failing RPC calls and any order of its tasks: it
\* is dispatched or on its way, unless a stream passed it over, MaxAttempts attempts
\* in a row have failed or its transaction was lost.  Both conditions are needed: a second validator's
\* signature never arrives, since p2p_node.rs hands a broadcast only to this
\* process (MCNodeQuorum), and with a third chain nonces collide (MCNodeNonces).
THEOREM NoRelayIsLost ==
    ASSUME TwoChains, Validators = {Me}
    PROVE  Spec => []NoRelayLost
<1>1. CASE is_leader
  <2>1. Init => NotedHandled /\ ReadNoted
    BY ConstantTypes DEF Init, Fresh, NotedHandled, ReadNoted
  <2>2. ASSUME NodeType, CopyInv, NotedHandled, ReadNoted PROVE NoRelayLost
    <3>1. SUFFICES ASSUME NEW c \in replayed, NEW i \in 1 .. relayPos[c],
                          transform_log(relayLog[c][i]).target \in Chains
                   PROVE  transform_log(relayLog[c][i]) \in
                              Dispatched \cup Travelling \cup givenUp \cup lost \cup missed
      BY DEF NoRelayLost
    <3>2. c \in Chains /\ c \in AllChains /\ relayPos[c] \in 0 .. Len(relayLog[c])
          /\ relayLog[c] \in Seq(Messages)
      BY <2>2, ConstantTypes DEF NodeType, TypeOK
    <3>3. i \in 1 .. Len(relayLog[c])
      <4>1. Len(relayLog[c]) \in Nat
        BY <3>2, LenProperties
      <4> QED BY <3>2, <4>1
    <3>4. PICK m \in Messages : m = transform_log(relayLog[c][i]) /\ m.source = c
      BY <2>2, <3>2, <3>3, ElementOfSeq, TransformedMessage DEF CopyInv, OwnLog
    <3>5. Handled(m) \/ m \in missed
      <4>1. CASE m.nonce \in relay_nonces[c]
        BY <2>2, <3>1, <3>2, <3>4, <4>1 DEF NotedHandled
      <4>2. CASE Known(c, m.nonce)
        BY <2>2, <3>4, <4>2, KnownIsDispatched DEF Handled
      <4> QED BY <2>2, <3>4, <4>1, <4>2 DEF ReadNoted, Noted
    <3> QED BY <2>2, <3>4, <3>5, MovingTravels DEF Handled
  <2>3. NodeType /\ CopyInv /\ ItemsInv /\ NotedHandled /\ [Next]_vars => NotedHandled'
    BY <1>1, NotedStep
  <2> QED
    BY <2>1, <2>2, <2>3, TypeInit, TypeStep, CopyInit, CopyStep, ItemsInit, ItemsStep,
       ReadNotedStep, PTL DEF Spec
<1>2. CASE ~is_leader
  <2>1. NoRelayLost
    BY <1>2 DEF NoRelayLost
  <2> QED BY <2>1, PTL
<1> QED BY <1>1, <1>2

-----------------------------------------------------------------------------
(* Only what was relayed, or replaces it, is signed, sent and dispatched *)

\* A queued item that is no note is about a message that was relayed, or replaces one.
Genuine(q) == q.type # "Dispatched" => q.event \in Issued

GenuineQueue(s) == \A q \in ToSet(s) : Genuine(q)

\* So is everything the process holds, has given up or has brought to a chain.
GenuineInv ==
    /\ GenuineQueue(bridge) /\ GenuineQueue(outbound) /\ GenuineQueue(echoes)
    /\ \A c \in Chains : GenuineQueue(inbound[c])
    /\ job # NoJob => job.event \in Issued
    /\ \A tx \in txs : tx.event \in Issued
    /\ UNION {unanswered, givenUp, lost, Dispatched} \subseteq Issued
    /\ \A c \in Chains, n \in Nonces : event_signatures[c][n].event \in Issued \cup {NoEvent}

\* Nothing is held, nothing dispatched.
LEMMA GenuineInit == Init => GenuineInv
<1> SUFFICES ASSUME Init PROVE GenuineInv
  OBVIOUS
<1>1. /\ bridge = << >> /\ outbound = << >> /\ echoes = << >> /\ txs = {} /\ job = NoJob
      /\ unanswered = {} /\ givenUp = {} /\ lost = {}
      /\ \A c \in Chains : inbound[c] = << >>
      /\ \A c \in AllChains : dispatchLog[c] = << >>
      /\ \A c \in Chains, n \in Nonces : event_signatures[c][n] = None
  BY DEF Init, Fresh
<1>2. Dispatched = {}
  BY <1>1, EmptyQueue DEF Dispatched
<1>3. \A c \in Chains, n \in Nonces : event_signatures[c][n].event = NoEvent
  BY <1>1 DEF None
<1> QED BY <1>1, <1>2, <1>3, EmptyQueue DEF GenuineInv, GenuineQueue

\* Only a gateway adds to what was relayed, a message at the end of its log.
LEMMA RelaysElsewhere ==
    ASSUME NodeType, StepKinds \/ UNCHANGED vars
    PROVE  \/ UNCHANGED <<relayLog, Issued>>
           \/ UNCHANGED dispatchLog /\ \E m \in Messages : Issued' = Issued \cup {m}
<1>1. CASE UNCHANGED relayLog
  BY <1>1 DEF Relayed, Issued
<1>2. ASSUME NEW s \in AllChains, NEW t \in AllChains, relay(s, t)
      PROVE  UNCHANGED dispatchLog /\ \E m \in Messages : Issued' = Issued \cup {m}
  <2> DEFINE m == [source |-> s, target |-> t,
                   nonce |-> Len(SelectSeq(relayLog[s], LAMBDA x : x.target = t)) + 1]
  <2>1. m \in Messages
    BY <1>2 DEF Messages, relay
  <2>2. relayLog' = [relayLog EXCEPT ![s] = Append(@, m)] /\ UNCHANGED dispatchLog
    BY <1>2 DEF relay
  <2>3. relayLog \in [AllChains -> Seq(Messages)]
    BY DEF NodeType, TypeOK
  <2> HIDE DEF m
  <2>4. ToSet(Append(relayLog[s], m)) = ToSet(relayLog[s]) \cup {m}
    BY <2>1, <2>3, SendToQueue
  <2>5. \A c \in AllChains : ToSet(relayLog'[c]) =
            IF c = s THEN ToSet(relayLog[c]) \cup {m} ELSE ToSet(relayLog[c])
    BY <2>2, <2>3, <2>4
  <2>6. Relayed' = Relayed \cup {m}
    BY <2>5 DEF Relayed
  <2>7. Issued' = Issued \cup {transform_log(m)} /\ transform_log(m) \in Messages
    BY <2>1, <2>6, TransformedMessage DEF Issued
  <2> QED BY <2>2, <2>7
<1> QED
  BY <1>1, <1>2
  DEF StepKinds, mine, lose, ReadRelay, ReadDispatch, sync_historic_events, listen_events, MissRelay, MissDispatch,
      handle_bridge_message, listen_p2p, forwardEcho, forwardBridgeMessage, loopBack,
      dispatch_message, simulate, sendTransaction, restart, vars, chainVars

\* What was relayed stays relayed.
LEMMA IssuedGrows ==
    ASSUME NodeType, StepKinds \/ UNCHANGED vars
    PROVE  Issued \subseteq Issued' /\ \A q : Genuine(q) => Genuine(q)'
<1>1. Issued \subseteq Issued'
  BY RelaysElsewhere
<1> QED BY <1>1 DEF Genuine

\* A step that brings no queue, job, transaction or entry an event it did not hold.
LEMMA GenuineStays ==
    ASSUME NodeType, GenuineInv, StepKinds \/ UNCHANGED vars,
           UNCHANGED <<bridge, outbound, echoes, inbound, event_signatures>>,
           job' = NoJob \/ (job # NoJob /\ job'.event = job.event),
           \A tx \in txs' : tx \in txs \/ (job # NoJob /\ tx.event = job.event),
           givenUp' \subseteq givenUp \cup {job.event}, givenUp' = givenUp \/ job # NoJob,
           unanswered' \subseteq unanswered \cup {job.event}, unanswered' = unanswered \/ job # NoJob,
           lost' \subseteq lost \cup {tx.event : tx \in txs}
    PROVE  GenuineInv'
<1>0. Issued \subseteq Issued' /\ \A q : Genuine(q) => Genuine(q)'
  BY IssuedGrows
<1>1. GenuineQueue(bridge)' /\ GenuineQueue(outbound)' /\ GenuineQueue(echoes)'
  BY <1>0 DEF GenuineInv, GenuineQueue
<1>2. \A c \in Chains : GenuineQueue(inbound[c])'
  BY <1>0 DEF GenuineInv, GenuineQueue
<1>3. \A c \in Chains, n \in Nonces : event_signatures'[c][n].event \in Issued' \cup {NoEvent}
  BY <1>0 DEF GenuineInv
<1>4. (job' # NoJob => job'.event \in Issued') /\ \A tx \in txs' : tx.event \in Issued'
  BY <1>0 DEF GenuineInv
<1>5. unanswered' \subseteq Issued' /\ givenUp' \subseteq Issued' /\ lost' \subseteq Issued'
  BY <1>0 DEF GenuineInv
<1>6. Dispatched' \subseteq Issued'
  <2>1. CASE \E tx \in txs : mine(tx)
    BY <1>0, <2>1, MiningDispatches DEF GenuineInv
  <2>2. CASE Dispatched' = Dispatched
    BY <1>0, <2>2 DEF GenuineInv
  <2> QED BY <2>1, <2>2, DispatchesElsewhere
<1> QED BY <1>1, <1>2, <1>3, <1>4, <1>5, <1>6 DEF GenuineInv

\* A task reads an event: what it signs is in the log of its chain, or replaces it.
LEMMA GenuineRead ==
    ASSUME NodeType, GenuineInv, StepKinds, NEW c \in Chains,
           \/ ReadRelay(c) /\ relayPos[c] < Len(relayLog[c])
           \/ ReadDispatch(c) /\ dispatchPos[c] < Len(dispatchLog[c])
    PROVE  GenuineQueue(bridge)'
<1> DEFINE S == Echo \cup DispatchedNote \cup Dispatch
<1>0. \A q : Genuine(q) => Genuine(q)'
  BY IssuedGrows
<1>1. bridge \in Seq(S) /\ c \in AllChains /\ GenuineQueue(bridge)
  BY ConstantTypes DEF NodeType, TypeOK, GenuineInv
<1>2. ASSUME NEW e \in S, Genuine(e), bridge' = Append(bridge, e) PROVE GenuineQueue(bridge)'
  <2> HIDE DEF S
  <2>1. ToSet(bridge') = ToSet(bridge) \cup {e}
    BY <1>1, <1>2, SendToQueue
  <2> QED BY <1>0, <1>1, <1>2, <2>1 DEF GenuineQueue
<1>3. CASE ReadRelay(c) /\ relayPos[c] < Len(relayLog[c])
  <2>1. PICK x \in Messages : x \in Issued /\ handle_relay_event(c, x)
    <3>1. relayPos[c] \in Nat /\ relayLog[c] \in Seq(Messages) /\ Len(relayLog[c]) \in Nat
      BY <1>1, LenProperties DEF NodeType, TypeOK
    <3>2. relayPos[c] + 1 \in 1 .. Len(relayLog[c]) /\ DOMAIN relayLog[c] = 1 .. Len(relayLog[c])
      BY <1>3, <3>1, LenProperties
    <3>3. relayLog[c][relayPos[c] + 1] \in ToSet(relayLog[c])
      BY <3>2 DEF ToSet
    <3>4. transform_log(relayLog[c][relayPos[c] + 1]) \in Issued
      BY <1>1, <3>3 DEF Relayed, Issued
    <3> QED BY <1>3, <3>1, <3>2, <3>4, ElementOfSeq, TransformedMessage DEF ReadRelay
  <2>2. PICK e : e = [type |-> "Relay", event |-> x, signatures |-> {Me}]
    OBVIOUS
  <2>3. e \in S /\ Genuine(e)
    BY <2>1, <2>2 DEF Echo, Genuine
  <2>4. UNCHANGED bridge \/ bridge' = Append(bridge, e)
    BY <2>1, <2>2 DEF handle_relay_event
  <2>5. (UNCHANGED bridge) => GenuineQueue(bridge)'
    BY <1>0, <1>1 DEF GenuineQueue
  <2> HIDE DEF S
  <2> QED BY <1>2, <2>3, <2>4, <2>5
<1>4. CASE ReadDispatch(c) /\ dispatchPos[c] < Len(dispatchLog[c])
  <2>1. PICK x \in Messages : handle_dispatch_event(c, x)
    <3>1. dispatchLog[c][dispatchPos[c] + 1] \in Messages
      BY <1>1, <1>4, ElementOfSeq DEF NodeType, TypeOK
    <3> QED BY <1>4, <3>1 DEF ReadDispatch
  <2>2. PICK e : e = [type |-> "Dispatched", chain_id |-> x.source, nonce |-> x.nonce]
    OBVIOUS
  <2>3. e \in S /\ Genuine(e)
    BY <2>2, MessageFields DEF DispatchedNote, Genuine
  <2>4. bridge' = Append(bridge, e)
    BY <2>1, <2>2 DEF handle_dispatch_event
  <2> HIDE DEF S
  <2> QED BY <1>2, <2>3, <2>4
<1> QED BY <1>3, <1>4

\* An echo becomes an entry and a request for the same message.
LEMMA GenuineMessage ==
    ASSUME NodeType, GenuineInv, StepKinds, NEW c \in Chains, handle_bridge_message(c)
    PROVE  /\ GenuineQueue(bridge)' /\ \A d \in Chains : GenuineQueue(inbound[d])'
           /\ \A d \in Chains, n \in Nonces : event_signatures'[d][n].event \in Issued' \cup {NoEvent}
<1> DEFINE Entry == [event : Messages \cup {NoEvent}, dispatched : BOOLEAN, signatures : SUBSET {Me}]
           S == Echo \cup DispatchedNote \cup Dispatch
           T == Echo \cup DispatchedNote
           q == Head(inbound[c])
<1>0. Issued \subseteq Issued' /\ \A r : Genuine(r) => Genuine(r)'
  BY IssuedGrows
<1>1. /\ bridge \in Seq(S) /\ inbound' = [inbound EXCEPT ![c] = Tail(@)] /\ inbound[c] # << >>
      /\ inbound \in [Chains -> Seq(T)] /\ event_signatures \in [Chains -> [Nonces -> Entry]]
  BY DEF handle_bridge_message, NodeType, TypeOK
<1>2. q \in T /\ q \in ToSet(inbound[c]) /\ ToSet(Tail(inbound[c])) \subseteq ToSet(inbound[c])
  BY <1>1, ReceiveFromQueue
<1>3. \A d \in Chains : GenuineQueue(inbound[d])'
  <2>1. \A d \in Chains : ToSet(inbound'[d]) \subseteq ToSet(inbound[d])
    BY <1>1, <1>2
  <2> QED BY <1>0, <2>1 DEF GenuineQueue, GenuineInv
<1>4. Genuine(q)
  BY <1>2 DEF GenuineInv, GenuineQueue
<1>5. (UNCHANGED bridge) => GenuineQueue(bridge)'
  BY <1>0 DEF GenuineQueue, GenuineInv
<1>6. \A d \in Chains, n \in Nonces : event_signatures[d][n].event \in Issued' \cup {NoEvent}
  BY <1>0 DEF GenuineInv
<1>7. CASE /\ q.type = "Dispatched" /\ bridge' = bridge
           /\ event_signatures' = [event_signatures EXCEPT ![c][q.nonce].dispatched = TRUE]
  <2>1. \A d \in Chains, n \in Nonces : event_signatures'[d][n].event = event_signatures[d][n].event
    BY <1>1, <1>7
  <2> QED BY <1>3, <1>5, <1>6, <1>7, <2>1
<1>8. CASE q.type = "Relay" /\ handle_relay(c, q.event, q.signatures)
  <2>1. PICK m \in Messages, k \in Nonces : m = q.event /\ k = m.nonce /\ m \in Issued
    <3>1. q \in Echo
      BY <1>2, <1>8, KindOfMessage
    <3>2. q.event \in Messages /\ q.event \in Issued
      BY <1>4, <1>8, <3>1 DEF Echo, Genuine
    <3> QED BY <3>2, MessageFields
  <2>2. PICK G : G = Collected(c, m, q.signatures)
    OBVIOUS
  <2>3. G \in SUBSET {Me}
    <3>1. event_signatures[c][m.nonce].signatures \in SUBSET {Me} /\ q.signatures \in SUBSET {Me}
      BY <1>1, <1>2, <1>8, <2>1, KindOfMessage DEF Echo
    <3> QED BY <3>1, <2>2 DEF Collected
  <2>4. GenuineQueue(bridge)'
    <3>1. ASSUME bridge' = Append(bridge, [type |-> "Dispatch", event |-> m, signatures |-> G])
          PROVE  GenuineQueue(bridge)'
      <4>1. PICK e \in S : e = [type |-> "Dispatch", event |-> m, signatures |-> G]
        BY <2>3 DEF Dispatch
      <4>2. Genuine(e)
        BY <2>1, <4>1 DEF Genuine
      <4>3. ToSet(bridge') = ToSet(bridge) \cup {e}
        <5> HIDE DEF S
        <5> QED BY <1>1, <3>1, <4>1, SendToQueue
      <4> QED BY <1>0, <4>2, <4>3 DEF GenuineQueue, GenuineInv
    <3> QED BY <1>5, <1>8, <2>1, <2>2, <3>1 DEF handle_relay
  <2>5. \A d \in Chains, n \in Nonces : event_signatures'[d][n].event \in Issued' \cup {NoEvent}
    <3>1. CASE event_signatures' = event_signatures
      BY <1>6, <3>1
    <3>2. CASE event_signatures' = [event_signatures EXCEPT ![c][k].event = m, ![c][k].signatures = G]
      <4>1. \A d \in Chains, n \in Nonces : event_signatures'[d][n].event =
                IF d = c /\ n = k THEN m ELSE event_signatures[d][n].event
        BY <1>1, <3>2
      <4> QED BY <1>0, <1>6, <2>1, <4>1
    <3> QED BY <1>8, <2>1, <2>2, <3>1, <3>2 DEF handle_relay
  <2> QED BY <1>3, <2>4, <2>5
<1> QED BY <1>7, <1>8 DEF handle_bridge_message

\* What is routed is what was queued.
LEMMA GenuineRouting ==
    ASSUME NodeType, GenuineInv, StepKinds, listen_p2p \/ loopBack
    PROVE  /\ GenuineQueue(bridge)' /\ GenuineQueue(outbound)' /\ GenuineQueue(echoes)'
           /\ \A d \in Chains : GenuineQueue(inbound[d])'
           /\ job' # NoJob => job'.event \in Issued'
<1> DEFINE S == Echo \cup DispatchedNote \cup Dispatch
           T == Echo \cup DispatchedNote
<1>0. Issued \subseteq Issued' /\ \A r : Genuine(r) => Genuine(r)'
  BY IssuedGrows
<1>1. /\ bridge \in Seq(S) /\ outbound \in Seq(Echo) /\ echoes \in Seq(Echo)
      /\ inbound \in [Chains -> Seq(T)]
  BY DEF NodeType, TypeOK
<1>2. ASSUME NEW q \in T, NEW c \in Chains, Genuine(q), inbound' = [inbound EXCEPT ![c] = Append(@, q)]
      PROVE  \A d \in Chains : GenuineQueue(inbound[d])'
  <2>1. ToSet(Append(inbound[c], q)) = ToSet(inbound[c]) \cup {q}
    <3>1. inbound[c] \in Seq(T)
      BY <1>1
    <3> HIDE DEF T
    <3> QED BY <3>1, <1>2, SendToQueue
  <2>2. \A d \in Chains : inbound'[d] = IF d = c THEN Append(inbound[c], q) ELSE inbound[d]
    BY <1>1, <1>2
  <2>3. \A d \in Chains : \A r \in ToSet(inbound'[d]) : r \in ToSet(inbound[d]) \/ r = q
    BY <2>1, <2>2
  <2> QED BY <1>0, <1>2, <2>3 DEF GenuineQueue, GenuineInv
<1>3. /\ (UNCHANGED inbound) => \A d \in Chains : GenuineQueue(inbound[d])'
      /\ (UNCHANGED job) => (job' # NoJob => job'.event \in Issued')
      /\ ToSet(bridge') \subseteq ToSet(bridge) => GenuineQueue(bridge)'
      /\ ToSet(outbound') \subseteq ToSet(outbound) => GenuineQueue(outbound)'
      /\ ToSet(echoes') \subseteq ToSet(echoes) => GenuineQueue(echoes)'
  BY <1>0 DEF GenuineQueue, GenuineInv
<1>4. CASE forwardEcho
  <2> DEFINE q == Head(echoes)
             c == q.event.source
  <2>1. /\ q \in Echo /\ q \in ToSet(echoes) /\ ToSet(echoes') \subseteq ToSet(echoes)
        /\ UNCHANGED <<bridge, outbound, job>>
    BY <1>1, <1>4, ReceiveFromQueue DEF forwardEcho, loopVars
  <2>2. Genuine(q)
    BY <2>1 DEF GenuineInv, GenuineQueue
  <2>3. \A d \in Chains : GenuineQueue(inbound[d])'
    <3>1. (UNCHANGED inbound) \/ (c \in Chains /\ inbound' = [inbound EXCEPT ![c] = Append(@, q)])
      BY <1>4 DEF forwardEcho
    <3> HIDE DEF c, q, T
    <3>2. q \in T
      BY <2>1 DEF T
    <3> QED BY <1>2, <1>3, <2>2, <3>1, <3>2
  <2> QED BY <1>3, <2>1, <2>3
<1>5. CASE forwardBridgeMessage
  <2> DEFINE q == Head(bridge)
  <2>1. q \in S /\ q \in ToSet(bridge) /\ ToSet(bridge') \subseteq ToSet(bridge) /\ UNCHANGED echoes
    BY <1>1, <1>5, ReceiveFromQueue DEF forwardBridgeMessage
  <2>2. Genuine(q)
    BY <2>1 DEF GenuineInv, GenuineQueue
  <2>3. CASE q.type = "Relay" /\ outbound' = Append(outbound, q) /\ UNCHANGED <<inbound, job>>
    <3>1. q \in Echo
      BY <2>1, <2>3, KindOfMessage
    <3>2. ToSet(outbound') = ToSet(outbound) \cup {q}
      <4> HIDE DEF q
      <4> QED BY <1>1, <2>3, <3>1, SendToQueue
    <3>3. GenuineQueue(outbound)'
      BY <1>0, <2>2, <3>2 DEF GenuineQueue, GenuineInv
    <3> QED BY <1>3, <2>1, <2>3, <3>3
  <2>4. CASE /\ q.type = "Dispatched" /\ UNCHANGED <<outbound, job>>
             /\ inbound' = IF q.chain_id \in Chains
                           THEN [inbound EXCEPT ![q.chain_id] = Append(@, q)] ELSE inbound
    <3>1. q \in T
      BY <2>1, <2>4, KindOfMessage
    <3>2. \A d \in Chains : GenuineQueue(inbound[d])'
      <4>1. CASE q.chain_id \notin Chains
        BY <4>1, <2>4, <1>3
      <4>2. CASE q.chain_id \in Chains
        <5>1. PICK c \in Chains : c = q.chain_id
          BY <4>2
        <5>2. inbound' = [inbound EXCEPT ![c] = Append(@, q)]
          BY <5>1, <2>4
        <5> HIDE DEF q, T
        <5> QED BY <1>2, <2>2, <3>1, <5>2
      <4> QED BY <4>1, <4>2
    <3> QED BY <1>3, <2>1, <2>4, <3>2
  <2>5. CASE /\ q.type = "Dispatch" /\ UNCHANGED <<inbound, outbound>>
             /\ job' = IF q.event.target \in Chains
                       THEN [event |-> q.event, signatures |-> q.signatures,
                             attempt |-> 1, simulated |-> FALSE]
                       ELSE NoJob
    <3>1. q.event \in Issued
      BY <2>2, <2>5 DEF Genuine
    <3>2. job' # NoJob => job'.event \in Issued'
      BY <1>0, <2>5, <3>1
    <3> QED BY <1>3, <2>1, <2>5, <3>2
  <2> QED BY <1>5, <2>3, <2>4, <2>5 DEF forwardBridgeMessage
<1>6. CASE loopBack
  <2> DEFINE q == Head(outbound)
  <2>1. /\ q \in Echo /\ q \in ToSet(outbound) /\ ToSet(outbound') \subseteq ToSet(outbound)
        /\ echoes' = Append(echoes, q) /\ UNCHANGED <<inbound, bridge, job>>
    BY <1>1, <1>6, ReceiveFromQueue DEF loopBack, loopVars
  <2>2. Genuine(q)
    BY <2>1 DEF GenuineInv, GenuineQueue
  <2> HIDE DEF q
  <2>3. ToSet(echoes') = ToSet(echoes) \cup {q}
    BY <1>1, <2>1, SendToQueue
  <2>4. GenuineQueue(echoes)'
    BY <1>0, <2>2, <2>3 DEF GenuineQueue, GenuineInv
  <2> QED BY <1>3, <2>1, <2>4
<1> QED BY <1>4, <1>5, <1>6 DEF listen_p2p

\* Every step keeps what is held genuine.
LEMMA GenuineStep == NodeType /\ GenuineInv /\ [Next]_vars => GenuineInv'
<1> SUFFICES ASSUME NodeType, GenuineInv, StepKinds \/ UNCHANGED vars PROVE GenuineInv'
  BY KindsOfStep
<1>0. Issued \subseteq Issued' /\ \A q : Genuine(q) => Genuine(q)'
  BY IssuedGrows
<1>1. CASE /\ UNCHANGED <<bridge, outbound, echoes, inbound, event_signatures, job, unanswered, givenUp>>
           /\ txs' \subseteq txs /\ lost' \subseteq lost \cup {tx.event : tx \in txs}
  <2>1. job' = NoJob \/ (job # NoJob /\ job'.event = job.event)
    BY <1>1
  <2> QED BY <1>1, <2>1, GenuineStays
<1>2. CASE dispatch_message
  <2>0. TypeOK /\ job # NoJob
    BY <1>2 DEF NodeType, dispatch_message, simulate, sendTransaction
  <2>1. job \in [event : Messages, signatures : SUBSET {Me},
                 attempt : 1 .. MaxAttempts, simulated : BOOLEAN]
    BY <2>0, JobInProgress
  <2>2. nextAttempt => /\ job' = NoJob \/ job'.event = job.event
                       /\ givenUp' \subseteq givenUp \cup {job.event}
    BY <2>1 DEF nextAttempt
  <2>3. /\ job' = NoJob \/ job'.event = job.event
        /\ givenUp' \subseteq givenUp \cup {job.event}
        /\ unanswered' \subseteq unanswered \cup {job.event}
    BY <1>2, <2>1, <2>2 DEF dispatch_message, simulate, sendTransaction
  <2>4. \A tx \in txs' : tx \in txs \/ tx.event = job.event
    BY <1>2 DEF dispatch_message, simulate, sendTransaction, chainVars
  <2>5. UNCHANGED <<bridge, outbound, echoes, inbound, event_signatures, lost>>
    BY <1>2 DEF dispatch_message, simulate, sendTransaction, taskVars
  <2> QED BY <2>0, <2>3, <2>4, <2>5, GenuineStays
<1>3. CASE restart
  <2>1. /\ bridge' = << >> /\ outbound' = << >> /\ echoes' = << >> /\ txs' = txs /\ job' = NoJob
        /\ unanswered' = {} /\ givenUp' = {} /\ lost' = {} /\ UNCHANGED dispatchLog
        /\ \A c \in Chains : inbound'[c] = << >>
        /\ \A c \in Chains, n \in Nonces : event_signatures'[c][n] = None
    BY <1>3 DEF restart, Fresh, chainVars
  <2>2. \A c \in Chains, n \in Nonces : event_signatures'[c][n].event = NoEvent
    BY <2>1 DEF None
  <2>3. Dispatched' = Dispatched
    BY <2>1 DEF Dispatched
  <2>4. Dispatched' \subseteq Issued' /\ \A tx \in txs' : tx.event \in Issued'
    BY <1>0, <2>1, <2>3 DEF GenuineInv
  <2> QED BY <2>1, <2>2, <2>4, EmptyQueue DEF GenuineInv, GenuineQueue
<1>4. ASSUME UNCHANGED <<txs, dispatchLog, unanswered, givenUp, lost>>
      PROVE  UNION {unanswered', givenUp', lost', Dispatched'} \subseteq Issued' /\ \A tx \in txs' : tx.event \in Issued'
  <2>1. Dispatched' = Dispatched
    BY <1>4 DEF Dispatched
  <2> QED BY <1>0, <1>4, <2>1 DEF GenuineInv
<1>5. /\ (UNCHANGED <<inbound, outbound, echoes>>) =>
            /\ \A d \in Chains : GenuineQueue(inbound[d])'
            /\ GenuineQueue(outbound)' /\ GenuineQueue(echoes)'
      /\ (UNCHANGED job) => (job' # NoJob => job'.event \in Issued')
      /\ (UNCHANGED event_signatures) =>
            \A d \in Chains, n \in Nonces : event_signatures'[d][n].event \in Issued' \cup {NoEvent}
  BY <1>0 DEF GenuineInv, GenuineQueue
<1>6. ASSUME NEW c \in Chains, StepKinds, \/ ReadRelay(c) /\ relayPos[c] < Len(relayLog[c])
                                          \/ ReadDispatch(c) /\ dispatchPos[c] < Len(dispatchLog[c])
      PROVE  GenuineInv'
  <2>1. UNCHANGED <<txs, dispatchLog, unanswered, givenUp, lost, inbound, outbound, echoes, job, event_signatures>>
    BY <1>6 DEF ReadRelay, ReadDispatch, chainVars, loopVars
  <2> QED BY <1>4, <1>5, <1>6, <2>1, GenuineRead DEF GenuineInv
<1>7. ASSUME NEW c \in Chains, StepKinds, handle_bridge_message(c) PROVE GenuineInv'
  <2>1. UNCHANGED <<txs, dispatchLog, unanswered, givenUp, lost, outbound, echoes, job>>
    BY <1>7 DEF handle_bridge_message, chainVars, loopVars
  <2>2. GenuineQueue(outbound)' /\ GenuineQueue(echoes)'
    BY <1>0, <2>1 DEF GenuineInv, GenuineQueue
  <2> QED BY <1>4, <1>5, <1>7, <2>1, <2>2, GenuineMessage DEF GenuineInv
<1>8. ASSUME StepKinds, listen_p2p \/ loopBack PROVE GenuineInv'
  <2>1. UNCHANGED <<txs, dispatchLog, unanswered, givenUp, lost, event_signatures>>
    BY <1>8 DEF listen_p2p, forwardEcho, forwardBridgeMessage, loopBack, chainVars, taskVars, loopVars
  <2> QED BY <1>4, <1>5, <1>8, <2>1, GenuineRouting DEF GenuineInv
<1>9. \/ /\ UNCHANGED <<bridge, outbound, echoes, inbound, event_signatures, job, unanswered, givenUp>>
         /\ txs' \subseteq txs /\ lost' \subseteq lost \cup {tx.event : tx \in txs}
      \/ /\ StepKinds
         /\ \/ \E c \in Chains : \/ ReadRelay(c) /\ relayPos[c] < Len(relayLog[c])
                                 \/ ReadDispatch(c) /\ dispatchPos[c] < Len(dispatchLog[c])
                                 \/ handle_bridge_message(c)
            \/ listen_p2p \/ loopBack \/ dispatch_message \/ restart
  BY DEF StepKinds, relay, mine, lose, sync_historic_events, listen_events, MissRelay, MissDispatch,
         vars, chainVars, taskVars, loopVars
<1> QED BY <1>1, <1>2, <1>3, <1>6, <1>7, <1>8, <1>9

\* For any chains, validators, exceptions and restarts, the process' key signs
\* nothing, and the leader sends and holds nothing, but what a gateway has relayed or
\* an exception puts in its place.  With no exceptions this is what ChainGateway
\* assumes of an honest key.
THEOREM KeySignsOnlyIssued == Spec => []SignsOnlyIssued
<1>1. ASSUME NodeType, GenuineInv PROVE SignsOnlyIssued
  <2>1. Travelling \subseteq Issued
    <3>1. \A q \in ToSet(bridge) : q.type # "Dispatched" => q.event \in Issued
      BY <1>1 DEF GenuineInv, GenuineQueue, Genuine
    <3>2. \A q \in ToSet(outbound) \cup ToSet(echoes) : q.event \in Issued
      <4>1. ToSet(outbound) \cup ToSet(echoes) \subseteq Echo
        BY <1>1, LenProperties DEF NodeType, TypeOK, ToSet
      <4>2. \A q \in Echo : q.type # "Dispatched"
        BY DEF Echo
      <4> QED BY <1>1, <4>1, <4>2 DEF GenuineInv, GenuineQueue, Genuine
    <3>3. \A c \in Chains : \A q \in ToSet(inbound[c]) : q.type = "Relay" => q.event \in Issued
      BY <1>1 DEF GenuineInv, GenuineQueue, Genuine
    <3>4. \A tx \in txs : tx.event \in Issued
      BY <1>1 DEF GenuineInv
    <3>5. \A m \in Messages : job.event = m => m \in Issued
      <4>1. \A m \in Messages : job.event = m => job # NoJob
        BY MessageFields DEF NoJob
      <4> QED BY <1>1, <4>1 DEF GenuineInv
    <3> QED BY <3>1, <3>2, <3>3, <3>4, <3>5 DEF Travelling
  <2> QED BY <1>1, <2>1 DEF SignsOnlyIssued, GenuineInv
<1> QED BY <1>1, TypeInit, TypeStep, GenuineInit, GenuineStep, PTL DEF Spec

\* The chains carry what was relayed to where it is for, once, whatever the process
\* does: it may have signed, queued or submitted a message several times.
LEMMA MiningDelivers ==
    ASSUME NodeType, GenuineInv, NEW tx \in txs, mine(tx), dispatchLog' # dispatchLog
    PROVE  Service!Transaction
<1> DEFINE Spent == {<<m.source, m.target, m.nonce>> : m \in Dispatched}
<1>1. PICK x \in Messages, t \in AllChains : x = tx.event /\ t = x.target /\ x \in Issued /\ x \notin Dispatched
  BY MessageFields DEF NodeType, TypeOK, GenuineInv, mine
<1>2. dispatchLog \in [AllChains -> Seq(Messages)]
  BY DEF NodeType, TypeOK
<1>3. dispatchLog' = [dispatchLog EXCEPT ![t] = Append(@, x)] /\ UNCHANGED relayLog /\ Issued' = Issued
  BY <1>1 DEF mine, Relayed, Issued
<1>4. Dispatched' = Dispatched \cup {x}
  <2>1. ToSet(Append(dispatchLog[t], x)) = ToSet(dispatchLog[t]) \cup {x}
    BY <1>1, <1>2, SendToQueue
  <2>2. \A c \in AllChains : ToSet(dispatchLog'[c]) =
            IF c = t THEN ToSet(dispatchLog[c]) \cup {x} ELSE ToSet(dispatchLog[c])
    BY <1>2, <1>3, <2>1
  <2> QED BY <2>2 DEF Dispatched
<1>5. Spent' = Spent \cup {Service!Id(x)}
  BY <1>4 DEF Service!Id
<1>6. Service!Id(x) \notin Spent
  <2> SUFFICES ASSUME NEW m \in Dispatched, Service!Id(x) = <<m.source, m.target, m.nonce>> PROVE FALSE
    OBVIOUS
  <2>1. m \in Messages
    BY DispatchedMessages DEF NodeType
  <2>2. m.source = x.source /\ m.target = x.target /\ m.nonce = x.nonce
    BY DEF Service!Id
  <2> QED BY <1>1, <2>1, <2>2, MessageFields
<1>7. Service!Send
  BY <1>3, DispatchedMessages DEF Service!Send, NodeType
<1>8. Service!Spend
  BY <1>1, <1>5 DEF Service!Spend
<1>9. ASSUME NEW c \in AllChains PROVE Service!TakeEffect(c)
  <2>1. /\ Len(Append(dispatchLog[t], x)) = Len(dispatchLog[t]) + 1 /\ Len(dispatchLog[c]) \in Nat
        /\ \A i \in 1 .. Len(dispatchLog[t]) : Append(dispatchLog[t], x)[i] = dispatchLog[t][i]
        /\ Append(dispatchLog[t], x)[Len(dispatchLog[t]) + 1] = x
    BY <1>1, <1>2, AppendProperties, LenProperties
  <2>2. CASE c # t
    <3>1. dispatchLog'[c] = dispatchLog[c]
      BY <1>2, <1>3, <2>2
    <3> QED BY <2>1, <3>1 DEF Service!TakeEffect
  <2>3. CASE c = t
    <3>1. dispatchLog'[c] = Append(dispatchLog[t], x)
      BY <1>2, <1>3, <2>3
    <3>2. \A i \in Len(dispatchLog[c]) + 1 .. Len(dispatchLog'[c]) :
             i = Len(dispatchLog[c]) + 1 /\ dispatchLog'[c][i] = x
      BY <2>1, <2>3, <3>1
    <3>3. /\ Len(dispatchLog[c]) <= Len(dispatchLog'[c])
          /\ \A i \in 1 .. Len(dispatchLog[c]) : dispatchLog'[c][i] = dispatchLog[c][i]
      BY <2>1, <2>3, <3>1
    <3>4. Service!Id(x) \in Spent' \ Spent
      BY <1>5, <1>6
    <3> QED BY <1>1, <2>3, <3>2, <3>3, <3>4 DEF Service!TakeEffect
  <2> QED BY <2>2, <2>3
<1>10. \A m \in Issued' \ Issued, i \in Spent' \ Spent : m.source = i[2]
  BY <1>3
<1> QED BY <1>7, <1>8, <1>9, <1>10 DEF Service!Transaction

\* The bridge with this process as its validator implements the abstract message
\* service, for any chains, validators, restarts, lost transactions and RPC nodes:
\* what reaches a chain was relayed, as the exceptions correct it, is for that chain, and takes effect once.
THEOREM NodeDelivers == Spec => DeliversAsPromised
<1>1. Init => Service!Init
  <2> SUFFICES ASSUME Init PROVE Service!Init
    OBVIOUS
  <2>1. /\ relayLog = [c \in AllChains |-> << >>] /\ dispatchLog = [c \in AllChains |-> << >>]
    BY DEF Init
  <2>2. Issued = {} /\ Dispatched = {}
    BY <2>1, EmptyQueue DEF Relayed, Issued, Dispatched
  <2> QED BY <2>1, <2>2 DEF Service!Init
<1>2. NodeType /\ NodeType' /\ GenuineInv /\ [Next]_vars => [Service!Transaction]_(Service!vars)
  <2> SUFFICES ASSUME NodeType, NodeType', GenuineInv, StepKinds \/ UNCHANGED vars
               PROVE  [Service!Transaction]_(Service!vars)
    BY KindsOfStep
  <2>1. CASE UNCHANGED <<relayLog, dispatchLog>>
    BY <2>1 DEF Service!vars, Relayed, Issued, Dispatched
  <2>2. CASE \E tx \in txs : mine(tx) /\ dispatchLog' # dispatchLog
    BY <2>2, MiningDelivers
  <2>3. CASE UNCHANGED dispatchLog /\ \E m \in Messages : Issued' = Issued \cup {m}
    <3>1. Dispatched' = Dispatched
      BY <2>3 DEF Dispatched
    <3>2. Service!Send
      <4>1. Issued \subseteq Messages /\ Issued' \subseteq Messages /\ Issued \subseteq Issued'
        BY <2>3, DispatchedMessages DEF NodeType
      <4>2. \A m \in Messages, n \in Messages : Service!Id(m) = Service!Id(n) => m = n
        BY MessageFields DEF Service!Id
      <4> QED BY <4>1, <4>2 DEF Service!Send
    <3>3. Service!Spend
      BY <3>1 DEF Service!Spend
    <3>4. \A c \in AllChains : Service!TakeEffect(c)
      <4>1. \A c \in AllChains : Len(dispatchLog[c]) \in Nat
        BY LenProperties DEF NodeType, TypeOK
      <4> QED BY <2>3, <4>1 DEF Service!TakeEffect
    <3> QED BY <3>1, <3>2, <3>3, <3>4 DEF Service!Transaction
  <2> QED
    <3>1. (\E tx \in txs : mine(tx)) => UNCHANGED relayLog
      BY DEF mine
    <3> QED BY <2>1, <2>2, <2>3, <3>1, DispatchesElsewhere, RelaysElsewhere
<1> QED
  BY <1>1, <1>2, TypeInit, TypeStep, GenuineInit, GenuineStep, PTL
  DEF Spec, DeliversAsPromised, Service!Spec
=============================================================================
