------------------------- MODULE ChainGatewayProofs -------------------------
(***************************************************************************)
(* Proofs that the gateway's invariants hold for any number of chains,     *)
(* contracts, validators, nonces and nested dispatches.                    *)
(***************************************************************************)
EXTENDS ChainGateway, SignatureValidatorProofs, SequenceTheorems

-----------------------------------------------------------------------------
(* Types *)

\* Every update of a gateway's storage and log keeps its type.
LEMMA UpdateTypes ==
    ASSUME NEW s \in ChainState
    PROVE  /\ \A m \in Messages : WithRelay(s, m) \in ChainState
           /\ \A k \in Chains \X Nonces : WithFlag(s, k) \in ChainState
           /\ \A m \in Messages : WithCall(s, m) \in ChainState
           /\ \A k \in Chains \X Nonces, b \in BOOLEAN :
                  WithEvent(s, k, b) \in ChainState
<1>1. \A m \in Messages : WithRelay(s, m) \in ChainState
  BY DEF ChainState, WithRelay, Messages
<1>2. \A k \in Chains \X Nonces : WithFlag(s, k) \in ChainState
  BY DEF ChainState, WithFlag
<1>3. \A m \in Messages : WithCall(s, m) \in ChainState
  <2> SUFFICES ASSUME NEW m \in Messages PROVE WithCall(s, m) \in ChainState
    OBVIOUS
  <2>1. s.calls \in Seq(Messages)
    BY DEF ChainState
  <2>2. Append(s.calls, m) \in Seq(Messages)
    BY <2>1
  <2> DEFINE l == Append(s.calls, m)
  <2> HIDE DEF l
  <2>3. [s EXCEPT !.calls = l] \in ChainState
    BY <2>2 DEF ChainState, l
  <2> QED BY <2>3 DEF WithCall, l
<1>4. \A k \in Chains \X Nonces, b \in BOOLEAN : WithEvent(s, k, b) \in ChainState
  BY DEF ChainState, WithEvent
<1> QED BY <1>1, <1>2, <1>3, <1>4

\* The key of a message.
LEMMA KeyType == \A m \in Messages : Key(m) \in Chains \X Nonces
  BY DEF Key, Messages

\* A gateway as deployed.
LEMMA InitialStateType == InitialState \in ChainState
<1>1. 0 \in Nonces
  BY GatewayAssumption DEF Nonces
<1> QED BY <1>1 DEF InitialState, ChainState

\* Popping a non-empty stack.
LEMMA PopStack ==
    ASSUME NEW S, NEW fs \in Seq(S), fs # <<>>
    PROVE  /\ Len(fs) \in Nat /\ Len(fs) # 0 /\ Len(fs) - 1 \in Nat
           /\ fs[Len(fs)] \in S
           /\ SubSeq(fs, 1, Len(fs) - 1) \in Seq(S)
           /\ Len(SubSeq(fs, 1, Len(fs) - 1)) = Len(fs) - 1
           /\ \A i \in 1 .. Len(fs) - 1 : SubSeq(fs, 1, Len(fs) - 1)[i] = fs[i]
<1> DEFINE n == Len(fs)
<1>1. n \in Nat /\ n # 0
  OBVIOUS
<1>2. n - 1 \in Nat /\ n \in 1 .. n
  BY <1>1
<1>3. \A i \in 1 .. n : fs[i] \in S
  OBVIOUS
<1> HIDE DEF n
<1> DEFINE gs == SubSeq(fs, 1, n - 1)
<1>4. \A i \in 1 .. n - 1 : fs[i] \in S
  BY <1>1, <1>3
<1>5. 1 \in Int /\ n - 1 \in Int
  BY <1>2
<1>6. /\ gs \in Seq(S)
      /\ Len(gs) = IF 1 <= n - 1 THEN n - 1 - 1 + 1 ELSE 0
      /\ \A i \in 1 .. n - 1 - 1 + 1 : gs[i] = fs[1 + i - 1]
  <2> QED BY ONLY <1>4, <1>5, SubSeqProperties
<1> HIDE DEF gs
<1>7. Len(gs) = n - 1
  BY <1>1, <1>2, <1>6
<1>8. \A i \in 1 .. n - 1 : gs[i] = fs[i]
  BY <1>1, <1>2, <1>6
<1>9. gs \in Seq(S) /\ n - 1 \in Nat /\ fs[n] \in S
  BY <1>2, <1>3, <1>6
<1> QED BY <1>1, <1>2, <1>3, <1>7, <1>8, <1>9 DEF gs, n

\* The top frame of a chain's stack, and the stack without it.
LEMMA TopFrame ==
    ASSUME TypeOK, NEW c \in Chains, frames[c] # <<>>
    PROVE  /\ Top(c) \in Frame
           /\ Top(c).msg \in Messages /\ Top(c).start \in ChainState
           /\ SubSeq(frames[c], 1, Len(frames[c]) - 1) \in Seq(Frame)
<1>1. frames[c] \in Seq(Frame)
  BY DEF TypeOK
<1>2. Top(c) \in Frame
  BY <1>1, PopStack DEF Top
<1>3. Top(c).msg \in Messages /\ Top(c).start \in ChainState
  BY <1>2 DEF Frame
<1> QED BY <1>1, <1>2, <1>3, PopStack

\* The type invariant is inductive.
LEMMA TypeStep == TypeOK /\ [Next]_vars => TypeOK'
<1> SUFFICES ASSUME TypeOK, [Next]_vars PROVE TypeOK'
  OBVIOUS
<1>a. ASSUME NEW c \in Chains, NEW app \in Apps, NEW t \in Chains, NEW to \in Targets,
             NEW call \in CallData, emitRelayed(c, app, t, to, call)
      PROVE  TypeOK'
  <2> DEFINE m == [source |-> c, target |-> t, to |-> to, call |-> call,
                   nonce |-> chain[c].nonce[t] + 1]
  <2>1. chain[c] \in ChainState
    BY DEF TypeOK
  <2>2. m \in Messages
    <3>1. chain[c].nonce[t] \in Nonces /\ chain[c].nonce[t] < MaxNonce
      BY <1>a, <2>1 DEF ChainState, emitRelayed
    <3>2. chain[c].nonce[t] + 1 \in Nonces
      BY <3>1, GatewayAssumption DEF Nonces
    <3> QED BY <3>2 DEF Messages
  <2> HIDE DEF m
  <2>3. WithRelay(chain[c], m) \in ChainState
    BY <2>1, <2>2, UpdateTypes
  <2>4. chain' = [chain EXCEPT ![c] = WithRelay(chain[c], m)]
    BY <1>a DEF emitRelayed, m
  <2>5. chain' \in [Chains -> ChainState]
    BY <2>3, <2>4 DEF TypeOK
  <2> QED BY <1>a, <2>5 DEF emitRelayed, TypeOK
<1>b. ASSUME NEW c \in Chains, NEW m \in Managers, NEW V \in SUBSET Addresses,
             setValidators(c, m, V)
      PROVE  TypeOK'
  BY <1>b DEF setValidators, TypeOK
<1>1. CASE \E c, t \in Chains, app \in Apps, to \in Targets, d \in Payloads :
              relay(c, app, t, to, d) \/ relayWithMetadata(c, app, t, to, d)
  <2>1. PICK c \in Chains, t \in Chains, app \in Apps, to \in Targets, d \in Payloads :
            relay(c, app, t, to, d) \/ relayWithMetadata(c, app, t, to, d)
    BY <1>1
  <2>2. d \in CallData /\ WithMetadata(c, app, d) \in CallData
    BY DEF CallData, WithMetadata
  <2> QED BY <2>1, <2>2, <1>a DEF relay, relayWithMetadata
<1>2. CASE \E c \in Chains, app \in Apps : register(c, app) \/ unregister(c, app)
  <2>1. PICK c \in Chains, app \in Apps : register(c, app) \/ unregister(c, app)
    BY <1>2
  <2>2. registered[c] \cup {app} \in SUBSET Apps /\ registered[c] \ {app} \in SUBSET Apps
    BY DEF TypeOK
  <2>3. \/ registered' = [registered EXCEPT ![c] = registered[c] \cup {app}]
        \/ registered' = [registered EXCEPT ![c] = registered[c] \ {app}]
    BY <2>1 DEF register, unregister
  <2>4. registered' \in [Chains -> SUBSET Apps]
    BY <2>2, <2>3 DEF TypeOK
  <2> QED BY <2>1, <2>4 DEF register, unregister, TypeOK
<1>3. CASE \E c \in Chains, m \in Managers, v \in Addresses :
              addValidator(c, m, v) \/ removeValidator(c, m, v)
  <2>1. PICK c \in Chains, m \in Managers, v \in Addresses :
            addValidator(c, m, v) \/ removeValidator(c, m, v)
    BY <1>3
  <2>2. validators[c][m] \in SUBSET Addresses
    BY DEF TypeOK
  <2> QED BY <2>1, <2>2, <1>b DEF addValidator, removeValidator
<1>4. CASE \E c \in Chains, m \in Managers : setValidatorManager(c, m)
  BY <1>4 DEF setValidatorManager, TypeOK
<1>5. CASE \E v \in Addresses, m \in Messages : sign(v, m)
  BY <1>5 DEF sign, TypeOK
<1>6. CASE \E c \in Chains, m \in Messages, signers \in SignerLists :
              dispatch(c, m, signers)
  <2>1. PICK c \in Chains, m \in Messages, signers \in SignerLists :
            dispatch(c, m, signers)
    BY <1>6
  <2>2. chain[c] \in ChainState /\ frames[c] \in Seq(Frame) /\ Key(m) \in Chains \X Nonces
    BY KeyType DEF TypeOK
  <2>3. WithFlag(chain[c], Key(m)) \in ChainState
    BY <2>2, UpdateTypes
  <2>4. CASE enterCall(c, m)
    <3>1. WithCall(WithFlag(chain[c], Key(m)), m) \in ChainState
      BY <2>3, UpdateTypes
    <3>2. chain' \in [Chains -> ChainState]
      BY <2>4, <3>1 DEF enterCall, TypeOK
    <3>3. [msg |-> m, start |-> chain[c]] \in Frame
      BY <2>2 DEF Frame
    <3>4. Append(frames[c], [msg |-> m, start |-> chain[c]]) \in Seq(Frame)
      BY <2>2, <3>3
    <3>5. frames' \in [Chains -> Seq(Frame)]
      BY <2>4, <3>4 DEF enterCall, TypeOK
    <3> QED BY <2>1, <3>2, <3>5 DEF dispatch, TypeOK
  <2>5. CASE skipCall(c, m)
    <3>1. WithEvent(WithFlag(chain[c], Key(m)), Key(m), FALSE) \in ChainState
      BY <2>2, <2>3, UpdateTypes
    <3>2. chain' \in [Chains -> ChainState]
      BY <2>5, <3>1 DEF skipCall, TypeOK
    <3> QED BY <2>1, <2>5, <3>2 DEF dispatch, skipCall, TypeOK
  <2> QED BY <2>1, <2>4, <2>5 DEF dispatch
<1>7. CASE \E c \in Chains : callSucceeds(c) \/ callFails(c) \/ dispatchReverts(c)
  <2>1. PICK c \in Chains : callSucceeds(c) \/ callFails(c) \/ dispatchReverts(c)
    BY <1>7
  <2>2. frames[c] # <<>> /\ frames' = Pop(c)
    BY <2>1 DEF callSucceeds, callFails, dispatchReverts
  <2>3. Key(Top(c).msg) \in Chains \X Nonces /\ Top(c).start \in ChainState
    BY <2>2, TopFrame, KeyType
  <2>4. frames' \in [Chains -> Seq(Frame)]
    BY <2>2, TopFrame DEF Pop, TypeOK
  <2>5. WithEvent(chain[c], Key(Top(c).msg), TRUE) \in ChainState
    BY <2>3, UpdateTypes DEF TypeOK
  <2>6. WithEvent(WithFlag(Top(c).start, Key(Top(c).msg)), Key(Top(c).msg), FALSE)
            \in ChainState
    BY <2>3, UpdateTypes
  <2>7. chain' \in [Chains -> ChainState]
    BY <2>1, <2>3, <2>5, <2>6 DEF callSucceeds, callFails, dispatchReverts, TypeOK
  <2>8. UNCHANGED <<registered, validatorManager, validators, signed>>
    BY <2>1 DEF callSucceeds, callFails, dispatchReverts
  <2> QED BY <2>4, <2>7, <2>8 DEF TypeOK
<1>8. CASE UNCHANGED vars
  BY <1>8 DEF vars, TypeOK
<1> QED BY <1>1, <1>2, <1>3, <1>4, <1>5, <1>6, <1>7, <1>8 DEF Next

\* The gateway keeps its types on every chain; no nonce ever leaves its width.
THEOREM TypeCorrect == Spec => []TypeOK
<1>1. Init => TypeOK
  BY InitialStateType, GatewayAssumption DEF Init, TypeOK
<1> QED BY <1>1, TypeStep, PTL DEF Spec

-----------------------------------------------------------------------------
(* At most once, and every outcome reported *)

CallKeys(s) == {Key(s.calls[i]) : i \in 1 .. Len(s.calls)}
EventKeys(s) == {e.key : e \in s.events}

\* What holds of a gateway's state while the dispatches of the keys in P are in
\* progress: calls are distinct and flagged, the flags are the reported and the
\* pending messages, events tell the outcome, pending messages have been called.
StateInv(s, P) ==
    /\ CallKeys(s) \subseteq s.dispatched
    /\ \A i, j \in 1 .. Len(s.calls) : i # j => Key(s.calls[i]) # Key(s.calls[j])
    /\ s.dispatched = EventKeys(s) \cup P
    /\ \A e \in s.events : e.success <=> e.key \in CallKeys(s)
    /\ P \subseteq CallKeys(s)

\* The messages of the first n frames of the stack.
Pending(fs, n) == {Key(fs[i].msg) : i \in 1 .. n}

\* The current state of a chain and every state its stack may fall back to are
\* consistent with the dispatches in progress at that depth.
ChainInv(s, fs) ==
    /\ StateInv(s, Pending(fs, Len(fs)))
    /\ \A i \in 1 .. Len(fs) :
          /\ StateInv(fs[i].start, Pending(fs, i - 1))
          /\ Key(fs[i].msg) \notin fs[i].start.dispatched

\* The inductive invariant.
GatewayInv == \A c \in Chains : ChainInv(chain[c], frames[c])

\* _relay touches neither flags, calls nor Dispatched events.
LEMMA RelayKeepsStateInv ==
    ASSUME NEW s \in ChainState, NEW P, StateInv(s, P), NEW m \in Messages
    PROVE  StateInv(WithRelay(s, m), P)
<1>1. /\ WithRelay(s, m).calls = s.calls
      /\ WithRelay(s, m).dispatched = s.dispatched
      /\ WithRelay(s, m).events = s.events
  BY DEF WithRelay, ChainState
<1> QED BY <1>1 DEF StateInv, CallKeys, EventKeys

\* A call begins: its key is flagged and pending.
LEMMA EnterKeepsStateInv ==
    ASSUME NEW s \in ChainState, NEW P, StateInv(s, P), NEW m \in Messages,
           Key(m) \notin s.dispatched
    PROVE  StateInv(WithCall(WithFlag(s, Key(m)), m), P \cup {Key(m)})
<1> DEFINE t == WithCall(WithFlag(s, Key(m)), m)
           k == Key(m)
           n == Len(s.calls)
<1>1. /\ t.calls = Append(s.calls, m)
      /\ t.dispatched = s.dispatched \cup {k}
      /\ t.events = s.events
  BY DEF WithCall, WithFlag, ChainState
<1>2. s.calls \in Seq(Messages)
  BY DEF ChainState
<1>3. /\ n \in Nat /\ Len(t.calls) = n + 1 /\ t.calls[n + 1] = m
      /\ \A i \in 1 .. n : t.calls[i] = s.calls[i]
  BY <1>1, <1>2
<1>4. 1 .. n + 1 = (1 .. n) \cup {n + 1}
  BY <1>3
<1>5. CallKeys(t) = CallKeys(s) \cup {k}
  BY <1>3, <1>4 DEF CallKeys
<1> HIDE DEF t, k
<1>6. k \notin CallKeys(s) /\ k \notin EventKeys(s)
  BY DEF StateInv, k
<1>7. \A i, j \in 1 .. Len(t.calls) : i # j => Key(t.calls[i]) # Key(t.calls[j])
  <2>1. \A i \in 1 .. n : Key(t.calls[i]) # k
    BY <1>3, <1>6 DEF CallKeys
  <2>2. \A i, j \in 1 .. n : i # j => Key(t.calls[i]) # Key(t.calls[j])
    BY <1>3 DEF StateInv
  <2>3. Key(t.calls[n + 1]) = k
    BY <1>3 DEF k
  <2> QED BY <1>3, <1>4, <2>1, <2>2, <2>3
<1>8. EventKeys(t) = EventKeys(s)
  BY <1>1 DEF EventKeys
<1>9. \A e \in t.events : e.success <=> e.key \in CallKeys(t)
  BY <1>1, <1>5, <1>6 DEF StateInv, EventKeys
<1>10. StateInv(t, P \cup {k})
  BY <1>1, <1>5, <1>7, <1>8, <1>9 DEF StateInv
<1> QED BY <1>10 DEF t, k

\* A call that failed or was skipped: flagged and reported as a failure.
LEMMA FailureKeepsStateInv ==
    ASSUME NEW s \in ChainState, NEW P, StateInv(s, P), NEW k \in Chains \X Nonces,
           k \notin s.dispatched
    PROVE  StateInv(WithEvent(WithFlag(s, k), k, FALSE), P)
<1> DEFINE t == WithEvent(WithFlag(s, k), k, FALSE)
           e0 == [key |-> k, success |-> FALSE]
<1>1. /\ t.calls = s.calls
      /\ t.dispatched = s.dispatched \cup {k}
      /\ t.events = s.events \cup {e0}
  BY DEF WithEvent, WithFlag, ChainState
<1>2. e0.key = k /\ e0.success = FALSE
  OBVIOUS
<1> HIDE DEF t, e0
<1>3. CallKeys(t) = CallKeys(s) /\ k \notin CallKeys(s)
  BY <1>1 DEF CallKeys, StateInv
<1>4. EventKeys(t) = EventKeys(s) \cup {k}
  BY <1>1, <1>2 DEF EventKeys
<1>5. \A e \in t.events : e.success <=> e.key \in CallKeys(t)
  BY <1>1, <1>2, <1>3 DEF StateInv
<1>6. StateInv(t, P)
  BY <1>1, <1>3, <1>4, <1>5 DEF StateInv
<1> QED BY <1>6 DEF t

\* A call came back: the pending key is reported as a success.
LEMMA SuccessKeepsStateInv ==
    ASSUME NEW s \in ChainState, NEW P, NEW k \in Chains \X Nonces,
           StateInv(s, P \cup {k})
    PROVE  StateInv(WithEvent(s, k, TRUE), P)
<1> DEFINE t == WithEvent(s, k, TRUE)
           e0 == [key |-> k, success |-> TRUE]
<1>1. /\ t.calls = s.calls
      /\ t.dispatched = s.dispatched
      /\ t.events = s.events \cup {e0}
  BY DEF WithEvent, ChainState
<1>2. e0.key = k /\ e0.success = TRUE
  OBVIOUS
<1> HIDE DEF t, e0
<1>3. CallKeys(t) = CallKeys(s) /\ k \in CallKeys(s)
  BY <1>1 DEF CallKeys, StateInv
<1>4. EventKeys(t) = EventKeys(s) \cup {k}
  BY <1>1, <1>2 DEF EventKeys
<1>5. \A e \in t.events : e.success <=> e.key \in CallKeys(t)
  BY <1>1, <1>2, <1>3 DEF StateInv
<1>6. StateInv(t, P)
  BY <1>1, <1>3, <1>4, <1>5 DEF StateInv
<1> QED BY <1>6 DEF t

\* dispatch() puts an activation on the stack.
LEMMA PushKeepsChainInv ==
    ASSUME NEW s \in ChainState, NEW fs \in Seq(Frame), ChainInv(s, fs),
           NEW m \in Messages, Key(m) \notin s.dispatched
    PROVE  ChainInv(WithCall(WithFlag(s, Key(m)), m),
                    Append(fs, [msg |-> m, start |-> s]))
<1> DEFINE f == [msg |-> m, start |-> s]
           gs == Append(fs, f)
           n == Len(fs)
<1>0. f \in Frame /\ f.msg = m /\ f.start = s
  BY DEF Frame
<1> HIDE DEF f
<1>1. /\ n \in Nat /\ Len(gs) = n + 1 /\ gs[n + 1] = f
      /\ \A i \in 1 .. n : gs[i] = fs[i]
  BY <1>0
<1> HIDE DEF gs
<1>2. 1 .. n + 1 = (1 .. n) \cup {n + 1}
  BY <1>1
<1>3. Pending(gs, n + 1) = Pending(fs, n) \cup {Key(m)}
  BY <1>0, <1>1, <1>2 DEF Pending
<1>4. \A i \in 1 .. n + 1 : Pending(gs, i - 1) = Pending(fs, i - 1)
  <2> SUFFICES ASSUME NEW i \in 1 .. n + 1 PROVE Pending(gs, i - 1) = Pending(fs, i - 1)
    OBVIOUS
  <2>1. \A j \in 1 .. i - 1 : gs[j] = fs[j]
    BY <1>1
  <2> QED BY <2>1 DEF Pending
<1>5. StateInv(WithCall(WithFlag(s, Key(m)), m), Pending(gs, n + 1))
  BY <1>3, EnterKeepsStateInv DEF ChainInv
<1>6. ASSUME NEW i \in 1 .. n + 1
      PROVE  /\ StateInv(gs[i].start, Pending(gs, i - 1))
             /\ Key(gs[i].msg) \notin gs[i].start.dispatched
  <2>1. CASE i \in 1 .. n
    BY <1>1, <1>4, <2>1 DEF ChainInv
  <2>2. CASE i = n + 1
    <3>1. gs[i] = f /\ i - 1 = n
      BY <1>1, <2>2
    <3> QED BY <1>0, <1>4, <3>1 DEF ChainInv
  <2> QED BY <1>2, <2>1, <2>2
<1>7. ChainInv(WithCall(WithFlag(s, Key(m)), m), gs)
  BY <1>1, <1>5, <1>6 DEF ChainInv
<1> QED BY <1>7 DEF gs, f

\* An activation ends, in each of the three ways.
LEMMA PopKeepsChainInv ==
    ASSUME NEW s \in ChainState, NEW fs \in Seq(Frame), ChainInv(s, fs), fs # <<>>
    PROVE  LET n == Len(fs)
               k == Key(fs[n].msg)
               gs == SubSeq(fs, 1, n - 1)
           IN  /\ ChainInv(WithEvent(s, k, TRUE), gs)
               /\ ChainInv(WithEvent(WithFlag(fs[n].start, k), k, FALSE), gs)
               /\ ChainInv(fs[n].start, gs)
<1> DEFINE n == Len(fs)
           k == Key(fs[n].msg)
           gs == SubSeq(fs, 1, n - 1)
<1>1. n \in Nat /\ n # 0 /\ n - 1 \in Nat /\ fs[n] \in Frame
  BY PopStack
<1>2. Len(gs) = n - 1 /\ \A i \in 1 .. n - 1 : gs[i] = fs[i]
  BY PopStack
<1>3. fs[n].start \in ChainState /\ k \in Chains \X Nonces
  BY <1>1, KeyType DEF Frame
<1> HIDE DEF gs
<1>4. \A i \in 0 .. n - 1 : Pending(gs, i) = Pending(fs, i)
  <2> SUFFICES ASSUME NEW i \in 0 .. n - 1 PROVE Pending(gs, i) = Pending(fs, i)
    OBVIOUS
  <2>1. \A j \in 1 .. i : gs[j] = fs[j]
    BY <1>1, <1>2
  <2> QED BY <2>1 DEF Pending
<1>5. Pending(fs, n) = Pending(fs, n - 1) \cup {k}
  <2>1. 1 .. n = (1 .. n - 1) \cup {n}
    BY <1>1
  <2> QED BY <2>1 DEF Pending
<1> HIDE DEF k, n
<1> DEFINE P == Pending(fs, n - 1)
<1>6. \A i \in 1 .. n - 1 :
          /\ StateInv(gs[i].start, Pending(gs, i - 1))
          /\ Key(gs[i].msg) \notin gs[i].start.dispatched
  <2> SUFFICES ASSUME NEW i \in 1 .. n - 1
               PROVE  /\ StateInv(gs[i].start, Pending(gs, i - 1))
                      /\ Key(gs[i].msg) \notin gs[i].start.dispatched
    OBVIOUS
  <2>1. i \in 1 .. Len(fs) /\ i - 1 \in 0 .. n - 1 /\ gs[i] = fs[i]
    BY <1>1, <1>2 DEF n
  <2> QED BY <1>4, <2>1 DEF ChainInv
<1>7. n \in 1 .. Len(fs) /\ n - 1 \in 0 .. n - 1
  BY <1>1 DEF n
<1>8. StateInv(fs[n].start, P) /\ k \notin fs[n].start.dispatched
  BY <1>7 DEF ChainInv, k
<1>9. StateInv(s, P \cup {k})
  BY <1>5 DEF ChainInv, n
<1>10. Pending(gs, Len(gs)) = P
  BY <1>2, <1>4, <1>7
<1> HIDE DEF P
<1>11. /\ StateInv(WithEvent(s, k, TRUE), P)
       /\ StateInv(WithEvent(WithFlag(fs[n].start, k), k, FALSE), P)
  BY <1>3, <1>8, <1>9, SuccessKeepsStateInv, FailureKeepsStateInv
<1>12. /\ ChainInv(WithEvent(s, k, TRUE), gs)
       /\ ChainInv(WithEvent(WithFlag(fs[n].start, k), k, FALSE), gs)
       /\ ChainInv(fs[n].start, gs)
  BY <1>2, <1>6, <1>8, <1>10, <1>11 DEF ChainInv
<1> QED BY <1>12 DEF gs, k, n

\* The invariant is inductive, given the types.
LEMMA GatewayInvStep == TypeOK /\ GatewayInv /\ [Next]_vars => GatewayInv'
<1> SUFFICES ASSUME TypeOK, GatewayInv, [Next]_vars PROVE GatewayInv'
  OBVIOUS
<1>t. \A c \in Chains : chain[c] \in ChainState /\ frames[c] \in Seq(Frame)
  BY DEF TypeOK
\* It is enough to look at the chain a step changes.
<1>s. ASSUME NEW c \in Chains, NEW s, NEW fs, ChainInv(s, fs),
             chain' = [chain EXCEPT ![c] = s], frames' = [frames EXCEPT ![c] = fs]
      PROVE  GatewayInv'
  <2> SUFFICES ASSUME NEW d \in Chains PROVE ChainInv(chain'[d], frames'[d])
    BY DEF GatewayInv
  <2>1. CASE d = c
    <3>1. chain'[d] = s /\ frames'[d] = fs
      BY <1>s, <2>1 DEF TypeOK
    <3> QED BY <1>s, <3>1
  <2>2. CASE d # c
    <3>1. chain'[d] = chain[d] /\ frames'[d] = frames[d]
      BY <1>s, <2>2 DEF TypeOK
    <3> QED BY <3>1 DEF GatewayInv
  <2> QED BY <2>1, <2>2
<1>u. ASSUME UNCHANGED <<chain, frames>> PROVE GatewayInv'
  BY <1>u DEF GatewayInv
<1>f. \A c \in Chains : frames = [frames EXCEPT ![c] = frames[c]]
  BY DEF TypeOK
<1>a. ASSUME NEW c \in Chains, NEW app \in Apps, NEW t \in Chains, NEW to \in Targets,
             NEW call \in CallData, emitRelayed(c, app, t, to, call)
      PROVE  GatewayInv'
  <2> DEFINE m == [source |-> c, target |-> t, to |-> to, call |-> call,
                   nonce |-> chain[c].nonce[t] + 1]
  <2>1. m \in Messages
    <3>1. chain[c].nonce[t] \in Nonces /\ chain[c].nonce[t] < MaxNonce
      BY <1>a, <1>t DEF ChainState, emitRelayed
    <3>2. chain[c].nonce[t] + 1 \in Nonces
      BY <3>1, GatewayAssumption DEF Nonces
    <3> QED BY <3>2 DEF Messages
  <2>2. chain' = [chain EXCEPT ![c] = WithRelay(chain[c], m)] /\ frames' = frames
    BY <1>a DEF emitRelayed
  <2> HIDE DEF m
  <2>3. ChainInv(WithRelay(chain[c], m), frames[c])
    BY <2>1, <1>t, RelayKeepsStateInv DEF GatewayInv, ChainInv
  <2> QED BY <2>2, <2>3, <1>s, <1>f
<1>1. CASE \E c, t \in Chains, app \in Apps, to \in Targets, d \in Payloads :
              relay(c, app, t, to, d) \/ relayWithMetadata(c, app, t, to, d)
  <2>1. PICK c \in Chains, t \in Chains, app \in Apps, to \in Targets, d \in Payloads :
            relay(c, app, t, to, d) \/ relayWithMetadata(c, app, t, to, d)
    BY <1>1
  <2>2. d \in CallData /\ WithMetadata(c, app, d) \in CallData
    BY DEF CallData, WithMetadata
  <2> QED BY <2>1, <2>2, <1>a DEF relay, relayWithMetadata
<1>2. CASE \E c \in Chains, app \in Apps : register(c, app) \/ unregister(c, app)
  BY <1>2, <1>u DEF register, unregister
<1>3. CASE \E c \in Chains, m \in Managers, v \in Addresses :
              addValidator(c, m, v) \/ removeValidator(c, m, v)
  BY <1>3, <1>u DEF addValidator, removeValidator, setValidators
<1>4. CASE \E c \in Chains, m \in Managers : setValidatorManager(c, m)
  BY <1>4, <1>u DEF setValidatorManager
<1>5. CASE \E v \in Addresses, m \in Messages : sign(v, m)
  BY <1>5, <1>u DEF sign
<1>6. CASE \E c \in Chains, m \in Messages, signers \in SignerLists :
              dispatch(c, m, signers)
  <2>1. PICK c \in Chains, m \in Messages, signers \in SignerLists :
            dispatch(c, m, signers)
    BY <1>6
  <2>2. Key(m) \notin chain[c].dispatched /\ Key(m) \in Chains \X Nonces
    BY <2>1, KeyType DEF dispatch, replayDispatchGuard
  <2>3. ChainInv(chain[c], frames[c])
    BY DEF GatewayInv
  <2>4. CASE enterCall(c, m)
    <3>1. ChainInv(WithCall(WithFlag(chain[c], Key(m)), m),
                   Append(frames[c], [msg |-> m, start |-> chain[c]]))
      BY <1>t, <2>2, <2>3, PushKeepsChainInv
    <3> QED BY <2>4, <3>1, <1>s DEF enterCall
  <2>5. CASE skipCall(c, m)
    <3>1. ChainInv(WithEvent(WithFlag(chain[c], Key(m)), Key(m), FALSE), frames[c])
      BY <1>t, <2>2, <2>3, FailureKeepsStateInv DEF ChainInv
    <3> QED BY <2>5, <3>1, <1>s, <1>f DEF skipCall
  <2> QED BY <2>1, <2>4, <2>5 DEF dispatch
<1>7. CASE \E c \in Chains : callSucceeds(c) \/ callFails(c) \/ dispatchReverts(c)
  <2>1. PICK c \in Chains : callSucceeds(c) \/ callFails(c) \/ dispatchReverts(c)
    BY <1>7
  <2>2. frames[c] # <<>>
    BY <2>1 DEF callSucceeds, callFails, dispatchReverts
  <2>3. frames' = [frames EXCEPT ![c] = SubSeq(frames[c], 1, Len(frames[c]) - 1)]
    BY <2>1 DEF callSucceeds, callFails, dispatchReverts, Pop
  <2> DEFINE k == Key(Top(c).msg)
             gs == SubSeq(frames[c], 1, Len(frames[c]) - 1)
  <2>4. ChainInv(chain[c], frames[c])
    BY DEF GatewayInv
  <2>5. /\ ChainInv(WithEvent(chain[c], k, TRUE), gs)
        /\ ChainInv(WithEvent(WithFlag(Top(c).start, k), k, FALSE), gs)
        /\ ChainInv(Top(c).start, gs)
    BY <1>t, <2>2, <2>4, PopKeepsChainInv DEF Top
  <2>6. \/ chain' = [chain EXCEPT ![c] = WithEvent(chain[c], k, TRUE)]
        \/ chain' = [chain EXCEPT ![c] = WithEvent(WithFlag(Top(c).start, k), k, FALSE)]
        \/ chain' = [chain EXCEPT ![c] = Top(c).start]
    BY <2>1 DEF callSucceeds, callFails, dispatchReverts
  <2> HIDE DEF k, gs
  <2> QED BY <1>s, <2>3, <2>5, <2>6 DEF gs
<1>8. CASE UNCHANGED vars
  BY <1>8, <1>u DEF vars
<1> QED BY <1>1, <1>2, <1>3, <1>4, <1>5, <1>6, <1>7, <1>8 DEF Next

\* Gateways as deployed.
LEMMA GatewayInvInit == Init => GatewayInv
<1> SUFFICES ASSUME Init, NEW c \in Chains PROVE ChainInv(chain[c], frames[c])
  BY DEF GatewayInv
<1>1. chain[c] = InitialState /\ frames[c] = <<>>
  BY DEF Init
<1>2. StateInv(InitialState, {})
  BY DEF StateInv, InitialState, CallKeys, EventKeys
<1> QED BY <1>1, <1>2 DEF ChainInv, Pending

\* Types and invariant hold throughout.
LEMMA GatewayInvariant == Spec => [](TypeOK /\ GatewayInv)
<1>1. Init => TypeOK
  BY InitialStateType, GatewayAssumption DEF Init, TypeOK
<1> QED BY <1>1, GatewayInvInit, GatewayInvStep, TypeStep, PTL DEF Spec

\* A message takes effect at most once, on any number of chains and for any
\* nesting of dispatches: replayDispatchGuard sets its flag before the call.
THEOREM ExecutedAtMostOnce == Spec => []AtMostOnce
<1>1. GatewayInv => AtMostOnce
  BY DEF GatewayInv, ChainInv, StateInv, AtMostOnce
<1> QED BY <1>1, GatewayInvariant, PTL

\* Flags and Dispatched events agree: a message is spent if and only if its
\* outcome is in the log or its dispatch is still running.
THEOREM SpentIffReported == Spec => []SpentExactlyWhenReported
<1>1. GatewayInv => SpentExactlyWhenReported
  BY DEF GatewayInv, ChainInv, StateInv, EventKeys, Pending, SpentExactlyWhenReported
<1> QED BY <1>1, GatewayInvariant, PTL

\* A Dispatched event says success exactly when the call stands, whatever was
\* rolled back around it.
THEOREM EventsTellOutcome == Spec => []EventTellsOutcome
<1>1. GatewayInv => EventTellsOutcome
  <2> SUFFICES ASSUME GatewayInv, NEW c \in Chains, NEW e \in chain[c].events
               PROVE  e.success <=> \E i \in 1 .. Len(chain[c].calls) :
                                       Key(chain[c].calls[i]) = e.key
    BY DEF EventTellsOutcome
  <2>1. e.success <=> e.key \in CallKeys(chain[c])
    BY DEF GatewayInv, ChainInv, StateInv
  <2> QED BY <2>1 DEF CallKeys
<1> QED BY <1>1, GatewayInvariant, PTL

-----------------------------------------------------------------------------
(* A gateway only calls what another gateway relayed, for every validator  *)
(* set in which faulty keys are no supermajority and however the owner     *)
(* rotates it.                                                             *)

\* A gateway's log of relayed messages: its own, numbered up to the counter of
\* their target chain, each number once.
RelayInv(c, s) ==
    /\ \A m \in s.relayed : m.source = c /\ m.nonce <= s.nonce[m.target]
    /\ \A m1, m2 \in s.relayed :
          m1.target = m2.target /\ m1.nonce = m2.nonce => m1 = m2

\* The committed state under a stack of dispatches.
Base(s, fs) == IF fs = <<>> THEN s ELSE fs[1].start

\* Wherever the stack falls back to, the committed log is kept.
StackInv(c, s, fs) ==
    /\ RelayInv(c, s) /\ Base(s, fs).relayed \subseteq s.relayed
    /\ \A i \in 1 .. Len(fs) :
          /\ RelayInv(c, fs[i].start)
          /\ Base(s, fs).relayed \subseteq fs[i].start.relayed

\* Calls made on chain c are of messages in the source's committed log.
CallsOk(c, s) ==
    \A i \in 1 .. Len(s.calls) :
        s.calls[i].target = c /\ s.calls[i] \in Committed(s.calls[i].source).relayed

SignedOk ==
    \A x \in signed : \E m \in Messages :
        x.hash = MessageHash(m) /\ m \in Committed(m.source).relayed

ValidatorsOk == \A c \in Chains, m \in Managers : Trusted(validators[c][m])

StacksOk == \A c \in Chains : StackInv(c, chain[c], frames[c])

AllCallsOk ==
    \A c \in Chains : /\ CallsOk(c, chain[c])
                      /\ \A i \in 1 .. Len(frames[c]) : CallsOk(c, frames[c][i].start)

\* The inductive invariant.
AuthInv == ValidatorsOk /\ StacksOk /\ SignedOk /\ AllCallsOk

-----------------------------------------------------------------------------
\* The committed state is the one under the stack.
LEMMA CommittedIsBase == \A c : Committed(c) = Base(chain[c], frames[c])
  BY DEF Committed, Base

\* _relay adds one message, numbered next, to the log.
LEMMA RelayKeepsStackInv ==
    ASSUME NEW c \in Chains, NEW s \in ChainState, NEW fs \in Seq(Frame),
           StackInv(c, s, fs), NEW m \in Messages,
           m.source = c, m.nonce = s.nonce[m.target] + 1
    PROVE  /\ StackInv(c, WithRelay(s, m), fs)
           /\ Base(s, fs).relayed \subseteq Base(WithRelay(s, m), fs).relayed
<1> DEFINE t == WithRelay(s, m)
<1>1. /\ t.relayed = s.relayed \cup {m}
      /\ t.nonce = [s.nonce EXCEPT ![m.target] = m.nonce]
  BY DEF WithRelay, ChainState
<1>2. /\ s.nonce \in [Chains -> Nonces] /\ m.target \in Chains /\ m.nonce \in Nonces
      /\ s.relayed \subseteq Messages
  BY DEF ChainState, Messages
<1>3. Nonces \subseteq Nat
  BY DEF Nonces
<1> HIDE DEF t
<1>4. \A r \in s.relayed : r.target \in Chains /\ r.nonce \in Nat
  BY <1>2, <1>3 DEF Messages
<1>5. \A r \in s.relayed : r.nonce <= t.nonce[r.target]
  <2> SUFFICES ASSUME NEW r \in s.relayed PROVE r.nonce <= t.nonce[r.target]
    OBVIOUS
  <2>1. r.nonce <= s.nonce[r.target]
    BY DEF StackInv, RelayInv
  <2>2. CASE r.target = m.target
    <3>1. t.nonce[r.target] = s.nonce[r.target] + 1
      BY <1>1, <1>2, <2>2
    <3>2. s.nonce[r.target] \in Nat
      BY <1>2, <1>3, <1>4
    <3> QED BY <1>4, <2>1, <3>1, <3>2
  <2>3. CASE r.target # m.target
    BY <1>1, <1>2, <1>4, <2>1, <2>3
  <2> QED BY <2>2, <2>3
<1>6. \A r \in s.relayed : ~(r.target = m.target /\ r.nonce = m.nonce)
  <2> SUFFICES ASSUME NEW r \in s.relayed, r.target = m.target, r.nonce = m.nonce
               PROVE  FALSE
    OBVIOUS
  <2>1. r.nonce <= s.nonce[m.target]
    BY DEF StackInv, RelayInv
  <2>2. s.nonce[m.target] \in Nat
    BY <1>2, <1>3
  <2> QED BY <2>1, <2>2
<1>7. RelayInv(c, t)
  <2>1. \A r \in t.relayed : r.source = c /\ r.nonce <= t.nonce[r.target]
    <3>1. m.nonce <= t.nonce[m.target]
      <4>1. t.nonce[m.target] = m.nonce
        BY <1>1, <1>2
      <4>2. m.nonce \in Nat
        BY <1>2, <1>3
      <4> QED BY <4>1, <4>2
    <3> QED BY <1>1, <1>5, <3>1 DEF StackInv, RelayInv
  <2>2. \A m1, m2 \in t.relayed :
          m1.target = m2.target /\ m1.nonce = m2.nonce => m1 = m2
    BY <1>1, <1>6 DEF StackInv, RelayInv
  <2> QED BY <2>1, <2>2 DEF RelayInv
<1>8. CASE fs = <<>>
  BY <1>1, <1>7, <1>8 DEF StackInv, Base, t
<1>9. CASE fs # <<>>
  <2>1. Base(t, fs) = Base(s, fs)
    BY <1>9 DEF Base
  <2> QED BY <1>1, <1>7, <2>1 DEF StackInv, t
<1> QED BY <1>8, <1>9

\* Entering a dispatch leaves the log as it is.
LEMMA PushKeepsStackInv ==
    ASSUME NEW c \in Chains, NEW s \in ChainState, NEW fs \in Seq(Frame),
           StackInv(c, s, fs), NEW f \in Frame, f.start = s,
           NEW t \in ChainState, t.relayed = s.relayed, t.nonce = s.nonce
    PROVE  /\ StackInv(c, t, Append(fs, f))
           /\ Base(t, Append(fs, f)).relayed = Base(s, fs).relayed
<1> DEFINE gs == Append(fs, f)
           n == Len(fs)
<1>1. /\ n \in Nat /\ Len(gs) = n + 1 /\ gs[n + 1] = f
      /\ \A i \in 1 .. n : gs[i] = fs[i]
  OBVIOUS
<1>2. gs # <<>> /\ (fs = <<>> <=> n = 0)
  <2>1. Len(gs) # 0
    BY <1>1
  <2> QED BY <2>1
<1> HIDE DEF gs
<1>3. Base(t, gs) = Base(s, fs)
  <2>1. CASE n = 0
    BY <1>1, <1>2, <2>1 DEF Base
  <2>2. CASE n # 0
    <3>1. 1 \in 1 .. n
      BY <1>1, <2>2
    <3> QED BY <1>1, <1>2, <2>2, <3>1 DEF Base
  <2> QED BY <2>1, <2>2
<1>4. RelayInv(c, t)
  BY DEF StackInv, RelayInv
<1>5. \A i \in 1 .. n + 1 : /\ RelayInv(c, gs[i].start)
                            /\ Base(s, fs).relayed \subseteq gs[i].start.relayed
  <2> SUFFICES ASSUME NEW i \in 1 .. n + 1
               PROVE  /\ RelayInv(c, gs[i].start)
                      /\ Base(s, fs).relayed \subseteq gs[i].start.relayed
    OBVIOUS
  <2>1. i \in 1 .. n \/ i = n + 1
    BY <1>1
  <2>2. CASE i \in 1 .. n
    BY <1>1, <2>2 DEF StackInv
  <2>3. CASE i = n + 1
    BY <1>1, <2>3 DEF StackInv
  <2> QED BY <2>1, <2>2, <2>3
<1>6. StackInv(c, t, gs)
  BY <1>1, <1>3, <1>4, <1>5 DEF StackInv
<1> QED BY <1>3, <1>6 DEF gs

\* Leaving a dispatch, with its effects or without them, keeps the committed log.
LEMMA PopKeepsStackInv ==
    ASSUME NEW c \in Chains, NEW s \in ChainState, NEW fs \in Seq(Frame),
           StackInv(c, s, fs), fs # <<>>, NEW t \in ChainState,
           \/ t.relayed = s.relayed /\ t.nonce = s.nonce
           \/ t.relayed = fs[Len(fs)].start.relayed /\ t.nonce = fs[Len(fs)].start.nonce
    PROVE  LET gs == SubSeq(fs, 1, Len(fs) - 1)
           IN  /\ StackInv(c, t, gs)
               /\ Base(s, fs).relayed \subseteq Base(t, gs).relayed
<1> DEFINE n == Len(fs)
           gs == SubSeq(fs, 1, n - 1)
<1>1. /\ n \in Nat /\ n # 0 /\ n - 1 \in Nat
      /\ Len(gs) = n - 1
      /\ gs \in Seq(Frame)
      /\ \A i \in 1 .. n - 1 : gs[i] = fs[i]
  BY PopStack
<1> HIDE DEF gs
<1>2. n \in 1 .. n
  BY <1>1
<1>3. RelayInv(c, t) /\ Base(s, fs).relayed \subseteq t.relayed
  BY <1>2 DEF StackInv, RelayInv
<1>4. \A i \in 1 .. n - 1 : /\ RelayInv(c, gs[i].start)
                            /\ Base(s, fs).relayed \subseteq gs[i].start.relayed
  <2> SUFFICES ASSUME NEW i \in 1 .. n - 1
               PROVE  /\ RelayInv(c, gs[i].start)
                      /\ Base(s, fs).relayed \subseteq gs[i].start.relayed
    OBVIOUS
  <2>1. i \in 1 .. n /\ gs[i] = fs[i]
    BY <1>1
  <2> QED BY <2>1 DEF StackInv
<1>5. CASE n = 1
  <2>1. gs = <<>>
    BY <1>1, <1>5
  <2>2. Base(t, gs) = t
    BY <2>1 DEF Base
  <2> QED BY <1>1, <1>3, <1>4, <1>5, <2>1, <2>2 DEF StackInv, gs
<1>6. CASE n # 1
  <2>1. gs # <<>> /\ 1 \in 1 .. n - 1
    BY <1>1, <1>6
  <2>2. Base(t, gs) = Base(s, fs)
    BY <1>1, <2>1 DEF Base
  <2> QED BY <1>1, <1>3, <1>4, <2>2 DEF StackInv, gs
<1> QED BY <1>5, <1>6

-----------------------------------------------------------------------------
\* A list the contract accepts from a trusted set has a signer that is not faulty.
LEMMA HonestSigner ==
    ASSUME NEW V \in SUBSET Addresses, Trusted(V),
           NEW signers \in SignerLists, Accepts(V, signers)
    PROVE  \E i \in 1 .. Len(signers) : signers[i] \in V \ Faulty
<1>1. IsFiniteSet(V) /\ Addresses \subseteq Nat
  BY GatewayAssumption, FS_Subset
<1>2. signers \in Seq(Nat)
  <2>1. PICK n \in 0 .. Cardinality(Addresses) : signers \in [1 .. n -> Addresses]
    BY DEF SignerLists
  <2>2. n \in Nat
    BY GatewayAssumption, FS_CardinalityType
  <2>3. signers \in [1 .. n -> Nat]
    BY <1>1, <2>1
  <2> QED BY <2>2, <2>3
<1> DEFINE F == Faulty \cap V
<1>3. F \in SUBSET V /\ ~(Cardinality(F) * 3 > Cardinality(V) * 2)
  <2>1. Cardinality(F) \in Nat /\ Cardinality(V) \in Nat
    BY <1>1, FS_Intersection, FS_CardinalityType
  <2> QED BY <2>1 DEF Trusted
<1> HIDE DEF F
<1>4. PICK i \in 1 .. Len(signers) : signers[i] \notin F
  BY <1>1, <1>2, <1>3, AcceptedNeedsOutsider
<1>5. signers[i] \in V
  BY <1>2, AcceptedList
<1> QED BY <1>4, <1>5 DEF F

\* What the contract's check establishes: the message is in the committed log
\* of its source chain, because one of the signers is not faulty.
LEMMA AcceptedMessageWasRelayed ==
    ASSUME TypeOK, AuthInv, NEW c \in Chains, NEW m \in Messages,
           NEW signers \in SignerLists, validateMessage(c, m, signers)
    PROVE  m \in Committed(m.source).relayed
<1>1. Validators(c) \subseteq Addresses /\ Trusted(Validators(c))
  BY DEF TypeOK, AuthInv, ValidatorsOk, Validators
<1>2. PICK i \in 1 .. Len(signers) : signers[i] \in Validators(c) \ Faulty
  BY <1>1, HonestSigner DEF validateMessage
<1>3. [signer |-> signers[i], hash |-> MessageHash(m)] \in signed
  BY <1>2 DEF validateMessage, HasSigned
<1>4. PICK r \in Messages : MessageHash(m) = MessageHash(r)
                            /\ r \in Committed(r.source).relayed
  BY <1>3 DEF AuthInv, SignedOk
<1>5. r = m
  BY <1>4 DEF MessageHash, Messages
<1> QED BY <1>4, <1>5

\* As long as no committed message is lost, signatures and calls stay justified.
LEMMA GrowingLogs ==
    ASSUME AuthInv, TypeOK, TypeOK',
           \A c \in Chains : Committed(c).relayed \subseteq Committed(c)'.relayed
    PROVE  /\ \A x \in signed : \E m \in Messages :
                 x.hash = MessageHash(m) /\ m \in Committed(m.source)'.relayed
           /\ \A c \in Chains, s \in ChainState : CallsOk(c, s) =>
                 \A i \in 1 .. Len(s.calls) :
                     /\ s.calls[i].target = c
                     /\ s.calls[i] \in Committed(s.calls[i].source)'.relayed
<1>1. \A m \in Messages : m.source \in Chains
  BY DEF Messages
<1>2. ASSUME NEW x \in signed
      PROVE  \E m \in Messages : x.hash = MessageHash(m)
                                 /\ m \in Committed(m.source)'.relayed
  <2>1. PICK m \in Messages : x.hash = MessageHash(m) /\ m \in Committed(m.source).relayed
    BY DEF AuthInv, SignedOk
  <2>2. m \in Committed(m.source)'.relayed
    BY <1>1, <2>1
  <2> QED BY <2>1, <2>2
<1>3. ASSUME NEW c \in Chains, NEW s \in ChainState, CallsOk(c, s),
             NEW i \in 1 .. Len(s.calls)
      PROVE  /\ s.calls[i].target = c
             /\ s.calls[i] \in Committed(s.calls[i].source)'.relayed
  <2>1. s.calls[i] \in Messages
    BY DEF ChainState
  <2>2. s.calls[i].target = c /\ s.calls[i] \in Committed(s.calls[i].source).relayed
    BY <1>3 DEF CallsOk
  <2>3. s.calls[i].source \in Chains
    BY <1>1, <2>1
  <2> QED BY <2>2, <2>3
<1> QED BY <1>2, <1>3

\* Updates that leave the log alone.
LEMMA UpdatesKeepLog ==
    ASSUME NEW s \in ChainState
    PROVE  /\ \A k : /\ WithFlag(s, k).relayed = s.relayed
                     /\ WithFlag(s, k).nonce = s.nonce
                     /\ WithFlag(s, k).calls = s.calls
           /\ \A k : \A b \in BOOLEAN : /\ WithEvent(s, k, b).relayed = s.relayed
                                       /\ WithEvent(s, k, b).nonce = s.nonce
                                       /\ WithEvent(s, k, b).calls = s.calls
           /\ \A m : /\ WithCall(s, m).relayed = s.relayed
                     /\ WithCall(s, m).nonce = s.nonce
                     /\ WithCall(s, m).calls = Append(s.calls, m)
           /\ \A m : WithRelay(s, m).calls = s.calls
  BY DEF WithFlag, WithEvent, WithCall, WithRelay, ChainState

\* A step that changes chain c only, keeping or extending its log, and makes no
\* call that is not justified, keeps the invariant.
LEMMA OneChainStep ==
    ASSUME TypeOK, TypeOK', AuthInv, NEW c \in Chains,
           NEW s \in ChainState, NEW fs \in Seq(Frame),
           chain' = [chain EXCEPT ![c] = s], frames' = [frames EXCEPT ![c] = fs],
           UNCHANGED <<validators, signed>>,
           StackInv(c, s, fs),
           Base(chain[c], frames[c]).relayed \subseteq Base(s, fs).relayed,
           CallsOk(c, s), \A i \in 1 .. Len(fs) : CallsOk(c, fs[i].start)
    PROVE  AuthInv'
<1>1. \A d \in Chains : \/ d = c /\ chain'[d] = s /\ frames'[d] = fs
                        \/ d # c /\ chain'[d] = chain[d] /\ frames'[d] = frames[d]
  BY DEF TypeOK
<1>2. \A d \in Chains : Committed(d)' = Base(chain'[d], frames'[d])
  BY DEF Committed, Base
<1>3. \A d \in Chains : Committed(d).relayed \subseteq Committed(d)'.relayed
  <2> SUFFICES ASSUME NEW d \in Chains
               PROVE  Committed(d).relayed \subseteq Committed(d)'.relayed
    OBVIOUS
  <2>1. Committed(d) = Base(chain[d], frames[d]) /\ Committed(d)' = Base(chain'[d], frames'[d])
    BY <1>2, CommittedIsBase
  <2> QED BY <1>1, <2>1
<1>4. StacksOk'
  <2> SUFFICES ASSUME NEW d \in Chains PROVE StackInv(d, chain'[d], frames'[d])
    BY DEF StacksOk
  <2> QED BY <1>1 DEF AuthInv, StacksOk
<1>5. SignedOk'
  BY <1>3, GrowingLogs DEF SignedOk
<1>6. \A d \in Chains, u \in ChainState : CallsOk(d, u) => CallsOk(d, u)'
  BY <1>3, GrowingLogs DEF CallsOk
<1>7. AllCallsOk'
  <2> SUFFICES ASSUME NEW d \in Chains
               PROVE  /\ CallsOk(d, chain[d])'
                      /\ \A i \in 1 .. Len(frames'[d]) : CallsOk(d, frames[d][i].start)'
    BY DEF AllCallsOk
  <2>1. chain'[d] \in ChainState /\ \A i \in 1 .. Len(frames'[d]) :
                                        frames'[d][i].start \in ChainState
    <3>1. chain'[d] \in ChainState /\ frames'[d] \in Seq(Frame)
      BY DEF TypeOK
    <3>2. \A i \in 1 .. Len(frames'[d]) : frames'[d][i] \in Frame
      BY <3>1
    <3> QED BY <3>1, <3>2 DEF Frame
  <2>2. CallsOk(d, chain'[d]) /\ \A i \in 1 .. Len(frames'[d]) : CallsOk(d, frames'[d][i].start)
    BY <1>1 DEF AuthInv, AllCallsOk
  <2> QED BY <1>6, <2>1, <2>2
<1> QED BY <1>4, <1>5, <1>7 DEF AuthInv, ValidatorsOk

\* The invariant is inductive, given the types.
LEMMA AuthInvStep == TypeOK /\ AuthInv /\ [Next]_vars => AuthInv'
<1> SUFFICES ASSUME TypeOK, AuthInv, [Next]_vars PROVE AuthInv'
  OBVIOUS
<1>t. TypeOK'
  BY TypeStep
<1>y. \A c \in Chains : chain[c] \in ChainState /\ frames[c] \in Seq(Frame)
  BY DEF TypeOK
<1>i. \A c \in Chains : /\ StackInv(c, chain[c], frames[c])
                        /\ CallsOk(c, chain[c])
                        /\ \A i \in 1 .. Len(frames[c]) : CallsOk(c, frames[c][i].start)
  BY DEF AuthInv, StacksOk, AllCallsOk
<1>f. \A c \in Chains : frames = [frames EXCEPT ![c] = frames[c]]
  BY DEF TypeOK
\* A state with the calls of another has its justifications.
<1>c. \A c \in Chains : \A s, u : s.calls = u.calls /\ CallsOk(c, u) => CallsOk(c, s)
  BY DEF CallsOk
<1>u. ASSUME UNCHANGED <<chain, frames>> PROVE StacksOk' /\ AllCallsOk'
             /\ \A c : Committed(c)' = Committed(c)
  <2>1. \A c : Committed(c)' = Committed(c)
    BY <1>u DEF Committed
  <2>2. StacksOk'
    BY <1>u DEF AuthInv, StacksOk
  <2>3. \A c, s : CallsOk(c, s)' <=> CallsOk(c, s)
    BY <2>1 DEF CallsOk
  <2>4. AllCallsOk'
    BY <1>i, <1>u, <2>3 DEF AllCallsOk
  <2> QED BY <2>1, <2>2, <2>4
<1>a. ASSUME NEW c \in Chains, NEW app \in Apps, NEW t \in Chains, NEW to \in Targets,
             NEW call \in CallData, emitRelayed(c, app, t, to, call)
      PROVE  AuthInv'
  <2> DEFINE m == [source |-> c, target |-> t, to |-> to, call |-> call,
                   nonce |-> chain[c].nonce[t] + 1]
             s == WithRelay(chain[c], m)
  <2>1. m \in Messages /\ m.source = c /\ m.nonce = chain[c].nonce[m.target] + 1
    <3>1. chain[c].nonce[t] \in Nonces /\ chain[c].nonce[t] < MaxNonce
      BY <1>a, <1>y DEF ChainState, emitRelayed
    <3>2. chain[c].nonce[t] + 1 \in Nonces
      BY <3>1, GatewayAssumption DEF Nonces
    <3> QED BY <3>2 DEF Messages
  <2>2. /\ chain' = [chain EXCEPT ![c] = s] /\ frames' = frames
        /\ UNCHANGED <<validators, signed>>
    BY <1>a DEF emitRelayed
  <2> HIDE DEF m
  <2>3. s \in ChainState
    BY <2>1, <1>y, UpdateTypes
  <2>4. /\ StackInv(c, s, frames[c])
        /\ Base(chain[c], frames[c]).relayed \subseteq Base(s, frames[c]).relayed
    BY <2>1, <1>i, <1>y, RelayKeepsStackInv
  <2>5. CallsOk(c, s)
    BY <1>i, <1>c, <1>y, UpdatesKeepLog
  <2> HIDE DEF s
  <2>6. frames' = [frames EXCEPT ![c] = frames[c]]
    BY <1>f, <2>2
  <2> QED BY <1>t, <1>y, <1>i, <2>2, <2>3, <2>4, <2>5, <2>6, OneChainStep
<1>1. CASE \E c, t \in Chains, app \in Apps, to \in Targets, d \in Payloads :
              relay(c, app, t, to, d) \/ relayWithMetadata(c, app, t, to, d)
  <2>1. PICK c \in Chains, t \in Chains, app \in Apps, to \in Targets, d \in Payloads :
            relay(c, app, t, to, d) \/ relayWithMetadata(c, app, t, to, d)
    BY <1>1
  <2>2. d \in CallData /\ WithMetadata(c, app, d) \in CallData
    BY DEF CallData, WithMetadata
  <2> QED BY <2>1, <2>2, <1>a DEF relay, relayWithMetadata
<1>2. CASE \E c \in Chains, app \in Apps : register(c, app) \/ unregister(c, app)
  <2>1. UNCHANGED <<chain, frames, validators, signed>>
    BY <1>2 DEF register, unregister
  <2> QED BY <1>u, <2>1 DEF AuthInv, ValidatorsOk, SignedOk
<1>3. CASE \E c \in Chains, m \in Managers, v \in Addresses :
              addValidator(c, m, v) \/ removeValidator(c, m, v)
  <2>1. PICK c \in Chains, m \in Managers, V \in SUBSET Addresses : setValidators(c, m, V)
    BY <1>3 DEF addValidator, removeValidator, TypeOK
  <2>2. UNCHANGED <<chain, frames, signed>>
    BY <2>1 DEF setValidators
  <2>3. ValidatorsOk'
    <3> SUFFICES ASSUME NEW d \in Chains, NEW n \in Managers
                 PROVE  Trusted(validators'[d][n])
      BY DEF ValidatorsOk
    <3>1. validators'[d][n] = validators[d][n] \/ validators'[d][n] = V
      BY <2>1 DEF setValidators, TypeOK
    <3> QED BY <2>1, <3>1 DEF setValidators, AuthInv, ValidatorsOk
  <2> QED BY <1>u, <2>2, <2>3 DEF AuthInv, SignedOk
<1>4. CASE \E c \in Chains, m \in Managers : setValidatorManager(c, m)
  <2>1. UNCHANGED <<chain, frames, validators, signed>>
    BY <1>4 DEF setValidatorManager
  <2> QED BY <1>u, <2>1 DEF AuthInv, ValidatorsOk, SignedOk
<1>5. CASE \E v \in Addresses, m \in Messages : sign(v, m)
  <2>1. PICK v \in Addresses, m \in Messages : sign(v, m)
    BY <1>5
  <2>2. UNCHANGED <<chain, frames, validators>>
    BY <2>1 DEF sign
  <2>3. SignedOk'
    <3>1. signed' = signed \cup {[signer |-> v, hash |-> MessageHash(m)]}
          /\ m \in Committed(m.source).relayed
      BY <2>1 DEF sign
    <3>2. \A c : Committed(c)' = Committed(c)
      BY <1>u, <2>2
    <3> QED BY <3>1, <3>2 DEF SignedOk, AuthInv
  <2> QED BY <1>u, <2>2, <2>3 DEF AuthInv, ValidatorsOk
<1>6. CASE \E c \in Chains, m \in Messages, signers \in SignerLists :
              dispatch(c, m, signers)
  <2>1. PICK c \in Chains, m \in Messages, signers \in SignerLists :
            dispatch(c, m, signers)
    BY <1>6
  <2>2. m.target = c /\ UNCHANGED <<validators, signed>>
    BY <2>1 DEF dispatch
  <2>3. m \in Committed(m.source).relayed
    BY <2>1, AcceptedMessageWasRelayed DEF dispatch
  <2> DEFINE u == WithFlag(chain[c], Key(m))
  <2>4. u \in ChainState /\ Key(m) \in Chains \X Nonces
    BY <1>y, KeyType, UpdateTypes
  <2>5. u.relayed = chain[c].relayed /\ u.nonce = chain[c].nonce /\ u.calls = chain[c].calls
    BY <1>y, UpdatesKeepLog
  <2>6. CASE enterCall(c, m)
    <3> DEFINE s == WithCall(u, m)
               f == [msg |-> m, start |-> chain[c]]
    <3>1. /\ chain' = [chain EXCEPT ![c] = s]
          /\ frames' = [frames EXCEPT ![c] = Append(frames[c], f)]
      BY <2>6 DEF enterCall
    <3>2. f \in Frame /\ f.start = chain[c]
      BY <1>y DEF Frame
    <3> HIDE DEF f, u
    <3>3. s \in ChainState
      BY <2>4, UpdateTypes
    <3>4. s.relayed = chain[c].relayed /\ s.nonce = chain[c].nonce
          /\ s.calls = Append(chain[c].calls, m)
      BY <2>4, <2>5, UpdatesKeepLog
    <3> HIDE DEF s
    <3>5. /\ StackInv(c, s, Append(frames[c], f))
          /\ Base(s, Append(frames[c], f)).relayed = Base(chain[c], frames[c]).relayed
      BY <1>i, <1>y, <3>2, <3>3, <3>4, PushKeepsStackInv
    <3>6. CallsOk(c, s)
      <4>1. chain[c].calls \in Seq(Messages)
        BY <1>y DEF ChainState
      <4>2. \A i \in 1 .. Len(s.calls) :
                s.calls[i] = m \/ \E j \in 1 .. Len(chain[c].calls) : s.calls[i] = chain[c].calls[j]
        BY <3>4, <4>1
      <4> QED BY <1>i, <2>2, <2>3, <4>2 DEF CallsOk
    <3>7. \A i \in 1 .. Len(Append(frames[c], f)) : CallsOk(c, Append(frames[c], f)[i].start)
      <4>1. \A i \in 1 .. Len(Append(frames[c], f)) :
               \/ Append(frames[c], f)[i] = f
               \/ i \in 1 .. Len(frames[c]) /\ Append(frames[c], f)[i] = frames[c][i]
        BY <1>y, <3>2
      <4> QED BY <1>i, <3>2, <4>1
    <3>8. Append(frames[c], f) \in Seq(Frame)
      BY <1>y, <3>2
    <3> DEFINE gs == Append(frames[c], f)
    <3> HIDE DEF gs
    <3>9. /\ frames' = [frames EXCEPT ![c] = gs] /\ gs \in Seq(Frame)
          /\ StackInv(c, s, gs)
          /\ Base(chain[c], frames[c]).relayed \subseteq Base(s, gs).relayed
          /\ \A i \in 1 .. Len(gs) : CallsOk(c, gs[i].start)
      BY <3>1, <3>5, <3>7, <3>8 DEF gs
    <3> QED BY <1>t, <2>2, <3>1, <3>3, <3>6, <3>9, OneChainStep
  <2>7. CASE skipCall(c, m)
    <3> DEFINE s == WithEvent(u, Key(m), FALSE)
    <3>1. chain' = [chain EXCEPT ![c] = s] /\ frames' = [frames EXCEPT ![c] = frames[c]]
      BY <2>7, <1>f DEF skipCall
    <3> HIDE DEF u
    <3>2. s \in ChainState
      BY <2>4, UpdateTypes
    <3>3. s.relayed = chain[c].relayed /\ s.nonce = chain[c].nonce /\ s.calls = chain[c].calls
      BY <2>4, <2>5, UpdatesKeepLog
    <3> HIDE DEF s
    <3>4. CallsOk(c, s)
      BY <1>i, <1>c, <3>3
    <3>5. /\ StackInv(c, s, frames[c])
          /\ Base(chain[c], frames[c]).relayed \subseteq Base(s, frames[c]).relayed
      BY <1>i, <3>3 DEF StackInv, RelayInv, Base
    <3> QED BY <1>t, <1>y, <1>i, <2>2, <3>1, <3>2, <3>4, <3>5, OneChainStep
  <2> QED BY <2>1, <2>6, <2>7 DEF dispatch
<1>7. CASE \E c \in Chains : callSucceeds(c) \/ callFails(c) \/ dispatchReverts(c)
  <2>1. PICK c \in Chains : callSucceeds(c) \/ callFails(c) \/ dispatchReverts(c)
    BY <1>7
  <2> DEFINE k == Key(Top(c).msg)
             gs == SubSeq(frames[c], 1, Len(frames[c]) - 1)
  <2>2. frames[c] # <<>> /\ frames' = [frames EXCEPT ![c] = gs]
        /\ UNCHANGED <<validators, signed>>
    BY <2>1 DEF callSucceeds, callFails, dispatchReverts, Pop
  <2>3. Top(c).start \in ChainState /\ k \in Chains \X Nonces /\ gs \in Seq(Frame)
    BY <2>2, TopFrame, KeyType
  <2>4. /\ Len(frames[c]) \in 1 .. Len(frames[c]) /\ Len(gs) = Len(frames[c]) - 1
        /\ \A i \in 1 .. Len(gs) : gs[i] = frames[c][i] /\ i \in 1 .. Len(frames[c])
    BY <1>y, <2>2, PopStack
  <2>5. CallsOk(c, Top(c).start) /\ \A i \in 1 .. Len(gs) : CallsOk(c, gs[i].start)
    BY <1>i, <2>4 DEF Top
  <2>6. PICK s : /\ chain' = [chain EXCEPT ![c] = s]
                 /\ \/ s = WithEvent(chain[c], k, TRUE)
                    \/ s = WithEvent(WithFlag(Top(c).start, k), k, FALSE)
                    \/ s = Top(c).start
    BY <2>1 DEF callSucceeds, callFails, dispatchReverts
  <2> HIDE DEF k, gs
  <2>7. /\ s \in ChainState
        /\ \/ s.relayed = chain[c].relayed /\ s.nonce = chain[c].nonce
              /\ s.calls = chain[c].calls
           \/ s.relayed = Top(c).start.relayed /\ s.nonce = Top(c).start.nonce
              /\ s.calls = Top(c).start.calls
    <3>1. CASE s = WithEvent(chain[c], k, TRUE)
      <4>1. chain[c] \in ChainState
        BY <1>y
      <4>2. s \in ChainState
        BY <2>3, <3>1, <4>1, UpdateTypes
      <4>3. s.relayed = chain[c].relayed /\ s.nonce = chain[c].nonce
            /\ s.calls = chain[c].calls
        BY <3>1, <4>1, UpdatesKeepLog
      <4> QED BY <4>2, <4>3
    <3>2. CASE s = WithEvent(WithFlag(Top(c).start, k), k, FALSE)
      <4>1. WithFlag(Top(c).start, k) \in ChainState
        BY <2>3, UpdateTypes
      <4>2. s \in ChainState
        BY <2>3, <3>2, <4>1, UpdateTypes
      <4>3. s.relayed = Top(c).start.relayed /\ s.nonce = Top(c).start.nonce
            /\ s.calls = Top(c).start.calls
        <5> DEFINE u == WithFlag(Top(c).start, k)
        <5>1. u.relayed = Top(c).start.relayed /\ u.nonce = Top(c).start.nonce
              /\ u.calls = Top(c).start.calls
          BY <2>3, UpdatesKeepLog
        <5> HIDE DEF u
        <5>2. u \in ChainState /\ s = WithEvent(u, k, FALSE)
          BY <3>2, <4>1 DEF u
        <5>3. s.relayed = u.relayed /\ s.nonce = u.nonce /\ s.calls = u.calls
          BY <5>2, UpdatesKeepLog
        <5> QED BY <5>1, <5>3
      <4> QED BY <4>2, <4>3
    <3> QED BY <2>3, <2>6, <3>1, <3>2
  <2>8. CallsOk(c, s)
    BY <1>c, <1>i, <2>5, <2>7
  <2>9. StackInv(c, s, gs) /\ Base(chain[c], frames[c]).relayed \subseteq Base(s, gs).relayed
    BY <1>i, <1>y, <2>2, <2>7, PopKeepsStackInv DEF Top, gs
  <2> QED BY <1>t, <2>2, <2>3, <2>5, <2>6, <2>7, <2>8, <2>9, OneChainStep
<1>8. CASE UNCHANGED vars
  <2>1. UNCHANGED <<chain, frames, validators, signed>>
    BY <1>8 DEF vars
  <2> QED BY <1>u, <2>1 DEF AuthInv, ValidatorsOk, SignedOk
<1> QED BY <1>1, <1>2, <1>3, <1>4, <1>5, <1>6, <1>7, <1>8 DEF Next

\* Before anything is relayed or signed.
LEMMA AuthInvInit == Init => AuthInv
<1> SUFFICES ASSUME Init PROVE AuthInv
  OBVIOUS
<1>1. \A c \in Chains : chain[c] = InitialState /\ frames[c] = <<>>
  BY DEF Init
<1>2. StacksOk
  BY <1>1 DEF StacksOk, StackInv, RelayInv, Base, InitialState
<1>3. AllCallsOk
  BY <1>1 DEF AllCallsOk, CallsOk, InitialState
<1>4. ValidatorsOk /\ SignedOk
  BY GatewayAssumption DEF Init, ValidatorsOk, SignedOk
<1> QED BY <1>2, <1>3, <1>4 DEF AuthInv

\* Only relayed messages are called: for any number of chains and validators,
\* every call a gateway made is the one message that the source chain's
\* committed log holds for it, as long as the owners never let faulty keys
\* become a supermajority of a validator set.
THEOREM OnlyRelayedIsCalled == Spec => []CallsAreRelayed
<1>1. TypeOK /\ AuthInv => CallsAreRelayed
  <2> SUFFICES ASSUME TypeOK, AuthInv, NEW c \in Chains,
                      NEW i \in 1 .. Len(chain[c].calls)
               PROVE  {r \in Committed(chain[c].calls[i].source).relayed :
                         r.target = c /\ r.nonce = chain[c].calls[i].nonce}
                      = {chain[c].calls[i]}
    BY DEF CallsAreRelayed
  <2> DEFINE m == chain[c].calls[i]
  <2>1. m \in Messages /\ m.source \in Chains
    <3>1. chain[c].calls \in Seq(Messages)
      BY DEF TypeOK, ChainState
    <3>2. m \in Messages
      BY <3>1
    <3> QED BY <3>2 DEF Messages
  <2>2. m.target = c /\ m \in Committed(m.source).relayed
    BY DEF AuthInv, AllCallsOk, CallsOk
  <2> HIDE DEF m
  <2>3. RelayInv(m.source, Committed(m.source))
    <3>1. StackInv(m.source, chain[m.source], frames[m.source])
      BY <2>1 DEF AuthInv, StacksOk
    <3>2. CASE frames[m.source] = <<>>
      BY <3>1, <3>2 DEF StackInv, Committed
    <3>3. CASE frames[m.source] # <<>>
      <4>1. frames[m.source] \in Seq(Frame)
        BY <2>1 DEF TypeOK
      <4>2. 1 \in 1 .. Len(frames[m.source])
        BY <3>3, <4>1
      <4> QED BY <3>1, <3>3, <4>2 DEF StackInv, Committed
    <3> QED BY <3>2, <3>3
  <2>4. {r \in Committed(m.source).relayed : r.target = c /\ r.nonce = m.nonce} = {m}
    BY <2>2, <2>3 DEF RelayInv
  <2> QED BY <2>4 DEF m
<1>2. Init => TypeOK
  BY InitialStateType, GatewayAssumption DEF Init, TypeOK
<1> QED BY <1>1, <1>2, AuthInvInit, AuthInvStep, TypeStep, PTL DEF Spec
=============================================================================
