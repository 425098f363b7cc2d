----------------------- MODULE GatewayRefinementProofs -----------------------
(***************************************************************************)
(* Proofs that the gateways implement MessageBridge, and that the          *)
(* operators' audit finds exactly the stuck messages.  Both are about what *)
(* transactions commit, so the invariant compares every state a stack of   *)
(* dispatches may fall back to with the state the transaction began in.    *)
(***************************************************************************)
EXTENDS ChainGatewayProofs, GatewayRefinement, OperatorTasks

-----------------------------------------------------------------------------
(* The inductive invariant *)

\* s is what a transaction made of the committed state b: no event or flag is
\* taken back, the calls b holds stand, and those made since are of messages b
\* had not spent.
Grows(b, s) ==
    /\ b.relayed \subseteq s.relayed
    /\ b.dispatched \subseteq s.dispatched
    /\ Len(b.calls) <= Len(s.calls)
    /\ \A i \in 1 .. Len(b.calls) : s.calls[i] = b.calls[i]
    /\ \A i \in Len(b.calls) + 1 .. Len(s.calls) : Key(s.calls[i]) \notin b.dispatched

\* Every nonce up to the counter was given to a message, and no other.
Numbered(s) ==
    \A t \in Chains : \A i \in Nat :
        i \in 1 .. s.nonce[t] <=> \E m \in s.relayed : m.target = t /\ m.nonce = i

\* Messages are flagged on chain c only if the logs L hold them for chain c.
FlagsRelayed(c, s, L) ==
    \A k \in s.dispatched : \E m \in L[k[1]] : m.target = c /\ Key(m) = k

LedgerOk(c, b, s, L) == Grows(b, s) /\ Numbered(s) /\ FlagsRelayed(c, s, L)

\* The current state of a chain and every state its stack may fall back to.
LedgerInv(c, s, fs, L) ==
    /\ LedgerOk(c, Base(s, fs), s, L)
    /\ \A i \in 1 .. Len(fs) : LedgerOk(c, Base(s, fs), fs[i].start, L)

\* The committed logs of all chains.
Logs == [d \in Chains |-> Committed(d).relayed]

LedgersOk == \A c \in Chains : LedgerInv(c, chain[c], frames[c], Logs)

\* The inductive invariant: those of ChainGatewayProofs, and this.
CommitInv == TypeOK /\ GatewayInv /\ AuthInv /\ LedgersOk

-----------------------------------------------------------------------------
(* One chain *)

\* A transaction that has done nothing yet.
LEMMA GrowsReflexive ==
    ASSUME NEW s \in ChainState
    PROVE  Grows(s, s)
<1>1. Len(s.calls) \in Nat
  BY DEF ChainState
<1> QED BY <1>1 DEF Grows

\* Spending a message that was not spent, with or without a call of it.
LEMMA GrowsBySpending ==
    ASSUME NEW b \in ChainState, NEW s \in ChainState, NEW t \in ChainState,
           Grows(b, s), NEW m \in Messages, Key(m) \notin s.dispatched,
           t.dispatched = s.dispatched \cup {Key(m)}, t.relayed = s.relayed,
           t.calls = s.calls \/ t.calls = Append(s.calls, m)
    PROVE  Grows(b, t)
<1>1. /\ s.calls \in Seq(Messages) /\ Len(s.calls) \in Nat
      /\ b.calls \in Seq(Messages) /\ Len(b.calls) \in Nat
  BY DEF ChainState
<1>2. /\ b.dispatched \subseteq t.dispatched /\ Key(m) \notin b.dispatched
      /\ b.relayed \subseteq t.relayed
  BY DEF Grows
<1>3. CASE t.calls = s.calls
  BY <1>2, <1>3 DEF Grows
<1>4. CASE t.calls = Append(s.calls, m)
  <2>1. /\ Len(t.calls) = Len(s.calls) + 1 /\ t.calls[Len(s.calls) + 1] = m
        /\ \A i \in 1 .. Len(s.calls) : t.calls[i] = s.calls[i]
    BY <1>1, <1>4
  <2>2. Len(b.calls) <= Len(s.calls)
    BY DEF Grows
  <2>3. Len(b.calls) <= Len(t.calls)
    BY <1>1, <2>1, <2>2
  <2>4. \A i \in 1 .. Len(b.calls) : t.calls[i] = b.calls[i]
    <3> SUFFICES ASSUME NEW i \in 1 .. Len(b.calls) PROVE t.calls[i] = b.calls[i]
      OBVIOUS
    <3>1. i \in 1 .. Len(s.calls)
      BY <1>1, <2>2
    <3> QED BY <2>1, <3>1 DEF Grows
  <2>5. \A i \in Len(b.calls) + 1 .. Len(t.calls) : Key(t.calls[i]) \notin b.dispatched
    <3> SUFFICES ASSUME NEW i \in Len(b.calls) + 1 .. Len(t.calls)
                 PROVE  Key(t.calls[i]) \notin b.dispatched
      OBVIOUS
    <3>0. i \in Int /\ Len(b.calls) + 1 <= i /\ i <= Len(s.calls) + 1
      BY <1>1, <2>1
    <3>1. CASE i = Len(s.calls) + 1
      BY <1>2, <2>1, <3>1
    <3>2. CASE i # Len(s.calls) + 1
      <4>1. i \in Len(b.calls) + 1 .. Len(s.calls) /\ i \in 1 .. Len(s.calls)
        BY <1>1, <3>0, <3>2
      <4> QED BY <2>1, <4>1 DEF Grows
    <3> QED BY <3>1, <3>2
  <2> QED BY <1>2, <2>3, <2>4, <2>5 DEF Grows
<1> QED BY <1>3, <1>4

\* Numbering is kept by an increment that comes with a message.
LEMMA RelayKeepsNumbers ==
    ASSUME NEW s \in ChainState, Numbered(s), NEW m \in Messages,
           m.nonce = s.nonce[m.target] + 1
    PROVE  Numbered(WithRelay(s, m))
<1> DEFINE u == WithRelay(s, m)
<1>1. /\ u.relayed = s.relayed \cup {m}
      /\ u.nonce = [s.nonce EXCEPT ![m.target] = m.nonce]
  BY DEF WithRelay, ChainState
<1>2. s.nonce \in [Chains -> Nonces] /\ m.target \in Chains /\ Nonces \subseteq Nat
  BY DEF ChainState, Messages, Nonces
<1> HIDE DEF u
<1> SUFFICES ASSUME NEW t \in Chains, NEW i \in Nat
             PROVE  i \in 1 .. u.nonce[t]
                    <=> \E r \in u.relayed : r.target = t /\ r.nonce = i
  BY DEF Numbered, u
<1>3. i \in 1 .. s.nonce[t] <=> \E r \in s.relayed : r.target = t /\ r.nonce = i
  BY DEF Numbered
<1>4. CASE t = m.target
  <2>1. u.nonce[t] = s.nonce[t] + 1 /\ s.nonce[t] \in Nat /\ m.nonce = s.nonce[t] + 1
    BY <1>1, <1>2, <1>4
  <2>2. i \in 1 .. u.nonce[t] <=> i \in 1 .. s.nonce[t] \/ i = m.nonce
    BY <2>1
  <2> QED BY <1>1, <1>3, <1>4, <2>2
<1>5. CASE t # m.target
  <2>1. u.nonce[t] = s.nonce[t]
    BY <1>1, <1>2, <1>5
  <2> QED BY <1>1, <1>3, <1>5, <2>1
<1> QED BY <1>4, <1>5

\* The ledger of a state does not depend on its events.
LEMMA LedgerOfParts ==
    ASSUME NEW c, NEW b, NEW L, NEW s, NEW t, LedgerOk(c, b, s, L),
           t.dispatched = s.dispatched, t.calls = s.calls,
           t.nonce = s.nonce, t.relayed = s.relayed
    PROVE  LedgerOk(c, b, t, L)
  BY DEF LedgerOk, Grows, Numbered, FlagsRelayed

\* The committed state is itself in order.
LEMMA BaseOfLedger ==
    ASSUME NEW c, NEW L, NEW s \in ChainState, NEW fs \in Seq(Frame),
           LedgerInv(c, s, fs, L)
    PROVE  /\ Base(s, fs) \in ChainState
           /\ LedgerOk(c, Base(s, fs), Base(s, fs), L)
<1>1. CASE fs = <<>>
  BY <1>1 DEF LedgerInv, Base
<1>2. CASE fs # <<>>
  <2>1. 1 \in 1 .. Len(fs) /\ fs[1] \in Frame
    BY <1>2
  <2> QED BY <1>2, <2>1 DEF LedgerInv, Base, Frame
<1> QED BY <1>1, <1>2

\* A step that leaves the stack alone and makes of the state s a state t that
\* has grown from all that s has grown from.
LEMMA FlatStepKeepsLedger ==
    ASSUME NEW c, NEW L, NEW s \in ChainState, NEW t \in ChainState,
           NEW fs \in Seq(Frame), LedgerInv(c, s, fs, L),
           \A b \in ChainState : Grows(b, s) => Grows(b, t),
           Numbered(t), FlagsRelayed(c, t, L)
    PROVE  LedgerInv(c, t, fs, L) /\ Grows(Base(s, fs), Base(t, fs))
<1>1. Grows(s, t) /\ Grows(t, t)
  BY GrowsReflexive
<1>2. CASE fs = <<>>
  BY <1>1, <1>2 DEF LedgerInv, LedgerOk, Base
<1>3. CASE fs # <<>>
  <2>1. Base(t, fs) = Base(s, fs) /\ Base(s, fs) \in ChainState
    BY <1>3, BaseOfLedger DEF Base
  <2> QED BY <2>1, GrowsReflexive DEF LedgerInv, LedgerOk
<1> QED BY <1>2, <1>3

\* _relay in a transaction.
LEMMA RelayKeepsLedger ==
    ASSUME NEW c \in Chains, NEW L, NEW s \in ChainState, NEW fs \in Seq(Frame),
           LedgerInv(c, s, fs, L), NEW m \in Messages,
           m.nonce = s.nonce[m.target] + 1
    PROVE  /\ LedgerInv(c, WithRelay(s, m), fs, L)
           /\ Grows(Base(s, fs), Base(WithRelay(s, m), fs))
<1> DEFINE t == WithRelay(s, m)
<1>1. t \in ChainState
  BY UpdateTypes
<1>2. t.calls = s.calls /\ t.dispatched = s.dispatched /\ s.relayed \subseteq t.relayed
  BY DEF WithRelay, ChainState
<1>3. Numbered(t)
  BY RelayKeepsNumbers DEF LedgerInv, LedgerOk
<1> HIDE DEF t
<1>4. FlagsRelayed(c, t, L)
  BY <1>2 DEF LedgerInv, LedgerOk, FlagsRelayed
<1>5. \A b \in ChainState : Grows(b, s) => Grows(b, t)
  BY <1>2 DEF Grows
<1>6. LedgerInv(c, t, fs, L) /\ Grows(Base(s, fs), Base(t, fs))
  BY <1>1, <1>3, <1>4, <1>5, FlatStepKeepsLedger
<1> QED BY <1>6 DEF t

\* A dispatch of an address without code: one transaction, or a step of one.
LEMMA SkipKeepsLedger ==
    ASSUME NEW c \in Chains, NEW L, NEW s \in ChainState, NEW fs \in Seq(Frame),
           LedgerInv(c, s, fs, L), NEW m \in Messages,
           Key(m) \notin s.dispatched, m.target = c, m \in L[m.source]
    PROVE  LET t == WithEvent(WithFlag(s, Key(m)), Key(m), FALSE)
           IN  LedgerInv(c, t, fs, L) /\ Grows(Base(s, fs), Base(t, fs))
<1> DEFINE k == Key(m)
           t == WithEvent(WithFlag(s, k), k, FALSE)
<1>1. t \in ChainState
  BY KeyType, UpdateTypes
<1>2. /\ t.calls = s.calls /\ t.dispatched = s.dispatched \cup {k}
      /\ t.nonce = s.nonce /\ t.relayed = s.relayed
  BY DEF WithEvent, WithFlag, ChainState
<1>3. k[1] = m.source
  BY DEF Key
<1> HIDE DEF t
<1>4. FlagsRelayed(c, t, L)
  BY <1>2, <1>3 DEF LedgerInv, LedgerOk, FlagsRelayed
<1>5. Numbered(t)
  BY <1>2 DEF LedgerInv, LedgerOk, Numbered
<1>6. \A b \in ChainState : Grows(b, s) => Grows(b, t)
  BY <1>1, <1>2, GrowsBySpending
<1>7. LedgerInv(c, t, fs, L) /\ Grows(Base(s, fs), Base(t, fs))
  BY <1>1, <1>4, <1>5, <1>6, FlatStepKeepsLedger
<1> QED BY <1>7 DEF t

\* A dispatch that calls its target commits nothing yet.
LEMMA PushKeepsLedger ==
    ASSUME NEW c \in Chains, NEW L, NEW s \in ChainState, NEW fs \in Seq(Frame),
           LedgerInv(c, s, fs, L), NEW m \in Messages,
           Key(m) \notin s.dispatched, m.target = c, m \in L[m.source]
    PROVE  LET t == WithCall(WithFlag(s, Key(m)), m)
               gs == Append(fs, [msg |-> m, start |-> s])
           IN  LedgerInv(c, t, gs, L) /\ Base(t, gs) = Base(s, fs)
<1> DEFINE k == Key(m)
           t == WithCall(WithFlag(s, k), m)
           f == [msg |-> m, start |-> s]
           gs == Append(fs, f)
           n == Len(fs)
<1>1. t \in ChainState
  BY KeyType, UpdateTypes
<1>2. /\ t.calls = Append(s.calls, m) /\ t.dispatched = s.dispatched \cup {k}
      /\ t.nonce = s.nonce /\ t.relayed = s.relayed
  BY DEF WithCall, WithFlag, ChainState
<1>3. k[1] = m.source
  BY DEF Key
<1>4. f \in Frame /\ f.start = s
  BY DEF Frame
<1> HIDE DEF t, f
<1>5. /\ n \in Nat /\ Len(gs) = n + 1 /\ gs[n + 1] = f
      /\ \A i \in 1 .. n : gs[i] = fs[i]
  BY <1>4
<1>6. gs # <<>> /\ (fs = <<>> <=> n = 0)
  <2>1. Len(gs) # 0
    BY <1>5
  <2> QED BY <2>1
<1> HIDE DEF gs
<1>7. Base(t, gs) = Base(s, fs) /\ Base(s, fs) \in ChainState
  <2>1. CASE n = 0
    BY <1>4, <1>5, <1>6, <2>1 DEF Base
  <2>2. CASE n # 0
    <3>1. 1 \in 1 .. n
      BY <1>5, <2>2
    <3> QED BY <1>5, <1>6, <2>2, <3>1, BaseOfLedger DEF Base
  <2> QED BY <2>1, <2>2
<1>8. LedgerOk(c, Base(s, fs), t, L)
  <2>1. FlagsRelayed(c, t, L)
    BY <1>2, <1>3 DEF LedgerInv, LedgerOk, FlagsRelayed
  <2>2. Numbered(t)
    BY <1>2 DEF LedgerInv, LedgerOk, Numbered
  <2>3. Grows(Base(s, fs), t)
    BY <1>1, <1>2, <1>7, GrowsBySpending DEF LedgerInv, LedgerOk
  <2> QED BY <2>1, <2>2, <2>3 DEF LedgerOk
<1>9. ASSUME NEW i \in 1 .. n + 1 PROVE LedgerOk(c, Base(s, fs), gs[i].start, L)
  <2>1. i \in 1 .. n \/ i = n + 1
    BY <1>5
  <2>2. CASE i \in 1 .. n
    BY <1>5, <2>2 DEF LedgerInv
  <2>3. CASE i = n + 1
    BY <1>4, <1>5, <2>3 DEF LedgerInv
  <2> QED BY <2>1, <2>2, <2>3
<1>10. LedgerInv(c, t, gs, L) /\ Base(t, gs) = Base(s, fs)
  BY <1>5, <1>7, <1>8, <1>9 DEF LedgerInv
<1> QED BY <1>10 DEF t, gs, f

\* A dispatch that ends, and the outermost one commits.
LEMMA PopKeepsLedger ==
    ASSUME NEW c \in Chains, NEW L, NEW s \in ChainState, NEW fs \in Seq(Frame),
           LedgerInv(c, s, fs, L), fs # <<>>, NEW t \in ChainState,
           LedgerOk(c, Base(s, fs), t, L)
    PROVE  LET gs == SubSeq(fs, 1, Len(fs) - 1)
           IN  LedgerInv(c, t, gs, L) /\ Grows(Base(s, fs), Base(t, gs))
<1> DEFINE n == Len(fs)
           gs == SubSeq(fs, 1, n - 1)
<1>1. /\ n \in Nat /\ n # 0 /\ n - 1 \in Nat
      /\ Len(gs) = n - 1
      /\ gs \in Seq(Frame)
      /\ \A i \in 1 .. n - 1 : gs[i] = fs[i]
  BY PopStack
<1> HIDE DEF gs
<1>2. CASE n = 1
  <2>1. gs = <<>>
    BY <1>1, <1>2
  <2>2. Base(t, gs) = t
    BY <2>1 DEF Base
  <2>3. LedgerOk(c, t, t, L)
    BY GrowsReflexive DEF LedgerOk
  <2>4. LedgerInv(c, t, gs, L)
    BY <1>1, <1>2, <2>2, <2>3 DEF LedgerInv
  <2> QED BY <2>2, <2>4 DEF LedgerOk, gs
<1>3. CASE n # 1
  <2>1. gs # <<>> /\ 1 \in 1 .. n - 1
    BY <1>1, <1>3
  <2>2. Base(t, gs) = Base(s, fs)
    BY <1>1, <2>1 DEF Base
  <2>3. \A i \in 1 .. n - 1 : LedgerOk(c, Base(s, fs), gs[i].start, L)
    <3> SUFFICES ASSUME NEW i \in 1 .. n - 1
                 PROVE  LedgerOk(c, Base(s, fs), gs[i].start, L)
      OBVIOUS
    <3>1. i \in 1 .. n /\ gs[i] = fs[i]
      BY <1>1
    <3> QED BY <3>1 DEF LedgerInv
  <2>4. LedgerInv(c, t, gs, L)
    BY <1>1, <2>2, <2>3 DEF LedgerInv
  <2>5. Grows(Base(s, fs), Base(t, gs))
    BY <2>2, BaseOfLedger, GrowsReflexive
  <2> QED BY <2>4, <2>5 DEF gs
<1> QED BY <1>2, <1>3

\* The state a failed call leaves behind: what was before it, and the flag.
LEMMA FailureKeepsLedger ==
    ASSUME NEW c \in Chains, NEW L, NEW s \in ChainState, NEW fs \in Seq(Frame),
           LedgerInv(c, s, fs, L), ChainInv(s, fs), fs # <<>>
    PROVE  LET f == fs[Len(fs)]
               k == Key(f.msg)
           IN  LedgerOk(c, Base(s, fs), WithEvent(WithFlag(f.start, k), k, FALSE), L)
<1> DEFINE n == Len(fs)
           f == fs[n]
           k == Key(f.msg)
           u == f.start
           t == WithEvent(WithFlag(u, k), k, FALSE)
           b == Base(s, fs)
<1>1. n \in 1 .. n /\ f \in Frame
  BY PopStack
<1>2. f.msg \in Messages /\ u \in ChainState /\ k \in Chains \X Nonces
  BY <1>1, KeyType DEF Frame
<1>3. k \notin u.dispatched /\ k \in s.dispatched
  BY <1>1 DEF ChainInv, StateInv, Pending
<1>4. LedgerOk(c, b, u, L) /\ FlagsRelayed(c, s, L) /\ b \in ChainState
  BY <1>1, BaseOfLedger DEF LedgerInv, LedgerOk
<1> HIDE DEF b, u
<1>5. t \in ChainState
  BY <1>2, UpdateTypes
<1>6. /\ t.calls = u.calls /\ t.dispatched = u.dispatched \cup {k}
      /\ t.nonce = u.nonce /\ t.relayed = u.relayed
  BY <1>2 DEF WithEvent, WithFlag, ChainState
<1> HIDE DEF t
<1>7. Grows(b, t)
  BY <1>2, <1>3, <1>4, <1>5, <1>6, GrowsBySpending DEF LedgerOk
<1> HIDE DEF k
<1>8. Numbered(t) /\ FlagsRelayed(c, t, L)
  BY <1>3, <1>4, <1>6 DEF LedgerOk, Numbered, FlagsRelayed
<1>9. LedgerOk(c, b, t, L)
  BY <1>7, <1>8 DEF LedgerOk
<1> QED BY <1>9 DEF t, u, k, b

-----------------------------------------------------------------------------
(* All chains *)

\* What a step of chain c makes of it: nothing, or one of the six things a
\* gateway does, the new state s and the new stack fs keeping the invariant and
\* the committed state growing.
ChainStep(c, s, fs) ==
    /\ s \in ChainState /\ fs \in Seq(Frame)
    /\ chain' = [chain EXCEPT ![c] = s]
    /\ frames' = [frames EXCEPT ![c] = fs]
    /\ LedgerInv(c, s, fs, Logs)
    /\ Grows(Base(chain[c], frames[c]), Base(s, fs))

\* A step changes one gateway, in one of the ways of ChainStep, or none.
LEMMA StepOfOneChain ==
    ASSUME CommitInv, [Next]_vars
    PROVE  \/ UNCHANGED <<chain, frames>>
           \/ \E c \in Chains : \E s, fs : ChainStep(c, s, fs)
<1>t. TypeOK'
  BY TypeStep DEF CommitInv
<1>y. \A c \in Chains : chain[c] \in ChainState /\ frames[c] \in Seq(Frame)
  BY DEF CommitInv, TypeOK
<1>i. \A c \in Chains : LedgerInv(c, chain[c], frames[c], Logs)
  BY DEF CommitInv, LedgersOk
<1>f. \A c \in Chains : frames = [frames EXCEPT ![c] = frames[c]]
  BY DEF CommitInv, TypeOK
<1>a. ASSUME NEW c \in Chains, NEW app \in Apps, NEW t \in Chains, NEW to \in Targets,
             NEW call \in CallData, emitRelayed(c, app, t, to, call)
      PROVE  \E s, fs : ChainStep(c, s, fs)
  <2> DEFINE m == [source |-> c, target |-> t, to |-> to, call |-> call,
                   nonce |-> chain[c].nonce[t] + 1]
             s == WithRelay(chain[c], m)
  <2>1. m \in Messages /\ m.nonce = chain[c].nonce[m.target] + 1
    <3>1. chain[c].nonce[t] \in Nonces /\ chain[c].nonce[t] < MaxNonce
      BY <1>a, <1>y DEF ChainState, emitRelayed
    <3>2. chain[c].nonce[t] + 1 \in Nonces
      BY <3>1, GatewayAssumption DEF Nonces
    <3> QED BY <3>2 DEF Messages
  <2>2. chain' = [chain EXCEPT ![c] = s] /\ frames' = frames
    BY <1>a DEF emitRelayed
  <2> HIDE DEF m
  <2>3. s \in ChainState
    BY <2>1, <1>y, UpdateTypes
  <2>4. /\ LedgerInv(c, s, frames[c], Logs)
        /\ Grows(Base(chain[c], frames[c]), Base(s, frames[c]))
    BY <2>1, <1>i, <1>y, RelayKeepsLedger
  <2> HIDE DEF s
  <2>5. ChainStep(c, s, frames[c])
    BY <1>f, <1>y, <2>2, <2>3, <2>4 DEF ChainStep
  <2> QED BY <2>5
<1>1. CASE \E c, t \in Chains, app \in Apps, to \in Targets, d \in Payloads :
              relay(c, app, t, to, d) \/ relayWithMetadata(c, app, t, to, d)
  <2>1. PICK c \in Chains, t \in Chains, app \in Apps, to \in Targets, d \in Payloads :
            relay(c, app, t, to, d) \/ relayWithMetadata(c, app, t, to, d)
    BY <1>1
  <2>2. d \in CallData /\ WithMetadata(c, app, d) \in CallData
    BY DEF CallData, WithMetadata
  <2> QED BY <2>1, <2>2, <1>a DEF relay, relayWithMetadata
<1>2. CASE \E c \in Chains, app \in Apps : register(c, app) \/ unregister(c, app)
  BY <1>2 DEF register, unregister
<1>3. CASE \E c \in Chains, m \in Managers, v \in Addresses :
              addValidator(c, m, v) \/ removeValidator(c, m, v)
  BY <1>3 DEF addValidator, removeValidator, setValidators
<1>4. CASE \E c \in Chains, m \in Managers : setValidatorManager(c, m)
  BY <1>4 DEF setValidatorManager
<1>5. CASE \E v \in Addresses, m \in Messages : sign(v, m)
  BY <1>5 DEF sign
<1>6. CASE \E c \in Chains, m \in Messages, signers \in SignerLists :
              dispatch(c, m, signers)
  <2>1. PICK c \in Chains, m \in Messages, signers \in SignerLists :
            dispatch(c, m, signers)
    BY <1>6
  <2>2. m.target = c /\ Key(m) \notin chain[c].dispatched
    BY <2>1 DEF dispatch, replayDispatchGuard
  <2>3. m \in Logs[m.source]
    <3>1. m \in Committed(m.source).relayed
      BY <2>1, AcceptedMessageWasRelayed DEF dispatch, CommitInv
    <3> QED BY <3>1 DEF Logs, Messages
  <2>4. CASE enterCall(c, m)
    <3> DEFINE s == WithCall(WithFlag(chain[c], Key(m)), m)
               gs == Append(frames[c], [msg |-> m, start |-> chain[c]])
    <3>1. chain' = [chain EXCEPT ![c] = s] /\ frames' = [frames EXCEPT ![c] = gs]
      BY <2>4 DEF enterCall
    <3>2. LedgerInv(c, s, gs, Logs) /\ Base(s, gs) = Base(chain[c], frames[c])
      BY <1>i, <1>y, <2>2, <2>3, PushKeepsLedger
    <3>3. s \in ChainState /\ gs \in Seq(Frame)
      <4>1. s \in ChainState
        BY <1>y, KeyType, UpdateTypes
      <4>2. [msg |-> m, start |-> chain[c]] \in Frame
        BY <1>y DEF Frame
      <4> QED BY <1>y, <4>1, <4>2
    <3> HIDE DEF s, gs
    <3>4. Grows(Base(s, gs), Base(s, gs))
      BY <3>2, <3>3, BaseOfLedger, GrowsReflexive
    <3>5. ChainStep(c, s, gs)
      BY <3>1, <3>2, <3>3, <3>4 DEF ChainStep
    <3> QED BY <3>5
  <2>5. CASE skipCall(c, m)
    <3> DEFINE s == WithEvent(WithFlag(chain[c], Key(m)), Key(m), FALSE)
    <3>1. chain' = [chain EXCEPT ![c] = s] /\ frames' = [frames EXCEPT ![c] = frames[c]]
      BY <1>f, <2>5 DEF skipCall
    <3>2. /\ LedgerInv(c, s, frames[c], Logs)
          /\ Grows(Base(chain[c], frames[c]), Base(s, frames[c]))
      BY <1>i, <1>y, <2>2, <2>3, SkipKeepsLedger
    <3>3. s \in ChainState
      BY <1>y, KeyType, UpdateTypes
    <3> HIDE DEF s
    <3>4. ChainStep(c, s, frames[c])
      BY <1>y, <3>1, <3>2, <3>3 DEF ChainStep
    <3> QED BY <3>4
  <2> QED BY <2>1, <2>4, <2>5 DEF dispatch
<1>7. CASE \E c \in Chains : callSucceeds(c) \/ callFails(c) \/ dispatchReverts(c)
  <2>1. PICK c \in Chains : callSucceeds(c) \/ callFails(c) \/ dispatchReverts(c)
    BY <1>7
  <2> DEFINE b == Base(chain[c], frames[c])
             k == Key(Top(c).msg)
             gs == SubSeq(frames[c], 1, Len(frames[c]) - 1)
  <2>2. frames[c] # <<>> /\ frames' = [frames EXCEPT ![c] = gs]
    BY <2>1 DEF callSucceeds, callFails, dispatchReverts, Pop
  <2>3. /\ Top(c).start \in ChainState /\ k \in Chains \X Nonces /\ gs \in Seq(Frame)
        /\ Len(frames[c]) \in 1 .. Len(frames[c])
    BY <1>y, <2>2, TopFrame, KeyType, PopStack DEF CommitInv
  <2>4. PICK s : /\ chain' = [chain EXCEPT ![c] = s]
                 /\ \/ s = WithEvent(chain[c], k, TRUE)
                    \/ s = WithEvent(WithFlag(Top(c).start, k), k, FALSE)
                    \/ s = Top(c).start
    BY <2>1 DEF callSucceeds, callFails, dispatchReverts
  <2>5. s \in ChainState /\ LedgerOk(c, b, s, Logs)
    <3>1. CASE s = WithEvent(chain[c], k, TRUE)
      <4>1. s \in ChainState
        BY <1>y, <2>3, <3>1, UpdateTypes
      <4>2. /\ s.dispatched = chain[c].dispatched /\ s.calls = chain[c].calls
            /\ s.nonce = chain[c].nonce /\ s.relayed = chain[c].relayed
        BY <1>y, <3>1 DEF WithEvent, ChainState
      <4>3. LedgerOk(c, b, chain[c], Logs)
        BY <1>i DEF LedgerInv
      <4> HIDE DEF b
      <4> QED BY <4>1, <4>2, <4>3, LedgerOfParts
    <3>2. CASE s = WithEvent(WithFlag(Top(c).start, k), k, FALSE)
      <4>1. WithFlag(Top(c).start, k) \in ChainState
        BY <2>3, UpdateTypes
      <4>2. s \in ChainState
        BY <2>3, <3>2, <4>1, UpdateTypes
      <4>3. ChainInv(chain[c], frames[c])
        BY DEF CommitInv, GatewayInv
      <4>4. LedgerOk(c, b, s, Logs)
        BY <1>i, <1>y, <2>2, <3>2, <4>3, FailureKeepsLedger DEF Top
      <4> QED BY <4>2, <4>4
    <3>3. CASE s = Top(c).start
      BY <1>i, <2>3, <3>3 DEF LedgerInv, Top
    <3> QED BY <2>4, <3>1, <3>2, <3>3
  <2>6. LedgerInv(c, s, gs, Logs) /\ Grows(b, Base(s, gs))
    BY <1>i, <1>y, <2>2, <2>5, PopKeepsLedger
  <2>7. ChainStep(c, s, gs)
    BY <2>2, <2>3, <2>4, <2>5, <2>6 DEF ChainStep
  <2> QED BY <2>7
<1>8. CASE UNCHANGED vars
  BY <1>8 DEF vars
<1> QED BY <1>1, <1>2, <1>3, <1>4, <1>5, <1>6, <1>7, <1>8 DEF Next

\* A chain's committed state is the one of its stack, before and after a step.
LEMMA CommittedAfterStep ==
    ASSUME TypeOK, NEW c \in Chains, NEW s, NEW fs, ChainStep(c, s, fs)
    PROVE  /\ Committed(c) = Base(chain[c], frames[c])
           /\ Committed(c)' = Base(s, fs)
           /\ Grows(Committed(c), Committed(c)')
           /\ \A d \in Chains \ {c} : Committed(d)' = Committed(d)
<1>1. \A d \in Chains : Committed(d)' = Base(chain'[d], frames'[d])
  BY DEF Committed, Base
<1>2. chain'[c] = s /\ frames'[c] = fs
  BY DEF ChainStep, TypeOK
<1>3. \A d \in Chains \ {c} : chain'[d] = chain[d] /\ frames'[d] = frames[d]
  BY DEF ChainStep, TypeOK
<1>4. Committed(c)' = Base(s, fs)
  BY <1>1, <1>2
<1>5. \A d \in Chains \ {c} : Committed(d)' = Committed(d)
  BY <1>1, <1>3, CommittedIsBase
<1>6. Committed(c) = Base(chain[c], frames[c])
  BY CommittedIsBase
<1> QED BY <1>4, <1>5, <1>6 DEF ChainStep

\* Committed logs never lose a message.
LEMMA LogsGrow ==
    ASSUME CommitInv, NEW c \in Chains, NEW s, NEW fs, ChainStep(c, s, fs)
    PROVE  \A d \in Chains : Logs[d] \subseteq Logs'[d]
<1>1. \A d \in Chains : Logs[d] = Committed(d).relayed /\ Logs'[d] = Committed(d)'.relayed
  BY DEF Logs
<1>2. \A d \in Chains : Committed(d).relayed \subseteq Committed(d)'.relayed
  BY CommittedAfterStep DEF CommitInv, Grows
<1> QED BY <1>1, <1>2

\* Flags that were relayed stay so while the logs grow.
LEMMA LedgerInvOfGrownLogs ==
    ASSUME NEW c, NEW s \in ChainState, NEW fs \in Seq(Frame), NEW L1, NEW L2,
           \A d \in Chains : L1[d] \subseteq L2[d], LedgerInv(c, s, fs, L1)
    PROVE  LedgerInv(c, s, fs, L2)
<1>1. ASSUME NEW b, NEW u \in ChainState, LedgerOk(c, b, u, L1)
      PROVE  LedgerOk(c, b, u, L2)
  <2>1. \A k \in u.dispatched : k[1] \in Chains
    BY DEF ChainState
  <2>2. FlagsRelayed(c, u, L2)
    BY <1>1, <2>1 DEF LedgerOk, FlagsRelayed
  <2> QED BY <1>1, <2>2 DEF LedgerOk
<1>2. \A i \in 1 .. Len(fs) : fs[i].start \in ChainState
  <2>1. \A i \in 1 .. Len(fs) : fs[i] \in Frame
    OBVIOUS
  <2> QED BY <2>1 DEF Frame
<1> QED BY <1>1, <1>2 DEF LedgerInv

\* The invariant is inductive.
LEMMA CommitInvStep == CommitInv /\ [Next]_vars => CommitInv'
<1> SUFFICES ASSUME CommitInv, [Next]_vars PROVE CommitInv'
  OBVIOUS
<1>1. TypeOK' /\ GatewayInv' /\ AuthInv'
  BY TypeStep, GatewayInvStep, AuthInvStep DEF CommitInv
<1>2. CASE UNCHANGED <<chain, frames>>
  <2>1. Logs' = Logs
    BY <1>2 DEF Logs, Committed
  <2> QED BY <1>1, <1>2, <2>1 DEF CommitInv, LedgersOk
<1>3. CASE \E c \in Chains : \E s, fs : ChainStep(c, s, fs)
  <2>0. PICK c \in Chains : \E s, fs : ChainStep(c, s, fs)
    BY <1>3
  <2>1. PICK s, fs : ChainStep(c, s, fs)
    BY <2>0
  <2> SUFFICES ASSUME NEW d \in Chains PROVE LedgerInv(d, chain'[d], frames'[d], Logs')
    BY <1>1 DEF CommitInv, LedgersOk
  <2>2. \A x \in Chains : Logs[x] \subseteq Logs'[x]
    BY <2>1, LogsGrow
  <2>3. chain'[d] \in ChainState /\ frames'[d] \in Seq(Frame)
    BY <1>1 DEF TypeOK
  <2>4. LedgerInv(d, chain'[d], frames'[d], Logs)
    <3>1. CASE d = c
      <4>1. chain'[d] = s /\ frames'[d] = fs
        BY <2>1, <3>1 DEF ChainStep, CommitInv, TypeOK
      <4> QED BY <2>1, <3>1, <4>1 DEF ChainStep
    <3>2. CASE d # c
      <4>1. chain'[d] = chain[d] /\ frames'[d] = frames[d]
        BY <2>1, <3>2 DEF ChainStep, CommitInv, TypeOK
      <4> QED BY <4>1 DEF CommitInv, LedgersOk
    <3> QED BY <3>1, <3>2
  <2> QED BY <2>2, <2>3, <2>4, LedgerInvOfGrownLogs
<1> QED BY <1>2, <1>3, StepOfOneChain

\* Gateways as deployed.
LEMMA CommitInvInit == Init => CommitInv
<1> SUFFICES ASSUME Init PROVE CommitInv
  OBVIOUS
<1>1. TypeOK
  BY InitialStateType, GatewayAssumption DEF Init, TypeOK
<1>2. LedgersOk
  <2> SUFFICES ASSUME NEW c \in Chains PROVE LedgerInv(c, chain[c], frames[c], Logs)
    BY DEF LedgersOk
  <2>1. chain[c] = InitialState /\ frames[c] = <<>>
    BY DEF Init
  <2>2. Numbered(InitialState)
    <3>1. InitialState.relayed = {} /\ \A t \in Chains : InitialState.nonce[t] = 0
      BY DEF InitialState
    <3>2. 1 .. 0 = {}
      OBVIOUS
    <3> QED BY <3>1, <3>2 DEF Numbered
  <2>3. FlagsRelayed(c, InitialState, Logs)
    BY DEF FlagsRelayed, InitialState
  <2>4. Grows(InitialState, InitialState)
    BY InitialStateType, GrowsReflexive
  <2> QED BY <2>1, <2>2, <2>3, <2>4 DEF LedgerInv, LedgerOk, Base
<1> QED BY <1>1, <1>2, GatewayInvInit, AuthInvInit DEF CommitInv

\* The invariant holds throughout.
LEMMA CommitInvariant == Spec => []CommitInv
  BY CommitInvInit, CommitInvStep, PTL DEF Spec

-----------------------------------------------------------------------------
(* The audit *)

\* What the invariant says of the committed state of a chain.
CommittedOk ==
    \A c \in Chains :
        /\ Committed(c) \in ChainState
        /\ Numbered(Committed(c)) /\ RelayInv(c, Committed(c))
        /\ FlagsRelayed(c, Committed(c), Logs)
        /\ StateInv(Committed(c), {}) /\ CallsOk(c, Committed(c))

\* The invariant, of committed states.
LEMMA CommittedState == CommitInv => CommittedOk
<1> SUFFICES ASSUME CommitInv, NEW c \in Chains
             PROVE  /\ Committed(c) \in ChainState
                    /\ Numbered(Committed(c)) /\ RelayInv(c, Committed(c))
                    /\ FlagsRelayed(c, Committed(c), Logs)
                    /\ StateInv(Committed(c), {}) /\ CallsOk(c, Committed(c))
  BY DEF CommittedOk
<1> DEFINE b == Base(chain[c], frames[c])
<1>1. Committed(c) = b
  BY CommittedIsBase
<1>2. /\ chain[c] \in ChainState /\ frames[c] \in Seq(Frame)
      /\ LedgerInv(c, chain[c], frames[c], Logs)
      /\ ChainInv(chain[c], frames[c])
      /\ StackInv(c, chain[c], frames[c])
      /\ CallsOk(c, chain[c])
      /\ \A i \in 1 .. Len(frames[c]) : CallsOk(c, frames[c][i].start)
  BY DEF CommitInv, TypeOK, LedgersOk, GatewayInv, AuthInv, StacksOk, AllCallsOk
<1>3. b \in ChainState /\ LedgerOk(c, b, b, Logs)
  BY <1>2, BaseOfLedger
<1>4. CASE frames[c] = <<>>
  <2>1. b = chain[c] /\ Len(frames[c]) = 0
    BY <1>4 DEF Base
  <2>2. Pending(frames[c], Len(frames[c])) = {}
    BY <2>1 DEF Pending
  <2> QED BY <1>1, <1>2, <1>3, <2>1, <2>2 DEF LedgerOk, ChainInv, StackInv
<1>5. CASE frames[c] # <<>>
  <2>1. b = frames[c][1].start /\ 1 \in 1 .. Len(frames[c])
    BY <1>2, <1>5 DEF Base
  <2>2. Pending(frames[c], 1 - 1) = {}
    BY DEF Pending
  <2> QED BY <1>1, <1>2, <1>3, <2>1, <2>2 DEF LedgerOk, ChainInv, StackInv
<1> QED BY <1>4, <1>5

\* Whatever was reverted, latest-nonce and verify-dispatched find exactly the
\* messages of the committed log that the other chain has not spent: counters
\* are rolled back with the events they numbered, so that there are no gaps.
THEOREM AuditFindsTheStuck == Spec => []AuditIsExact
<1>1. CommitInv => AuditIsExact
  <2> SUFFICES ASSUME CommitInv, NEW s \in Chains, NEW c \in Chains
               PROVE  notDispatched(c, s, latestNonce(s, c)) =
                        {m.nonce : m \in {r \in Committed(s).relayed :
                           r.target = c /\ Key(r) \notin Committed(c).dispatched}}
    BY DEF AuditIsExact
  <2> DEFINE log == Committed(s).relayed
             spent == Committed(c).dispatched
             n == Committed(s).nonce[c]
  <2>1. /\ \A i \in Nat : i \in 1 .. n <=> \E m \in log : m.target = c /\ m.nonce = i
        /\ \A m \in log : m.source = s
    BY CommittedState DEF CommittedOk, Numbered, RelayInv
  <2>2. \A m \in log : m.nonce \in Nat
    <3>1. log \subseteq Messages /\ Nonces \subseteq Nat
      BY CommittedState DEF CommittedOk, ChainState, Nonces
    <3> QED BY <3>1 DEF Messages
  <2>3. n \in Nat
    BY CommittedState DEF CommittedOk, ChainState, Nonces
  <2> HIDE DEF log, spent, n
  <2>4. {i \in 1 .. n : <<s, i>> \notin spent} =
           {m.nonce : m \in {r \in log : r.target = c /\ <<r.source, r.nonce>> \notin spent}}
    <3>1. \A i \in 1 .. n : i \in Nat
      BY <2>3
    <3> QED BY <2>1, <2>2, <3>1
  <2> QED BY <2>4 DEF log, spent, n, notDispatched, latestNonce, Key
<1> QED BY <1>1, CommitInvariant, PTL

\* A multiple of n that is at least 0 and less than n is 0.
LEMMA SmallMultiple ==
    ASSUME NEW n \in Nat \ {0}, NEW k \in Int, n * k >= 0, n * k < n
    PROVE  k = 0
<1>1. k >= 1 => n * k >= n
  OBVIOUS
<1>2. k <= -1 => n * k < 0
  OBVIOUS
<1> QED BY <1>1, <1>2

\* Division with remainder.
LEMMA Remainder ==
    ASSUME NEW a \in Nat, NEW n \in Nat \ {0}
    PROVE  \E d \in Nat, q \in 0 .. n - 1 : a = n * d + q /\ a % n = q
<1>1. a % n \in 0 .. n - 1 /\ a \div n \in Nat /\ a = n * (a \div n) + (a % n)
  OBVIOUS
<1> QED BY <1>1

\* The queries of get-relayed overlap in their ends only: each block from the
\* first to the latest is in one or two of them, however many blocks there are
\* and however many a query asks for.
THEOREM WindowsCoverTheLog ==
    ASSUME NEW deployed \in Nat, NEW latest \in Nat, NEW interval \in Nat \ {0},
           NEW b \in deployed .. latest
    PROVE  Cardinality({w \in windows(deployed, latest, interval) : b \in w}) \in 1 .. 2
<1> DEFINE W == {w \in windows(deployed, latest, interval) : b \in w}
<1>1. PICK d \in Nat, q \in 0 .. interval - 1 : b - deployed = interval * d + q
  <2>1. b - deployed \in Nat
    OBVIOUS
  <2> QED BY <2>1, Remainder
<1>2. PICK n \in Nat : n = interval * d
  OBVIOUS
<1>3. b \in Int /\ q \in Nat /\ q < interval /\ b = deployed + n + q /\ b <= latest
  BY <1>1, <1>2
<1> DEFINE A == (deployed + n) .. ((deployed + n) + interval)
           B == (deployed + n - interval) .. ((deployed + n - interval) + interval)
<1>4. A \in W
  <2>1. n % interval = 0
    <3>1. PICK e \in Nat, r \in 0 .. interval - 1 : n = interval * e + r /\ n % interval = r
      BY Remainder
    <3>2. interval * (d - e) = r
      <4>1. interval * (d - e) = interval * d - interval * e
        OBVIOUS
      <4> QED BY <1>2, <3>1, <4>1
    <3>3. d - e = 0
      <4>1. d - e \in Int /\ r >= 0 /\ r < interval
        OBVIOUS
      <4> QED BY <3>2, <4>1, SmallMultiple
    <3>4. r = 0
      BY <3>2, <3>3
    <3> QED BY <3>1, <3>4
  <2>2. deployed + n \in queryStarts(deployed, latest, interval)
    <3>1. (deployed + n) - deployed = n /\ deployed + n \in deployed .. latest
      BY <1>3
    <3> QED BY <2>1, <3>1 DEF queryStarts
  <2>3. A \in windows(deployed, latest, interval)
    BY <2>2 DEF windows
  <2>4. b \in A
    BY <1>3
  <2> QED BY <2>3, <2>4
<1>5. ASSUME NEW w \in W PROVE w \in {A, B}
  <2>1. PICK i \in queryStarts(deployed, latest, interval) : w = i .. (i + interval)
    BY DEF windows
  <2>2. i \in deployed .. latest /\ (i - deployed) % interval = 0 /\ i <= b /\ b <= i + interval
    BY <1>3, <2>1 DEF queryStarts
  <2>3. PICK e \in Nat : i - deployed = interval * e
    <3>1. i - deployed \in Nat
      BY <2>2
    <3>2. PICK e \in Nat, r \in 0 .. interval - 1 :
             i - deployed = interval * e + r /\ (i - deployed) % interval = r
      BY <3>1, Remainder
    <3> QED BY <2>2, <3>2
  <2>4. PICK k \in Nat : k = interval * e
    OBVIOUS
  <2>5. i = deployed + k /\ k <= n + q /\ n + q <= k + interval
    BY <1>3, <2>2, <2>3, <2>4
  <2>6. e <= d
    <3>1. e >= d + 1 => interval * e >= interval * (d + 1) /\ interval * (d + 1) = interval * d + interval
      OBVIOUS
    <3> QED BY <1>2, <1>3, <2>4, <2>5, <3>1
  <2>7. e >= d - 1
    <3>1. e <= d - 2 => interval * e <= interval * (d - 2) /\ interval * (d - 2) = interval * d - interval - interval
      OBVIOUS
    <3> QED BY <1>2, <1>3, <2>4, <2>5, <3>1
  <2>8. CASE e = d
    BY <1>2, <2>1, <2>4, <2>5, <2>8
  <2>9. CASE e = d - 1
    <3>1. k = n - interval
      <4>1. interval * (d - 1) = interval * d - interval
        OBVIOUS
      <4> QED BY <1>2, <2>4, <2>9, <4>1
    <3>2. i = deployed + n - interval
      BY <2>5, <3>1
    <3> QED BY <2>1, <3>2
  <2> QED BY <2>6, <2>7, <2>8, <2>9
<1>6. IsFiniteSet({A, B}) /\ Cardinality({A, B}) <= 2
  <2> HIDE DEF A, B
  <2>1. IsFiniteSet({A}) /\ Cardinality({A}) = 1
    BY FS_Singleton
  <2>2. {A, B} = {A} \cup {B}
    OBVIOUS
  <2> QED BY <2>1, <2>2, FS_AddElement
<1>7. Cardinality(W) \in 1 .. 2
  <2> HIDE DEF A, B, W
  <2>1. W \in SUBSET {A, B}
    BY <1>5
  <2>2. IsFiniteSet(W) /\ Cardinality(W) <= Cardinality({A, B})
    BY <1>6, <2>1, FS_Subset
  <2>3. Cardinality(W) \in Nat /\ Cardinality({A, B}) \in Nat /\ Cardinality(W) # 0
    BY <1>4, <1>6, <2>2, FS_CardinalityType, FS_EmptySet
  <2> QED BY <1>6, <2>2, <2>3
<1> QED BY <1>7

\* get-relayed lists the whole log of a gateway, and no event more than twice.
THEOREM RelaysAreListed == Spec => []EveryRelayIsListed
<1>1. EveryRelayIsListed
  <2> SUFFICES ASSUME NEW s \in Chains, NEW latest \in 1 .. 4, NEW interval \in 1 .. 3,
                      NEW blockOf \in [Committed(s).relayed -> 1 .. latest]
               PROVE  /\ \A m \in Committed(s).relayed :
                           Cardinality({w \in windows(1, latest, interval) :
                                          m \in queryFilter(s, blockOf, w)}) \in 1 .. 2
                      /\ {m \in Committed(s).relayed : latest - blockOf[m] < interval}
                           \subseteq queryFilter(s, blockOf, recentBlocks(latest, interval))
    BY DEF EveryRelayIsListed
  <2>1. ASSUME NEW m \in Committed(s).relayed
        PROVE  Cardinality({w \in windows(1, latest, interval) :
                              m \in queryFilter(s, blockOf, w)}) \in 1 .. 2
    <3>1. {w \in windows(1, latest, interval) : m \in queryFilter(s, blockOf, w)}
            = {w \in windows(1, latest, interval) : blockOf[m] \in w}
      BY DEF queryFilter
    <3>2. 1 \in Nat /\ latest \in Nat /\ interval \in Nat \ {0} /\ blockOf[m] \in 1 .. latest
      OBVIOUS
    <3> QED BY <3>1, <3>2, WindowsCoverTheLog
  <2>2. ASSUME NEW m \in Committed(s).relayed, latest - blockOf[m] < interval
        PROVE  m \in queryFilter(s, blockOf, recentBlocks(latest, interval))
    <3>1. blockOf[m] \in 1 .. latest
      OBVIOUS
    <3>2. blockOf[m] \in latest - interval .. latest
      BY <2>2, <3>1
    <3> QED BY <3>2 DEF queryFilter, recentBlocks
  <2> QED BY <2>1, <2>2
<1> QED BY <1>1, PTL

-----------------------------------------------------------------------------
(* The refinement *)

\* The same after a step.
LEMMA CommittedStateNext == CommitInv' => CommittedOk'
  BY CommittedState, PTL

\* What the abstract bridge sees of the committed states.
Sent == UNION {Committed(d).relayed : d \in Chains}
Effects == [d \in Chains |-> Committed(d).calls]
SpentOn(d) == {<<k[1], d, k[2]>> : k \in Committed(d).dispatched}
Spent == UNION {SpentOn(d) : d \in Chains}

\* A step of chain c is a transaction of the abstract bridge.
LEMMA StepIsTransaction ==
    ASSUME CommitInv, CommitInv', NEW c \in Chains, NEW s, NEW fs, ChainStep(c, s, fs)
    PROVE  Bridge!Transaction
<1>b. PICK b : b = Committed(c)
  OBVIOUS
<1>t. PICK t : t = Committed(c)'
  OBVIOUS
<1>1. Grows(b, t) /\ \A d \in Chains \ {c} : Committed(d)' = Committed(d)
  BY <1>b, <1>t, CommittedAfterStep DEF CommitInv
<1>2. FlagsRelayed(c, t, Logs)
  <2>1. t = Base(s, fs)
    BY <1>t, CommittedAfterStep DEF CommitInv
  <2>2. LedgerOk(c, Base(s, fs), Base(s, fs), Logs)
    BY BaseOfLedger DEF ChainStep
  <2> QED BY <2>1, <2>2 DEF LedgerOk
<1>3. \A d \in Chains : /\ RelayInv(d, Committed(d)) /\ RelayInv(d, Committed(d)')
                        /\ Committed(d) \in ChainState /\ Committed(d)' \in ChainState
  BY CommittedState, CommittedStateNext DEF CommittedOk
<1>4. /\ StateInv(t, {})
      /\ \A i \in 1 .. Len(t.calls) :
            t.calls[i].target = c /\ t.calls[i] \in Committed(t.calls[i].source)'.relayed
  BY <1>t, CommittedStateNext DEF CommittedOk, CallsOk
<1>5. /\ \A d \in Chains \ {c} : SpentOn(d)' = SpentOn(d)
      /\ SpentOn(c)' = {<<k[1], c, k[2]>> : k \in t.dispatched}
  BY <1>1, <1>t DEF SpentOn
\* Where new messages and newly spent identities come from.
<1>6. \A m \in Sent' \ Sent : m \in t.relayed \ b.relayed /\ m.source = c
  <2>1. \A m \in Sent' \ Sent : m \in t.relayed \ b.relayed
    BY <1>b, <1>t, <1>1 DEF Sent
  <2> QED BY <1>3, <1>t, <2>1 DEF RelayInv
<1>7. \A x \in Spent' \ Spent : \E k \in t.dispatched : x = <<k[1], c, k[2]>>
  BY <1>1, <1>5 DEF Spent
<1>8. \A k \in t.dispatched : k[1] \in Chains /\ k = <<k[1], k[2]>>
  BY <1>3, <1>t DEF ChainState
<1>9. \A m \in t.relayed : m \in Messages
  BY <1>3, <1>t DEF ChainState
<1>10. Bridge!Send
  <2>1. Sent \subseteq Sent'
    <3> SUFFICES ASSUME NEW d \in Chains
                 PROVE  Committed(d).relayed \subseteq Committed(d)'.relayed
      BY DEF Sent
    <3> QED BY <1>b, <1>t, <1>1 DEF Grows
  <2>2. Sent' \subseteq Messages
    <3>1. Committed(c)' \in ChainState /\ \A d \in Chains : Committed(d)' \in ChainState
      BY <1>3
    <3> QED BY <3>1 DEF Sent, ChainState
  <2>3. ASSUME NEW m \in Sent' \ Sent, NEW n \in Sent', Bridge!Id(m) = Bridge!Id(n)
        PROVE  m = n
    <3>1. PICK d \in Chains : n \in Committed(d)'.relayed
      BY DEF Sent
    <3>2. m.source = n.source /\ m.target = n.target /\ m.nonce = n.nonce
      BY <2>3 DEF Bridge!Id
    <3>3. n.source = d
      BY <1>3, <3>1 DEF RelayInv
    <3>4. m \in t.relayed /\ n \in t.relayed /\ RelayInv(c, t)
      BY <1>3, <1>6, <1>t, <3>1, <3>2, <3>3
    <3> QED BY <3>2, <3>4 DEF RelayInv
  <2> QED BY <2>1, <2>2, <2>3 DEF Bridge!Send, Sent
<1>11. Bridge!Spend
  <2>1. Spent \subseteq Spent'
    <3> SUFFICES ASSUME NEW d \in Chains PROVE SpentOn(d) \subseteq SpentOn(d)'
      BY DEF Spent
    <3>1. CASE d = c
      BY <1>1, <1>5, <1>b, <3>1 DEF SpentOn, Grows
    <3> QED BY <1>5, <3>1
  <2>2. ASSUME NEW x \in Spent' \ Spent
        PROVE  \E m \in Sent : x = Bridge!Id(m)
    <3>1. PICK k \in t.dispatched : x = <<k[1], c, k[2]>>
      BY <1>7
    <3>2. PICK m \in Logs[k[1]] : m.target = c /\ Key(m) = k
      BY <1>2 DEF FlagsRelayed
    <3>3. m \in Sent
      BY <1>8, <3>2 DEF Logs, Sent
    <3>4. x = Bridge!Id(m)
      BY <3>1, <3>2 DEF Key, Bridge!Id
    <3> QED BY <3>3, <3>4
  <2> QED BY <2>1, <2>2 DEF Bridge!Spend, Sent, Spent, SpentOn
<1>12. ASSUME NEW d \in Chains PROVE Bridge!TakeEffect(d)
  <2>1. /\ Effects[d] = Committed(d).calls /\ Effects'[d] = Committed(d)'.calls
        /\ Len(Effects[d]) \in Nat
    BY <1>3 DEF Effects, ChainState
  <2>2. CASE d # c
    <3>1. Effects'[d] = Effects[d]
      BY <1>1, <2>1, <2>2
    <3>2. Len(Effects[d]) + 1 .. Len(Effects[d]) = {}
      BY <2>1
    <3> QED BY <2>1, <3>1, <3>2 DEF Bridge!TakeEffect, Effects
  <2>3. CASE d = c
    <3>1. Effects[d] = b.calls /\ Effects'[d] = t.calls
      BY <1>b, <1>t, <2>1, <2>3
    <3>2. /\ Len(b.calls) <= Len(t.calls)
          /\ \A i \in 1 .. Len(b.calls) : t.calls[i] = b.calls[i]
      BY <1>1 DEF Grows
    <3>3. Len(b.calls) + 1 .. Len(t.calls) \subseteq 1 .. Len(t.calls)
      BY <2>1, <3>1
    <3>4. ASSUME NEW i \in Len(b.calls) + 1 .. Len(t.calls)
          PROVE  /\ t.calls[i] \in Sent /\ t.calls[i].target = d
                 /\ Bridge!Id(t.calls[i]) \in Spent' \ Spent
      <4> DEFINE m == t.calls[i]
      <4>1. m.target = c /\ m \in Committed(m.source)'.relayed
        BY <1>4, <3>3
      <4>2. Key(m) \in t.dispatched /\ Key(m) \notin b.dispatched
        BY <1>1, <1>4, <3>3 DEF StateInv, CallKeys, Grows
      <4> HIDE DEF m
      <4>3. m.source \in Chains
        BY <1>8, <4>2 DEF Key
      <4>4. PICK r \in Logs[m.source] : r.target = c /\ Key(r) = Key(m)
        BY <1>2, <4>2 DEF FlagsRelayed, Key
      <4>5. r \in Committed(m.source).relayed /\ r \in Committed(m.source)'.relayed
        BY <1>1, <1>b, <1>t, <4>3, <4>4 DEF Logs, Grows
      <4>6. r = m
        BY <1>3, <4>1, <4>3, <4>4, <4>5 DEF RelayInv, Key
      <4>7. m \in Sent
        BY <4>3, <4>5, <4>6 DEF Sent
      <4>8. Bridge!Id(m) \in SpentOn(c)'
        BY <1>5, <4>1, <4>2 DEF Key, Bridge!Id
      <4>9. Bridge!Id(m) \notin Spent
        <5> SUFFICES ASSUME NEW e \in Chains, NEW k \in Committed(e).dispatched,
                            Bridge!Id(m) = <<k[1], e, k[2]>>
                     PROVE  FALSE
          BY DEF Spent, SpentOn
        <5>1. e = c /\ k[1] = m.source /\ k[2] = m.nonce
          BY <4>1 DEF Bridge!Id
        <5>2. k = <<k[1], k[2]>>
          BY <1>3 DEF ChainState
        <5>3. k = Key(m) /\ k \in b.dispatched
          BY <1>b, <5>1, <5>2 DEF Key
        <5> QED BY <4>2, <5>3
      <4> QED BY <2>3, <4>1, <4>7, <4>8, <4>9 DEF Spent, m
    <3>5. ASSUME NEW i \in Len(b.calls) + 1 .. Len(t.calls),
                 NEW j \in Len(b.calls) + 1 .. Len(t.calls), i # j
          PROVE  Bridge!Id(t.calls[i]) # Bridge!Id(t.calls[j])
      BY <1>4, <3>3, <3>5 DEF StateInv, Key, Bridge!Id
    <3>6. LET old == Len(Effects[d])
              new == old + 1 .. Len(Effects'[d])
          IN  /\ old <= Len(Effects'[d])
              /\ \A i \in 1 .. old : Effects'[d][i] = Effects[d][i]
              /\ \A i \in new : /\ Effects'[d][i] \in Sent
                                /\ Effects'[d][i].target = d
                                /\ Bridge!Id(Effects'[d][i]) \in Spent' \ Spent
              /\ \A i, j \in new : i # j =>
                    Bridge!Id(Effects'[d][i]) # Bridge!Id(Effects'[d][j])
      BY <3>1, <3>2, <3>4, <3>5
    <3> QED BY <3>6 DEF Bridge!TakeEffect, Effects, Sent, Spent, SpentOn
  <2> QED BY <2>2, <2>3
<1>13. \A m \in Sent' \ Sent, i \in Spent' \ Spent : m.source = i[2]
  BY <1>6, <1>7
<1> QED BY <1>10, <1>11, <1>12, <1>13 DEF Bridge!Transaction, Sent, Spent, SpentOn

\* The gateways implement the abstract bridge: with the stacks of calls, the
\* signatures and the rolled-back work hidden, every behaviour is one of an
\* at-most-once message service, for any number of chains, validators and
\* nested dispatches.
THEOREM GatewaysImplementBridge == Spec => ImplementsMessageBridge
<1>1. Init => Bridge!Init
  <2> SUFFICES ASSUME Init PROVE Bridge!Init
    OBVIOUS
  <2>1. \A c \in Chains : /\ Committed(c).relayed = {} /\ Committed(c).calls = <<>>
                          /\ Committed(c).dispatched = {}
    BY DEF Init, Committed, InitialState
  <2> QED BY <2>1 DEF Bridge!Init
<1>2. CommitInv /\ CommitInv' /\ [Next]_vars => [Bridge!Transaction]_(Bridge!vars)
  <2> SUFFICES ASSUME CommitInv, CommitInv', [Next]_vars
               PROVE  [Bridge!Transaction]_(Bridge!vars)
    OBVIOUS
  <2>1. CASE UNCHANGED <<chain, frames>>
    BY <2>1 DEF Bridge!vars, Committed
  <2>2. CASE \E c \in Chains : \E s, fs : ChainStep(c, s, fs)
    BY <2>2, StepIsTransaction
  <2> QED BY <2>1, <2>2, StepOfOneChain
<1> QED BY <1>1, <1>2, CommitInvariant, PTL DEF Spec, ImplementsMessageBridge, Bridge!Spec
=============================================================================
