---------------------------- MODULE MessageBridge ----------------------------
(***************************************************************************)
(* What the bridge promises to contracts that send messages over it.  A    *)
(* message that was sent is delivered at most once, to the chain it names: *)
(* it either takes effect there or is spent without effect, and nothing    *)
(* takes effect or is spent that was not sent before.  Stacks of calls,    *)
(* validators, signatures and registries do not appear.                    *)
(***************************************************************************)
EXTENDS Naturals, Sequences

CONSTANTS Chains,
          Messages  \* records with the fields source, target and nonce

VARIABLES sent,     \* messages sent
          effects,  \* the messages that took effect on each chain, in order
          spent     \* identities of the messages delivered, with or without effect

vars == <<sent, effects, spent>>

\* What identifies a message.
Id(m) == <<m.source, m.target, m.nonce>>

Init ==
    /\ sent = {}
    /\ effects = [c \in Chains |-> <<>>]
    /\ spent = {}

\* New messages have identities that no other message has or had.
Send ==
    /\ sent \subseteq sent' /\ sent' \subseteq Messages
    /\ \A m \in sent' \ sent, n \in sent' : Id(m) = Id(n) => m = n

\* Messages that had been sent are spent, for the first time.
Spend == spent \subseteq spent' /\ spent' \ spent \subseteq {Id(m) : m \in sent}

\* Some of those being spent take effect, each once, on the chain it is for.
TakeEffect(c) ==
    LET old == Len(effects[c])
        new == old + 1 .. Len(effects'[c])
    IN  /\ old <= Len(effects'[c])
        /\ \A i \in 1 .. old : effects'[c][i] = effects[c][i]
        /\ \A i \in new :
              /\ effects'[c][i] \in sent
              /\ effects'[c][i].target = c
              /\ Id(effects'[c][i]) \in spent' \ spent
        /\ \A i, j \in new : i # j => Id(effects'[c][i]) # Id(effects'[c][j])

\* One transaction, of one chain, may send and deliver several messages.
Transaction ==
    /\ Send
    /\ Spend
    /\ \A c \in Chains : TakeEffect(c)
    /\ \A m \in sent' \ sent, i \in spent' \ spent : m.source = i[2]

Spec == Init /\ [][Transaction]_vars
=============================================================================
