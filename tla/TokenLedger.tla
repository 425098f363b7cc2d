----------------------------- MODULE TokenLedger -----------------------------
(***************************************************************************)
(* What the bridge promises to the holders of a token.  Holdings change    *)
(* only by transfers: each leaves its source chain once, which must hold   *)
(* it, and reaches its target chain at most once, worth as much as when it *)
(* left.  Locking, minting, decimals, entries, pauses and messages of      *)
(* other contracts do not appear.                                          *)
(***************************************************************************)
EXTENDS Naturals

CONSTANTS Chains,
          Transfers,  \* records with the fields source and target
          Worth       \* of each transfer, in a unit common to all chains

VARIABLES held,       \* what the holders of each chain have
          departed,   \* transfers taken from their source chain
          arrived     \* transfers paid out on their target chain

vars == <<held, departed, arrived>>

Init ==
    /\ held \in [Chains -> Nat]
    /\ departed = {} /\ arrived = {}

Depart(x) ==
    /\ x \in Transfers /\ x.source # x.target
    /\ Worth[x] <= held[x.source]
    /\ held' = [held EXCEPT ![x.source] = @ - Worth[x]]
    /\ departed' = departed \cup {x} /\ arrived' = arrived

Arrive(x) ==
    /\ held' = [held EXCEPT ![x.target] = @ + Worth[x]]
    /\ arrived' = arrived \cup {x} /\ departed' = departed

Next ==
    \/ \E x \in departed' \ departed : Depart(x)
    \/ \E x \in departed \ arrived : Arrive(x)

Spec == Init /\ [][Next]_vars
=============================================================================
