---------------------------- MODULE EventListener ----------------------------
(***************************************************************************)
(* How a validator reads one kind of gateway event from one chain: the     *)
(* task spawned by ValidatorNode::new, which first replays history         *)
(* (BridgeNode::sync_historic_events) and then follows the chain           *)
(* (EventListener in block.rs), asking an RPC node for the head and for    *)
(* logs.  Blocks stand for the events they hold.                           *)
(*                                                                         *)
(* Only blocks the node may trust count: head is the latest finalized      *)
(* block (or the latest, with block_instant_finality).                     *)
(***************************************************************************)
EXTENDS Integers, FiniteSets

CONSTANTS
    Deployed,         \* chain_gateway_block_deployed; 0 turns the replay off
    Histories,        \* values of the command line flag dispatch_history
    ToBlock,          \* to_block_number; 0 when the key is absent
    Behinds,          \* values of scan_behind_blocks
    GetTransactions,  \* the log strategy: per-block receipts, or eth_getLogs
    RpcFails,         \* may calls of the RPC node fail
    MaxLag,           \* how far behind the head an answer of the RPC node may be
    FirstHead,        \* head when the process starts
    LastHead          \* bound: the chain stops here

ASSUME ListenerAssumption ==
    /\ {Deployed, ToBlock, MaxLag, FirstHead, LastHead} \cup Behinds \subseteq Nat
    /\ FirstHead <= LastHead
    /\ {GetTransactions, RpcFails} \cup Histories \subseteq BOOLEAN

VARIABLES
    dispatch_history, scan_behind_blocks, \* the configuration of the process
    head,       \* the chain's latest final block
    phase,      \* where the task is, see TypeOK
    window,     \* the blocks being fetched, and the head that was observed
    current,    \* current_block
    first,      \* the first block the stream has to deliver
    scanned,    \* how often the events of a block were handed to the node
    failed      \* blocks asked for in vain

config == <<dispatch_history, scan_behind_blocks>>
vars == <<config, head, phase, window, current, first, scanned, failed>>

Blocks == 0 .. LastHead
NoWindow == [from |-> 1, to |-> 0, new |-> 0]
Window == window.from .. window.to

Init ==
    /\ dispatch_history \in Histories /\ scan_behind_blocks \in Behinds
    /\ head = FirstHead
    /\ phase = IF dispatch_history /\ Deployed # 0 THEN "sync" ELSE "start"
    /\ window = NoWindow
    /\ current = 0
    /\ first = 0
    /\ scanned = [b \in Blocks |-> 0]
    /\ failed = {}

NewBlock ==
    /\ head < LastHead
    /\ head' = head + 1
    /\ UNCHANGED <<config, phase, window, current, first, scanned, failed>>

\* get_block_number: what the RPC node says the head is.
Answers == {b \in 0 .. head : b >= head - MaxLag}

-----------------------------------------------------------------------------
(* sync_historic_events *)

\* Mutant: the replay starts one block late.
sync_historic_eventsMutant ==
    /\ phase = "sync"
    /\ \E new \in Answers :
          window' = [from |-> Deployed + 1, new |-> new,
                     to |-> IF ToBlock = 0 \/ ToBlock > new THEN new ELSE ToBlock]
    /\ phase' = "replay"
    /\ UNCHANGED <<config, head, current, first, scanned, failed>>

\* The latest final block is read, and cut at to_block_number.
sync_historic_events ==
    /\ phase = "sync"
    /\ \E new \in Answers :
          window' = [from |-> Deployed, new |-> new,
                     to |-> IF ToBlock = 0 \/ ToBlock > new THEN new ELSE ToBlock]
    /\ phase' = "replay"
    /\ UNCHANGED <<config, head, current, first, scanned, failed>>

\* get_events returns the logs it found.  With the GetTransactions strategy a
\* block or receipt the node does not have is passed over in silence.
Fetched(S) ==
    /\ S \subseteq Window
    /\ GetTransactions \/ S = Window
    /\ scanned' = [b \in Blocks |-> IF b \in S THEN scanned[b] + 1 ELSE scanned[b]]
    /\ failed' = failed \cup (Window \ S)

\* get_historic_events
ReplayFetched ==
    /\ phase = "replay"
    /\ \E S \in SUBSET Window : Fetched(S)
    /\ phase' = "start"
    /\ window' = NoWindow
    /\ UNCHANGED <<config, head, current, first>>

\* An error in the replay ends the task, and with it the process.
ReplayFails ==
    /\ RpcFails
    /\ phase \in {"sync", "replay"}
    /\ phase' = "exited"
    /\ UNCHANGED <<config, head, window, current, first, scanned, failed>>

-----------------------------------------------------------------------------
(* listen *)

\* current_block = get_block_number() - 1; U64 subtraction panics below zero.
listen ==
    /\ phase = "start"
    /\ \E new \in Answers :
          IF new = 0
          THEN phase' = "exited" /\ UNCHANGED <<current, first>>
          ELSE /\ phase' = "idle"
               /\ current' = new - 1
               /\ first' = new
    /\ UNCHANGED <<config, head, window, scanned, failed>>

\* The ? in try_stream!: the stream yields the error and is over.  select!
\* drops the branch and the node goes on without this listener.
listenFails ==
    /\ RpcFails
    /\ phase = "start"
    /\ phase' = "ended"
    /\ UNCHANGED <<config, head, window, current, first, scanned, failed>>

\* Mutant: the window starts a block late.
poll_headMutant(new) ==
    /\ phase = "idle"
    /\ new \in Answers
    /\ IF new < scan_behind_blocks
       THEN phase' = "exited" /\ window' = window
       ELSE /\ new - scan_behind_blocks > current + 1
            /\ phase' = "fetch"
            /\ window' = [from |-> current + 2, to |-> new - scan_behind_blocks, new |-> new]
    /\ UNCHANGED <<config, head, current, first, scanned, failed>>

\* Mutant: the subtraction of scan_behind_blocks wraps around.
poll_headWrapsMutant(new) ==
    /\ phase = "idle"
    /\ new \in Answers
    /\ LET max_block == (new - scan_behind_blocks) % 2^16
       IN  /\ max_block > current + 1
           /\ phase' = "fetch"
           /\ window' = [from |-> current + 1, to |-> max_block, new |-> new]
    /\ UNCHANGED <<config, head, current, first, scanned, failed>>

\* Mutant: the early return leaves two new blocks waiting.
poll_headLateMutant(new) ==
    /\ phase = "idle"
    /\ new \in Answers
    /\ IF new < scan_behind_blocks
       THEN phase' = "exited" /\ window' = window
       ELSE /\ new - scan_behind_blocks > current + 2
            /\ phase' = "fetch"
            /\ window' = [from |-> current + 1, to |-> new - scan_behind_blocks, new |-> new]
    /\ UNCHANGED <<config, head, current, first, scanned, failed>>

\* poll_next_events up to the request for logs.  A head that cannot be read, or
\* no more than one new block, leave everything as it is.
poll_head(new) ==
    /\ phase = "idle"
    /\ new \in Answers
    /\ IF new < scan_behind_blocks
       THEN phase' = "exited" /\ window' = window
       ELSE /\ new - scan_behind_blocks > current + 1
            /\ phase' = "fetch"
            /\ window' = [from |-> current + 1, to |-> new - scan_behind_blocks, new |-> new]
    /\ UNCHANGED <<config, head, current, first, scanned, failed>>

\* Mutant: the next window starts at the last block of this one.
poll_fetchedMutant ==
    /\ phase = "fetch"
    /\ \E S \in SUBSET Window : Fetched(S)
    /\ current' = window.new - 1
    /\ phase' = "idle"
    /\ window' = NoWindow
    /\ UNCHANGED <<config, head, first>>

\* The rest of poll_next_events.
poll_fetched ==
    /\ phase = "fetch"
    /\ \E S \in SUBSET Window : Fetched(S)
    /\ current' = window.new
    /\ phase' = "idle"
    /\ window' = NoWindow
    /\ UNCHANGED <<config, head, first>>

\* get_events failed: the error is logged, the position moves on all the same.
poll_fails ==
    /\ RpcFails
    /\ phase = "fetch"
    /\ failed' = failed \cup Window
    /\ current' = window.new
    /\ phase' = "idle"
    /\ window' = NoWindow
    /\ UNCHANGED <<config, head, first, scanned>>

poll_next_events == (\E new \in Blocks : poll_head(new)) \/ poll_fetched \/ poll_fails

Next == \/ NewBlock
        \/ sync_historic_events \/ ReplayFetched \/ ReplayFails
        \/ listen \/ listenFails
        \/ poll_next_events

Spec == Init /\ [][Next]_vars

\* The chain goes on, the task is scheduled, and again and again the RPC node
\* tells the true head while the listener asks.
Fairness == /\ WF_vars(NewBlock)
            /\ WF_vars(sync_historic_events \/ ReplayFetched)
            /\ WF_vars(listen)
            /\ SF_vars(poll_head(head))
            /\ WF_vars(poll_fetched \/ poll_fails)

FairSpec == Spec /\ Fairness

-----------------------------------------------------------------------------
(* Properties *)

TypeOK ==
    /\ dispatch_history \in BOOLEAN /\ scan_behind_blocks \in Nat
    /\ head \in Blocks /\ current \in Blocks /\ first \in Blocks
    /\ phase \in {"sync", "replay",      \* replaying history
                  "start",               \* before the first poll of the stream
                  "idle", "fetch",       \* between polls, waiting for logs
                  "ended",               \* the stream is over, the node runs on
                  "exited"}              \* the process is gone
    /\ window \in [from : Nat, to : Blocks, new : Blocks]
    /\ scanned \in [Blocks -> Nat] /\ failed \subseteq Blocks

\* What the stream has moved past.
Passed == {b \in Blocks : first <= b /\ b <= current}

\* The events of a block are handed out at most once, however heads lag behind
\* each other: current_block only grows.  The one exception is what the replay has
\* read before the stream does, and only from the block on the stream starts at.
NoBlockTwice ==
    \A b \in Blocks : scanned[b] <= 1 \/ (dispatch_history /\ first <= b /\ scanned[b] = 2)

\* scan_behind_blocks delays (config.toml:28) and does not skip: the stream moves
\* past a block only by scanning it or by failing to.
NoBlockSkipped ==
    phase \in {"idle", "fetch"} =>
        \A b \in Passed : scanned[b] > 0 \/ b \in failed

\* Without a delay the stream's windows leave no block out, however the heads that
\* RPC replicas report jump and whichever requests fail: a block it has passed was
\* asked for, with success or, once, in vain.
NoBlockUnnoticed == scan_behind_blocks = 0 => NoBlockSkipped

\* Before the stream starts, the replay has gone through every block, from the
\* deployment to to_block_number, that was final when the process started.
HistoryIsReplayed ==
    dispatch_history /\ Deployed # 0 /\ phase \in {"start", "idle", "fetch"} =>
        \A b \in Deployed .. FirstHead - MaxLag :
            (ToBlock # 0 /\ b > ToBlock) \/ scanned[b] > 0 \/ b \in failed

\* --dispatch-history leaves no gap between the replay and the stream: once the
\* stream is past a block, no block since the deployment is missing.
NoGapAfterHistory ==
    dispatch_history /\ phase \in {"idle", "fetch"} =>
        \A b \in Deployed .. current : scanned[b] > 0

\* Without a delay no block of the stream stays unread for ever: it is scanned
\* or its fetch fails, unless the stream died.  Only the last block may wait,
\* since poll_next_events returns early for a single new block.
EveryBlockIsPassed ==
    \A b \in Blocks : b < LastHead =>
        ((phase = "idle" /\ first <= b /\ scan_behind_blocks = 0)
            ~> (scanned[b] > 0 \/ b \in failed \/ phase \in {"ended", "exited"}))
=============================================================================
