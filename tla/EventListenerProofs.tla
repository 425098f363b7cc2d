------------------------ MODULE EventListenerProofs ------------------------
(***************************************************************************)
(* The listener's safety, for every configuration: any length of the       *)
(* chain, any delay, lag, deployment block and choice of log strategy.     *)
(*                                                                         *)
(* What the properties say of the blocks handed out holds because of how   *)
(* the window under way lies to current_block and to the head that was     *)
(* observed; ListenerInv adds that.                                        *)
(***************************************************************************)
EXTENDS EventListener, TLAPS

\* The head never falls behind the one the process started with.
HeadGrows == FirstHead <= head

\* A request of the stream starts behind current_block and ends the delay
\* before the head that was observed, which the chain had reached.
StreamWindow ==
    phase = "fetch" =>
        /\ window.from = current + 1
        /\ window.to = window.new - scan_behind_blocks
        /\ current < window.to
        /\ window.new <= head

\* The replay asks for everything from the deployment on, up to a head that was
\* final when the process started, or to to_block_number.
ReplayWindow ==
    phase = "replay" =>
        /\ window.from = Deployed
        /\ window.to = IF ToBlock = 0 \/ ToBlock > window.new THEN window.new ELSE ToBlock
        /\ FirstHead - MaxLag <= window.new

\* How often the stream may find a block read already.
Before == IF dispatch_history THEN 1 ELSE 0

\* The replay hands out nothing twice, and after it the stream alone hands out
\* events, in ascending order from its first block to current_block.
StreamAscends ==
    /\ ~dispatch_history => phase \notin {"sync", "replay"}
    /\ phase \in {"sync", "replay"} => \A b \in Blocks : scanned[b] = 0
    /\ phase = "start" => \A b \in Blocks : scanned[b] <= Before
    /\ \A b \in Blocks : b < first \/ current < b => scanned[b] <= Before
    /\ \A b \in Blocks : scanned[b] <= Before + 1
    /\ first <= current + 1

ListenerInv ==
    /\ TypeOK
    /\ HeadGrows /\ StreamWindow /\ ReplayWindow /\ StreamAscends
    /\ NoBlockUnnoticed /\ HistoryIsReplayed

-----------------------------------------------------------------------------
\* The types of the constants, one by one.
LEMMA ConstantTypes ==
    /\ Deployed \in Nat /\ ToBlock \in Nat /\ MaxLag \in Nat
    /\ FirstHead \in Nat /\ LastHead \in Nat /\ FirstHead <= LastHead
    /\ Behinds \subseteq Nat /\ Histories \subseteq BOOLEAN
BY ListenerAssumption

\* An answer of the RPC node is a block of the chain, not older than the lag.
LEMMA AnswerIsBlock ==
    ASSUME TypeOK, NEW new \in Answers
    PROVE  new \in Blocks /\ new <= head /\ head - MaxLag <= new
BY ConstantTypes DEF TypeOK, Answers, Blocks

\* What a request names are blocks.
LEMMA WindowIsBlocks ==
    ASSUME TypeOK
    PROVE  Window \subseteq Blocks
BY ConstantTypes DEF TypeOK, Window, Blocks

\* The events of the blocks S of the window, and of no other, are handed out
\* once more; the rest of the window is noted as failed.
HandedOut(S) ==
    /\ S \subseteq Window
    /\ scanned' \in [Blocks -> Nat] /\ failed' \subseteq Blocks
    /\ \A b \in S : scanned'[b] = scanned[b] + 1
    /\ \A b \in Blocks \ S : scanned'[b] = scanned[b]
    /\ failed' = failed \cup (Window \ S)

\* What the answer to a request for logs does.
LEMMA FetchedEffect ==
    ASSUME TypeOK, NEW S, Fetched(S)
    PROVE  HandedOut(S)
<1>1. Window \subseteq Blocks
  BY WindowIsBlocks
<1>2. /\ S \subseteq Window
      /\ scanned' = [b \in Blocks |-> IF b \in S THEN scanned[b] + 1 ELSE scanned[b]]
      /\ failed' = failed \cup (Window \ S)
  BY DEF Fetched
<1>3. scanned \in [Blocks -> Nat] /\ failed \subseteq Blocks
  BY DEF TypeOK
<1>4. scanned' \in [Blocks -> Nat] /\ failed' \subseteq Blocks
  BY <1>1, <1>2, <1>3
<1>5. \A b \in S : scanned'[b] = scanned[b] + 1
  BY <1>1, <1>2
<1>6. \A b \in Blocks \ S : scanned'[b] = scanned[b]
  BY <1>2
<1> QED
  BY <1>1, <1>2, <1>4, <1>5, <1>6 DEF HandedOut

\* What was handed out or noted stays so, and the window is now too.
LEMMA NothingForgotten ==
    ASSUME TypeOK, NEW S, HandedOut(S)
    PROVE  /\ \A b \in Window : scanned'[b] > 0 \/ b \in failed'
           /\ \A b \in Blocks : scanned[b] > 0 \/ b \in failed =>
                                   scanned'[b] > 0 \/ b \in failed'
<1>1. Window \subseteq Blocks /\ scanned \in [Blocks -> Nat]
  BY WindowIsBlocks DEF TypeOK
<1> QED
  BY <1>1 DEF HandedOut

\* The listener as started.
LEMMA InitInv == Init => ListenerInv
<1> SUFFICES ASSUME Init PROVE ListenerInv
  OBVIOUS
<1>1. TypeOK
  BY ConstantTypes DEF Init, TypeOK, Blocks, NoWindow
<1>2. HeadGrows /\ StreamWindow /\ ReplayWindow
  BY ConstantTypes DEF Init, HeadGrows, StreamWindow, ReplayWindow
<1>3. StreamAscends
  BY DEF Init, StreamAscends, Before
<1>4. NoBlockUnnoticed /\ HistoryIsReplayed
  BY DEF Init, NoBlockUnnoticed, NoBlockSkipped, HistoryIsReplayed
<1> QED
  BY <1>1, <1>2, <1>3, <1>4 DEF ListenerInv

-----------------------------------------------------------------------------
(* One lemma per action; what it leaves alone is the same for many of them. *)

\* Only the chain or the phase changes, the latter to one that promises nothing.
LEMMA QuietStep ==
    ASSUME ListenerInv,
           UNCHANGED <<config, window, current, first, scanned, failed>>,
           \/ phase' = phase /\ head' \in Blocks /\ head <= head'
           \/ phase' \in {"ended", "exited"} /\ head' = head
    PROVE  ListenerInv'
<1> USE ConstantTypes DEF config
<1>1. TypeOK'
  BY DEF ListenerInv, TypeOK, Blocks
<1>2. (HeadGrows /\ StreamWindow /\ ReplayWindow)'
  BY DEF ListenerInv, TypeOK, Blocks, HeadGrows, StreamWindow, ReplayWindow
<1>3. StreamAscends'
  BY DEF ListenerInv, StreamAscends, Before
<1>4. (NoBlockUnnoticed /\ HistoryIsReplayed)'
  BY DEF ListenerInv, NoBlockUnnoticed, NoBlockSkipped, HistoryIsReplayed, Passed
<1> QED
  BY <1>1, <1>2, <1>3, <1>4 DEF ListenerInv

\* sync_historic_events begins.
LEMMA SyncStep == ASSUME ListenerInv, sync_historic_events PROVE ListenerInv'
<1> USE ConstantTypes DEF config
<1>1. PICK new \in Answers :
         window' = [from |-> Deployed, new |-> new,
                    to |-> IF ToBlock = 0 \/ ToBlock > new THEN new ELSE ToBlock]
  BY DEF sync_historic_events
<1>2. new \in Blocks /\ new <= head /\ head - MaxLag <= new
  BY AnswerIsBlock DEF ListenerInv
<1>3. /\ phase = "sync" /\ phase' = "replay"
      /\ UNCHANGED <<config, head, current, first, scanned, failed>>
  BY DEF sync_historic_events
<1>4. TypeOK'
  BY <1>1, <1>2, <1>3 DEF ListenerInv, TypeOK, Blocks
<1>5. (HeadGrows /\ StreamWindow /\ ReplayWindow)'
  BY <1>1, <1>2, <1>3
     DEF ListenerInv, TypeOK, Blocks, HeadGrows, StreamWindow, ReplayWindow
<1>6. StreamAscends'
  BY <1>3 DEF ListenerInv, StreamAscends, Before
<1>7. (NoBlockUnnoticed /\ HistoryIsReplayed)'
  BY <1>3 DEF NoBlockUnnoticed, NoBlockSkipped, HistoryIsReplayed
<1> QED
  BY <1>4, <1>5, <1>6, <1>7 DEF ListenerInv

\* An answer of the replay.
LEMMA ReplayStep == ASSUME ListenerInv, ReplayFetched PROVE ListenerInv'
<1> USE ConstantTypes DEF config
<1> TypeOK
  BY DEF ListenerInv
<1>1. PICK S \in SUBSET Window : Fetched(S)
  BY DEF ReplayFetched
<1>2. /\ phase = "replay" /\ phase' = "start" /\ window' = NoWindow
      /\ UNCHANGED <<config, head, current, first>>
  BY DEF ReplayFetched
<1>3. dispatch_history
  BY <1>2 DEF ListenerInv, StreamAscends, TypeOK
<1>4. TypeOK'
  BY <1>1, <1>2, FetchedEffect DEF TypeOK, NoWindow, Blocks, HandedOut
<1>5. (HeadGrows /\ StreamWindow /\ ReplayWindow)'
  BY <1>2 DEF ListenerInv, HeadGrows, StreamWindow, ReplayWindow
<1>6. (StreamAscends /\ NoBlockUnnoticed)'
  <2>1. \A b \in Blocks : scanned'[b] <= 1
    <3>1. \A b \in Blocks : scanned[b] = 0
      BY <1>2 DEF ListenerInv, StreamAscends
    <3>2. HandedOut(S) /\ Window \subseteq Blocks
      BY <1>1, FetchedEffect, WindowIsBlocks
    <3> QED BY <3>1, <3>2 DEF HandedOut
  <2>2. Before' = 1 /\ first' <= current' + 1
    BY <1>2, <1>3 DEF Before, ListenerInv, StreamAscends
  <2>3. \A b \in Blocks : scanned'[b] <= Before' + 1
    BY <1>4, <2>1, <2>2 DEF TypeOK
  <2> QED BY <1>2, <1>3, <2>1, <2>2, <2>3 DEF StreamAscends, NoBlockUnnoticed, NoBlockSkipped
<1>7. HistoryIsReplayed'
  <2> SUFFICES ASSUME NEW b \in Deployed .. FirstHead - MaxLag, ~(ToBlock # 0 /\ b > ToBlock)
               PROVE  scanned'[b] > 0 \/ b \in failed'
    BY DEF HistoryIsReplayed
  <2>1. b \in Window
    BY <1>2 DEF ListenerInv, ReplayWindow, Window, TypeOK, Blocks
  <2> QED
    BY <1>1, <2>1, FetchedEffect, NothingForgotten
<1> QED
  BY <1>4, <1>5, <1>6, <1>7 DEF ListenerInv

\* listen takes its first block.
LEMMA ListenStep == ASSUME ListenerInv, listen PROVE ListenerInv'
<1> USE ConstantTypes DEF config
<1> TypeOK
  BY DEF ListenerInv
<1>1. PICK new \in Answers :
         IF new = 0
         THEN phase' = "exited" /\ UNCHANGED <<current, first>>
         ELSE phase' = "idle" /\ current' = new - 1 /\ first' = new
  BY DEF listen
<1>2. new \in Blocks /\ new <= head
  BY AnswerIsBlock
<1>3. phase = "start" /\ UNCHANGED <<config, head, window, scanned, failed>>
  BY DEF listen
<1>4. CASE new = 0
  BY <1>1, <1>3, <1>4, QuietStep
<1>5. CASE new # 0
  <2>1. phase' = "idle" /\ current' = new - 1 /\ first' = new
    BY <1>1, <1>5
  <2>2. TypeOK'
    BY <1>2, <1>3, <1>5, <2>1 DEF TypeOK, Blocks
  <2>3. (HeadGrows /\ StreamWindow /\ ReplayWindow)'
    BY <1>3, <2>1 DEF ListenerInv, HeadGrows, StreamWindow, ReplayWindow
  <2>4. StreamAscends'
    BY <1>2, <1>3, <2>1 DEF ListenerInv, StreamAscends, Before, Blocks
  <2>5. NoBlockUnnoticed'
    BY <1>2, <2>1 DEF NoBlockUnnoticed, NoBlockSkipped, Passed, Blocks
  <2>6. HistoryIsReplayed'
    BY <1>3, <2>1 DEF ListenerInv, HistoryIsReplayed
  <2> QED
    BY <2>2, <2>3, <2>4, <2>5, <2>6 DEF ListenerInv
<1> QED
  BY <1>4, <1>5

\* poll_next_events, with each outcome.
LEMMA PollStep ==
    ASSUME ListenerInv, NEW new \in Blocks, poll_head(new)
    PROVE  ListenerInv'
<1> USE ConstantTypes DEF config
<1> TypeOK
  BY DEF ListenerInv
<1>1. /\ phase = "idle" /\ new \in Answers
      /\ UNCHANGED <<config, head, current, first, scanned, failed>>
  BY DEF poll_head
<1>2. new <= head
  BY <1>1, AnswerIsBlock
<1>3. CASE new < scan_behind_blocks
  BY <1>1, <1>3, QuietStep DEF poll_head
<1>4. CASE ~(new < scan_behind_blocks)
  <2>1. /\ new - scan_behind_blocks > current + 1
        /\ phase' = "fetch"
        /\ window' = [from |-> current + 1, to |-> new - scan_behind_blocks, new |-> new]
    BY <1>4 DEF poll_head
  <2>2. TypeOK'
    BY <1>1, <1>4, <2>1 DEF TypeOK, Blocks
  <2>3. (HeadGrows /\ StreamWindow /\ ReplayWindow)'
    BY <1>1, <1>2, <2>1
       DEF ListenerInv, TypeOK, Blocks, HeadGrows, StreamWindow, ReplayWindow
  <2>4. StreamAscends'
    BY <1>1, <2>1 DEF ListenerInv, StreamAscends, Before
  <2>5. (NoBlockUnnoticed /\ HistoryIsReplayed)'
    BY <1>1, <2>1
       DEF ListenerInv, NoBlockUnnoticed, NoBlockSkipped, HistoryIsReplayed, Passed
  <2> QED
    BY <2>2, <2>3, <2>4, <2>5 DEF ListenerInv
<1> QED
  BY <1>3, <1>4

\* The end of a poll, however the request went: the position moves on, and each
\* block of the window has been handed out once more or noted as failed.
LEMMA PassStep ==
    ASSUME ListenerInv, phase = "fetch", phase' = "idle",
           current' = window.new, window' = NoWindow,
           UNCHANGED <<config, head, first>>,
           NEW S, HandedOut(S)
    PROVE  ListenerInv'
<1> USE ConstantTypes DEF config
<1> TypeOK
  BY DEF ListenerInv
<1>1. Window \subseteq Blocks
  BY WindowIsBlocks
<1>2. /\ window.from = current + 1 /\ window.to = window.new - scan_behind_blocks
      /\ current < window.to
      /\ window.to \in Blocks /\ window.new \in Blocks /\ current \in Blocks
      /\ scan_behind_blocks \in Nat /\ current < window.new
  BY DEF ListenerInv, StreamWindow, TypeOK, Blocks
<1>3. \A b \in Blocks : b \in Window <=> current < b /\ b <= window.to
  BY <1>2 DEF Window, Blocks
<1>4. TypeOK'
  <2>1. NoWindow \in [from : Nat, to : Blocks, new : Blocks]
    BY DEF NoWindow, Blocks
  <2> QED
    BY <1>2, <2>1 DEF TypeOK, HandedOut
<1>5. (HeadGrows /\ StreamWindow /\ ReplayWindow)'
  BY DEF ListenerInv, HeadGrows, StreamWindow, ReplayWindow
<1>6. StreamAscends'
  <2>1. /\ Before \in Nat /\ Before' = Before /\ first \in Int
        /\ first' <= current' + 1 /\ first <= current + 1
    BY <1>2 DEF ListenerInv, StreamAscends, Before, TypeOK, Blocks
  <2> SUFFICES ASSUME NEW b \in Blocks
               PROVE  /\ b < first \/ window.new < b => scanned'[b] <= Before
                      /\ scanned'[b] <= Before + 1
    BY <2>1 DEF StreamAscends
  <2>2. /\ scanned[b] \in Nat /\ scanned[b] <= Before + 1
        /\ b < first \/ current < b => scanned[b] <= Before
    BY DEF ListenerInv, StreamAscends, TypeOK
  <2>3. b \in Int /\ current \in Int /\ window.to \in Int /\ window.new \in Int
    BY <1>2 DEF Blocks
  <2>4. CASE b \in S
    <3>1. current < b /\ b <= window.to
      BY <1>1, <1>3, <2>4 DEF HandedOut
    <3>2. scanned'[b] = scanned[b] + 1
      BY <2>4 DEF HandedOut
    <3>3. ~(b < first) /\ ~(window.new < b)
      BY <1>2, <2>1, <2>3, <3>1
    <3> QED
      BY <2>1, <2>2, <3>1, <3>2, <3>3
  <2>5. CASE b \notin S
    BY <1>2, <2>2, <2>3, <2>5 DEF HandedOut
  <2> QED
    BY <2>4, <2>5
<1>7. NoBlockUnnoticed'
  <2> SUFFICES ASSUME scan_behind_blocks = 0, NEW b \in Blocks,
                      first <= b, b <= window.new
               PROVE  scanned'[b] > 0 \/ b \in failed'
    BY DEF NoBlockUnnoticed, NoBlockSkipped, Passed
  <2>1. CASE b <= current
    <3>1. scanned[b] > 0 \/ b \in failed
      BY <2>1 DEF ListenerInv, NoBlockUnnoticed, NoBlockSkipped, Passed
    <3> QED
      BY <3>1, NothingForgotten
  <2>2. CASE ~(b <= current)
    <3>1. b \in Window
      BY <1>2, <1>3, <2>2 DEF Blocks
    <3> QED
      BY <3>1, NothingForgotten
  <2> QED
    BY <2>1, <2>2
<1>8. HistoryIsReplayed'
  <2> SUFFICES ASSUME dispatch_history /\ Deployed # 0,
                      NEW b \in Deployed .. FirstHead - MaxLag,
                      ~(ToBlock # 0 /\ b > ToBlock)
               PROVE  scanned'[b] > 0 \/ b \in failed'
    BY DEF HistoryIsReplayed
  <2>1. b \in Blocks /\ (scanned[b] > 0 \/ b \in failed)
    BY DEF ListenerInv, HistoryIsReplayed, Blocks
  <2> QED
    BY <2>1, NothingForgotten
<1> QED
  BY <1>4, <1>5, <1>6, <1>7, <1>8 DEF ListenerInv

\* Every step keeps the invariant.
LEMMA NextInv == ListenerInv /\ [Next]_vars => ListenerInv'
<1> SUFFICES ASSUME ListenerInv, [Next]_vars PROVE ListenerInv'
  OBVIOUS
<1> TypeOK
  BY DEF ListenerInv
<1>1. CASE NewBlock
  BY <1>1, QuietStep, ConstantTypes DEF NewBlock, TypeOK, Blocks
<1>2. CASE sync_historic_events
  BY <1>2, SyncStep
<1>3. CASE ReplayFetched
  BY <1>3, ReplayStep
<1>4. CASE ReplayFails
  BY <1>4, QuietStep DEF ReplayFails
<1>5. CASE listen
  BY <1>5, ListenStep
<1>6. CASE listenFails
  BY <1>6, QuietStep DEF listenFails
<1>7. ASSUME NEW new \in Blocks, poll_head(new) PROVE ListenerInv'
  BY <1>7, PollStep
<1>8. CASE poll_fetched
  <2>1. PICK S \in SUBSET Window : Fetched(S)
    BY <1>8 DEF poll_fetched
  <2> QED
    BY <1>8, <2>1, FetchedEffect, PassStep DEF poll_fetched
<1>9. CASE poll_fails
  <2>1. HandedOut({})
    BY <1>9, WindowIsBlocks DEF poll_fails, TypeOK, HandedOut
  <2> QED
    BY <1>9, <2>1, PassStep DEF poll_fails
<1>10. CASE UNCHANGED vars
  BY <1>10, QuietStep DEF vars, TypeOK, Blocks
<1> QED
  BY <1>1, <1>2, <1>3, <1>4, <1>5, <1>6, <1>7, <1>8, <1>9, <1>10
     DEF Next, poll_next_events

\* The invariant holds throughout.
LEMMA ListenerInvariant == Spec => []ListenerInv
BY InitInv, NextInv, PTL DEF Spec

-----------------------------------------------------------------------------
(* The results *)

\* Every variable keeps its type: no position, window or failed block leaves the
\* chain, however short it still is, and scan_behind_blocks never wraps.
THEOREM TypeCorrect == Spec => []TypeOK
BY ListenerInvariant, PTL DEF ListenerInv

\* The events of a block are handed out once, or once by the replay and once more
\* by the stream, from its first block on.
THEOREM BlocksHandedOutOnce == Spec => []NoBlockTwice
<1>1. ListenerInv => NoBlockTwice
  BY DEF ListenerInv, StreamAscends, Before, NoBlockTwice, TypeOK, Blocks
<1> QED
  BY <1>1, ListenerInvariant, PTL

\* Without a delay the stream passes no block that it has neither handed out nor
\* failed to fetch.
THEOREM NothingPassedUnnoticed == Spec => []NoBlockUnnoticed
BY ListenerInvariant, PTL DEF ListenerInv

\* The replay covers what was final when the process started.
THEOREM HistoryCovered == Spec => []HistoryIsReplayed
BY ListenerInvariant, PTL DEF ListenerInv
=============================================================================
