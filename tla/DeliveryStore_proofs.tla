------------------------ MODULE DeliveryStore_proofs -------------------------
(***************************************************************************)
(* Proofs about DeliveryStore, for every number of operations, clocks,     *)
(* revisions, users and limits.  IInv is shown to be inductive, one lemma  *)
(* per action; the safety theorems follow from it.                         *)
(***************************************************************************)
EXTENDS DeliveryStore, TLAPS

-----------------------------------------------------------------------------
(* Facts about the operators *)

\* Two sets of operations have the ids of their union.
LEMMA IdsOfUnion ==
    ASSUME NEW A, NEW B
    PROVE  IdsOf(A \cup B) = IdsOf(A) \cup IdsOf(B)
  BY DEF IdsOf

\* A batch, planned or legacy, is taken from the queue and carries no command
\* that is still held.
LEMMA BatchesAreFree ==
    ASSUME TypeOK, EdgesSound, CountersCover, NEW ops \in Batches
    PROVE  ops \subseteq queue /\ IdsOf(ops) \cap Waiting = {}
  <1>1. \A S, n : Earliest(S, n) \subseteq S
    BY DEF Earliest
  <1>2. CASE planner
    <2>1. ops \subseteq PlannedWindow
      BY <1>2 DEF Batches, PlannedBatches
    <2>2. PlannedWindow \subseteq BeforeBarrier
      BY <1>1 DEF PlannedWindow, InDomain
    <2>3. ASSUME NEW o \in BeforeBarrier
          PROVE  o \in queue /\ o.id \notin Waiting
      <3>1. o \in queue
        BY <2>3 DEF BeforeBarrier
      <3>2. o.id \in Nat
        BY <3>1 DEF TypeOK, Op
      <3>3. CASE o.domain # Commands
        BY <3>1, <3>3 DEF EdgesSound, Waiting
      <3>4. CASE \A w \in Waiting : o.id < w
        BY <3>1, <3>2, <3>4
      <3>. QED  BY <2>3, <3>1, <3>3, <3>4 DEF BeforeBarrier
    <2>. QED  BY <2>1, <2>2, <2>3 DEF IdsOf
  <1>3. CASE ~planner
    <2>1. ops = LegacyBatch
      BY <1>3 DEF Batches
    <2>2. LegacyBatch \subseteq Sendable
      BY <1>1 DEF LegacyBatch, InDomain
    <2>. QED  BY <2>1, <2>2 DEF Sendable, IdsOf
  <1>. QED  BY <1>2, <1>3

\* A resolution, whichever strategy, publishes only queued, free operations,
\* and the ids it captures for the answer are those it carries.
LEMMA OutboundIsFree ==
    ASSUME TypeOK, NEW s \in Strategies, OutboundAllowed(s)
    PROVE  /\ OutboundOps(s) \subseteq queue
           /\ IdsOf(OutboundOps(s)) \cap Waiting = {}
           /\ s = "keep_remote" => OutboundOps(s) = {}
           /\ s # "keep_remote" => IdsOf(OutboundOps(s)) = IdsOf(Sendable)
  <1>1. CASE s = "keep_remote"
    BY <1>1 DEF OutboundOps, IdsOf
  <1>2. CASE s # "keep_remote" /\ planner
    <2>1. waits = {} /\ OutboundOps(s) = queue
      BY <1>2 DEF OutboundAllowed, OutboundOps
    <2>2. Waiting = {} /\ Sendable = queue
      BY <2>1 DEF Waiting, Sendable
    <2>. QED  BY <1>2, <2>1, <2>2
  <1>3. CASE s # "keep_remote" /\ ~planner
    <2>1. OutboundOps(s) = Sendable
      BY <1>3 DEF OutboundOps
    <2>. QED  BY <1>3, <2>1 DEF Sendable, IdsOf
  <1>. QED  BY <1>1, <1>2, <1>3

-----------------------------------------------------------------------------
(* The invariant holds initially *)

\* A fresh profile satisfies the inductive invariant.
LEMMA InitInvariant == Init => IInv
  <1>. SUFFICES ASSUME Init PROVE IInv
    OBVIOUS
  <1>. USE DEF Init
  <1>1. TypeOK
    BY CoresAssumption DEF TypeOK
  <1>2. CountersCover /\ SequenceFollowsClock
    BY DEF CountersCover, SequenceFollowsClock
  <1>3. EdgesSound /\ ProofCovers /\ NeverSentProofSound
    BY DEF EdgesSound, ProofCovers, NeverSentProofSound
  <1>4. OneOutstandingRequest /\ OutstandingKnown
    BY DEF OneOutstandingRequest, OutstandingKnown, Outstanding
  <1>5. PossiblyDeliveredIsReplayable /\ ExactReplay
    BY DEF PossiblyDeliveredIsReplayable, ExactReplay, QueuedIds, IdsOf
  <1>. QED  BY <1>1, <1>2, <1>3, <1>4, <1>5 DEF IInv

-----------------------------------------------------------------------------
(* Local edits *)

\* What every reservation has in common: ids and clocks are fresh, and a new
\* edge joins a new command to an earlier, free one.
Fresh(ops, n) ==
    /\ ops \subseteq Op
    /\ \A o \in ops : \E k \in 1..n : o.id = lastId + k /\ o.clock = hlc + k
    /\ \A o, p \in ops : o.id = p.id => o = p

Joins(edges, ops) ==
    \A e \in edges :
        /\ e \in Nat \X Nat
        /\ e[2] < e[1]
        /\ e[1] \in IdsOf(ops)
        /\ e[2] \in IdsOf(queue) \cup IdsOf(ops)
        /\ e[2] \notin Waiting
        /\ \A f \in edges : e[2] # f[1]
        /\ \A o \in queue \cup ops : o.id \in {e[1], e[2]} => o.domain = Commands

\* Queueing fresh operations, whatever they are, keeps the invariant.
LEMMA EnqueueInvariant ==
    ASSUME IInv, NEW ops, NEW edges, NEW n \in Nat,
           Fresh(ops, n), Joins(edges, ops), Enqueue(ops, edges, n)
    PROVE  IInv'
  <1>. DEFINE kept == queue \ Replaced(ops)
  <1>1. /\ queue' = kept \cup ops
        /\ waits' = waits \cup edges
        /\ neverSent' = (neverSent \ IdsOf(Replaced(ops))) \cup IdsOf(ops)
        /\ lastId' = lastId + n /\ hlc' = hlc + n
        /\ resolution = {}
        /\ claim' = claim /\ resolution' = resolution /\ revision' = revision
        /\ user' = user /\ head' = head /\ lastRequest' = lastRequest
        /\ planner' = planner /\ requests' = requests /\ discarded' = discarded
    BY DEF Enqueue, NoPendingResolution
  <1>2. /\ lastId \in Nat /\ hlc \in Nat /\ head \in Nat
        /\ queue \subseteq Op /\ waits \subseteq Nat \X Nat /\ neverSent \subseteq Nat
    BY DEF IInv, TypeOK
  <1>3. \A o \in ops : /\ o.id \in Nat /\ o.id > lastId /\ o.id <= lastId + n
                       /\ o.clock \in Nat /\ o.clock > hlc /\ o.clock <= hlc + n
    BY <1>2 DEF Fresh
  <1>4. \A o \in queue : /\ o.id \in Nat /\ o.id <= lastId
                         /\ o.clock \in Nat /\ o.clock <= hlc
    BY <1>2 DEF IInv, CountersCover, Op
  <1>5. kept \subseteq queue /\ IdsOf(kept) \subseteq QueuedIds
    BY DEF IdsOf, QueuedIds
  <1>6. QueuedIds' = IdsOf(kept) \cup IdsOf(ops)
    BY <1>1 DEF QueuedIds, IdsOf
  <1>7. PublishedIds' = PublishedIds
    BY <1>1 DEF PublishedIds
  <1>8. \A id \in PublishedIds : id <= lastId
    BY DEF IInv, CountersCover, PublishedIds, IdsOf
  <1>9. TypeOK'
    <2>1. IdsOf(ops) \subseteq Nat
      BY <1>3 DEF IdsOf
    <2>2. queue' \subseteq Op /\ waits' \subseteq Nat \X Nat
      BY <1>1, <1>2 DEF Fresh, Joins
    <2>3. neverSent' \subseteq Nat
      BY <1>1, <1>2, <2>1
    <2>4. lastId' \in Nat /\ hlc' \in Nat
      BY <1>1, <1>2
    <2>. QED  BY <1>1, <2>2, <2>3, <2>4 DEF IInv, TypeOK
  <1>10. CountersCover'
    <2>1. \A o, p \in queue' : o.id = p.id => o = p
      <3>. SUFFICES ASSUME NEW o \in kept \cup ops, NEW p \in kept \cup ops,
                           o.id = p.id
                    PROVE  o = p
        BY <1>1
      <3>1. CASE o \in kept /\ p \in kept
        BY <3>1 DEF IInv, CountersCover
      <3>2. CASE o \in ops /\ p \in ops
        BY <3>2 DEF Fresh
      <3>. QED  BY <1>2, <1>3, <1>4, <1>5, <3>1, <3>2
    <2>2. \A o \in queue' : o.id <= lastId' /\ o.clock <= hlc'
      BY <1>1, <1>2, <1>3, <1>4, <1>5
    <2>3. \A r \in requests' : \A o \in r.ops : o.id <= lastId'
      <3>1. \A r \in requests : \A o \in r.ops : o.id \in Nat /\ o.id <= lastId
        BY DEF IInv, CountersCover, TypeOK, Published, Op
      <3>2. requests' = requests /\ lastId' = lastId + n
        BY <1>1
      <3>. QED  BY <1>2, <3>1, <3>2
    <2>4. head' <= hlc'
      BY <1>1, <1>2 DEF IInv, CountersCover
    <2>. QED  BY <2>1, <2>2, <2>3, <2>4 DEF CountersCover
  <1>11. SequenceFollowsClock'
    <2>. SUFFICES ASSUME NEW o \in kept \cup ops, NEW p \in kept \cup ops,
                         o.id < p.id
                  PROVE  o.clock < p.clock
      BY <1>1 DEF SequenceFollowsClock
    <2>1. CASE o \in kept /\ p \in kept
      BY <2>1 DEF IInv, SequenceFollowsClock
    <2>2. CASE o \in ops /\ p \in ops
      BY <1>2, <2>2 DEF Fresh
    <2>. QED  BY <1>2, <1>3, <1>4, <2>1, <2>2
  <1>12. EdgesSound'
    <2>. SUFFICES ASSUME NEW e \in waits \cup edges
                  PROVE  /\ e[1] \in neverSent'
                         /\ e[2] \in QueuedIds' /\ e[2] \notin Waiting'
                         /\ e[2] < e[1]
                         /\ \A o \in kept \cup ops :
                               o.id \in {e[1], e[2]} => o.domain = Commands
      BY <1>1 DEF EdgesSound
    <2>1. Waiting' = Waiting \cup {f[1] : f \in edges}
      BY <1>1 DEF Waiting
    <2>2. \A o \in Replaced(ops) : o \in queue /\ o.domain = Durations
      BY DEF Replaced
    <2>3. Durations # Commands
      BY DEF Durations, Commands
    <2>4. \A id \in IdsOf(ops) : id > lastId
      BY <1>3 DEF IdsOf
    <2>5. CASE e \in waits
      <3>1. /\ e[1] \in neverSent /\ e[2] \in QueuedIds /\ e[2] \notin Waiting
            /\ e[2] < e[1]
            /\ \A o \in queue : o.id \in {e[1], e[2]} => o.domain = Commands
        BY <2>5 DEF IInv, EdgesSound
      <3>2. e[1] \in QueuedIds
        BY <3>1 DEF IInv, ProofCovers
      <3>3. PICK c \in queue : c.id = e[1]
        BY <3>2 DEF QueuedIds, IdsOf
      <3>4. PICK f \in queue : f.id = e[2]
        BY <3>1 DEF QueuedIds, IdsOf
      <3>5. e[1] \notin IdsOf(Replaced(ops)) /\ e[2] \notin IdsOf(Replaced(ops))
        BY <2>2, <2>3, <3>1 DEF IdsOf
      <3>6. e[1] \in neverSent' /\ e[2] \in QueuedIds'
        BY <1>1, <1>6, <3>1, <3>4, <3>5 DEF IdsOf
      <3>7. e[2] \notin Waiting'
        <4>1. e[2] <= lastId
          BY <1>4, <3>4
        <4>2. \A g \in edges : g[1] > lastId
          BY <2>4 DEF Joins
        <4>. QED  BY <1>2, <1>4, <2>1, <3>1, <3>4, <4>1, <4>2
      <3>8. \A o \in ops : o.id \notin {e[1], e[2]}
        BY <1>2, <1>3, <1>4, <3>3, <3>4
      <3>. QED  BY <3>1, <3>6, <3>7, <3>8
    <2>6. CASE e \in edges
      <3>1. /\ e[1] \in IdsOf(ops) /\ e[2] \in IdsOf(queue) \cup IdsOf(ops)
            /\ e[2] < e[1] /\ e[2] \notin Waiting
            /\ \A f \in edges : e[2] # f[1]
            /\ \A o \in queue \cup ops : o.id \in {e[1], e[2]} => o.domain = Commands
        BY <2>6 DEF Joins
      <3>2. e[2] \notin IdsOf(Replaced(ops))
        BY <2>2, <2>3, <3>1 DEF IdsOf
      <3>3. e[2] \in QueuedIds'
        BY <1>6, <3>1, <3>2 DEF IdsOf
      <3>4. e[1] \in neverSent' /\ e[2] \notin Waiting'
        BY <1>1, <2>1, <3>1
      <3>. QED  BY <3>1, <3>3, <3>4
    <2>. QED  BY <2>5, <2>6
  <1>13. ProofCovers'
    BY <1>1, <1>6 DEF IInv, ProofCovers, QueuedIds, IdsOf
  <1>14. NeverSentProofSound'
    <2>1. \A id \in IdsOf(ops) : id \notin PublishedIds
      BY <1>2, <1>3, <1>8 DEF IdsOf
    <2>. QED  BY <1>1, <1>7, <2>1 DEF IInv, NeverSentProofSound
  <1>15. OneOutstandingRequest'
    BY <1>1 DEF IInv, OneOutstandingRequest, Outstanding
  <1>16. OutstandingKnown'
    BY <1>1 DEF IInv, OutstandingKnown, Outstanding, Carried
  <1>17. PossiblyDeliveredIsReplayable'
    <2>1. QueuedIds' \cap PublishedIds \subseteq QueuedIds
      BY <1>2, <1>3, <1>5, <1>6, <1>8 DEF IdsOf
    <2>2. Outstanding' = Outstanding
      BY <1>1 DEF Outstanding
    <2>. QED  BY <1>1, <1>7, <2>1, <2>2 DEF IInv, PossiblyDeliveredIsReplayable
  <1>18. ExactReplay'
    BY <1>1 DEF IInv, ExactReplay
  <1>. QED
    BY <1>9, <1>10, <1>11, <1>12, <1>13, <1>14, <1>15, <1>16, <1>17, <1>18 DEF IInv

\* One reserved operation is fresh, and so are two or three of one reservation.
LEMMA NewOpsAreFresh ==
    ASSUME IInv, NEW d \in Domains, NEW e \in Domains, NEW f \in Domains
    PROVE  /\ Fresh({NewOp(d, 1)}, 1)
           /\ Fresh({NewOp(d, 1), NewOp(e, 2)}, 2)
           /\ Fresh({NewOp(d, 1), NewOp(e, 2), NewOp(f, 3)}, 3)
           /\ IdsOf({NewOp(d, 1)}) = {lastId + 1}
           /\ IdsOf({NewOp(d, 1), NewOp(e, 2)}) = {lastId + 1, lastId + 2}
  <1>. /\ lastId \in Nat /\ hlc \in Nat
    BY DEF IInv, TypeOK
  <1>1. /\ NewOp(d, 1) \in Op /\ NewOp(e, 2) \in Op /\ NewOp(f, 3) \in Op
        /\ NewOp(d, 1).id = lastId + 1 /\ NewOp(d, 1).clock = hlc + 1
        /\ NewOp(e, 2).id = lastId + 2 /\ NewOp(e, 2).clock = hlc + 2
        /\ NewOp(f, 3).id = lastId + 3 /\ NewOp(f, 3).clock = hlc + 3
    BY DEF NewOp, Op
  <1>2. Fresh({NewOp(d, 1)}, 1)
    BY <1>1 DEF Fresh
  <1>3. Fresh({NewOp(d, 1), NewOp(e, 2)}, 2)
    BY <1>1 DEF Fresh
  <1>4. /\ IdsOf({NewOp(d, 1)}) = {lastId + 1}
        /\ IdsOf({NewOp(d, 1), NewOp(e, 2)}) = {lastId + 1, lastId + 2}
    BY <1>1 DEF IdsOf
  <1>5. Fresh({NewOp(d, 1), NewOp(e, 2), NewOp(f, 3)}, 3)
    BY <1>1 DEF Fresh
  <1>. QED  BY <1>2, <1>3, <1>4, <1>5

\* No edge is nothing to check.
LEMMA NoEdgeJoins == ASSUME NEW ops PROVE Joins({}, ops)
  BY DEF Joins

\* Every local edit is one reservation of fresh operations.
Reservation ==
    \E ops, edges, n :
        n \in Nat /\ Fresh(ops, n) /\ Joins(edges, ops) /\ Enqueue(ops, edges, n)

\* Every way of editing locally is one reservation of fresh, ordered operations.
LEMMA LocalEditReserves == ASSUME IInv, LocalEdit PROVE Reservation
  <1>1. /\ lastId \in Nat /\ waits \subseteq Nat \X Nat /\ queue \subseteq Op
    BY DEF IInv, TypeOK
  <1>2. \A id \in QueuedIds : id \in Nat /\ id <= lastId
    BY DEF IInv, TypeOK, CountersCover, QueuedIds, IdsOf, Op
  <1>3. \A w \in Waiting : w \in Nat /\ w <= lastId
    BY <1>2 DEF IInv, EdgesSound, ProofCovers, Waiting
  <1>4. \A parent \in Parents :
            /\ parent \in QueuedIds /\ parent \notin Waiting
            /\ \A o \in queue : o.id = parent => o.domain = Commands
    BY DEF IInv, EdgesSound, Parents
  <1>5. ASSUME NEW d \in Domains, QueueOperation(d) PROVE Reservation
    BY <1>5, NewOpsAreFresh, NoEdgeJoins DEF Reservation, QueueOperation
  <1>6. ASSUME Commands \in Domains, NEW parent \in Parents, QueueFollowUp(parent)
        PROVE  Reservation
    <2>. DEFINE ops == {NewOp(Commands, 1)}
                edges == {<<lastId + 1, parent>>}
    <2>1. Fresh(ops, 1) /\ IdsOf(ops) = {lastId + 1}
      BY <1>6, NewOpsAreFresh
    <2>2. Joins(edges, ops)
      <3>1. \A o \in ops : o.domain = Commands
        BY DEF NewOp
      <3>2. \A o \in queue : o.id # lastId + 1
        BY <1>1, <1>2 DEF QueuedIds, IdsOf
      <3>3. \A o \in queue \cup ops : o.id \in {lastId + 1, parent} => o.domain = Commands
        BY <1>4, <1>6, <3>1, <3>2
      <3>4. parent \in Nat /\ parent <= lastId /\ parent \in IdsOf(queue)
        BY <1>2, <1>4, <1>6 DEF QueuedIds
      <3>5. \A e \in edges : e \in Nat \X Nat /\ e[1] = lastId + 1 /\ e[2] = parent
        BY <1>1, <3>4
      <3>6. parent \notin Waiting
        BY <1>4, <1>6
      <3>. HIDE DEF ops, edges
      <3>. QED  BY <1>1, <2>1, <3>3, <3>4, <3>5, <3>6 DEF Joins
    <2>3. Enqueue(ops, edges, 1)
      BY <1>6 DEF QueueFollowUp
    <2>. QED  BY <2>1, <2>2, <2>3 DEF Reservation
  <1>7. ASSUME Commands \in Domains, NEW finish \in queue, QueueBreakStart(finish)
        PROVE  Reservation
    <2>. DEFINE ops == {NewOp(Commands, 1)}
                edges == {<<lastId + 1, finish.id>>}
    <2>1. Fresh(ops, 1) /\ IdsOf(ops) = {lastId + 1}
      BY <1>7, NewOpsAreFresh
    <2>2. Joins(edges, ops)
      <3>1. \A o \in ops : o.domain = Commands
        BY DEF NewOp
      <3>2. \A o \in queue : o.id # lastId + 1
        BY <1>1, <1>2 DEF QueuedIds, IdsOf
      <3>3. finish.domain = Commands /\ finish.id \notin Waiting
        BY <1>7 DEF QueueBreakStart, InDomain
      <3>4. \A o \in queue : o.id = finish.id => o = finish
        BY DEF IInv, CountersCover
      <3>5. \A o \in queue \cup ops : o.id \in {lastId + 1, finish.id} => o.domain = Commands
        BY <3>1, <3>2, <3>3, <3>4
      <3>6. finish.id \in Nat /\ finish.id <= lastId /\ finish.id \in IdsOf(queue)
        BY <1>2 DEF QueuedIds, IdsOf
      <3>7. \A e \in edges : e \in Nat \X Nat /\ e[1] = lastId + 1 /\ e[2] = finish.id
        BY <1>1, <3>6
      <3>. HIDE DEF ops, edges
      <3>. QED  BY <1>1, <2>1, <3>3, <3>5, <3>6, <3>7 DEF Joins
    <2>3. Enqueue(ops, edges, 1)
      BY <1>7 DEF QueueBreakStart
    <2>. QED  BY <2>1, <2>2, <2>3 DEF Reservation
  <1>8. ASSUME Commands \in Domains, QueueFinishWithBreak PROVE Reservation
    <2>. DEFINE ops == {NewOp(Commands, 1), NewOp(Commands, 2)}
                edges == {<<lastId + 2, lastId + 1>>}
    <2>1. Fresh(ops, 2) /\ IdsOf(ops) = {lastId + 1, lastId + 2}
      BY <1>8, NewOpsAreFresh
    <2>2. Joins(edges, ops)
      <3>1. \A o \in ops : o.domain = Commands
        BY DEF NewOp
      <3>2. \A o \in queue : o.id # lastId + 1 /\ o.id # lastId + 2
        BY <1>1, <1>2 DEF QueuedIds, IdsOf
      <3>3. lastId + 1 \notin Waiting
        BY <1>1, <1>3
      <3>4. \A e \in edges :
                e \in Nat \X Nat /\ e[1] = lastId + 2 /\ e[2] = lastId + 1
        BY <1>1
      <3>. HIDE DEF ops, edges
      <3>. QED  BY <1>1, <2>1, <3>1, <3>2, <3>3, <3>4 DEF Joins
    <2>3. Enqueue(ops, edges, 2)
      BY <1>8 DEF QueueFinishWithBreak
    <2>. QED  BY <2>1, <2>2, <2>3 DEF Reservation
  <1>9. ASSUME Commands \in Domains, QueuePair({}, 0) PROVE Reservation
    <2>1. Enqueue({NewOp(Commands, 1), NewOp(Commands, 2)}, {}, 2)
      BY <1>9 DEF QueuePair
    <2>. QED  BY <1>9, <2>1, NewOpsAreFresh, NoEdgeJoins DEF Reservation
  <1>10. ASSUME Commands \in Domains, NEW parent \in Parents,
                NEW inherits \in {{1}, {1, 2}}, QueuePair(inherits, parent)
         PROVE  Reservation
    <2>. DEFINE ops == {NewOp(Commands, 1), NewOp(Commands, 2)}
                edges == {<<lastId + k, parent>> : k \in inherits}
    <2>1. Fresh(ops, 2) /\ IdsOf(ops) = {lastId + 1, lastId + 2}
      BY <1>10, NewOpsAreFresh
    <2>2. Joins(edges, ops)
      <3>1. \A o \in ops : o.domain = Commands
        BY DEF NewOp
      <3>2. \A o \in queue : o.id # lastId + 1 /\ o.id # lastId + 2
        BY <1>1, <1>2 DEF QueuedIds, IdsOf
      <3>3. parent \in Nat /\ parent <= lastId /\ parent \in IdsOf(queue)
        BY <1>2, <1>4, <1>10 DEF QueuedIds
      <3>4. \A k \in inherits : k \in {1, 2}
        BY <1>10
      <3>5. \A e \in edges : /\ e \in Nat \X Nat /\ e[2] = parent
                             /\ e[1] \in {lastId + 1, lastId + 2}
        BY <1>1, <3>3, <3>4
      <3>6. parent \notin Waiting
        BY <1>4, <1>10
      <3>7. \A o \in queue : o.id = parent => o.domain = Commands
        BY <1>4, <1>10
      <3>8. \A o \in queue \cup ops :
               o.id \in {lastId + 1, lastId + 2, parent} => o.domain = Commands
        BY <3>1, <3>2, <3>7
      <3>. HIDE DEF ops, edges
      <3>. QED  BY <1>1, <2>1, <3>3, <3>5, <3>6, <3>8 DEF Joins
    <2>3. Enqueue(ops, edges, 2)
      BY <1>10 DEF QueuePair
    <2>. QED  BY <2>1, <2>2, <2>3 DEF Reservation
  <1>11. ASSUME Commands \in Domains, Selected \in Domains, QueueSelectionWithRetarget
         PROVE  Reservation
    BY <1>11, NewOpsAreFresh, NoEdgeJoins DEF Reservation, QueueSelectionWithRetarget
  <1>12. ASSUME Tasks \in Domains, Selected \in Domains, QueueTaskWithSelection
         PROVE  Reservation
    <2>1. CASE Enqueue({NewOp(Tasks, 1), NewOp(Selected, 2)}, {}, 2)
      BY <1>12, <2>1, NewOpsAreFresh, NoEdgeJoins DEF Reservation
    <2>2. CASE /\ Commands \in Domains
               /\ Enqueue({NewOp(Tasks, 1), NewOp(Selected, 2), NewOp(Commands, 3)},
                          {}, 3)
      BY <1>12, <2>2, NewOpsAreFresh, NoEdgeJoins DEF Reservation
    <2>. QED  BY <1>12, <2>1, <2>2 DEF QueueTaskWithSelection
  <1>. QED  BY <1>5, <1>6, <1>7, <1>8, <1>9, <1>10, <1>11, <1>12 DEF LocalEdit

\* Edits keep the inductive invariant.
LEMMA LocalEditInvariant == ASSUME IInv, LocalEdit PROVE IInv'
  BY LocalEditReserves, EnqueueInvariant DEF Reservation

-----------------------------------------------------------------------------
(* Requests: claim, replay, resolution, discard *)

\* Publishing free, queued operations while nothing is outstanding keeps every
\* part of the invariant that the new saved request does not itself decide.
LEMMA PublishInvariant ==
    ASSUME IInv, NEW ops, NEW id \in Nat,
           ops \subseteq queue, IdsOf(ops) \cap Waiting = {},
           Outstanding = {},
           requests' = requests \cup {[requestId |-> id, ops |-> ops]},
           neverSent' = neverSent \ IdsOf(ops),
           \A r \in Outstanding' : r.ops = ops,
           Outstanding' # {},
           UNCHANGED <<queue, waits, head, hlc, lastId, discarded>>
    PROVE  /\ requests' \subseteq Published /\ neverSent' \subseteq Nat
           /\ CountersCover' /\ SequenceFollowsClock' /\ EdgesSound'
           /\ ProofCovers' /\ NeverSentProofSound'
           /\ PossiblyDeliveredIsReplayable' /\ ExactReplay'
  <1>1. /\ queue' = queue /\ waits' = waits /\ head' = head /\ hlc' = hlc
        /\ lastId' = lastId /\ discarded' = discarded
    OBVIOUS
  <1>. DEFINE new == [requestId |-> id, ops |-> ops]
  <1>2. new.ops = ops
    OBVIOUS
  <1>3. PublishedIds' = PublishedIds \cup IdsOf(ops)
    <2>1. requests' = requests \cup {new}
      OBVIOUS
    <2>. HIDE DEF new
    <2>. QED  BY <1>2, <2>1 DEF PublishedIds
  <1>4. QueuedIds' = QueuedIds /\ Waiting' = Waiting /\ IdsOf(ops) \subseteq QueuedIds
    BY <1>1 DEF QueuedIds, IdsOf, Waiting
  <1>5. requests' \subseteq Published /\ neverSent' \subseteq Nat
    <2>1. new \in Published
      BY DEF IInv, TypeOK, Published
    <2>. QED  BY <2>1 DEF IInv, TypeOK
  <1>6. CountersCover'
    <2>1. \A r \in requests : \A o \in r.ops : o.id <= lastId
      BY DEF IInv, CountersCover
    <2>2. \A o \in new.ops : o.id <= lastId
      BY <1>2 DEF IInv, CountersCover
    <2>3. requests' = requests \cup {new}
      OBVIOUS
    <2>. HIDE DEF new
    <2>4. \A r \in requests' : \A o \in r.ops : o.id <= lastId
      BY <2>1, <2>2, <2>3
    <2>. QED  BY <1>1, <2>4 DEF IInv, CountersCover
  <1>7. SequenceFollowsClock'
    BY <1>1 DEF IInv, SequenceFollowsClock
  <1>8. EdgesSound'
    <2>1. \A e \in waits : e[1] \in Waiting
      BY DEF Waiting
    <2>. QED  BY <1>1, <1>4, <2>1 DEF IInv, EdgesSound
  <1>9. ProofCovers'
    BY <1>4 DEF IInv, ProofCovers
  <1>10. NeverSentProofSound'
    BY <1>3 DEF IInv, NeverSentProofSound
  <1>11. PossiblyDeliveredIsReplayable'
    <2>1. QueuedIds \cap PublishedIds \subseteq discarded
      BY DEF IInv, PossiblyDeliveredIsReplayable
    <2>2. IdsOf(ops) \subseteq UNION {IdsOf(r.ops) : r \in Outstanding'}
      OBVIOUS
    <2>. QED  BY <1>1, <1>3, <1>4, <2>1, <2>2 DEF PossiblyDeliveredIsReplayable
  <1>12. ExactReplay'
    <2>1. QueuedIds \cap PublishedIds \subseteq discarded
      BY DEF IInv, PossiblyDeliveredIsReplayable
    <2>2. \A r \in requests : IdsOf(r.ops) \cap IdsOf(ops) \subseteq discarded
      BY <1>4, <2>1 DEF PublishedIds
    <2>3. requests' = requests \cup {new}
      OBVIOUS
    <2>. HIDE DEF new
    <2>. QED  BY <1>1, <1>2, <2>2, <2>3 DEF IInv, ExactReplay
  <1>. QED  BY <1>5, <1>6, <1>7, <1>8, <1>9, <1>10, <1>11, <1>12

\* sync_payload claims operations that nothing holds, and retires their proof.
LEMMA ClaimBatchInvariant == ASSUME IInv, ClaimBatch PROVE IInv'
  <1>1. PICK ops \in Batches :
            /\ claim' = {[kind |-> "sync", requestId |-> 0, ops |-> ops]}
            /\ requests' = requests \cup
                  {Carried([kind |-> "sync", requestId |-> 0, ops |-> ops])}
            /\ neverSent' = neverSent \ IdsOf(ops)
    BY DEF ClaimBatch, WithoutProof
  <1>2. /\ resolution = {} /\ claim = {} /\ resolution' = {}
        /\ queue' = queue /\ waits' = waits /\ head' = head /\ hlc' = hlc
        /\ lastId' = lastId /\ discarded' = discarded /\ revision' = revision
        /\ user' = user /\ lastRequest' = lastRequest /\ planner' = planner
    BY DEF ClaimBatch, NothingSaved
  <1>. DEFINE c == [kind |-> "sync", requestId |-> 0, ops |-> ops]
  <1>3. Carried(c) = [requestId |-> 0, ops |-> ops]
    BY DEF Carried
  <1>4. ops \subseteq queue /\ IdsOf(ops) \cap Waiting = {}
    BY BatchesAreFree DEF IInv
  <1>5. Outstanding = {} /\ Outstanding' = {c}
    BY <1>1, <1>2 DEF Outstanding
  <1>6. /\ requests' \subseteq Published /\ neverSent' \subseteq Nat
        /\ CountersCover' /\ SequenceFollowsClock' /\ EdgesSound'
        /\ ProofCovers' /\ NeverSentProofSound'
        /\ PossiblyDeliveredIsReplayable' /\ ExactReplay'
    BY <1>1, <1>2, <1>3, <1>4, <1>5, PublishInvariant
  <1>7. TypeOK'
    <2>1. c \in Claim
      BY <1>4 DEF IInv, TypeOK, Claim
    <2>. QED  BY <1>1, <1>2, <1>6, <2>1 DEF IInv, TypeOK
  <1>8. OneOutstandingRequest' /\ OutstandingKnown'
    <2>. HIDE DEF c
    <2>1. resolution' = {} /\ Carried(c) \in requests'
      BY <1>1, <1>2 DEF c
    <2>. QED  BY <1>5, <2>1 DEF OneOutstandingRequest, OutstandingKnown
  <1>. QED  BY <1>6, <1>7, <1>8 DEF IInv

\* Handing out the saved claim again changes nothing, not even the history.
LEMMA ReplayClaimInvariant == ASSUME IInv, ReplayClaim PROVE UNCHANGED storeVars
  <1>1. PICK c \in claim : requests' = requests \cup {Carried(c)}
    BY DEF ReplayClaim
  <1>2. Carried(c) \in requests
    BY DEF IInv, OutstandingKnown, Outstanding
  <1>. QED  BY <1>1, <1>2 DEF ReplayClaim, storeVars

\* prepare_resolution captures the queue it publishes.
LEMMA PrepareResolutionInvariant ==
    ASSUME IInv, NEW owner \in Users, NEW expected \in Nat, NEW s \in Strategies,
           PrepareResolution(owner, expected, s)
    PROVE  IInv'
  <1>. DEFINE ops == OutboundOps(s)
              captured == IF s = "keep_remote" THEN QueuedIds ELSE IdsOf(Sendable)
              r == [kind |-> "resolve", requestId |-> lastRequest + 1,
                    owner |-> owner, expectedRevision |-> expected,
                    strategy |-> s, ops |-> ops, queueIds |-> captured]
  <1>1. /\ resolution = {} /\ claim = {} /\ claim' = {}
        /\ resolution' = {r}
        /\ requests' = requests \cup {Carried(r)}
        /\ neverSent' = neverSent \ IdsOf(ops)
        /\ lastRequest' = lastRequest + 1
        /\ queue' = queue /\ waits' = waits /\ head' = head /\ hlc' = hlc
        /\ lastId' = lastId /\ discarded' = discarded /\ revision' = revision
        /\ user' = user /\ planner' = planner
    BY DEF PrepareResolution, NothingSaved, ResolutionFor, WithoutProof
  <1>2. /\ ops \subseteq queue /\ IdsOf(ops) \cap Waiting = {}
        /\ s = "keep_remote" => ops = {}
        /\ s # "keep_remote" => IdsOf(ops) = IdsOf(Sendable)
    BY OutboundIsFree DEF IInv, PrepareResolution
  <1>3. Carried(r) = [requestId |-> lastRequest + 1, ops |-> ops]
    BY DEF Carried
  <1>4. /\ r.ops = ops /\ r.strategy = s /\ r.queueIds = captured
        /\ lastRequest + 1 \in Nat
    BY DEF IInv, TypeOK
  <1>5. Outstanding = {} /\ Outstanding' = {r}
    BY <1>1 DEF Outstanding
  <1>6. r \in Resolution
    <2>1. QueuedIds \subseteq Nat /\ Sendable \subseteq queue
      BY DEF IInv, TypeOK, Op, QueuedIds, IdsOf, Sendable
    <2>2. captured \subseteq Nat
      BY <2>1 DEF QueuedIds, IdsOf
    <2>3. ops \in SUBSET Op
      BY <1>2 DEF IInv, TypeOK
    <2>. HIDE DEF ops, captured
    <2>. QED  BY <1>4, <2>2, <2>3 DEF Resolution
  <1>. HIDE DEF ops, captured, r
  <1>7. /\ requests' \subseteq Published /\ neverSent' \subseteq Nat
        /\ CountersCover' /\ SequenceFollowsClock' /\ EdgesSound'
        /\ ProofCovers' /\ NeverSentProofSound'
        /\ PossiblyDeliveredIsReplayable' /\ ExactReplay'
    BY <1>1, <1>2, <1>3, <1>4, <1>5, PublishInvariant
  <1>8. TypeOK'
    BY <1>1, <1>4, <1>6, <1>7 DEF IInv, TypeOK
  <1>9. OneOutstandingRequest' /\ OutstandingKnown'
    <2>1. QueuedIds' = QueuedIds
      BY <1>1 DEF QueuedIds
    <2>. QED  BY <1>1, <1>2, <1>4, <1>5, <2>1
              DEF OneOutstandingRequest, OutstandingKnown, captured
  <1>. QED  BY <1>7, <1>8, <1>9 DEF IInv

\* Giving a saved request up forgets it, not its operations.
LEMMA DiscardInvariant ==
    ASSUME IInv, NEW r \in Outstanding,
           claim' = {}, resolution' = {},
           discarded' = discarded \cup IdsOf(r.ops),
           UNCHANGED <<queue, waits, neverSent, revision, user, head, hlc,
                       lastId, lastRequest, planner, requests>>
    PROVE  IInv'
  <1>1. /\ queue' = queue /\ waits' = waits /\ neverSent' = neverSent
        /\ revision' = revision /\ user' = user /\ head' = head /\ hlc' = hlc
        /\ lastId' = lastId /\ lastRequest' = lastRequest /\ planner' = planner
        /\ requests' = requests
    OBVIOUS
  <1>2. Outstanding = {r} /\ Outstanding' = {}
    BY DEF IInv, OneOutstandingRequest, Outstanding
  <1>3. /\ QueuedIds' = QueuedIds /\ Waiting' = Waiting
        /\ PublishedIds' = PublishedIds
    BY <1>1 DEF QueuedIds, Waiting, PublishedIds
  <1>4. IdsOf(r.ops) \subseteq Nat
    BY DEF IInv, TypeOK, Outstanding, Claim, Resolution, Op, IdsOf
  <1>5. TypeOK'
    BY <1>1, <1>4 DEF IInv, TypeOK
  <1>6. CountersCover' /\ SequenceFollowsClock'
    BY <1>1 DEF IInv, CountersCover, SequenceFollowsClock
  <1>7. EdgesSound' /\ ProofCovers' /\ NeverSentProofSound'
    BY <1>1, <1>3 DEF IInv, EdgesSound, ProofCovers, NeverSentProofSound
  <1>8. OneOutstandingRequest' /\ OutstandingKnown'
    BY <1>2 DEF OneOutstandingRequest, OutstandingKnown, Outstanding
  <1>9. PossiblyDeliveredIsReplayable'
    BY <1>1, <1>2, <1>3 DEF IInv, PossiblyDeliveredIsReplayable
  <1>10. ExactReplay'
    BY <1>1 DEF IInv, ExactReplay
  <1>. QED  BY <1>5, <1>6, <1>7, <1>8, <1>9, <1>10 DEF IInv

-----------------------------------------------------------------------------
(* Reconciliation *)

\* Installing the answer to the outstanding request: whatever the service
\* applied, ignored or rejected, whatever the core dropped, and whichever
\* clocks were merged.
LEMMA RebaseInvariant ==
    ASSUME IInv, NEW r \in Outstanding, NEW removed, NEW rev \in Nat,
           NEW clk \in Nat, Rebase(r.ops, removed, rev, clk),
           claim' = {}, resolution' = {}, user' \in Users \cup {NoUser},
           lastId' = lastId, lastRequest' = lastRequest, planner' = planner,
           requests' = requests, discarded' = discarded
    PROVE  IInv'
  <1>1. PICK dropped \in SUBSET Released(r.ops), local \in {{}, {hlc}} :
          LET gone   == IdsOf(r.ops) \cup dropped \cup removed
              kept   == {o \in queue : o.id \notin gone}
              clocks == {clk} \cup local \cup {o.clock : o \in kept}
          IN  /\ queue' = kept
              /\ waits' = {e \in waits : e[1] \notin gone /\ e[2] \notin gone}
              /\ neverSent' = neverSent \ gone
              /\ hlc' \in clocks /\ \A c \in clocks : c <= hlc'
    BY DEF Rebase, Greatest, Answered, EdgesLeft, ClockCandidates
  <1>. DEFINE gone == IdsOf(r.ops) \cup dropped \cup removed
              kept == {o \in queue : o.id \notin gone}
              clocks == {clk} \cup local \cup {o.clock : o \in kept}
  <1>2. /\ queue' = kept
        /\ waits' = {e \in waits : e[1] \notin gone /\ e[2] \notin gone}
        /\ neverSent' = neverSent \ gone
        /\ hlc' \in clocks /\ \A c \in clocks : c <= hlc'
    BY <1>1
  <1>3. revision' = rev /\ head' = clk
    BY DEF Rebase
  <1>4. /\ queue \subseteq Op /\ waits \subseteq Nat \X Nat /\ neverSent \subseteq Nat
        /\ hlc \in Nat
    BY DEF IInv, TypeOK
  <1>5. kept \subseteq queue
    OBVIOUS
  <1>6. \A o \in kept : o.clock \in Nat /\ o.clock \in clocks
    BY <1>4 DEF Op
  <1>7. hlc' \in Nat /\ clk <= hlc' /\ \A o \in kept : o.clock <= hlc'
    <2>1. clocks \subseteq Nat
      BY <1>4, <1>6
    <2>2. clk \in clocks
      OBVIOUS
    <2>. HIDE DEF clocks
    <2>. QED  BY <1>2, <1>6, <2>1, <2>2
  <1>8. \A id : id \in QueuedIds' <=> id \in QueuedIds /\ id \notin gone
    <2>. HIDE DEF gone
    <2>. QED  BY <1>2 DEF QueuedIds, IdsOf
  <1>9. PublishedIds' = PublishedIds
    BY DEF PublishedIds
  <1>10. Outstanding = {r} /\ Outstanding' = {}
    BY DEF IInv, OneOutstandingRequest, Outstanding
  <1>11. IdsOf(r.ops) \subseteq gone
    OBVIOUS
  <1>. HIDE DEF gone, clocks
  <1>12. TypeOK'
    <2>1. queue' \subseteq Op /\ waits' \subseteq Nat \X Nat /\ neverSent' \subseteq Nat
      BY <1>2, <1>4
    <2>. QED  BY <1>3, <1>7, <2>1 DEF IInv, TypeOK
  <1>13. CountersCover' /\ SequenceFollowsClock'
    <2>1. queue' \subseteq queue /\ \A o \in queue' : o.clock <= hlc'
      BY <1>2, <1>5, <1>7
    <2>2. head' <= hlc'
      BY <1>3, <1>7
    <2>3. \A r1 \in requests' : \A o \in r1.ops : o.id <= lastId'
      BY DEF IInv, CountersCover
    <2>. HIDE DEF kept
    <2>4. CountersCover'
      BY <2>1, <2>2, <2>3 DEF IInv, CountersCover
    <2>. QED  BY <2>1, <2>4 DEF IInv, SequenceFollowsClock
  <1>14. EdgesSound'
    <2>. SUFFICES ASSUME NEW e \in waits'
                  PROVE  /\ e[1] \in neverSent'
                         /\ e[2] \in QueuedIds' \ Waiting'
                         /\ e[2] < e[1]
                         /\ \A o \in queue' : o.id \in {e[1], e[2]} => o.domain = Commands
      BY DEF EdgesSound
    <2>1. e \in waits /\ e[1] \notin gone /\ e[2] \notin gone
      BY <1>2
    <2>2. Waiting' \subseteq Waiting
      BY <1>2 DEF Waiting
    <2>3. /\ e[1] \in neverSent /\ e[2] \in QueuedIds \ Waiting /\ e[2] < e[1]
          /\ \A o \in queue : o.id \in {e[1], e[2]} => o.domain = Commands
      BY <2>1 DEF IInv, EdgesSound
    <2>. QED  BY <1>2, <1>5, <1>8, <2>1, <2>2, <2>3
  <1>15. ProofCovers' /\ NeverSentProofSound'
    BY <1>2, <1>8, <1>9 DEF IInv, ProofCovers, NeverSentProofSound
  <1>16. OneOutstandingRequest' /\ OutstandingKnown'
    BY <1>10 DEF OneOutstandingRequest, OutstandingKnown, Outstanding
  <1>17. PossiblyDeliveredIsReplayable'
    <2>1. QueuedIds \cap PublishedIds \subseteq discarded \cup IdsOf(r.ops)
      BY <1>10 DEF IInv, PossiblyDeliveredIsReplayable
    <2>. QED  BY <1>8, <1>9, <1>11, <2>1 DEF PossiblyDeliveredIsReplayable
  <1>18. ExactReplay'
    BY DEF IInv, ExactReplay
  <1>. QED  BY <1>12, <1>13, <1>14, <1>15, <1>16, <1>17, <1>18 DEF IInv

\* The answer to a sync claim is a rebase of the rows it carried.
LEMMA ApplySyncInvariant ==
    ASSUME IInv, NEW rev \in Nat, NEW clk \in Nat, ApplySync(rev, clk)
    PROVE  IInv'
  <1>1. PICK c \in claim : Rebase(c.ops, {}, rev, clk)
    BY DEF ApplySync
  <1>2. c \in Outstanding
    BY DEF Outstanding
  <1>3. /\ claim' = {} /\ resolution' = {} /\ user' = user /\ lastId' = lastId
        /\ lastRequest' = lastRequest /\ planner' = planner
        /\ requests' = requests /\ discarded' = discarded
    BY DEF ApplySync, NoPendingResolution
  <1>4. user' \in Users \cup {NoUser}
    BY <1>3 DEF IInv, TypeOK
  <1>. QED  BY <1>1, <1>2, <1>3, <1>4, RebaseInvariant

\* A resolution and a claim are never both outstanding.
LEMMA OneKind ==
    ASSUME IInv
    PROVE  /\ resolution # {} => claim = {}
           /\ claim # {} => resolution = {}
  <1>1. ASSUME NEW c \in claim, NEW r \in resolution PROVE FALSE
    <2>1. c.kind = "sync" /\ r.kind = "resolve"
      BY DEF IInv, TypeOK, Claim, Resolution
    <2>2. c = r
      BY DEF IInv, OneOutstandingRequest, Outstanding
    <2>. QED  BY <2>1, <2>2
  <1>. QED  BY <1>1

\* The answer to a resolution is a rebase of the rows it captured.
LEMMA ApplyResolutionInvariant ==
    ASSUME IInv, NEW rev \in Nat, NEW clk \in Nat, ApplyResolution(rev, clk)
    PROVE  IInv'
  <1>1. PICK r \in resolution :
          /\ Rebase(r.ops, IF r.strategy = "keep_remote" THEN r.queueIds ELSE {},
                    rev, clk)
          /\ user' = r.owner
    BY DEF ApplyResolution
  <1>2. r \in Outstanding /\ claim = {}
    BY OneKind DEF Outstanding
  <1>3. /\ claim' = {} /\ resolution' = {} /\ lastId' = lastId
        /\ lastRequest' = lastRequest /\ planner' = planner
        /\ requests' = requests /\ discarded' = discarded
    BY <1>2 DEF ApplyResolution
  <1>4. user' \in Users \cup {NoUser}
    BY <1>1 DEF IInv, TypeOK, Resolution
  <1>. QED  BY <1>1, <1>2, <1>3, <1>4, RebaseInvariant

\* A discarded claim leaves its rows queued and marked as given up.
LEMMA DiscardSavedClaimInvariant == ASSUME IInv, DiscardSavedClaim PROVE IInv'
  <1>1. PICK c \in claim : discarded' = discarded \cup IdsOf(c.ops)
    BY DEF DiscardSavedClaim
  <1>2. c \in Outstanding /\ resolution = {}
    BY OneKind DEF Outstanding
  <1>3. claim' = {} /\ resolution' = {}
    BY <1>2 DEF DiscardSavedClaim
  <1>. QED  BY <1>1, <1>2, <1>3, DiscardInvariant DEF DiscardSavedClaim

\* A resolution given up leaves its rows queued and marked as given up.
LEMMA DiscardResolutionInvariant == ASSUME IInv, DiscardResolution PROVE IInv'
  <1>1. PICK r \in resolution : discarded' = discarded \cup IdsOf(r.ops)
    BY DEF DiscardResolution
  <1>2. r \in Outstanding /\ claim = {}
    BY OneKind DEF Outstanding
  <1>3. claim' = {} /\ resolution' = {}
    BY <1>2 DEF DiscardResolution
  <1>. QED  BY <1>1, <1>2, <1>3, DiscardInvariant DEF DiscardResolution

-----------------------------------------------------------------------------
(* Account lifecycle and start-up *)

\* The reset empties the store; what has been published stays published, and
\* the surviving counters still cover it.
LEMMA ResetAccountInvariant == ASSUME IInv, ResetAccount PROVE IInv'
  <1>1. /\ queue' = {} /\ waits' = {} /\ neverSent' = {} /\ claim' = {}
        /\ resolution' = {} /\ revision' = 0 /\ user' = NoUser /\ head' = 0
        /\ hlc' = hlc /\ lastId' = lastId /\ lastRequest' = lastRequest
        /\ planner' = planner /\ requests' = requests /\ discarded' = discarded
    BY DEF ResetAccount
  <1>2. TypeOK'
    BY <1>1 DEF IInv, TypeOK
  <1>3. CountersCover' /\ SequenceFollowsClock'
    BY <1>1 DEF IInv, TypeOK, CountersCover, SequenceFollowsClock
  <1>4. EdgesSound' /\ ProofCovers' /\ NeverSentProofSound'
    BY <1>1 DEF EdgesSound, ProofCovers, NeverSentProofSound
  <1>5. OneOutstandingRequest' /\ OutstandingKnown'
    BY <1>1 DEF OneOutstandingRequest, OutstandingKnown, Outstanding
  <1>6. PossiblyDeliveredIsReplayable' /\ ExactReplay'
    BY <1>1 DEF IInv, PossiblyDeliveredIsReplayable, ExactReplay, QueuedIds, IdsOf
  <1>. QED  BY <1>2, <1>3, <1>4, <1>5, <1>6 DEF IInv

\* Neither the identity nor the core is part of what the invariant relates,
\* and there is no proof to repair.
LEMMA QuietInvariant ==
    ASSUME IInv, user' \in Users \cup {NoUser}, planner' \in BOOLEAN,
           UNCHANGED <<queue, waits, neverSent, claim, resolution, revision,
                       head, hlc, lastId, lastRequest, requests, discarded>>
    PROVE  IInv'
  <1>1. /\ queue' = queue /\ waits' = waits /\ neverSent' = neverSent
        /\ claim' = claim /\ resolution' = resolution /\ revision' = revision
        /\ head' = head /\ hlc' = hlc /\ lastId' = lastId
        /\ lastRequest' = lastRequest /\ requests' = requests
        /\ discarded' = discarded
    OBVIOUS
  <1>2. /\ QueuedIds' = QueuedIds /\ Waiting' = Waiting
        /\ PublishedIds' = PublishedIds /\ Outstanding' = Outstanding
    BY <1>1 DEF QueuedIds, Waiting, PublishedIds, Outstanding
  <1>3. TypeOK'
    BY <1>1 DEF IInv, TypeOK
  <1>4. CountersCover' /\ SequenceFollowsClock'
    BY <1>1 DEF IInv, CountersCover, SequenceFollowsClock
  <1>5. EdgesSound' /\ ProofCovers' /\ NeverSentProofSound'
    BY <1>1, <1>2 DEF IInv, EdgesSound, ProofCovers, NeverSentProofSound
  <1>6. OneOutstandingRequest' /\ OutstandingKnown'
    BY <1>1, <1>2 DEF IInv, OneOutstandingRequest, OutstandingKnown
  <1>7. PossiblyDeliveredIsReplayable' /\ ExactReplay'
    BY <1>1, <1>2 DEF IInv, PossiblyDeliveredIsReplayable, ExactReplay
  <1>. QED  BY <1>3, <1>4, <1>5, <1>6, <1>7 DEF IInv

\* Every step keeps the inductive invariant.
LEMMA NextInvariant == ASSUME IInv, [Next]_storeVars PROVE IInv'
  <1>1. CASE LocalEdit
    BY <1>1, LocalEditInvariant
  <1>2. ASSUME UNCHANGED storeVars PROVE IInv'
    BY <1>2, QuietInvariant DEF storeVars, IInv, TypeOK
  <1>3. CASE ReplayClaim
    BY <1>2, <1>3, ReplayClaimInvariant
  <1>4. CASE ClaimBatch
    BY <1>4, ClaimBatchInvariant
  <1>5. CASE DiscardSavedClaim
    BY <1>5, DiscardSavedClaimInvariant
  <1>6. /\ 0..MaxRevision \subseteq Nat
        /\ 0..MaxClock \subseteq Nat
    BY BoundsAssumption
  <1>7. ASSUME NEW rev \in 0..MaxRevision, NEW clk \in 0..MaxClock, ApplySync(rev, clk)
        PROVE  IInv'
    BY <1>6, <1>7, ApplySyncInvariant
  <1>8. ASSUME NEW account \in Users, NEW expected \in 0..MaxRevision,
               NEW s \in Strategies, PrepareResolution(account, expected, s)
        PROVE  IInv'
    BY <1>6, <1>8, PrepareResolutionInvariant
  <1>9. ASSUME NEW rev \in 0..MaxRevision, NEW clk \in 0..MaxClock, ApplyResolution(rev, clk)
        PROVE  IInv'
    BY <1>6, <1>9, ApplyResolutionInvariant
  <1>10. CASE DiscardResolution
    BY <1>10, DiscardResolutionInvariant
  <1>11. CASE ResetAccount
    BY <1>11, ResetAccountInvariant
  <1>12. ASSUME NEW account \in Users, SetUser(account) PROVE IInv'
    BY <1>12, QuietInvariant DEF SetUser, IInv, TypeOK
  <1>13. ASSUME NEW core \in Cores, Reopen(core) PROVE IInv'
    <2>1. neverSent \cap QueuedIds = neverSent
      BY DEF IInv, ProofCovers
    <2>2. core \in BOOLEAN /\ user \in Users \cup {NoUser}
      BY CoresAssumption DEF IInv, TypeOK
    <2>. QED  BY <1>13, <2>1, <2>2, QuietInvariant DEF Reopen
  <1>. QED
    BY <1>1, <1>2, <1>3, <1>4, <1>5, <1>7, <1>8, <1>9, <1>10, <1>11, <1>12, <1>13
       DEF Next

-----------------------------------------------------------------------------
(* The theorems *)

\* The strengthening holds in every reachable state.
THEOREM Invariance == Spec => []IInv
  BY InitInvariant, NextInvariant, PTL DEF Spec

\* Every variable keeps its type.
THEOREM TypeCorrect == Spec => []TypeOK
  <1>1. IInv => TypeOK
    BY DEF IInv
  <1>. QED  BY <1>1, Invariance, PTL

\* A row that still has never-sent proof has been in no request at all.
THEOREM ProofIsSound == Spec => []NeverSentProofSound
  <1>1. IInv => NeverSentProofSound
    BY DEF IInv
  <1>. QED  BY <1>1, Invariance, PTL

\* A published row that is still queued can be replayed or was given up.
THEOREM DeliveredIsReplayable == Spec => []PossiblyDeliveredIsReplayable
  <1>1. IInv => PossiblyDeliveredIsReplayable
    BY DEF IInv
  <1>. QED  BY <1>1, Invariance, PTL

\* Two different requests share only what was given up.
THEOREM ReplayIsExact == Spec => []ExactReplay
  <1>1. IInv => ExactReplay
    BY DEF IInv
  <1>. QED  BY <1>1, Invariance, PTL

\* Normal sync and account resolution are never both outstanding.
THEOREM OneRequest == Spec => []OneOutstandingRequest
  <1>1. IInv => OneOutstandingRequest
    BY DEF IInv
  <1>. QED  BY <1>1, Invariance, PTL

\* Device order and logical order agree.
THEOREM OrdersAgree == Spec => []SequenceFollowsClock
  <1>1. IInv => SequenceFollowsClock
    BY DEF IInv
  <1>. QED  BY <1>1, Invariance, PTL

\* The answer to the saved request is never refused for a reason of the
\* store's own.
THEOREM CompletionPossible == Spec => []CompletionNeverRefused
  <1>1. IInv => CompletionNeverRefused
    <2>. SUFFICES ASSUME IInv, NEW r \in Outstanding
                  PROVE  /\ EdgesQueued
                         /\ Released(r.ops) \subseteq neverSent
                         /\ r \in resolution /\ r.strategy # "keep_remote" =>
                               IdsOf(r.ops) = r.queueIds
      BY DEF CompletionNeverRefused
    <2>1. EdgesQueued
      BY DEF IInv, EdgesSound, ProofCovers, EdgesQueued
    <2>2. Released(r.ops) \subseteq neverSent
      BY DEF IInv, EdgesSound, Released
    <2>3. r \in resolution /\ r.strategy # "keep_remote" => IdsOf(r.ops) = r.queueIds
      BY DEF IInv, OutstandingKnown
    <2>. QED  BY <2>1, <2>2, <2>3
  <1>. QED  BY <1>1, Invariance, PTL

\* The planner never meets a queue it must reject.
THEOREM Plannable == Spec => []QueueAlwaysPlannable
  <1>1. IInv => QueueAlwaysPlannable
    <2>. SUFFICES ASSUME IInv PROVE QueueAlwaysPlannable
      OBVIOUS
    <2>1. ClocksCovered /\ SequenceCovered
      BY DEF IInv, CountersCover, ClocksCovered, SequenceCovered
    <2>2. EdgesQueued /\ \A e \in waits : e[2] < e[1] /\ e[2] \notin Waiting
      BY DEF IInv, EdgesSound, ProofCovers, EdgesQueued
    <2>. QED  BY <2>1, <2>2 DEF QueueAlwaysPlannable, Preflight
  <1>. QED  BY <1>1, Invariance, PTL

-----------------------------------------------------------------------------
(* What a step may never do *)

\* A rebase touches only what was answered, captured or released; it never
\* adds a row and never frees a command whose parent stays.
LEMMA RebaseEffect ==
    ASSUME NEW sent, NEW removed, NEW rev, NEW clk, Rebase(sent, removed, rev, clk)
    PROVE  /\ queue' \subseteq queue
           /\ \A o \in queue \ queue' :
                 \/ o.id \in IdsOf(sent) \cup removed
                 \/ /\ o.id \in neverSent \cap Waiting
                    /\ \E e \in waits : /\ e[1] = o.id /\ e[2] \in IdsOf(sent)
                                        /\ e[2] \notin IdsOf(queue')
           /\ \A e \in waits :
                 e[1] \in IdsOf(queue') /\ e[2] \in IdsOf(queue') => e \in waits'
  <1>1. PICK dropped \in SUBSET Released(sent) :
          LET gone == IdsOf(sent) \cup dropped \cup removed
          IN  /\ dropped \ removed \subseteq neverSent
              /\ queue' = {o \in queue : o.id \notin gone}
              /\ waits' = {e \in waits : e[1] \notin gone /\ e[2] \notin gone}
    BY DEF Rebase, Answered, EdgesLeft
  <1>. DEFINE gone == IdsOf(sent) \cup dropped \cup removed
  <1>2. /\ queue' = {o \in queue : o.id \notin gone}
        /\ waits' = {e \in waits : e[1] \notin gone /\ e[2] \notin gone}
    BY <1>1
  <1>3. \A id \in gone : id \notin IdsOf(queue')
    <2>. HIDE DEF gone
    <2>. QED  BY <1>2 DEF IdsOf
  <1>4. ASSUME NEW o \in queue \ queue', o.id \notin IdsOf(sent) \cup removed
        PROVE  /\ o.id \in neverSent \cap Waiting
               /\ \E e \in waits : /\ e[1] = o.id /\ e[2] \in IdsOf(sent)
                                   /\ e[2] \notin IdsOf(queue')
    <2>1. o.id \in dropped /\ o.id \in neverSent
      BY <1>1, <1>2, <1>4
    <2>2. PICK e \in waits : e[1] = o.id /\ e[2] \in IdsOf(sent)
      BY <2>1 DEF Released
    <2>. QED  BY <1>3, <2>1, <2>2 DEF Waiting
  <1>5. \A e \in waits :
            e[1] \in IdsOf(queue') /\ e[2] \in IdsOf(queue') => e \in waits'
    BY <1>2, <1>3
  <1>. QED  BY <1>2, <1>4, <1>5

\* Local edits add and replace, and never touch an edge, the canonical head or
\* a row of another domain than the duration settings.
LEMMA LocalEditEffect ==
    ASSUME IInv, LocalEdit
    PROVE  /\ resolution = {} /\ revision' = revision /\ head' = head
           /\ waits \subseteq waits'
           /\ \A o \in queue' \ queue :
                 o.id \in neverSent' /\ o.clock \in Nat /\ o.clock > head
           /\ neverSent \cap IdsOf(queue') \subseteq neverSent'
           /\ \A o \in queue \ queue' : \E p \in queue' :
                 /\ p.domain = Durations /\ o.domain = Durations
                 /\ o.id < p.id /\ o.clock < p.clock
  <1>1. PICK ops, edges, n :
            n \in Nat /\ Fresh(ops, n) /\ Joins(edges, ops) /\ Enqueue(ops, edges, n)
    BY LocalEditReserves DEF Reservation
  <1>2. /\ resolution = {} /\ revision' = revision /\ head' = head
        /\ queue' = (queue \ Replaced(ops)) \cup ops /\ waits' = waits \cup edges
        /\ neverSent' = (neverSent \ IdsOf(Replaced(ops))) \cup IdsOf(ops)
    BY <1>1 DEF Enqueue, NoPendingResolution
  <1>3. /\ lastId \in Nat /\ hlc \in Nat /\ head \in Nat /\ head <= hlc
        /\ \A o \in queue : /\ o.id \in Nat /\ o.id <= lastId
                            /\ o.clock \in Nat /\ o.clock <= hlc
    BY DEF IInv, TypeOK, CountersCover, Op
  <1>4. \A o \in ops : /\ o.id \in Nat /\ o.id > lastId
                       /\ o.clock \in Nat /\ o.clock > hlc
    BY <1>1, <1>3 DEF Fresh
  <1>5. \A o \in queue' \ queue : o.id \in neverSent' /\ o.clock \in Nat /\ o.clock > head
    BY <1>2, <1>3, <1>4 DEF IdsOf
  <1>6. ASSUME NEW o \in queue \ queue'
        PROVE  \E p \in queue' : /\ p.domain = Durations /\ o.domain = Durations
                                 /\ o.id < p.id /\ o.clock < p.clock
    <2>1. o \in Replaced(ops)
      BY <1>2, <1>6
    <2>2. PICK p \in ops : p.domain = Durations /\ o.domain = Durations
      BY <2>1 DEF Replaced
    <2>. QED  BY <1>2, <1>3, <1>4, <2>2
  <1>7. neverSent \cap IdsOf(queue') \subseteq neverSent'
    <2>. SUFFICES ASSUME NEW o \in queue', o.id \in neverSent
                  PROVE  o.id \in neverSent'
      BY DEF IdsOf
    <2>1. CASE o \in ops
      BY <1>2, <2>1 DEF IdsOf
    <2>2. CASE o \in queue \ Replaced(ops)
      <3>1. \A p \in Replaced(ops) : p \in queue
        BY DEF Replaced
      <3>2. o.id \notin IdsOf(Replaced(ops))
        BY <2>2, <3>1 DEF IInv, CountersCover, IdsOf
      <3>. QED  BY <1>2, <3>2
    <2>. QED  BY <1>2, <2>1, <2>2
  <1>. QED  BY <1>2, <1>5, <1>6, <1>7

\* A step that is neither an edit, an answer nor a reset leaves the queue, its
\* edges and the canonical state alone.
Quiet == ReplayClaim \/ ClaimBatch \/ DiscardSavedClaim \/ DiscardResolution
         \/ (\E owner, expected : \E s \in Strategies :
                PrepareResolution(owner, expected, s))
         \/ (\E account : SetUser(account)) \/ (\E core : Reopen(core))

\* Requests, discards, identity refreshes and restarts touch neither rows nor edges.
LEMMA QuietEffect ==
    ASSUME Quiet
    PROVE  queue' = queue /\ waits' = waits /\ revision' = revision /\ head' = head
  BY DEF Quiet, ReplayClaim, ClaimBatch, DiscardSavedClaim, DiscardResolution,
         PrepareResolution, SetUser, Reopen

\* The answer to the saved request, whichever protocol it belongs to.
Answer(rev, clk) == ApplySync(rev, clk) \/ ApplyResolution(rev, clk)

\* An answer takes away the rows of its request and of their dropped dependents.
LEMMA AnswerEffect ==
    ASSUME IInv, NEW rev, NEW clk, Answer(rev, clk)
    PROVE  /\ rev >= revision /\ revision' = rev
           /\ claim' = {} /\ resolution' = {}
           /\ \E r, removed :
                 /\ r \in Outstanding
                 /\ Rebase(r.ops, removed, rev, clk)
                 /\ removed # {} => r \in resolution /\ removed = r.queueIds
  <1>1. CASE ApplySync(rev, clk)
    <2>1. PICK c \in claim : Rebase(c.ops, {}, rev, clk)
      BY <1>1 DEF ApplySync
    <2>2. c \in Outstanding
      BY DEF Outstanding
    <2>3. /\ rev >= revision /\ claim' = {} /\ resolution' = {}
      BY <1>1 DEF ApplySync, NoPendingResolution, NoRegress
    <2>4. revision' = rev
      BY <2>1 DEF Rebase
    <2>. QED  BY <2>1, <2>2, <2>3, <2>4
  <1>2. CASE ApplyResolution(rev, clk)
    <2>1. PICK r \in resolution :
            /\ rev >= revision
            /\ Rebase(r.ops, IF r.strategy = "keep_remote" THEN r.queueIds ELSE {},
                      rev, clk)
      BY <1>2 DEF ApplyResolution, NoRegress
    <2>2. r \in Outstanding /\ claim = {}
      BY OneKind DEF Outstanding
    <2>3. claim' = {} /\ resolution' = {}
      BY <1>2, <2>2 DEF ApplyResolution
    <2>4. revision' = rev
      BY <2>1 DEF Rebase
    <2>. QED  BY <2>1, <2>2, <2>3, <2>4
  <1>. QED  BY <1>1, <1>2 DEF Answer

\* Every step is an edit, an answer, a reset, or quiet.
LEMMA StepKinds ==
    ASSUME Next
    PROVE  LocalEdit \/ (\E rev, clk \in Nat : Answer(rev, clk)) \/ ResetAccount \/ Quiet
  <1>1. 0..MaxRevision \subseteq Nat /\ 0..MaxClock \subseteq Nat
    BY BoundsAssumption
  <1>2. (\E rev \in 0..MaxRevision, clk \in 0..MaxClock :
            ApplySync(rev, clk) \/ ApplyResolution(rev, clk))
        => \E rev, clk \in Nat : Answer(rev, clk)
    BY <1>1 DEF Answer
  <1>. QED  BY <1>2 DEF Next, Quiet

\* Only a reset takes the canonical revision back.
THEOREM RevisionMonotone == Spec => RevisionNeverRegresses
  <1>1. ASSUME IInv, Next PROVE revision' >= revision \/ IsReset
    <2>1. CASE LocalEdit
      BY <1>1, <2>1, LocalEditEffect DEF IInv, TypeOK
    <2>2. ASSUME NEW rev \in Nat, NEW clk \in Nat, Answer(rev, clk)
          PROVE  revision' >= revision
      BY <1>1, <2>2, AnswerEffect
    <2>3. CASE ResetAccount
      BY <2>3 DEF ResetAccount, IsReset
    <2>4. CASE Quiet
      BY <1>1, <2>4, QuietEffect DEF IInv, TypeOK
    <2>. QED  BY <1>1, <2>1, <2>2, <2>3, <2>4, StepKinds
  <1>. QED  BY <1>1, Invariance, PTL DEF Spec, RevisionNeverRegresses

\* Queued work never leaves the store but for the reasons the property lists.
THEOREM NothingLost == Spec => NoSilentLoss
  <1>. DEFINE Explained(o) ==
        \/ \E r \in Outstanding : /\ claim' = {} /\ resolution' = {}
                                  /\ \/ o.id \in IdsOf(r.ops)
                                     \/ r \in resolution /\ o.id \in r.queueIds
        \/ /\ o.id \in neverSent \cap Waiting
           /\ \E e \in waits, r \in Outstanding :
                 e[1] = o.id /\ e[2] \in IdsOf(r.ops) /\ e[2] \notin IdsOf(queue')
        \/ \E p \in queue' : p.domain = Durations /\ o.domain = Durations
                             /\ o.id < p.id /\ o.clock < p.clock
        \/ IsReset
  <1>1. ASSUME IInv, Next, NEW o \in queue \ queue' PROVE Explained(o)
    <2>1. CASE LocalEdit
      BY <1>1, <2>1, LocalEditEffect
    <2>2. ASSUME NEW rev \in Nat, NEW clk \in Nat, Answer(rev, clk)
          PROVE  Explained(o)
      <3>1. claim' = {} /\ resolution' = {}
        BY <1>1, <2>2, AnswerEffect
      <3>2. PICK r, removed :
              /\ r \in Outstanding
              /\ Rebase(r.ops, removed, rev, clk)
              /\ removed # {} => r \in resolution /\ removed = r.queueIds
        BY <1>1, <2>2, AnswerEffect
      <3>3. \/ o.id \in IdsOf(r.ops) \cup removed
            \/ /\ o.id \in neverSent \cap Waiting
               /\ \E e \in waits : /\ e[1] = o.id /\ e[2] \in IdsOf(r.ops)
                                   /\ e[2] \notin IdsOf(queue')
        BY <1>1, <3>2, RebaseEffect
      <3>. QED  BY <3>1, <3>2, <3>3
    <2>3. CASE ResetAccount
      BY <2>3 DEF ResetAccount, IsReset
    <2>4. CASE Quiet
      BY <1>1, <2>4, QuietEffect
    <2>. QED  BY <1>1, <2>1, <2>2, <2>3, <2>4, StepKinds
  <1>2. IInv /\ [Next]_storeVars => [\A o \in queue \ queue' : Explained(o)]_storeVars
    BY <1>1
  <1>. QED  BY <1>2, Invariance, PTL DEF Spec, NoSilentLoss

\* A dependent is set free only by the answer to its parent.
THEOREM DependentsHeld == Spec => ParentsHoldTheirDependents
  <1>1. ASSUME IInv, Next, NEW e \in waits, e[1] \in IdsOf(queue'), e[2] \in IdsOf(queue')
        PROVE  e \in waits'
    <2>1. CASE LocalEdit
      BY <1>1, <2>1, LocalEditEffect
    <2>2. ASSUME NEW rev \in Nat, NEW clk \in Nat, Answer(rev, clk)
          PROVE  e \in waits'
      <3>1. PICK r, removed : r \in Outstanding /\ Rebase(r.ops, removed, rev, clk)
        BY <1>1, <2>2, AnswerEffect
      <3>. QED  BY <1>1, <3>1, RebaseEffect
    <2>3. CASE ResetAccount
      BY <1>1, <2>3 DEF ResetAccount, IdsOf
    <2>4. CASE Quiet
      BY <1>1, <2>4, QuietEffect
    <2>. QED  BY <1>1, <2>1, <2>2, <2>3, <2>4, StepKinds
  <1>2. IInv /\ [Next]_storeVars
        => [\A e \in waits :
               e[1] \in IdsOf(queue') /\ e[2] \in IdsOf(queue') => e \in waits']_storeVars
    BY <1>1
  <1>. QED  BY <1>2, Invariance, PTL DEF Spec, ParentsHoldTheirDependents

\* A saved resolution freezes what it captured.
THEOREM ResolutionFreezes == Spec => ResolutionFreezesQueue
  <1>1. ASSUME IInv, Next, resolution # {}, resolution' = resolution
        PROVE  UNCHANGED <<queue, waits, claim, neverSent, revision>>
    <2>1. ~LocalEdit /\ ~ReplayClaim /\ ~ClaimBatch
      BY <1>1, LocalEditEffect DEF ReplayClaim, ClaimBatch, NoPendingResolution,
                                   NothingSaved
    <2>2. ASSUME NEW rev, NEW clk, Answer(rev, clk) PROVE FALSE
      BY <1>1, <2>2, AnswerEffect
    <2>3. ~DiscardSavedClaim
      BY <1>1, OneKind DEF DiscardSavedClaim
    <2>4. ~DiscardResolution /\ ~ResetAccount
      BY <1>1 DEF DiscardResolution, ResetAccount
    <2>5. \A owner, expected, s : ~PrepareResolution(owner, expected, s)
      BY <1>1 DEF PrepareResolution, NothingSaved
    <2>6. ASSUME NEW account, SetUser(account)
          PROVE  UNCHANGED <<queue, waits, claim, neverSent, revision>>
      BY <2>6 DEF SetUser
    <2>7. ASSUME NEW core, Reopen(core)
          PROVE  UNCHANGED <<queue, waits, claim, neverSent, revision>>
      BY <1>1, <2>7 DEF Reopen, IInv, ProofCovers
    <2>. QED  BY <1>1, <2>1, <2>2, <2>3, <2>4, <2>5, <2>6, <2>7, StepKinds DEF Quiet
  <1>2. IInv /\ [Next]_storeVars
        => [resolution # {} /\ resolution' = resolution =>
               UNCHANGED <<queue, waits, claim, neverSent, revision>>]_storeVars
    BY <1>1
  <1>. QED  BY <1>2, Invariance, PTL DEF Spec, ResolutionFreezesQueue

\* A new edit never takes its own domain off the screen.
THEOREM EditsShow == Spec => EditsShowAtOnce
  <1>1. ASSUME IInv, Next, NEW o \in queue' \ queue, Projected(o.domain)
        PROVE  Projected(o.domain)'
    <2>1. CASE LocalEdit
      <3>1. /\ head' = head /\ neverSent \cap IdsOf(queue') \subseteq neverSent'
            /\ \A p \in queue' \ queue : p.id \in neverSent' /\ p.clock > head
        BY <1>1, <2>1, LocalEditEffect
      <3>2. ASSUME head # 0, NEW p \in queue', p.domain = o.domain
            PROVE  p.id \in neverSent' /\ p.clock > head'
        <4>1. CASE p \in queue
          <5>1. p.id \in neverSent /\ p.clock > head
            BY <1>1, <3>2, <4>1 DEF Projected, InDomain
          <5>. QED  BY <3>1, <5>1 DEF IdsOf
        <4>2. CASE p \notin queue
          BY <3>1, <3>2, <4>2
        <4>. QED  BY <4>1, <4>2
      <3>. QED  BY <3>1, <3>2 DEF Projected, InDomain
    <2>2. ASSUME NEW rev \in Nat, NEW clk \in Nat, Answer(rev, clk)
          PROVE  FALSE
      <3>1. PICK r, removed : r \in Outstanding /\ Rebase(r.ops, removed, rev, clk)
        BY <1>1, <2>2, AnswerEffect
      <3>. QED  BY <1>1, <3>1, RebaseEffect
    <2>3. CASE ResetAccount
      BY <1>1, <2>3 DEF ResetAccount
    <2>4. CASE Quiet
      BY <1>1, <2>4, QuietEffect
    <2>. QED  BY <1>1, <2>1, <2>2, <2>3, <2>4, StepKinds
  <1>2. IInv /\ [Next]_storeVars
        => [\A o \in queue' \ queue :
               Projected(o.domain) => Projected(o.domain)']_storeVars
    BY <1>1
  <1>. QED  BY <1>2, Invariance, PTL DEF Spec, EditsShowAtOnce
=============================================================================
