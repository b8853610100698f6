---------------------------- MODULE DeliveryStore ----------------------------
(***************************************************************************)
(* The durable delivery state of one Pomodorough profile: the queues of    *)
(* operations waiting for the service, the saved normal-sync claim, the    *)
(* saved account-history resolution, the never-sent proof, the canonical   *)
(* head and the persisted logical clock (storage.py, storage_sync.py,      *)
(* storage_canonical_*.py).                                                *)
(*                                                                         *)
(* Every action is one BEGIN IMMEDIATE transaction of Store.  A call that  *)
(* raises rolls its transaction back, so a refused call is a stuttering    *)
(* step and only its guard appears here.  GUI, CLI and TUI processes share *)
(* the database, so any action may follow any other.                       *)
(*                                                                         *)
(* The service is trusted with nothing the client does not validate:       *)
(* ApplySync and ApplyResolution take any response the validators accept.  *)
(*                                                                         *)
(* Not covered: payload contents and their validation, physical time and   *)
(* the clock-skew refusals, iroh workspaces, phase-advance bookkeeping.    *)
(***************************************************************************)
EXTENDS Naturals, FiniteSets

CONSTANTS
    Domains,         \* the queue domains in use, a subset of _SYNC_DOMAINS
    Users,           \* account identities
    NoUser,          \* snapshot["user"] is None
    Cores,           \* the cores bundled over time: do they serve the planner?
    MaxOps,          \* bound: operations ever queued
    MaxClock,        \* bound: logical clock values
    MaxRevision,     \* bound: server revisions
    MaxRequests,     \* bound: resolution request ids issued
    PerDomain,       \* _SYNC_LIMITS["perDomain"] (256 in the code)
    Total,           \* _SYNC_LIMITS["total"] (512 in the code)
    BootPerDomain,   \* _BOOTSTRAP_LIMITS["perDomain"] (4096 in the code)
    BootTotal        \* _BOOTSTRAP_LIMITS["total"] (8192 in the code)

Commands  == "commands"
Tasks     == "taskOperations"
Durations == "durationOperations"
Starts    == "autoStartOperations"
Selected  == "selectedTaskOperations"

ASSUME DomainsAssumption ==
    Domains \subseteq {Commands, Tasks, Durations, Starts, Selected}
ASSUME UsersAssumption == NoUser \notin Users
ASSUME CoresAssumption == Cores \subseteq BOOLEAN /\ Cores # {}
ASSUME BoundsAssumption ==
    /\ MaxOps \in Nat /\ MaxClock \in Nat
    /\ MaxRevision \in Nat /\ MaxRequests \in Nat
ASSUME LimitsAssumption ==
    /\ PerDomain \in Nat \ {0} /\ Total \in Nat \ {0}
    /\ BootPerDomain \in Nat \ {0} /\ BootTotal \in Nat \ {0}

VARIABLES
    queue,       \* pending_* tables: the retained operations
    waits,       \* depends_on_command_id: pairs <<command id, finish id>>
    neverSent,   \* meta deliveryProof: ids no request has ever carried
    claim,       \* meta pendingSync: {} or the one saved request
    resolution,  \* meta pendingResolution: {} or the one saved resolution
    revision,    \* meta snapshot: revision of the canonical state
    user,        \* meta snapshot: user
    head,        \* meta canonicalHead (0: None)
    hlc,         \* meta hlc, the persisted logical clock
    lastId,      \* meta lastUuidV7 and deviceSequence
    lastRequest, \* resolution request ids drawn from uuid4
    planner,     \* the installed core serves sync.batchPlan.v1
    requests,    \* history: every request handed to a caller
    discarded    \* history: ids in requests given up by a discard

storeVars == <<queue, waits, neverSent, claim, resolution, revision, user,
               head, hlc, lastId, lastRequest, planner, requests, discarded>>

-----------------------------------------------------------------------------
(* Types and helpers *)

\* A queued operation.  Ids are UUIDv7 and, with the device sequence, grow in
\* queueing order; the hybrid clock pair is one number here.
Op == [id : Nat, domain : Domains, clock : Nat]

Claim == [kind : {"sync"}, requestId : {0}, ops : SUBSET Op]

Strategies == {"keep_remote", "replace_remote", "merge"}

Resolution == [kind : {"resolve"}, requestId : Nat, owner : Users,
               expectedRevision : Nat, strategy : Strategies,
               ops : SUBSET Op, queueIds : SUBSET Nat]

\* What the history keeps of a request: a sync claim has no id of its own.
Published == [requestId : Nat, ops : SUBSET Op]
Carried(r) == [requestId |-> r.requestId, ops |-> r.ops]

IdsOf(ops)       == {o.id : o \in ops}
InDomain(ops, d) == {o \in ops : o.domain = d}
QueuedIds        == IdsOf(queue)
Waiting          == {e[1] : e \in waits}
Parents          == {e[2] : e \in waits}

\* ids some request handed to a caller has named
PublishedIds == UNION {IdsOf(r.ops) : r \in requests}

TypeOK ==
    /\ queue \subseteq Op
    /\ waits \subseteq Nat \X Nat
    /\ neverSent \subseteq Nat
    /\ claim \subseteq Claim
    /\ resolution \subseteq Resolution
    /\ revision \in Nat
    /\ user \in Users \cup {NoUser}
    /\ head \in Nat
    /\ hlc \in Nat
    /\ lastId \in Nat
    /\ lastRequest \in Nat
    /\ planner \in BOOLEAN
    /\ requests \subseteq Published
    /\ discarded \subseteq Nat

Init ==
    /\ queue = {} /\ waits = {} /\ neverSent = {}
    /\ claim = {} /\ resolution = {}
    /\ revision = 0 /\ user = NoUser
    /\ head = 0 /\ hlc = 0 /\ lastId = 0 /\ lastRequest = 0
    /\ planner \in Cores
    /\ requests = {} /\ discarded = {}

-----------------------------------------------------------------------------
(* Batch selection *)

\* the n operations of ops queued first
Earliest(ops, n) ==
    {o \in ops : Cardinality({p \in ops : p.id < o.id}) < n}

PrefixClosed(chosen, ops) ==
    \A o \in chosen, p \in ops :
        p.domain = o.domain /\ p.id < o.id => p \in chosen

\* Mutant of Sendable: legacy slicing forgets the dependency column.
EverythingQueued == queue

\* Legacy slicing: commands without a dependency, wherever they stand.
Sendable == {o \in queue : o.id \notin Waiting}

LegacyBatch ==
    UNION {Earliest(InDomain(Sendable, d), PerDomain) : d \in Domains}

\* The core's prefix barrier: nothing behind the first held command is sent.
BeforeBarrier ==
    {o \in queue : \/ o.domain # Commands
                   \/ \A w \in Waiting : o.id < w}

PlannedWindow ==
    UNION {Earliest(InDomain(BeforeBarrier, d), PerDomain) : d \in Domains}

\* The core fills the aggregate budget round-robin over the domains; which
\* domain gives way is left open here.
PlannedBatches ==
    {ops \in SUBSET PlannedWindow :
        /\ PrefixClosed(ops, PlannedWindow)
        /\ \/ ops = PlannedWindow /\ Cardinality(ops) <= Total
           \/ Cardinality(ops) = Total}

Batches == IF planner THEN PlannedBatches ELSE {LegacyBatch}

\* What the planner answers for a saved request: a core without the planner
\* cannot judge it, and pending_sync and pending_resolution then accept it.
Oversized(ops, limit) == planner /\ Cardinality(ops) > limit

\* Mutant of NoPendingResolution: nobody asks.
Unchecked == TRUE

\* _ensure_no_pending_resolution, the first check of every write.
NoPendingResolution == resolution = {}

\* A new request is built only when none is saved, of either kind.
NothingSaved == claim = {} /\ resolution = {}

\* Mutant of WithoutProof: publishing keeps the proof.
ProofKept(ops) == neverSent

\* _retire_outbound_proof: the proof that is left once ops are published.
WithoutProof(ops) == neverSent \ IdsOf(ops)

-----------------------------------------------------------------------------
(* Preflight: what sync_payload and prepare_resolution refuse to send *)

ClocksCovered   == \A o \in queue : o.clock <= hlc
SequenceCovered == \A o \in queue : o.id <= lastId
EdgesQueued     == \A e \in waits : e[1] \in QueuedIds /\ e[2] \in QueuedIds

Preflight == ClocksCovered /\ SequenceCovered /\ EdgesQueued

-----------------------------------------------------------------------------
(* Local edits *)

\* The n-th operation of a reservation: fresh id, clock after the local one.
NewOp(d, n) == [id |-> lastId + n, domain |-> d, clock |-> hlc + n]

\* The row a new operation replaces: a duration operation takes the row of its
\* phase (one phase is modelled); the other queues only grow.
Replaced(ops) ==
    {o \in queue : o.domain = Durations /\ \E p \in ops : p.domain = Durations}

\* Generation, id reservation, insertion and proof of n operations, in one
\* transaction.
Enqueue(ops, edges, n) ==
    /\ NoPendingResolution
    /\ SequenceCovered
    /\ lastId + n <= MaxOps
    /\ hlc + n <= MaxClock
    /\ queue' = (queue \ Replaced(ops)) \cup ops
    /\ waits' = waits \cup edges
    /\ neverSent' = (neverSent \ IdsOf(Replaced(ops))) \cup IdsOf(ops)
    /\ lastId' = lastId + n
    /\ hlc' = hlc + n
    /\ UNCHANGED <<claim, resolution, revision, user, head, lastRequest,
                   planner, requests, discarded>>

\* queue_task_operation, queue_duration_operation, set_auto_start_breaks,
\* set_selected_task_id, and every command whose timer waits for nothing.
QueueOperation(d) == Enqueue({NewOp(d, 1)}, {}, 1)

\* A command on a timer whose start is still provisional inherits its parent.
QueueFollowUp(parent) ==
    /\ parent \in Parents
    /\ Enqueue({NewOp(Commands, 1)}, {<<lastId + 1, parent>>}, 1)

\* process_auto_break: the provisional break start waits for the queued finish
\* that triggered it, and only while nothing but further finishes of the same
\* timer, free commands like the first, has been queued behind it.  Types and
\* timers are not told apart here: any free command may be such a finish.
QueueBreakStart(finish) ==
    /\ finish \in InDomain(queue, Commands)
    /\ finish.id \notin Waiting
    /\ \A o \in InDomain(queue, Commands) :
          o.id > finish.id => o.id \notin Waiting \cup Parents
    /\ Enqueue({NewOp(Commands, 1)}, {<<lastId + 1, finish.id>>}, 1)

\* A finish that reserves its generated break: both rows in one transaction.
QueueFinishWithBreak ==
    Enqueue({NewOp(Commands, 1), NewOp(Commands, 2)},
            {<<lastId + 2, lastId + 1>>}, 2)

\* set_selected_task_id with an active focus timer: the selection and the
\* immutable retarget command are committed together.
QueueSelectionWithRetarget ==
    Enqueue({NewOp(Selected, 1), NewOp(Commands, 2)}, {}, 2)

\* queue_task_operation_with_selection: the task, its selection and, while a
\* focus timer is active, the retarget command.
QueueTaskWithSelection ==
    \/ Enqueue({NewOp(Tasks, 1), NewOp(Selected, 2)}, {}, 2)
    \/ /\ Commands \in Domains
       /\ Enqueue({NewOp(Tasks, 1), NewOp(Selected, 2), NewOp(Commands, 3)}, {}, 3)

\* queue_restart (clear, then start) and queue_cancel_and_clear (cancel, then
\* clear): one transaction.  What names a provisional timer inherits its
\* parent; a start names a new one.
QueuePair(inherits, parent) ==
    /\ inherits # {} => parent \in Parents
    /\ Enqueue({NewOp(Commands, 1), NewOp(Commands, 2)},
               {<<lastId + n, parent>> : n \in inherits}, 2)

LocalEdit ==
    \/ \E d \in Domains : QueueOperation(d)
    \/ /\ Commands \in Domains
       /\ \/ \E parent \in Parents : QueueFollowUp(parent)
          \/ \E finish \in queue : QueueBreakStart(finish)
          \/ QueueFinishWithBreak
          \/ QueuePair({}, 0)
          \/ \E parent \in Parents, inherits \in {{1}, {1, 2}} :
                QueuePair(inherits, parent)
    \/ {Commands, Selected} \subseteq Domains /\ QueueSelectionWithRetarget
    \/ {Tasks, Selected} \subseteq Domains /\ QueueTaskWithSelection

-----------------------------------------------------------------------------
(* Normal sync *)

\* Mutant of ReplayClaim: the retry plans a new batch.
ReplanClaim ==
    /\ NoPendingResolution
    /\ claim # {} /\ Preflight
    /\ \E ops \in Batches :
          requests' = requests \cup {[requestId |-> 0, ops |-> ops]}
    /\ UNCHANGED <<queue, waits, claim, resolution, neverSent, revision, user,
                   head, hlc, lastId, lastRequest, planner, discarded>>

\* sync_payload with a claim already saved: the same request again.
ReplayClaim ==
    /\ NoPendingResolution
    /\ \E c \in claim :
        ~Oversized(c.ops, Total) /\ requests' = requests \cup {Carried(c)}
    /\ UNCHANGED <<queue, waits, neverSent, claim, resolution, revision, user,
                   head, hlc, lastId, lastRequest, planner, discarded>>

\* sync_payload: select, save the claim and retire the proof of what it names.
ClaimBatch ==
    /\ NothingSaved
    /\ Preflight
    /\ \E ops \in Batches :
        LET c == [kind |-> "sync", requestId |-> 0, ops |-> ops]
        IN  /\ claim' = {c}
            /\ requests' = requests \cup {Carried(c)}
            /\ neverSent' = WithoutProof(ops)
    /\ UNCHANGED <<queue, waits, resolution, revision, user, head, hlc,
                   lastId, lastRequest, planner, discarded>>

\* discard_saved_sync_claim(confirmed=True): refused only when the planner
\* says the claim must replay.  Its operations stay queued, without proof.
DiscardSavedClaim ==
    /\ \E c \in claim :
        /\ ~planner \/ Oversized(c.ops, Total)
        /\ discarded' = discarded \cup IdsOf(c.ops)
    /\ claim' = {}
    /\ UNCHANGED <<queue, waits, neverSent, resolution, revision, user,
                   head, hlc, lastId, lastRequest, planner, requests>>

-----------------------------------------------------------------------------
(* Reconciliation with a canonical response *)

\* Mutant of Released: every held command is up for a decision.
EveryHeldCommand(sent) == Waiting

\* The commands that wait for one of the operations sent.
Released(sent) == {e[1] : e \in {w \in waits : w[2] \in IdsOf(sent)}}

\* Mutant of Answered: acknowledged rows stay queued.
AnsweredButKept(sent, dropped, removed) == dropped \cup removed

\* The rows a response takes away: acknowledged, dropped by the core, or
\* deleted with the local history.
Answered(sent, dropped, removed) == IdsOf(sent) \cup dropped \cup removed

\* Mutant of EdgesLeft: the edge of a promoted command keeps its parent.
EdgesOfKeptRows(gone) == {e \in waits : e[1] \notin gone}

\* Mutant of EdgesLeft: an answer frees every held command.
NoEdgesLeft(gone) == {}

\* The edges that survive the loss of the rows gone.
EdgesLeft(gone) == {e \in waits : e[1] \notin gone /\ e[2] \notin gone}

\* Mutant of ClockCandidates: the service's clock is not merged.
LocalClocks(serverClock, local, kept) == local \cup {o.clock : o \in kept}

\* _merged_install_clock takes the greatest of these.
ClockCandidates(serverClock, local, kept) ==
    {serverClock} \cup local \cup {o.clock : o \in kept}

\* A response older than the installed canonical state is refused.
NoRegress(rev) == rev >= revision

Greatest(n, clocks) == n \in clocks /\ \A c \in clocks : c <= n

\* reconcile.rebase.v2 and the installation of its result.  Acknowledged rows
\* go.  Of the commands waiting for them, those whose parent the service did
\* not apply, or which the core's replay finds stale, are dropped; the others
\* lose their edge.  A dropped row without proof may be in the service
\* already: the core then refuses the whole reconciliation.  Proof follows the
\* rows and the clocks merge, without the local one when it is beyond the
\* trusted-time limit.
Rebase(sent, removed, rev, serverClock) ==
    /\ EdgesQueued
    /\ \E dropped \in SUBSET Released(sent) :
        LET gone == Answered(sent, dropped, removed)
            kept == {o \in queue : o.id \notin gone}
        IN  /\ dropped \ removed \subseteq neverSent
            /\ queue' = kept
            /\ waits' = EdgesLeft(gone)
            /\ neverSent' = neverSent \ gone
            /\ \E local \in {{}, {hlc}} :
                LET clocks == ClockCandidates(serverClock, local, kept)
                IN  \E merged \in clocks :
                        Greatest(merged, clocks) /\ hlc' = merged
    /\ revision' = rev
    /\ head' = serverClock

\* apply_sync for the response to the saved claim.
ApplySync(rev, serverClock) ==
    /\ NoPendingResolution
    /\ NoRegress(rev)
    /\ \E c \in claim :
        ~Oversized(c.ops, Total) /\ Rebase(c.ops, {}, rev, serverClock)
    /\ claim' = {}
    /\ UNCHANGED <<resolution, user, lastId, lastRequest, planner, requests,
                   discarded>>

-----------------------------------------------------------------------------
(* Account history resolution *)

\* What the resolution publishes.  The planner refuses a bootstrap while any
\* dependent command is held; legacy slicing leaves the dependents behind.
OutboundOps(strategy) ==
    CASE strategy = "keep_remote" -> {}
      [] strategy # "keep_remote" /\ planner -> queue
      [] OTHER -> Sendable

OutboundAllowed(strategy) ==
    strategy # "keep_remote" =>
        /\ \A d \in Domains :
              Cardinality(InDomain(OutboundOps(strategy), d)) <= BootPerDomain
        /\ planner => waits = {} /\ Cardinality(queue) <= BootTotal

\* The saved resolution: owner, request and the captured queue ids.
ResolutionFor(owner, expected, strategy) ==
    [kind |-> "resolve", requestId |-> lastRequest + 1, owner |-> owner,
     expectedRevision |-> expected, strategy |-> strategy,
     ops |-> OutboundOps(strategy),
     queueIds |-> IF strategy = "keep_remote" THEN QueuedIds ELSE IdsOf(Sendable)]

PrepareResolution(owner, expected, strategy) ==
    /\ NothingSaved
    /\ Preflight
    /\ OutboundAllowed(strategy)
    /\ lastRequest < MaxRequests
    /\ LET r == ResolutionFor(owner, expected, strategy)
       IN  /\ resolution' = {r}
           /\ requests' = requests \cup {Carried(r)}
           /\ neverSent' = WithoutProof(r.ops)
    /\ lastRequest' = lastRequest + 1
    /\ UNCHANGED <<queue, waits, claim, revision, user, head, hlc, lastId,
                   planner, discarded>>

\* apply_resolution.  keep_remote deletes the captured rows first; the other
\* strategies insist that the request carries exactly the captured ids.
ApplyResolution(rev, serverClock) ==
    /\ \E r \in resolution :
        /\ ~Oversized(r.ops, BootTotal)
        /\ r.strategy # "keep_remote" => IdsOf(r.ops) = r.queueIds
        /\ NoRegress(rev)
        /\ rev >= r.expectedRevision
        /\ Rebase(r.ops, IF r.strategy = "keep_remote" THEN r.queueIds ELSE {},
                  rev, serverClock)
        /\ user' = r.owner
    /\ resolution' = {}
    /\ UNCHANGED <<claim, lastId, lastRequest, planner, requests, discarded>>

\* bootstrap_conflict: the service moved on, the request is given up.
DiscardResolution ==
    /\ \E r \in resolution :
        /\ ~Oversized(r.ops, BootTotal)
        /\ discarded' = discarded \cup IdsOf(r.ops)
    /\ resolution' = {}
    /\ UNCHANGED <<queue, waits, neverSent, claim, revision, user, head,
                   hlc, lastId, lastRequest, planner, requests>>

-----------------------------------------------------------------------------
(* Account lifecycle, start-up and upgrades *)

\* reset_account_data and complete_account_deletion: sign-out, account switch,
\* deletion.  The clock and the id counters survive.
ResetAccount ==
    /\ queue' = {} /\ waits' = {} /\ neverSent' = {}
    /\ claim' = {} /\ resolution' = {}
    /\ revision' = 0 /\ user' = NoUser /\ head' = 0
    /\ UNCHANGED <<hlc, lastId, lastRequest, planner, requests, discarded>>

\* set_user: the account menu's identity, refreshed.
SetUser(account) ==
    /\ user' = account
    /\ UNCHANGED <<queue, waits, neverSent, claim, resolution, revision,
                   head, hlc, lastId, lastRequest, planner, requests, discarded>>

\* Store._initialize on the next start, possibly with a newer bundled core:
\* the proof is repaired to the rows that exist.
Reopen(core) ==
    /\ planner => core
    /\ planner' = core
    /\ neverSent' = neverSent \cap QueuedIds
    /\ UNCHANGED <<queue, waits, claim, resolution, revision, user, head, hlc,
                   lastId, lastRequest, requests, discarded>>

Next ==
    \/ LocalEdit
    \/ ReplayClaim
    \/ ClaimBatch
    \/ DiscardSavedClaim
    \/ \E rev \in 0..MaxRevision, clk \in 0..MaxClock : ApplySync(rev, clk)
    \/ \E account \in Users, expected \in 0..MaxRevision, s \in Strategies :
          PrepareResolution(account, expected, s)
    \/ \E rev \in 0..MaxRevision, clk \in 0..MaxClock : ApplyResolution(rev, clk)
    \/ DiscardResolution
    \/ ResetAccount
    \/ \E account \in Users : SetUser(account)
    \/ \E core \in Cores : Reopen(core)

Spec == Init /\ [][Next]_storeVars
-----------------------------------------------------------------------------
(* What the screen may replay over the canonical state *)

\* _safe_domain_queue: a domain's queue is projected whole or not at all.  It
\* is withheld once a covering head exists and some retained operation may
\* have been delivered or is not newer than the head.
Projected(d) ==
    \/ head = 0
    \/ \A o \in InDomain(queue, d) : o.id \in neverSent /\ o.clock > head

-----------------------------------------------------------------------------
(* Safety *)

Outstanding == claim \cup resolution

\* Never-sent proof is never a lie: whatever claims, discards, replays and
\* restarts come in between, an id that still has proof has not been in any
\* request the store handed out.  Dropping a row is safe only because of this.
NeverSentProofSound == neverSent \cap PublishedIds = {}

\* Once published, an operation that is still queued is pinned to the request
\* that carries it, or its request was explicitly given up.  The store never
\* forgets which bytes the service may already hold.
PossiblyDeliveredIsReplayable ==
    \A id \in QueuedIds \cap PublishedIds :
        id \in discarded \cup UNION {IdsOf(r.ops) : r \in Outstanding}

\* The service sees an operation in one request only, however often it is
\* retried: two different requests share no operation, except those whose
\* first request was given up.
ExactReplay ==
    \A r, s \in requests :
        r # s => IdsOf(r.ops) \cap IdsOf(s.ops) \subseteq discarded

\* At most one request is outstanding over both protocols: normal sync and
\* account resolution never race each other for the same rows.
OneOutstandingRequest == \A r, s \in Outstanding : r = s

\* The response to the saved request can always be installed: the graph is
\* sound, every command it may drop still has proof, and a resolution still
\* carries exactly the rows it captured.  Otherwise delivered work would stay
\* queued for ever behind a request that cannot complete.
CompletionNeverRefused ==
    \A r \in Outstanding :
        /\ EdgesQueued
        /\ Released(r.ops) \subseteq neverSent
        /\ r \in resolution /\ r.strategy # "keep_remote" =>
              IdsOf(r.ops) = r.queueIds

\* The planner never meets a queue it must reject: clocks and ids are covered
\* by the persisted counters, and a held command waits for an earlier, free
\* command that is still queued, so the first command is never behind the
\* barrier.
QueueAlwaysPlannable ==
    /\ Preflight
    /\ \A e \in waits : e[2] < e[1] /\ e[2] \notin Waiting

\* Device order and logical order agree, across restarts, clock merges and
\* responses from devices that are ahead: of two queued operations the later
\* has the greater clock.
SequenceFollowsClock ==
    \A o, p \in queue : o.id < p.id => o.clock < p.clock

-----------------------------------------------------------------------------
(* The inductive invariant: what the safety properties rest on *)

\* ids name one row, and everything ever queued or published is covered by the
\* persisted counters.
CountersCover ==
    /\ \A o, p \in queue : o.id = p.id => o = p
    /\ \A o \in queue : o.id <= lastId /\ o.clock <= hlc
    /\ \A r \in requests : \A o \in r.ops : o.id <= lastId
    /\ head <= hlc

\* A held command is a queued, never-published command; what it waits for is
\* an earlier queued command that waits for nothing.
EdgesSound ==
    \A e \in waits :
        /\ e[1] \in neverSent
        /\ e[2] \in QueuedIds \ Waiting
        /\ e[2] < e[1]
        /\ \A o \in queue : o.id \in {e[1], e[2]} => o.domain = Commands

ProofCovers == neverSent \subseteq QueuedIds

\* A saved request has been handed out; a resolution still captures the rows.
OutstandingKnown ==
    /\ \A r \in Outstanding : Carried(r) \in requests
    /\ \A r \in resolution :
          IF r.strategy = "keep_remote"
          THEN r.ops = {} /\ r.queueIds = QueuedIds
          ELSE r.queueIds = IdsOf(r.ops)

IInv ==
    /\ TypeOK
    /\ CountersCover /\ SequenceFollowsClock
    /\ EdgesSound /\ ProofCovers /\ NeverSentProofSound
    /\ OneOutstandingRequest /\ OutstandingKnown
    /\ PossiblyDeliveredIsReplayable /\ ExactReplay

-----------------------------------------------------------------------------
(* What a step may never do *)

IsReset == user' = NoUser /\ revision' = 0 /\ queue' = {}

\* Queued work leaves the store for five reasons only: the saved request that
\* carries it is answered, the user chose the remote history over it, it was
\* waiting for a command that has now been answered and nobody has seen it, a
\* newer value for the same setting replaces it, or the account is reset.
NoSilentLoss == [][
    \A o \in queue \ queue' :
        \/ \E r \in Outstanding : /\ claim' = {} /\ resolution' = {}
                                  /\ \/ o.id \in IdsOf(r.ops)
                                     \/ r \in resolution /\ o.id \in r.queueIds
        \/ /\ o.id \in neverSent \cap Waiting
           /\ \E e \in waits, r \in Outstanding :
                 e[1] = o.id /\ e[2] \in IdsOf(r.ops) /\ e[2] \notin IdsOf(queue')
        \/ \E p \in queue' : p.domain = Durations /\ o.domain = Durations
                             /\ o.id < p.id /\ o.clock < p.clock
        \/ IsReset
  ]_storeVars

\* A dependent is set free only by the answer to its parent: as long as the
\* finish is queued, the break start that waits for it stays held.
ParentsHoldTheirDependents == [][
    \A e \in waits :
        e[1] \in IdsOf(queue') /\ e[2] \in IdsOf(queue') => e \in waits'
  ]_storeVars

\* The canonical state never goes back, neither by a late response nor by the
\* answer to a resolution: only a reset starts again from revision 0.
RevisionNeverRegresses == [][revision' >= revision \/ IsReset]_storeVars

\* While a resolution is saved, no edit, sync or restart of any process
\* changes what it captured.
ResolutionFreezesQueue == [][
    resolution # {} /\ resolution' = resolution =>
        UNCHANGED <<queue, waits, claim, neverSent, revision>>
  ]_storeVars

\* An edit in a domain that is on screen is on screen at once: its clock is
\* beyond the canonical head even when the head came from a device that is
\* ahead, and it carries proof.
EditsShowAtOnce == [][
    \A o \in queue' \ queue : Projected(o.domain) => Projected(o.domain)'
  ]_storeVars
=============================================================================
