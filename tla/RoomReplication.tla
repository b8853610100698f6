--------------------------- MODULE RoomReplication ---------------------------
(***************************************************************************)
(* One iroh room and the log of immutable records its devices exchange.    *)
(*                                                                         *)
(* Every device keeps the room's records, the edits it has not published,  *)
(* an address book with what each peer said it supports, and the conflict  *)
(* that freezes the room once two payloads share an ID.  An edit is queued *)
(* and captured into the log in one transaction; a capture holds retargets *)
(* back until every known peer supports them.  Two devices exchange after  *)
(* a hello each way: each side asks for the other's inventory, fetches     *)
(* what it lacks in batches, and asks again until nothing changed.         *)
(*                                                                         *)
(* An action is one transaction of a device's store or one turn of its     *)
(* event loop.  A connection may end, and a device restart, between any    *)
(* two.  What a record says is left out: its ID, its author (two payloads  *)
(* of one ID differ in their author) and its domain are kept.  Workspaces, *)
(* device sequences and modes are in RoomWorkspaces.  A device that does   *)
(* not support retargets runs an older release: it is modelled from what   *)
(* this one assumes of it (it says nothing in its hello and refuses a      *)
(* batch that holds a retarget).                                           *)
(***************************************************************************)
EXTENDS Naturals, FiniteSets

CONSTANTS
    Device,
    Creator,     \* the device that created the room
    Old,         \* devices that start on a release without retarget-v1
    Retargeters, \* the devices whose user retargets timers
    Editors,     \* the devices whose user edits
    BatchLimit,  \* MAX_OPERATION_REFS: records in one operations message
    PeerLimit,   \* MAX_PEERS: entries of an address book
    MaxEdits,    \* bound: edits made in all
    MaxClashes,  \* bound: edits whose ID another device has used
    MaxDrops     \* bound: connections cut and restarts

ASSUME LimitsAssumption ==
    /\ BatchLimit \in Nat \ {0} /\ PeerLimit \in Nat
    /\ MaxEdits \in Nat /\ MaxClashes \in Nat /\ MaxDrops \in Nat

ASSUME DevicesAssumption ==
    /\ Creator \in Device /\ Old \subseteq Device
    /\ Retargeters \subseteq Device /\ Editors \subseteq Device

VARIABLES
    made,      \* history: every edit ever made in the room
    records,   \* iroh_records of each device
    queue,     \* its pending tables
    room,      \* "none", "joining" (its row exists) or "active"
    book,      \* iroh_peers: what each device knows of each other one
    conflict,  \* iroh_rooms.conflict is set
    supports,  \* the release of the device knows retargets
    running,   \* its endpoint is open
    pull,      \* pull[d][e]: what d's connection with e is doing
    drops

vars == <<made, records, queue, room, book, conflict, supports, running,
          pull, drops>>

Domains == {"setting", "genesis", "timer", "retarget"}
Record  == [id : 0..MaxEdits, domain : Domains, author : Device]
Genesis == [id |-> 0, domain |-> "genesis", author |-> Creator]

\* A connection at one end: no connection, the hello sent, about to ask for
\* an inventory, fetching what is missing, or only serving the other side.
Stages == {"off", "hello", "inventory", "fetch", "serving"}
Pull   == [stage : Stages, caller : BOOLEAN, missing : SUBSET Record,
           changed : BOOLEAN]
Off    == [stage |-> "off", caller |-> FALSE, missing |-> {}, changed |-> FALSE]
At(stage, caller) == [Off EXCEPT !.stage = stage, !.caller = caller]

Init ==
    /\ made = {Genesis}
    /\ records = [d \in Device |-> IF d = Creator THEN {Genesis} ELSE {}]
    /\ queue = [d \in Device |-> {}]
    /\ room = [d \in Device |-> IF d = Creator THEN "active" ELSE "none"]
    /\ book = [d \in Device |-> [e \in Device |-> "absent"]]
    /\ conflict = [d \in Device |-> FALSE]
    /\ supports = [d \in Device |-> d \notin Old]
    /\ running = [d \in Device |-> d = Creator]
    /\ pull = [d \in Device |-> [e \in Device |-> Off]]
    /\ drops = 0
-------------------------------------------------------------------------------
\* record_id within its domain; retargets are records of the timer domain.
Key(r) == <<IF r.domain = "retarget" THEN "timer" ELSE r.domain, r.id>>

\* _check_record_conflicts: the ID is there with another digest.
Clashes(log, r) == \E s \in log : Key(s) = Key(r) /\ s # r

\* The order of an inventory: ORDER BY domain, operation_id.
DomainRank(r) == CASE r.domain = "setting" -> 0
                   [] r.domain = "genesis" -> 1
                   [] OTHER                -> 2
Precedes(r, s) == \/ DomainRank(r) < DomainRank(s)
                  \/ DomainRank(r) = DomainRank(s) /\ r.id < s.id
FirstBatch(missing) ==
    {r \in missing : Cardinality({s \in missing : Precedes(s, r)}) < BatchLimit}

Peers(d) == {e \in Device : book[d][e] # "absent"}

\* peers_support: a peer that said nothing supports nothing.
PeersSupport(d) == \A e \in Peers(d) : book[d][e] = "retarget-v1"

Publishable(d, pending) ==
    IF PeersSupport(d) THEN pending
                       ELSE {r \in pending : r.domain # "retarget"}

\* insert_locked without a clash: the batch fits and the room is in repair.
CanInsert(d, batch) ==
    /\ Cardinality(batch) <= BatchLimit
    /\ ~conflict[d]

\* Mutant of CaptureOK: a room in conflict lets a capture of nothing pass
\* only, yet an ID that clashes is taken.
CaptureOKBlind(d, pending) ==
    LET new == Publishable(d, pending)
    IN  new # {} => CanInsert(d, new)

\* An ID to publish is taken.  The evidence is rolled back with the capture.
CaptureClashes(d, pending) ==
    \E r \in Publishable(d, pending) : Clashes(records[d], r)

\* capture_local_records_locked raises nothing.
CaptureOK(d, pending) ==
    LET new == Publishable(d, pending)
    IN  new # {} => /\ CanInsert(d, new)
                    /\ \A r \in new : ~Clashes(records[d], r)

\* Mutant of LeftQueued: a capture empties the queue.
LeftQueuedNone(d, pending) == {}

\* _clear_captured_queues: only what was published leaves the queue.
LeftQueued(d, pending) == pending \ Publishable(d, pending)

Captured(d, pending) == records[d] \cup Publishable(d, pending)
-------------------------------------------------------------------------------
(* Edits. *)

NextId == Cardinality({r.id : r \in made})

\* A queued edit and capture_after_mutation_locked, in one transaction: in
\* a room that needs repair the edit only waits, and an edit whose capture
\* raises is not made at all.
Publish(d, r) ==
    LET pending == queue[d] \cup {r}
    IN  /\ made' = made \cup {r}
        /\ IF conflict[d]
           THEN /\ queue' = [queue EXCEPT ![d] = pending]
                /\ UNCHANGED records
           ELSE /\ CaptureOK(d, pending)
                /\ queue' = [queue EXCEPT ![d] = LeftQueued(d, pending)]
                /\ records' = [records EXCEPT ![d] = Captured(d, pending)]
        /\ UNCHANGED <<room, book, conflict, supports, running, pull, drops>>

Edit(d, domain) ==
    /\ room[d] = "active" /\ d \in Editors /\ NextId <= MaxEdits
    /\ domain # "genesis"
    /\ domain = "retarget" => supports[d] /\ d \in Retargeters
    /\ Publish(d, [id |-> NextId, domain |-> domain, author |-> d])

\* An ID meets one that another device has made.
EditClashing(d, r) ==
    /\ room[d] = "active" /\ d \in Editors
    /\ Cardinality(made) <= NextId - 1 + MaxClashes
    /\ r \in made /\ r.domain \in {"setting", "timer"} /\ r.author # d
    /\ [r EXCEPT !.author = d] \notin made
    /\ Publish(d, [r EXCEPT !.author = d])

\* capture_local_records: the periodic exchange and "sync now" publish what
\* was held back.  A room that needs repair makes it raise, and the endpoint
\* of the periodic exchange is then closed.
Capture(d) ==
    /\ room[d] = "active" /\ queue[d] # {} /\ CaptureOK(d, queue[d])
    /\ Publishable(d, queue[d]) # {}
    /\ records' = [records EXCEPT ![d] = Captured(d, queue[d])]
    /\ queue' = [queue EXCEPT ![d] = LeftQueued(d, queue[d])]
    /\ UNCHANGED <<made, room, book, conflict, supports, running, pull, drops>>
-------------------------------------------------------------------------------
(* Endpoints and connections. *)

\* Both ends of the connection of d and e close.
Closed(d, e) == [pull EXCEPT ![d][e] = Off, ![e][d] = Off]

\* _stop_endpoint: every connection of d ends.
StoppedPulls(d) ==
    [c \in Device |-> [e \in Device |-> IF d \in {c, e} THEN Off
                                                        ELSE pull[c][e]]]

\* The exchange of d with e raised.  A caller that met a conflict, or was
\* joining, closes its endpoint; otherwise only the connection ends.
Raise(d, e, repair) ==
    IF pull[d][e].caller /\ (repair \/ room[d] = "joining")
    THEN /\ running' = [running EXCEPT ![d] = FALSE]
         /\ pull' = StoppedPulls(d)
    ELSE /\ pull' = Closed(d, e)
         /\ UNCHANGED running

CaptureRaises(d) ==
    /\ room[d] = "active" /\ running[d] /\ Publishable(d, queue[d]) # {}
    /\ conflict[d] \/ CaptureClashes(d, queue[d])
    /\ running' = [running EXCEPT ![d] = FALSE]
    /\ pull' = StoppedPulls(d)
    /\ UNCHANGED <<made, records, queue, room, book, conflict, supports, drops>>

StartRoom(d) ==
    /\ room[d] = "active" /\ ~running[d]
    /\ running' = [running EXCEPT ![d] = TRUE]
    /\ UNCHANGED <<made, records, queue, room, book, conflict, supports, pull,
                   drops>>

\* The device restarts, or the endpoint is closed; the store is what it was.
StopEndpoint(d) ==
    /\ running[d] /\ drops < MaxDrops
    /\ drops' = drops + 1
    /\ running' = [running EXCEPT ![d] = FALSE]
    /\ pull' = StoppedPulls(d)
    /\ UNCHANGED <<made, records, queue, room, book, conflict, supports>>

\* A lost connection is an exception of the exchange at either end.
Drop(d, e) ==
    /\ pull[d][e].stage # "off" /\ drops < MaxDrops
    /\ drops' = drops + 1
    /\ Raise(d, e, FALSE)
    /\ UNCHANGED <<made, records, queue, room, book, conflict, supports>>

\* upsert_peer_locked: an address book that is full takes no new peer.
CanSavePeer(d, e) ==
    e \in Peers(d) \/ Cardinality(Peers(d)) < PeerLimit

\* Mutant of Hello: the answer leaves the capabilities out.
HelloSilent(e) == "unknown"

\* What the hello of e announces, as upsert_peer keeps it.
Hello(e) == IF supports[e] THEN "retarget-v1" ELSE "unknown"

\* prepare_join with an invite of e, then the endpoint is opened.  For a
\* room that is already joined the invite only saves the route, and what
\* the peer had said it supports is forgotten.
Join(d, e) ==
    /\ d # e /\ room[e] = "active" /\ room[d] # "active" /\ ~running[d]
    /\ ~conflict[d] /\ CanSavePeer(d, e)
    /\ room' = [room EXCEPT ![d] = "joining"]
    /\ book' = [book EXCEPT ![d][e] = "unknown"]
    /\ running' = [running EXCEPT ![d] = TRUE]
    /\ UNCHANGED <<made, records, queue, conflict, supports, pull, drops>>

\* A newer release of the program starts on the device.
Upgrade(d) ==
    /\ ~supports[d]
    /\ supports' = [supports EXCEPT ![d] = TRUE]
    /\ running' = [running EXCEPT ![d] = FALSE]
    /\ pull' = StoppedPulls(d)
    /\ UNCHANGED <<made, records, queue, room, book, conflict, drops>>

Calling(d) == \E e \in Device : pull[d][e].stage # "off" /\ pull[d][e].caller

\* The session lock: a device calls one peer at a time, after a capture that
\* passed.  The callee takes the hello, saves the caller and answers.
Connect(d, e) ==
    /\ room[d] = "active" => Publishable(d, queue[d]) = {}
    /\ d # e /\ e \in Peers(d) /\ running[d] /\ running[e]
    /\ ~Calling(d) /\ pull[d][e].stage = "off" /\ pull[e][d].stage = "off"
    /\ CanSavePeer(e, d)
    /\ book' = [book EXCEPT ![e][d] = Hello(d)]
    /\ pull' = [pull EXCEPT ![d][e] = At("hello", TRUE),
                            ![e][d] = At("inventory", FALSE)]
    /\ UNCHANGED <<made, records, queue, room, conflict, supports, running,
                   drops>>

\* _perform_hello: the caller has the answer.
HelloAnswered(d, e) ==
    /\ pull[d][e].stage = "hello"
    /\ book' = [book EXCEPT ![d][e] = Hello(e)]
    /\ pull' = [pull EXCEPT ![d][e].stage = "inventory"]
    /\ UNCHANGED <<made, records, queue, room, conflict, supports, running,
                   drops>>
-------------------------------------------------------------------------------
(* Pulling. *)

\* Mutant of Missing: only what comes after the last record known is new.
MissingAfterLast(d, e) ==
    {r \in records[e] : \A s \in records[d] : Precedes(s, r)}

Missing(d, e) == {r \in records[e] : \A s \in records[d] : Key(s) # Key(r)}

\* missing_references over the inventory of e: an entry whose digest differs
\* is evidence, kept for good, and ends the exchange.
Inventory(d, e) ==
    /\ pull[d][e].stage = "inventory"
    /\ LET missing == Missing(d, e)
       IN  \/ /\ \E r \in records[e] : Clashes(records[d], r)
              /\ conflict' = [conflict EXCEPT ![d] = TRUE]
              /\ Raise(d, e, TRUE)
           \/ /\ \A r \in records[e] : ~Clashes(records[d], r)
              /\ pull' = [pull EXCEPT
                     ![d][e].stage = IF missing # {} THEN "fetch"
                                                     ELSE "serving",
                     ![d][e].missing = missing,
                     ![d][e].changed = FALSE]
              /\ UNCHANGED <<conflict, running>>
    /\ UNCHANGED <<made, records, queue, room, book, supports, drops>>

\* insert_remote_records: what is pending is captured first, in the same
\* transaction.
QueueAtInsert(d) == IF room[d] = "active" THEN queue[d] ELSE {}

\* The release knows every record of the batch, and neither the capture nor
\* the check of the room raises.
Admits(d, batch) ==
    /\ supports[d] \/ \A r \in batch : r.domain # "retarget"
    /\ CaptureOK(d, QueueAtInsert(d))
    /\ CanInsert(d, batch)

LogAtInsert(d) == Captured(d, QueueAtInsert(d))

\* Nothing raises: the IDs are free, and the log that results can be
\* projected.
Accepts(d, batch) ==
    /\ Admits(d, batch) /\ \A r \in batch : ~Clashes(LogAtInsert(d), r)
    /\ Genesis \in records[d] \cup batch

\* The first record whose ID is taken is evidence.
FindsClash(d, batch) ==
    Admits(d, batch) /\ \E r \in batch : Clashes(LogAtInsert(d), r)

\* The pull goes on with the next batch; after the last one it asks for
\* the inventory once more if something was inserted.
Continue(pulling, batch, inserted) ==
    LET left    == pulling.missing \ batch
        changed == pulling.changed \/ inserted
    IN  [pulling EXCEPT !.missing = left, !.changed = changed,
                        !.stage = IF left # {} THEN "fetch"
                                  ELSE IF changed THEN "inventory"
                                  ELSE "serving"]

Commit(d, log) ==
    /\ records' = [records EXCEPT ![d] = log]
    /\ queue' = IF room[d] = "active"
                THEN [queue EXCEPT ![d] = LeftQueued(d, @)]
                ELSE queue

\* One batch, in one transaction: taken; found to clash (what was captured
\* and the evidence are committed); or rolled back.
Fetch(d, e) ==
    /\ pull[d][e].stage = "fetch"
    /\ LET batch == FirstBatch(pull[d][e].missing)
           log   == LogAtInsert(d)
       IN  \/ /\ Accepts(d, batch)
              /\ Commit(d, log \cup batch)
              /\ pull' = [pull EXCEPT ![d][e] =
                     Continue(@, batch, ~(batch \subseteq log))]
              /\ UNCHANGED <<conflict, running>>
           \/ /\ FindsClash(d, batch)
              /\ Commit(d, log)
              /\ conflict' = [conflict EXCEPT ![d] = TRUE]
              /\ Raise(d, e, TRUE)
           \/ /\ ~Accepts(d, batch) /\ ~FindsClash(d, batch)
              /\ Raise(d, e, conflict[d] \/ CaptureClashes(d, QueueAtInsert(d)))
              /\ UNCHANGED <<records, queue, conflict>>
    /\ UNCHANGED <<made, room, book, supports, drops>>

\* Both sides only serve and the connection goes idle.  A join completes:
\* activate_joined_room needs the genesis and a room without conflict.
EndExchange(d, e) ==
    /\ pull[d][e].stage = "serving" /\ pull[d][e].caller
    /\ pull[e][d].stage \in {"off", "serving"}
    /\ IF room[d] # "joining"
       THEN pull' = Closed(d, e) /\ UNCHANGED <<room, running>>
       ELSE IF Genesis \in records[d] /\ ~conflict[d]
       THEN /\ room' = [room EXCEPT ![d] = "active"]
            /\ pull' = Closed(d, e)
            /\ UNCHANGED running
       ELSE Raise(d, e, FALSE) /\ UNCHANGED room
    /\ UNCHANGED <<made, records, queue, book, conflict, supports, drops>>
-------------------------------------------------------------------------------
Exchanging(d, e) ==
    \/ Connect(d, e) \/ HelloAnswered(d, e) \/ Inventory(d, e) \/ Fetch(d, e)
    \/ EndExchange(d, e)

Next ==
    \E d \in Device :
        \/ \E domain \in Domains : Edit(d, domain)
        \/ \E r \in made : EditClashing(d, r)
        \/ Capture(d) \/ CaptureRaises(d)
        \/ StartRoom(d) \/ StopEndpoint(d) \/ Upgrade(d)
        \/ \E e \in Device : Join(d, e) \/ Drop(d, e) \/ Exchanging(d, e)

Spec == Init /\ [][Next]_vars

\* The event loop of every device goes on, its periodic exchange calls every
\* known peer again (one failing peer does not stop the others), the program
\* opens the endpoint of its active room when it starts, and the next
\* release is installed some day.  Users owe nothing.
Fairness ==
    \A d \in Device :
        /\ WF_vars(Capture(d)) /\ WF_vars(StartRoom(d)) /\ WF_vars(Upgrade(d))
        /\ \A e \in Device :
               /\ SF_vars(Connect(d, e)) /\ WF_vars(HelloAnswered(d, e))
               /\ WF_vars(Inventory(d, e)) /\ WF_vars(Fetch(d, e))
               /\ WF_vars(EndExchange(d, e))

FairSpec == Spec /\ Fairness
-------------------------------------------------------------------------------

\* An edit made in the room is in its author's queue or in its author's log,
\* never in both and never in neither: capturing, holding back, a refused
\* batch, a frozen room and a restart lose no edit and publish none twice.
EditsKept ==
    \A r \in made :
        (r \in queue[r.author]) # (r \in records[r.author])

\* A room is only declared in conflict when two devices have really written
\* different payloads under one ID; the accusation never comes from a batch
\* that was cut, repeated or taken over from another device.
ConflictIsReal ==
    (\E d \in Device : conflict[d]) => \E r \in made : Clashes(made, r)

\* The log keeps the promise of RoomLog: it grows only, by own records and
\* by records of the peer of one exchange, one payload for an ID.
Log == INSTANCE RoomLog WITH log <- records
LogSpec == Log!Spec

\* The devices of a room come to hold the same records: cut exchanges,
\* restarts, batches and the order of calls only delay it.  Not so for a
\* room with a conflict, for records of a device that does not call any
\* more, or for a device with more edits held back than a batch may hold.
Converged ==
    \A d, e \in Device :
        room[d] = "active" /\ room[e] = "active" => records[d] = records[e]
Excused ==
    \/ \E d \in Device : conflict[d]
    \/ \E d \in Device : Cardinality(queue[d]) > BatchLimit
Convergence == []<>(Converged \/ Excused)

\* Retargets held back for an old release are published some time after the
\* last peer is upgraded, unless a peer that once said hello never finished
\* joining.
HeldIsPublished ==
    \A d \in Device :
        []<>(\/ queue[d] = {} \/ Excused
             \/ \E e \in Peers(d) : room[e] # "active")

===============================================================================
