---------------------------- MODULE RoomWorkspaces ----------------------------
(* The route of one device: offline, centralized or in a room.  The store     *)
(* (storage_replication_lifecycle.py) keeps a workspace for every room and    *)
(* one to return to; the controller (replication_controller.py) moves the     *)
(* route on the GUI thread; the peer service (iroh_network.py) opens and      *)
(* closes the endpoint and completes joins on a thread of its own and tells   *)
(* the GUI by queued signals.  What a room's log holds and how peers exchange *)
(* it is module RoomReplication; here a room only has a genesis or a conflict.*)
EXTENDS Integers, FiniteSets, SequencesExt

CONSTANTS MaxRooms,      \* bound: rooms this device creates or joins
          MaxEdits,      \* bound: edits, by any process of the device
          MaxMoves,      \* bound: route changes the user asks for
          MaxFaults,     \* bound: crashes and conflicts
          MaxLate        \* bound: captures whose transaction starts after the
                         \* room they were read for was left

ASSUME BoundsAssumption == {MaxRooms, MaxEdits, MaxMoves, MaxFaults, MaxLate} \subseteq Nat

VARIABLES
    mode,      \* meta replicationMode
    active,    \* meta activeIrohRoomId
    live,      \* the workspace the tables and the metadata hold
    row,       \* iroh_rooms, by room
    log,       \* iroh_records: this device's own records, for each room
    made,      \* every edit ever made
    ctl,       \* ReplicationController.mode
    joining,   \* the room of the pending join (iroh_join_pending), or None
    restoreAfterStop,  \* cloud_restore_after_iroh_stop
    cloud,     \* whether the cloud's revision stream is on
    restored,  \* whether cloud.restore was called since the program started
    signals,   \* queued signals of the service to the GUI thread
    jobs,      \* submitted coroutines; the first one holds the session lock
    stops,     \* submitted _stop_endpoint coroutines, not begun
    closing,   \* _stop_endpoint coroutines waiting for cancelled tasks
    endpoint,  \* the room the endpoint is open for
    joinPending, outcome,   \* IrohService.join_pending, join_outcome
    capture,   \* the room capture_local_records has read, before its transaction
    moves, faults, late     \* counters of the bounds
store == <<mode, active, live, row, log, made>>
control == <<ctl, joining, restoreAfterStop, cloud, restored>>
service == <<jobs, stops, closing, endpoint, joinPending, outcome, capture>>
bounds == <<moves, faults, late>>
vars == <<store, control, service, signals, bounds>>

\* Rooms are numbered in the order in which their rows are inserted.
Room == 1..MaxRooms
None == 0
NoRow == [genesis |-> FALSE]

Mode == {"offline", "centralized", "iroh"}
Edit == [home : Room \cup {None}, n : 1..MaxEdits, id : 1..MaxEdits]
Workspace == [seq : 0..MaxEdits, pending : SUBSET Edit]
Row == [genesis : BOOLEAN, conflict : BOOLEAN, ws : Workspace, ret : Workspace]
Stage == {"queued", "binding", "exchange", "failed", "dead"}
Job == [kind : {"start", "join"}, room : Room, stage : Stage,
        current : BOOLEAN, owner : BOOLEAN, cancelled : BOOLEAN,
        origin : Mode \X (Room \cup {None})]
Signal == {"not connected", "joined", "failure"}

Init ==
    /\ mode \in {"offline", "centralized"} /\ active = None
    /\ live = [seq |-> 0, pending |-> {}]
    /\ row = [r \in Room |-> NoRow] /\ made = {}
    /\ log = [r \in Room |-> {}]
    /\ ctl = mode /\ joining = None /\ restoreAfterStop = FALSE
    /\ cloud = (mode = "centralized") /\ restored = cloud
    /\ signals = <<>> /\ jobs = <<>> /\ stops = 0 /\ closing = 0
    /\ endpoint = None /\ joinPending = FALSE /\ outcome = "none"
    /\ capture = None
    /\ moves = 0 /\ faults = 0 /\ late = 0
-------------------------------------------------------------------------------
(* The store: edits and captures.                                            *)

Rooms == {r \in Room : row[r] # NoRow}
IsNext(r) == r = Cardinality(Rooms) + 1

\* Two records of a device must not share a sequence number in a log.
Reuses(r, edits) == \E e \in edits, f \in log[r] : e.n = f.n /\ e # f

\* capture_local_records_locked: publish the queue of the live workspace in
\* room r and save what is left; refused as a whole if a number is reused.
CaptureOK(r, ws) == ~row[r].conflict /\ ~Reuses(r, ws.pending)
Emptied(ws) == [ws EXCEPT !.pending = {}]
CapturedIn(r, ws) ==
    /\ log' = [log EXCEPT ![r] = @ \cup ws.pending]
    /\ live' = Emptied(ws)
    /\ row' = [row EXCEPT ![r].ws = Emptied(ws)]

\* An edit of the GUI, the CLI or the TUI with its capture, one transaction.
MakeEdit ==
    /\ Cardinality(made) < MaxEdits
    /\ LET e == [home |-> active, n |-> live.seq + 1, id |-> Cardinality(made) + 1]
           ws == [seq |-> e.n, pending |-> live.pending \cup {e}]
       IN  /\ made' = made \cup {e}
           /\ IF active = None THEN live' = ws /\ UNCHANGED <<row, log>>
              ELSE IF row[active].conflict
              THEN /\ live' = ws
                   /\ row' = [row EXCEPT ![active].ws = ws]
                   /\ UNCHANGED log
              ELSE CaptureOK(active, ws) /\ CapturedIn(active, ws)
    /\ UNCHANGED <<mode, active, control, service, signals, bounds>>

\* The periodic exchange captures on the service's thread: the route is read
\* first, the transaction may have to wait for one of the GUI's.
CaptureReads ==
    /\ capture = None /\ endpoint # None
    /\ mode = "iroh" /\ active # None
    /\ capture' = active
    /\ UNCHANGED <<store, control, signals, bounds, jobs, stops, closing,
                   endpoint, joinPending, outcome>>

CaptureCommits ==
    /\ capture # None
    /\ capture' = None
    /\ IF /\ CaptureOK(capture, live)
          /\ active = capture \/ late < MaxLate
       THEN /\ CapturedIn(capture, live)
            /\ late' = IF active = capture THEN late ELSE late + 1
       ELSE UNCHANGED <<log, live, row, late>>
    /\ UNCHANGED <<mode, active, made, control, signals, moves, faults,
                   jobs, stops, closing, endpoint, joinPending, outcome>>
-------------------------------------------------------------------------------
(* The store: routes.                                                        *)

NewRow(genesis, ws) ==
    [genesis |-> genesis, conflict |-> FALSE, ws |-> Emptied(ws), ret |-> ws]

\* The room entered by the mode alone: the newest one that has a genesis.
Eligible == {r \in Rooms : row[r].genesis}
Newest == Max(Eligible)

\* Mutant of Deactivated: the room's workspace is saved after the other one is
\* brought back.
DeactivatedLate ==
    /\ row' = [row EXCEPT ![active].ws = Emptied(row[active].ret)]
    /\ log' = [log EXCEPT ![active] = @ \cup live.pending]
    /\ live' = row[active].ret /\ active' = None

\* _deactivate_mode_locked: capture, or only save in a room that needs repair,
\* and bring back the workspace from before the room.
Deactivated ==
    /\ IF row[active].conflict
       THEN /\ row' = [row EXCEPT ![active].ws = live]
            /\ UNCHANGED log
       ELSE /\ CaptureOK(active, live)
            /\ row' = [row EXCEPT ![active].ws = Emptied(live)]
            /\ log' = [log EXCEPT ![active] = @ \cup live.pending]
    /\ live' = row[active].ret
    /\ active' = None

\* Mutant of Entered: the workspace to return to is the one saved last time.
EnteredStale(r) == live' = row[r].ws /\ active' = r /\ UNCHANGED row

\* Entering room r: today's workspace is the one to return to.
Entered(r) ==
    /\ row' = [row EXCEPT ![r].ret = live]
    /\ live' = row[r].ws
    /\ active' = r

\* set_mode.  Nothing if the mode is the same; moving into a room needs one
\* that is not waiting for repair.
SetModeOK(m) ==
    m = "iroh" /\ mode # "iroh" => Eligible # {} /\ ~row[Newest].conflict
SetMode(m) ==
    /\ mode' = m
    /\ IF m = mode THEN UNCHANGED <<active, live, row, log>>
       ELSE IF mode = "iroh" THEN Deactivated
       ELSE IF m = "iroh" THEN Entered(Newest) /\ UNCHANGED log
       ELSE UNCHANGED <<active, live, row, log>>
-------------------------------------------------------------------------------
(* The service, as the GUI thread calls it.                                  *)

NewJob(kind, r) ==
    [kind |-> kind, room |-> r, stage |-> "queued", current |-> kind = "join",
     owner |-> TRUE, cancelled |-> FALSE, origin |-> <<"offline", None>>]

\* _invalidate_join, also part of submitting and of stopping.
Invalidated == [i \in 1..Len(jobs) |-> [jobs[i] EXCEPT !.current = FALSE]]

\* stop: tracked coroutines are cancelled, the endpoint will be closed.
StopService ==
    /\ jobs' = [i \in 1..Len(jobs) |-> [Invalidated[i] EXCEPT !.cancelled = TRUE]]
    /\ stops' = stops + 1
    /\ joinPending' = FALSE /\ outcome' = "none"

StartService(r) ==
    /\ jobs' = Append(Invalidated, NewJob("start", r))
    /\ joinPending' = FALSE /\ outcome' = "none"
    /\ UNCHANGED stops
-------------------------------------------------------------------------------
(* The controller: one action is one call under the workspace lock.          *)

Move == moves < MaxMoves /\ moves' = moves + 1

\* cloud.restore and cloud.stop_revision_stream: stopping the stream leaves the
\* session as it is.
Restores == cloud' = TRUE /\ restored' = TRUE
RestoresIf(condition) == cloud' = (cloud \/ condition) /\ restored' = (restored \/ condition)
StopsStream == cloud' = FALSE /\ UNCHANGED restored
InRoom == ctl = "iroh" /\ active # None

\* create_iroh_room.  The buttons are off in a room and during a join.
CreateRoom(r) ==
    /\ Move /\ ~InRoom /\ joining = None /\ IsNext(r)
    /\ row' = [row EXCEPT ![r] = NewRow(TRUE, live)]
    /\ live' = Emptied(live)
    /\ active' = r /\ mode' = "iroh" /\ ctl' = "iroh" /\ StopsStream
    /\ StartService(r)
    /\ UNCHANGED <<log, made, joining, restoreAfterStop, signals, closing,
                   endpoint, capture, faults, late>>

\* prepare_iroh_join.
Prepared(r) ==
    /\ Move /\ ~InRoom /\ joining = None
    /\ IsNext(r) \/ (r \in Rooms /\ ~row[r].conflict)
    /\ row' = IF IsNext(r) THEN [row EXCEPT ![r] = NewRow(FALSE, live)] ELSE row

\* join_iroh_room and _start_iroh_join.
JoinRoom(r) ==
    /\ Prepared(r)
    /\ joining' = r /\ StopsStream
    /\ jobs' = Append(Invalidated, NewJob("join", r))
    /\ joinPending' = TRUE /\ outcome' = "none"
    /\ UNCHANGED <<mode, active, live, log, made, ctl, restoreAfterStop, signals,
                   stops, closing, endpoint, capture, faults, late>>

\* The same when the service cannot take the join: it reports the failure, or
\* raises and is stopped, before the call is over.
JoinUnstarted(r) ==
    /\ Prepared(r)
    /\ IF mode = "centralized" THEN Restores ELSE StopsStream
    /\ \/ /\ jobs' = Invalidated /\ joinPending' = FALSE /\ outcome' = "failed"
          /\ UNCHANGED stops
       \/ StopService
    /\ UNCHANGED <<mode, active, live, log, made, ctl, joining, restoreAfterStop,
                   signals, closing, endpoint, capture, faults, late>>

\* replication_mode_changed without a join: refused with a notice if the
\* service, the saved room or the store objects.
ChangeMode(m) ==
    /\ Move /\ joining = None /\ m # ctl
    /\ SetModeOK(m) /\ SetMode(m)
    /\ ctl' = m
    /\ restoreAfterStop' = IF ctl = "iroh" THEN m = "centralized"
                           ELSE restoreAfterStop
    /\ IF ctl # "iroh" /\ m = "centralized" THEN Restores ELSE StopsStream
    /\ CASE ctl = "iroh" -> StopService
         [] m = "iroh" -> StartService(active')
         [] OTHER -> UNCHANGED <<jobs, stops, joinPending, outcome>>
    /\ UNCHANGED <<made, joining, signals, closing, endpoint, capture,
                   faults, late>>

\* The same with a join pending: the join is cancelled, whether or not it has
\* just been completed on the other thread, then the mode is set.
CancelByMode(m) ==
    /\ Move /\ joining # None /\ m # "iroh"
    /\ SetModeOK(m) /\ SetMode(m)
    /\ ctl' = m /\ joining' = None
    /\ restoreAfterStop' = IF mode = "iroh" THEN m = "centralized"
                           ELSE restoreAfterStop
    /\ IF m = "centralized" /\ mode # "iroh" THEN Restores ELSE StopsStream
    /\ StopService
    /\ UNCHANGED <<made, signals, closing, endpoint, capture, faults, late>>

\* leave_iroh_room, with the question answered by yes, or with a join pending.
LeaveRoom ==
    /\ Move /\ (InRoom \/ joining # None)
    /\ SetModeOK("offline") /\ SetMode("offline")
    /\ ctl' = "offline" /\ joining' = None
    /\ StopService
    /\ UNCHANGED <<made, restoreAfterStop, cloud, restored, signals, closing,
                   endpoint, capture, faults, late>>

\* Either of them when the change is refused after the join was cancelled: the
\* cloud is busy, or the store fails.  The route stays, the stream stays off.
CancelRefused ==
    /\ Move /\ joining # None
    /\ ctl' = mode /\ joining' = None
    /\ StopService
    /\ UNCHANGED <<store, restoreAfterStop, cloud, restored, signals, closing,
                   endpoint, capture, faults, late>>

\* sync_timer: with the central route and no join going on, a session that was
\* restored syncs, and an answered sync starts the revision stream.
SyncTimer ==
    /\ ctl = "centralized" /\ joining = None
    /\ restored /\ ~cloud
    /\ cloud' = TRUE
    /\ UNCHANGED <<store, ctl, joining, restoreAfterStop, restored, service,
                   signals, bounds>>

\* The next signal on the GUI thread.  NOT CONNECTED ends a join only when
\* the service says that it is over.
JoinOver == joining # None /\ ~joinPending /\ outcome # "joined"
NotConnected ==
    /\ signals # <<>> /\ Head(signals) = "not connected"
    /\ signals' = Tail(signals)
    /\ IF JoinOver
       THEN joining' = None /\ ctl' = mode /\ StopService
       ELSE UNCHANGED <<joining, ctl, jobs, stops, joinPending, outcome>>
    /\ RestoresIf(restoreAfterStop \/ (JoinOver /\ mode = "centralized"))
    /\ restoreAfterStop' = FALSE
    /\ UNCHANGED <<store, closing, endpoint, capture, bounds>>

Joined ==
    /\ signals # <<>> /\ Head(signals) = "joined"
    /\ signals' = Tail(signals)
    /\ IF joining # None /\ ~joinPending /\ outcome = "joined" /\ active = joining
       THEN joining' = None /\ ctl' = "iroh"
       ELSE UNCHANGED <<joining, ctl>>
    /\ UNCHANGED <<store, restoreAfterStop, cloud, restored, service, bounds>>

Failure ==
    /\ signals # <<>> /\ Head(signals) = "failure"
    /\ signals' = Tail(signals)
    /\ IF joining # None /\ (joinPending \/ outcome = "joined")
       THEN UNCHANGED <<joining, cloud, restored>>
       ELSE /\ joining' = None
            /\ RestoresIf(joining # None /\ mode = "centralized")
    /\ UNCHANGED <<store, ctl, restoreAfterStop, service, bounds>>
-------------------------------------------------------------------------------
(* The service's event loop.  capture_local_records does not await, so no    *)
(* other step of the loop falls between its two halves.                      *)

Loop == capture = None
HasJob(stage) == Loop /\ jobs # <<>> /\ Head(jobs).stage = stage
Keep(job) == jobs' = <<job>> \o Tail(jobs)
Staged(s) == Keep([Head(jobs) EXCEPT !.stage = s])
Done == jobs' = Tail(jobs)

\* _start_room and _join_room begin: a join that is not the current one any
\* more is dropped; an endpoint already open for the room is kept, any other
\* one is closed first.
BeginJob ==
    /\ HasJob("queued")
    /\ LET job == Head(jobs)
           begun == [job EXCEPT !.origin = IF job.kind = "join"
                                           THEN <<mode, active>> ELSE @,
                                !.owner = TRUE]
       IN  IF job.kind = "join" /\ ~job.current
           THEN Done /\ UNCHANGED <<endpoint, signals>>
           ELSE IF endpoint = job.room
           THEN /\ IF job.kind = "start" THEN Done
                   ELSE Keep([begun EXCEPT !.stage = "exchange"])
                /\ UNCHANGED <<endpoint, signals>>
           ELSE /\ Keep([begun EXCEPT !.stage = "binding"])
                /\ endpoint' = None
                /\ signals' = Append(signals, "not connected")
    /\ UNCHANGED <<store, control, bounds, stops, closing, joinPending, outcome,
                   capture>>

\* _open_room_endpoint and _activate_room_endpoint: abandoned if another
\* _stop_endpoint has begun in the meantime.
BindEndpoint ==
    /\ HasJob("binding")
    /\ LET job == Head(jobs)
       IN  /\ endpoint' = IF job.owner THEN job.room ELSE endpoint
           /\ IF job.kind = "start" THEN Done
              ELSE Staged(IF job.owner THEN "exchange" ELSE "failed")
           /\ signals' = IF job.kind = "join" /\ ~job.owner
                         THEN Append(signals, "not connected") ELSE signals
    /\ UNCHANGED <<store, control, bounds, stops, closing, joinPending, outcome,
                   capture>>

\* Binding, dialling or exchanging fails.  A join closes the endpoint.
JobFails ==
    /\ HasJob("binding") \/ HasJob("exchange")
    /\ IF Head(jobs).kind = "start"
       THEN /\ Done /\ signals' = Append(signals, "failure")
            /\ UNCHANGED endpoint
       ELSE /\ Staged("failed")
            /\ endpoint' = None
            /\ signals' = Append(signals, "not connected")
    /\ UNCHANGED <<store, control, bounds, stops, closing, joinPending, outcome,
                   capture>>

\* Mutant of JoinReports: a failed join is reported, but stays pending.
JoinReportsPending ==
    /\ HasJob("failed") /\ Done
    /\ outcome' = IF Head(jobs).current THEN "failed" ELSE outcome
    /\ signals' = IF Head(jobs).current THEN Append(signals, "failure") ELSE signals
    /\ UNCHANGED <<store, control, bounds, stops, closing, endpoint, joinPending,
                   capture>>

\* The end of _run_join after an exception: only the current join reports it.
JoinReports ==
    /\ HasJob("failed")
    /\ IF Head(jobs).current
       THEN /\ joinPending' = FALSE /\ outcome' = "failed"
            /\ signals' = Append(signals, "failure")
       ELSE UNCHANGED <<joinPending, outcome, signals>>
    /\ Done
    /\ UNCHANGED <<store, control, bounds, stops, closing, endpoint, capture>>

\* _complete_join, under the workspace lock.  The controller may have given
\* the join up, or moved the route, since the join began.
Superseded(job) == joining # job.room \/ job.origin # <<mode, active>>
CompleteJoin ==
    /\ HasJob("exchange")
    /\ LET job == Head(jobs)
           r == job.room
       IN  IF ~job.current
           THEN Done /\ UNCHANGED <<store, endpoint, joinPending, outcome, signals>>
           ELSE IF Superseded(job) \/ ~row[r].genesis \/ row[r].conflict
           THEN /\ Staged("failed")
                /\ endpoint' = None
                /\ signals' = Append(signals, "not connected")
                /\ UNCHANGED <<store, joinPending, outcome>>
           ELSE /\ Entered(r) /\ mode' = "iroh"
                /\ joinPending' = FALSE /\ outcome' = "joined"
                /\ signals' = Append(signals, "joined")
                /\ Done
                /\ UNCHANGED <<log, made, endpoint>>
    /\ UNCHANGED <<control, bounds, stops, closing, capture>>

\* A cancelled join closes the endpoint on its way out.
Unwind ==
    /\ HasJob("dead")
    /\ Done
    /\ IF Head(jobs).kind = "join"
       THEN endpoint' = None /\ signals' = Append(signals, "not connected")
       ELSE UNCHANGED <<endpoint, signals>>
    /\ UNCHANGED <<store, control, bounds, stops, closing, joinPending, outcome,
                   capture>>

\* _stop_endpoint begins: cancellations submitted before it are delivered, to
\* the jobs that were there then, the oldest ones; those that wait for the
\* session lock never begin.  Endpoints being opened belong to nobody any more.
Dying(job) == [NewJob(job.kind, job.room) EXCEPT !.stage = "dead", !.current = FALSE]
StopBegins ==
    /\ Loop /\ stops > 0
    /\ stops' = stops - 1 /\ closing' = closing + 1
    /\ LET older == Cardinality({i \in 1..Len(jobs) : jobs[i].cancelled})
           newer == SubSeq(jobs, older + 1, Len(jobs))
           dying == IF older > 0 /\ Head(jobs).stage # "queued"
                    THEN <<Dying(Head(jobs))>> ELSE <<>>
       IN  jobs' = dying \o [i \in 1..Len(newer) |->
                       [newer[i] EXCEPT !.owner = @ /\ newer[i].stage # "binding"]]
    /\ UNCHANGED <<store, control, bounds, endpoint, signals, joinPending,
                   outcome, capture>>

\* Mutant of StopEnds: nobody is told that the endpoint is closed.
StopEndsSilent ==
    /\ Loop /\ closing > 0
    /\ closing' = closing - 1 /\ endpoint' = None
    /\ UNCHANGED <<store, control, bounds, jobs, stops, joinPending, outcome,
                   capture, signals>>

StopEnds ==
    /\ Loop /\ closing > 0
    /\ closing' = closing - 1
    /\ endpoint' = None
    /\ signals' = Append(signals, "not connected")
    /\ UNCHANGED <<store, control, bounds, jobs, stops, joinPending, outcome,
                   capture>>

\* insert_remote_records for the room of the endpoint: its genesis arrives,
\* or a record that contradicts one already there; the exchange that met it
\* closes the endpoint, a peer's call only answers with an error.
GenesisArrives(r) ==
    /\ Loop /\ endpoint = r /\ r \in Rooms /\ ~row[r].genesis
    /\ row' = [row EXCEPT ![r].genesis = TRUE]
    /\ UNCHANGED <<mode, active, live, log, made, control, service,
                   signals, bounds>>

ConflictArrives(r, met) ==
    /\ Loop /\ endpoint = r /\ r \in Rooms
    /\ row[r].genesis /\ ~row[r].conflict
    /\ faults < MaxFaults /\ faults' = faults + 1
    /\ row' = [row EXCEPT ![r].conflict = TRUE]
    /\ met => active = r
    /\ endpoint' = IF met THEN None ELSE endpoint
    /\ signals' = IF met THEN Append(signals, "not connected") ELSE signals
    /\ UNCHANGED <<mode, active, live, log, made, control, jobs, stops,
                   closing, joinPending, outcome, capture, moves, late>>
-------------------------------------------------------------------------------
\* The program ends and starts again: restore_replication.
Restart ==
    /\ faults < MaxFaults /\ faults' = faults + 1
    /\ ctl' = mode /\ joining' = None /\ restoreAfterStop' = FALSE
    /\ cloud' = (mode = "centralized") /\ restored' = cloud'
    /\ signals' = <<>> /\ stops' = 0 /\ closing' = 0 /\ endpoint' = None
    /\ jobs' = IF mode = "iroh" THEN <<NewJob("start", active)>> ELSE <<>>
    /\ joinPending' = FALSE /\ outcome' = "none" /\ capture' = None
    /\ UNCHANGED <<store, moves, late>>

Gui == NotConnected \/ Joined \/ Failure
LoopStep ==
    \/ BeginJob \/ BindEndpoint \/ JobFails \/ JoinReports \/ CompleteJoin
    \/ Unwind \/ StopBegins \/ StopEnds

Next ==
    \/ MakeEdit \/ CaptureReads \/ CaptureCommits
    \/ Gui \/ LoopStep \/ LeaveRoom \/ CancelRefused \/ SyncTimer \/ Restart
    \/ \E m \in Mode : ChangeMode(m) \/ CancelByMode(m)
    \/ \E r \in Room :
          \/ CreateRoom(r) \/ JoinRoom(r) \/ JoinUnstarted(r)
          \/ GenesisArrives(r)
          \/ \E met \in BOOLEAN : ConflictArrives(r, met)

\* Both event loops go on; opening, dialling and exchanging end or time out;
\* the sync timer keeps firing, and some sync is answered.
Fairness ==
    /\ WF_vars(Gui) /\ WF_vars(SyncTimer) /\ WF_vars(CaptureCommits)
    /\ WF_vars(StopBegins) /\ WF_vars(StopEnds)
    /\ WF_vars(BeginJob \/ BindEndpoint \/ JoinReports \/ CompleteJoin \/ Unwind)

Spec == Init /\ [][Next]_vars /\ Fairness
-------------------------------------------------------------------------------

\* The workspace of a home: the live one, or the one saved for it.
HomeWorkspace(home) ==
    IF active = home THEN live
    ELSE IF home = None THEN row[active].ret ELSE row[home].ws

\* Leaving restores the state from before the room: an edit made outside of
\* rooms stays in the workspace outside of rooms, and one made in a room in
\* that room, queued or in its log, whatever is entered, left, joined,
\* cancelled or restarted afterwards.
EditsAtHome ==
    \A home \in {None} \cup Rooms :
        LET mine == {e \in made : e.home = home}
            kept == HomeWorkspace(home).pending
        IN  IF home = None THEN kept = mine
            ELSE kept \cup log[home] = mine /\ kept \cap log[home] = {}

\* Coming back to a room, or leaving it, the numbering goes on where it
\* stopped: a number of the device is never used twice in one log, so no edit
\* is refused for it.
NumbersFresh ==
    \A e \in made : e.n <= HomeWorkspace(e.home).seq

\* A join ends, activated or not, in whatever order the signals arrive.
JoinSettles == joining # None ~> joining = None

\* With the central route chosen and no join going on, the cloud's revision
\* stream comes on: at once, when the endpoint of the room that was left is
\* closed, or with the next periodic sync after a join was given up for a
\* change that was then refused.  The sync timer alone does not bring it: a
\* program started outside of the central route has no session before the
\* first restore.
CloudReturns ==
    (ctl = "centralized" /\ joining = None)
        ~> (cloud \/ ctl # "centralized" \/ joining # None)
===============================================================================
