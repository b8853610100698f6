---------------------------- MODULE BreakScheduler ----------------------------
(***************************************************************************)
(* The timer actions of one device and the break it starts by itself when *)
(* a focus timer is finished: the command queue, the selected phase and   *)
(* the rows with which the store remembers what it did ahead of the       *)
(* service's answer, so that the answer can confirm or undo it.           *)
(*                                                                         *)
(* The window, the terminal program and the command line share the store  *)
(* and the window may hold an older view of the timer.  Another device of *)
(* the same account works at the service, which may refuse a finish.  The *)
(* reduction of commands to a timer and a history, and the rebase of the  *)
(* queue, are the shared core's (external): they are modelled from the    *)
(* inputs and outputs that the store checks and the tests fix.            *)
(***************************************************************************)
EXTENDS Integers, FiniteSets, SequencesExt

CONSTANTS
    MaxCommands,    \* commands this device queues
    MaxForeign,     \* commands of the other device
    MaxChoices,     \* explicit phase choices and changes of the setting
    LongEvery       \* every LongEvery-th completed focus earns a long break

ASSUME BoundsAssumption ==
    /\ MaxCommands \in Nat \ {0}
    /\ MaxForeign \in Nat
    /\ MaxChoices \in Nat
    /\ LongEvery \in Nat \ {0}

VARIABLES
    queue,      \* pending_commands by device sequence
    sequence,   \* deviceSequence
    fresh,      \* queued commands with proof of no delivery and a covering clock
    headKnown,  \* the canonical head is recorded: a first answer was installed
    selected,   \* settings.selectedPhase
    version,    \* selectedPhaseVersion
    autoStart,  \* settings.autoStartBreaks as projected
    toggle,     \* its pending operation: "none", "new", "overtaken" or "claimed"
    owner,      \* centralizedTimerOwnership: the timer this device started last
    advances,   \* pending_phase_advances
    triggers,   \* pending_auto_breaks, oldest first
    starts,     \* pending_auto_break_starts
    canon,      \* the installed snapshot: canonical timer and history
    claim,      \* pendingSync, and how the service answered it
    server,     \* the timer and the history at the service
    foreign,    \* commands the other device has sent
    expired,    \* timers whose planned time is over
    shown,      \* the timer the window has loaded
    chosen,     \* history variable: the selected phase is an explicit choice
    movedOn,    \* history variable: finishes the user has followed with an act
    born        \* history variable: generated breaks, [finish, timer, start]

rows == <<advances, triggers, starts>>
settings == <<selected, version, autoStart, toggle>>
ghosts == <<chosen, movedOn, born>>
service == <<server, foreign>>
vars == <<queue, sequence, fresh, headKnown, settings, owner, rows, canon, claim,
          service, expired, shown, ghosts>>

Phases == {"focus", "short_break", "long_break"}
Nothing == 0
NoTimer == [id |-> Nothing, phase |-> "focus", status |-> "none", by |-> Nothing]
NoClaim == [state |-> "none", ids |-> {}, refused |-> {}, toggle |-> FALSE]
Terminal == {"completed", "cancelled"}

-------------------------------------------------------------------------------
\* Commands and what they make of a timer and its history.  A command's id is
\* its device sequence; a timer is named by the command that started it.

Start(id, phase, dep) ==
    [id |-> id, type |-> "start", timer |-> id, phase |-> phase, dep |-> dep]
Act(id, type, timer, dep) ==
    [id |-> id, type |-> type, timer |-> timer.id, phase |-> timer.phase, dep |-> dep]

Item(timer, status, by) ==
    [timer |-> timer.id, phase |-> timer.phase, status |-> status, by |-> by]

Recorded(history, id) == \E i \in DOMAIN history : history[i].timer = id
Without(history, id) == SelectSeq(history, LAMBDA item : item.timer # id)

\* The active timer gives way to the timer of another command.
GiveWay(s, c) ==
    IF s.timer.status = "running" /\ s.timer.id # c.timer
    THEN Append(s.history, Item(s.timer, "superseded", c.id))
    ELSE s.history

Ending == [finish |-> "completed", cancel |-> "cancelled"]

\* A start always takes over; the other commands reach a known timer only,
\* and a finish or a cancel reaches it even when it is over.
Reduce(s, c) ==
    IF c.type = "start"
    THEN [timer |-> [id |-> c.timer, phase |-> c.phase, status |-> "running", by |-> c.id],
          history |-> GiveWay(s, c)]
    ELSE IF s.timer.id # c.timer /\ ~Recorded(s.history, c.timer) THEN s
    ELSE IF c.type = "clear"
    THEN IF s.timer.id = c.timer THEN [s EXCEPT !.timer = NoTimer] ELSE s
    ELSE LET ended == [id |-> c.timer, phase |-> c.phase, status |-> Ending[c.type], by |-> c.id]
         IN [timer |-> ended,
             history |-> Append(Without(GiveWay(s, c), c.timer), Item(ended, ended.status, c.id))]

\* The base leaves out a timer that the history already records.
Project(base, commands) ==
    FoldLeft(Reduce,
             [base EXCEPT !.timer = IF Recorded(base.history, base.timer.id)
                                    THEN NoTimer ELSE base.timer],
             commands)

CompletedBy(history, timer, finish) ==
    \E i \in DOMAIN history :
        /\ history[i].timer = timer
        /\ history[i].by = finish
        /\ history[i].status = "completed"

FocusDone(history) ==
    Cardinality({i \in DOMAIN history : history[i].phase = "focus" /\ history[i].status = "completed"})

BreakAfter(history) ==
    IF FocusDone(history) > 0 /\ FocusDone(history) % LongEvery = 0
    THEN "long_break" ELSE "short_break"
PhaseAfter(phase, history) == IF phase = "focus" THEN BreakAfter(history) ELSE "focus"

-------------------------------------------------------------------------------
\* What the store projects and the window presents.

IdsOf(q) == {q[i].id : i \in DOMAIN q}

\* Once a head is known, commands that may have been delivered hide the queue.
Visible(q, proof, known) == IF known /\ ~(IdsOf(q) \subseteq proof) THEN <<>> ELSE q

Projected == Project(canon, Visible(queue, fresh, headKnown)).timer
Elapsed(timer) == timer.status = "running" /\ timer.id \in expired
Active(timer) == timer.status = "running" /\ timer.id \notin expired

Presents(base, q, proof, known) ==
    LET projected == Project(base, Visible(q, proof, known)).timer
        cleared == \E c \in Range(Visible(q, proof, known)) :
                        c.type = "clear" /\ c.timer = base.timer.id
    IN IF projected # NoTimer THEN projected
       ELSE IF /\ base.timer.status \in Terminal
               /\ Recorded(base.history, base.timer.id)
               /\ ~cleared
            THEN base.timer ELSE NoTimer

Loaded == shown' = Presents(canon', queue', fresh', headKnown')

-------------------------------------------------------------------------------
Init ==
    /\ queue = <<>> /\ sequence = 0 /\ fresh = {} /\ headKnown = FALSE
    /\ selected = "focus" /\ version = 0 /\ autoStart = TRUE /\ toggle = "none"
    /\ owner = Nothing
    /\ advances = {} /\ triggers = <<>> /\ starts = {}
    /\ canon = [timer |-> NoTimer, history |-> <<>>]
    /\ claim = NoClaim
    /\ server = canon /\ foreign = 0
    /\ expired = {}
    /\ shown = NoTimer
    /\ chosen = FALSE /\ movedOn = {} /\ born = {}

-------------------------------------------------------------------------------
\* Local transactions.

Views == {"window", "terminal"}
ViewOf(who) == IF who = "window" THEN shown ELSE Projected
Refreshed(who) == IF who = "window" THEN Loaded ELSE UNCHANGED shown

\* Mutant: only a generated start waits for the finish.
NotInherited(timer) == Nothing

\* What is done with a held break waits with it.
Inherited(timer) ==
    LET held == {c \in Range(queue) : c.dep # Nothing /\ c.timer = timer}
    IN IF held = {} THEN Nothing ELSE (CHOOSE c \in held : TRUE).dep

\* The projection shows the focus timer completed by exactly this finish.
HasSource(s, timer, finish) ==
    /\ s.timer.id = timer /\ s.timer.phase = "focus" /\ s.timer.status = "completed"
    /\ CompletedBy(s.history, timer, finish)

Enqueue(commands) ==
    /\ sequence + Len(commands) <= MaxCommands
    /\ queue' = queue \o commands
    /\ sequence' = sequence + Len(commands)
    /\ fresh' = fresh \cup IdsOf(commands)

\* The setting a finish is asked with: an operation that turned it off is hidden
\* like a queue once a head is known, and the canonical setting shows.
AutoStartProjected == autoStart \/ (headKnown /\ toggle \in {"claimed", "overtaken"})

\* The user has gone on: no finish that still waits for its break should get one.
MovesOn == movedOn' = movedOn \cup {t.finish : t \in Range(triggers)}

QueueFinish(timer, generate) ==
    LET finish == Act(sequence + 1, "finish", timer, Inherited(timer.id))
        after == Project(canon, Append(queue, finish))
        mine == timer.phase = "focus" /\ owner = timer.id
        break == Start(sequence + 2, BreakAfter(after.history), finish.id)
        advanced == PhaseAfter(timer.phase, after.history)
        pair == generate /\ mine /\ AutoStartProjected
    IN /\ pair => HasSource(after, timer.id, finish.id)
       /\ Enqueue(IF pair THEN <<finish, break>> ELSE <<finish>>)
       /\ selected' = advanced
       /\ advances' = advances \cup
              {[finish |-> finish.id, timer |-> timer.id, source |-> timer.phase,
                advanced |-> advanced, version |-> version]}
       /\ triggers' = IF mine /\ autoStart /\ ~pair
                      THEN Append(triggers, [finish |-> finish.id, timer |-> timer.id])
                      ELSE triggers
       /\ starts' = IF pair
                    THEN starts \cup {[finish |-> finish.id, timer |-> timer.id,
                                       start |-> break.id, version |-> version]}
                    ELSE starts
       /\ owner' = IF pair THEN break.id ELSE owner
       /\ born' = IF pair
                  THEN born \cup {[finish |-> finish.id, timer |-> timer.id, start |-> break.id]}
                  ELSE born
       /\ chosen' = FALSE
       /\ UNCHANGED <<headKnown, version, autoStart, toggle, canon, claim, service, expired, movedOn>>

StartTimer(who) ==
    /\ ViewOf(who).status = "none"
    /\ Enqueue(<<Start(sequence + 1, selected, Nothing)>>)
    /\ owner' = sequence + 1
    /\ MovesOn
    /\ UNCHANGED <<headKnown, settings, rows, canon, claim, service, expired, chosen, born>>
    /\ Refreshed(who)

\* The terminal reserves the break with the finish, the window leaves a trigger.
FinishTimer(who) ==
    /\ ViewOf(who).status = "running"
    /\ QueueFinish(ViewOf(who), who = "terminal")
    /\ Refreshed(who)

\* policy.command_eligible: the projected timer ran out and was started here.
AutomaticFinishDue == Elapsed(Projected) /\ owner = Projected.id

AutomaticFinish(who) ==
    /\ Elapsed(ViewOf(who))
    /\ AutomaticFinishDue
    /\ QueueFinish(Projected, who = "terminal")
    /\ Refreshed(who)

\* The window's view must be the stored timer, or one that the history keeps.
Retained(view) == queue = <<>> /\ Recorded(canon.history, view.id)

CancelTimer(who) ==
    LET view == ViewOf(who) IN
    /\ Active(view)
    /\ view = Projected
    /\ Enqueue(<<Act(sequence + 1, "cancel", view, Inherited(view.id)),
                 Act(sequence + 2, "clear", view, Inherited(view.id))>>)
    /\ MovesOn
    /\ UNCHANGED <<headKnown, settings, owner, rows, canon, claim, service, expired, chosen, born>>
    /\ Refreshed(who)

RestartTimer(who) ==
    LET view == ViewOf(who) IN
    /\ view.status \in Terminal
    /\ view = Projected \/ Retained(view)
    /\ Enqueue(<<Act(sequence + 1, "clear", view, Inherited(view.id)),
                 Start(sequence + 2, selected, Nothing)>>)
    /\ owner' = sequence + 2
    /\ MovesOn
    /\ UNCHANGED <<headKnown, settings, rows, canon, claim, service, expired, chosen, born>>
    /\ Refreshed(who)

DismissTimer ==
    /\ Projected.status \in Terminal
    /\ Enqueue(<<Act(sequence + 1, "clear", Projected, Inherited(Projected.id))>>)
    /\ MovesOn
    /\ UNCHANGED <<headKnown, settings, owner, rows, canon, claim, service, expired, shown, chosen, born>>

ChoicesMade == version + (IF autoStart THEN 0 ELSE 1)

ChoosePhase(phase) ==
    /\ ChoicesMade < MaxChoices
    /\ selected' = phase
    /\ version' = version + 1
    /\ chosen' = TRUE
    /\ UNCHANGED <<queue, sequence, fresh, headKnown, autoStart, toggle, owner, rows, canon, claim,
                   service, expired, shown, movedOn, born>>

SetAutoStart ==
    /\ autoStart
    /\ ChoicesMade < MaxChoices
    /\ autoStart' = FALSE
    /\ toggle' = "new"
    /\ UNCHANGED <<queue, sequence, fresh, headKnown, selected, version, owner, rows, canon, claim,
                   service, expired, ghosts>>
    /\ Loaded

Expire(id) ==
    /\ expired' = expired \cup {id}
    /\ UNCHANGED <<queue, sequence, fresh, headKnown, settings, owner, rows, canon, claim, service,
                   shown, ghosts>>

\* The window reads the store again: at a start of the program, on an elapsed timer.
LoadState ==
    /\ UNCHANGED <<queue, sequence, fresh, headKnown, settings, owner, rows, canon, claim, service,
                   expired, ghosts>>
    /\ Loaded

-------------------------------------------------------------------------------
\* process_auto_break: the oldest trigger that the user has not passed.

\* Mutant: only a later command of the same timer passes a trigger.
LaterCommandOfTimer(t) ==
    \E c \in Range(queue) : c.id > t.finish /\ c.type # "finish" /\ c.timer = t.timer

LaterCommand(t) ==
    \E c \in Range(queue) : c.id > t.finish /\ ~(c.type = "finish" /\ c.timer = t.timer)

\* Discarding a trigger discards every trigger of its timer.
Waiting ==
    LET Examine(acc, t) ==
          IF acc.stop \/ t.timer \in acc.passed THEN acc
          ELSE IF LaterCommand(t) THEN [acc EXCEPT !.passed = @ \cup {t.timer}]
          ELSE [acc EXCEPT !.stop = TRUE]
        passed == FoldLeft(Examine, [stop |-> FALSE, passed |-> {}], triggers).passed
    IN SelectSeq(triggers, LAMBDA t : t.timer \notin passed)

Discard(waiting, timer) == SelectSeq(waiting, LAMBDA t : t.timer # timer)

Pending(id) == id \in IdsOf(queue)
Accepted(t) == ~Pending(t.finish) /\ HasSource(canon, t.timer, t.finish)
Eligible(t, canonical) ==
    HasSource(IF canonical \/ Accepted(t) THEN canon ELSE Project(canon, queue), t.timer, t.finish)

\* The trigger may be used now: nothing it waits for is still on its way.
Ready(t, canonical) ==
    /\ canonical => ~Pending(t.finish) /\ toggle = "none"
    /\ Eligible(t, canonical)

StartBreak(t, canonical) ==
    LET history == (IF canonical \/ Accepted(t) THEN canon ELSE Project(canon, queue)).history
        held == ~canonical /\ ~Accepted(t)
        break == Start(sequence + 1, BreakAfter(history), IF held THEN t.finish ELSE Nothing)
    IN /\ Enqueue(<<break>>)
       /\ selected' = break.phase
       /\ owner' = break.id
       /\ triggers' = Discard(Waiting, t.timer)
       /\ starts' = IF held
                    THEN starts \cup {[finish |-> t.finish, timer |-> t.timer,
                                       start |-> break.id, version |-> version]}
                    ELSE starts
       /\ born' = born \cup {[finish |-> t.finish, timer |-> t.timer, start |-> break.id]}
       /\ chosen' = FALSE
       /\ UNCHANGED <<advances, movedOn>>

ProcessAutoBreak(canonical, who) ==
    /\ triggers # <<>>
    /\ UNCHANGED <<headKnown, version, autoStart, toggle, canon, claim, service, expired>>
    /\ IF Waiting # <<>> /\ Ready(Head(Waiting), canonical)
       THEN StartBreak(Head(Waiting), canonical) /\ Refreshed(who)
       ELSE /\ triggers' = Waiting
            /\ UNCHANGED <<queue, sequence, fresh, selected, owner, advances, starts, shown, ghosts>>

-------------------------------------------------------------------------------
\* Synchronization.

\* Mutant: the queue is sent whole.
SendsHeldBreak == queue

\* The dependencies go to the planner, which takes the prefix before the first
\* held command: what follows a held break waits behind it.
Sendable ==
    LET barrier == SelectInSeq(queue, LAMBDA c : c.dep # Nothing)
    IN IF barrier = 0 THEN queue ELSE SubSeq(queue, 1, barrier - 1)

\* sync_payload: the request is kept until it is answered and repeated verbatim.
SyncPayload ==
    /\ claim.state = "none"
    /\ Sendable # <<>> \/ toggle # "none" \/ server # canon    \* or a poll with news
    /\ claim' = [state |-> "sent", ids |-> IdsOf(Sendable), refused |-> {}, toggle |-> toggle # "none"]
    /\ fresh' = fresh \ IdsOf(Sendable)
    /\ toggle' = IF toggle # "none" THEN "claimed" ELSE toggle
    /\ UNCHANGED <<queue, sequence, headKnown, selected, version, autoStart, owner, rows, canon,
                   service, expired, shown, ghosts>>

\* The service applies the commands in order; it may refuse a finish.
Serve(refused) ==
    /\ claim.state = "sent"
    /\ refused \subseteq {c.id : c \in {d \in Range(queue) : d.id \in claim.ids /\ d.type = "finish"}}
    /\ server' = FoldLeft(Reduce, server,
                          SelectSeq(queue, LAMBDA c : c.id \in claim.ids \ refused))
    /\ claim' = [claim EXCEPT !.state = "answered", !.refused = refused]
    /\ UNCHANGED <<queue, sequence, fresh, headKnown, settings, owner, rows, canon, foreign, expired,
                   shown, ghosts>>

\* The other device starts, finishes or clears a timer of its own accord.
ForeignCommand(type) ==
    /\ foreign < MaxForeign
    /\ LET id == MaxCommands + foreign + 1 IN
       server' = Reduce(server, IF type = "start" THEN Start(id, "focus", Nothing)
                                ELSE Act(id, type, server.timer, Nothing))
    /\ type = "finish" => server.timer.status = "running"
    /\ type = "clear" => server.timer.status \in Terminal
    /\ foreign' = foreign + 1
    /\ UNCHANGED <<queue, sequence, fresh, headKnown, settings, owner, rows, canon, claim, expired,
                   shown, ghosts>>

\* The answer holds the completion by this finish, in its history or its timer.
ExactCompletion(row) ==
    \/ CompletedBy(server.history, row.timer, row.finish)
    \/ server.timer = [id |-> row.timer, phase |-> row.source, status |-> "completed", by |-> row.finish]

\* Mutant: the version of the choice is not compared.
RestoredByPhase(undone) ==
    LET Restore(phase, row) == IF phase = row.advanced THEN row.source ELSE phase
    IN FoldLeft(Restore, selected, SetToSortSeq(undone, LAMBDA r, s : r.finish < s.finish))

\* Advances that the answer or a discard undoes, in the order they were made.
RestoredPhase(undone) ==
    LET Restore(phase, row) ==
          IF phase = row.advanced /\ version = row.version THEN row.source ELSE phase
    IN FoldLeft(Restore, selected, SetToSortSeq(undone, LAMBDA r, s : r.finish < s.finish))

ReconciledTriggers(acknowledged, refused) ==
    SelectSeq(triggers,
        LAMBDA t : (t.finish \in acknowledged /\ t.finish \notin {r.finish : r \in starts})
                   => t.finish \notin refused /\ HasSource(server, t.timer, t.finish))

Settled(acknowledged) == {r \in starts : r.finish \in acknowledged}

\* The held break goes ahead when the focus it follows was completed by its
\* finish and no other timer has taken the place since.
Promoted(row) ==
    /\ CompletedBy(server.history, row.timer, row.finish)
    /\ server.timer.id \in {Nothing, row.timer}

\* reconcile.rebase.v2: answered commands leave, a settled break and the
\* commands on it are released with their canonical phase or dropped.
Rebased(acknowledged) ==
    LET settled == Settled(acknowledged)
        promoted == {r.finish : r \in {s \in settled : Promoted(s)}}
        dropped == {r.finish : r \in settled} \ promoted
        Release(c) == IF c.dep \in promoted
                      THEN [c EXCEPT !.dep = Nothing, !.phase = BreakAfter(server.history)]
                      ELSE c
        retained == SelectSeq(queue, LAMBDA c : c.id \notin acknowledged /\ c.dep \notin dropped)
    IN [i \in DOMAIN retained |-> Release(retained[i])]

CommandOf(id) == CHOOSE c \in Range(queue) : c.id = id

SettledPhase(phase, settled) ==
    LET Settle(p, row) ==
          IF p # CommandOf(row.start).phase \/ version # row.version THEN p
          ELSE IF Promoted(row) THEN BreakAfter(server.history) ELSE "focus"
    IN FoldLeft(Settle, phase, SetToSortSeq(settled, LAMBDA r, s : r.finish < s.finish))

Completions(history) == SelectSeq(history, LAMBDA item : item.status = "completed")

\* With nothing of its own under way, the device follows a new completion.
FollowedPhase(phase, retained, rowsLeft, pendingToggle, previous) ==
    LET done == Completions(server.history) IN
    IF \/ server.timer.status = "running"
       \/ rowsLeft # {}
       \/ \E c \in Range(retained) : c.dep = Nothing
       \/ pendingToggle # "none"
       \/ done = <<>>
       \/ Last(done) \in Range(previous)
       \/ Last(done).phase # phase
    THEN phase ELSE PhaseAfter(phase, server.history)

\* _clear_stale_timer_ownership: neither the canonical timer nor one whose start
\* is retained is the one this device started last.
OwnerLeft(retained) ==
    IF owner \in {server.timer.id} \cup {c.timer : c \in {d \in Range(retained) : d.type = "start"}}
    THEN owner ELSE Nothing

\* apply_sync: installed in one transaction.  The head of the service may have
\* overtaken the clocks of what stays queued.
ApplySync(overtaken) ==
    LET acknowledged == claim.ids
        undone == {r \in advances : r.finish \in claim.refused /\ ~ExactCompletion(r)}
        settled == Settled(acknowledged)
        retained == Rebased(acknowledged)
    IN
    /\ claim.state = "answered"
    /\ overtaken => retained # <<>>
    /\ queue' = retained
    /\ fresh' = IF overtaken THEN {} ELSE fresh \cap IdsOf(retained)
    /\ headKnown' = TRUE
    /\ toggle' \in IF claim.toggle \/ toggle = "none" THEN {"none"} ELSE {toggle, "overtaken"}
    /\ owner' = OwnerLeft(retained)
    /\ advances' = {r \in advances : r.finish \notin acknowledged}
    /\ triggers' = SelectSeq(ReconciledTriggers(acknowledged, claim.refused),
                             LAMBDA t : t.finish \notin {r.finish : r \in settled})
    /\ starts' = starts \ settled
    /\ selected' = FollowedPhase(SettledPhase(RestoredPhase(undone), settled), retained,
                                 advances', toggle', canon.history)
    /\ canon' = server
    /\ claim' = NoClaim
    /\ UNCHANGED <<sequence, version, autoStart, service, expired, ghosts>>
    /\ Loaded

\* A history resolution that keeps the service's state discards the queue.
KeepRemote ==
    LET undone == {r \in advances : ~ExactCompletion(r)} IN
    /\ queue # <<>>
    /\ queue' = <<>> /\ fresh' = {} /\ headKnown' = TRUE /\ toggle' = "none"
    /\ advances' = {} /\ triggers' = <<>> /\ starts' = {}
    /\ selected' = FollowedPhase(RestoredPhase(undone), <<>>, {}, "none", <<>>)
    /\ autoStart' = (autoStart \/ (toggle # "none" /\ ~(claim.toggle /\ claim.state = "answered")))
    /\ owner' = OwnerLeft(<<>>)
    /\ canon' = server
    /\ claim' = NoClaim
    /\ UNCHANGED <<sequence, version, service, expired, ghosts>>
    /\ Loaded

-------------------------------------------------------------------------------
Next ==
    \/ \E who \in Views : StartTimer(who)
    \/ \E who \in Views : FinishTimer(who)
    \/ \E who \in Views : AutomaticFinish(who)
    \/ \E who \in Views : CancelTimer(who)
    \/ \E who \in Views : RestartTimer(who)
    \/ DismissTimer
    \/ \E phase \in Phases : ChoosePhase(phase)
    \/ SetAutoStart
    \/ \E id \in {Projected.id, canon.timer.id} \ (expired \cup {Nothing}) : Expire(id)
    \/ LoadState
    \/ \E canonical \in BOOLEAN, who \in Views : ProcessAutoBreak(canonical, who)
    \/ SyncPayload
    \/ \E refused \in SUBSET claim.ids : Serve(refused)
    \/ \E type \in {"start", "finish", "clear"} : ForeignCommand(type)
    \/ \E overtaken \in BOOLEAN : ApplySync(overtaken)
    \/ KeepRemote

Spec == Init /\ [][Next]_vars

-------------------------------------------------------------------------------

\* A generated break that leaves the queue without having been sent takes along
\* whatever the window or the terminal did with it meanwhile: no act is left
\* that would go to the service for a timer the service never hears of.
DroppedBreakGoesWhole ==
    [][\A b \in born :
          Pending(b.start) /\ ~Pending(b.start)' /\ b.start \notin claim.ids
            => b.start \notin {c.timer : c \in Range(queue')}]_vars

\* Once the user has gone on after a finish - started, cancelled or dismissed a
\* timer - the trigger of that finish never starts a break, not even when the
\* later commands were answered and left the queue.
PassedFinishGetsNoBreak == [][\A b \in born' \ born : b.finish \notin movedOn]_vars

\* A generated break takes the place of the timer at the service only when the
\* focus it follows is recorded as completed there, whatever was refused, lost
\* or done by the other device meanwhile.
BreakFollowsCompletedFocus ==
    [][\A b \in born : server'.timer.id = b.start /\ server.timer.id # b.start
          => \E i \in DOMAIN server'.history :
                /\ server'.history[i].timer = b.timer
                /\ server'.history[i].status = "completed"]_vars

NewCompletion(phase) ==
    \E i \in DOMAIN canon'.history :
        /\ canon'.history[i].status = "completed" /\ canon'.history[i].phase = phase
        /\ canon'.history[i] \notin Range(canon.history)

\* An answer never undoes a phase the user chose after the last finish: only a
\* completion of the chosen phase that is news to this device moves it on.
ChoiceStands ==
    [][chosen /\ canon' # canon /\ ~KeepRemote
        => selected' = selected \/ NewCompletion(selected)]_vars

===============================================================================
