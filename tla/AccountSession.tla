---------------------------- MODULE AccountSession ----------------------------
(***************************************************************************)
(* One workspace, the accounts a user signs in to, and the histories those *)
(* accounts have in the cloud: AccountResolutionController and             *)
(* SynchronizationController between CloudService and the store.           *)
(*                                                                         *)
(* Covered: sign-in, the quarantine of another account's workspace, the    *)
(* history resolution with its dialogs, normal syncs, retries, conflicts,  *)
(* expiry, sign-out with its refusals, a crash at any point, and the       *)
(* worker that a sign-out leaves running, which may send what it carries   *)
(* with the tokens of a later session.                                     *)
(* Not covered: account deletion (AccountDeletion), rooms (RoomWorkspaces),*)
(* the refresh of tokens (CloudSession), batches and their limits          *)
(* (DeliveryStore), corrupt metadata.                                      *)
(*                                                                         *)
(* Signals of CloudService are direct calls on the GUI thread, so what a   *)
(* handler calls in turn is part of its step: handlers are functions from  *)
(* the state of the device to its next state.  A dialog runs an event loop *)
(* of its own: while one is open, results and timers go on being delivered.*)
(***************************************************************************)
EXTENDS Naturals, Sequences, SequencesExt

CONSTANTS Accounts,     \* accounts the user may sign in to
          None,
          MaxEdits,     \* edits made on this device
          MaxRevision   \* revision up to which another device adds history

VARIABLES
    cloud,      \* per account: its history in the service
    app,        \* the device: workspace, session, controllers
    whose,      \* whose work each edit is: its account, None while anonymous
    left,       \* the account of the last sign-out, until the next sign-in
    given,      \* history and edits a choice in the prompt gives up
    late,       \* a worker that outlives the session it was started in, or None
    astray      \* which edits it has sent in the session of which other account

loose == <<late, astray>>
vars == <<cloud, app, whose, left, given, loose>>

Users == Accounts \cup {None}
Edits == 1..MaxEdits
Strategies == {"keep_remote", "replace_remote", "merge"}

\* The jobs of a worker that syncs.
Syncs == [kind : {"sync"}, body : [user : Users, edits : SUBSET Edits],
          answered : BOOLEAN]

\* None is no account, no stage, no set of edits and no job; the name of an
\* account, which also stands for the history that other devices make in it, is no edit.
ASSUME NoneAssumption ==
    /\ None \notin Accounts /\ None \notin {"reset", "credentials"}
    /\ None \notin Syncs
    /\ \A edits \in SUBSET Edits : edits # None
ASSUME NameAssumption == Accounts \cap Edits = {}
ASSUME BoundAssumption == MaxEdits \in Nat /\ MaxRevision \in Nat

Memory ==
    [auth |-> FALSE, worker |-> None, again |-> FALSE,
     active |-> FALSE, user |-> None, phase |-> None, preview |-> None,
     known |-> FALSE, paused |-> FALSE, retry |-> FALSE,
     switch |-> None, out |-> None, request |-> None, waiting |-> FALSE,
     synced |-> FALSE, dialogs |-> <<>>]

\* A workspace without account data: snapshot, queues, both saved requests.
Blank == [owner |-> None, rev |-> 0, seen |-> {}, queue |-> {},
          batch |-> None, saved |-> None]

\* A device of which these parts are as they say, whatever they were.
With(part, s) ==
    [f \in DOMAIN part \cup DOMAIN s |-> IF f \in DOMAIN part THEN part[f] ELSE s[f]]

Init ==
    /\ cloud = [a \in Accounts |-> [rev |-> 0, items |-> {}, done |-> None]]
    /\ app = With(Memory, With(Blank, [tokens |-> None]))
    /\ whose = <<>> /\ left = None /\ given = {}
    /\ late = None /\ astray = {}

-----------------------------------------------------------------------------
(* The controllers *)

Work(kind, body) == [kind |-> kind, body |-> body, answered |-> FALSE]

\* _begin_history_resolution_value
Begun(s, user, phase, paused) ==
    [s EXCEPT !.active = TRUE, !.user = user, !.phase = phase,
              !.preview = None, !.known = FALSE, !.paused = paused]

\* _clear_history_resolution_value
Cleared(s) ==
    [s EXCEPT !.active = FALSE, !.user = None, !.phase = None,
              !.preview = None, !.known = FALSE, !.paused = FALSE]

\* activate_persisted_resolution
Activated(s) ==
    IF s.saved = None THEN s ELSE Begun(s, s.saved.user, "resolve", FALSE)

Proceeds(s) ==
    /\ s.active /\ ~s.paused /\ s.user # None
    /\ s.out = None /\ s.switch = None /\ s.auth

\* continue_history_resolution
Continue(s) ==
    IF ~Proceeds(s) THEN s
    ELSE IF s.worker # None THEN [s EXCEPT !.retry = TRUE]
    ELSE IF s.phase = "resolve" /\ s.saved # None /\ s.saved.user = s.user
    THEN [s EXCEPT !.known = TRUE, !.worker = Work("resolve", s.saved)]
    ELSE IF s.phase \in {"resolve", "preview"}
    THEN [s EXCEPT !.phase = "preview", !.worker = Work("preview", None)]
    ELSE s

\* sync_payload: the saved claim again, or a new one.
Claimed(s) ==
    LET edits == IF s.batch = None THEN s.queue ELSE s.batch
    IN  [s EXCEPT !.batch = edits, !.synced = @ /\ edits = {}]

\* Mutant of Synchronize: a resolution under way does not hold syncs back.
SynchronizeUnresolved(s) ==
    LET t == Claimed(s)
    IN  IF ~s.auth THEN s
        ELSE IF t.worker # None THEN [t EXCEPT !.waiting = TRUE]
        ELSE [t EXCEPT !.request = t.batch,
                       !.worker = Work("sync", [user |-> t.owner, edits |-> t.batch])]

\* sync(), of a window in centralized mode
Synchronize(s) ==
    LET r == IF s.active \/ s.saved = None THEN s
             ELSE [Activated(s) EXCEPT !.synced = FALSE]
        t == Claimed(r)
    IN  IF ~r.auth THEN r
        ELSE IF r.active THEN Continue(r)
        ELSE IF t.worker # None THEN [t EXCEPT !.waiting = TRUE]
        ELSE [t EXCEPT !.request = t.batch,
                       !.worker = Work("sync", [user |-> t.owner, edits |-> t.batch])]

\* cloud_failure
CloudFailure(s) == [s EXCEPT !.request = None, !.synced = @ /\ ~s.auth]

\* The account the workspace is bound to, by a saved request or by its data.
BoundTo(s) == IF s.saved # None THEN s.saved.user ELSE s.owner

\* Mutant of Quarantined: the other account is held, but not remembered.
QuarantinedUnmarked(s, user) ==
    [Begun(s, BoundTo(s), IF s.saved # None THEN "resolve" ELSE None, TRUE)
        EXCEPT !.request = None, !.synced = FALSE]

\* quarantine_account_switch
Quarantined(s, user) ==
    [Begun(s, BoundTo(s), IF s.saved # None THEN "resolve" ELSE None, TRUE)
        EXCEPT !.switch = user, !.request = None, !.synced = FALSE]

\* signed_in, accept_existing_account
SignedIn(s, user) ==
    LET r == [s EXCEPT !.switch = None, !.synced = FALSE]
    IN  IF s.out # None THEN s
        ELSE IF BoundTo(s) \notin {None, user} THEN Quarantined(s, user)
        ELSE IF s.owner # None THEN Synchronize(Cleared(r))
        ELSE Continue(Begun(r, user, IF s.saved # None THEN "resolve"
                                     ELSE "preview", FALSE))

Paused(s) == [s EXCEPT !.paused = TRUE]

\* bootstrap_ready after the decision: prepare_resolution, then go on.
Prepared(s, rev, strategy) ==
    LET fresh == [user |-> s.user, rev |-> rev, strategy |-> strategy,
                  edits |-> IF strategy = "keep_remote" THEN {} ELSE s.queue]
    IN  IF \/ s.user = None
           \/ IF s.saved # None THEN s.saved.user # s.user ELSE s.batch # None
        THEN Paused(s)
        ELSE Continue([s EXCEPT !.saved = IF @ # None THEN @ ELSE fresh,
                                !.phase = "resolve"])

\* bootstrap.plan.v1: the strategies that need no question, given which
\* sides have state.
AutoStrategies(local, remote) ==
    IF local /\ remote THEN {}
    ELSE IF local THEN {"replace_remote", "merge"} ELSE {"keep_remote"}

Decides(s) == s.out = None /\ s.active /\ s.user # None

\* bootstrap_ready: plan; prepare at once, ask the user, or give up for now.
AfterPreview(s, preview) ==
    LET r     == [s EXCEPT !.phase = "choice", !.preview = preview]
        autos == AutoStrategies(s.queue # {} \/ s.seen # {}, preview.items # {})
    IN  IF ~Decides(s) THEN {s}
        ELSE {[Paused(s) EXCEPT !.phase = "preview", !.preview = None]} \cup
             IF autos = {}
             THEN {[r EXCEPT !.dialogs = Append(@, [kind |-> "prompt",
                                                    about |-> preview])]}
             ELSE {Prepared(r, preview.rev, strategy) : strategy \in autos}

\* Mutant of Settled: an answer settles everything.
SettledAtOnce(s) == [s EXCEPT !.synced = s.auth]

\* has_sendable_sync_operations and the effects it decides
Settled(s) ==
    IF s.queue = {} THEN [s EXCEPT !.synced = s.auth]
    ELSE Synchronize([s EXCEPT !.synced = FALSE])

\* apply_sync
AppliedSync(s, c) ==
    LET r == [s EXCEPT !.request = None]
    IN  IF s.request = None THEN [r EXCEPT !.synced = FALSE]
        ELSE IF s.saved # None \/ s.batch # s.request THEN CloudFailure(r)
        ELSE Settled([r EXCEPT !.queue = @ \ s.batch, !.batch = None,
                               !.rev = c.rev, !.seen = c.items])

\* apply_resolution
AppliedResolution(s, c) ==
    IF ~Decides(s) THEN s
    ELSE IF s.saved = None \/ s.saved.user # s.user THEN Paused(s)
    ELSE Settled(Cleared(
        [s EXCEPT !.owner = s.user, !.rev = c.rev, !.seen = c.items,
                  !.queue = IF s.saved.strategy = "keep_remote" THEN {}
                            ELSE @ \ s.saved.edits,
                  !.saved = None]))

\* Mutant of AfterConflict: the refused request is kept.
AfterConflictAgain(s) == Continue([s EXCEPT !.paused = FALSE])

\* bootstrap_conflict: drop the refused request and look again.
AfterConflict(s) ==
    IF ~s.active \/ s.user = None THEN s
    ELSE IF ~s.known \/ s.saved = None THEN Paused(s)
    ELSE Continue([s EXCEPT !.saved = None, !.phase = "preview", !.known = FALSE,
                            !.preview = None, !.paused = FALSE])

\* expire_session, whose store may refuse to forget the tokens, and
\* session_expired
Expired(s, tokens) ==
    LET r == [s EXCEPT !.tokens = tokens, !.auth = FALSE, !.synced = FALSE]
    IN  IF s.out # None THEN r
        ELSE Activated(Cleared([r EXCEPT !.switch = None, !.request = None]))

\* logout up to the reset: what a worker brings is fenced, the resolution held.
Leaving(s) ==
    [Begun(s, IF s.user # None THEN s.user ELSE s.owner, None, TRUE)
        EXCEPT !.out = IF @ = None THEN "reset" ELSE @,
               !.worker = None, !.request = None, !.synced = FALSE]

\* Mutant of Scrubbed: a workspace no account owns yet needs no reset.
ScrubbedIfOwned(s) ==
    LET r == [s EXCEPT !.out = "credentials"]
    IN  IF s.out = "credentials" \/ s.switch # None \/ s.owner = None THEN r
        ELSE With(Blank, r)

\* prepare_sign_out: the reset, unless it was done, or the data is not of the
\* account that leaves.
Scrubbed(s) ==
    LET r == [s EXCEPT !.out = "credentials"]
    IN  IF s.out = "credentials" \/ s.switch # None THEN r ELSE With(Blank, r)

\* sign_out, _publish_sign_out, signed_out
SignedOut(s) ==
    Activated(Cleared([s EXCEPT !.tokens = None, !.auth = FALSE, !.out = None,
                                !.switch = None, !.synced = FALSE]))

\* The app starts again: memory is lost; the restore of the session begins.
Restarted(s) ==
    [With(Memory, s) EXCEPT !.worker = Work("restore", None)]

-----------------------------------------------------------------------------
(* The account service *)

\* What a request leaves in the history of an account.  The service knows every
\* resolution it has stored; it is asked again only about the one this device
\* keeps.
Stored(c, w) ==
    IF w.kind = "sync"
    THEN [c EXCEPT !.items = @ \cup w.body.edits,
                   !.rev = IF w.body.edits \subseteq c.items THEN @ ELSE @ + 1]
    ELSE IF w.kind # "resolve" \/ c.done = w.body \/ w.body.rev # c.rev THEN c
    ELSE LET done == IF app.saved = w.body THEN w.body ELSE c.done
         IN  IF w.body.strategy = "keep_remote" THEN [c EXCEPT !.done = done]
             ELSE [rev   |-> c.rev + 1,
                   items |-> w.body.edits \cup
                             IF w.body.strategy = "merge" THEN c.items ELSE {},
                   done  |-> done]

\* 409: the history moved on since the preview the request was made from.
Conflicts(c, w) ==
    w.kind = "resolve" /\ c.done # w.body /\ w.body.rev # c.rev

Running(kinds) ==
    /\ app.worker # None /\ ~app.worker.answered
    /\ app.worker.kind \in kinds

\* The worker's result has been delivered; its `finished` comes later.
Answered(s) == [s EXCEPT !.worker.answered = TRUE]

\* The request takes effect in the account whose tokens it carries.
Reaches(a, w) ==
    LET c == IF w = None \/ a = None THEN None ELSE Stored(cloud[a], w)
    IN  IF c = None THEN UNCHANGED <<cloud, whose>>
        ELSE /\ cloud' = [cloud EXCEPT ![a] = c]
             /\ whose' = [e \in DOMAIN whose |->
                            IF whose[e] = None /\ e \in c.items THEN a ELSE whose[e]]

\* A request whose answer is still out may have reached the service or not.
MayReach(w) ==
    \/ w # None /\ ~w.answered /\ Reaches(app.tokens, w)
    \/ UNCHANGED <<cloud, whose>>

-----------------------------------------------------------------------------
(* Results of the workers *)

Login ==
    /\ ~app.auth /\ app.worker = None /\ app.out = None /\ app.dialogs = <<>>
    /\ \E a \in Accounts : app' = [app EXCEPT !.worker = Work("login", a)]
    /\ UNCHANGED <<cloud, whose, left, given, loose>>

SignInAnswered ==
    /\ Running({"login", "restore"})
    /\ LET a == IF app.worker.kind = "login" THEN app.worker.body ELSE app.tokens
           s == [Answered(app) EXCEPT !.tokens = a, !.again = FALSE]
       IN  /\ app' = IF a = None THEN s ELSE SignedIn([s EXCEPT !.auth = TRUE], a)
           /\ left' = IF a = None THEN left ELSE None
    /\ UNCHANGED <<cloud, whose, given, loose>>

\* A login may fail after its tokens were stored; a restore is retried.
SignInFails ==
    /\ Running({"login", "restore"})
    /\ LET s == CloudFailure(Answered(app))
       IN  IF app.worker.kind = "login"
           THEN \E a \in {app.tokens, app.worker.body} :
                    app' = [s EXCEPT !.tokens = a]
           ELSE app' = [s EXCEPT !.again = TRUE, !.auth = FALSE]
    /\ UNCHANGED <<cloud, whose, left, given, loose>>

\* _retry_restore, or the last retry was used up.
RestoreRetry ==
    /\ app.again
    /\ \/ /\ app.worker = None /\ ~app.auth /\ app.out = None
          /\ app' = [app EXCEPT !.again = FALSE, !.worker = Work("restore", None)]
       \/ app' = [app EXCEPT !.again = FALSE]
    /\ UNCHANGED <<cloud, whose, left, given, loose>>

SyncAnswered ==
    /\ Running({"sync"}) /\ app.tokens # None
    /\ Reaches(app.tokens, app.worker)
    /\ app' = AppliedSync(Answered(app), cloud'[app.tokens])
    /\ UNCHANGED <<left, given, loose>>

PreviewAnswered ==
    /\ Running({"preview"}) /\ app.tokens # None
    /\ app' \in AfterPreview(Answered(app),
                             [rev   |-> cloud[app.tokens].rev,
                              items |-> cloud[app.tokens].items])
    /\ given' = {}
    /\ UNCHANGED <<cloud, whose, left, loose>>

ResolveAnswered ==
    /\ Running({"resolve"}) /\ app.tokens # None
    /\ ~Conflicts(cloud[app.tokens], app.worker)
    /\ Reaches(app.tokens, app.worker)
    /\ app' = AppliedResolution(Answered(app), cloud'[app.tokens])
    /\ given' = IF app'.saved = None THEN {} ELSE given
    /\ UNCHANGED <<left, loose>>

ResolveRefused ==
    /\ Running({"resolve"}) /\ app.tokens # None
    /\ Conflicts(cloud[app.tokens], app.worker)
    /\ app' = AfterConflict(Answered(app))
    /\ UNCHANGED <<cloud, whose, left, given, loose>>

\* 401 although the tokens were refreshed: the session is over.
Unauthorized ==
    /\ Running({"restore", "sync", "preview", "resolve"}) /\ app.tokens # None
    /\ \E tokens \in {None, app.tokens} :
          app' = Expired(Answered([app EXCEPT !.again = FALSE]), tokens)
    /\ UNCHANGED <<cloud, whose, left, given, loose>>

\* The network or the service fails; the request may have been stored.
RequestFails ==
    /\ Running({"sync", "preview", "resolve"})
    /\ MayReach(app.worker)
    /\ app' = CloudFailure(Answered(app))
    /\ UNCHANGED <<left, given, loose>>

\* The store refuses the answer: a resolution is paused, a sync kept.
ApplyFails ==
    /\ Running({"sync", "resolve"}) /\ app.tokens # None
    /\ ~Conflicts(cloud[app.tokens], app.worker)
    /\ Reaches(app.tokens, app.worker)
    /\ app' = IF app.worker.kind = "sync" THEN CloudFailure(Answered(app))
              ELSE IF Decides(app) THEN Paused(Answered(app)) ELSE Answered(app)
    /\ UNCHANGED <<left, given, loose>>

\* _finished.  Bound: what the model remembers of the service goes with it: a
\* resolution that this device does not keep is not asked about again.
Finish ==
    /\ app.worker # None /\ app.worker.answered
    /\ app' = [app EXCEPT !.worker = None]
    /\ cloud' = [a \in Accounts |->
                   [cloud[a] EXCEPT !.done = IF @ = app.saved THEN @ ELSE None]]
    /\ UNCHANGED <<whose, left, given, loose>>

-----------------------------------------------------------------------------
(* Timers, the revision stream, edits *)

\* The window's sync timer, a stream that ends with 401.
Tick ==
    /\ app' = Synchronize(app)
    /\ UNCHANGED <<cloud, whose, left, given, loose>>

\* remote_revision_available
RevisionAvailable ==
    /\ app.auth /\ app.tokens # None /\ cloud[app.tokens].rev > app.rev
    /\ app' = Synchronize(app)
    /\ UNCHANGED <<cloud, whose, left, given, loose>>

\* start_revision_stream, on a reconnect, finds the credentials locked.
StreamRefused ==
    /\ app.auth /\ app.out = None
    /\ app' = CloudFailure(app)
    /\ UNCHANGED <<cloud, whose, left, given, loose>>

\* retry_sync: polls while the service is busy.
RetrySync ==
    /\ app.waiting /\ app.worker = None
    /\ app' = Synchronize([app EXCEPT !.waiting = FALSE])
    /\ UNCHANGED <<cloud, whose, left, given, loose>>

\* _retry_history_resolution_callback
RetryResolution ==
    /\ app.retry
    /\ app' = Continue([app EXCEPT !.retry = FALSE])
    /\ UNCHANGED <<cloud, whose, left, given, loose>>

\* Mutant of Guarded: only a resolution in memory blocks edits.
Unguarded(s) == s

\* _mutation_blocked: a saved request is activated before it can be missed.
Guarded(s) ==
    IF s.active \/ s.saved = None THEN s
    ELSE [Activated(s) EXCEPT !.synced = FALSE]

\* An edit by the user, or by the timer under an open dialog.
Edit ==
    /\ Len(whose) < MaxEdits
    /\ LET s == Guarded(app)
           e == Len(whose) + 1
       IN  IF s.active THEN app' = s /\ UNCHANGED whose
           ELSE /\ app' = Synchronize([s EXCEPT !.queue = @ \cup {e}])
                /\ whose' = Append(whose, s.owner)
    /\ UNCHANGED <<cloud, left, given, loose>>

\* Another device of the account adds to its history.
OtherDevice ==
    /\ \E a \in Accounts :
          /\ cloud[a].rev < MaxRevision
          /\ cloud' = [cloud EXCEPT ![a].rev = @ + 1, ![a].items = @ \cup {a}]
    /\ UNCHANGED <<app, whose, left, given, loose>>

-----------------------------------------------------------------------------
(* Dialogs and sign-out *)

Closed(s) == [s EXCEPT !.dialogs = Front(@)]
Top(kind) == app.dialogs # <<>> /\ Last(app.dialogs).kind = kind

\* account_action of a signed-in user
OpenAccount ==
    /\ app.auth /\ app.out = None /\ app.dialogs = <<>>
    /\ LET kind == IF app.switch # None THEN "switch"
                   ELSE IF app.active THEN "resolve" ELSE "signout"
       IN  app' = [app EXCEPT !.dialogs = <<[kind |-> kind, about |-> None]>>]
    /\ UNCHANGED <<cloud, whose, left, given, loose>>

Cancel ==
    /\ app.dialogs # <<>>
    /\ app' = IF Top("prompt") THEN Paused(Closed(app)) ELSE Closed(app)
    /\ UNCHANGED <<cloud, whose, left, given, loose>>

\* prompt_history_resolution and its confirmation
Choose ==
    /\ Top("prompt")
    /\ LET shown == Last(app.dialogs).about
       IN  \E strategy \in Strategies :
              /\ app' = Prepared(Closed(app), shown.rev, strategy)
              /\ given' = IF strategy = "keep_remote" THEN app.queue
                          ELSE IF strategy = "merge" THEN {} ELSE shown.items
    /\ UNCHANGED <<cloud, whose, left, loose>>

\* resume_history_resolution
Resume ==
    /\ Top("resolve")
    /\ LET s == [Closed(app) EXCEPT !.paused = FALSE]
       IN  IF app.out # None \/ ~app.active
           THEN app' = Closed(app) /\ UNCHANGED given
           ELSE IF app.phase = "choice" /\ app.preview # None
           THEN app' \in AfterPreview(s, app.preview) /\ given' = {}
           ELSE app' = Continue(s) /\ UNCHANGED given
    /\ UNCHANGED <<cloud, whose, left, loose>>

\* account_action, "switch": the other account's data goes, then sign in.
Switch ==
    /\ Top("switch")
    /\ app' = SignedIn([With(Blank, Closed(app)) EXCEPT !.switch = None], app.switch)
    /\ given' = {}
    /\ UNCHANGED <<cloud, whose, left, loose>>

\* _request_sign_out: from a dialog, or again after a refusal.
AsksToLeave ==
    \/ Top("switch") \/ Top("resolve") \/ Top("signout")
    \/ app.out # None /\ app.dialogs = <<>>

\* A worker without an answer whose request takes edits to the service.
Carrying(w) ==
    /\ w # None /\ ~w.answered
    /\ w.kind \in {"sync", "resolve"} /\ w.body.edits # {}

\* The generation is raised: what the worker brings will be dropped, but the
\* worker goes on, with the tokens of its session, or before it asked for any.
\* Bound: one at a time is followed into later sessions.
LeftBehind ==
    \/ MayReach(app.worker) /\ UNCHANGED loose
    \/ /\ Carrying(app.worker) /\ late = None
       /\ late' = [job   |-> app.worker,
                   given |-> IF app.worker.kind = "sync" THEN {} ELSE given]
       /\ UNCHANGED <<cloud, whose, astray>>

SignOut ==
    /\ AsksToLeave
    /\ UNCHANGED given
    /\ LET s == Leaving(IF app.dialogs = <<>> THEN app ELSE Closed(app))
       IN  \/ /\ LeftBehind
              /\ \/ \* the reset fails
                    /\ s.out = "reset" /\ s.switch = None
                    /\ app' = s /\ UNCHANGED left
                 \/ \* the credential store refuses
                    app' = CloudFailure(Scrubbed(s)) /\ UNCHANGED left
                 \/ app' = SignedOut(Scrubbed(s)) /\ left' = app.tokens
           \/ \* the app is killed between the two
              /\ MayReach(app.worker) /\ late' = None
              /\ app' = Restarted(Scrubbed(s))
              /\ UNCHANGED <<left, astray>>

Restart ==
    /\ MayReach(app.worker) /\ late' = None
    /\ app' = Restarted(app)
    /\ UNCHANGED <<left, given, astray>>

\* authorized_request: the generation is read only now, and the check passes in
\* whatever session there is, unless that is being signed out.
LateSends ==
    /\ late # None /\ app.tokens # None /\ app.out = None
    /\ Reaches(app.tokens, late.job)
    /\ LET sent == late.job.body.edits \cap cloud'[app.tokens].items
       IN  astray' = astray \cup (IF app.tokens = late.job.body.user THEN {}
                                  ELSE sent \X {app.tokens})
    /\ late' = None
    /\ UNCHANGED <<app, left, given>>

\* No session to send it in, the check fails, or the network does.
LateEnds ==
    /\ late # None /\ late' = None
    /\ UNCHANGED <<cloud, app, whose, left, given, astray>>

-----------------------------------------------------------------------------
WorkerEnds ==
    \/ SignInAnswered \/ SignInFails
    \/ SyncAnswered \/ PreviewAnswered \/ ResolveAnswered \/ ResolveRefused
    \/ Unauthorized \/ RequestFails \/ ApplyFails

Next ==
    \/ Login \/ WorkerEnds \/ RestoreRetry \/ Finish
    \/ Tick \/ RevisionAvailable \/ StreamRefused \/ RetrySync \/ RetryResolution
    \/ Edit \/ OtherDevice
    \/ OpenAccount \/ Cancel \/ Choose \/ Resume \/ Switch \/ SignOut \/ Restart
    \/ LateSends \/ LateEnds

Spec == Init /\ [][Next]_vars

\* The event loop runs, a request ends (with a timeout if with nothing else),
\* and one that is asked again and again is answered at last, in time for its
\* sync.  Users, other devices and failures owe nothing.
Answers ==
    \/ SyncAnswered /\ app.request # None
    \/ PreviewAnswered \/ ResolveAnswered \/ ResolveRefused

FairSpec ==
    /\ Spec
    /\ WF_vars(WorkerEnds \/ Finish) /\ WF_vars(Tick)
    /\ WF_vars(RetrySync) /\ WF_vars(RetryResolution)
    /\ SF_vars(Answers)

-----------------------------------------------------------------------------
(* Properties *)

\* Nothing made under one account, and nothing of its history, gets into the
\* history of another account, whatever sign-ins, switches, quarantines,
\* expiries, replays and crashes there are: signed_in quarantines a workspace
\* that is bound to another account, and a saved request goes to its owner.
\* The one exception are the edits that a worker still carries when its session
\* is signed out: authorized_request takes the tokens of the next session if it
\* gets to run that late (`astray` has these edits, and where they went).
AccountsApart ==
    \A a \in Accounts : \A e \in cloud[a].items :
        IF e \in Accounts THEN e = a ELSE whose[e] = a \/ <<e, a>> \in astray

\* Once an account was signed out, the workspace holds none of its history
\* and none of its edits: the reset is committed before the credentials go,
\* also when the first attempt was refused or the app died in between.  An edit
\* that went astray comes back with the history it went to, no other way.
SignedOutLeavesNothing ==
    left # None =>
        /\ left \notin app.seen /\ app.owner # left
        /\ \A e \in app.queue : whose[e] # left
        /\ \A e \in app.seen \cap Edits :
              whose[e] # left \/ <<e, app.owner>> \in astray

\* The check mark of the account button: while it shows a session exists, and
\* no edit waits to be sent, or a sync is under way or due that takes the mark
\* away.  (An edit made while an empty claim is out leaves
\* the mark up: sync_payload repeats the saved claim.)
SyncedMeansSent ==
    app.synced =>
        /\ app.auth
        /\ app.queue = {} \/ app.waiting \/ app.request # None

\* The switch dialog is answered with the account it asked about: nothing that
\* runs under the open dialog may end the quarantine (account_action reads
\* account_switch_user after the dialog has closed).
SwitchStands ==
    \A i \in DOMAIN app.dialogs :
        app.dialogs[i].kind = "switch" => app.switch # None

\* The user answers a dialog, or asks again, and leaves the workspace blank.
LeavesWorkspace ==
    /\ AsksToLeave /\ app'.dialogs = <<>>
    /\ app'.owner = None /\ app'.queue = {} /\ app'.saved = None

\* An unsent edit disappears from the workspace only into the history of an
\* account, and history of an account only by replacement, unless the user gave
\* exactly that up: in the prompt, which showed it, or by leaving the account.
\* Between a preview, its prompt, the saved request and the answer there may be
\* edits of other devices, conflicts, lost answers, crashes and new sign-ins.
\* A resolution that outlives its session replaces what was given up for it, or,
\* in another session whose history happens to be at the same revision, that.
NothingLostUnasked ==
    [][/\ \A e \in app.queue \ app'.queue :
             \/ e \in given \/ LeavesWorkspace
             \/ \E a \in Accounts : e \in cloud'[a].items
       /\ \A a \in Accounts :
             LET lost == cloud[a].items \ cloud'[a].items
             IN  \/ lost \subseteq given
                 \/ /\ late # None /\ late' = None
                    /\ a = late.job.body.user => lost \subseteq late.given]_vars

\* The work of a session does not get stuck: an edit that waits while a user is
\* signed in is sent, unless the session ends, the user is asked something, a
\* store error has paused the resolution, or the user is leaving.  Requests
\* that fail, conflicts and a busy service only delay it.
UnsentEditsGo ==
    \A e \in Edits :
        (e \in app.queue /\ app.auth) ~>
            \/ e \notin app.queue \/ ~app.auth \/ app.paused
            \/ app.dialogs # <<>> \/ app.out # None \/ app.switch # None
=============================================================================
