----------------------------- MODULE CloudSession -----------------------------
(***************************************************************************)
(* The account session of one process: CloudService, AuthenticatedSession  *)
(* and the sign-out half of AccountLifecycle.                              *)
(*                                                                         *)
(* The GUI thread starts workers and receives what they signal; a worker   *)
(* runs on a pool thread and shares the session state with the GUI under   *)
(* one lock.  An action is one GUI handler, one section of a worker under  *)
(* the lock, or one exchange with the service.  A result and the end of    *)
(* its worker reach the GUI as two events, in that order, later.           *)
(*                                                                         *)
(* `account_generation` fences workers: a sign-out moves it on, and what a *)
(* worker of an older generation brings back is dropped.                   *)
(*                                                                         *)
(* The credential store is the register of CredentialRegister; a session   *)
(* stands for all the tokens the service issues for one sign-in.  Account  *)
(* deletion and the revision stream's transport are not modelled here.     *)
(***************************************************************************)
EXTENDS Naturals, Sequences

CONSTANTS
    Accounts,        \* accounts a user may pick in the browser
    Payloads,        \* what a sync or a resolution may carry
    None,            \* Python's None
    Slots,           \* bound: workers in flight
    MaxSessions,     \* bound: sign-ins the service grants
    MaxGeneration,   \* bound on account_generation
    MaxEpoch,        \* bound: calls of restore()
    RetryAttempts    \* _RESTORE_RETRY_ATTEMPTS

ASSUME BoundsAssumption ==
    /\ MaxSessions \in Nat /\ MaxGeneration \in Nat /\ MaxEpoch \in Nat
    /\ RetryAttempts \in Nat

VARIABLES
    generation, authenticated, busy, signOutPending, shuttingDown, queued,
    shown,       \* the account signed_in announced last
    memory,      \* the session whose tokens are in memory
    access,      \* is there an access token among them?
    epoch, attempt,
    timers,      \* restore retries that are due
    gui,         \* "idle", or the logout the GUI thread is inside of
    workers,     \* what each slot runs
    store,       \* the session the credential store holds
    revocations, \* sessions queued durably for revocation
    sessions,    \* at the service: the account of every session
    left         \* history: sessions the user has signed out of

guiVars     == <<epoch, attempt, timers, gui>>
durableVars == <<store, revocations, sessions, left>>
stateVars   == <<generation, authenticated, busy, signOutPending,
                 shuttingDown, queued, shown, memory, access>>
vars == <<stateVars, guiVars, workers, durableVars>>

Kinds    == {"restore", "login", "sync", "preview", "resolve"}
Steps    == {"queued", "ready", "refresh", "granted", "send", "answered",
             "delivered"}
Outcomes == {"ok", "none", "unauthorized", "conflict", "error"}
Sessions == 1..MaxSessions

\* A worker: the generation _start records, the one it fences with, what it
\* carries (or, of /me, brings), the session whose tokens it holds and what
\* it will signal.
Worker == [kind : Kinds, born : 0..MaxGeneration, fence : 0..MaxGeneration,
           step : Steps, payload : Payloads \cup Accounts \cup {None},
           session : Sessions \cup {None}, again : BOOLEAN,
           outcome : Outcomes]

ASSUME NoneAssumption ==
    /\ None \notin Payloads \cup Accounts \cup Nat
    /\ None \notin Worker

Timer == [generation : 0..MaxGeneration, epoch : 0..MaxEpoch]

Init ==
    /\ generation = 0 /\ authenticated = FALSE /\ busy = FALSE
    /\ signOutPending = FALSE /\ shuttingDown = FALSE /\ queued = None
    /\ shown = None /\ memory = None /\ access = FALSE
    /\ epoch = 0 /\ attempt = 0 /\ timers = {} /\ gui = "idle"
    /\ workers = [i \in Slots |-> None]
    /\ store = None /\ revocations = {} /\ sessions = <<>> /\ left = {}
-------------------------------------------------------------------------------
Running       == {i \in Slots : workers[i] # None}
Current(w)    == w.born = generation
AnyCurrent(f) == \E i \in Slots : f[i] # None /\ Current(f[i])

NewWorker(kind, payload) ==
    [kind |-> kind, born |-> generation, fence |-> generation,
     step |-> "queued", payload |-> payload, session |-> None,
     again |-> FALSE, outcome |-> "ok"]

\* _start: nothing is started while a sign-out is pending.
Start(kind, payload) ==
    IF signOutPending
    THEN UNCHANGED <<busy, workers>>
    ELSE /\ busy' = TRUE
         /\ \E i \in Slots \ Running :
                workers' = [workers EXCEPT ![i] = NewWorker(kind, payload)]

\* The GUI thread takes an event while it is not inside logout().
GuiIdle == gui = "idle" /\ ~shuttingDown

Restore ==
    /\ GuiIdle /\ epoch < MaxEpoch
    /\ epoch' = epoch + 1 /\ attempt' = 0
    /\ Start("restore", None)
    /\ UNCHANGED <<generation, authenticated, signOutPending, shuttingDown,
                   queued, shown, memory, access, timers, gui, durableVars>>

\* The timer of _schedule_restore_retry fires: dropped, kept or used.
RetryRestore(t) ==
    /\ GuiIdle /\ t \in timers
    /\ IF \/ signOutPending \/ authenticated
          \/ t.epoch # epoch \/ t.generation # generation
       THEN timers' = timers \ {t} /\ UNCHANGED <<busy, workers>>
       ELSE /\ ~busy                    \* busy: the timer is set again
            /\ timers' = timers \ {t}
            /\ Start("restore", None)
    /\ UNCHANGED <<generation, authenticated, signOutPending, shuttingDown,
                   queued, shown, memory, access, epoch, attempt, gui, durableVars>>

\* The account button calls login() only while nobody is signed in.
Login ==
    /\ GuiIdle /\ ~busy /\ ~authenticated
    /\ Start("login", None)
    /\ UNCHANGED <<generation, authenticated, signOutPending, shuttingDown,
                   queued, shown, memory, access, guiVars, durableVars>>

\* A sync asked for while a worker is busy waits; a later one replaces it.
SyncNow(payload) ==
    IF busy
    THEN queued' = payload /\ UNCHANGED <<busy, workers>>
    ELSE /\ authenticated
         /\ Start("sync", payload)
         /\ UNCHANGED queued

Sync(payload) ==
    /\ GuiIdle
    /\ SyncNow(payload)
    /\ UNCHANGED <<generation, authenticated, signOutPending, shuttingDown,
                   shown, memory, access, guiVars, durableVars>>

Bootstrap(kind, payload) ==
    /\ GuiIdle /\ ~busy /\ authenticated
    /\ Start(kind, payload)
    /\ UNCHANGED <<generation, authenticated, signOutPending, shuttingDown,
                   queued, shown, memory, access, guiVars, durableVars>>

PreviewBootstrap          == Bootstrap("preview", None)
ResolveBootstrap(payload) == Bootstrap("resolve", payload)

\* The revision stream ends with a 401: its access token is of no use.
StreamUnauthorized ==
    /\ GuiIdle /\ authenticated /\ access
    /\ access' = FALSE
    /\ UNCHANGED <<generation, authenticated, busy, signOutPending,
                   shuttingDown, queued, shown, memory, guiVars, workers,
                   durableVars>>
-------------------------------------------------------------------------------
(* Sign-out.                                                               *)

\* logout() fences every worker before the workspace is scrubbed.
Logout ==
    /\ GuiIdle /\ generation < MaxGeneration
    /\ signOutPending' = TRUE /\ generation' = generation + 1
    /\ busy' = FALSE /\ queued' = None
    /\ gui' = "signing_out"
    /\ UNCHANGED <<authenticated, shuttingDown, shown, memory, access, epoch,
                   attempt, timers, workers, durableVars>>

\* The session that is signed out: the one in memory, else the stored one.
LeavingSession == IF memory # None THEN memory ELSE store

\* The workspace could not be scrubbed, or the sign-out could not be
\* persisted: the session is retained, the fence stays up.  The revocation
\* may have been queued by then.
SignOutRefused ==
    /\ gui = "signing_out"
    /\ gui' = "idle"
    /\ revocations' \in {revocations,
                         revocations \cup ({LeavingSession} \ {None})}
    /\ UNCHANGED <<stateVars, epoch, attempt, timers, workers, store,
                   sessions, left>>

\* sign_out and _publish_sign_out; a clean-up that is only pending counts.
SignOut ==
    /\ gui = "signing_out" /\ generation < MaxGeneration
    /\ gui' = "idle"
    /\ revocations' = revocations \cup ({LeavingSession} \ {None})
    /\ left' = left \cup ({memory, store} \ {None})
    /\ store' = None /\ memory' = None /\ access' = FALSE
    /\ authenticated' = FALSE /\ shown' = None /\ signOutPending' = FALSE
    /\ generation' = generation + 1 /\ busy' = FALSE /\ queued' = None
    /\ UNCHANGED <<shuttingDown, epoch, attempt, timers, workers, sessions>>

Shutdown ==
    /\ GuiIdle /\ generation < MaxGeneration
    /\ shuttingDown' = TRUE /\ generation' = generation + 1
    /\ busy' = FALSE /\ queued' = None
    /\ UNCHANGED <<authenticated, signOutPending, shown, memory, access,
                   guiVars, workers, durableVars>>

\* The process ends, in whatever state, and is started again.
Restart ==
    /\ generation' = 0 /\ authenticated' = FALSE /\ busy' = FALSE
    /\ signOutPending' = FALSE /\ shuttingDown' = FALSE /\ queued' = None
    /\ shown' = None /\ memory' = None /\ access' = FALSE
    /\ epoch' = 0 /\ attempt' = 0 /\ timers' = {} /\ gui' = "idle"
    /\ workers' = [i \in Slots |-> None]
    /\ UNCHANGED durableVars
-------------------------------------------------------------------------------
(* Workers.                                                                *)

\* Worker i goes on as w; the state its section may change is left to the
\* action that uses this.
Becomes(i, w)      == workers' = [workers EXCEPT ![i] = w]
Answer(i, outcome) == Becomes(i, [workers[i] EXCEPT
    !.step = "answered", !.outcome = outcome, !.session = None,
    !.again = FALSE, !.fence = workers[i].born])
Holds(i, step, s)  == Becomes(i, [workers[i] EXCEPT !.step = step,
                                                    !.session = s])

At(i, kinds, step) == i \in Running /\ workers[i].kind \in kinds
                                    /\ workers[i].step = step

NothingElse == UNCHANGED <<stateVars, guiVars, durableVars>>

Requests == {"sync", "preview", "resolve"}

\* Mutant of MayGoOn: a worker of an earlier generation goes on.
MayGoOnUnfenced(fence) == ~shuttingDown /\ ~signOutPending

\* assert_current_locked
MayGoOn(fence) == ~shuttingDown /\ ~signOutPending /\ fence = generation

\* authorized_request reads the generation when the worker gets to run.
ReadGeneration(i) ==
    /\ At(i, Requests, "queued")
    /\ Becomes(i, [workers[i] EXCEPT !.step = "ready", !.fence = generation])
    /\ NothingElse

\* restore_session ends here when nothing is stored.
LoadStored(i) ==
    /\ At(i, {"restore"}, "queued")
    /\ \/ store = None /\ Answer(i, "none")
       \/ store # None /\ Becomes(i, [workers[i] EXCEPT !.step = "ready"])
       \/ Answer(i, "error")
    /\ NothingElse

\* ensure_access; the restore passes no generation and takes this one.
EnsureAccess(i) ==
    LET w     == workers[i]
        fence == IF w.kind = "restore" THEN generation ELSE w.fence
        Go(step, s) == Becomes(i, [w EXCEPT !.step = step, !.session = s,
                                            !.fence = fence])
    IN  /\ At(i, Requests \cup {"restore"}, "ready")
        /\ \/ ~MayGoOn(fence) /\ Answer(i, "error")
           \/ MayGoOn(fence) /\ access /\ Go("send", memory)
           \/ MayGoOn(fence) /\ store # None /\ Go("refresh", store)
           \/ MayGoOn(fence) /\ Answer(i, "error")  \* none stored, or unreadable
        /\ NothingElse

\* The service grants the refresh; its answer is under way.
RefreshGranted(i) ==
    /\ At(i, Kinds, "refresh")
    /\ Holds(i, "granted", workers[i].session)
    /\ NothingElse

RefreshFails(i) ==
    /\ At(i, Kinds, "refresh")
    /\ Answer(i, "error")
    /\ NothingElse

\* A 401 clears the store, if the store can be cleared.
RefreshUnauthorized(i) ==
    /\ At(i, Kinds, "refresh")
    /\ IF MayGoOn(workers[i].fence)
       THEN \/ store' = None /\ Answer(i, "unauthorized")
            \/ store' \in {None, store} /\ Answer(i, "error")
       ELSE Answer(i, "error") /\ UNCHANGED store
    /\ UNCHANGED <<stateVars, guiVars, revocations, sessions, left>>

\* A login that was cancelled in time goes no further than this.
Authorize(i) ==
    /\ At(i, {"login"}, "queued")
    /\ \/ /\ ~shuttingDown /\ workers[i].fence = generation
          /\ Becomes(i, [workers[i] EXCEPT !.step = "ready"])
       \/ Answer(i, "error")
    /\ NothingElse

\* The user signs in at the browser; the service opens a session.
Exchange(i, account) ==
    /\ At(i, {"login"}, "ready")
    /\ Len(sessions) < MaxSessions
    /\ sessions' = Append(sessions, account)
    /\ Holds(i, "granted", Len(sessions) + 1)
    /\ UNCHANGED <<stateVars, guiVars, store, revocations, left>>

LoginFails(i) ==
    /\ At(i, {"login"}, "ready")
    /\ Answer(i, "error")
    /\ NothingElse

\* Mutant of AcceptTokens: memory takes tokens the store may still refuse.
AcceptTokensAtOnce(i) ==
    LET s == workers[i].session
    IN  /\ At(i, Kinds, "granted") /\ MayGoOn(workers[i].fence)
        /\ memory' = s /\ access' = TRUE
        /\ \/ store' = s /\ Holds(i, "send", s)
           \/ UNCHANGED store /\ Answer(i, "error")
        /\ UNCHANGED <<generation, authenticated, busy, signOutPending,
                       shuttingDown, queued, shown, guiVars, revocations,
                       sessions, left>>

\* accept_tokens: the store first, memory once it has them.
AcceptTokens(i) ==
    LET s == workers[i].session
        Adopt == store' = s /\ memory' = s /\ access' = TRUE
    IN  /\ At(i, Kinds, "granted")
        /\ \/ /\ MayGoOn(workers[i].fence)
              /\ Adopt /\ Holds(i, "send", s)
           \/ /\ MayGoOn(workers[i].fence)          \* commit pending
              /\ Adopt /\ Answer(i, "error")
           \/ /\ Answer(i, "error")                 \* refused, or cancelled
              /\ UNCHANGED <<store, memory, access>>
        /\ UNCHANGED <<generation, authenticated, busy, signOutPending,
                       shuttingDown, queued, shown, guiVars, revocations,
                       sessions, left>>

\* The request itself: /me, sync, bootstrap or resolve.
Respond(i) ==
    /\ At(i, Kinds, "send")
    /\ \/ /\ workers[i].kind \in {"restore", "login"}
          /\ Becomes(i, [workers[i] EXCEPT
                !.step = "answered", !.outcome = "ok", !.session = None,
                !.payload = sessions[workers[i].session]])
       \/ workers[i].kind \in Requests /\ Answer(i, "ok")
       \/ Answer(i, "error")
       \/ workers[i].kind = "resolve" /\ Answer(i, "conflict")
    /\ NothingElse

\* A 401: a worker's request drops the access token and tries once more.
RespondUnauthorized(i) ==
    /\ At(i, Kinds, "send")
    /\ LET w == workers[i] IN
       IF w.kind \in Requests /\ ~w.again
       THEN IF MayGoOn(w.fence)
            THEN /\ access' = FALSE
                 /\ Becomes(i, [w EXCEPT !.step = "ready", !.again = TRUE])
            ELSE Answer(i, "error") /\ UNCHANGED access
       ELSE Answer(i, "unauthorized") /\ UNCHANGED access
    /\ UNCHANGED <<generation, authenticated, busy, signOutPending,
                   shuttingDown, queued, shown, memory, guiVars,
                   durableVars>>
-------------------------------------------------------------------------------
(* What the GUI does with a result, and with the end of a worker.          *)

\* restored, authorized
SignedIn(w) ==
    /\ authenticated' = TRUE /\ shown' = w.payload
    /\ attempt' = IF w.kind = "restore" THEN 0 ELSE attempt
    /\ UNCHANGED <<memory, access, timers, store>>

\* _expire_session; a store that cannot be cleared stays as it is.
ExpireSession(w) ==
    /\ store' \in {None, store}
    /\ memory' = None /\ access' = FALSE /\ authenticated' = FALSE
    /\ shown' = None
    /\ attempt' = IF w.kind = "restore" THEN 0 ELSE attempt
    /\ UNCHANGED timers

\* _schedule_restore_retry
RestoreFailed ==
    /\ access' = FALSE /\ authenticated' = FALSE
    /\ IF signOutPending \/ attempt >= RetryAttempts
       THEN UNCHANGED <<attempt, timers>>
       ELSE /\ attempt' = attempt + 1
            /\ timers' = timers \cup
                   {[generation |-> generation, epoch |-> epoch]}
    /\ UNCHANGED <<shown, memory, store>>

NothingStored ==
    /\ attempt' = 0
    /\ UNCHANGED <<authenticated, shown, memory, access, timers, store>>

NoEffect ==
    UNCHANGED <<authenticated, shown, memory, access, attempt, timers, store>>

OnResult(w) ==
    \/ ~Current(w) /\ NoEffect
    \/ /\ Current(w)
       /\ \/ w.outcome = "ok" /\ w.kind \in {"restore", "login"} /\ SignedIn(w)
          \/ w.outcome = "none" /\ NothingStored
          \/ w.outcome = "unauthorized" /\ w.kind # "login" /\ ExpireSession(w)
          \/ w.outcome = "error" /\ w.kind = "restore" /\ RestoreFailed
          \/ w.outcome \in {"ok", "conflict"} /\ w.kind \in Requests /\ NoEffect
          \/ w.outcome = "error" /\ w.kind # "restore" /\ NoEffect
          \/ w.outcome = "unauthorized" /\ w.kind = "login" /\ NoEffect

Deliver(i) ==
    /\ gui = "idle" /\ At(i, Kinds, "answered")
    /\ Becomes(i, [workers[i] EXCEPT !.step = "delivered", !.outcome = "ok"])
    /\ OnResult(workers[i])
    /\ UNCHANGED <<generation, busy, signOutPending, shuttingDown, queued,
                   epoch, gui, revocations, sessions, left>>

\* Mutant of Finish: nobody looks at the sync that waits.
FinishForgetful(i) ==
    /\ gui = "idle" /\ At(i, Kinds, "delivered")
    /\ LET rest == [workers EXCEPT ![i] = None]
       IN  busy' = AnyCurrent(rest) /\ workers' = rest
    /\ UNCHANGED <<generation, authenticated, signOutPending, shuttingDown,
                   queued, shown, memory, access, guiVars, durableVars>>

\* _finished: the last worker of this generation starts the waiting sync.
Finish(i) ==
    /\ gui = "idle" /\ At(i, Kinds, "delivered")
    /\ LET rest  == [workers EXCEPT ![i] = None]
           still == AnyCurrent(rest)
       IN  IF ~Current(workers[i]) \/ queued = None \/ still
           THEN busy' = still /\ workers' = rest /\ UNCHANGED queued
           ELSE /\ queued' = None
                /\ IF authenticated /\ ~signOutPending
                   THEN /\ busy' = TRUE
                        /\ workers' = [workers EXCEPT ![i] =
                                           NewWorker("sync", queued)]
                   ELSE busy' = FALSE /\ workers' = rest
    /\ UNCHANGED <<generation, authenticated, signOutPending, shuttingDown,
                   shown, memory, access, guiVars, durableVars>>

GuiNext ==
    \/ Restore \/ Login \/ PreviewBootstrap
    \/ \E t \in timers : RetryRestore(t)
    \/ \E p \in Payloads : Sync(p) \/ ResolveBootstrap(p)
    \/ StreamUnauthorized
    \/ Logout \/ SignOutRefused \/ SignOut
    \/ Shutdown \/ Restart
    \/ \E i \in Slots : Deliver(i) \/ Finish(i)

WorkerNext(i) ==
    \/ ReadGeneration(i) \/ LoadStored(i) \/ EnsureAccess(i)
    \/ RefreshGranted(i) \/ RefreshFails(i) \/ RefreshUnauthorized(i)
    \/ Authorize(i) \/ LoginFails(i)
    \/ \E account \in Accounts : Exchange(i, account)
    \/ AcceptTokens(i) \/ Respond(i) \/ RespondUnauthorized(i)

Next == GuiNext \/ \E i \in Slots : WorkerNext(i)

Spec == Init /\ [][Next]_vars

\* Workers end: every request times out, the browser is given up in the end,
\* and the GUI thread takes its events and leaves logout().
Fairness ==
    /\ \A i \in Slots : WF_vars(WorkerNext(i) \/ Deliver(i) \/ Finish(i))
    /\ WF_vars(SignOut \/ SignOutRefused)

FairSpec == Spec /\ Fairness
-------------------------------------------------------------------------------
(* Properties.                                                             *)

TypeOK ==
    /\ generation \in 0..MaxGeneration
    /\ authenticated \in BOOLEAN /\ busy \in BOOLEAN
    /\ signOutPending \in BOOLEAN /\ shuttingDown \in BOOLEAN
    /\ access \in BOOLEAN
    /\ queued \in Payloads \cup {None}
    /\ shown \in Accounts \cup {None}
    /\ memory \in Sessions \cup {None} /\ store \in Sessions \cup {None}
    /\ epoch \in 0..MaxEpoch /\ attempt \in 0..RetryAttempts
    /\ timers \subseteq Timer /\ gui \in {"idle", "signing_out"}
    /\ workers \in [Slots -> Worker \cup {None}]
    /\ sessions \in Seq(Accounts) /\ Len(sessions) <= MaxSessions
    /\ revocations \subseteq 1..Len(sessions) /\ left \subseteq 1..Len(sessions)

\* `busy` says exactly whether a worker of this generation is under way, with
\* any number of overlapping workers: the service never stays closed for good,
\* and a login or a bootstrap never starts beside a current worker.
BusyMatchesWorkers == busy <=> AnyCurrent(workers)

\* A sync that waits has a current worker whose end will start it.
QueuedHasCarrier == queued # None => AnyCurrent(workers)

\* Memory and credential store never hold two different sessions, whichever
\* refreshes, logins, rejections and failed writes overlap.
MemoryMirrorsStore == memory # None /\ store # None => memory = store

\* A session the user signed out of never comes back, neither to memory nor
\* to the store, whatever its refreshes and workers still bring.
SignedOutStaysOut == left \cap {memory, store} = {}

\* Whatever a sign-out takes away from memory or store is queued for
\* revocation, even if only one of the two still held it.
SignedOutIsRevoked == left \subseteq revocations

\* The timer of a restore retry that is still wanted goes only when the
\* restore starts: a login or a sync that keeps the service busy does not
\* use it up (_retry_restore).
RetryKept ==
    \A t \in timers \ timers' :
        \/ authenticated \/ signOutPending
        \/ t.epoch # epoch \/ t.generation # generation
        \/ \E i \in Slots : workers[i] = None /\ workers'[i] # None
                            /\ workers'[i].kind = "restore"
        \/ Restart

RetryNotConsumed == [][RetryKept]_vars

\* A sync that waits is started or given up, and never waits for ever.
QueuedSyncEnds == queued # None ~> queued = None

===============================================================================
