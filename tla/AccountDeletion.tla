---------------------------- MODULE AccountDeletion ----------------------------
(***************************************************************************)
(* Deleting the cloud account: the DELETE request, the obligation to give  *)
(* up the credentials, which survives a crash (a marker file and a         *)
(* confirmed identity), and the fence around the local workspace until the *)
(* outcome is known (network_account.py, network.py,                       *)
(* account_resolution_controller.py).                                      *)
(*                                                                         *)
(* state.lock is held from the look at an obligation to the last durable   *)
(* write that settles it; between two writes the process may die, and a    *)
(* write may fail before or after it took effect.  A token stands for an   *)
(* access and refresh pair.  The journal under the keyring and the file    *)
(* system is CredentialStore's subject: a save is one step here, a clear   *)
(* is three.                                                               *)
(*                                                                         *)
(* Not covered: an unreadable or legacy marker, a second process, the      *)
(* rotation of a token outside a deletion, and the bound on the number of  *)
(* restore attempts.                                                       *)
(***************************************************************************)
EXTENDS Naturals, Sequences

CONSTANTS
    MaxTokens,      \* bound: token pairs the service issues
    MaxGeneration,  \* bound: account generation at which a deletion starts
    MaxFaults,      \* bound: durable writes that fail
    MaxStops        \* bound: crashes and quits

ASSUME BoundsAssumption ==
    /\ MaxTokens \in Nat \ {0} /\ MaxGeneration \in Nat
    /\ MaxFaults \in Nat /\ MaxStops \in Nat

VARIABLES
    process,   \* "up", "stopping" (shutting_down) or "down"
    item,      \* the token in the keyring, 0 if there is none
    tombstone, \* {"signedOut": true} in session.json
    identity,  \* the identity file: whose token, which deletion confirmed it
    marker,    \* the file with the cleanup obligation
    session,   \* SessionState
    owed,      \* _pending_deletion_cleanup
    lock,      \* who holds state.lock, and how far it got
    job,       \* the worker that deletes the account
    wire,      \* the DELETE request or its answer
    worker,    \* the worker that signs in or restores
    ui,        \* retry_deletion_cleanup between two of its calls
    fence,     \* deletion_pending, _deletion_denied and the retry timer
    cleanup,   \* the sign-out cleanup timer
    meta,      \* accountDeletionCleanup in the database
    workspace, \* the account whose data the workspace holds, 0 if none
    owner,     \* the account of each token issued
    gone,      \* accounts the service deleted
    revoked,   \* tokens the service ended by itself
    asked,     \* accounts whose DELETE was announced and not refused (history)
    detached,  \* was a deletion left behind by a quit or a sign-in? (history)
    faults, stops \* failures so far

store == <<item, tombstone, identity, marker>>
server == <<owner, gone, revoked>>
vars == <<process, store, session, owed, lock, job, wire, worker, ui, fence,
          cleanup, meta, workspace, server, asked, detached, faults, stops>>

NoDebt == [token |-> 0, generation |-> 0]
Debt(token, generation) == [token |-> token, generation |-> generation]
NoJob == [step |-> "none", token |-> 0, generation |-> 0, retried |-> FALSE]
Unlocked == [who |-> "none", step |-> "none", due |-> NoDebt]
Lifted == [pending |-> FALSE, denied |-> FALSE, timer |-> FALSE]
SignedOut(generation) ==
    [token |-> 0, access |-> FALSE, generation |-> generation,
     authenticated |-> FALSE, deleting |-> FALSE]
SignedIn(token, generation) ==
    [token |-> token, access |-> TRUE, generation |-> generation,
     authenticated |-> TRUE, deleting |-> FALSE]

\* Callers of _retry_deletion_cleanup_locked; the others settle what became of
\* a DELETE ("mark", "finish", "uncertain", "refused", "expire").
Ready == {"begin", "recover", "login", "restore", "timer", "sign out", "other"}

Init ==
    /\ process = "up"
    /\ item = 1 /\ tombstone = FALSE
    /\ identity = Debt(1, 0) /\ marker = NoDebt
    /\ session = SignedIn(1, 1)
    /\ owed = {} /\ lock = Unlocked /\ job = NoJob
    /\ wire = [at |-> "none", token |-> 0]
    /\ worker = [at |-> "none", generation |-> 1, restore |-> FALSE]
    /\ ui = "idle" /\ fence = Lifted
    /\ cleanup = [timer |-> FALSE, generation |-> 1]
    /\ meta = FALSE /\ workspace = 1
    /\ owner = <<1>> /\ gone = {} /\ revoked = {}
    /\ asked = {} /\ detached = FALSE /\ faults = 0 /\ stops = 0

Free == process # "down" /\ lock = Unlocked

\* The Qt thread runs one slot at a time; these callers are slots.
UiFree == ui = "idle" /\ Free

Honoured(token) == owner[token] \notin gone /\ token \notin revoked
Stored == IF tombstone THEN 0 ELSE item

\* A sign-in finds the person's account, or makes one when it was deleted.
SignInAccount ==
    LET living == {t \in DOMAIN owner : owner[t] \notin gone}
    IN  IF living = {} THEN Len(owner) + 1 ELSE owner[CHOOSE t \in living : TRUE]

\* _deletion_current_locked
Current ==
    /\ process = "up"
    /\ job.generation = session.generation
    /\ session.authenticated /\ session.deleting

\* _stored_credentials_match_identity: whatever the keyring holds, behind a
\* tombstone too, must be what the identity file names.
Untrusted == item # 0 /\ identity.token # item

Confirmed == identity.generation # 0
Mine == Debt(job.token, job.generation)

-----------------------------------------------------------------------------
(* Taking and leaving state.lock *)

Enter(who) == lock' = [who |-> who, step |-> "look", due |-> NoDebt]
Go(step, due) ==
    /\ lock' = [lock EXCEPT !.step = step, !.due = due]
    /\ UNCHANGED <<session, owed, job, ui, fence, worker, cleanup, asked>>

\* _clear_deletion_session_locked: the session that settled obligation is of.
Cleared(due) ==
    IF session.token \in {0, due.token}
       /\ (session.authenticated \/ session.token # 0)
    THEN SignedOut(session.generation + 1)
    ELSE session

\* begin_deletion, once nothing is owed: the stored identity must be the
\* session's.
MayBegin ==
    /\ process = "up" /\ session.authenticated /\ ~session.deleting
    /\ ~Untrusted /\ identity.token = session.token /\ session.access

\* A sign-out is in effect once its tombstone is installed.
SignedAway == lock.step # "look" /\ tombstone'

SessionAfter(done, due) ==
    CASE lock.who = "begin" /\ done /\ due = NoDebt /\ MayBegin ->
            [session EXCEPT !.generation = @ + 1, !.deleting = TRUE]
      [] lock.who = "sign out" /\ (done \/ SignedAway) ->
            SignedOut(session.generation + 1)
      [] lock.who = "expire" /\ done -> SignedOut(session.generation)
      [] lock.who \in Ready \ {"sign out"} /\ done /\ due # NoDebt -> Cleared(due)
      [] OTHER -> session

OwedAfter(done) ==
    CASE lock.who = "mark" /\ ~done /\ marker' # NoDebt -> owed \cup {job.generation}
      [] lock.who = "refused" /\ ~done -> owed \cup {job.generation}
      [] lock.who \in {"finish", "uncertain"} ->
            IF Current \/ ~done THEN owed \cup {job.generation}
            ELSE owed \ {job.generation}
      [] OTHER -> owed

JobAfter(done, due) ==
    CASE lock.who = "begin" /\ done /\ due = NoDebt /\ MayBegin ->
            [step |-> "access", token |-> session.token,
             generation |-> session.generation + 1, retried |-> FALSE]
      [] lock.who = "mark" ->
            [job EXCEPT !.step = IF done THEN "send" ELSE "failed"]
      [] lock.who = "finish" ->
            [job EXCEPT !.step = IF done /\ Current THEN "deleted" ELSE "failed"]
      [] lock.who = "uncertain" -> [job EXCEPT !.step = "failed"]
      [] lock.who = "refused" ->
            IF done /\ wire.at = "stale" /\ ~job.retried
            THEN [job EXCEPT !.step = "refresh", !.retried = TRUE]
            ELSE [job EXCEPT !.step = "failed"]
      [] OTHER -> job

WorkerAfter(done) ==
    CASE lock.who = "login" ->
            [worker EXCEPT !.at = IF done THEN "accept" ELSE "none"]
      [] lock.who = "restore" ->
            [worker EXCEPT !.at = IF done /\ Stored' # 0 THEN "me" ELSE "none",
                           !.restore = ~done]
      [] lock.who = "expire" -> [worker EXCEPT !.at = "none", !.restore = ~done]
      [] OTHER -> worker

\* The cleanup timer is set again by a failed attempt, and by a sign-out that
\* left its credentials behind a tombstone.
CleanupAfter(done) ==
    CASE lock.who = "timer" -> [cleanup EXCEPT !.timer = ~done]
      [] lock.who = "sign out" /\ ~done /\ SignedAway ->
            [timer |-> TRUE, generation |-> session.generation + 1]
      [] OTHER -> cleanup

Return(done, due) ==
    /\ lock' = Unlocked
    /\ session' = SessionAfter(done, due)
    /\ owed' = OwedAfter(done)
    /\ job' = JobAfter(done, due)
    /\ worker' = WorkerAfter(done)
    /\ cleanup' = CleanupAfter(done)
    /\ ui' = IF lock.who = "recover" /\ done THEN "resolve" ELSE ui
    /\ fence' = IF lock.who = "recover" /\ ~done
                THEN [fence EXCEPT !.timer = TRUE] ELSE fence
    /\ asked' = CASE lock.who = "refused" /\ done -> asked \ {owner[job.token]}
                 [] lock.who = "mark" /\ marker' = Mine -> asked \cup {owner[job.token]}
                 [] OTHER -> asked

-----------------------------------------------------------------------------
(* The look: what is there to settle? *)

Looking(callers) == lock.step = "look" /\ lock.who \in callers
Unwritten == UNCHANGED <<store, wire, meta, workspace, server, faults, stops, detached, process>>

\* clear_account_deletion_credentials_locked: nothing stored is settled, and
\* nothing but the credentials the obligation names is cleared.
Erase(due) ==
    LET foreign == Untrusted \/ identity.token \notin {0, due.token} IN
    \/ foreign /\ Return(FALSE, due)
    \/ ~foreign /\ identity.token = 0 /\ Go("unmark", due)
    \/ ~foreign /\ identity.token # 0 /\ Go("tombstone", due)

\* What the caller does while it still holds the lock and nothing is owed: a
\* sign-out goes on to clear the store, and so does retry_sign_out_cleanup for
\* the generation it was set for.
ClearsNext ==
    \/ lock.who = "sign out"
    \/ /\ lock.who = "timer" /\ process = "up" /\ tombstone
       /\ cleanup.generation = session.generation
       /\ ~session.authenticated /\ session.token = 0

Proceed == IF ClearsNext THEN Go("tombstone", NoDebt) ELSE Return(TRUE, NoDebt)

\* _resolve_pending_deletion_cleanup: a confirmed identity outranks the
\* marker and rebuilds it.
LookReady ==
    /\ Looking(Ready)
    /\ Unwritten
    /\ LET due == IF Confirmed THEN identity ELSE marker IN
        \/ due = NoDebt /\ Proceed
        \/ due # NoDebt /\ marker # due /\ Go("rearm", due)
        \/ due # NoDebt /\ marker = due /\ Erase(due)

\* _prepare_deletion_cleanup_locked: the obligation is written before the
\* DELETE is sent, and never over another one.
LookMark ==
    /\ Looking({"mark"})
    /\ Unwritten
    /\ LET mine == Current /\ ~Untrusted /\ identity.token = job.token IN
        \/ mine /\ marker = NoDebt /\ Go("write", Mine)
        \/ ~(mine /\ marker = NoDebt) /\ Return(mine /\ marker = Mine, Mine)

\* Mutant of Resolve: a lost answer is taken for a refusal.
ResolveHopeful ==
    IF lock.who = "uncertain"
    THEN IF marker = Mine THEN Go("unmark", Mine) ELSE Return(TRUE, Mine)
    ELSE Go("confirm", Mine)

\* _resolve_deletion_cleanup_locked
Resolve ==
    LET foreign == Untrusted \/ identity.token \notin {0, job.token} IN
    \/ ~foreign /\ identity.token # 0 /\ Go("confirm", Mine)
    \/ ~foreign /\ identity.token = 0 /\ marker = Mine /\ Go("unmark", Mine)
    \/ (foreign \/ (identity.token = 0 /\ marker # Mine))
        /\ Return(~foreign /\ marker = NoDebt, Mine)

\* Mutant of Withdraw: the obligation outlives the refusal.
WithdrawForgotten == Return(TRUE, Mine)

\* _remove_deletion_cleanup
Withdraw ==
    \/ marker = Mine /\ Go("unmark", Mine)
    \/ marker # Mine /\ Return(TRUE, Mine)

\* _finish_remote_deletion and _secure_uncertain_deletion settle alike: a lost
\* answer counts as a deletion.  When the generation has moved on, the
\* obligation is withdrawn instead (_settle_stale_deletion_cleanup_locked).
LookFinish ==
    /\ Looking({"finish", "uncertain"})
    /\ Unwritten
    /\ \/ ~Current /\ job.generation # session.generation /\ Withdraw
       \/ (Current \/ job.generation = session.generation) /\ Resolve

\* _handle_deletion_request_error, an answer with a status.
LookRefused == Looking({"refused"}) /\ Unwritten /\ Withdraw

LookExpire == Looking({"expire"}) /\ Unwritten /\ Go("tombstone", NoDebt)

-----------------------------------------------------------------------------
(* Durable writes *)

Written ==
    LET step == lock.step IN
    /\ step \notin {"none", "look"}
    /\ tombstone' = (tombstone \/ step = "tombstone")
    /\ item' = IF step = "secret" THEN 0 ELSE item
    /\ identity' = CASE step = "confirm" -> lock.due
                     [] step = "forget" -> NoDebt
                     [] OTHER -> identity
    /\ marker' = CASE step \in {"rearm", "write"} -> lock.due
                   [] step = "unmark" -> NoDebt
                   [] OTHER -> marker

\* Mutant of Following: the marker is left behind.
FollowingKeepsMarker ==
    CASE lock.step = "confirm" -> "tombstone"
      [] lock.step = "tombstone" -> "secret"
      [] lock.step = "secret" -> "forget"
      [] OTHER -> "done"

Following ==
    CASE lock.step = "confirm" /\ marker # lock.due -> "rearm"
      [] lock.step = "confirm" /\ marker = lock.due -> "tombstone"
      [] lock.step = "rearm" -> "tombstone"
      [] lock.step = "tombstone" -> "secret"
      [] lock.step = "secret" -> "forget"
      [] lock.step = "forget" /\ lock.due # NoDebt -> "unmark"
      [] OTHER -> "done"

Write ==
    /\ Written
    /\ IF Following = "done" THEN Return(TRUE, lock.due) ELSE Go(Following, lock.due)
    /\ UNCHANGED <<wire, meta, workspace, server, faults, stops, detached, process>>

\* The error of a write reaches the caller, whether or not the write took
\* effect.  A sign-out whose tombstone was not installed keeps its session.
WriteFails ==
    /\ faults < MaxFaults /\ faults' = faults + 1
    /\ lock.step \notin {"none", "look"}
    /\ \/ Written
       \/ UNCHANGED store
    /\ Return(FALSE, lock.due)
    /\ UNCHANGED <<wire, meta, workspace, server, stops, detached, process>>

-----------------------------------------------------------------------------
(* The user *)

LockOnly == <<session, owed, job, wire, worker, cleanup, workspace, server,
              asked, detached, faults, stops, process, store>>

\* delete_account: prepare_deletion puts the fence up and notes it in the
\* database, then begin_deletion runs, whose refusal leaves the fence up.
\* Nothing here waits for the other workers to end.
DeleteAccount ==
    /\ UiFree /\ process = "up"
    /\ session.authenticated /\ ~session.deleting /\ ~fence.pending
    /\ job = NoJob \* bound: one deletion worker at a time
    /\ session.generation < MaxGeneration
    /\ meta' = TRUE
    /\ fence' = [pending |-> TRUE, denied |-> FALSE, timer |-> FALSE]
    /\ Enter("begin")
    /\ UNCHANGED <<LockOnly, ui>>

\* retry_deletion_cleanup; recover_deletion_credentials takes the lock.
RetryFence(denied) ==
    IF denied THEN ui' = "resolve" /\ UNCHANGED lock
              ELSE Enter("recover") /\ UNCHANGED ui

\* account_action behind the fence.
ClickAccount ==
    /\ UiFree /\ process = "up" /\ fence.pending /\ ~session.deleting
    /\ RetryFence(fence.denied)
    /\ UNCHANGED <<LockOnly, fence, meta>>

\* _retry_deletion_callback
FenceTimer ==
    /\ UiFree /\ process = "up" /\ fence.timer
    /\ fence' = [fence EXCEPT !.timer = FALSE]
    /\ IF fence.pending /\ ~session.deleting
       THEN RetryFence(fence.denied) ELSE UNCHANGED <<lock, ui>>
    /\ UNCHANGED <<LockOnly, meta>>

\* recover_deletion_credentials
Denied == fence.denied \/ Stored # 0

\* The rest of retry_deletion_cleanup: credentials that still load mean that
\* the account was not deleted; otherwise complete_account_deletion scrubs
\* the workspace.  One transaction either way, tried again when it fails.
ResolveFence ==
    /\ ui = "resolve" /\ Free
    /\ ui' = "idle"
    /\ LET denied == Denied IN
        \/ /\ meta' = FALSE /\ fence' = [Lifted EXCEPT !.timer = fence.timer]
           /\ workspace' = IF denied THEN workspace ELSE 0
           /\ UNCHANGED faults
        \/ /\ faults < MaxFaults /\ faults' = faults + 1
           /\ fence' = [fence EXCEPT !.denied = denied, !.timer = TRUE]
           /\ UNCHANGED <<meta, workspace>>
    /\ UNCHANGED <<session, owed, lock, job, wire, worker, cleanup, server,
                   asked, detached, stops, process, store>>

\* logout: the workspace is reset first.
SignOut ==
    /\ UiFree /\ process = "up" /\ session.authenticated /\ ~fence.pending
    /\ workspace' = 0
    /\ Enter("sign out")
    /\ UNCHANGED <<session, owed, job, wire, worker, ui, fence, cleanup, meta,
                   server, asked, detached, faults, stops, process, store>>

\* login; the browser hands the token to the worker.
Login ==
    /\ UiFree /\ process = "up" /\ ~session.authenticated /\ ~fence.pending
    /\ worker.at = "none" /\ Len(owner) < MaxTokens
    /\ worker' = [worker EXCEPT !.at = "login", !.generation = session.generation]
    /\ Enter("login")
    /\ UNCHANGED <<session, owed, job, wire, ui, fence, cleanup, meta,
                   workspace, server, asked, detached, faults, stops, process, store>>

\* _retry_sign_out_cleanup
CleanupTimer ==
    /\ UiFree /\ process = "up" /\ cleanup.timer
    /\ Enter("timer")
    /\ UNCHANGED <<LockOnly, ui, fence, meta>>

-----------------------------------------------------------------------------
(* Signing in and restoring *)

Unsettled == marker # NoDebt \/ Confirmed
SignInFrame == UNCHANGED <<owed, job, wire, ui, cleanup, meta, asked, faults,
                           stops, process>>

\* accept_login_tokens: TokenStore.save refuses while an obligation stands.
\* The window shows the account's data, unless it is fenced.
AcceptLogin ==
    /\ Free /\ worker.at = "accept"
    /\ worker' = [worker EXCEPT !.at = "none", !.restore = FALSE]
    /\ IF worker.generation # session.generation \/ process = "stopping" \/ Unsettled
       THEN UNCHANGED <<store, session, workspace, server, detached>>
       ELSE LET token == Len(owner) + 1 IN
            /\ owner' = Append(owner, SignInAccount)
            /\ item' = token /\ tombstone' = FALSE /\ identity' = Debt(token, 0)
            /\ session' = SignedIn(token, session.generation)
            /\ workspace' = IF fence.pending THEN workspace ELSE SignInAccount
            /\ detached' = (detached \/ wire.at = "request" \/ job # NoJob)
            /\ UNCHANGED <<marker, gone, revoked>>
    /\ UNCHANGED <<lock, fence>> /\ SignInFrame

Restore ==
    /\ Free /\ process = "up" /\ worker.at = "none" /\ worker.restore
    /\ ~session.authenticated
    /\ worker' = [worker EXCEPT !.at = "restore", !.restore = FALSE,
                                !.generation = session.generation]
    /\ Enter("restore")
    /\ UNCHANGED <<store, session, workspace, server, fence, detached>>
    /\ SignInFrame

\* The answer of the service to the stored token: a session, a 401 that clears
\* the store, or none, and another attempt.
RestoreAnswer ==
    /\ Free /\ worker.at = "me"
    /\ LET current == worker.generation = session.generation /\ process = "up" IN
        \/ /\ current /\ ~Unsettled /\ Stored # 0 /\ Honoured(Stored)
           /\ session' = SignedIn(Stored, session.generation)
           /\ workspace' = IF fence.pending THEN workspace ELSE owner[Stored]
           /\ worker' = [worker EXCEPT !.at = "none"]
           /\ UNCHANGED lock
        \/ /\ current /\ Stored # 0 /\ ~Honoured(Stored)
           /\ Enter("expire")
           /\ UNCHANGED <<session, workspace, worker>>
        \/ /\ worker' = [worker EXCEPT !.at = "none", !.restore = current]
           /\ UNCHANGED <<session, workspace, lock>>
    /\ UNCHANGED <<store, server, fence, detached>> /\ SignInFrame

-----------------------------------------------------------------------------
(* The deletion worker *)

JobFrame == UNCHANGED <<process, store, owed, worker, ui, fence, cleanup, meta,
                        workspace, gone, revoked, asked, detached, faults, stops>>

\* refresh_deletion_access: before the first DELETE when the access token has
\* expired, and once after a 401.  The new pair is saved under the identity
\* that was captured.
RefreshAccess ==
    /\ Free /\ job.step \in {"access", "refresh"}
    /\ LET accepted == /\ Current /\ job.token = session.token
                       /\ Honoured(job.token) /\ ~Unsettled
                       /\ identity.token = job.token IN
       \/ /\ accepted /\ Len(owner) < MaxTokens
          /\ owner' = Append(owner, owner[job.token])
          /\ item' = Len(owner) + 1 /\ identity' = Debt(Len(owner) + 1, 0)
          /\ tombstone' = FALSE
          /\ session' = [session EXCEPT !.token = Len(owner) + 1, !.access = TRUE]
          /\ job' = [job EXCEPT !.token = Len(owner) + 1, !.step = "mark"]
       \/ /\ job' = [job EXCEPT !.step = "failed"]
          /\ UNCHANGED <<item, tombstone, identity, owner, session>>
    /\ UNCHANGED <<lock, wire, marker>>
    /\ UNCHANGED <<process, owed, worker, ui, fence, cleanup, meta, workspace,
                   gone, revoked, asked, detached, faults, stops>>

\* _deletion_access finds the captured access token fresh.
UseAccess ==
    /\ Free /\ job.step = "access"
    /\ job' = [job EXCEPT !.step = "mark"]
    /\ UNCHANGED <<lock, wire, owner, session>> /\ JobFrame

MarkDeletion ==
    /\ Free /\ job.step = "mark"
    /\ Enter("mark")
    /\ UNCHANGED <<job, wire, owner, session>> /\ JobFrame

SendDelete ==
    /\ Free /\ job.step = "send"
    /\ wire' = [at |-> "request", token |-> job.token]
    /\ job' = [job EXCEPT !.step = "wait"]
    /\ UNCHANGED <<lock, owner, session>> /\ JobFrame

\* The worker has the answer, or the request broke off: the service may have
\* deleted the account or not, or may still do it.
DeleteAnswer ==
    /\ Free /\ job.step = "wait"
    /\ \/ wire.at = "deleted" /\ Enter("finish")
       \/ wire.at \in {"refused", "stale"} /\ Enter("refused")
       \/ wire.at # "none" /\ Enter("uncertain")
    /\ job' = job
    /\ UNCHANGED <<wire, owner, session>> /\ JobFrame

\* _account_deleted, complete_deletion and account_deleted; _start drops the
\* result when the generation has moved on.
ReportDeleted ==
    /\ UiFree /\ job.step = "deleted"
    /\ job' = NoJob
    /\ IF Current
       THEN /\ session' = SignedOut(session.generation + 1)
            /\ owed' = owed \ {job.generation}
            /\ fence' = [fence EXCEPT !.pending = TRUE]
            /\ RetryFence(fence.denied)
       ELSE UNCHANGED <<session, owed, fence, lock, ui>>
    /\ UNCHANGED <<process, store, wire, worker, cleanup, meta, workspace,
                   server, asked, detached, faults, stops>>

\* Mutant of Over: fail_deletion always resumes the session.
OverNever == FALSE

\* _deletion_cleanup_pending_locked
Over == job.generation \in owed \/ marker # NoDebt

\* _account_deletion_failed, fail_deletion and account_deletion_failed: a
\* session whose credentials must go is over, another one goes on.
ReportFailed ==
    /\ UiFree /\ job.step = "failed"
    /\ job' = NoJob
    /\ IF Current
       THEN /\ session' = IF Over THEN SignedOut(session.generation + 1)
                                  ELSE [session EXCEPT !.deleting = FALSE]
            /\ owed' = IF Over THEN owed \ {job.generation} ELSE owed
            /\ fence' = [fence EXCEPT !.denied = fence.pending /\ ~Over]
            /\ IF fence.pending THEN RetryFence(~Over) ELSE UNCHANGED <<lock, ui>>
       ELSE UNCHANGED <<session, owed, fence, lock, ui>>
    /\ UNCHANGED <<process, store, wire, worker, cleanup, meta, workspace,
                   server, asked, detached, faults, stops>>

-----------------------------------------------------------------------------
(* The service, and the files *)

ServiceFrame == UNCHANGED <<process, store, session, owed, lock, job, worker,
                            ui, fence, cleanup, meta, workspace, owner, asked,
                            detached, faults, stops>>

HandleDelete ==
    /\ wire.at = "request"
    /\ \/ /\ Honoured(wire.token)
          /\ gone' = gone \cup {owner[wire.token]}
          /\ wire' = [wire EXCEPT !.at = "deleted"]
       \/ wire' = [wire EXCEPT !.at = "refused"] /\ UNCHANGED gone
       \/ wire' = [wire EXCEPT !.at = "stale"] /\ UNCHANGED gone
    /\ UNCHANGED revoked /\ ServiceFrame

\* The marker file does not survive; the confirmed identity is still there.
LoseMarker ==
    /\ lock = Unlocked /\ Confirmed /\ marker # NoDebt
    /\ faults < MaxFaults /\ faults' = faults + 1
    /\ marker' = NoDebt
    /\ UNCHANGED <<process, item, tombstone, identity, session, owed, lock, job,
                   wire, worker, ui, fence, cleanup, meta, workspace, server,
                   asked, detached, stops>>

\* A session ended elsewhere: another device, a rotation that was not stored.
Revoke ==
    /\ revoked = {} /\ revoked' = {Len(owner)}
    /\ UNCHANGED <<gone, wire>> /\ ServiceFrame

-----------------------------------------------------------------------------
(* Other users of the session *)

\* A worker that was started before the deletion calls
\* require_authentication_ready, which does not look at deleting_account.
OtherWork ==
    /\ Free /\ job.step # "none"
    /\ Enter("other")
    /\ UNCHANGED <<LockOnly, ui, fence, meta>>

\* A 401 takes the access token away until the session is refreshed.
AccessRejected ==
    /\ Free /\ session.authenticated
    /\ session' = [session EXCEPT !.access = ~@]
    /\ UNCHANGED <<lock, wire, job, owner>> /\ JobFrame

-----------------------------------------------------------------------------
(* Stopping *)

\* shutdown: the generation moves on, the worker runs to its end.
Shutdown ==
    /\ UiFree /\ process = "up" /\ stops < MaxStops
    /\ stops' = stops + 1 /\ process' = "stopping"
    /\ session' = [session EXCEPT !.generation = @ + 1, !.deleting = FALSE]
    /\ cleanup' = [cleanup EXCEPT !.timer = FALSE]
    /\ detached' = (detached \/ job # NoJob)
    /\ UNCHANGED <<store, owed, lock, job, wire, worker, ui, fence, meta,
                   workspace, server, asked, faults>>

Die ==
    /\ process' = "down"
    /\ session' = SignedOut(1) /\ owed' = {} /\ lock' = Unlocked
    /\ job' = NoJob /\ ui' = "idle" /\ fence' = Lifted
    /\ worker' = [at |-> "none", generation |-> 1, restore |-> TRUE]
    /\ cleanup' = [timer |-> TRUE, generation |-> 1]
    /\ UNCHANGED <<store, wire, meta, workspace, server, asked, detached, faults>>

Exit ==
    /\ process = "stopping" /\ Free /\ job = NoJob /\ worker.at = "none"
    /\ ui = "idle"
    /\ Die /\ UNCHANGED stops

Crash == process # "down" /\ stops < MaxStops /\ stops' = stops + 1 /\ Die

\* activate_persisted_resolution raises the fence again.
Start ==
    /\ process = "down" /\ process' = "up"
    /\ fence' = [pending |-> meta, denied |-> FALSE, timer |-> meta]
    /\ UNCHANGED <<store, session, owed, lock, job, wire, worker, ui, cleanup,
                   meta, workspace, server, asked, detached, faults, stops>>

-----------------------------------------------------------------------------
Settle == LookReady \/ LookMark \/ LookFinish \/ LookRefused \/ LookExpire \/ Write
User == DeleteAccount \/ ClickAccount \/ SignOut \/ Login
Timers == FenceTimer \/ CleanupTimer \/ ResolveFence
SessionWorker == AcceptLogin \/ Restore \/ RestoreAnswer
DeletionWorker ==
    \/ RefreshAccess \/ UseAccess \/ MarkDeletion \/ SendDelete \/ DeleteAnswer
    \/ ReportDeleted \/ ReportFailed

Next ==
    \/ Settle \/ WriteFails \/ User \/ Timers \/ SessionWorker \/ DeletionWorker
    \/ HandleDelete \/ LoseMarker \/ Revoke \/ OtherWork \/ AccessRejected
    \/ Shutdown \/ Exit \/ Crash \/ Start

Spec == Init /\ [][Next]_vars

\* Threads and timers run and a request returns.  Nobody has to delete
\* anything, sign in, press the account button or stop the program.
Fairness ==
    /\ WF_vars(Settle) /\ WF_vars(FenceTimer) /\ WF_vars(CleanupTimer)
    /\ WF_vars(ResolveFence) /\ WF_vars(SessionWorker) /\ WF_vars(DeletionWorker)

FairSpec == Spec /\ Fairness

-----------------------------------------------------------------------------
(* Properties *)

\* Once the remote deletion is confirmed in the identity file, no session goes
\* on with those credentials, whichever write failed and however the program
\* was stopped: only the deletion itself may still be running.
ConfirmedNeverAuthenticates ==
    process = "up" /\ Confirmed /\ session.authenticated => session.deleting

\* An obligation takes away the credentials of an account whose DELETE was
\* announced and not refused, and no others: not those of a later sign-in, nor
\* those a refusal left in place.
OnlyAskedForIsForgotten ==
    [][item # 0 /\ item' = 0 /\ lock.due # NoDebt => owner[item] \in asked]_vars

\* Data of an account the service has deleted stay behind the fence, over
\* restarts too, until they are scrubbed.  The exceptions are what `detached`
\* records: shutdown withdraws the obligation of a running deletion.
DeletedIsFenced == workspace \in gone => meta \/ detached

\* strings.en.json, account.delete_prompt: "Local data is cleared only after
\* the server confirms deletion."  Weaker here: only after a DELETE was at
\* least announced and not refused.
ScrubFollowsDelete ==
    [][ui = "resolve" /\ workspace' # workspace => workspace \in asked]_vars

\* A running program settles every obligation, by its timers alone, through
\* failing writes and a lost marker: nothing blocks sign-in for ever.
ObligationSettles ==
    (process = "up" /\ Unsettled) ~> (process # "up" \/ ~Unsettled)

=============================================================================
