-------------------------- MODULE SessionRevocations --------------------------
(***************************************************************************)
(* The sessions a device still has to revoke after its sign-outs:          *)
(* PendingSessionRevocations in the secure store, its replay by            *)
(* AccountLifecycle.revoke, and the workers, retries and restart of        *)
(* CloudService that keep the replay going.                                *)
(*                                                                         *)
(* One process is the app (an instance lock admits no second one); others  *)
(* of the same device replay the same queue.  The claim of a job is a lock *)
(* file: it dies with its process.  A read-modify-write of the queue is    *)
(* one step, under the lock of the origins key; the index of origins and   *)
(* the queue are two keys, written by two steps.                           *)
(*                                                                         *)
(* A token is the number the server gave it; a session has an API origin   *)
(* of its own and bears its name.  Of an access token only one taken for   *)
(* fresh is kept: a stale one is never sent.  Not covered:                 *)
(* the commit protocol of the token store (CredentialStore), jobs without  *)
(* an origin, malformed values, and the backoff times.                     *)
(***************************************************************************)
EXTENDS Naturals, FiniteSets

CONSTANTS Processes,   \* processes of the device
          App,         \* the one that signs in and out
          Sessions,    \* sessions the services may open for the device
          Origins,     \* API origins a process may be started with
          None,
          MaxTries,    \* sign-outs asked for per session
          MaxIssue,    \* tokens a session is issued while it is signed in
          MaxFaults    \* crashes, failed writes, lost requests, expiries

ASSUME AppAssumption == App \in Processes
ASSUME OriginAssumption == Sessions \subseteq Origins
ASSUME BoundAssumption == {MaxTries, MaxIssue, MaxFaults} \subseteq Nat

\* A job is a captured session; every sign-out makes a job of its own.
Jobs == Sessions \X (1..MaxTries)
Session(j) == j[1]

\* LogoutCredentials, and a sign-out on its way.
Credentials == [access : Nat, refresh : Nat, acknowledged : BOOLEAN]
SignOuts    == [job : Jobs, cred : Credentials, queued : BOOLEAN]

ASSUME NoneAssumption == None \notin Sessions \cup Credentials \cup SignOuts

VARIABLES
    server,    \* per session: the service's side of it
    store,     \* the session in the token store, or None
    index,     \* the origins of the durable index
    queue,     \* per job: its durable credentials, or None
    tried,     \* per session: the sign-outs begun
    leaving,   \* the sign-out the app is in, or None
    up,        \* per process: whether it runs
    worker,    \* per process and job: its RevocationState and the worker's place
    faults

vars == <<server, store, index, queue, tried, leaving, up, worker, faults>>

Idle == [at |-> "idle", cred |-> None, durable |-> None]
\* Loaded or captured, and waiting for its worker or its retry.
Waiting(c) == [at |-> "waiting", cred |-> c, durable |-> None]
\* Places where the job is claimed; in Sending a request for it is out.
Sending == {"refresh", "logout", "refresh again", "logout again"}
Owning == Sending \cup {"keep", "keep again", "confirm", "settle"}

Init ==
    /\ server = [s \in Sessions |->
                    [alive |-> FALSE, refresh |-> 0, issued |-> 0, live |-> {}]]
    /\ store = None /\ index = {} /\ leaving = None /\ faults = 0
    /\ queue = [j \in Jobs |-> None]
    /\ tried = [s \in Sessions |-> 0]
    /\ up = [p \in Processes |-> TRUE]
    /\ worker = [p \in Processes |-> [j \in Jobs |-> Idle]]

-----------------------------------------------------------------------------
(* The service (external).                                                 *)

\* A refresh token serves until a rotation replaces it; a response may keep it.
Accepts(s, token) == server[s].alive /\ server[s].refresh = token
Issued(s, rotates) ==
    LET n == server[s].issued + 1
    IN  [server EXCEPT ![s].issued = n, ![s].live = @ \cup {n},
                       ![s].refresh = IF rotates THEN n ELSE @]
Authorized(s, token) == server[s].alive /\ token \in server[s].live

Fault == faults < MaxFaults /\ faults' = faults + 1

Expire(s) ==
    /\ Fault
    /\ \E n \in server[s].live : server' = [server EXCEPT ![s].live = @ \ {n}]
    /\ UNCHANGED <<store, index, queue, tried, leaving, up, worker>>

SignIn(s) ==
    /\ up[App] /\ store = None /\ leaving = None /\ server[s].issued = 0
    /\ server' = [Issued(s, TRUE) EXCEPT ![s].alive = TRUE]
    /\ store' = s
    /\ UNCHANGED <<index, queue, tried, leaving, up, worker, faults>>

\* The signed-in app goes on refreshing its session.
SessionRefreshed ==
    /\ up[App] /\ leaving = None /\ store # None
    /\ server[store].alive /\ server[store].issued < MaxIssue
    /\ server' = Issued(store, TRUE)
    /\ UNCHANGED <<store, index, queue, tried, leaving, up, worker, faults>>

-----------------------------------------------------------------------------
(* Sign-out: the job is durable before the credentials go.                 *)

Captured(s, fresh) ==
    [access |-> IF fresh THEN server[s].issued ELSE 0,
     refresh |-> server[s].refresh, acknowledged |-> FALSE]

Remembered(s) == index \cup {s}

BeginSignOut(fresh) ==
    /\ up[App] /\ leaving = None /\ store # None /\ tried[store] < MaxTries
    /\ LET k == tried[store] + 1 IN
       /\ tried' = [tried EXCEPT ![store] = k]
       /\ \/ /\ index' = Remembered(store)
             /\ leaving' = [job |-> <<store, k>>, cred |-> Captured(store, fresh),
                            queued |-> FALSE]
             /\ UNCHANGED faults
          \/ /\ Fault /\ index' \in {index, Remembered(store)}
             /\ UNCHANGED leaving
    /\ UNCHANGED <<server, store, queue, up, worker>>

Enqueue ==
    /\ leaving # None /\ ~leaving.queued
    /\ LET written == [queue EXCEPT ![leaving.job] = leaving.cred] IN
       \/ queue' = written /\ leaving' = [leaving EXCEPT !.queued = TRUE]
          /\ UNCHANGED faults
       \/ Fault /\ queue' \in {queue, written} /\ leaving' = None
    /\ UNCHANGED <<server, store, index, tried, up, worker>>

\* Mutant of Clearable: the credentials go before the job is durable.
ClearableAtOnce == leaving # None
\* The job is durable, so the token store may be cleared.  If that fails the
\* session is retained: the job waits for the next start of a process.
Clearable == leaving # None /\ leaving.queued

ClearStore ==
    /\ Clearable
    /\ leaving' = None
    /\ \/ /\ store' = None
          /\ worker' = [worker EXCEPT ![App][leaving.job] = Waiting(leaving.cred)]
          /\ UNCHANGED faults
       \/ Fault /\ UNCHANGED <<store, worker>>
    /\ UNCHANGED <<server, index, queue, tried, up>>

-----------------------------------------------------------------------------
(* Replay of one job.                                                      *)

Moved(p, j, w) == worker' = [worker EXCEPT ![p][j] = w]
At(p, j, place) == [worker[p][j] EXCEPT !.at = place]
\* An error ends the worker and starts the timer of the next attempt.
Retries(p, j) == Moved(p, j, At(p, j, "waiting"))

\* update never enqueues and never replaces an acknowledged job.
Updated(j, c) ==
    IF queue[j] = None \/ queue[j].acknowledged THEN queue
    ELSE [queue EXCEPT ![j] = c]

\* Mutant of Newest: a state is replayed as it was loaded.
NewestLoaded(w, current) == w.cred
\* A state whose record nobody changed is newer than it; else the record is.
Newest(w, current) == IF w.durable = current THEN w.cred ELSE current

Next1(c) ==
    IF c.acknowledged THEN "settle" ELSE IF c.access # 0 THEN "logout" ELSE "refresh"

Unclaimed(j) == \A q \in Processes : worker[q][j].at \notin Owning

Claim(p, j) ==
    LET w == worker[p][j]
        c == Newest(w, queue[j])
    IN  /\ w.at = "waiting" /\ Unclaimed(j)
        /\ \/ /\ queue[j] = None
              /\ Moved(p, j, [Idle EXCEPT !.at = "done"])
              /\ UNCHANGED <<queue, faults>>
           \/ /\ queue[j] # None
              /\ queue' = Updated(j, c)
              /\ Moved(p, j, [at |-> Next1(c), cred |-> c, durable |-> c])
              /\ UNCHANGED faults
           \/ /\ queue[j] # None /\ w.durable = queue[j]
              /\ Fault /\ queue' \in {queue, Updated(j, c)}
              /\ UNCHANGED worker
        /\ UNCHANGED <<server, store, index, tried, leaving, up>>

Refresh(p, j, from, to) ==
    LET w == worker[p][j]
        s == Session(j)
    IN  /\ w.at = from
        /\ \/ /\ Accepts(s, w.cred.refresh)
              /\ \E rotates \in BOOLEAN :
                   /\ server' = Issued(s, rotates)
                   /\ \/ /\ Moved(p, j, [w EXCEPT !.at = to,
                                   !.cred.access = server'[s].issued,
                                   !.cred.refresh = server'[s].refresh])
                         /\ UNCHANGED faults
                      \/ Fault /\ Retries(p, j)   \* the answer is lost
           \/ /\ ~Accepts(s, w.cred.refresh)
              /\ Retries(p, j) /\ UNCHANGED <<server, faults>>
           \/ Fault /\ Retries(p, j) /\ UNCHANGED server
        /\ UNCHANGED <<store, index, queue, tried, leaving, up>>

\* _save_revocation: the credentials of the state become the durable ones.
Save(p, j, from, to) ==
    LET w == worker[p][j] IN
    /\ w.at = from
    /\ \/ /\ queue' = Updated(j, w.cred)
          /\ Moved(p, j, [w EXCEPT !.at = to, !.durable = w.cred])
          /\ UNCHANGED faults
       \/ /\ Fault /\ queue' \in {queue, Updated(j, w.cred)}
          /\ Retries(p, j)
    /\ UNCHANGED <<server, store, index, tried, leaving, up>>

\* Mutant of Refused: a refused access token is only tried again.
RefusedTwice(p, j) == At(p, j, "waiting")
\* A 401 to the first access token is answered by one refresh.
Refused(p, j) ==
    IF worker[p][j].at = "logout"
    THEN [worker[p][j] EXCEPT !.at = "refresh again", !.cred.access = 0]
    ELSE At(p, j, "waiting")

Logout(p, j, from) ==
    LET w == worker[p][j]
        s == Session(j)
    IN  /\ w.at = from
        /\ \/ /\ Authorized(s, w.cred.access)
              /\ server' = [server EXCEPT ![s].alive = FALSE, ![s].live = {}]
              /\ \/ /\ Moved(p, j, [w EXCEPT !.at = "confirm",
                                             !.cred.acknowledged = TRUE])
                    /\ UNCHANGED faults
                 \/ Fault /\ Retries(p, j)
           \/ /\ ~Authorized(s, w.cred.access)
              /\ Moved(p, j, Refused(p, j))
              /\ UNCHANGED <<server, faults>>
           \/ Fault /\ Retries(p, j) /\ UNCHANGED server
        /\ UNCHANGED <<store, index, queue, tried, leaving, up>>

Settle(p, j) ==
    LET removed == [queue EXCEPT ![j] = None] IN
    /\ worker[p][j].at = "settle"
    /\ \/ /\ queue' = removed
          /\ Moved(p, j, [Idle EXCEPT !.at = "done"])
          /\ UNCHANGED faults
       \/ Fault /\ queue' \in {queue, removed} /\ Retries(p, j)
    /\ UNCHANGED <<server, store, index, tried, leaving, up>>

Replay(p, j) ==
    \/ Refresh(p, j, "refresh", "keep")
    \/ Save(p, j, "keep", "logout")
    \/ Logout(p, j, "logout")
    \/ Refresh(p, j, "refresh again", "keep again")
    \/ Save(p, j, "keep again", "logout again")
    \/ Logout(p, j, "logout again")
    \/ Save(p, j, "confirm", "settle")
    \/ Settle(p, j)

-----------------------------------------------------------------------------
(* Processes end at any point and start at any configured API origin.      *)

Crash(p) ==
    /\ up[p] /\ Fault
    /\ up' = [up EXCEPT ![p] = FALSE]
    /\ worker' = [worker EXCEPT ![p] = [j \in Jobs |-> Idle]]
    /\ leaving' = IF p = App THEN None ELSE leaving
    /\ UNCHANGED <<server, store, index, queue, tried>>

Restored(api) ==
    [j \in Jobs |-> IF queue[j] # None /\ Session(j) \in index \cup {api}
                    THEN Waiting(queue[j]) ELSE Idle]

Start(p, api) ==
    /\ ~up[p]
    /\ up' = [up EXCEPT ![p] = TRUE]
    /\ worker' = [worker EXCEPT ![p] = Restored(api)]
    /\ index' = IF \E j \in Jobs : Session(j) = api /\ queue[j] # None
                THEN Remembered(api) ELSE index
    /\ UNCHANGED <<server, store, queue, tried, leaving, faults>>

Next ==
    \/ \E s \in Sessions : SignIn(s) \/ Expire(s)
    \/ SessionRefreshed
    \/ \E fresh \in BOOLEAN : BeginSignOut(fresh)
    \/ Enqueue \/ ClearStore
    \/ \E p \in Processes, j \in Jobs : Claim(p, j) \/ Replay(p, j)
    \/ \E p \in Processes : Crash(p) \/ \E api \in Origins : Start(p, api)

Spec == Init /\ [][Next]_vars

\* A step begun is finished, a retry timer fires and gets the lock in its
\* turn, and a process that ended is started again.
FairSpec ==
    /\ Spec
    /\ WF_vars(Enqueue) /\ WF_vars(ClearStore)
    /\ \A p \in Processes :
         /\ WF_vars(\E api \in Origins : Start(p, api))
         /\ \A j \in Jobs : SF_vars(Claim(p, j)) /\ WF_vars(Replay(p, j))

-----------------------------------------------------------------------------
(* Properties.                                                             *)

\* Whatever ends a process between two writes, a queue that holds a job is
\* found by a later start at any API: its origin is in the durable index
\* (enqueue, load_all).
OriginsIndexed == \A j \in Jobs : queue[j] # None => Session(j) \in index

\* A session the service still honours is either signed in or queued for
\* revocation: no failed write, crash, lost answer or refusal lets the device
\* forget it (sign_out, revoke, acknowledge).
NoSessionForgotten ==
    \A s \in Sessions : server[s].alive =>
        \/ store = s
        \/ \E j \in Jobs : /\ Session(j) = s /\ queue[j] # None
                           /\ ~queue[j].acknowledged

\* Once a revocation is recorded as acknowledged, or is gone, no process of
\* the device sends a token of it again, however old the state it replays
\* (revoke, _revalidate_revocation).
OnlyPendingAreSent ==
    \A p \in Processes, j \in Jobs : worker[p][j].at \in Sending =>
        queue[j] # None /\ ~queue[j].acknowledged

\* The newest refresh token is with the app, in the queue or with a worker.
NewestKnown(s) ==
    \/ store = s
    \/ \E j \in Jobs : /\ Session(j) = s
                       /\ \/ queue[j] # None /\ queue[j].refresh = server[s].refresh
                          \/ \E p \in Processes :
                               /\ worker[p][j].cred # None
                               /\ worker[p][j].cred.refresh = server[s].refresh

\* A queued session is revoked in the end and its job leaves the queue, over
\* crashes, restarts at another origin, expired tokens and failed writes.  A
\* job stays only where it cannot be finished: its session is still signed
\* in, its newest token is lost, or the service ended the session but the
\* device never got to record it (_retry_revocation, _restore_revocations).
EventuallyRevoked ==
    \A j \in Jobs : queue[j] # None ~>
        \/ queue[j] = None
        \/ store = Session(j)
        \/ /\ ~queue[j].acknowledged
           /\ ~server[Session(j)].alive \/ ~NewestKnown(Session(j))
=============================================================================
