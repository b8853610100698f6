----------------------- MODULE SessionRevocations_proofs -----------------------
(***************************************************************************)
(* For any number of processes, sessions, origins and sign-outs: a session *)
(* the service honours is signed in or queued, and a revocation that is    *)
(* recorded or gone is never sent again.                                   *)
(***************************************************************************)
EXTENDS SessionRevocations, TLAPS

Places == Owning \cup {"idle", "waiting", "done"}
Worker == [at : Places, cred : Credentials \cup {None},
           durable : Credentials \cup {None}]
Server == [alive : BOOLEAN, refresh : Nat, issued : Nat, live : SUBSET Nat]

Typed ==
    /\ server \in [Sessions -> Server]
    /\ store \in Sessions \cup {None}
    /\ leaving \in SignOuts \cup {None}
    /\ queue \in [Jobs -> Credentials \cup {None}]
    /\ tried \in [Sessions -> 0..MaxTries]
    /\ worker \in [Processes -> [Jobs -> Worker]]

\* The service ended the session; it is not opened a second time.
Ended(s)   == ~server[s].alive /\ server[s].issued # 0
Pending(j) == queue[j] # None /\ ~queue[j].acknowledged

AliveIssued == \A s \in Sessions : server[s].alive => server[s].issued # 0
QueueEnded  == \A j \in Jobs : queue[j] # None /\ queue[j].acknowledged
                                   => Ended(Session(j))

\* Places where the credentials are not acknowledged, and the record is not.
Asking == Sending \cup {"keep", "keep again"}

\* The state w of a worker for a job whose record is c, when the service has
\* ended the session or not.
StateOK(w, c, ended) ==
    /\ w.at \in Owning \cup {"waiting"} => w.cred # None
    /\ w.durable # None /\ w.durable.acknowledged
           => w.cred # None /\ w.cred.acknowledged
    /\ w.cred # None /\ w.cred.acknowledged => ended
    /\ w.at \in Asking => /\ ~w.cred.acknowledged
                          /\ c # None /\ ~c.acknowledged
    /\ w.at \in {"confirm", "settle"} => w.cred.acknowledged

WorkersOK ==
    \A p \in Processes, j \in Jobs :
        StateOK(worker[p][j], queue[j], Ended(Session(j)))

OneOwner ==
    \A p, q \in Processes, j \in Jobs :
        worker[p][j].at \in Owning /\ worker[q][j].at \in Owning => p = q

\* Nobody has met the job.
Unknown(j) == queue[j] = None /\ \A p \in Processes : worker[p][j] = Idle

Untried == \A j \in Jobs : j[2] > tried[Session(j)] => Unknown(j)

\* A sign-out on its way: its job is new until it is durable, and from then
\* on it is pending as long as the session lives.
LeavingOK ==
    leaving # None =>
        /\ store = Session(leaving.job) /\ store \in index
        /\ leaving.job[2] <= tried[store]
        /\ ~leaving.cred.acknowledged
        /\ ~leaving.queued => Unknown(leaving.job)
        /\ leaving.queued /\ server[store].alive => Pending(leaving.job)

IInv ==
    /\ Typed /\ OriginsIndexed /\ AliveIssued /\ QueueEnded /\ WorkersOK
    /\ OneOwner /\ Untried /\ LeavingOK /\ NoSessionForgotten
-------------------------------------------------------------------------------
LEMMA JobFacts ==
    /\ MaxTries \in Nat
    /\ \A j \in Jobs : /\ Session(j) = j[1] /\ Session(j) \in Sessions
                       /\ j[2] \in 1..MaxTries
    /\ \A s \in Sessions, k \in 1..MaxTries : <<s, k>> \in Jobs
  BY BoundAssumption DEF Jobs, Session

LEMMA LeavingFacts ==
    ASSUME Typed, leaving # None
    PROVE  /\ leaving \in SignOuts /\ leaving.job \in Jobs
           /\ leaving.cred \in Credentials /\ leaving.queued \in BOOLEAN
           /\ leaving.cred # None
  BY NoneAssumption DEF Typed, SignOuts

LEMMA IdleTyped ==
    /\ Idle \in Worker /\ Idle.at = "idle" /\ Idle.cred = None
    /\ Idle.durable = None
    /\ [Idle EXCEPT !.at = "done"] \in Worker
  BY DEF Idle, Worker, Places

\* An idle worker, one that waits with unacknowledged credentials, and one
\* that is done are all right whatever the record says.
LEMMA IdleOK ==
    ASSUME NEW c, NEW e \in BOOLEAN
    PROVE  StateOK(Idle, c, e) /\ StateOK([Idle EXCEPT !.at = "done"], c, e)
  BY DEF Idle, StateOK, Owning, Sending, Asking

LEMMA WaitingOK ==
    ASSUME NEW x \in Credentials, NEW c, NEW e \in BOOLEAN, x.acknowledged => e
    PROVE  Waiting(x) \in Worker /\ StateOK(Waiting(x), c, e)
  BY NoneAssumption DEF Waiting, StateOK, Worker, Places, Owning, Sending, Asking

\* The service: a token issued revives nothing.
LEMMA IssuedSafe ==
    ASSUME Typed, NEW s \in Sessions, NEW rotates \in BOOLEAN
    PROVE  /\ Issued(s, rotates) \in [Sessions -> Server]
           /\ \A x \in Sessions :
                  /\ Issued(s, rotates)[x].alive = server[x].alive
                  /\ server[x].issued # 0 => Issued(s, rotates)[x].issued # 0
           /\ Issued(s, rotates)[s].issued # 0
           /\ \A x \in Sessions \ {s} : Issued(s, rotates)[x] = server[x]
<1> DEFINE n    == server[s].issued + 1
           next == [server[s] EXCEPT !.issued = n, !.live = server[s].live \cup {n},
                        !.refresh = IF rotates THEN n ELSE server[s].refresh]
<1>1. server \in [Sessions -> Server] /\ server[s] \in Server
  BY DEF Typed
<1>2. next \in Server /\ next.issued # 0 /\ next.alive = server[s].alive
  <2>1. /\ n \in Nat \ {0} /\ server[s].live \cup {n} \in SUBSET Nat
        /\ (IF rotates THEN n ELSE server[s].refresh) \in Nat
    BY <1>1 DEF Server
  <2> HIDE DEF n
  <2> QED  BY <1>1, <2>1 DEF Server
<1>3. Issued(s, rotates) = [server EXCEPT ![s] = next]
  BY <1>1 DEF Issued, Server
<1> HIDE DEF next
<1> QED  BY <1>1, <1>2, <1>3

\* What a step may do to the service once no session is opened.
Ages(next) ==
    /\ next \in [Sessions -> Server]
    /\ \A s \in Sessions : /\ next[s].alive => server[s].alive
                           /\ server[s].issued # 0 => next[s].issued # 0

\* A step that leaves the device alone.
LEMMA ServiceSafe ==
    ASSUME IInv, Ages(server'),
           UNCHANGED <<store, index, queue, tried, leaving, worker>>
    PROVE  IInv'
<1>1. \A s \in Sessions : Ended(s) => Ended(s)'
  BY DEF Ages, Ended
<1>2. Typed' /\ OriginsIndexed' /\ OneOwner' /\ Untried'
  BY DEF IInv, Typed, Ages, OriginsIndexed, OneOwner, Untried, Unknown
<1>3. AliveIssued' /\ NoSessionForgotten'
  BY DEF IInv, AliveIssued, NoSessionForgotten, Ages
<1>4. QueueEnded'
  BY <1>1, JobFacts DEF IInv, QueueEnded
<1>5. WorkersOK'
  BY <1>1, JobFacts DEF IInv, WorkersOK, StateOK
<1>6. LeavingOK'
  <2>1. leaving # None => store \in Sessions
    BY JobFacts, LeavingFacts DEF IInv, LeavingOK
  <2> QED  BY <2>1 DEF IInv, LeavingOK, Unknown, Pending, Ages
<1> QED  BY <1>2, <1>3, <1>4, <1>5, <1>6 DEF IInv
-------------------------------------------------------------------------------
(* Replay. *)

\* The state of one worker becomes w and the record of its job c; the worker
\* holds the job alone.
LEMMA ReplaySafe ==
    ASSUME IInv, Ages(server'), NEW p \in Processes, NEW j \in Jobs,
           worker[p][j].at # "idle",
           \A q \in Processes \ {p} : worker[q][j].at \notin Owning,
           NEW w \in Worker, worker' = [worker EXCEPT ![p][j] = w],
           NEW c \in Credentials \cup {None}, queue' = [queue EXCEPT ![j] = c],
           c # None => queue[j] # None,
           c # None /\ c.acknowledged => Ended(Session(j))',
           Pending(j) => (c # None /\ ~c.acknowledged) \/ Ended(Session(j))',
           StateOK(w, c, Ended(Session(j))'),
           UNCHANGED <<store, index, tried, leaving>>
    PROVE  IInv'
<1>1. \A s \in Sessions : Ended(s) => Ended(s)'
  BY DEF Ages, Ended
<1>2. /\ queue \in [Jobs -> Credentials \cup {None}]
      /\ worker \in [Processes -> [Jobs -> Worker]]
      /\ queue'[j] = c /\ \A i \in Jobs \ {j} : queue'[i] = queue[i]
      /\ worker'[p][j] = w
      /\ \A q \in Processes, i \in Jobs :
             q # p \/ i # j => worker'[q][i] = worker[q][i]
  BY DEF IInv, Typed
<1>3. Typed'
  BY <1>2 DEF IInv, Typed, Ages
<1>4. OriginsIndexed' /\ AliveIssued'
  BY <1>2 DEF IInv, OriginsIndexed, AliveIssued, Ages
<1>5. QueueEnded'
  BY <1>1, <1>2, JobFacts DEF IInv, QueueEnded
<1>6. OneOwner'
  BY <1>2 DEF IInv, OneOwner
<1>7. ~Unknown(j)
  BY IdleTyped DEF Unknown
<1>8. \A i \in Jobs : Unknown(i) => Unknown(i)'
  BY <1>2, <1>7 DEF Unknown
<1>9. Untried'
  BY <1>8, JobFacts DEF IInv, Untried
<1>10. WorkersOK'
  <2> SUFFICES ASSUME NEW q \in Processes, NEW i \in Jobs
               PROVE  StateOK(worker'[q][i], queue'[i], Ended(Session(i))')
    BY DEF WorkersOK
  <2>1. StateOK(worker[q][i], queue[i], Ended(Session(i))) /\ Session(i) \in Sessions
    BY JobFacts DEF IInv, WorkersOK
  <2>2. CASE i # j
    BY <1>1, <1>2, <2>1, <2>2 DEF StateOK
  <2>3. CASE i = j /\ q = p
    BY <1>2, <2>3
  <2>4. CASE i = j /\ q # p
    <3>1. worker[q][i].at \notin Owning
      BY <2>4
    <3> QED  BY <1>1, <1>2, <2>1, <2>4, <3>1
               DEF StateOK, Owning, Asking, Sending
  <2> QED  BY <2>2, <2>3, <2>4
\* A pending job stays pending while its session lives.
<1>11. \A i \in Jobs : Pending(i) /\ server'[Session(i)].alive => Pending(i)'
  BY <1>2 DEF Pending, Ended
<1>12. LeavingOK'
  <2> SUFFICES ASSUME leaving # None
               PROVE  LeavingOK'
    BY DEF LeavingOK
  <2>1. leaving.job \in Jobs /\ store = Session(leaving.job) /\ store \in Sessions
    BY JobFacts, LeavingFacts DEF IInv, LeavingOK
  <2>2. ~leaving.queued => Unknown(leaving.job)'
    BY <1>8, <2>1 DEF IInv, LeavingOK
  <2>3. leaving.queued /\ server'[store].alive => Pending(leaving.job)'
    BY <1>11, <2>1 DEF IInv, LeavingOK, Ages
  <2> QED  BY <2>1, <2>2, <2>3 DEF IInv, LeavingOK
<1>13. NoSessionForgotten'
  BY <1>11 DEF IInv, NoSessionForgotten, Ages, Pending
<1> QED  BY <1>3, <1>4, <1>5, <1>6, <1>9, <1>10, <1>12, <1>13 DEF IInv

\* What a worker holds; an owner holds its job alone.
LEMMA WorkerFacts ==
    ASSUME IInv, NEW p \in Processes, NEW j \in Jobs
    PROVE  /\ worker[p][j] \in Worker /\ queue[j] \in Credentials \cup {None}
           /\ StateOK(worker[p][j], queue[j], Ended(Session(j)))
           /\ Session(j) \in Sessions /\ server[Session(j)] \in Server
           /\ worker[p][j].at \in Owning \cup {"waiting"} =>
                  /\ worker[p][j].at # "idle" /\ worker[p][j].cred \in Credentials
           /\ worker[p][j].at \in Owning =>
                  \A q \in Processes \ {p} : worker[q][j].at \notin Owning
<1>1. /\ worker[p][j] \in Worker /\ queue[j] \in Credentials \cup {None}
      /\ StateOK(worker[p][j], queue[j], Ended(Session(j)))
      /\ Session(j) \in Sessions /\ server[Session(j)] \in Server
  BY JobFacts DEF IInv, Typed, WorkersOK
<1>2. worker[p][j].at \in Owning \cup {"waiting"} =>
          worker[p][j].at # "idle" /\ worker[p][j].cred \in Credentials
  BY <1>1 DEF StateOK, Worker, Owning, Sending
<1>3. worker[p][j].at \in Owning =>
          \A q \in Processes \ {p} : worker[q][j].at \notin Owning
  BY DEF IInv, OneOwner
<1> QED  BY <1>1, <1>2, <1>3

\* Nothing changes in the service.
LEMMA SameServer ==
    ASSUME IInv, UNCHANGED server
    PROVE  Ages(server') /\ \A s \in Sessions : Ended(s)' = Ended(s)
  BY DEF IInv, Typed, Ages, Ended

\* An error: the worker waits, with the credentials it has; the record may
\* or may not have become c.
LEMMA RetrySafe ==
    ASSUME IInv, Ages(server'), NEW p \in Processes, NEW j \in Jobs,
           worker[p][j].at \in Owning, Retries(p, j),
           NEW c \in Credentials \cup {None}, queue' = [queue EXCEPT ![j] = c],
           c # None => queue[j] # None,
           c # None /\ c.acknowledged => Ended(Session(j))',
           Pending(j) => (c # None /\ ~c.acknowledged) \/ Ended(Session(j))',
           UNCHANGED <<store, index, tried, leaving>>
    PROVE  IInv'
<1> DEFINE w == At(p, j, "waiting")
<1>1. w \in Worker
  BY WorkerFacts DEF At, Worker, Places
<1>2. Ended(Session(j)) => Ended(Session(j))'
  BY JobFacts DEF Ages, Ended
<1>3. StateOK(w, c, Ended(Session(j))')
  BY <1>2, WorkerFacts DEF At, Worker, StateOK, Owning, Sending, Asking
<1>4. worker' = [worker EXCEPT ![p][j] = w]
  BY DEF Retries, Moved
<1> HIDE DEF w
<1> QED  BY <1>1, <1>3, <1>4, WorkerFacts, ReplaySafe

\* An error of a request leaves the record.
LEMMA RequestRetrySafe ==
    ASSUME IInv, Ages(server'), NEW p \in Processes, NEW j \in Jobs,
           worker[p][j].at \in Owning, Retries(p, j),
           UNCHANGED <<store, index, queue, tried, leaving>>
    PROVE  IInv'
<1>1. /\ queue \in [Jobs -> Credentials \cup {None}]
      /\ queue' = [queue EXCEPT ![j] = queue[j]]
  BY DEF IInv, Typed
<1>2. queue[j] # None /\ queue[j].acknowledged => Ended(Session(j))'
  BY JobFacts DEF IInv, QueueEnded, Ages, Ended
<1>3. Pending(j) => queue[j] # None /\ ~queue[j].acknowledged
  BY DEF Pending
<1> QED  BY <1>1, <1>2, <1>3, RetrySafe

LEMMA RefreshSafe ==
    ASSUME IInv, NEW p \in Processes, NEW j \in Jobs,
           NEW from \in {"refresh", "refresh again"},
           NEW to \in {"keep", "keep again"}, Refresh(p, j, from, to)
    PROVE  IInv'
<1> DEFINE s == Session(j)
           w == worker[p][j]
<1>1. w.at = from /\ w.at \in Owning /\ w.at \in Asking
  BY DEF Refresh, Owning, Sending, Asking
<1>2. UNCHANGED <<store, index, queue, tried, leaving>>
  BY DEF Refresh
<1>3. CASE UNCHANGED server /\ Retries(p, j)
  BY <1>1, <1>2, <1>3, SameServer, RequestRetrySafe
<1>4. ASSUME NEW rotates \in BOOLEAN, server' = Issued(s, rotates)
      PROVE  Ages(server')
  <2>1. Typed /\ s \in Sessions
    BY JobFacts DEF IInv
  <2> HIDE DEF s
  <2> QED  BY <1>4, <2>1, IssuedSafe DEF Ages
<1>5. CASE Retries(p, j) /\ \E rotates \in BOOLEAN : server' = Issued(s, rotates)
  BY <1>1, <1>2, <1>4, <1>5, RequestRetrySafe
<1>6. ASSUME NEW rotates \in BOOLEAN, server' = Issued(s, rotates),
             Moved(p, j, [w EXCEPT !.at = to, !.cred.access = server'[s].issued,
                                   !.cred.refresh = server'[s].refresh])
      PROVE  IInv'
  <2> DEFINE cred == [w.cred EXCEPT !.access = server'[s].issued,
                                    !.refresh = server'[s].refresh]
             next == [w EXCEPT !.at = to, !.cred = cred]
  <2>1. Ages(server') /\ server'[s] \in Server
    BY <1>4, <1>6, WorkerFacts DEF Ages
  <2>2. /\ w \in Worker /\ w.cred \in Credentials /\ StateOK(w, queue[j], Ended(s))
        /\ queue[j] \in Credentials \cup {None}
    BY <1>1, WorkerFacts
  <2>3. cred \in Credentials /\ cred.acknowledged = w.cred.acknowledged
    BY <2>1, <2>2 DEF Credentials, Server
  <2>4. worker' = [worker EXCEPT ![p][j] = next]
    BY <1>6, <2>2 DEF Moved, Worker, Credentials
  <2> HIDE DEF cred
  <2>5. next \in Worker
    BY <2>2, <2>3 DEF Worker, Places, Owning
  <2>6. StateOK(next, queue[j], Ended(s)')
    BY <1>1, <2>2, <2>3, NoneAssumption
       DEF StateOK, Worker, Owning, Sending, Asking
  <2>7. queue' = [queue EXCEPT ![j] = queue[j]]
    BY <1>2 DEF IInv, Typed
  <2>8. /\ queue[j] # None /\ ~queue[j].acknowledged
        /\ \A q \in Processes \ {p} : worker[q][j].at \notin Owning
        /\ worker[p][j].at # "idle"
    BY <1>1, <2>2, WorkerFacts DEF StateOK
  <2> HIDE DEF next
  <2> QED  BY <1>2, <2>1, <2>2, <2>4, <2>5, <2>6, <2>7, <2>8, ReplaySafe
<1>7. \/ UNCHANGED server /\ Retries(p, j)
      \/ Retries(p, j) /\ \E rotates \in BOOLEAN : server' = Issued(s, rotates)
      \/ \E rotates \in BOOLEAN :
             /\ server' = Issued(s, rotates)
             /\ Moved(p, j, [w EXCEPT !.at = to,
                                      !.cred.access = server'[s].issued,
                                      !.cred.refresh = server'[s].refresh])
  BY Zenon DEF Refresh
<1> QED  BY <1>3, <1>5, <1>6, <1>7

\* What update leaves of a record that the worker holds.
LEMMA UpdatedFacts ==
    ASSUME IInv, NEW j \in Jobs, NEW x \in Credentials
    PROVE  \E c \in Credentials \cup {None} :
               /\ Updated(j, x) = [queue EXCEPT ![j] = c]
               /\ c # None <=> queue[j] # None
               /\ c = IF Pending(j) THEN x ELSE queue[j]
<1>1. /\ queue \in [Jobs -> Credentials \cup {None}]
      /\ queue = [queue EXCEPT ![j] = queue[j]]
  BY DEF IInv, Typed
<1>2. CASE Pending(j)
  BY <1>2, NoneAssumption DEF Updated, Pending
<1>3. CASE ~Pending(j)
  BY <1>1, <1>3 DEF Updated, Pending
<1> QED  BY <1>2, <1>3

LEMMA SaveSafe ==
    ASSUME IInv, NEW p \in Processes, NEW j \in Jobs, NEW from, NEW to,
           \/ from \in {"keep", "keep again"} /\ to \in {"logout", "logout again"}
           \/ from = "confirm" /\ to = "settle",
           Save(p, j, from, to)
    PROVE  IInv'
<1> DEFINE w == worker[p][j]
           next == [w EXCEPT !.at = to, !.durable = w.cred]
<1>1. /\ w.at = from /\ from \in Owning
      /\ \/ from \in Asking /\ to \in {"logout", "logout again"}
         \/ from = "confirm" /\ to = "settle"
  BY DEF Save, Owning, Asking
<1>2. UNCHANGED <<server, store, index, tried, leaving>>
  BY DEF Save
<1>3. Ages(server') /\ \A s \in Sessions : Ended(s)' = Ended(s)
  BY <1>2, SameServer
<1>4. /\ w \in Worker /\ w.cred \in Credentials /\ StateOK(w, queue[j], Ended(Session(j)))
      /\ Session(j) \in Sessions /\ w.at # "idle"
      /\ \A q \in Processes \ {p} : worker[q][j].at \notin Owning
  BY <1>1, WorkerFacts
<1>5. PICK c \in Credentials \cup {None} :
          /\ Updated(j, w.cred) = [queue EXCEPT ![j] = c]
          /\ c # None <=> queue[j] # None
          /\ c = IF Pending(j) THEN w.cred ELSE queue[j]
  BY <1>4, UpdatedFacts
<1>6. c # None /\ c.acknowledged => Ended(Session(j))'
  BY <1>3, <1>4, <1>5 DEF IInv, QueueEnded, StateOK
<1>7. Pending(j) => (c # None /\ ~c.acknowledged) \/ Ended(Session(j))'
  <2>1. CASE from \in Asking
    BY <1>1, <1>4, <1>5, <2>1 DEF StateOK, Pending
  <2>2. CASE from = "confirm"
    BY <1>1, <1>3, <1>4, <2>2 DEF StateOK, Owning
  <2> QED  BY <1>1, <2>1, <2>2
<1>8. CASE queue' \in {queue, Updated(j, w.cred)} /\ Retries(p, j)
  <2>1. CASE queue' = queue
    BY <1>1, <1>2, <1>3, <1>8, <2>1, RequestRetrySafe
  <2>2. CASE queue' = Updated(j, w.cred)
    BY <1>1, <1>2, <1>3, <1>5, <1>6, <1>7, <1>8, <2>2, RetrySafe
  <2> QED  BY <1>8, <2>1, <2>2
<1>9. CASE queue' = Updated(j, w.cred) /\ worker' = [worker EXCEPT ![p][j] = next]
  <2>1. next \in Worker
    BY <1>1, <1>4 DEF Worker, Places, Owning, Sending
  <2>2. ASSUME from \in Asking
        PROVE  StateOK(next, c, Ended(Session(j))')
    <3>1. ~w.cred.acknowledged /\ c = w.cred /\ c # None
      BY <1>1, <1>4, <1>5, <2>2 DEF StateOK, Pending
    <3>2. /\ next.at \in {"logout", "logout again"}
          /\ next.cred = w.cred /\ next.durable = w.cred
      BY <1>1, <1>4, <2>2 DEF Worker, Asking, Sending
    <3> HIDE DEF next, w
    <3> QED  BY <3>1, <3>2 DEF StateOK
  <2>3. ASSUME from = "confirm"
        PROVE  StateOK(next, c, Ended(Session(j))')
    <3>1. w.cred.acknowledged /\ Ended(Session(j))'
      BY <1>1, <1>3, <1>4, <2>3 DEF StateOK, Owning
    <3>2. next.at = "settle" /\ next.cred = w.cred /\ next.durable = w.cred
      BY <1>1, <1>4, <2>3 DEF Worker, Asking, Sending
    <3>3. w.cred # None
      BY <1>4, NoneAssumption
    <3> HIDE DEF next, w
    <3> QED  BY <3>1, <3>2, <3>3 DEF StateOK, Asking, Sending
  <2>4. StateOK(next, c, Ended(Session(j))')
    BY <1>1, <2>2, <2>3
  <2> HIDE DEF next
  <2> QED  BY <1>2, <1>3, <1>4, <1>5, <1>6, <1>7, <1>9, <2>1, <2>4, ReplaySafe
<1> QED  BY <1>8, <1>9 DEF Save, Moved

LEMMA LogoutSafe ==
    ASSUME IInv, NEW p \in Processes, NEW j \in Jobs,
           NEW from \in {"logout", "logout again"}, Logout(p, j, from)
    PROVE  IInv'
<1> DEFINE s    == Session(j)
           w    == worker[p][j]
           over == [server EXCEPT ![s].alive = FALSE, ![s].live = {}]
<1>1. w.at = from /\ w.at \in Owning /\ w.at \in Asking
  BY DEF Logout, Owning, Sending, Asking
<1>2. UNCHANGED <<store, index, queue, tried, leaving>>
  BY DEF Logout
<1>3. /\ w \in Worker /\ w.cred \in Credentials /\ StateOK(w, queue[j], Ended(s))
      /\ queue[j] \in Credentials \cup {None} /\ queue[j] # None
      /\ ~queue[j].acknowledged
      /\ s \in Sessions /\ server[s] \in Server /\ w.at # "idle"
      /\ \A q \in Processes \ {p} : worker[q][j].at \notin Owning
      /\ queue' = [queue EXCEPT ![j] = queue[j]]
  BY <1>1, <1>2, WorkerFacts DEF StateOK, IInv, Typed
<1>4. CASE UNCHANGED server /\ Retries(p, j)
  BY <1>1, <1>2, <1>4, SameServer, RequestRetrySafe
<1>5. ASSUME server' = over
      PROVE  Ages(server') /\ (server[s].alive => Ended(s)')
  <2> DEFINE dead == [server[s] EXCEPT !.alive = FALSE, !.live = {}]
  <2>1. dead \in Server /\ ~dead.alive /\ dead.issued = server[s].issued
    BY <1>3 DEF Server
  <2>2. server \in [Sessions -> Server] /\ server' = [server EXCEPT ![s] = dead]
    BY <1>3, <1>5 DEF IInv, Typed, Server
  <2> HIDE DEF dead, s
  <2> QED  BY <1>3, <2>1, <2>2 DEF Ages, Ended, IInv, AliveIssued
<1>6. CASE server' = over /\ Retries(p, j)
  BY <1>1, <1>2, <1>5, <1>6, RequestRetrySafe
<1>7. CASE /\ server' = over /\ Authorized(s, w.cred.access)
           /\ Moved(p, j, [w EXCEPT !.at = "confirm", !.cred.acknowledged = TRUE])
  <2> DEFINE cred == [w.cred EXCEPT !.acknowledged = TRUE]
             next == [w EXCEPT !.at = "confirm", !.cred = cred]
  <2>1. Ages(server') /\ Ended(s)'
    BY <1>5, <1>7 DEF Authorized
  <2>2. cred \in Credentials /\ cred.acknowledged
    BY <1>3 DEF Credentials
  <2>3. worker' = [worker EXCEPT ![p][j] = next]
    BY <1>3, <1>7 DEF Moved, Worker, Credentials
  <2> HIDE DEF cred
  <2>4. next \in Worker
    BY <1>3, <2>2 DEF Worker, Places, Owning
  <2>5. StateOK(next, queue[j], Ended(s)')
    BY <1>3, <2>1, <2>2, NoneAssumption
       DEF StateOK, Worker, Owning, Sending, Asking
  <2> HIDE DEF next
  <2> QED  BY <1>2, <1>3, <2>1, <2>3, <2>4, <2>5, ReplaySafe
<1>8. CASE UNCHANGED server /\ Moved(p, j, Refused(p, j)) /\ from = "logout"
  <2> DEFINE cred == [w.cred EXCEPT !.access = 0]
             next == [w EXCEPT !.at = "refresh again", !.cred = cred]
  <2>1. Ages(server') /\ Ended(s)' = Ended(s)
    BY <1>3, <1>8, SameServer
  <2>2. cred \in Credentials /\ cred.acknowledged = w.cred.acknowledged
    BY <1>3 DEF Credentials
  <2>3. worker' = [worker EXCEPT ![p][j] = next]
    BY <1>1, <1>3, <1>8 DEF Moved, Refused, Worker, Credentials
  <2> HIDE DEF cred
  <2>4. next \in Worker
    BY <1>3, <2>2 DEF Worker, Places, Owning, Sending
  <2>5. StateOK(next, queue[j], Ended(s)')
    BY <1>1, <1>3, <2>1, <2>2, NoneAssumption
       DEF StateOK, Worker, Owning, Sending, Asking
  <2>6. queue[j] # None /\ queue[j].acknowledged => Ended(s)'
    BY <1>3
  <2>7. Pending(j) => queue[j] # None /\ ~queue[j].acknowledged
    BY DEF Pending
  <2> HIDE DEF next
  <2> QED  BY <1>2, <1>3, <2>1, <2>3, <2>4, <2>5, <2>6, <2>7, ReplaySafe
<1>9. CASE UNCHANGED server /\ Moved(p, j, Refused(p, j)) /\ from # "logout"
  <2>1. Retries(p, j)
    BY <1>1, <1>9 DEF Refused, Retries
  <2> QED  BY <1>4, <1>9, <2>1
<1>10. \/ UNCHANGED server /\ Retries(p, j)
       \/ server' = over /\ Retries(p, j)
       \/ /\ server' = over /\ Authorized(s, w.cred.access)
          /\ Moved(p, j, [w EXCEPT !.at = "confirm", !.cred.acknowledged = TRUE])
       \/ UNCHANGED server /\ Moved(p, j, Refused(p, j))
  BY Zenon DEF Logout
<1> QED  BY <1>4, <1>6, <1>7, <1>8, <1>9, <1>10

LEMMA SettleSafe ==
    ASSUME IInv, NEW p \in Processes, NEW j \in Jobs, Settle(p, j)
    PROVE  IInv'
<1> DEFINE removed == [queue EXCEPT ![j] = None]
<1>1. worker[p][j].at = "settle" /\ worker[p][j].at \in Owning
  BY DEF Settle, Owning
<1>2. UNCHANGED <<server, store, index, tried, leaving>>
  BY DEF Settle
<1>3. Ages(server') /\ \A s \in Sessions : Ended(s)' = Ended(s)
  BY <1>2, SameServer
<1>4. /\ Session(j) \in Sessions /\ Ended(Session(j))' /\ worker[p][j].at # "idle"
      /\ \A q \in Processes \ {p} : worker[q][j].at \notin Owning
  BY <1>1, <1>3, WorkerFacts DEF StateOK
<1>5. CASE /\ queue' = removed
           /\ worker' = [worker EXCEPT ![p][j] = [Idle EXCEPT !.at = "done"]]
  <2>1. StateOK([Idle EXCEPT !.at = "done"], None, Ended(Session(j))')
    BY <1>4 DEF Idle, StateOK, Owning, Sending, Asking
  <2> QED  BY <1>2, <1>3, <1>4, <1>5, <2>1, IdleTyped, ReplaySafe
<1>6. CASE queue' = removed /\ Retries(p, j)
  BY <1>1, <1>2, <1>3, <1>4, <1>6, RetrySafe
<1>7. CASE queue' = queue /\ Retries(p, j)
  BY <1>1, <1>2, <1>3, <1>7, RequestRetrySafe
<1> QED  BY <1>5, <1>6, <1>7 DEF Settle, Moved

\* What a claimed job is replayed with, and what its record becomes.
LEMMA ClaimFacts ==
    ASSUME IInv, NEW p \in Processes, NEW j \in Jobs,
           worker[p][j].at = "waiting", queue[j] # None,
           NEW x, x = Newest(worker[p][j], queue[j])
    PROVE  \E c \in Credentials :
               /\ x \in Credentials /\ (x.acknowledged => Ended(Session(j)))
               /\ Updated(j, x) = [queue EXCEPT ![j] = c]
               /\ c.acknowledged => Ended(Session(j))
               /\ ~x.acknowledged => ~c.acknowledged
<1> DEFINE w == worker[p][j]
<1>1. /\ w.cred \in Credentials /\ queue[j] \in Credentials
      /\ StateOK(w, queue[j], Ended(Session(j)))
  BY WorkerFacts
<1>2. queue[j].acknowledged => Ended(Session(j))
  BY DEF IInv, QueueEnded
<1>3. x \in Credentials /\ (x.acknowledged => Ended(Session(j)))
  BY <1>1, <1>2, NoneAssumption DEF Newest, StateOK
<1>4. queue[j].acknowledged => x.acknowledged
  BY <1>1 DEF Newest, StateOK
<1>5. PICK c \in Credentials \cup {None} :
          /\ Updated(j, x) = [queue EXCEPT ![j] = c]
          /\ c # None <=> queue[j] # None
          /\ c = IF Pending(j) THEN x ELSE queue[j]
  BY <1>3, UpdatedFacts
<1>6. c \in Credentials /\ (c.acknowledged => Ended(Session(j)))
  BY <1>2, <1>3, <1>5
<1>7. ~x.acknowledged => ~c.acknowledged
  BY <1>4, <1>5
<1> QED  BY <1>3, <1>5, <1>6, <1>7

LEMMA ClaimSafe ==
    ASSUME IInv, NEW p \in Processes, NEW j \in Jobs, Claim(p, j)
    PROVE  IInv'
<1> DEFINE w == worker[p][j]
           x == Newest(w, queue[j])
<1>1. w.at = "waiting" /\ UNCHANGED <<server, store, index, tried, leaving>>
  BY DEF Claim
<1>2. Ages(server') /\ \A s \in Sessions : Ended(s)' = Ended(s)
  BY <1>1, SameServer
<1>3. /\ w \in Worker /\ w.at # "idle" /\ StateOK(w, queue[j], Ended(Session(j)))
      /\ Session(j) \in Sessions /\ queue[j] \in Credentials \cup {None}
      /\ \A q \in Processes \ {p} : worker[q][j].at \notin Owning
  BY <1>1, WorkerFacts DEF Claim, Unclaimed
<1>4. /\ queue = [queue EXCEPT ![j] = queue[j]]
      /\ worker = [worker EXCEPT ![p][j] = worker[p][j]]
  BY DEF IInv, Typed
<1>5. CASE /\ queue[j] = None /\ UNCHANGED queue
           /\ worker' = [worker EXCEPT ![p][j] = [Idle EXCEPT !.at = "done"]]
  <2>1. StateOK([Idle EXCEPT !.at = "done"], None, Ended(Session(j))')
    BY <1>2, <1>3 DEF Idle, StateOK, Owning, Sending, Asking
  <2>2. queue' = [queue EXCEPT ![j] = None] /\ ~Pending(j)
    BY <1>4, <1>5 DEF Pending
  <2> QED  BY <1>1, <1>2, <1>3, <1>5, <2>1, <2>2, IdleTyped, ReplaySafe
<1>6. ASSUME queue[j] # None
      PROVE  \E c \in Credentials :
               /\ x \in Credentials /\ (x.acknowledged => Ended(Session(j)))
               /\ Updated(j, x) = [queue EXCEPT ![j] = c]
               /\ c.acknowledged => Ended(Session(j))
               /\ ~x.acknowledged => ~c.acknowledged
  BY <1>1, <1>6, ClaimFacts
<1>7. CASE /\ queue[j] # None /\ queue' = Updated(j, x)
           /\ worker' = [worker EXCEPT
                             ![p][j] = [at |-> Next1(x), cred |-> x, durable |-> x]]
  <2> DEFINE next == [at |-> Next1(x), cred |-> x, durable |-> x]
  <2>1. PICK c \in Credentials :
               /\ x \in Credentials /\ (x.acknowledged => Ended(Session(j)))
               /\ Updated(j, x) = [queue EXCEPT ![j] = c]
               /\ c.acknowledged => Ended(Session(j))
               /\ ~x.acknowledged => ~c.acknowledged
    BY <1>6, <1>7
  <2> HIDE DEF x
  <2>2. next \in Worker
    BY <2>1 DEF Worker, Places, Owning, Sending, Next1
  <2>3. StateOK(next, c, Ended(Session(j))')
    BY <1>2, <1>3, <2>1, NoneAssumption
       DEF StateOK, Next1, Owning, Sending, Asking
  <2>4. Pending(j) => (c # None /\ ~c.acknowledged) \/ Ended(Session(j))'
    BY <1>2, <1>3, <2>1, NoneAssumption
  <2> HIDE DEF next
  <2> QED  BY <1>1, <1>2, <1>3, <1>7, <2>1, <2>2, <2>3, <2>4, ReplaySafe DEF next
<1>8. CASE /\ queue[j] # None /\ queue' \in {queue, Updated(j, x)}
           /\ UNCHANGED worker
  <2>1. PICK c \in Credentials :
               /\ queue' = [queue EXCEPT ![j] = c]
               /\ c.acknowledged => Ended(Session(j))
    BY <1>3, <1>4, <1>6, <1>8 DEF IInv, QueueEnded
  <2>2. StateOK(w, c, Ended(Session(j))')
    BY <1>1, <1>2, <1>3 DEF StateOK, Owning, Sending, Asking
  <2>3. Pending(j) => (c # None /\ ~c.acknowledged) \/ Ended(Session(j))'
    BY <1>2, <1>3, <2>1, NoneAssumption
  <2> QED  BY <1>1, <1>2, <1>3, <1>4, <1>8, <2>1, <2>2, <2>3, ReplaySafe
<1> QED  BY <1>5, <1>7, <1>8 DEF Claim, Moved

LEMMA ReplayActionsSafe ==
    ASSUME IInv, NEW p \in Processes, NEW j \in Jobs, Replay(p, j)
    PROVE  IInv'
<1>1. \/ Refresh(p, j, "refresh", "keep") \/ Refresh(p, j, "refresh again", "keep again")
      => IInv'
  BY RefreshSafe
<1>2. Logout(p, j, "logout") \/ Logout(p, j, "logout again") => IInv'
  BY LogoutSafe
<1>3. \/ Save(p, j, "keep", "logout") \/ Save(p, j, "keep again", "logout again")
      \/ Save(p, j, "confirm", "settle")
      => IInv'
  BY SaveSafe
<1>4. Settle(p, j) => IInv'
  BY SettleSafe
<1> QED  BY <1>1, <1>2, <1>3, <1>4 DEF Replay
-------------------------------------------------------------------------------
(* The service and the sign-out. *)

LEMMA SignInSafe ==
    ASSUME IInv, NEW s \in Sessions, SignIn(s)
    PROVE  IInv'
<1> DEFINE opened == [Issued(s, TRUE)[s] EXCEPT !.alive = TRUE]
<1>1. /\ Typed /\ store = None /\ leaving = None /\ server[s].issued = 0
      /\ store' = s
      /\ UNCHANGED <<index, queue, tried, leaving, worker>>
  BY DEF SignIn, IInv
<1>2. /\ Issued(s, TRUE) \in [Sessions -> Server] /\ Issued(s, TRUE)[s] \in Server
      /\ Issued(s, TRUE)[s].issued # 0
      /\ \A x \in Sessions \ {s} : Issued(s, TRUE)[x] = server[x]
  BY <1>1, IssuedSafe
<1>3. opened \in Server /\ opened.issued # 0 /\ opened.alive
  BY <1>2 DEF Server
<1>4. server' = [Issued(s, TRUE) EXCEPT ![s] = opened]
  BY <1>2 DEF SignIn, Server
<1> HIDE DEF opened
<1>5. /\ server' \in [Sessions -> Server] /\ server'[s] = opened
      /\ \A x \in Sessions \ {s} : server'[x] = server[x]
  BY <1>2, <1>3, <1>4
<1>6. /\ ~Ended(s)
      /\ \A x \in Sessions : Ended(x) => Ended(x)'
  BY <1>1, <1>5 DEF Ended
<1>7. Typed' /\ OriginsIndexed' /\ OneOwner' /\ Untried' /\ LeavingOK'
  BY <1>1, <1>5 DEF IInv, Typed, OriginsIndexed, OneOwner, Untried, Unknown, LeavingOK
<1>8. AliveIssued'
  BY <1>3, <1>5 DEF IInv, AliveIssued
<1>9. QueueEnded' /\ WorkersOK'
  BY <1>1, <1>6, JobFacts DEF IInv, QueueEnded, WorkersOK, StateOK
<1>10. NoSessionForgotten'
  BY <1>1, <1>5, NoneAssumption DEF IInv, NoSessionForgotten
<1> QED  BY <1>7, <1>8, <1>9, <1>10 DEF IInv

LEMMA ExpireSafe ==
    ASSUME IInv, NEW s \in Sessions, Expire(s)
    PROVE  IInv'
<1>1. PICK n \in server[s].live :
          server' = [server EXCEPT ![s].live = server[s].live \ {n}]
  BY DEF Expire, IInv, Typed, Server
<1>2. Ages(server')
  <2> DEFINE next == [server[s] EXCEPT !.live = server[s].live \ {n}]
  <2>1. server \in [Sessions -> Server] /\ server[s] \in Server
    BY DEF IInv, Typed
  <2>2. /\ next \in Server /\ next.alive = server[s].alive
        /\ next.issued = server[s].issued
    BY <2>1 DEF Server
  <2>3. server' = [server EXCEPT ![s] = next]
    BY <1>1, <2>1 DEF Server
  <2> HIDE DEF next
  <2> QED  BY <2>1, <2>2, <2>3 DEF Ages
<1> QED  BY <1>2, ServiceSafe DEF Expire

LEMMA SessionRefreshedSafe ==
    ASSUME IInv, SessionRefreshed
    PROVE  IInv'
<1>1. store \in Sessions /\ Typed /\ server' = Issued(store, TRUE)
  BY DEF SessionRefreshed, IInv, Typed
<1>2. Ages(server')
  BY <1>1, IssuedSafe DEF Ages
<1> QED  BY <1>2, ServiceSafe DEF SessionRefreshed

LEMMA BeginSignOutSafe ==
    ASSUME IInv, NEW fresh \in BOOLEAN, BeginSignOut(fresh)
    PROVE  IInv'
<1> DEFINE k   == tried[store] + 1
           job == <<store, k>>
<1>1. /\ leaving = None /\ store \in Sessions /\ tried' = [tried EXCEPT ![store] = k]
      /\ UNCHANGED <<server, store, queue, worker>>
  BY DEF BeginSignOut, IInv, Typed
<1>2. /\ tried \in [Sessions -> 0..MaxTries] /\ k \in 1..MaxTries
      /\ job \in Jobs /\ Session(job) = store /\ job[2] = k
      /\ tried' \in [Sessions -> 0..MaxTries]
  BY <1>1, JobFacts DEF BeginSignOut, IInv, Typed, Session
<1>3. Unknown(job)
  <2>1. job[2] > tried[Session(job)]
    BY <1>1, <1>2
  <2> QED  BY <1>2, <2>1 DEF IInv, Untried
<1>4. AliveIssued' /\ QueueEnded' /\ WorkersOK' /\ OneOwner' /\ NoSessionForgotten'
  BY <1>1, SameServer, JobFacts
     DEF IInv, AliveIssued, QueueEnded, WorkersOK, OneOwner, NoSessionForgotten
<1>5. Untried'
  <2> SUFFICES ASSUME NEW i \in Jobs, i[2] > tried'[Session(i)]
               PROVE  Unknown(i)'
    BY DEF Untried
  <2>1. Session(i) \in Sessions /\ i[2] \in 1..MaxTries
    BY JobFacts
  <2>2. tried'[Session(i)] >= tried[Session(i)] /\ tried[Session(i)] \in Nat
    BY <1>1, <1>2, <2>1
  <2>3. i[2] > tried[Session(i)]
    BY <1>2, <2>1, <2>2
  <2> QED  BY <1>1, <2>3 DEF IInv, Untried, Unknown
<1>6. CASE UNCHANGED leaving /\ index' \in {index, Remembered(store)}
  <2>1. Typed' /\ OriginsIndexed' /\ LeavingOK'
    BY <1>1, <1>2, <1>6 DEF IInv, Typed, OriginsIndexed, Remembered, LeavingOK
  <2> QED  BY <1>4, <1>5, <2>1 DEF IInv
<1>7. CASE /\ index' = Remembered(store)
           /\ leaving' = [job |-> job, cred |-> Captured(store, fresh), queued |-> FALSE]
  <2>1. Captured(store, fresh) \in Credentials /\ ~Captured(store, fresh).acknowledged
    BY <1>1 DEF Captured, Credentials, IInv, Typed, Server
  <2>2. leaving' \in SignOuts
    BY <1>2, <1>7, <2>1 DEF SignOuts
  <2>3. Typed' /\ OriginsIndexed'
    BY <1>1, <1>2, <1>7, <2>2 DEF IInv, Typed, OriginsIndexed, Remembered
  <2>4. /\ leaving'.job = job /\ leaving'.cred = Captured(store, fresh)
        /\ ~leaving'.queued
    BY <1>7
  <2>5. store \in index' /\ k <= tried'[store]
    BY <1>1, <1>2, <1>7 DEF Remembered, IInv, Typed
  <2> HIDE DEF job, k
  <2>6. LeavingOK'
    BY <1>1, <1>2, <1>3, <2>1, <2>4, <2>5 DEF LeavingOK, Unknown
  <2> QED  BY <1>4, <1>5, <2>3, <2>6 DEF IInv
<1> QED  BY <1>6, <1>7 DEF BeginSignOut

LEMMA EnqueueSafe ==
    ASSUME IInv, Enqueue
    PROVE  IInv'
<1> DEFINE job     == leaving.job
           written == [queue EXCEPT ![job] = leaving.cred]
<1>1. /\ leaving # None /\ ~leaving.queued
      /\ UNCHANGED <<server, store, index, tried, worker>>
  BY DEF Enqueue
<1>2. /\ leaving \in SignOuts /\ job \in Jobs /\ leaving.cred \in Credentials
      /\ leaving.cred # None /\ ~leaving.cred.acknowledged
      /\ store = Session(job) /\ store \in index /\ Unknown(job)
      /\ job[2] <= tried[store] /\ store \in Sessions
  BY <1>1, LeavingFacts, JobFacts DEF IInv, LeavingOK
<1>3. \A s \in Sessions : Ended(s)' = Ended(s)
  BY <1>1, SameServer
<1>4. AliveIssued' /\ OneOwner'
  BY <1>1 DEF IInv, AliveIssued, OneOwner
<1>5. ASSUME queue' = queue, leaving' = None
      PROVE  IInv'
  <2>1. Typed' /\ OriginsIndexed' /\ QueueEnded' /\ NoSessionForgotten'
    BY <1>1, <1>3, <1>5, JobFacts
       DEF IInv, Typed, OriginsIndexed, QueueEnded, NoSessionForgotten
  <2>2. WorkersOK' /\ Untried' /\ LeavingOK'
    BY <1>1, <1>3, <1>5, JobFacts DEF IInv, WorkersOK, Untried, Unknown, LeavingOK
  <2> QED  BY <1>4, <2>1, <2>2 DEF IInv
<1>6. ASSUME queue' = written,
             leaving' \in {[leaving EXCEPT !.queued = TRUE], None}
      PROVE  IInv'
  <2>1. /\ queue' \in [Jobs -> Credentials \cup {None}] /\ queue'[job] = leaving.cred
        /\ \A i \in Jobs \ {job} : queue'[i] = queue[i]
    BY <1>2, <1>6 DEF IInv, Typed
  <2>2. leaving' \in SignOuts \cup {None}
    BY <1>2, <1>6 DEF SignOuts
  <2>3. Typed' /\ OriginsIndexed'
    BY <1>1, <1>2, <2>1, <2>2 DEF IInv, Typed, OriginsIndexed
  <2>4. QueueEnded'
    BY <1>2, <1>3, <2>1, JobFacts DEF IInv, QueueEnded
  <2>5. WorkersOK'
    <3> SUFFICES ASSUME NEW p \in Processes, NEW i \in Jobs
                 PROVE  StateOK(worker[p][i], queue'[i], Ended(Session(i)))
      BY <1>1, <1>3, JobFacts DEF WorkersOK
    <3>1. CASE i # job
      BY <2>1, <3>1 DEF IInv, WorkersOK
    <3>2. CASE i = job
      BY <1>2, <3>2, IdleOK DEF Unknown, Ended
    <3> QED  BY <3>1, <3>2
  <2>6. Untried'
    <3> SUFFICES ASSUME NEW i \in Jobs, i[2] > tried[Session(i)]
                 PROVE  Unknown(i)'
      BY <1>1 DEF Untried
    <3>1. i # job
      BY <1>2, JobFacts DEF IInv, Typed
    <3> QED  BY <1>1, <2>1, <3>1 DEF IInv, Untried, Unknown
  <2>7. NoSessionForgotten'
    <3> SUFFICES ASSUME NEW s \in Sessions, server[s].alive, store # s
                 PROVE  \E i \in Jobs : /\ Session(i) = s /\ queue'[i] # None
                                        /\ ~queue'[i].acknowledged
      BY <1>1 DEF NoSessionForgotten
    <3> QED  BY <1>2, <2>1 DEF IInv, NoSessionForgotten
  <2>8. LeavingOK'
    <3>1. CASE leaving' = None
      BY <3>1 DEF LeavingOK
    <3>2. CASE leaving' = [leaving EXCEPT !.queued = TRUE]
      <4>1. leaving'.job = job /\ leaving'.cred = leaving.cred /\ leaving'.queued
        BY <1>2, <3>2 DEF SignOuts
      <4> HIDE DEF job
      <4>2. queue'[job] # None /\ ~queue'[job].acknowledged
        BY <1>2, <2>1
      <4> QED  BY <1>1, <1>2, <4>1, <4>2 DEF LeavingOK, Pending
    <3> QED  BY <1>6, <3>1, <3>2
  <2> QED  BY <1>4, <2>3, <2>4, <2>5, <2>6, <2>7, <2>8 DEF IInv
<1> QED  BY <1>5, <1>6 DEF Enqueue

LEMMA ClearStoreSafe ==
    ASSUME IInv, ClearStore
    PROVE  IInv'
<1> DEFINE job == leaving.job
           w   == Waiting(leaving.cred)
<1>1. /\ leaving # None /\ leaving.queued /\ leaving' = None
      /\ UNCHANGED <<server, index, queue, tried>>
  BY DEF ClearStore, Clearable
<1>2. /\ job \in Jobs /\ leaving.cred \in Credentials
      /\ ~leaving.cred.acknowledged
      /\ store = Session(job) /\ job[2] <= tried[store] /\ store \in Sessions
      /\ server[store].alive => Pending(job)
  BY <1>1, LeavingFacts, JobFacts DEF IInv, LeavingOK
<1>3. \A s \in Sessions : Ended(s)' = Ended(s)
  BY <1>1, SameServer
<1>4. OriginsIndexed' /\ AliveIssued' /\ QueueEnded' /\ LeavingOK'
  BY <1>1, <1>3, JobFacts
     DEF IInv, OriginsIndexed, AliveIssued, QueueEnded, LeavingOK
<1>5. CASE UNCHANGED <<store, worker>>
  <2>1. Typed' /\ WorkersOK' /\ OneOwner' /\ Untried' /\ NoSessionForgotten'
    BY <1>1, <1>3, <1>5, JobFacts
       DEF IInv, Typed, WorkersOK, OneOwner, Untried, Unknown, NoSessionForgotten
  <2> QED  BY <1>4, <2>1 DEF IInv
<1>6. CASE store' = None /\ worker' = [worker EXCEPT ![App][job] = w]
  <2>1. w \in Worker /\ w.at = "waiting"
    BY <1>2, WaitingOK DEF Waiting
  <2>2. /\ worker' \in [Processes -> [Jobs -> Worker]] /\ worker'[App][job] = w
        /\ \A p \in Processes, i \in Jobs :
               p # App \/ i # job => worker'[p][i] = worker[p][i]
    BY <1>2, <1>6, <2>1, AppAssumption DEF IInv, Typed
  <2>3. Typed'
    BY <1>1, <1>6, <2>2 DEF IInv, Typed
  <2>4. WorkersOK'
    <3> SUFFICES ASSUME NEW p \in Processes, NEW i \in Jobs
                 PROVE  StateOK(worker'[p][i], queue[i], Ended(Session(i)))
      BY <1>1, <1>3, JobFacts DEF WorkersOK
    <3>1. CASE p = App /\ i = job
      BY <1>2, <2>2, <3>1, WaitingOK DEF Ended
    <3>2. CASE p # App \/ i # job
      BY <2>2, <3>2 DEF IInv, WorkersOK
    <3> QED  BY <3>1, <3>2
  <2>5. OneOwner'
    <3>1. "waiting" \notin Owning
      BY DEF Owning, Sending
    <3> HIDE DEF w, job
    <3> QED  BY <2>1, <2>2, <3>1 DEF IInv, OneOwner
  <2>6. Untried'
    <3> SUFFICES ASSUME NEW i \in Jobs, i[2] > tried[Session(i)]
                 PROVE  Unknown(i)'
      BY <1>1 DEF Untried
    <3>1. i # job
      BY <1>2, JobFacts DEF IInv, Typed
    <3> QED  BY <1>1, <2>2, <3>1 DEF IInv, Untried, Unknown
  <2>7. NoSessionForgotten'
    <3> SUFFICES ASSUME NEW s \in Sessions, server[s].alive
                 PROVE  \E i \in Jobs : Session(i) = s /\ Pending(i)
      BY <1>1 DEF NoSessionForgotten, Pending
    <3> QED  BY <1>2 DEF IInv, NoSessionForgotten, Pending
  <2> QED  BY <1>4, <2>3, <2>4, <2>5, <2>6, <2>7 DEF IInv
<1> QED  BY <1>5, <1>6 DEF ClearStore
-------------------------------------------------------------------------------
(* Processes. *)

\* All the workers of a process are replaced by idle and waiting ones.
LEMMA ProcessSafe ==
    ASSUME IInv, NEW p \in Processes, NEW f \in [Jobs -> Worker],
           worker' = [worker EXCEPT ![p] = f],
           \A j \in Jobs : /\ f[j].at \notin Owning
                           /\ StateOK(f[j], queue[j], Ended(Session(j)))
                           /\ queue[j] = None => f[j] = Idle,
           index \subseteq index', index' \subseteq Origins \cup index,
           leaving' \in {leaving, None},
           UNCHANGED <<server, store, queue, tried>>
    PROVE  IInv'
<1>1. \A s \in Sessions : Ended(s)' = Ended(s)
  BY SameServer
<1>2. /\ worker' \in [Processes -> [Jobs -> Worker]]
      /\ worker'[p] = f
      /\ \A q \in Processes \ {p} : worker'[q] = worker[q]
  BY DEF IInv, Typed
<1>3. \A j \in Jobs : Unknown(j) => Unknown(j)'
  <2> SUFFICES ASSUME NEW j \in Jobs, Unknown(j), NEW q \in Processes
               PROVE  worker'[q][j] = Idle
    BY DEF Unknown
  <2>1. queue[j] = None /\ worker[q][j] = Idle
    BY DEF Unknown
  <2>2. CASE q = p
    BY <1>2, <2>1, <2>2
  <2>3. CASE q # p
    BY <1>2, <2>1, <2>3
  <2> QED  BY <2>2, <2>3
<1>4. Typed' /\ OriginsIndexed' /\ AliveIssued' /\ NoSessionForgotten'
  BY <1>2 DEF IInv, Typed, OriginsIndexed, AliveIssued, NoSessionForgotten
<1>5. QueueEnded'
  BY <1>1, JobFacts DEF IInv, QueueEnded
<1>6. WorkersOK'
  <2> SUFFICES ASSUME NEW q \in Processes, NEW j \in Jobs
               PROVE  StateOK(worker'[q][j], queue[j], Ended(Session(j)))
    BY <1>1, JobFacts DEF WorkersOK
  <2>1. CASE q = p
    BY <1>2, <2>1
  <2>2. CASE q # p
    BY <1>2, <2>2 DEF IInv, WorkersOK
  <2> QED  BY <2>1, <2>2
<1>7. OneOwner'
  <2> SUFFICES ASSUME NEW q \in Processes, NEW r \in Processes, NEW j \in Jobs,
                      worker'[q][j].at \in Owning, worker'[r][j].at \in Owning
               PROVE  q = r
    BY DEF OneOwner
  <2>1. q # p /\ r # p
    BY <1>2
  <2> QED  BY <1>2, <2>1 DEF IInv, OneOwner
<1>8. Untried'
  BY <1>3 DEF IInv, Untried
<1>9. LeavingOK'
  <2>1. CASE leaving' = None
    BY <2>1 DEF LeavingOK
  <2>2. CASE leaving' = leaving /\ leaving # None
    <3>1. leaving.job \in Jobs
      BY <2>2, LeavingFacts DEF IInv
    <3>2. ~leaving.queued => Unknown(leaving.job)'
      BY <1>3, <2>2, <3>1 DEF IInv, LeavingOK
    <3>3. leaving.queued /\ server[store].alive => Pending(leaving.job)
      BY <2>2 DEF IInv, LeavingOK
    <3> QED  BY <2>2, <3>2, <3>3 DEF IInv, LeavingOK, Pending
  <2> QED  BY <2>1, <2>2
<1> QED  BY <1>4, <1>5, <1>6, <1>7, <1>8, <1>9 DEF IInv

LEMMA CrashSafe ==
    ASSUME IInv, NEW p \in Processes, Crash(p)
    PROVE  IInv'
<1> DEFINE f == [j \in Jobs |-> Idle]
<1>1. f \in [Jobs -> Worker]
  BY IdleTyped
<1>2. \A j \in Jobs : /\ f[j].at \notin Owning
                      /\ StateOK(f[j], queue[j], Ended(Session(j)))
                      /\ queue[j] = None => f[j] = Idle
  BY IdleOK, IdleTyped DEF Owning, Sending, Ended
<1>3. /\ worker' = [worker EXCEPT ![p] = f] /\ leaving' \in {leaving, None}
      /\ UNCHANGED <<server, store, index, queue, tried>>
  BY DEF Crash
<1> HIDE DEF f
<1> QED  BY <1>1, <1>2, <1>3, ProcessSafe

LEMMA StartSafe ==
    ASSUME IInv, NEW p \in Processes, NEW api \in Origins, Start(p, api)
    PROVE  IInv'
<1> DEFINE f == Restored(api)
<1>1. ASSUME NEW j \in Jobs
      PROVE  /\ f[j] \in Worker /\ f[j].at \notin Owning
             /\ StateOK(f[j], queue[j], Ended(Session(j)))
             /\ queue[j] = None => f[j] = Idle
  <2>1. /\ f[j] = Idle \/ (queue[j] # None /\ f[j] = Waiting(queue[j]))
        /\ queue[j] = None => f[j] = Idle
    BY DEF Restored
  <2>2. CASE f[j] = Idle
    BY <2>2, IdleOK, IdleTyped DEF Owning, Sending, Ended
  <2>3. CASE queue[j] # None /\ f[j] = Waiting(queue[j])
    <3>1. /\ queue[j] \in Credentials /\ Ended(Session(j)) \in BOOLEAN
          /\ queue[j].acknowledged => Ended(Session(j))
      BY <2>3 DEF IInv, Typed, QueueEnded, Ended
    <3>2. Waiting(queue[j]).at \notin Owning
      BY DEF Waiting, Owning, Sending
    <3> QED  BY <2>1, <2>3, <3>1, <3>2, WaitingOK
  <2> QED  BY <2>1, <2>2, <2>3
<1>2. f \in [Jobs -> Worker]
  BY <1>1 DEF Restored
<1>3. /\ worker' = [worker EXCEPT ![p] = f]
      /\ index' \in {index, index \cup {api}}
      /\ UNCHANGED <<server, store, queue, tried, leaving>>
  BY DEF Start, Remembered
<1> HIDE DEF f
<1> QED  BY <1>1, <1>2, <1>3, ProcessSafe
-------------------------------------------------------------------------------
LEMMA InitInvariant == Init => IInv
<1> SUFFICES ASSUME Init PROVE IInv
  OBVIOUS
<1>1. Typed
  <2>1. \A s \in Sessions : server[s] \in Server
    BY DEF Init, Server
  <2> QED  BY <2>1, IdleTyped, JobFacts DEF Init, Typed
<1>2. OriginsIndexed /\ AliveIssued /\ QueueEnded /\ NoSessionForgotten /\ LeavingOK
  BY JobFacts DEF Init, OriginsIndexed, AliveIssued, QueueEnded, NoSessionForgotten,
                  LeavingOK
<1>3. \A p \in Processes, j \in Jobs : worker[p][j] = Idle
  BY DEF Init
<1>4. OneOwner
  BY <1>3, IdleTyped DEF OneOwner, Owning, Sending
<1>5. WorkersOK
  BY <1>3, IdleOK DEF WorkersOK, Ended
<1>6. Untried
  BY <1>3 DEF Init, Untried, Unknown
<1> QED  BY <1>1, <1>2, <1>4, <1>5, <1>6 DEF IInv

LEMMA NextSafe ==
    ASSUME IInv, [Next]_vars
    PROVE  IInv'
<1>1. CASE UNCHANGED vars
  BY <1>1, SameServer, ServiceSafe DEF vars
<1>2. ASSUME NEW s \in Sessions, SignIn(s) \/ Expire(s)
      PROVE  IInv'
  BY <1>2, SignInSafe, ExpireSafe
<1>3. CASE SessionRefreshed
  BY <1>3, SessionRefreshedSafe
<1>4. ASSUME NEW fresh \in BOOLEAN, BeginSignOut(fresh)
      PROVE  IInv'
  BY <1>4, BeginSignOutSafe
<1>5. CASE Enqueue \/ ClearStore
  BY <1>5, EnqueueSafe, ClearStoreSafe
<1>6. ASSUME NEW p \in Processes, NEW j \in Jobs, Claim(p, j) \/ Replay(p, j)
      PROVE  IInv'
  BY <1>6, ClaimSafe, ReplayActionsSafe
<1>7. ASSUME NEW p \in Processes,
             Crash(p) \/ \E api \in Origins : Start(p, api)
      PROVE  IInv'
  BY <1>7, CrashSafe, StartSafe
<1> QED  BY <1>1, <1>2, <1>3, <1>4, <1>5, <1>6, <1>7 DEF Next

\* The inductive invariant, from which the three theorems below follow.
THEOREM Invariance == Spec => []IInv
<1>1. IInv /\ [Next]_vars => IInv'
  BY NextSafe
<1> QED  BY <1>1, InitInvariant, PTL DEF Spec

\* Every session the service still honours is signed in or has a pending job
\* in the queue (sign_out, revoke, acknowledge).
THEOREM SessionsRemembered == Spec => []NoSessionForgotten
<1>1. IInv => NoSessionForgotten
  BY DEF IInv
<1> QED  BY <1>1, Invariance, PTL

\* A request is only sent for a job whose record is in the queue and not
\* acknowledged (revoke, _revalidate_revocation).
THEOREM PendingOnly == Spec => []OnlyPendingAreSent
<1>1. IInv => OnlyPendingAreSent
  BY DEF IInv, WorkersOK, StateOK, OnlyPendingAreSent, Asking
<1> QED  BY <1>1, Invariance, PTL

\* The durable index of origins covers the queue, so that every start finds
\* every job, at whatever API it is started (enqueue, load_all).
THEOREM OriginsKnown == Spec => []OriginsIndexed
<1>1. IInv => OriginsIndexed
  BY DEF IInv
<1> QED  BY <1>1, Invariance, PTL
===============================================================================
