------------------------ MODULE CloudSession_proofs ------------------------
(***************************************************************************)
(* For any accounts, payloads, number of workers and bounds: the session   *)
(* a user left stays out, memory and store agree, and `busy` is exact.     *)
(***************************************************************************)
EXTENDS CloudSession, TLAPS

Holding == {"refresh", "granted", "send"}

\* What a worker carries at generation g, when the sessions in l were left and
\* n were opened: its fence is not ahead of the service, a session it holds
\* exists and, as long as the fence stands, was not left.
Sound(w, g, l, n) ==
    /\ w.born <= g /\ w.fence <= g
    /\ w.step \in Holding => w.session \in 1..n
    /\ w.step \in Holding /\ w.fence = g => w.session \notin l
    /\ w.step = "answered" /\ w.outcome = "ok"
           /\ w.kind \in {"restore", "login"} => w.payload \in Accounts

WorkersSound ==
    \A i \in Running : Sound(workers[i], generation, left, Len(sessions))

SessionsSound ==
    /\ memory \in 1..Len(sessions) \cup {None}
    /\ store \in 1..Len(sessions) \cup {None}
    /\ access => memory # None

WorkersOK == WorkersSound /\ BusyMatchesWorkers /\ QueuedHasCarrier
StoreOK   == /\ SessionsSound /\ MemoryMirrorsStore
             /\ SignedOutStaysOut /\ SignedOutIsRevoked

\* The inductive invariant.
IInv == TypeOK /\ WorkersOK /\ StoreOK
-------------------------------------------------------------------------------
\* A slot holds nothing or a worker; a worker is not None.
LEMMA SlotType ==
    ASSUME TypeOK, NEW i \in Slots
    PROVE  /\ i \in Running <=> workers[i] # None
           /\ i \in Running => workers[i] \in Worker
  BY NoneAssumption DEF TypeOK, Running

\* Nobody left the session None.
LEMMA NoneNotLeft ==
    ASSUME IInv
    PROVE  None \notin left
<1>1. left \subseteq 1..Len(sessions) /\ 1..Len(sessions) \subseteq Nat
  BY DEF IInv, TypeOK
<1> QED  BY <1>1, NoneAssumption

\* The initial state.
LEMMA InitInvariant == Init => IInv
<1> SUFFICES ASSUME Init PROVE IInv
  OBVIOUS
<1>1. TypeOK
  <2>1. sessions \in Seq(Accounts) /\ Len(sessions) = 0
    BY DEF Init
  <2>2. workers \in [Slots -> Worker \cup {None}]
    BY DEF Init
  <2>3. /\ generation \in 0..MaxGeneration /\ Len(sessions) <= MaxSessions
        /\ epoch \in 0..MaxEpoch /\ attempt \in 0..RetryAttempts
    BY <2>1, BoundsAssumption DEF Init
  <2>4. /\ timers \subseteq Timer /\ revocations \subseteq 1..Len(sessions)
        /\ left \subseteq 1..Len(sessions)
    BY DEF Init
  <2>5. /\ authenticated \in BOOLEAN /\ busy \in BOOLEAN
        /\ signOutPending \in BOOLEAN /\ shuttingDown \in BOOLEAN
        /\ access \in BOOLEAN /\ gui \in {"idle", "signing_out"}
        /\ queued \in Payloads \cup {None} /\ shown \in Accounts \cup {None}
        /\ memory \in Sessions \cup {None} /\ store \in Sessions \cup {None}
    BY DEF Init
  <2> QED  BY <2>1, <2>2, <2>3, <2>4, <2>5 DEF TypeOK
<1>2. WorkersOK
  BY DEF Init, WorkersOK, WorkersSound, Running, BusyMatchesWorkers,
         QueuedHasCarrier, AnyCurrent
<1>3. StoreOK
  BY DEF Init, StoreOK, SessionsSound, MemoryMirrorsStore, SignedOutStaysOut,
         SignedOutIsRevoked
<1> QED  BY <1>1, <1>2, <1>3 DEF IInv

\* A worker that goes on, as the same worker and in a sound state, leaves the
\* service as busy as it was.
LEMMA WorkerGoesOn ==
    ASSUME IInv, NEW i \in Running, NEW w \in Worker,
           Becomes(i, w), w.born = workers[i].born,
           UNCHANGED <<generation, busy, queued, left>>,
           Len(sessions') >= Len(sessions), Len(sessions') \in Nat,
           Sound(w, generation, left, Len(sessions'))
    PROVE  WorkersOK' /\ workers' \in [Slots -> Worker \cup {None}]
<1> USE DEF IInv
<1>1. i \in Slots /\ workers[i] \in Worker /\ workers[i] # None /\ w # None
  BY SlotType, NoneAssumption DEF Running
<1>2. workers \in [Slots -> Worker \cup {None}] /\ Len(sessions) \in Nat
  BY DEF TypeOK
<1>3. workers' = [workers EXCEPT ![i] = w]
  BY DEF Becomes
<1>4. workers' \in [Slots -> Worker \cup {None}]
  BY <1>1, <1>2, <1>3
<1>5. \A j \in Slots : workers'[j] = IF j = i THEN w ELSE workers[j]
  BY <1>1, <1>2, <1>3
<1>6. WorkersSound'
  <2> SUFFICES ASSUME NEW j \in Slots, workers'[j] # None
               PROVE  Sound(workers'[j], generation, left, Len(sessions'))
    BY DEF WorkersSound, Running
  <2>1. CASE j = i
    BY <2>1, <1>5
  <2>2. CASE j # i
    <3>1. workers'[j] = workers[j] /\ j \in Running
      BY <2>2, <1>5 DEF Running
    <3>2. Sound(workers[j], generation, left, Len(sessions))
      BY <3>1 DEF WorkersOK, WorkersSound
    <3> QED  BY <3>1, <3>2, <1>2 DEF Sound
  <2> QED  BY <2>1, <2>2
<1>7. AnyCurrent(workers)' <=> AnyCurrent(workers)
  BY <1>1, <1>5 DEF AnyCurrent, Current
<1>8. BusyMatchesWorkers' /\ QueuedHasCarrier'
  BY <1>7 DEF WorkersOK, BusyMatchesWorkers, QueuedHasCarrier
<1> QED  BY <1>4, <1>6, <1>8 DEF WorkersOK

\* Starting a worker keeps what holds of the others.
LEMMA StartSound ==
    ASSUME IInv, NEW kind \in Kinds, NEW payload \in Payloads \cup {None},
           Start(kind, payload), UNCHANGED <<generation, queued, left, sessions>>
    PROVE  /\ WorkersOK' /\ workers' \in [Slots -> Worker \cup {None}]
           /\ busy' \in BOOLEAN
<1> USE DEF IInv
<1>0. workers \in [Slots -> Worker \cup {None}] /\ generation \in 0..MaxGeneration
  BY DEF TypeOK
<1>1. CASE signOutPending
  <2>1. UNCHANGED <<busy, workers>>
    BY <1>1 DEF Start
  <2>2. WorkersOK'
    BY <2>1 DEF WorkersOK, WorkersSound, Running, BusyMatchesWorkers,
                QueuedHasCarrier, AnyCurrent, Current
  <2> QED  BY <2>1, <2>2, <1>0 DEF TypeOK
<1>2. CASE ~signOutPending
  <2> DEFINE w == NewWorker(kind, payload)
  <2>1. PICK i \in Slots \ Running : workers' = [workers EXCEPT ![i] = w]
    BY <1>2 DEF Start
  <2>2. busy' = TRUE
    BY <1>2 DEF Start
  <2>3. w \in Worker
    BY <1>0 DEF NewWorker, Worker, Steps, Outcomes
  <2>4. w # None
    BY <2>3, NoneAssumption
  <2>5. w.born = generation /\ Sound(w, generation, left, Len(sessions))
    BY <1>0 DEF NewWorker, Sound, Holding
  <2> HIDE DEF w
  <2>6. \A j \in Slots : workers'[j] = IF j = i THEN w ELSE workers[j]
    BY <2>1, <1>0
  <2>7. workers' \in [Slots -> Worker \cup {None}]
    BY <2>1, <2>3, <1>0
  <2>8. WorkersSound'
    BY <2>5, <2>6 DEF WorkersOK, WorkersSound, Running
  <2>9. AnyCurrent(workers)'
    BY <2>1, <2>4, <2>5, <2>6 DEF AnyCurrent, Current
  <2> QED  BY <2>2, <2>7, <2>8, <2>9
           DEF WorkersOK, BusyMatchesWorkers, QueuedHasCarrier
<1> QED  BY <1>1, <1>2

\* A fence raised by one fences every worker.
LEMMA FenceRaised ==
    ASSUME IInv, generation' = generation + 1, busy' = FALSE, queued' = None,
           UNCHANGED <<workers, sessions>>
    PROVE  WorkersOK'
<1> USE DEF IInv
<1>1. generation \in Nat
  BY BoundsAssumption DEF TypeOK
<1>2. \A i \in Running : /\ workers[i] \in Worker
                         /\ workers[i].born <= generation
                         /\ workers[i].fence <= generation
                         /\ workers[i].born \in Nat /\ workers[i].fence \in Nat
  BY SlotType, BoundsAssumption
  DEF WorkersOK, WorkersSound, Sound, Running, Worker
<1>3. WorkersSound'
  BY <1>1, <1>2 DEF WorkersOK, WorkersSound, Sound, Running
<1>4. ~AnyCurrent(workers)'
  BY <1>1, <1>2 DEF AnyCurrent, Current, Running
<1> QED  BY <1>3, <1>4 DEF WorkersOK, BusyMatchesWorkers, QueuedHasCarrier
-------------------------------------------------------------------------------
(* The steps of a worker.                                                  *)

\* A step of a worker that changes nothing outside its slot.
LEMMA QuietStep ==
    ASSUME IInv, NothingElse, WorkersOK',
           workers' \in [Slots -> Worker \cup {None}]
    PROVE  IInv'
<1>1. /\ UNCHANGED <<generation, authenticated, busy, signOutPending,
                     shuttingDown, queued, shown, memory, access>>
      /\ UNCHANGED <<epoch, attempt, timers, gui, store, revocations,
                     sessions, left>>
  BY DEF NothingElse, stateVars, guiVars, durableVars
<1>2. TypeOK'
  BY <1>1 DEF IInv, TypeOK
<1>3. StoreOK'
  BY <1>1 DEF IInv, StoreOK, SessionsSound, MemoryMirrorsStore,
              SignedOutStaysOut, SignedOutIsRevoked
<1> QED  BY <1>2, <1>3 DEF IInv

\* A worker that is done holds no session any more.
LEMMA Answered ==
    ASSUME IInv, NEW i \in Running, NEW outcome \in Outcomes,
           outcome = "ok" => workers[i].kind \in Requests,
           Answer(i, outcome),
           UNCHANGED <<generation, busy, queued, left, sessions>>
    PROVE  WorkersOK' /\ workers' \in [Slots -> Worker \cup {None}]
<1> DEFINE w == [workers[i] EXCEPT !.step = "answered", !.outcome = outcome,
                                   !.session = None, !.again = FALSE,
                                   !.fence = workers[i].born]
<1>1. workers[i] \in Worker /\ Sound(workers[i], generation, left, Len(sessions))
  BY SlotType DEF IInv, WorkersOK, WorkersSound, Running
<1>2. w \in Worker /\ w.born = workers[i].born /\ w.fence = workers[i].born
      /\ w.step = "answered" /\ w.kind = workers[i].kind /\ w.outcome = outcome
  BY <1>1 DEF Worker, Steps
<1>3. Sound(w, generation, left, Len(sessions))
  BY <1>1, <1>2 DEF Sound, Holding, Requests
<1>4. Becomes(i, w) /\ Len(sessions) \in Nat
  BY DEF Answer, IInv, TypeOK
<1> HIDE DEF w
<1> QED  BY <1>2, <1>3, <1>4, WorkerGoesOn

\* A worker goes on to a step at which it holds no session.
LEMMA HoldsNothing ==
    ASSUME IInv, NEW i \in Running, NEW w \in Worker,
           w.born = workers[i].born, w.fence \in {workers[i].fence, generation},
           w.step \notin Holding, w.step # "answered", Becomes(i, w),
           UNCHANGED <<generation, busy, queued, left, sessions>>
    PROVE  WorkersOK' /\ workers' \in [Slots -> Worker \cup {None}]
<1>1. Sound(workers[i], generation, left, Len(sessions))
  BY DEF IInv, WorkersOK, WorkersSound
<1>2. Len(sessions) \in Nat /\ generation \in Nat
  BY BoundsAssumption DEF IInv, TypeOK
<1>3. Sound(w, generation, left, Len(sessions))
  BY <1>1, <1>2 DEF Sound
<1> QED  BY <1>2, <1>3, WorkerGoesOn

\* What a running worker is.
LEMMA RunningWorker ==
    ASSUME IInv, NEW i \in Slots, NEW kinds, NEW step, At(i, kinds, step)
    PROVE  /\ i \in Running /\ workers[i] \in Worker
           /\ workers[i].kind \in kinds /\ workers[i].step = step
           /\ Sound(workers[i], generation, left, Len(sessions))
           /\ generation \in 0..MaxGeneration /\ Len(sessions) \in Nat
  BY SlotType DEF IInv, At, WorkersOK, WorkersSound, TypeOK

\* authorized_request starts.
LEMMA ReadGenerationKeeps ==
    ASSUME IInv, NEW i \in Slots, ReadGeneration(i)
    PROVE  IInv'
<1> DEFINE w == [workers[i] EXCEPT !.step = "ready", !.fence = generation]
<1>1. At(i, Requests, "queued") /\ Becomes(i, w) /\ NothingElse
  BY DEF ReadGeneration
<1>2. i \in Running /\ workers[i] \in Worker /\ generation \in 0..MaxGeneration
  BY <1>1, RunningWorker
<1>3. w \in Worker /\ w.born = workers[i].born /\ w.fence = generation
      /\ w.step = "ready"
  BY <1>2 DEF Worker, Steps
<1> HIDE DEF w
<1>4. WorkersOK' /\ workers' \in [Slots -> Worker \cup {None}]
  BY <1>1, <1>2, <1>3, HoldsNothing
  DEF Holding, NothingElse, stateVars, durableVars
<1> QED  BY <1>1, <1>4, QuietStep

\* The restore looks for a stored session.
LEMMA LoadStoredKeeps ==
    ASSUME IInv, NEW i \in Slots, LoadStored(i)
    PROVE  IInv'
<1> DEFINE w == [workers[i] EXCEPT !.step = "ready"]
<1>1. At(i, {"restore"}, "queued") /\ NothingElse
  BY DEF LoadStored
<1>2. i \in Running /\ workers[i] \in Worker
  BY <1>1, RunningWorker
<1>3. UNCHANGED <<generation, busy, queued, left, sessions>>
  BY <1>1 DEF NothingElse, stateVars, durableVars
<1>4. WorkersOK' /\ workers' \in [Slots -> Worker \cup {None}]
  <2>1. CASE Answer(i, "none") \/ Answer(i, "error")
    BY <2>1, <1>2, <1>3, Answered DEF Outcomes
  <2>2. CASE Becomes(i, w)
    <3>1. w \in Worker /\ w.born = workers[i].born
          /\ w.fence = workers[i].fence /\ w.step = "ready"
      BY <1>2 DEF Worker, Steps
    <3> HIDE DEF w
    <3> QED  BY <2>2, <3>1, <1>2, <1>3, HoldsNothing DEF Holding
  <2> QED  BY <2>1, <2>2 DEF LoadStored
<1> QED  BY <1>1, <1>4, QuietStep

\* A worker takes a session that may be used: the store's or memory's.
LEMMA EnsureAccessKeeps ==
    ASSUME IInv, NEW i \in Slots, EnsureAccess(i)
    PROVE  IInv'
<1> DEFINE fence == IF workers[i].kind = "restore" THEN generation
                                                   ELSE workers[i].fence
           Next_(step, s) == [workers[i] EXCEPT !.step = step, !.session = s,
                                                !.fence = fence]
<1>1. At(i, Requests \cup {"restore"}, "ready") /\ NothingElse
  BY DEF EnsureAccess
<1>2. /\ i \in Running /\ workers[i] \in Worker
      /\ generation \in 0..MaxGeneration /\ Len(sessions) \in Nat
      /\ workers[i].step = "ready"
      /\ Sound(workers[i], generation, left, Len(sessions))
  BY <1>1, RunningWorker
<1>3. UNCHANGED <<generation, busy, queued, left, sessions>>
  BY <1>1 DEF NothingElse, stateVars, durableVars
<1>4. WorkersOK' /\ workers' \in [Slots -> Worker \cup {None}]
  <2>1. CASE Answer(i, "error")
    BY <2>1, <1>2, <1>3, Answered DEF Outcomes
  <2>2. ASSUME NEW step \in Holding, NEW s \in 1..Len(sessions), s \notin left,
               MayGoOn(fence), Becomes(i, Next_(step, s))
        PROVE  WorkersOK' /\ workers' \in [Slots -> Worker \cup {None}]
    <3> DEFINE w == Next_(step, s)
    <3>1. fence = generation /\ s \in Sessions
      BY <1>2, <2>2, BoundsAssumption DEF MayGoOn, IInv, TypeOK, Sessions
    <3>2. w \in Worker /\ w.born = workers[i].born /\ w.fence = generation
          /\ w.step = step /\ w.session = s
      BY <3>1, <1>2 DEF Worker, Steps, Holding
    <3> HIDE DEF w
    <3>3. Sound(w, generation, left, Len(sessions))
      BY <3>2, <1>2, <2>2 DEF Sound, Holding
    <3>4. Becomes(i, w)
      BY <2>2 DEF w
    <3> QED  BY <3>2, <3>3, <3>4, <1>2, <1>3, WorkerGoesOn
  <2>3. CASE MayGoOn(fence) /\ access /\ Becomes(i, Next_("send", memory))
    <3>1. memory \in 1..Len(sessions) /\ memory \notin left
      BY <2>3 DEF IInv, StoreOK, SessionsSound, SignedOutStaysOut
    <3> QED  BY <2>2, <2>3, <3>1 DEF Holding
  <2>4. CASE MayGoOn(fence) /\ store # None /\ Becomes(i, Next_("refresh", store))
    <3>1. store \in 1..Len(sessions) /\ store \notin left
      BY <2>4 DEF IInv, StoreOK, SessionsSound, SignedOutStaysOut
    <3> QED  BY <2>2, <2>4, <3>1 DEF Holding
  <2> QED  BY <2>1, <2>3, <2>4 DEF EnsureAccess
<1> QED  BY <1>1, <1>4, QuietStep

\* The service grants a refresh.
LEMMA RefreshGrantedKeeps ==
    ASSUME IInv, NEW i \in Slots, RefreshGranted(i)
    PROVE  IInv'
<1> DEFINE w == [workers[i] EXCEPT !.step = "granted",
                                   !.session = workers[i].session]
<1>1. At(i, Kinds, "refresh") /\ Becomes(i, w) /\ NothingElse
  BY DEF RefreshGranted, Holds
<1>2. /\ i \in Running /\ workers[i] \in Worker /\ workers[i].step = "refresh"
      /\ Sound(workers[i], generation, left, Len(sessions))
      /\ Len(sessions) \in Nat
  BY <1>1, RunningWorker
<1>3. w \in Worker /\ w.born = workers[i].born /\ w.fence = workers[i].fence
      /\ w.step = "granted" /\ w.session = workers[i].session
  BY <1>2 DEF Worker, Steps
<1> HIDE DEF w
<1>4. Sound(w, generation, left, Len(sessions))
  BY <1>2, <1>3 DEF Sound, Holding
<1>5. UNCHANGED <<generation, busy, queued, left, sessions>>
  BY <1>1 DEF NothingElse, stateVars, durableVars
<1>6. WorkersOK' /\ workers' \in [Slots -> Worker \cup {None}]
  BY <1>1, <1>2, <1>3, <1>4, <1>5, WorkerGoesOn
<1> QED  BY <1>1, <1>6, QuietStep

\* A worker ends with an error, or is cancelled, and nothing else happens.
LEMMA AnsweredQuietly ==
    ASSUME IInv, NEW i \in Slots, NEW kinds, NEW step, At(i, kinds, step),
           NEW outcome \in Outcomes,
           outcome = "ok" => workers[i].kind \in Requests,
           Answer(i, outcome), NothingElse
    PROVE  IInv'
<1>1. i \in Running
  BY DEF At
<1>2. UNCHANGED <<generation, busy, queued, left, sessions>>
  BY DEF NothingElse, stateVars, durableVars
<1>3. WorkersOK' /\ workers' \in [Slots -> Worker \cup {None}]
  BY <1>1, <1>2, Answered
<1> QED  BY <1>3, QuietStep

\* A refresh is rejected: the store may be cleared, memory is left alone.
LEMMA RefreshUnauthorizedKeeps ==
    ASSUME IInv, NEW i \in Slots, RefreshUnauthorized(i)
    PROVE  IInv'
<1>1. i \in Running
  BY DEF RefreshUnauthorized, At
<1>2. /\ UNCHANGED <<generation, authenticated, busy, signOutPending,
                     shuttingDown, queued, shown, memory, access>>
      /\ UNCHANGED <<epoch, attempt, timers, gui, revocations, sessions, left>>
  BY DEF RefreshUnauthorized, stateVars, guiVars
<1>3. store' \in {None, store} /\ (Answer(i, "unauthorized") \/ Answer(i, "error"))
  BY DEF RefreshUnauthorized
<1>4. WorkersOK' /\ workers' \in [Slots -> Worker \cup {None}]
  BY <1>1, <1>2, <1>3, Answered DEF Outcomes
<1>5. TypeOK'
  <2>1. store' \in Sessions \cup {None}
    BY <1>3 DEF IInv, TypeOK
  <2> QED  BY <1>2, <1>4, <2>1 DEF IInv, TypeOK
<1>6. StoreOK'
  BY <1>2, <1>3, NoneNotLeft
  DEF IInv, StoreOK, SessionsSound, MemoryMirrorsStore, SignedOutStaysOut,
      SignedOutIsRevoked
<1> QED  BY <1>4, <1>5, <1>6 DEF IInv

\* A login goes to the browser.
LEMMA AuthorizeKeeps ==
    ASSUME IInv, NEW i \in Slots, Authorize(i)
    PROVE  IInv'
<1> DEFINE w == [workers[i] EXCEPT !.step = "ready"]
<1>1. At(i, {"login"}, "queued") /\ NothingElse
  BY DEF Authorize
<1>2. CASE Answer(i, "error")
  BY <1>1, <1>2, AnsweredQuietly DEF Outcomes
<1>3. CASE Becomes(i, w)
  <2>1. i \in Running /\ workers[i] \in Worker
    BY <1>1, RunningWorker
  <2>2. w \in Worker /\ w.born = workers[i].born
        /\ w.fence = workers[i].fence /\ w.step = "ready"
    BY <2>1 DEF Worker, Steps
  <2> HIDE DEF w
  <2>3. UNCHANGED <<generation, busy, queued, left, sessions>>
    BY <1>1 DEF NothingElse, stateVars, durableVars
  <2>4. WorkersOK' /\ workers' \in [Slots -> Worker \cup {None}]
    BY <1>3, <2>1, <2>2, <2>3, HoldsNothing DEF Holding
  <2> QED  BY <1>1, <2>4, QuietStep
<1> QED  BY <1>2, <1>3 DEF Authorize

\* The service opens a session: nobody left it before.
LEMMA ExchangeKeeps ==
    ASSUME IInv, NEW i \in Slots, NEW account \in Accounts, Exchange(i, account)
    PROVE  IInv'
<1> DEFINE n == Len(sessions) + 1
           w == [workers[i] EXCEPT !.step = "granted", !.session = n]
<1>1. At(i, {"login"}, "ready") /\ Becomes(i, w)
  BY DEF Exchange, Holds
<1>2. /\ i \in Running /\ workers[i] \in Worker /\ Len(sessions) \in Nat
      /\ Sound(workers[i], generation, left, Len(sessions))
  BY <1>1, RunningWorker
<1>3. Len(sessions) < MaxSessions /\ sessions' = Append(sessions, account)
  BY DEF Exchange
<1>4. sessions \in Seq(Accounts) /\ left \subseteq 1..Len(sessions)
      /\ revocations \subseteq 1..Len(sessions)
  BY DEF IInv, TypeOK
<1>5. sessions' \in Seq(Accounts) /\ Len(sessions') = n /\ n <= MaxSessions
  BY <1>2, <1>3, <1>4, BoundsAssumption
<1>6. n \in Sessions /\ n \notin left
  BY <1>2, <1>4, <1>5, BoundsAssumption DEF Sessions
<1>7. w \in Worker /\ w.born = workers[i].born /\ w.fence = workers[i].fence
      /\ w.step = "granted" /\ w.session = n
  BY <1>2, <1>6 DEF Worker, Steps
<1> HIDE DEF w
<1>8. Sound(w, generation, left, n)
  BY <1>2, <1>6, <1>7 DEF Sound, Holding
<1>9. /\ UNCHANGED <<generation, authenticated, busy, signOutPending,
                     shuttingDown, queued, shown, memory, access>>
      /\ UNCHANGED <<epoch, attempt, timers, gui, store, revocations, left>>
  BY DEF Exchange, stateVars, guiVars
<1>10. WorkersOK' /\ workers' \in [Slots -> Worker \cup {None}]
  BY <1>1, <1>2, <1>5, <1>7, <1>8, <1>9, WorkerGoesOn
<1>11. 1..Len(sessions) \subseteq 1..Len(sessions')
  BY <1>2, <1>5
<1>12. TypeOK'
  <2>1. left' \subseteq 1..Len(sessions') /\ revocations' \subseteq 1..Len(sessions')
    BY <1>4, <1>9, <1>11
  <2> QED  BY <1>5, <1>9, <1>10, <2>1 DEF IInv, TypeOK
<1>13. StoreOK'
  BY <1>9, <1>11 DEF IInv, StoreOK, SessionsSound, MemoryMirrorsStore,
                     SignedOutStaysOut, SignedOutIsRevoked
<1> QED  BY <1>10, <1>12, <1>13 DEF IInv

\* Tokens are adopted only behind a standing fence: their session was not left.
LEMMA AcceptTokensKeeps ==
    ASSUME IInv, NEW i \in Slots, AcceptTokens(i)
    PROVE  IInv'
<1> DEFINE s == workers[i].session
           w == [workers[i] EXCEPT !.step = "send", !.session = s]
<1>1. At(i, Kinds, "granted")
  BY DEF AcceptTokens
<1>2. /\ i \in Running /\ workers[i] \in Worker /\ Len(sessions) \in Nat
      /\ workers[i].step = "granted"
      /\ Sound(workers[i], generation, left, Len(sessions))
  BY <1>1, RunningWorker
<1>3. /\ UNCHANGED <<generation, authenticated, busy, signOutPending,
                     shuttingDown, queued, shown>>
      /\ UNCHANGED <<epoch, attempt, timers, gui, revocations, sessions, left>>
  BY DEF AcceptTokens, guiVars
<1>4. \/ /\ MayGoOn(workers[i].fence) /\ store' = s /\ memory' = s
         /\ access' = TRUE
      \/ UNCHANGED <<store, memory, access>>
  BY DEF AcceptTokens
<1>5. s \in 1..Len(sessions) /\ s \in Sessions
  BY <1>2, BoundsAssumption DEF Sound, Holding, IInv, TypeOK, Sessions
<1>6. WorkersOK' /\ workers' \in [Slots -> Worker \cup {None}]
  <2>1. CASE Answer(i, "error")
    BY <2>1, <1>2, <1>3, Answered DEF Outcomes
  <2>2. CASE Holds(i, "send", s)
    <3>1. w \in Worker /\ w.born = workers[i].born /\ w.fence = workers[i].fence
          /\ w.step = "send" /\ w.session = s
      BY <1>2 DEF Worker, Steps
    <3>2. Becomes(i, w)
      BY <2>2 DEF Holds
    <3> HIDE DEF w
    <3>3. Sound(w, generation, left, Len(sessions))
      BY <3>1, <1>2 DEF Sound, Holding
    <3> QED  BY <3>1, <3>2, <3>3, <1>2, <1>3, WorkerGoesOn
  <2> QED  BY <2>1, <2>2 DEF AcceptTokens
<1>7. TypeOK'
  BY <1>3, <1>4, <1>5, <1>6 DEF IInv, TypeOK
<1>8. StoreOK'
  <2>1. CASE UNCHANGED <<store, memory, access>>
    BY <2>1, <1>3 DEF IInv, StoreOK, SessionsSound, MemoryMirrorsStore,
                      SignedOutStaysOut, SignedOutIsRevoked
  <2>2. CASE /\ MayGoOn(workers[i].fence) /\ store' = s /\ memory' = s
             /\ access' = TRUE
    <3>1. s \notin left
      BY <2>2, <1>2 DEF MayGoOn, Sound, Holding
    <3>2. s # None
      BY <1>5, <1>2, NoneAssumption
    <3> QED  BY <2>2, <3>1, <3>2, <1>3, <1>5
             DEF IInv, StoreOK, SessionsSound, MemoryMirrorsStore,
                 SignedOutStaysOut, SignedOutIsRevoked
  <2> QED  BY <2>1, <2>2, <1>4
<1> QED  BY <1>6, <1>7, <1>8 DEF IInv

\* The service answers a request; of /me the answer is an account.
LEMMA RespondKeeps ==
    ASSUME IInv, NEW i \in Slots, Respond(i)
    PROVE  IInv'
<1> DEFINE account == sessions[workers[i].session]
           w == [workers[i] EXCEPT !.step = "answered", !.outcome = "ok",
                                   !.session = None, !.payload = account]
<1>1. At(i, Kinds, "send") /\ NothingElse
  BY DEF Respond
<1>2. /\ i \in Running /\ workers[i] \in Worker /\ Len(sessions) \in Nat
      /\ workers[i].step = "send"
      /\ Sound(workers[i], generation, left, Len(sessions))
  BY <1>1, RunningWorker
<1>3. CASE \/ workers[i].kind \in Requests /\ Answer(i, "ok")
           \/ Answer(i, "error") \/ Answer(i, "conflict")
  BY <1>1, <1>3, AnsweredQuietly DEF Outcomes
<1>4. CASE Becomes(i, w)
  <2>1. account \in Accounts
    BY <1>2 DEF IInv, TypeOK, Sound, Holding
  <2>2. w \in Worker /\ w.born = workers[i].born /\ w.fence = workers[i].fence
        /\ w.step = "answered" /\ w.payload = account
    BY <2>1, <1>2 DEF Worker, Steps, Outcomes
  <2> HIDE DEF w
  <2>3. Sound(w, generation, left, Len(sessions))
    BY <2>1, <2>2, <1>2 DEF Sound, Holding
  <2>4. UNCHANGED <<generation, busy, queued, left, sessions>>
    BY <1>1 DEF NothingElse, stateVars, durableVars
  <2>5. WorkersOK' /\ workers' \in [Slots -> Worker \cup {None}]
    BY <1>4, <1>2, <2>2, <2>3, <2>4, WorkerGoesOn
  <2> QED  BY <1>1, <2>5, QuietStep
<1> QED  BY <1>3, <1>4 DEF Respond

\* A request is answered with a 401.
LEMMA RespondUnauthorizedKeeps ==
    ASSUME IInv, NEW i \in Slots, RespondUnauthorized(i)
    PROVE  IInv'
<1> DEFINE w == [workers[i] EXCEPT !.step = "ready", !.again = TRUE]
<1>1. At(i, Kinds, "send")
  BY DEF RespondUnauthorized
<1>2. i \in Running /\ workers[i] \in Worker
  BY <1>1, RunningWorker
<1>3. /\ UNCHANGED <<generation, authenticated, busy, signOutPending,
                     shuttingDown, queued, shown, memory>>
      /\ UNCHANGED <<epoch, attempt, timers, gui, store, revocations,
                     sessions, left>>
  BY DEF RespondUnauthorized, guiVars, durableVars
<1>4. access' = FALSE \/ access' = access
  BY DEF RespondUnauthorized
<1>5. WorkersOK' /\ workers' \in [Slots -> Worker \cup {None}]
  <2>1. CASE Answer(i, "error") \/ Answer(i, "unauthorized")
    BY <2>1, <1>2, <1>3, Answered DEF Outcomes
  <2>2. CASE Becomes(i, w)
    <3>1. w \in Worker /\ w.born = workers[i].born
          /\ w.fence = workers[i].fence /\ w.step = "ready"
      BY <1>2 DEF Worker, Steps
    <3> HIDE DEF w
    <3> QED  BY <2>2, <3>1, <1>2, <1>3, HoldsNothing DEF Holding
  <2> QED  BY <2>1, <2>2 DEF RespondUnauthorized
<1>6. TypeOK'
  BY <1>3, <1>4, <1>5 DEF IInv, TypeOK
<1>7. StoreOK'
  BY <1>3, <1>4 DEF IInv, StoreOK, SessionsSound, MemoryMirrorsStore,
                    SignedOutStaysOut, SignedOutIsRevoked
<1> QED  BY <1>5, <1>6, <1>7 DEF IInv

\* Every step of a worker keeps the invariant.
LEMMA WorkerKeeps ==
    ASSUME IInv, NEW i \in Slots, WorkerNext(i)
    PROVE  IInv'
<1>1. CASE RefreshFails(i)
  BY <1>1, AnsweredQuietly DEF RefreshFails, Outcomes
<1>2. CASE LoginFails(i)
  BY <1>2, AnsweredQuietly DEF LoginFails, Outcomes
<1> QED  BY <1>1, <1>2, ReadGenerationKeeps, LoadStoredKeeps, EnsureAccessKeeps,
            RefreshGrantedKeeps, RefreshUnauthorizedKeeps, AuthorizeKeeps,
            ExchangeKeeps, AcceptTokensKeeps, RespondKeeps,
            RespondUnauthorizedKeeps DEF WorkerNext
-------------------------------------------------------------------------------
(* The steps of the GUI thread.                                            *)

\* A handler that starts a worker, and changes of the rest what is typed only.
LEMMA Started ==
    ASSUME IInv, NEW kind \in Kinds, NEW payload \in Payloads \cup {None},
           Start(kind, payload),
           UNCHANGED <<generation, authenticated, signOutPending, shuttingDown,
                       queued, shown, memory, access>>,
           UNCHANGED <<gui, store, revocations, sessions, left>>,
           epoch' \in 0..MaxEpoch, attempt' \in 0..RetryAttempts,
           timers' \subseteq Timer
    PROVE  IInv'
<1>1. WorkersOK' /\ workers' \in [Slots -> Worker \cup {None}] /\ busy' \in BOOLEAN
  BY StartSound
<1>2. TypeOK'
  BY <1>1 DEF IInv, TypeOK
<1>3. StoreOK'
  BY DEF IInv, StoreOK, SessionsSound, MemoryMirrorsStore, SignedOutStaysOut,
         SignedOutIsRevoked
<1> QED  BY <1>1, <1>2, <1>3 DEF IInv

\* A handler that leaves the workers and the sessions alone.
LEMMA Untouched ==
    ASSUME IInv, TypeOK',
           UNCHANGED <<generation, busy, queued, workers, sessions, left>>,
           UNCHANGED <<memory, store>>, access' => access,
           revocations \subseteq revocations'
    PROVE  IInv'
<1>1. WorkersOK'
  BY DEF IInv, WorkersOK, WorkersSound, Running, BusyMatchesWorkers,
         QueuedHasCarrier, AnyCurrent, Current
<1>2. StoreOK'
  BY DEF IInv, StoreOK, SessionsSound, MemoryMirrorsStore, SignedOutStaysOut,
         SignedOutIsRevoked
<1> QED  BY <1>1, <1>2 DEF IInv

\* restore() and its retries.
LEMMA RestoreKeeps ==
    ASSUME IInv, Restore \/ \E t \in timers : RetryRestore(t)
    PROVE  IInv'
<1>1. CASE Restore
  <2>1. /\ Start("restore", None) /\ epoch' = epoch + 1 /\ epoch < MaxEpoch
        /\ attempt' = 0
        /\ UNCHANGED <<generation, authenticated, signOutPending, shuttingDown,
                       queued, shown, memory, access>>
        /\ UNCHANGED <<gui, timers, store, revocations, sessions, left>>
    BY <1>1 DEF Restore, durableVars
  <2>2. epoch' \in 0..MaxEpoch /\ attempt' \in 0..RetryAttempts
        /\ timers' \subseteq Timer
    BY <2>1, BoundsAssumption DEF IInv, TypeOK
  <2> QED  BY <2>1, <2>2, Started DEF Kinds
<1>2. ASSUME NEW t \in timers, RetryRestore(t)
      PROVE  IInv'
  <2>1. /\ UNCHANGED <<generation, authenticated, signOutPending, shuttingDown,
                       queued, shown, memory, access>>
        /\ UNCHANGED <<epoch, attempt, gui, store, revocations, sessions, left>>
        /\ timers' = timers \ {t}
    BY <1>2 DEF RetryRestore, durableVars
  <2>2. Start("restore", None) \/ UNCHANGED <<busy, workers>>
    BY <1>2 DEF RetryRestore
  <2>3. epoch' \in 0..MaxEpoch /\ attempt' \in 0..RetryAttempts
        /\ timers' \subseteq Timer
    BY <2>1 DEF IInv, TypeOK
  <2>4. CASE Start("restore", None)
    BY <2>1, <2>3, <2>4, Started DEF Kinds
  <2>5. CASE UNCHANGED <<busy, workers>>
    <3>1. TypeOK'
      BY <2>1, <2>3, <2>5 DEF IInv, TypeOK
    <3> QED  BY <2>1, <2>5, <3>1, Untouched
  <2> QED  BY <2>2, <2>4, <2>5
<1> QED  BY <1>1, <1>2

\* login(), sync(), preview_bootstrap() and resolve_bootstrap().
LEMMA RequestKeeps ==
    ASSUME IInv,
           \/ Login \/ PreviewBootstrap
           \/ \E p \in Payloads : Sync(p) \/ ResolveBootstrap(p)
    PROVE  IInv'
<1>1. /\ UNCHANGED <<generation, authenticated, signOutPending, shuttingDown,
                     shown, memory, access>>
      /\ UNCHANGED <<epoch, attempt, timers, gui>>
      /\ UNCHANGED <<store, revocations, sessions, left>>
  BY DEF Login, PreviewBootstrap, Sync, ResolveBootstrap, Bootstrap, guiVars,
         durableVars
<1>2. epoch' \in 0..MaxEpoch /\ attempt' \in 0..RetryAttempts
      /\ timers' \subseteq Timer
  BY <1>1 DEF IInv, TypeOK
<1>3. ASSUME NEW kind \in Kinds, NEW p \in Payloads \cup {None},
             Start(kind, p), UNCHANGED queued
      PROVE  IInv'
  BY <1>1, <1>2, <1>3, Started
<1>4. CASE Login
  BY <1>3, <1>4 DEF Login, Kinds
<1>5. CASE PreviewBootstrap
  BY <1>3, <1>5 DEF PreviewBootstrap, Bootstrap, Kinds
<1>6. ASSUME NEW p \in Payloads, ResolveBootstrap(p)
      PROVE  IInv'
  BY <1>3, <1>6 DEF ResolveBootstrap, Bootstrap, Kinds
<1>7. ASSUME NEW p \in Payloads, Sync(p)
      PROVE  IInv'
  <2>1. CASE ~busy
    BY <1>3, <1>7, <2>1 DEF Sync, SyncNow, Kinds
  <2>2. CASE busy
    <3>1. queued' = p /\ UNCHANGED <<busy, workers>>
      BY <1>7, <2>2 DEF Sync, SyncNow
    <3>2. TypeOK'
      BY <1>1, <3>1 DEF IInv, TypeOK
    <3>3. WorkersOK'
      BY <1>1, <2>2, <3>1
      DEF IInv, WorkersOK, WorkersSound, Running, BusyMatchesWorkers,
          QueuedHasCarrier, AnyCurrent, Current
    <3>4. StoreOK'
      BY <1>1 DEF IInv, StoreOK, SessionsSound, MemoryMirrorsStore,
                  SignedOutStaysOut, SignedOutIsRevoked
    <3> QED  BY <3>2, <3>3, <3>4 DEF IInv
  <2> QED  BY <2>1, <2>2
<1> QED  BY <1>4, <1>5, <1>6, <1>7

\* The revision stream is rejected.
LEMMA StreamUnauthorizedKeeps ==
    ASSUME IInv, StreamUnauthorized
    PROVE  IInv'
<1>1. /\ UNCHANGED <<generation, authenticated, busy, signOutPending,
                     shuttingDown, queued, shown, memory, workers>>
      /\ UNCHANGED <<epoch, attempt, timers, gui, store, revocations,
                     sessions, left>>
      /\ access' = FALSE
  BY DEF StreamUnauthorized, guiVars, durableVars
<1>2. TypeOK'
  BY <1>1 DEF IInv, TypeOK
<1> QED  BY <1>1, <1>2, Untouched

\* logout() and shutdown() raise the fence.
LEMMA FencingKeeps ==
    ASSUME IInv, Logout \/ Shutdown
    PROVE  IInv'
<1>1. /\ UNCHANGED <<authenticated, shown, memory, access>>
      /\ UNCHANGED <<epoch, attempt, timers, workers>>
      /\ UNCHANGED <<store, revocations, sessions, left>>
      /\ generation' = generation + 1 /\ generation < MaxGeneration
      /\ busy' = FALSE /\ queued' = None
  BY DEF Logout, Shutdown, guiVars, durableVars
<1>2. signOutPending' \in BOOLEAN /\ shuttingDown' \in BOOLEAN
      /\ gui' \in {"idle", "signing_out"}
  BY DEF Logout, Shutdown, guiVars, IInv, TypeOK
<1>3. generation' \in 0..MaxGeneration
  BY <1>1, BoundsAssumption DEF IInv, TypeOK
<1>4. TypeOK'
  BY <1>1, <1>2, <1>3 DEF IInv, TypeOK
<1>5. WorkersOK'
  BY <1>1, FenceRaised
<1>6. StoreOK'
  BY <1>1 DEF IInv, StoreOK, SessionsSound, MemoryMirrorsStore,
              SignedOutStaysOut, SignedOutIsRevoked
<1> QED  BY <1>4, <1>5, <1>6 DEF IInv

\* A sign-out that is refused.
LEMMA SignOutRefusedKeeps ==
    ASSUME IInv, SignOutRefused
    PROVE  IInv'
<1>1. /\ UNCHANGED <<generation, authenticated, busy, signOutPending,
                     shuttingDown, queued, shown, memory, access>>
      /\ UNCHANGED <<epoch, attempt, timers, workers, store, sessions, left>>
      /\ gui' = "idle"
      /\ revocations' \in {revocations,
                           revocations \cup ({LeavingSession} \ {None})}
  BY DEF SignOutRefused, stateVars
<1>2. {LeavingSession} \ {None} \subseteq 1..Len(sessions)
  BY DEF LeavingSession, IInv, StoreOK, SessionsSound
<1>3. revocations' \subseteq 1..Len(sessions) /\ revocations \subseteq revocations'
  BY <1>1, <1>2 DEF IInv, TypeOK
<1>4. TypeOK'
  BY <1>1, <1>3 DEF IInv, TypeOK
<1> QED  BY <1>1, <1>3, <1>4, Untouched

\* A sign-out: memory and store held one session, and that one is revoked.
LEMMA SignOutKeeps ==
    ASSUME IInv, SignOut
    PROVE  IInv'
<1>1. /\ gui' = "idle" /\ store' = None /\ memory' = None /\ access' = FALSE
      /\ authenticated' = FALSE /\ shown' = None /\ signOutPending' = FALSE
      /\ generation' = generation + 1 /\ generation < MaxGeneration
      /\ busy' = FALSE /\ queued' = None
      /\ UNCHANGED <<shuttingDown, epoch, attempt, timers, workers, sessions>>
      /\ revocations' = revocations \cup ({LeavingSession} \ {None})
      /\ left' = left \cup ({memory, store} \ {None})
  BY DEF SignOut
<1>2. {LeavingSession} \ {None} = {memory, store} \ {None}
  BY DEF LeavingSession, IInv, StoreOK, MemoryMirrorsStore
<1>3. {memory, store} \ {None} \subseteq 1..Len(sessions)
  BY DEF IInv, StoreOK, SessionsSound
<1>4. generation' \in 0..MaxGeneration
  BY <1>1, BoundsAssumption DEF IInv, TypeOK
<1>5. left' \subseteq 1..Len(sessions') /\ revocations' \subseteq 1..Len(sessions')
  BY <1>1, <1>2, <1>3 DEF IInv, TypeOK
<1>6. TypeOK'
  BY <1>1, <1>4, <1>5 DEF IInv, TypeOK
<1>7. WorkersOK'
  BY <1>1, FenceRaised
<1>8. left' \subseteq revocations' /\ None \notin left'
  <2>1. None \notin 1..Len(sessions')
    BY NoneAssumption
  <2> QED  BY <1>1, <1>2, <1>5, <2>1 DEF IInv, StoreOK, SignedOutIsRevoked
<1>9. StoreOK'
  BY <1>1, <1>8 DEF StoreOK, SessionsSound, MemoryMirrorsStore,
                    SignedOutStaysOut, SignedOutIsRevoked
<1> QED  BY <1>6, <1>7, <1>9 DEF IInv

\* The process starts again.
LEMMA RestartKeeps ==
    ASSUME IInv, Restart
    PROVE  IInv'
<1>1. /\ generation' = 0 /\ authenticated' = FALSE /\ busy' = FALSE
      /\ signOutPending' = FALSE /\ shuttingDown' = FALSE /\ queued' = None
      /\ shown' = None /\ memory' = None /\ access' = FALSE
      /\ epoch' = 0 /\ attempt' = 0 /\ timers' = {} /\ gui' = "idle"
      /\ workers' = [i \in Slots |-> None]
      /\ UNCHANGED <<store, revocations, sessions, left>>
  BY DEF Restart, durableVars
<1>2. workers' \in [Slots -> Worker \cup {None}] /\ timers' \subseteq Timer
  BY <1>1
<1>3. TypeOK'
  <2>1. 0 \in 0..MaxGeneration /\ 0 \in 0..MaxEpoch /\ 0 \in 0..RetryAttempts
    BY BoundsAssumption
  <2> QED  BY <1>1, <1>2, <2>1 DEF IInv, TypeOK
<1>4. WorkersOK'
  BY <1>1 DEF WorkersOK, WorkersSound, Running, BusyMatchesWorkers,
              QueuedHasCarrier, AnyCurrent
<1>5. StoreOK'
  <2>1. None \notin left'
    BY <1>1, NoneNotLeft
  <2> QED  BY <1>1, <2>1 DEF IInv, StoreOK, SessionsSound, MemoryMirrorsStore,
                             SignedOutStaysOut, SignedOutIsRevoked
<1> QED  BY <1>3, <1>4, <1>5 DEF IInv

\* A result reaches the GUI: only that of a worker of this generation counts.
LEMMA DeliverKeeps ==
    ASSUME IInv, NEW i \in Slots, Deliver(i)
    PROVE  IInv'
<1> DEFINE w == [workers[i] EXCEPT !.step = "delivered", !.outcome = "ok"]
<1>1. At(i, Kinds, "answered") /\ Becomes(i, w) /\ OnResult(workers[i])
  BY DEF Deliver
<1>2. /\ i \in Running /\ workers[i] \in Worker
      /\ workers[i].step = "answered"
      /\ Sound(workers[i], generation, left, Len(sessions))
  BY <1>1, RunningWorker
<1>3. /\ UNCHANGED <<generation, busy, signOutPending, shuttingDown, queued>>
      /\ UNCHANGED <<epoch, gui, revocations, sessions, left>>
  BY DEF Deliver
<1>4. w \in Worker /\ w.born = workers[i].born /\ w.fence = workers[i].fence
      /\ w.step = "delivered"
  BY <1>2 DEF Worker, Steps, Outcomes
<1>5. WorkersOK' /\ workers' \in [Slots -> Worker \cup {None}]
  <2> HIDE DEF w
  <2> QED  BY <1>1, <1>2, <1>3, <1>4, HoldsNothing DEF Holding
<1> HIDE DEF w
<1>6. /\ store' \in {None, store}
      /\ \/ memory' = None /\ access' = FALSE
         \/ memory' = memory /\ access' \in {FALSE, access} /\ store' = store
  BY <1>1 DEF OnResult, SignedIn, ExpireSession, RestoreFailed, NothingStored,
              NoEffect
<1>7. authenticated' \in BOOLEAN
  BY <1>1 DEF OnResult, SignedIn, ExpireSession, RestoreFailed, NothingStored,
              NoEffect, IInv, TypeOK
<1>8. shown' \in Accounts \cup {None}
  <2>1. CASE /\ workers[i].outcome = "ok"
             /\ workers[i].kind \in {"restore", "login"} /\ SignedIn(workers[i])
    BY <2>1, <1>2 DEF SignedIn, Sound
  <2>2. CASE shown' \in {None, shown}
    BY <2>2 DEF IInv, TypeOK
  <2> QED  BY <2>1, <2>2, <1>1
           DEF OnResult, ExpireSession, RestoreFailed, NothingStored, NoEffect
<1>9. attempt' \in 0..RetryAttempts /\ timers' \subseteq Timer
  <2>1. /\ attempt \in 0..RetryAttempts /\ timers \subseteq Timer
        /\ 0 \in 0..RetryAttempts
    BY BoundsAssumption DEF IInv, TypeOK
  <2>2. CASE RestoreFailed
    <3>1. [generation |-> generation, epoch |-> epoch] \in Timer
      BY DEF IInv, TypeOK, Timer
    <3>2. CASE signOutPending \/ attempt >= RetryAttempts
      BY <2>1, <2>2, <3>2 DEF RestoreFailed
    <3>3. CASE ~(signOutPending \/ attempt >= RetryAttempts)
      <4>1. attempt + 1 \in 0..RetryAttempts
        BY <2>1, <3>3, BoundsAssumption
      <4> QED  BY <2>1, <2>2, <3>1, <3>3, <4>1 DEF RestoreFailed
    <3> QED  BY <3>2, <3>3
  <2>3. CASE attempt' \in {0, attempt} /\ UNCHANGED timers
    BY <2>1, <2>3
  <2> QED  BY <2>2, <2>3, <1>1
           DEF OnResult, SignedIn, ExpireSession, NothingStored, NoEffect
<1>10. TypeOK'
  <2>1. /\ memory' \in Sessions \cup {None} /\ store' \in Sessions \cup {None}
        /\ access' \in BOOLEAN
    BY <1>6 DEF IInv, TypeOK
  <2>2. /\ generation' \in 0..MaxGeneration /\ busy' \in BOOLEAN
        /\ signOutPending' \in BOOLEAN /\ shuttingDown' \in BOOLEAN
        /\ queued' \in Payloads \cup {None} /\ epoch' \in 0..MaxEpoch
        /\ gui' \in {"idle", "signing_out"}
        /\ sessions' \in Seq(Accounts) /\ Len(sessions') <= MaxSessions
        /\ revocations' \subseteq 1..Len(sessions')
        /\ left' \subseteq 1..Len(sessions')
    BY <1>3 DEF IInv, TypeOK
  <2> QED  BY <1>5, <1>7, <1>8, <1>9, <2>1, <2>2 DEF TypeOK
<1>11. StoreOK'
  <2>1. SessionsSound /\ MemoryMirrorsStore /\ left \cap {memory, store} = {}
        /\ left \subseteq revocations
    BY DEF IInv, StoreOK, SignedOutStaysOut, SignedOutIsRevoked
  <2>2. SignedOutIsRevoked'
    BY <2>1, <1>3 DEF SignedOutIsRevoked
  <2>3. SignedOutStaysOut'
    BY <2>1, <1>3, <1>6, NoneNotLeft DEF SignedOutStaysOut
  <2>4. MemoryMirrorsStore'
    BY <2>1, <1>6 DEF MemoryMirrorsStore
  <2>5. memory' \in 1..Len(sessions') \cup {None}
        /\ store' \in 1..Len(sessions') \cup {None}
    BY <2>1, <1>3, <1>6 DEF SessionsSound
  <2>6. access' => memory' # None
    BY <2>1, <1>6 DEF SessionsSound, IInv, TypeOK
  <2> QED  BY <2>2, <2>3, <2>4, <2>5, <2>6 DEF StoreOK, SessionsSound
<1> QED  BY <1>5, <1>10, <1>11 DEF IInv

\* A worker ends, and a waiting sync starts when it was the last.
LEMMA FinishKeeps ==
    ASSUME IInv, NEW i \in Slots, Finish(i)
    PROVE  IInv'
<1> DEFINE rest == [workers EXCEPT ![i] = None]
           w    == NewWorker("sync", queued)
<1>1. /\ UNCHANGED <<generation, authenticated, signOutPending, shuttingDown,
                     shown, memory, access>>
      /\ UNCHANGED <<epoch, attempt, timers, gui>>
      /\ UNCHANGED <<store, revocations, sessions, left>>
  BY DEF Finish, guiVars, durableVars
<1>2. /\ workers \in [Slots -> Worker \cup {None}]
      /\ generation \in 0..MaxGeneration /\ queued \in Payloads \cup {None}
  BY DEF IInv, TypeOK
<1>3. rest \in [Slots -> Worker \cup {None}]
      /\ \A j \in Slots : rest[j] = IF j = i THEN None ELSE workers[j]
  BY <1>2
<1>4. i \in Running /\ workers[i] # None
  BY DEF Finish, At, Running
<1>5. CASE /\ ~Current(workers[i]) \/ queued = None \/ AnyCurrent(rest)
           /\ busy' = AnyCurrent(rest) /\ workers' = rest /\ UNCHANGED queued
  <2> HIDE DEF rest
  <2>1. WorkersSound'
    BY <1>1, <1>3, <1>5 DEF IInv, WorkersOK, WorkersSound, Running
  <2>2. AnyCurrent(workers)' <=> AnyCurrent(rest)
    BY <1>1, <1>5 DEF AnyCurrent, Current
  <2>3. BusyMatchesWorkers'
    BY <2>2, <1>5 DEF BusyMatchesWorkers
  <2>4. QueuedHasCarrier'
    <3>1. CASE queued = None
      BY <3>1, <1>5 DEF QueuedHasCarrier
    <3>2. CASE AnyCurrent(rest)
      BY <3>2, <2>2 DEF QueuedHasCarrier
    <3>3. CASE ~Current(workers[i]) /\ queued # None
      <4>1. AnyCurrent(workers)
        BY <3>3 DEF IInv, WorkersOK, QueuedHasCarrier
      <4>2. AnyCurrent(rest)
        BY <4>1, <3>3, <1>3 DEF AnyCurrent
      <4> QED  BY <4>2, <2>2 DEF QueuedHasCarrier
    <3> QED  BY <3>1, <3>2, <3>3, <1>5
  <2>5. busy' \in BOOLEAN
    BY <1>5 DEF AnyCurrent
  <2>6. TypeOK'
    BY <1>1, <1>3, <1>5, <2>5 DEF IInv, TypeOK
  <2>7. StoreOK'
    BY <1>1 DEF IInv, StoreOK, SessionsSound, MemoryMirrorsStore,
                SignedOutStaysOut, SignedOutIsRevoked
  <2> QED  BY <2>1, <2>3, <2>4, <2>6, <2>7 DEF IInv, WorkersOK
<1>6. CASE /\ queued # None /\ queued' = None /\ busy' = TRUE
           /\ workers' = [workers EXCEPT ![i] = w]
  <2>1. w \in Worker /\ w # None
    <3>1. w \in Worker
      BY <1>2 DEF NewWorker, Worker, Steps, Outcomes, Kinds
    <3> QED  BY <3>1, NoneAssumption
  <2>2. w.born = generation /\ Sound(w, generation, left, Len(sessions))
    BY <1>2 DEF NewWorker, Sound, Holding
  <2> HIDE DEF w
  <2>3. \A j \in Slots : workers'[j] = IF j = i THEN w ELSE workers[j]
    BY <1>2, <1>6
  <2>4. workers' \in [Slots -> Worker \cup {None}]
    BY <1>2, <1>6, <2>1
  <2>5. WorkersSound'
    BY <1>1, <2>2, <2>3 DEF IInv, WorkersOK, WorkersSound, Running
  <2>6. AnyCurrent(workers)'
    BY <1>1, <2>1, <2>2, <2>3 DEF AnyCurrent, Current
  <2>7. BusyMatchesWorkers' /\ QueuedHasCarrier'
    BY <2>6, <1>6 DEF BusyMatchesWorkers, QueuedHasCarrier
  <2>8. TypeOK'
    BY <1>1, <1>6, <2>4 DEF IInv, TypeOK
  <2>9. StoreOK'
    BY <1>1 DEF IInv, StoreOK, SessionsSound, MemoryMirrorsStore,
                SignedOutStaysOut, SignedOutIsRevoked
  <2> QED  BY <2>5, <2>7, <2>8, <2>9 DEF IInv, WorkersOK
<1>7. CASE /\ queued' = None /\ busy' = FALSE /\ workers' = rest
           /\ ~AnyCurrent(rest)
  <2> HIDE DEF rest
  <2>1. WorkersSound'
    BY <1>1, <1>3, <1>7 DEF IInv, WorkersOK, WorkersSound, Running
  <2>2. ~AnyCurrent(workers)'
    BY <1>1, <1>7 DEF AnyCurrent, Current
  <2>3. BusyMatchesWorkers' /\ QueuedHasCarrier'
    BY <2>2, <1>7 DEF BusyMatchesWorkers, QueuedHasCarrier
  <2>4. TypeOK'
    BY <1>1, <1>3, <1>7 DEF IInv, TypeOK
  <2>5. StoreOK'
    BY <1>1 DEF IInv, StoreOK, SessionsSound, MemoryMirrorsStore,
                SignedOutStaysOut, SignedOutIsRevoked
  <2> QED  BY <2>1, <2>3, <2>4, <2>5 DEF IInv, WorkersOK
<1> QED  BY <1>5, <1>6, <1>7 DEF Finish
-------------------------------------------------------------------------------
\* Every step keeps the invariant.
LEMMA NextKeeps == IInv /\ [Next]_vars => IInv'
<1> SUFFICES ASSUME IInv, [Next]_vars PROVE IInv'
  OBVIOUS
<1>1. CASE Next
  <2>1. CASE GuiNext
    BY <2>1, RestoreKeeps, RequestKeeps, StreamUnauthorizedKeeps, FencingKeeps,
       SignOutRefusedKeeps, SignOutKeeps, RestartKeeps, DeliverKeeps,
       FinishKeeps DEF GuiNext
  <2>2. CASE \E i \in Slots : WorkerNext(i)
    BY <2>2, WorkerKeeps
  <2> QED  BY <1>1, <2>1, <2>2 DEF Next
<1>2. CASE UNCHANGED vars
  <2>1. /\ UNCHANGED <<generation, authenticated, busy, signOutPending,
                       shuttingDown, queued, shown, memory, access>>
        /\ UNCHANGED <<epoch, attempt, timers, gui, workers>>
        /\ UNCHANGED <<store, revocations, sessions, left>>
    BY <1>2 DEF vars, stateVars, guiVars, durableVars
  <2>2. TypeOK'
    BY <2>1 DEF IInv, TypeOK
  <2> QED  BY <2>1, <2>2, Untouched
<1> QED  BY <1>1, <1>2

\* What every step of the service and its workers relies on always holds.
THEOREM Invariance == Spec => []IInv
  BY InitInvariant, NextKeeps, PTL DEF Spec

\* The state of the service stays within its types and bounds: a restore is
\* retried no more often than _RESTORE_RETRY_ATTEMPTS, revocations and
\* sign-outs are of sessions the service opened.
THEOREM TypeCorrect == Spec => []TypeOK
<1>1. IInv => TypeOK
  BY DEF IInv
<1> QED  BY <1>1, Invariance, PTL

\* Sign-out is final: no worker, refresh or restore brings the session back.
THEOREM SignOutIsFinal == Spec => []SignedOutStaysOut
<1>1. IInv => SignedOutStaysOut
  BY DEF IInv, StoreOK
<1> QED  BY <1>1, Invariance, PTL

\* Every session a sign-out takes away is queued for revocation.
THEOREM SignOutRevokes == Spec => []SignedOutIsRevoked
<1>1. IInv => SignedOutIsRevoked
  BY DEF IInv, StoreOK
<1> QED  BY <1>1, Invariance, PTL

\* Memory and credential store never hold two different sessions.
THEOREM MemoryFollowsStore == Spec => []MemoryMirrorsStore
<1>1. IInv => MemoryMirrorsStore
  BY DEF IInv, StoreOK
<1> QED  BY <1>1, Invariance, PTL

\* `busy` is exact, and a waiting sync always has a worker to start it.
THEOREM BusyIsExact == Spec => [](BusyMatchesWorkers /\ QueuedHasCarrier)
<1>1. IInv => BusyMatchesWorkers /\ QueuedHasCarrier
  BY DEF IInv, WorkersOK
<1> QED  BY <1>1, Invariance, PTL

\* Only a restore, a restart or a new account takes a wanted retry away.
LEMMA RetryStep == IInv /\ [Next]_vars => [RetryKept]_vars
<1> SUFFICES ASSUME IInv, Next PROVE RetryKept
  BY DEF vars, stateVars, guiVars, durableVars
<1>1. CASE timers \subseteq timers'
  BY <1>1 DEF RetryKept
<1>2. CASE Restart
  BY <1>2 DEF RetryKept
<1>3. ASSUME NEW t \in timers, RetryRestore(t)
      PROVE  RetryKept
  <2>1. timers' = timers \ {t}
    BY <1>3 DEF RetryRestore
  <2>2. CASE \/ signOutPending \/ authenticated
             \/ t.epoch # epoch \/ t.generation # generation
    BY <2>1, <2>2 DEF RetryKept
  <2>3. CASE ~signOutPending /\ Start("restore", None)
    <3> DEFINE w == NewWorker("restore", None)
    <3>1. PICK i \in Slots \ Running : workers' = [workers EXCEPT ![i] = w]
      BY <2>3 DEF Start
    <3>2. workers \in [Slots -> Worker \cup {None}] /\ generation \in 0..MaxGeneration
      BY DEF IInv, TypeOK
    <3>3. w \in Worker /\ w.kind = "restore"
      BY <3>2 DEF NewWorker, Worker, Steps, Outcomes, Kinds
    <3> HIDE DEF w
    <3>4. workers'[i] = w /\ workers[i] = None /\ w # None
      BY <3>1, <3>2, <3>3, NoneAssumption DEF Running
    <3> QED  BY <3>3, <3>4 DEF RetryKept
  <2> QED  BY <1>3, <2>2, <2>3 DEF RetryRestore
<1>4. CASE Next /\ ~Restart /\ ~\E t \in timers : RetryRestore(t)
  <2>1. CASE \E i \in Slots : Deliver(i)
    <3>1. timers \subseteq timers'
      BY <2>1 DEF Deliver, OnResult, SignedIn, ExpireSession, RestoreFailed,
                  NothingStored, NoEffect
    <3> QED  BY <3>1, <1>1
  <2>2. CASE \E i \in Slots : WorkerNext(i)
    <3>1. UNCHANGED timers
      BY <2>2 DEF WorkerNext, ReadGeneration, LoadStored, EnsureAccess,
                  RefreshGranted, RefreshFails, RefreshUnauthorized, Authorize,
                  LoginFails, Exchange, AcceptTokens, Respond,
                  RespondUnauthorized, NothingElse, guiVars
    <3> QED  BY <3>1, <1>1
  <2>3. CASE \/ Restore \/ Login \/ PreviewBootstrap
             \/ \E p \in Payloads : Sync(p) \/ ResolveBootstrap(p)
             \/ StreamUnauthorized \/ Logout \/ SignOutRefused \/ SignOut
             \/ Shutdown \/ \E i \in Slots : Finish(i)
    <3>1. UNCHANGED timers
      BY <2>3 DEF Restore, Login, PreviewBootstrap, Sync, ResolveBootstrap,
                  Bootstrap, StreamUnauthorized, Logout, SignOutRefused,
                  SignOut, Shutdown, Finish, guiVars
    <3> QED  BY <3>1, <1>1
  <2> QED  BY <1>4, <2>1, <2>2, <2>3 DEF Next, GuiNext
<1> QED  BY <1>2, <1>3, <1>4

\* A login or a sync that keeps the service busy never uses a retry up.
THEOREM RetriesSurvive == Spec => RetryNotConsumed
  BY Invariance, RetryStep, PTL DEF Spec, RetryNotConsumed
=============================================================================
